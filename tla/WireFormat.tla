----------------------------- MODULE WireFormat -----------------------------
(***************************************************************************)
(* How messages become bytes and bytes messages: internal/wire/msgs.go,    *)
(* schedule_msgs.go and protocol/client_control.go, and of the baseline    *)
(* protocols' generated defs.go.  A message type is a layout: the parts    *)
(* its Marshal writes and its Unmarshal reads, which name the same slices  *)
(* in the same order in every type.  Put turns a message into the calls of *)
(* Write that Marshal makes, Get runs Unmarshal on the bytes that have     *)
(* arrived, with its length limits and its early returns.                  *)
(*                                                                         *)
(* A value is a pair of a name and a path of numbers; a byte is            *)
(* <<value, j, w>>, the j-th of the w bytes a value was written in, so a   *)
(* field that is read at another offset or width than it was written has   *)
(* no value.  A list length is the value <<"#", <<n>>>>.                   *)
(***************************************************************************)
EXTENDS Integers, Sequences, SequencesExt

CONSTANTS
  MaxBitmapBytes, maxSlotListLen, MaxStateEntries, MaxScheduleLen,
  MaxScheduleHistoryLen    \* limits of the list lengths, msgs.go:68

ASSUME LimitsAssumption ==
  {MaxBitmapBytes, maxSlotListLen, MaxStateEntries, MaxScheduleLen,
   MaxScheduleHistoryLen} \subseteq Nat

-----------------------------------------------------------------------------
(* Layouts: the parts of a message type, in order.                         *)

\* A fixed array b of `size` bytes; fields[f] = <<i, j>> is the slice b[i:j]
\* that holds f, and the field n is the length of the list that follows.
Block(size, fields) == [part |-> "block", size |-> size, fields |-> fields]

\* As many elements as the block before it says, at most `limit` of them.
Limited(f, type, limit) ==
  [part |-> "list", field |-> f, type |-> type, limit |-> limit, checked |-> TRUE]

NoLimit == 2^30

List(f, type) == Limited(f, type, NoLimit)

Nested(f, type) == [part |-> "nested", field |-> f, type |-> type, checked |-> TRUE]

\* The caller does not look at the error the element's Unmarshal returns.
Unchecked(p) == [p EXCEPT !.checked = FALSE]

\* The length of a list in an array of its own of w bytes.
Count(w) == Block(w, [n |-> <<0, w>>])

\* A message type; `unwritten` are the fields of the struct that neither
\* Marshal nor Unmarshal touches.
Type(parts) == [parts |-> parts, unwritten |-> {}]

NoCode == 0 - 1              \* stands for the code of a message sent without one
Zero == <<"zero", <<>>>>     \* what Go leaves in a field that is not assigned
Torn == <<"torn", <<>>>>     \* bytes that are not those of one value
Length(k) == <<"#", <<k>>>>

FieldsOf(p) == IF p.part = "block" THEN DOMAIN p.fields \ {"n"} ELSE {p.field}

StructFields(type) ==
  UNION {FieldsOf(type.parts[i]) : i \in DOMAIN type.parts} \cup type.unwritten

\* The part that holds f; a field no part holds is a plain value too.
PartOf(type, f) ==
  LET own == {i \in DOMAIN type.parts : f \in FieldsOf(type.parts[i])}
  IN  IF own = {} THEN [part |-> "block"] ELSE type.parts[CHOOSE i \in own : TRUE]

\* A message whose fields all differ; id tells apart the messages of one type
\* and the elements of one list, and every list has k elements.
RECURSIVE Sample(_, _, _)
Sample(type, id, k) ==
  [f \in StructFields(type) |->
     LET p == PartOf(type, f)
     IN  CASE p.part = "block"  -> <<f, id>>
           [] p.part = "list"   -> [i \in 1..k |-> Sample(p.type, Append(id, i), k)]
           [] p.part = "nested" -> Sample(p.type, id, k)]

\* A struct none of whose fields has been assigned.
RECURSIVE ZeroValue(_)
ZeroValue(type) ==
  [f \in StructFields(type) |->
     LET p == PartOf(type, f)
     IN  CASE p.part = "block"  -> Zero
           [] p.part = "list"   -> <<>>
           [] p.part = "nested" -> ZeroValue(p.type)]

-----------------------------------------------------------------------------
(* Marshal.                                                                *)

\* Byte i of the array of a block, 0 up: of the field f whose slice holds it.
PutByte(p, m, following, i, f) ==
  <<IF f = "n" THEN Length(Len(m[following.field])) ELSE m[f],
    i - p.fields[f][1], p.fields[f][2] - p.fields[f][1]>>

Holds(p, f, i) == p.fields[f][1] <= i /\ i < p.fields[f][2]

PutBlock(p, m, following) ==
  [i \in 1..p.size |->
     IF \E f \in DOMAIN p.fields : Holds(p, f, i - 1)
     THEN PutByte(p, m, following, i - 1, CHOOSE f \in DOMAIN p.fields : Holds(p, f, i - 1))
     ELSE <<Zero, 0, 1>>]

\* The calls of Write that Marshal makes for one struct, one per part.
RECURSIVE Put(_, _)
PutPart(p, m, following) ==
  CASE p.part = "block"  -> PutBlock(p, m, following)
    [] p.part = "list"   -> FlattenSeq([e \in DOMAIN m[p.field] |->
                                          FlattenSeq(Put(p.type, m[p.field][e]))])
    [] p.part = "nested" -> FlattenSeq(Put(p.type, m[p.field]))

Put(type, m) ==
  [i \in DOMAIN type.parts |->
     PutPart(type.parts[i], m, type.parts[IF i < Len(type.parts) THEN i + 1 ELSE i])]

-----------------------------------------------------------------------------
(* Unmarshal.  A read in progress: st is "ok", "short" (the bytes end      *)
(* before the struct does) or "over" (a length past its limit), at the     *)
(* number of bytes taken, val the struct so far, n the last length read,   *)
(* and ran says that some read wanted bytes that are not there.            *)

\* The value of the bytes b[i:j].
FieldValue(b, i, j) ==
  IF \A k \in i + 1 .. j : b[k] = <<b[i + 1][1], k - 1 - i, j - i>>
  THEN b[i + 1][1] ELSE Torn

\* The number in the length slice; bytes that are no length are a huge number.
LengthIn(v) == IF v[1] = "#" THEN v[2][1] ELSE NoLimit + 1

\* The fields of the array b, after ReadFull filled it.
TakeFields(p, s, b) ==
  [s EXCEPT !.at  = @ + p.size,
            !.val = [f \in DOMAIN @ |->
                       IF f \in DOMAIN p.fields
                       THEN FieldValue(b, p.fields[f][1], p.fields[f][2]) ELSE @[f]],
            !.n   = IF "n" \in DOMAIN p.fields
                    THEN LengthIn(FieldValue(b, p.fields["n"][1], p.fields["n"][2])) ELSE @]

GetBlock(p, bytes, s) ==
  IF s.at + p.size > Len(bytes)
  THEN [s EXCEPT !.st = "short", !.ran = TRUE, !.at = Len(bytes)]
  ELSE TakeFields(p, s, SubSeq(bytes, s.at + 1, s.at + p.size))

\* After the Unmarshal of an element returned x: its error ends the struct,
\* or, unchecked, the element stays as far as it was filled.
AfterElement(p, s, x, val) ==
  [s EXCEPT !.at = x.at, !.ran = @ \/ x.ran, !.val[p.field] = val,
            !.st = IF p.checked THEN x.st ELSE "ok"]

AppendElement(p, s, x) == AfterElement(p, s, x, Append(s.val[p.field], x.val))
SetElement(p, s, x) == AfterElement(p, s, x, x.val)

RECURSIVE Get(_, _, _), GetList(_, _, _, _), GetParts(_, _, _, _)

\* Elements e and up of a list.
GetList(p, bytes, s, e) ==
  IF e > s.n \/ s.st # "ok" THEN s
  ELSE GetList(p, bytes, AppendElement(p, s, Get(p.type, bytes, s.at)), e + 1)

\* Mutant of withinLimit: a list of exactly the limit is refused.
withinLimitBelow(n, limit) == n < limit

\* The check of a length before the list is allocated.
withinLimit(n, limit) == n <= limit

GetPart(p, bytes, s) ==
  CASE p.part = "block"  -> GetBlock(p, bytes, s)
    [] p.part = "list"   -> IF withinLimit(s.n, p.limit) THEN GetList(p, bytes, s, 1)
                            ELSE [s EXCEPT !.st = "over"]
    [] p.part = "nested" -> SetElement(p, s, Get(p.type, bytes, s.at))

\* Parts i and up; the first error returns.
GetParts(parts, bytes, s, i) ==
  IF i > Len(parts) \/ s.st # "ok" THEN s
  ELSE GetParts(parts, bytes, GetPart(parts[i], bytes, s), i + 1)

Get(type, bytes, at) ==
  GetParts(type.parts, bytes,
           [st |-> "ok", at |-> at, ran |-> FALSE, val |-> ZeroValue(type), n |-> 0], 1)

=============================================================================
