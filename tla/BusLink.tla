------------------------------- MODULE BusLink -------------------------------
(***************************************************************************)
(* The connections of BusConn with messages on them, byte by byte: what a  *)
(* thread writes is what Marshal makes of its messages, and what a reader  *)
(* delivers is what Unmarshal makes of the bytes that got through.         *)
(***************************************************************************)
EXTENDS WireFormat, BusConn, TLC

CONSTANT Readers   \* for each reader of a connection the types it knows, by code

-----------------------------------------------------------------------------
(* Messages and their bytes.                                               *)

Handles(p) == Readers[p.reader]

\* The messages of each thread's batch, in each plan.
Batches ==
  [p \in Plans |-> [t \in Threads |-> [i \in DOMAIN p.batch[t] |->
     LET b == p.batch[t][i]
     IN  [code |-> b.code, val |-> Sample(Handles(p)[b.code], <<t, i>>, b.len)]]]]

\* The calls of Write for a message: its code, then what its Marshal writes.
MessageWrites(handles, m) ==
  (IF m.code = NoCode THEN <<>> ELSE << <<<<<<"code", <<m.code>>>>, 0, 1>>>> >>)
    \o Put(handles[m.code], m.val)

Writes ==
  [p \in Plans |-> [t \in Threads |->
     FlattenSeq([i \in DOMAIN p.batch[t] |->
                   MessageWrites(Handles(p), Batches[p][t][i])])]]

Bytes(p, writes) == FlattenSeq([i \in DOMAIN writes |-> Writes[p][writes[i][1]][writes[i][2]]])

\* The bytes that reach the reader of a connection.
Arrived(p, c) ==
  IF c.alive THEN Bytes(p, c.sent) ELSE SubSeq(Bytes(p, c.sent), 1, c.cut)

LinkWriteCount(p, t) == Len(Writes[p][t])

LinkByteCount(p, writes) == Len(Bytes(p, writes))

-----------------------------------------------------------------------------
(* The reader.                                                             *)

Unknown == [st |-> "unknown", at |-> 0, ran |-> FALSE]
AtEnd == [st |-> "short", at |-> 0, ran |-> TRUE]

Typed(handles, bytes, code, from) == [code |-> code] @@ Get(handles[code], bytes, from)

\* The code picks the type, its Unmarshal does the rest.
Decode(handles, bytes, pos) ==
  IF pos >= Len(bytes) THEN AtEnd
  ELSE IF NoCode \in DOMAIN handles THEN Typed(handles, bytes, NoCode, pos)
  ELSE IF /\ bytes[pos + 1][1][1] = "code"
          /\ bytes[pos + 1][1][2][1] \in DOMAIN handles
       THEN Typed(handles, bytes, bytes[pos + 1][1][2][1], pos + 1)
  ELSE Unknown

\* What the reader makes of the bytes from its position on.
LinkNextMessage(p, c) == Decode(Handles(p), Arrived(p, c), c.pos)

-----------------------------------------------------------------------------
(* Properties.                                                             *)

\* The messages put on a connection, in the order their threads held the lock.
Sent(c) ==
  LET starts == SelectSeq(c.sent \o c.buf, LAMBDA w : w[2] = 1)
  IN  FlattenSeq([i \in DOMAIN starts |-> Batches[plan][starts[i][1]]])

\* What a reader can know of a message: not the fields that are never written.
Readable(m) ==
  [m EXCEPT !.val = [f \in DOMAIN @ |->
                       IF f \in Handles(plan)[m.code].unwritten THEN Zero ELSE @[f]]]

HasUnchecked(type) ==
  \E i \in DOMAIN type.parts : type.parts[i].part # "block" /\ ~type.parts[i].checked

\* Some list of the message is longer than its reader accepts.
OverLimit(m) ==
  \E i \in DOMAIN Handles(plan)[m.code].parts :
    LET p == Handles(plan)[m.code].parts[i]
    IN  p.part = "list" /\ Len(m.val[p.field]) > p.limit

\* Every reader delivers the messages that were put on its connection, in the
\* order in which their senders held the writer's lock, field for field, and
\* nothing else, whatever threads send at once and wherever the connection
\* fails.  The one exception is the generated code that drops the error of an
\* element: the message in which the connection ends is then delivered with
\* the rest of its list zero.
DeliveredWhole ==
  \A c \in DOMAIN conns :
    LET got == conns[c].got
        exp == Sent(conns[c])
    IN  /\ Len(got) <= Len(exp)
        /\ \A i \in DOMAIN got :
             \/ got[i] = Readable(exp[i])
             \/ /\ i = Len(got) /\ got[i].code = exp[i].code
                /\ HasUnchecked(Handles(plan)[exp[i].code])
                /\ ~conns[c].alive /\ conns[c].cut = conns[c].pos

\* A connection that has not failed holds nothing back: once its senders are
\* done and its reader waits, the reader has had every message.
NothingStuck ==
  \A c \in DOMAIN conns :
    /\ conns[c].alive
    /\ \A t \in Threads : lw[t] = c => pc[t] = "done"
    /\ NextMessage(plan, conns[c]).ran
    => Len(conns[c].got) = Len(Sent(conns[c]))

\* A reader ends a connection for what is on it only when a list really is
\* longer than the limit, a list of exactly the limit is read, and no list
\* over the limit ever is.
GivesUpRightly ==
  \A c \in DOMAIN conns :
    LET got == conns[c].got
        exp == Sent(conns[c])
    IN  /\ conns[c].end \in {"over", "unknown"} =>
             Len(got) < Len(exp) /\ OverLimit(exp[Len(got) + 1])
        /\ \A i \in DOMAIN got : ~OverLimit(got[i])

=============================================================================
