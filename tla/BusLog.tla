------------------------------- MODULE BusLog -------------------------------
(***************************************************************************)
(* The slot log of one PaxosBus replica, as a value, and the operations    *)
(* that change it while r.mu is held.                                      *)
(*                                                                         *)
(* Every bus has a slot fixed by the client schedule, and a client sends   *)
(* one bus for a slot, so the content of a received slot is the slot       *)
(* itself and a slot is Empty, Received or NoOp.                           *)
(*                                                                         *)
(* The pairs (haveMax, maxSlotSeen) and (haveStable, stableSlot) are kept  *)
(* as lengths: seen and stable count the slots up to and including the     *)
(* one named, and are 0 when the flag is unset.                            *)
(*                                                                         *)
(* The prefix hash of the code is represented by the prefix it digests     *)
(* (two different prefixes are assumed never to collide).  Pruning is not  *)
(* here: it starts after RetainSlots (16384 by default) executed slots.    *)
(***************************************************************************)
EXTENDS Integers, FiniteSets

CONSTANT NumSlots           \* slots of the schedule that are explored

ASSUME NumSlotsAssumption == NumSlots \in Nat \ {0}

Slots == 0 .. NumSlots - 1

Empty == "Empty"
Received == "Received"
NoOp == "NoOp"
SlotStates == {Empty, Received, NoOp}

Logs == [ent : [Slots -> SlotStates],     \* globalLog
         next : 0 .. NumSlots,            \* nextExpected
         seen : 0 .. NumSlots,            \* haveMax, maxSlotSeen
         stable : 0 .. NumSlots]          \* haveStable, stableSlot

EmptyLog == [ent |-> [s \in Slots |-> Empty], next |-> 0, seen |-> 0, stable |-> 0]

Larger(a, b) == IF a >= b THEN a ELSE b
Smaller(a, b) == IF a <= b THEN a ELSE b

\* The least length that is at least n and covers every slot of S.
Top(n, S) == CHOOSE k \in 0 .. NumSlots :
               /\ k >= n /\ \A s \in S : k > s
               /\ k = n \/ k - 1 \in S

\* Log L with the entries ent and the highest slot seen `seen`.
Holding(L, ent, seen) ==
  [ent |-> ent, next |-> L.next, seen |-> seen, stable |-> L.stable]

\* Mutants of RecordBus: one slot too high, and a bus that replaces anything.
RecordBusFar(L, s) ==
  Holding(L, [L.ent EXCEPT ![s] = IF @ = Empty THEN Received ELSE @], Larger(L.seen, s + 2))
RecordBusOverwrite(L, s) ==
  Holding(L, [L.ent EXCEPT ![s] = Received], Larger(L.seen, s + 1))

(***************************************************************************)
(* observeSlotLocked, claimSlotLocked and recordBusReceivedLocked: a bus   *)
(* fills an empty slot and never replaces what a slot holds.               *)
(***************************************************************************)
RecordBus(L, s) ==
  Holding(L, [L.ent EXCEPT ![s] = IF @ = Empty THEN Received ELSE @], Larger(L.seen, s + 1))

\* setNoOpLocked: refused below the executed frontier, replaces a bus above it.
SetNoOp(L, s) ==
  IF s < L.next THEN L
  ELSE Holding(L, [L.ent EXCEPT ![s] = NoOp], Larger(L.seen, s + 1))

\* The same for a set of slots, in any order: each touches its own slot only.
SetNoOps(L, S) ==
  LET T == {s \in S : s >= L.next} IN
  Holding(L, [s \in Slots |-> IF s \in T THEN NoOp ELSE L.ent[s]], Top(L.seen, T))

\* The end of the filled run that starts at slot from and ends below limit.
FilledEnd(ent, from, limit) ==
  CHOOSE k \in from .. limit :
    /\ \A s \in from .. k - 1 : ent[s] # Empty
    /\ k = limit \/ ent[k] = Empty

\* advanceNextExpectedLocked in the normal status: execute the filled run.
Advance(L) == [L EXCEPT !.next = FilledEnd(L.ent, L.next, NumSlots)]

\* advanceNextExpectedThroughLocked: the same, through slot end - 1 at most.
AdvanceThrough(L, end) ==
  IF L.next >= end THEN L ELSE [L EXCEPT !.next = FilledEnd(L.ent, L.next, end)]

\* rewindToLocked: execution backs up, entries stay where they are.
RewindTo(L, target) == [L EXCEPT !.next = Smaller(@, target)]

\* Mutant of ClearAbove: one slot too many.
ClearAboveFrom(L, from) ==
  [L EXCEPT !.ent = [s \in Slots |-> IF from - 1 <= s /\ s < L.seen THEN Empty ELSE @[s]]]

\* clearSlotsAboveLocked: forget the slots from `from` to the highest one seen.
ClearAbove(L, from) ==
  [L EXCEPT !.ent = [s \in Slots |-> IF from <= s /\ s < L.seen THEN Empty ELSE @[s]]]

\* clearSlotRangeLocked over the slots of S.
ClearSlots(L, S) ==
  [L EXCEPT !.ent = [s \in Slots |-> IF s \in S THEN Empty ELSE @[s]]]

\* recomputeMaxSlotLocked
RecomputeMax(L) ==
  [L EXCEPT !.seen = Top(L.next, {s \in Slots : L.ent[s] # Empty})]

\* setStableLocked: clamped to what has executed, and never lowered.
SetStable(L, n) == [L EXCEPT !.stable = Larger(@, Smaller(n, L.next))]

\* foldExecutedLocked, prefixHashAtLocked: the digest of the first n slots.
Prefix(L, n) == [s \in 0 .. n - 1 |-> L.ent[s]]

\* A state transfer applied by applyStateEntries: no-ops, then buses, as in
\* the message, each slot once.  The caller executes what became executable.
ApplyEntries(L, entries) ==
  LET D == DOMAIN entries
      noops == {s \in D : entries[s] = NoOp}
      buses == {s \in D : entries[s] = Received}
      M == SetNoOps(L, noops)
  IN Holding(M, [s \in Slots |-> IF s \in buses /\ M.ent[s] = Empty THEN Received ELSE M.ent[s]],
             Top(M.seen, buses))

(***************************************************************************)
(* appendBusToLogListLocked: every bus carries one new request, which gets *)
(* the next log index.  LogIndex is the index of the request of slot s.    *)
(***************************************************************************)
LogIndex(L, s) == Cardinality({t \in 0 .. s - 1 : L.ent[t] = Received})
=============================================================================
