--------------------------- MODULE MCBusExecution ---------------------------
(* An instance of BusExecution. *)
EXTENDS BusExecution

\* Four slots, one more than a ring for RetainSlots = 1 has cells.  The request
\* of the first slot is retransmitted in the next two.
RetransmittedBuses == <<<<<<1, 1>>>>, <<<<1, 2>>, <<1, 1>>>>, <<<<1, 1>>>>, <<<<1, 3>>>>>>

\* A replica that took all buses in order, with n slots committed after the first one.
AllTaken(n) ==
  LET first == [advance(recordBus(NewReplica, 0)) EXCEPT !.stable = n]
  IN  FoldLeft(LAMBDA L, s : advance(recordBus(L, s)), first, Tail(SlotSeq))

(***************************************************************************)
(* Behaviours of a new replica, with one rewind less than MaxRewinds, and  *)
(* of one whose ring has wrapped, with all of them: there rewinds meet     *)
(* cells that a later slot has taken.                                      *)
(***************************************************************************)
NewOrWrapped ==
  /\ \/ rep = NewReplica /\ rewinds = MaxRewinds - 1
     \/ rep \in {AllTaken(0), AllTaken(1)} /\ rewinds = 0
  /\ HistoryInit

RingSpec == NewOrWrapped /\ [][Next]_vars
=============================================================================
