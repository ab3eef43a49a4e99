---------------------------- MODULE MCBusNormal -----------------------------
(* Instances of BusNormal: which buses reach which replica. *)
EXTENDS BusNormal

\* One follower gets the first bus and no other, the leader the next two.
FollowerAhead == {[r \in 0 .. N - 1 |-> IF r = 0 THEN {1, 2} ELSE IF r = 1 THEN {0} ELSE {}]}

\* One bus for each follower, the last one for the leader too.
Scattered == {[r \in 0 .. N - 1 |-> IF r = 1 THEN {0} ELSE {1}]}

(***************************************************************************)
(* The state in which replica 1 got the second bus, asked the leader for   *)
(* the first one, got it itself and then executed all the others, while    *)
(* the leader closed the first slot as a no-op and committed a round over  *)
(* it with replica 2; replica 1 has heard of the commit point.  It holds   *)
(* something else there and is a hash window ahead of everyone.  Only the  *)
(* leader still gets a bus, the second.                                    *)
(***************************************************************************)
ClosedLog == SetStable(Advance(SetNoOp(EmptyLog, 0)), 1)
AheadLog ==
  SetStable(Advance([EmptyLog EXCEPT !.ent = [s \in Slots |-> Received], !.seen = NumSlots]), 1)

AheadInit ==
  /\ view = [r \in Replicas |-> View]
  /\ status = [r \in Replicas |-> StatusNormal]
  /\ lg = [r \in Replicas |-> IF r = 1 THEN AheadLog ELSE ClosedLog]
  /\ inflight = [r \in Replicas |-> IF r = 0 THEN {1} ELSE {}]
  /\ fetch = [r \in Replicas |-> NoFetch]
  /\ msgs = UNION {{GapCommit(View, 0, 0, d), SyncPrepare(View, 1, Prefix(ClosedLog, 1), d),
                    SyncCommit(View, 1, d)} : d \in {1, 2}}
            \cup {GapCommitReply(View, 0, 2, 0), SyncReply(View, 1, 2, 0, FALSE)}
  /\ replies = RepliesFor(1, AheadLog, 0, NumSlots, View)
  /\ GapInit /\ SyncInit

\* Behaviours from the start of the view, and from there.
SyncSpec == (Init \/ AheadInit) /\ [][Next]_vars
=============================================================================
