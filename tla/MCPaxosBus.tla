----------------------------- MODULE MCPaxosBus -----------------------------
(* Instances of PaxosBus: which buses reach which replica, whose timers fire *)
(* in which view, and which replicas hear of which view.                     *)
EXTENDS PaxosBus

-----------------------------------------------------------------------------
(* Arrivals.  Replica 0 leads view 0, replica 1 view 1. *)

\* Only replica 2 gets the first bus, everyone the others.
LeaderLoses == {[r \in 0 .. N - 1 |-> IF r < 2 THEN Slots \ {0} ELSE Slots]}

\* The second leader gets no bus.
NextLeaderLoses == {[r \in 0 .. N - 1 |-> IF r = 1 THEN {} ELSE Slots]}

\* The third leader gets no bus.
ThirdLeaderLoses == {[r \in 0 .. N - 1 |-> IF r = 2 THEN {} ELSE Slots]}

\* Replica 2 gets the first bus and the others the second.
Split == {[r \in 0 .. N - 1 |-> IF r = 2 THEN {0} ELSE {1}]}

-----------------------------------------------------------------------------
(* Timeouts *)

\* Any follower may suspect the first leader.
AnySuspects == (0 .. N - 1) \X {0}

\* The next leader suspects the first one.
NextSuspects == {<<1, 0>>}

\* Then replica 2 may lose patience with view 1.
SuspectTwice == {<<1, 0>>, <<2, 1>>}

\* Replica 1, and then replica 0 in view 1 and in view 2.
SuspectThrice == {<<1, 0>>, <<0, 1>>, <<0, 2>>}

-----------------------------------------------------------------------------
(* Who hears of which view *)

Everyone == (0 .. N - 1) \X (1 .. 3)

\* The first leader is cut off from view 1.
WithoutFirst == {<<2, 1>>}

\* Replica 0 hears of view 1 only.
WithoutFirstAfter == {<<0, 1>>, <<2, 1>>, <<1, 2>>}

\* Replica 2 hears of view 2 only.
LateThird == {<<0, 1>>, <<0, 2>>, <<1, 2>>, <<2, 2>>, <<1, 3>>}
=============================================================================
