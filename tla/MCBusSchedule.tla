---------------------------- MODULE MCBusSchedule ---------------------------
(* Three plans: two windows in view 0, one of them for two clients, and a
   change of leader; two windows in view 1, while replicas still install it;
   the same time asked for by other clients in the next view, which fails. *)
EXTENDS BusSchedule

ThreePlans ==
  {[asks |-> {<<0, 1, 1>>, <<0, 1, 2>>, <<0, 2, 1>>}, suspects |-> {<<1, 0>>}, resends |-> 0],
   [asks |-> {<<1, 1, 2>>, <<1, 2, 2>>}, suspects |-> {<<1, 0>>}, resends |-> 1],
   [asks |-> {<<0, 1, 1>>, <<1, 1, 2>>}, suspects |-> {<<1, 0>>, <<2, 1>>}, resends |-> 1]}

=============================================================================
