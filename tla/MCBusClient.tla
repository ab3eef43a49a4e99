----------------------------- MODULE MCBusClient ----------------------------
(* Three plans: two view changes that the control connections report; two
   windows, one view change and an interval that becomes 0; and a request whose
   answers come from two views and name two log indexes, while the control
   connections are down. *)
EXTENDS BusClient

ThreePlans ==
  {[time |-> 4, view |-> 2, changes |-> 0, requests |-> {}, polls |-> 0..2, moves |-> {1, 2},
    answers |-> {}],
   [time |-> 6, view |-> 1, changes |-> 1, requests |-> {}, polls |-> {1, 2}, moves |-> {1, 2},
    answers |-> {}],
   [time |-> 6, view |-> 0, changes |-> 0, requests |-> {"req"}, polls |-> {}, moves |-> {},
    answers |-> {<<0, 0, 1>>, <<1, 0, 1>>, <<1, 1, 1>>, <<2, 1, 1>>, <<2, 0, 2>>}]}

OneThenPause == <<1, 0>>

=============================================================================
