------------------------------ MODULE MCPaxos -------------------------------
EXTENDS Paxos

(* The proposals at the leader and at replica 1 *)
PlanOf(at0, at1, graces, leaders) ==
  [proposals |-> [r \in 0..(N - 1) |-> CASE r = 0 -> at0 [] r = 1 -> at1 [] OTHER -> {}],
   graces |-> graces, leaders |-> leaders]

(* An instance is recovered; there are two leaders; the leader has two proposals. *)
ThreePlans ==
  {PlanOf({"a"}, {}, 1, {}), PlanOf({"a"}, {"b"}, 0, {1}), PlanOf({"a", "b"}, {}, 0, {})}

=============================================================================
