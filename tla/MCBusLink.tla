------------------------------ MODULE MCBusLink ------------------------------
EXTENDS BusLink, BaselineMessages

AllReaders ==
  [replica |-> ReplicaHandles, client |-> ClientHandles, control |-> ControlHandles,
   schedule |-> ScheduleHandles, payload |-> PayloadHandles,
   proposals |-> ProposeHandles, replies |-> ReplyHandles,
   paxos |-> ListenerHandles(PaxosTypes), n2paxos |-> ListenerHandles(N2paxosTypes),
   curp |-> ListenerHandles(CurpTypes), fastpaxos |-> ListenerHandles(FastpaxosTypes),
   epaxos |-> ListenerHandles(EpaxosTypes), swift |-> ListenerHandles(SwiftTypes)]

\* A batch of one message of type `code` whose lists have `len` elements.
One(code, len) == <<[code |-> code, len |-> len]>>

HasPart(type, P(_)) == \E i \in DOMAIN type.parts : P(type.parts[i])
HasList(type) == HasPart(type, LAMBDA p : p.part # "block")
HasLimit(type) == HasPart(type, LAMBDA p : p.part = "list" /\ p.limit # NoLimit)

\* The lengths worth trying for a type: the limit, nothing, more than the limit.
Lengths(type) ==
  {2} \cup (IF HasList(type) THEN {0} ELSE {}) \cup (IF HasLimit(type) THEN {3} ELSE {})

\* A short message for the second thread of each reader's plans.
Other(reader) ==
  CASE reader = "client" -> 9 [] reader = "control" -> 21 [] reader = "schedule" -> 31
    [] reader \in {"payload", "replies"} -> NoCode [] reader = "proposals" -> 2
    [] OTHER -> 6

\* Every type a reader knows in every sensible length, except swift's MSync.
TypePlans ==
  {[reader |-> x[1], batch |-> <<One(x[2], x[3]), One(Other(x[1]), 0)>>, redials |-> FALSE] :
     x \in {y \in (DOMAIN AllReaders) \X (NoCode .. 31) \X (0 .. 3) :
              /\ y[2] \in DOMAIN AllReaders[y[1]]
              /\ <<y[1], y[2]>> # <<"swift", 18>>
              /\ y[3] \in Lengths(AllReaders[y[1]][y[2]])}}

\* A schedule batch, three messages under one lock, against a gap commit.
BatchPlan ==
  [reader |-> "replica", redials |-> FALSE,
   batch |-> <<One(24, 0) \o One(28, 0) \o One(30, 0), One(6, 0)>>]

\* A link between replicas, whose connections are replaced.
PeerPlan ==
  [reader |-> "replica", redials |-> TRUE, batch |-> <<One(16, 0), One(6, 0)>>]

AllPlans == {PeerPlan, BatchPlan} \cup TypePlans
=============================================================================
