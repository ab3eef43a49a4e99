--------------------------- MODULE PaxosBusProofs ---------------------------
(***************************************************************************)
(* Proofs about the group over several views, for every configuration,     *)
(* number of slots, pattern of bus arrivals, pattern of timeouts and of    *)
(* messages heard, whether or not merged slots are given up.               *)
(***************************************************************************)
EXTENDS PaxosBus, BusLogProofs

\* A majority has left every view below v.
Left(v) == 2 * Cardinality({q \in Replicas : view[q] >= v}) > N

\* Replica r leads its view: it has installed the merge, or runs the view.
Leading(r) == IsLeader(r) /\ (status[r] = StatusNormal \/ plan[r].phase = "installed")

(***************************************************************************)
(* What ties the state of one replica together.  Only the leader of a view *)
(* that changes has a plan, and only without a StartView; a merged slot is *)
(* fetched only while the plan wants slots; a leader transfers nothing     *)
(* once it has installed the merge.                                        *)
(***************************************************************************)
Placed(r) ==
  /\ plan[r] # NoPlan =>
       /\ status[r] = StatusViewChange /\ recovery[r] = NoRecovery /\ IsLeader(r)
       /\ DOMAIN plan[r].donors = plan[r].stable .. plan[r].max - 1
  /\ fetch[r].stage = "sent" /\ fetch[r].kind = "slot" => plan[r].phase = "fetch"
  /\ Leading(r) => fetch[r].stage = "idle"

\* A replica that works on the log of its view, or runs it, is not the first there.
Entered(r) ==
  status[r] = StatusNormal \/ plan[r] # NoPlan \/ recovery[r] # NoRecovery => Left(view[r])

(***************************************************************************)
(* The StartView m says what its leader's log says, as long as the leader  *)
(* stays in the view, and goes to somebody else.                           *)
(***************************************************************************)
Describes(m, L) ==
  /\ m.max <= L.next
  /\ \A s \in Slots : m.stable <= s /\ s < m.max => (s \in m.noops <=> L.ent[s] = NoOp)

Announces(m) ==
  LET l == LeaderIndex(m.view) IN
  /\ m.dst # l /\ view[l] >= m.view
  /\ view[l] = m.view => Leading(l) /\ Describes(m, lg[l])

\* What a message says of its sender and of the group.
MessagesBacked ==
  \A m \in msgs :
    /\ m.type = "ViewChangeRequest" => view[m.src] >= m.view
    /\ m.type = "ViewChange" => Left(m.view) /\ m.lastNormalView < m.view
    /\ m.type = "SyncPrepare" => m.dst # LeaderIndex(m.view)
    /\ m.type = "StartView" => Left(m.view) /\ Announces(m)

\* The inductive invariant.
Inv ==
  /\ TypeOK
  /\ ExecutedPrefixFilled
  /\ \A r \in Replicas : Placed(r) /\ Entered(r)
  /\ MessagesBacked
  /\ StartViewsAgree

-----------------------------------------------------------------------------

\* The configuration pbconfig.Parse accepts: every view has a leader.
LEMMA Config ==
  /\ N \in Nat \ {0} /\ F \in Nat /\ N = 2 * F + 1
  /\ QuorumSize = F + 1
  /\ \A v \in Nat : LeaderIndex(v) \in Replicas
  /\ IsFiniteSet(Replicas) /\ Cardinality(Replicas) = N
<1>1. N \in Nat \ {0} /\ F \in Nat /\ N = 2 * F + 1 /\ QuorumSize = F + 1
  BY ConfigAssumption DEF QuorumSize
<1>2. \A v \in Nat : v % N \in 0 .. N - 1
  BY <1>1
<1>3. IsFiniteSet(0 .. N - 1) /\ Cardinality(0 .. N - 1) = N
  BY <1>1, FS_Interval
<1>. QED
  BY <1>1, <1>2, <1>3 DEF LeaderIndex, Replicas

\* What a partial log is.
LEMMA PartialLogFacts ==
  /\ \A D \in SUBSET Slots : \A e \in [D -> SlotStates] : e \in PartialLogs
  /\ \A e \in PartialLogs : DOMAIN e \in SUBSET Slots /\ e \in [DOMAIN e -> SlotStates]
<1>1. ASSUME NEW D \in SUBSET Slots, NEW e \in [D -> SlotStates]
      PROVE  e \in PartialLogs
  BY <1>1, Zenon DEF PartialLogs
<1>2. ASSUME NEW e \in PartialLogs
      PROVE  DOMAIN e \in SUBSET Slots /\ e \in [DOMAIN e -> SlotStates]
  <2>1. PICK D \in SUBSET Slots : e \in [D -> SlotStates]
    BY Zenon DEF PartialLogs
  <2>. QED
    BY <2>1
<1>. QED
  BY <1>1, <1>2

\* The digest of a prefix is a partial log.
LEMMA PrefixType ==
  ASSUME NEW L \in Logs, NEW n \in Lengths
  PROVE  Prefix(L, n) \in PartialLogs
<1>1. 0 .. n - 1 \in SUBSET Slots
  BY NumSlotsAssumption DEF Lengths, Slots
<1>2. Prefix(L, n) \in [0 .. n - 1 -> SlotStates]
  BY <1>1 DEF Prefix, Logs
<1>. QED
  BY <1>1, <1>2, PartialLogFacts

\* No transfer runs: the value is a transfer record without entries.
LEMMA NoFetchFacts ==
  /\ NoEntries \in PartialLogs /\ DOMAIN NoEntries = {}
  /\ NoFetch \in Transfer
  /\ NoFetch.stage = "idle" /\ NoFetch.kind = "plain"
<1>1. NoEntries \in [{} -> SlotStates] /\ DOMAIN NoEntries = {}
  BY DEF NoEntries
<1>2. NoEntries \in PartialLogs
  BY <1>1, PartialLogFacts
<1>. QED
  BY <1>1, <1>2, Config, NumSlotsAssumption DEF NoFetch, Transfer, Lengths, Replicas, Verdicts

\* A transfer that starts is a transfer record.
LEMMA FetchType ==
  ASSUME NEW kind \in {"plain", "sync", "prefix", "slot", "install"}, NEW peer \in Replicas,
         NEW from \in Lengths, NEW slots \in SUBSET Slots, NEW n \in Lengths,
         NEW hash \in PartialLogs
  PROVE  /\ Fetch(kind, peer, from, slots, n, hash) \in Transfer
         /\ Fetch(kind, peer, from, slots, n, hash).kind = kind
BY NoFetchFacts, NumSlotsAssumption DEF Fetch, Transfer, Lengths, Verdicts

\* Fields of a message, by its type.
LEMMA MessageFields ==
  ASSUME NEW m \in Messages
  PROVE  /\ m.view \in Nat /\ m.dst \in Replicas
         /\ m.type \in {"GapReply", "GapCommit", "GapCommitReply"} =>
              m.slot \in Slots /\ m.src \in Replicas
         /\ m.type = "SyncPrepare" => m.n \in Lengths /\ m.hash \in PartialLogs
         /\ m.type = "SyncReply" => m.n \in Lengths /\ m.src \in Replicas
         /\ m.type = "SyncCommit" => m.n \in Lengths
         /\ m.type = "ViewChangeRequest" => m.src \in Replicas
         /\ m.type = "ViewChange" =>
              /\ m.src \in Replicas /\ m.lastNormalView \in Nat /\ m.next \in Lengths
              /\ m.stable \in Lengths /\ m.ent \in [Slots -> SlotStates]
         /\ m.type = "StartView" =>
              /\ m.src \in Replicas /\ m.source \in Nat /\ m.stable \in Lengths
              /\ m.max \in Lengths /\ m.noops \in SUBSET Slots /\ m.hash \in PartialLogs
BY DEF Messages

\* The greatest element of a bounded set of naturals.
LEMMA HighestFacts ==
  ASSUME NEW n \in Nat, NEW S \in SUBSET (0 .. n), S # {}
  PROVE  Highest(S) \in S /\ \A k \in S : k <= Highest(S)
<1>1. \E x \in S : \A y \in S : x >= y
  BY GreatestNatural
<1>2. \E x \in S : \A y \in S : y <= x
  BY <1>1
<1>. QED
  BY <1>2 DEF Highest

\* A majority that has left the views below v stays, for views only grow.
LEMMA LeftStays ==
  ASSUME NEW v \in Nat, view \in [Replicas -> Nat], view' \in [Replicas -> Nat],
         \A q \in Replicas : view'[q] >= view[q], Left(v)
  PROVE  Left(v)'
<1>. DEFINE A == {q \in Replicas : view[q] >= v}
            B == {q \in Replicas : view'[q] >= v}
<1>1. A \in SUBSET B /\ B \in SUBSET Replicas
  OBVIOUS
<1>2. IsFiniteSet(A) /\ IsFiniteSet(B) /\ Cardinality(A) <= Cardinality(B)
  BY <1>1, Config, FS_Subset
<1>3. Cardinality(A) \in Nat /\ Cardinality(B) \in Nat
  BY <1>2, FS_CardinalityType
<1>4. 2 * Cardinality(A) > N
  BY DEF Left
<1>. HIDE DEF A, B
<1>5. 2 * Cardinality(B) > N
  BY <1>2, <1>3, <1>4, Config
<1>. QED
  BY <1>5 DEF Left, B

-----------------------------------------------------------------------------
(* What a step of replica r may do *)

\* The replies a client can get.
Votes == [replica : Replicas, view : Nat, slot : Slots, logIndex : Lengths, noops : SUBSET Slots]

\* Only r's view and role change; the view never falls, and r works on a view
\* only after a majority has left the lower ones.
ControlStep(r) ==
  /\ view' \in [Replicas -> Nat] /\ status' \in [Replicas -> {StatusNormal, StatusViewChange}]
  /\ lastNormalView' \in [Replicas -> Nat] /\ source' \in [Replicas -> Nat]
  /\ plan' \in [Replicas -> Plan] /\ recovery' \in [Replicas -> Recovery]
  /\ view'[r] >= view[r]
  /\ IF status'[r] = StatusNormal THEN lastNormalView'[r] = view'[r]
                                  ELSE lastNormalView'[r] < view'[r]
  /\ status'[r] = StatusNormal \/ plan'[r] # NoPlan \/ recovery'[r] # NoRecovery =>
       Left(view'[r])
  /\ \A q \in Replicas \ {r} :
       /\ view'[q] = view[q] /\ status'[q] = status[q] /\ lastNormalView'[q] = lastNormalView[q]
       /\ plan'[q] = plan[q] /\ recovery'[q] = recovery[q]

\* Log M keeps what log L has executed.
Extends(L, M) ==
  M.next >= L.next /\ \A s \in Slots : s < L.next => M.ent[s] = L.ent[s]

\* Only r's log changes, no empty slot is executed, and while r leads a view
\* it takes nothing back.
LogStep(r) ==
  /\ lg' \in [Replicas -> Logs] /\ Filled(lg'[r])
  /\ \A q \in Replicas \ {r} : lg'[q] = lg[q]
  /\ replies' \subseteq replies \cup Votes
  /\ Leading(r) /\ view'[r] = view[r] => Leading(r)' /\ Extends(lg[r], lg'[r])

\* Only r's transfer changes, and it fits r's role.
FetchStep(r) ==
  /\ fetch' \in [Replicas -> Transfer]
  /\ \A q \in Replicas \ {r} : fetch'[q] = fetch[q]
  /\ Placed(r)'

\* The buses on their way, gaps and rounds: only their types matter here.
OtherStep ==
  /\ inflight' \in [Replicas -> SUBSET Slots]
  /\ gaps' \in [Replicas -> SUBSET Slots] /\ sync' \in [Replicas -> Lengths]

\* A message that r sends is backed when it is sent.
Sound(r, m) ==
  /\ m \in Messages
  /\ m.type = "ViewChangeRequest" => view'[m.src] >= m.view
  /\ m.type = "ViewChange" => Left(m.view) /\ m.lastNormalView < m.view
  /\ m.type = "SyncPrepare" => m.dst # LeaderIndex(m.view)
  /\ m.type = "StartView" =>
       /\ m.view = view[r] /\ view'[r] = view[r] /\ r = LeaderIndex(m.view)
       /\ m.dst # r /\ Leading(r)' /\ Left(m.view) /\ Describes(m, lg'[r])

MessageStep(r) == msgs \subseteq msgs' /\ \A m \in msgs' \ msgs : Sound(r, m)

\* Everything a step of r may do.
Step(r) == ControlStep(r) /\ LogStep(r) /\ FetchStep(r) /\ OtherStep /\ MessageStep(r)

\* A log that keeps what was executed still fits an earlier StartView.
LEMMA DescribesStays ==
  ASSUME NEW m \in Messages, m.type = "StartView", NEW L \in Logs, NEW M \in Logs,
         Extends(L, M), Describes(m, L)
  PROVE  Describes(m, M)
<1>1. m.max \in 0 .. NumSlots /\ L.next \in 0 .. NumSlots /\ M.next \in 0 .. NumSlots
  BY MessageFields DEF Logs, Lengths
<1>. QED
  BY <1>1, NumSlotsAssumption DEF Describes, Extends, Slots

\* Such a step preserves the invariant.
LEMMA StepInv ==
  ASSUME Inv, NEW r \in Replicas, Step(r)
  PROVE  Inv'
<1>. USE Config
<1>0. /\ view \in [Replicas -> Nat] /\ view' \in [Replicas -> Nat]
      /\ \A q \in Replicas : view'[q] >= view[q]
  BY DEF Inv, TypeOK, Step, ControlStep
<1>1. \A v \in Nat : Left(v) => Left(v)'
  BY <1>0, LeftStays
<1>2. TypeOK'
  <2>1. msgs' \subseteq Messages
    BY DEF Inv, TypeOK, Step, MessageStep, Sound
  <2>2. replies' \subseteq Votes
    BY DEF Inv, TypeOK, Step, LogStep, Votes
  <2>3. \A q \in Replicas : IF status'[q] = StatusNormal THEN lastNormalView'[q] = view'[q]
                                                         ELSE lastNormalView'[q] < view'[q]
    BY DEF Inv, TypeOK, Step, ControlStep
  <2>. QED
    BY <2>1, <2>2, <2>3 DEF TypeOK, Step, ControlStep, LogStep, FetchStep, OtherStep, Votes
<1>3. ExecutedPrefixFilled'
  <2>1. \A q \in Replicas : Filled(lg'[q])
    BY DEF Inv, ExecutedPrefixFilled, Filled, Step, LogStep
  <2>. QED
    BY <2>1 DEF ExecutedPrefixFilled, Filled
<1>4. \A q \in Replicas : Placed(q)'
  <2>. SUFFICES ASSUME NEW q \in Replicas PROVE Placed(q)'
    OBVIOUS
  <2>1. CASE q = r
    BY <2>1 DEF Step, FetchStep
  <2>2. CASE q # r
    <3>1. UNCHANGED <<view[q], status[q], plan[q], recovery[q], fetch[q]>>
      BY <2>2 DEF Step, ControlStep, FetchStep
    <3>2. Placed(q)
      BY DEF Inv
    <3>. QED
      BY <3>1, <3>2 DEF Placed, Leading, IsLeader
  <2>. QED
    BY <2>1, <2>2
<1>5. \A q \in Replicas : Entered(q)'
  <2>. SUFFICES ASSUME NEW q \in Replicas,
                       status'[q] = StatusNormal \/ plan'[q] # NoPlan \/ recovery'[q] # NoRecovery
                PROVE  Left(view[q])'
    BY DEF Entered
  <2>1. PICK v \in Nat : v = view'[q]
    BY <1>0
  <2>2. Left(v)
    <3>1. CASE q = r
      BY <2>1, <3>1 DEF Step, ControlStep
    <3>2. CASE q # r
      BY <2>1, <3>2 DEF Inv, Entered, Step, ControlStep
    <3>. QED
      BY <3>1, <3>2
  <2>3. Left(v)'
    BY <1>1, <2>2
  <2>. QED
    BY <2>1, <2>3 DEF Left
<1>6. MessagesBacked'
  <2>. SUFFICES ASSUME NEW m \in msgs'
                PROVE  /\ m.type = "ViewChangeRequest" => view'[m.src] >= m.view
                       /\ m.type = "ViewChange" => Left(m.view)' /\ m.lastNormalView < m.view
                       /\ m.type = "SyncPrepare" => m.dst # LeaderIndex(m.view)
                       /\ m.type = "StartView" => Left(m.view)' /\ Announces(m)'
    BY DEF MessagesBacked
  <2>0. m \in Messages /\ m.view \in Nat
    BY <1>2, MessageFields DEF TypeOK
  <2>1. CASE m \in msgs
    <3>1. m.type = "ViewChangeRequest" => view'[m.src] >= m.view
      BY <1>0, <2>0, <2>1, MessageFields DEF Inv, MessagesBacked
    <3>2. ASSUME m.type = "StartView" PROVE Announces(m)'
      <4>. DEFINE l == LeaderIndex(m.view)
      <4>1. l \in Replicas /\ Announces(m)
        BY <2>0, <2>1, <3>2 DEF Inv, MessagesBacked
      <4>2. m.dst # l /\ view[l] >= m.view /\ view'[l] >= m.view
        BY <1>0, <2>0, <4>1 DEF Announces
      <4>3. ASSUME view'[l] = m.view PROVE Leading(l)' /\ Describes(m, lg'[l])
        <5>1. view[l] = m.view
          BY <1>0, <2>0, <4>1, <4>2, <4>3
        <5>2. Leading(l) /\ Describes(m, lg[l])
          BY <4>1, <5>1 DEF Announces
        <5>3. CASE l = r
          <6>1. Leading(r)' /\ Extends(lg[r], lg'[r])
            BY <4>3, <5>1, <5>2, <5>3 DEF Step, LogStep
          <6>2. lg[r] \in Logs /\ lg'[r] \in Logs
            BY DEF Inv, TypeOK, Step, LogStep
          <6>. QED
            BY <2>0, <3>2, <5>2, <5>3, <6>1, <6>2, DescribesStays
        <5>4. CASE l # r
          <6>1. UNCHANGED <<view[l], status[l], plan[l], lg[l]>>
            BY <4>1, <5>4 DEF Step, ControlStep, LogStep
          <6>. QED
            BY <5>2, <6>1 DEF Leading, IsLeader
        <5>. QED
          BY <5>3, <5>4
      <4>. QED
        BY <4>2, <4>3 DEF Announces, Describes
    <3>. QED
      BY <1>1, <2>0, <2>1, <3>1, <3>2 DEF Inv, MessagesBacked
  <2>2. CASE m \notin msgs
    <3>1. Sound(r, m)
      BY <2>2 DEF Step, MessageStep
    <3>2. m.type = "StartView" => Announces(m)'
      BY <1>0, <3>1 DEF Sound, Announces, Describes, LeaderIndex, Replicas
    <3>. QED
      BY <1>1, <2>0, <3>1, <3>2 DEF Sound
  <2>. QED
    BY <2>1, <2>2
<1>7. StartViewsAgree'
  <2>. SUFFICES ASSUME NEW a \in msgs', NEW b \in msgs', a.type = "StartView",
                       b.type = "StartView", a.view = b.view, NEW s \in Slots,
                       s >= a.stable, s >= b.stable, s < a.max, s < b.max
                PROVE  s \in a.noops <=> s \in b.noops
    BY DEF StartViewsAgree
  <2>1. CASE a \in msgs /\ b \in msgs
    BY <2>1 DEF Inv, StartViewsAgree
  <2>2. CASE ~ (a \in msgs /\ b \in msgs)
    <3>1. a.view = view'[r] /\ r = LeaderIndex(a.view)
      BY <2>2 DEF Step, MessageStep, Sound
    <3>2. Announces(a)' /\ Announces(b)'
      BY <1>6 DEF MessagesBacked
    <3>3. Describes(a, lg'[r]) /\ Describes(b, lg'[r])
      BY <3>1, <3>2 DEF Announces, Describes
    <3>4. a \in Messages /\ b \in Messages
      BY <1>2 DEF TypeOK
    <3>5. a.stable \in Int /\ b.stable \in Int
      BY <3>4, MessageFields DEF Lengths
    <3>. QED
      BY <3>3, <3>5, NumSlotsAssumption DEF Describes, Slots
  <2>. QED
    BY <2>1, <2>2
<1>. QED
  BY <1>2, <1>3, <1>4, <1>5, <1>6, <1>7 DEF Inv

\* At the start everybody runs view 0 with an empty log.
LEMMA InitInv == Init => Inv
<1>. SUFFICES ASSUME Init PROVE Inv
  OBVIOUS
<1>. USE Config DEF Init, ReplicaInit, GapInit, SyncInit
<1>1. TypeOK
  <2>1. NoPlan \in Plan /\ NoRecovery \in Recovery
    BY DEF Plan, Recovery
  <2>. QED
    BY <2>1, NoFetchFacts, EmptyLogFacts, ArrivalsAssumption, NumSlotsAssumption
    DEF TypeOK, Replicas, Lengths
<1>2. ExecutedPrefixFilled
  BY EmptyLogFacts DEF ExecutedPrefixFilled, Filled
<1>3. Left(0)
  <2>1. {q \in Replicas : view[q] >= 0} = Replicas
    OBVIOUS
  <2>2. Cardinality({q \in Replicas : view[q] >= 0}) = N
    BY <2>1, Zenon
  <2>. QED
    BY <2>2 DEF Left
<1>4. \A r \in Replicas : Placed(r) /\ Entered(r)
  BY <1>3, NoFetchFacts DEF Placed, Entered, NoPlan, NoRecovery
<1>. QED
  BY <1>1, <1>2, <1>4 DEF Inv, MessagesBacked, StartViewsAgree

-----------------------------------------------------------------------------
(* Parts of a step *)

\* A handler of normal operation changes no view, role or plan.
LEMMA ControlSame ==
  ASSUME Inv, NEW r \in Replicas, UNCHANGED <<view, status>>, UNCHANGED changeVars
  PROVE  ControlStep(r) /\ (Leading(r)' <=> Leading(r))
<1>1. view[r] \in Nat /\ Entered(r)
  BY DEF Inv, TypeOK
<1>. QED
  BY <1>1 DEF Inv, TypeOK, ControlStep, Entered, changeVars, Leading, IsLeader

\* A step that leaves the logs alone and answers no client.
LEMMA LogSame ==
  ASSUME Inv, NEW r \in Replicas, lg' = lg, replies' = replies,
         Leading(r) /\ view'[r] = view[r] => Leading(r)'
  PROVE  LogStep(r)
<1>1. lg \in [Replicas -> Logs] /\ lg[r].next \in Nat
  BY DEF Inv, TypeOK, Logs
<1>. QED
  BY <1>1 DEF Inv, LogStep, ExecutedPrefixFilled, Filled, Extends

\* A step that leaves the transfers and the roles alone.
LEMMA FetchSame ==
  ASSUME Inv, NEW r \in Replicas, fetch' = fetch, UNCHANGED <<view, status, plan, recovery>>
  PROVE  FetchStep(r)
<1>1. Placed(r)
  BY DEF Inv
<1>2. Placed(r)'
  BY <1>1 DEF Placed, Leading, IsLeader
<1>. QED
  BY <1>2 DEF Inv, TypeOK, FetchStep

\* A step that gives r the transfer f: it fits r's role, which stays.
LEMMA FetchSet ==
  ASSUME Inv, NEW r \in Replicas, NEW f \in Transfer, fetch' = [fetch EXCEPT ![r] = f],
         UNCHANGED <<view, status, plan, recovery>>,
         f.stage = "sent" /\ f.kind = "slot" => plan[r].phase = "fetch",
         Leading(r) => f.stage = "idle"
  PROVE  FetchStep(r)
<1>1. Placed(r) /\ fetch \in [Replicas -> Transfer]
  BY DEF Inv, TypeOK
<1>2. fetch'[r] = f /\ \A q \in Replicas \ {r} : fetch'[q] = fetch[q]
  BY <1>1
<1>3. fetch' \in [Replicas -> Transfer]
  BY <1>1
<1>4. Placed(r)'
  BY <1>1, <1>2 DEF Placed, Leading, IsLeader
<1>. QED
  BY <1>2, <1>3, <1>4 DEF FetchStep

\* A step that sends no message.
LEMMA MessagesSame == ASSUME NEW r, msgs' = msgs PROVE MessageStep(r)
BY DEF MessageStep

\* The replies for a run of slots of one log.
LEMMA RepliesType ==
  ASSUME NEW r \in Replicas, NEW L, NEW from \in Nat, NEW to \in Lengths, NEW v \in Nat
  PROVE  RepliesFor(r, L, from, to, v) \subseteq Votes
<1>. SUFFICES ASSUME NEW b \in RepliesFor(r, L, from, to, v) PROVE b \in Votes
  OBVIOUS
<1>1. PICK s \in from .. to - 1 : b = Reply(r, L, s, v)
  BY DEF RepliesFor
<1>2. s \in Slots /\ 0 .. s - 1 \subseteq Slots
  BY NumSlotsAssumption DEF Slots, Lengths
<1>3. LogIndex(L, s) \in Lengths
  BY <1>2, LogIndexType DEF Lengths
<1>. QED
  BY <1>1, <1>2, <1>3 DEF Reply, Votes

\* Execute in a log M that has replaced r's and keeps what was executed.
LEMMA ExecuteStep ==
  ASSUME Inv, NEW r \in Replicas, NEW M \in Logs, Execute(r, M, view[r]),
         Extends(lg[r], M), M.next = lg[r].next,
         Leading(r) /\ view'[r] = view[r] => Leading(r)'
  PROVE  LogStep(r) /\ lg'[r] \in Logs
<1>. DEFINE A == Advance(M)
<1>0. lg \in [Replicas -> Logs] /\ view[r] \in Nat /\ lg[r].next \in 0 .. NumSlots
  BY DEF Inv, TypeOK, Logs
<1>1. Filled(M)
  <2>1. Filled(lg[r])
    BY DEF Inv, ExecutedPrefixFilled, Filled
  <2>. QED
    BY <1>0, <2>1, NumSlotsAssumption DEF Filled, Extends, Slots
<1>2. A \in Logs /\ A.ent = M.ent /\ A.next >= M.next /\ Filled(A)
  BY <1>1, AdvanceFacts
<1>3. lg' = [lg EXCEPT ![r] = A] /\ replies' = replies \cup RepliesFor(r, A, M.next, A.next, view[r])
  BY DEF Execute
<1>4. M.next \in Nat /\ A.next \in Lengths
  BY <1>2 DEF Logs, Lengths
<1>. HIDE DEF A
<1>5. RepliesFor(r, A, M.next, A.next, view[r]) \subseteq Votes
  BY <1>0, <1>4, RepliesType
<1>6. Extends(lg[r], A)
  BY <1>0, <1>2, <1>4 DEF Extends, Lengths
<1>. QED
  BY <1>0, <1>2, <1>3, <1>5, <1>6 DEF LogStep

-----------------------------------------------------------------------------
(* Normal operation, in any view *)

\* A step that changes no view or role preserves the invariant if its parts are sound.
LEMMA HandlerInv ==
  ASSUME Inv, NEW r \in Replicas, UNCHANGED <<view, status>>, UNCHANGED changeVars,
         LogStep(r), FetchStep(r), OtherStep, MessageStep(r)
  PROVE  Inv'
BY ControlSame, StepInv DEF Step

\* Messages that promise nothing the invariant is about.
LEMMA PlainMessage ==
  ASSUME NEW r, NEW m \in Messages,
         m.type \notin {"ViewChangeRequest", "ViewChange", "SyncPrepare", "StartView"}
  PROVE  Sound(r, m)
BY DEF Sound

\* The messages of gap agreement and the acknowledgements of rounds are such.
LEMMA PlainMessages ==
  ASSUME NEW r, NEW v \in Nat, NEW src \in Replicas, NEW dst \in Replicas
  PROVE  /\ \A s \in Slots : /\ Sound(r, GapReply(v, s, src, dst))
                             /\ Sound(r, GapCommit(v, s, src, dst))
                             /\ Sound(r, GapCommitReply(v, s, src, dst))
         /\ \A n \in Lengths : /\ \A u \in BOOLEAN : Sound(r, SyncReply(v, n, src, dst, u))
                               /\ Sound(r, SyncCommit(v, n, dst))
<1>1. ASSUME NEW s \in Slots
      PROVE  /\ GapReply(v, s, src, dst) \in Messages
             /\ GapCommit(v, s, src, dst) \in Messages
             /\ GapCommitReply(v, s, src, dst) \in Messages
  BY DEF GapReply, GapCommit, GapCommitReply, Messages
<1>2. ASSUME NEW n \in Lengths
      PROVE  /\ \A u \in BOOLEAN : SyncReply(v, n, src, dst, u) \in Messages
             /\ SyncCommit(v, n, dst) \in Messages
  BY DEF SyncReply, SyncCommit, Messages
<1>. QED
  BY <1>1, <1>2, PlainMessage DEF GapReply, GapCommit, GapCommitReply, SyncReply, SyncCommit

\* A bus, a no-op or a transfer never changes what has executed.
LEMMA EntriesExtend ==
  ASSUME Inv, NEW r \in Replicas
  PROVE  /\ \A s \in Slots : /\ RecordBus(lg[r], s) \in Logs
                             /\ Extends(lg[r], RecordBus(lg[r], s))
                             /\ RecordBus(lg[r], s).next = lg[r].next
                             /\ SetNoOp(lg[r], s) \in Logs
                             /\ Extends(lg[r], SetNoOp(lg[r], s))
                             /\ SetNoOp(lg[r], s).next = lg[r].next
         /\ \A e \in PartialLogs : /\ ApplyEntries(lg[r], e) \in Logs
                                   /\ Extends(lg[r], ApplyEntries(lg[r], e))
                                   /\ ApplyEntries(lg[r], e).next = lg[r].next
<1>0. lg[r] \in Logs /\ lg[r].next \in 0 .. NumSlots
  BY DEF Inv, TypeOK, Logs
<1>1. \A t \in Slots : t < lg[r].next => lg[r].ent[t] # Empty
  BY <1>0, NumSlotsAssumption DEF Inv, ExecutedPrefixFilled, Slots
<1>2. ASSUME NEW s \in Slots
      PROVE  /\ RecordBus(lg[r], s) \in Logs
             /\ Extends(lg[r], RecordBus(lg[r], s))
             /\ RecordBus(lg[r], s).next = lg[r].next
  BY <1>0, <1>1, RecordBusFacts DEF Extends
<1>3. ASSUME NEW s \in Slots
      PROVE  /\ SetNoOp(lg[r], s) \in Logs
             /\ Extends(lg[r], SetNoOp(lg[r], s))
             /\ SetNoOp(lg[r], s).next = lg[r].next
  BY <1>0, SetNoOpFacts, NumSlotsAssumption DEF Extends, Slots
<1>4. ASSUME NEW e \in PartialLogs
      PROVE  /\ ApplyEntries(lg[r], e) \in Logs
             /\ Extends(lg[r], ApplyEntries(lg[r], e))
             /\ ApplyEntries(lg[r], e).next = lg[r].next
  <2>1. DOMAIN e \in SUBSET Slots /\ e \in [DOMAIN e -> SlotStates]
    BY PartialLogFacts
  <2>. QED
    BY <1>0, <1>1, <2>1, ApplyEntriesFacts DEF Extends
<1>. QED
  BY <1>2, <1>3, <1>4

\* handleBus, and the donor's answer to a transfer.
LEMMA BusInv ==
  ASSUME Inv, NEW r \in Replicas, UNCHANGED changeVars, UNCHANGED <<gaps, sync>>,
         FetchServe(r) \/ \E s \in Slots : HandleBus(r, s)
  PROVE  Inv'
<1>. USE DEF changeVars
<1>1. CASE FetchServe(r)
  <2>1. LogStep(r) /\ MessageStep(r) /\ OtherStep
    BY <1>1, ControlSame, LogSame, MessagesSame DEF FetchServe, OtherStep, Inv, TypeOK
  <2>2. FetchStep(r)
    <3>. DEFINE donor == fetch[r].peer
                held == {s \in fetch[r].slots : lg[donor].ent[s] # Empty}
                e == [s \in held |-> lg[donor].ent[s]]
    <3>1. fetch \in [Replicas -> Transfer] /\ lg \in [Replicas -> Logs] /\ Placed(r)
      BY DEF Inv, TypeOK
    <3>2. fetch[r] \in Transfer /\ donor \in Replicas /\ held \in SUBSET Slots
      BY <3>1 DEF Transfer
    <3>3. e \in [held -> SlotStates]
      BY <3>1, <3>2 DEF Logs
    <3>4. e \in PartialLogs
      BY <3>2, <3>3, PartialLogFacts
    <3>5. fetch' = [fetch EXCEPT ![r] = [fetch[r] EXCEPT !.stage = "served", !.entries = e]]
      BY <1>1, <3>1 DEF FetchServe
    <3>. HIDE DEF e, held
    <3>. DEFINE f == [fetch[r] EXCEPT !.stage = "served", !.entries = e]
    <3>6. f \in Transfer /\ f.stage = "served"
      BY <3>2, <3>4 DEF Transfer
    <3>7. ~ Leading(r)
      BY <1>1, <3>1 DEF Placed, FetchServe
    <3>. HIDE DEF f
    <3>8. fetch' = [fetch EXCEPT ![r] = f]
      BY <3>5 DEF f
    <3>. QED
      BY <1>1, <3>6, <3>7, <3>8, FetchSet DEF FetchServe
  <2>. QED
    BY <1>1, <2>1, <2>2, HandlerInv DEF FetchServe
<1>2. ASSUME NEW s \in Slots, HandleBus(r, s) PROVE Inv'
  <2>1. FetchStep(r) /\ MessageStep(r)
    BY <1>2, FetchSame, MessagesSame DEF HandleBus
  <2>2. OtherStep
    BY <1>2 DEF HandleBus, OtherStep, Inv, TypeOK
  <2>3. LogStep(r)
    <3>1. Leading(r)' <=> Leading(r)
      BY <1>2, ControlSame DEF HandleBus
    <3>2. CASE status[r] = StatusNormal
      BY <1>2, <3>1, <3>2, EntriesExtend, ExecuteStep DEF HandleBus
    <3>3. CASE status[r] # StatusNormal
      BY <1>2, <3>1, <3>3, LogSame DEF HandleBus
    <3>. QED
      BY <3>2, <3>3
  <2>. QED
    BY <1>2, <2>1, <2>2, <2>3, HandlerInv DEF HandleBus
<1>. QED
  BY <1>1, <1>2

\* Gap agreement.
LEMMA GapInv ==
  ASSUME Inv, GapNext, UNCHANGED sync, UNCHANGED changeVars
  PROVE  Inv'
<1>. USE DEF changeVars
<1>0. /\ gaps \in [Replicas -> SUBSET Slots] /\ view \in [Replicas -> Nat]
      /\ inflight \in [Replicas -> SUBSET Slots] /\ sync \in [Replicas -> Lengths]
  BY DEF Inv, TypeOK
<1>1. UNCHANGED <<view, status, inflight, fetch>>
  BY DEF GapNext, DetectGap, FollowerEndGap, HandleGapRequestFollower, HandleGapRequestLeader,
         LeaderFilled, LeaderNoOp, LeaderRecover, HandleGapReply, HandleGapCommit, replicaVars
<1>2. \A r \in Replicas : FetchStep(r) /\ (Leading(r)' <=> Leading(r))
  BY <1>1, ControlSame, FetchSame
<1>3. ASSUME NEW r \in Replicas, lg' = lg, replies' = replies, OtherStep, MessageStep(r)
      PROVE  Inv'
  BY <1>1, <1>2, <1>3, LogSame, HandlerInv
<1>4. ASSUME NEW r \in Replicas, LogStep(r), OtherStep, MessageStep(r)
      PROVE  Inv'
  BY <1>1, <1>2, <1>4, HandlerInv
<1>5. ASSUME NEW r \in Replicas, NEW s \in Slots, DetectGap(r, s) \/ FollowerEndGap(r, s)
      PROVE  Inv'
  <2>1. OtherStep /\ MessageStep(r)
    BY <1>0, <1>5, MessagesSame DEF DetectGap, FollowerEndGap, replicaVars, OtherStep
  <2>. QED
    BY <1>3, <1>5, <2>1 DEF DetectGap, FollowerEndGap, replicaVars
<1>6. ASSUME NEW r \in Replicas, NEW s \in Slots,
             HandleGapRequestFollower(r, LeaderIndex(view[r]), s)
      PROVE  Inv'
  <2>1. Sound(r, GapReply(view[r], s, r, LeaderIndex(view[r])))
    BY <1>0, Config, PlainMessages
  <2>2. OtherStep /\ MessageStep(r)
    BY <1>0, <1>6, <2>1 DEF HandleGapRequestFollower, OtherStep, MessageStep
  <2>. QED
    BY <1>3, <1>6, <2>2 DEF HandleGapRequestFollower
<1>7. ASSUME NEW r \in Replicas, NEW s \in Slots,
             HandleGapRequestLeader(LeaderIndex(view[r]), r, s)
      PROVE  Inv'
  <2>. DEFINE l == LeaderIndex(view[r])
  <2>1. l \in Replicas /\ view[l] \in Nat
    BY <1>0, Config
  <2>2. Sound(l, GapReply(view[l], s, l, r)) /\ Sound(l, GapCommit(view[l], s, l, r))
    BY <2>1, PlainMessages
  <2>3. OtherStep /\ MessageStep(l)
    BY <1>0, <1>7, <2>1, <2>2 DEF HandleGapRequestLeader, OtherStep, MessageStep
  <2>. QED
    BY <1>3, <1>7, <2>1, <2>3 DEF HandleGapRequestLeader
<1>8. ASSUME NEW l \in Replicas, NEW s \in Slots, msgs' = msgs \cup Answers(l, s)
      PROVE  MessageStep(l)
  <2>1. \A r \in Replicas : Sound(l, GapReply(view[l], s, l, r))
    BY <1>0, PlainMessages
  <2>. QED
    BY <1>8, <2>1 DEF MessageStep, Answers
<1>9. ASSUME NEW l \in Replicas, NEW s \in Slots, LeaderFilled(l, s)
      PROVE  Inv'
  <2>1. OtherStep /\ MessageStep(l)
    BY <1>0, <1>8, <1>9 DEF LeaderFilled, OtherStep
  <2>. QED
    BY <1>3, <1>9, <2>1 DEF LeaderFilled
<1>10. ASSUME NEW l \in Replicas, NEW s \in Slots, LeaderNoOp(l, s)
       PROVE  Inv'
  <2>1. OtherStep
    BY <1>0, <1>10 DEF LeaderNoOp, OtherStep
  <2>2. \A r \in Replicas : Sound(l, GapCommit(view[l], s, l, r))
    BY <1>0, PlainMessages
  <2>3. MessageStep(l)
    BY <1>10, <2>2 DEF LeaderNoOp, MessageStep
  <2>4. LogStep(l)
    BY <1>2, <1>10, EntriesExtend, ExecuteStep DEF LeaderNoOp
  <2>. QED
    BY <1>4, <2>1, <2>3, <2>4
<1>11. ASSUME NEW m \in msgs, LeaderRecover(m.dst, m) \/ HandleGapReply(m.dst, m) \/ HandleGapCommit(m.dst, m)
       PROVE  Inv'
  <2>1. m \in Messages /\ m.dst \in Replicas /\ m.view \in Nat
    BY MessageFields DEF Inv, TypeOK
  <2>2. m.slot \in Slots /\ m.src \in Replicas
    BY <1>11, <2>1, MessageFields DEF LeaderRecover, HandleGapReply, HandleGapCommit
  <2>3. OtherStep
    BY <1>0, <1>1, <1>11, <2>1 DEF LeaderRecover, HandleGapReply, HandleGapCommit, OtherStep
  <2>4. CASE LeaderRecover(m.dst, m)
    BY <1>2, <1>4, <1>8, <2>1, <2>2, <2>3, <2>4, EntriesExtend, ExecuteStep DEF LeaderRecover
  <2>5. CASE HandleGapReply(m.dst, m)
    BY <1>2, <1>4, <2>1, <2>2, <2>3, <2>5, EntriesExtend, ExecuteStep, MessagesSame
    DEF HandleGapReply
  <2>6. CASE HandleGapCommit(m.dst, m)
    <3>1. Sound(m.dst, GapCommitReply(m.view, m.slot, m.dst, m.src))
      BY <2>1, <2>2, PlainMessages
    <3>2. MessageStep(m.dst)
      BY <2>6, <3>1 DEF HandleGapCommit, MessageStep
    <3>3. LogStep(m.dst)
      BY <1>2, <2>1, <2>2, <2>6, EntriesExtend, ExecuteStep, LogSame DEF HandleGapCommit
    <3>. QED
      BY <1>4, <2>1, <2>3, <3>2, <3>3
  <2>. QED
    BY <1>11, <2>4, <2>5, <2>6
<1>. QED
  BY <1>5, <1>6, <1>7, <1>9, <1>10, <1>11 DEF GapNext

\* missingFetchSlotsLocked asks for slots of the log.
LEMMA MissingType ==
  ASSUME NEW L \in Logs, NEW n \in Lengths
  PROVE  L.next \in Lengths /\ Missing(L, L.next, n) \in SUBSET Slots
<1>1. L.next \in Lengths
  BY DEF Logs, Lengths
<1>2. L.next .. n - 1 \in SUBSET Slots
  BY <1>1, NumSlotsAssumption DEF Lengths, Slots
<1>. QED
  BY <1>1, <1>2 DEF Missing

\* What is left to be answered is kept as a transfer record.
LEMMA AnswerType ==
  ASSUME NEW n \in Lengths, NEW verdict \in Verdicts, NEW stable \in Lengths
  PROVE  Answer(n, verdict, stable) \in Transfer /\ Answer(n, verdict, stable).kind = "sync"
BY NoFetchFacts, Config, NumSlotsAssumption DEF Answer, Transfer, Lengths, Replicas

\* Comparing digests gives a verdict.
LEMMA CompareType ==
  ASSUME NEW L, NEW n, NEW hash
  PROVE  Compare(L, n, hash) \in SUBSET Verdicts
BY DEF Compare, Verdicts

\* r's log becomes M, filled, without a reply; a leader only moves on.
LEMMA LogSet ==
  ASSUME Inv, NEW r \in Replicas, NEW M \in Logs, lg' = [lg EXCEPT ![r] = M],
         replies' = replies, Filled(M),
         Leading(r) /\ view'[r] = view[r] => Leading(r)' /\ Extends(lg[r], M)
  PROVE  LogStep(r)
<1>1. lg \in [Replicas -> Logs]
  BY DEF Inv, TypeOK
<1>2. lg'[r] = M /\ \A q \in Replicas \ {r} : lg'[q] = lg[q]
  BY <1>1
<1>3. lg' \in [Replicas -> Logs]
  BY <1>1
<1>. QED
  BY <1>2, <1>3 DEF LogStep

\* setStableLocked at any replica.
LEMMA StableStep ==
  ASSUME Inv, NEW r \in Replicas, NEW n \in Lengths,
         lg' = [lg EXCEPT ![r] = SetStable(lg[r], n)], replies' = replies,
         Leading(r)' <=> Leading(r)
  PROVE  LogStep(r)
<1>. DEFINE M == SetStable(lg[r], n)
<1>1. lg[r] \in Logs /\ Filled(lg[r]) /\ lg[r].next \in Nat
  BY DEF Inv, TypeOK, ExecutedPrefixFilled, Filled, Logs
<1>2. M \in Logs /\ M.ent = lg[r].ent /\ M.next = lg[r].next
  BY <1>1, SetStableFacts DEF Lengths
<1>. HIDE DEF M
<1>3. Filled(M) /\ Extends(lg[r], M)
  BY <1>1, <1>2 DEF Filled, Extends
<1>4. lg' = [lg EXCEPT ![r] = M]
  BY DEF M
<1>. QED
  BY <1>2, <1>3, <1>4, LogSet

\* answerSyncPrepare at a replica that does not lead, on either goroutine.
LEMMA AnswerStep ==
  ASSUME Inv, NEW r \in Replicas, ~ Leading(r), NEW n \in Lengths, NEW verdict,
         NEW stable \in Lengths, NEW idle, AnswerSyncPrepare(r, n, verdict, stable, idle),
         replies' = replies, UNCHANGED <<view, status>>, UNCHANGED changeVars
  PROVE  LogStep(r) /\ MessageStep(r) /\ FetchStep(r)
<1>. DEFINE l == LeaderIndex(view[r])
            L == ClearAbove(RewindTo(lg[r], stable), stable)
            refetch == Fetch("plain", l, stable, stable .. L.seen - 1, 0, NoEntries)
            after == IF idle THEN NoFetch ELSE fetch[r]
<1>0. /\ view[r] \in Nat /\ l \in Replicas
      /\ UNCHANGED <<view, status, plan, recovery>> /\ (Leading(r)' <=> Leading(r))
  BY Config, ControlSame DEF Inv, TypeOK, changeVars
<1>1. L \in Logs /\ Filled(L)
  <2>1. lg[r] \in Logs /\ Filled(lg[r])
    BY DEF Inv, TypeOK, ExecutedPrefixFilled, Filled
  <2>. QED
    BY <2>1, RewindFacts DEF Lengths
<1>2. refetch \in Transfer /\ refetch.kind = "plain"
  <2>. DEFINE W == stable .. L.seen - 1
  <2>1. W \in SUBSET Slots /\ 0 \in Lengths /\ NoEntries \in PartialLogs
    BY <1>1, NoFetchFacts, NumSlotsAssumption DEF Logs, Slots, Lengths
  <2>. HIDE DEF W, l
  <2>2. /\ Fetch("plain", l, stable, W, 0, NoEntries) \in Transfer
        /\ Fetch("plain", l, stable, W, 0, NoEntries).kind = "plain"
    BY <1>0, <2>1, FetchType
  <2>. QED
    BY <2>2 DEF W
<1>3. after \in Transfer /\ (after.stage = "sent" /\ after.kind = "slot" => plan[r].phase = "fetch")
  <2>1. fetch[r] \in Transfer /\ Placed(r)
    BY DEF Inv, TypeOK
  <2>. QED
    BY <2>1, NoFetchFacts DEF Placed
<1>4. CASE Acknowledge(r, n, verdict = Unknown, after)
  <2>. DEFINE m == SyncReply(view[r], n, r, l, verdict = Unknown)
  <2>1. /\ lg' = lg
        /\ msgs' = msgs \cup {m}
        /\ fetch' = [fetch EXCEPT ![r] = after]
    BY <1>4 DEF Acknowledge
  <2>2. LogStep(r)
    BY <1>0, <2>1, LogSame
  <2>3. MessageStep(r)
    <3>1. \A u \in BOOLEAN : Sound(r, SyncReply(view[r], n, r, l, u))
      BY <1>0, PlainMessages
    <3>2. Sound(r, m)
      BY <3>1
    <3>. HIDE DEF m
    <3>. QED
      BY <2>1, <3>2 DEF MessageStep
  <2>. HIDE DEF after
  <2>4. FetchStep(r)
    BY <1>0, <1>3, <2>1, FetchSet
  <2>. QED
    BY <2>2, <2>3, <2>4
<1>5. CASE RewindAndRefetch(r, stable, idle, after)
  <2>1. /\ msgs' = msgs
        /\ lg' = lg \/ lg' = [lg EXCEPT ![r] = L]
        /\ \E f \in {refetch, after} : fetch' = [fetch EXCEPT ![r] = f]
    BY <1>5 DEF RewindAndRefetch
  <2>. HIDE DEF after, refetch, L
  <2>2. LogStep(r)
    BY <1>0, <1>1, <2>1, LogSame, LogSet
  <2>3. MessageStep(r)
    BY <2>1, MessagesSame
  <2>4. FetchStep(r)
    BY <1>0, <1>2, <1>3, <2>1, FetchSet
  <2>. QED
    BY <2>2, <2>3, <2>4
<1>. QED
  BY <1>4, <1>5 DEF AnswerSyncPrepare

\* Synchronisation rounds, and the transfers of the replicas they find behind.
LEMMA SyncInv ==
  ASSUME Inv, SyncNext, UNCHANGED gaps, UNCHANGED changeVars
  PROVE  Inv'
<1>. USE DEF changeVars
<1>0. /\ gaps \in [Replicas -> SUBSET Slots] /\ view \in [Replicas -> Nat]
      /\ inflight \in [Replicas -> SUBSET Slots] /\ sync \in [Replicas -> Lengths]
      /\ lg \in [Replicas -> Logs] /\ fetch \in [Replicas -> Transfer]
  BY DEF Inv, TypeOK
<1>1. UNCHANGED <<view, status, inflight>> /\ UNCHANGED <<view, status, plan, recovery>>
  BY DEF SyncNext, SyncOnce, CommitSync, SyncFetchDone, SyncFetchAnswer, SyncFetchFail,
         PlainFetchEnd, HandleSyncPrepareBehind, HandleSyncPrepareReady, HandleSyncCommit
<1>2. \A r \in Replicas : Leading(r)' <=> Leading(r)
  BY <1>1, ControlSame
<1>3. ASSUME NEW r \in Replicas, LogStep(r), FetchStep(r), MessageStep(r),
             sync' \in [Replicas -> Lengths]
      PROVE  Inv'
  <2>1. OtherStep
    BY <1>0, <1>1, <1>3 DEF OtherStep
  <2>. QED
    BY <1>1, <1>3, <2>1, HandlerInv
<1>4. \A r \in Replicas : fetch[r].stage # "idle" => ~ Leading(r)
  BY DEF Inv, Placed
<1>5. ASSUME NEW r \in Replicas, SyncOnce(r)
      PROVE  Inv'
  <2>1. lg[r].next \in Lengths /\ Prefix(lg[r], lg[r].next) \in PartialLogs
    BY <1>0, PrefixType DEF Logs, Lengths
  <2>2. r = LeaderIndex(view[r]) /\ view[r] \in Nat
    BY <1>0, <1>5 DEF SyncOnce, IsLeader
  <2>. DEFINE P(d) == SyncPrepare(view[r], lg[r].next, Prefix(lg[r], lg[r].next), d)
  <2>3. \A d \in Replicas \ {r} : Sound(r, P(d))
    BY <2>1, <2>2 DEF Sound, SyncPrepare, Messages
  <2>4. msgs' = msgs \cup {P(d) : d \in Replicas \ {r}}
    BY <1>5 DEF SyncOnce
  <2>. HIDE DEF P
  <2>5. MessageStep(r)
    BY <2>3, <2>4 DEF MessageStep
  <2>6. LogStep(r) /\ FetchStep(r)
    BY <1>1, <1>2, <1>5, LogSame, FetchSame DEF SyncOnce
  <2>7. sync' \in [Replicas -> Lengths]
    BY <1>0, <1>5, <2>1 DEF SyncOnce
  <2>. QED
    BY <1>3, <2>5, <2>6, <2>7
<1>6. ASSUME NEW r \in Replicas, CommitSync(r)
      PROVE  Inv'
  <2>1. sync[r] \in Lengths /\ 0 \in Lengths /\ view[r] \in Nat
    BY <1>0, NumSlotsAssumption DEF Lengths
  <2>2. \A d \in Replicas : Sound(r, SyncCommit(view[r], sync[r], d))
    BY <2>1, PlainMessages
  <2>3. MessageStep(r)
    BY <1>6, <2>2 DEF CommitSync, MessageStep
  <2>4. LogStep(r) /\ FetchStep(r)
    BY <1>1, <1>2, <1>6, <2>1, StableStep, FetchSame DEF CommitSync
  <2>5. sync' \in [Replicas -> Lengths]
    BY <1>0, <1>6, <2>1 DEF CommitSync
  <2>. QED
    BY <1>3, <2>3, <2>4, <2>5
<1>7. ASSUME NEW r \in Replicas, SyncFetchAnswer(r)
      PROVE  Inv'
  <2>1. fetch[r].n \in Lengths /\ fetch[r].stable \in Lengths /\ ~ Leading(r)
    BY <1>0, <1>4, <1>7 DEF SyncFetchAnswer, Transfer
  <2>2. LogStep(r) /\ MessageStep(r) /\ FetchStep(r)
    BY <1>1, <1>7, <2>1, AnswerStep DEF SyncFetchAnswer
  <2>. QED
    BY <1>0, <1>3, <1>7, <2>2 DEF SyncFetchAnswer
<1>8. ASSUME NEW r \in Replicas, SyncFetchFail(r)
      PROVE  Inv'
  <2>1. LogStep(r) /\ MessageStep(r)
    BY <1>2, <1>8, LogSame, MessagesSame DEF SyncFetchFail
  <2>2. FetchStep(r)
    BY <1>1, <1>8, NoFetchFacts, FetchSet DEF SyncFetchFail
  <2>. QED
    BY <1>0, <1>3, <1>8, <2>1, <2>2 DEF SyncFetchFail
<1>9. ASSUME NEW r \in Replicas, PlainFetchEnd(r)
      PROVE  Inv'
  <2>1. FetchStep(r) /\ MessageStep(r)
    BY <1>1, <1>9, NoFetchFacts, FetchSet, MessagesSame DEF PlainFetchEnd
  <2>2. fetch[r].entries \in PartialLogs
    BY <1>0 DEF Transfer
  <2>3. LogStep(r)
    <3>1. CASE UNCHANGED <<lg, replies>>
      BY <1>2, <3>1, LogSame
    <3>2. CASE Execute(r, ApplyEntries(lg[r], fetch[r].entries), view[r])
      BY <1>2, <2>2, <3>2, EntriesExtend, ExecuteStep
    <3>. QED
      BY <1>9, <3>1, <3>2 DEF PlainFetchEnd
  <2>. QED
    BY <1>0, <1>3, <1>9, <2>1, <2>3 DEF PlainFetchEnd
<1>10. ASSUME NEW r \in Replicas, SyncFetchDone(r)
       PROVE  Inv'
  <2>. DEFINE f == fetch[r]
              L == lg'[r]
              c == CatchUp(r, L, f.n, f.hash)
  <2>0. PICK verdict \in Verdicts :
          fetch' = [fetch EXCEPT ![r] =
            CASE L.next < f.n /\ L.next <= f.from -> NoFetch
              [] L.next < f.n /\ L.next > f.from -> c
              [] OTHER -> Answer(f.n, verdict, L.stable)]
    BY <1>10, CompareType DEF SyncFetchDone
  <2>. DEFINE a == Answer(f.n, verdict, L.stable)
  <2>1. f \in Transfer /\ f.n \in Lengths /\ f.hash \in PartialLogs /\ f.entries \in PartialLogs /\ ~ Leading(r)
    BY <1>0, <1>4, <1>10 DEF Transfer, SyncFetchDone, FetchDone
  <2>2. LogStep(r) /\ L \in Logs
    BY <1>2, <1>10, <2>1, EntriesExtend, ExecuteStep DEF SyncFetchDone
  <2>3. a \in Transfer /\ a.kind = "sync"
    <3>1. L.stable \in Lengths
      BY <2>2 DEF Logs, Lengths
    <3>. QED
      BY <2>1, <3>1, AnswerType
  <2>4. c \in Transfer /\ c.kind = "sync"
    <3>1. L.next \in Lengths /\ Missing(L, L.next, f.n) \in SUBSET Slots
      BY <2>1, <2>2, MissingType
    <3>2. LeaderIndex(view[r]) \in Replicas
      BY <1>0, Config
    <3>. QED
      BY <2>1, <3>1, <3>2, FetchType DEF CatchUp
  <2>5. fetch' = [fetch EXCEPT ![r] =
           CASE L.next < f.n /\ L.next <= f.from -> NoFetch
             [] L.next < f.n /\ L.next > f.from -> c
             [] OTHER -> a]
    BY <2>0
  <2>. HIDE DEF a, c
  <2>6. \E h \in {NoFetch, a, c} : fetch' = [fetch EXCEPT ![r] = h]
    <3>. DEFINE p == L.next < f.n
                q == L.next <= f.from
    <3>0. L.next \in Int /\ f.from \in Int
      <4>1. L.next \in 0 .. NumSlots /\ f.from \in 0 .. NumSlots
        BY <2>1, <2>2 DEF Logs, Transfer, Lengths
      <4>. QED
        BY <4>1, NumSlotsAssumption
    <3>1. (L.next > f.from) <=> ~q
      BY <3>0
    <3>2. CASE p /\ q
      BY <2>5, <3>1, <3>2, Zenon
    <3>3. CASE p /\ ~q
      BY <2>5, <3>1, <3>3, Zenon
    <3>4. CASE ~p
      BY <2>5, <3>4, Zenon
    <3>. QED
      BY <3>2, <3>3, <3>4
  <2>7. FetchStep(r)
    <3>1. PICK h \in {NoFetch, a, c} : fetch' = [fetch EXCEPT ![r] = h]
      BY <2>6
    <3>2. h \in Transfer /\ h.kind # "slot"
      BY <2>3, <2>4, <3>1, NoFetchFacts
    <3>. QED
      BY <1>1, <2>1, <3>1, <3>2, FetchSet
  <2>8. MessageStep(r) /\ sync' \in [Replicas -> Lengths]
    BY <1>0, <1>10, MessagesSame DEF SyncFetchDone
  <2>. QED
    BY <1>3, <2>2, <2>7, <2>8
<1>11. ASSUME NEW m \in msgs, m.type = "SyncPrepare", ForMe(m.dst, m)
       PROVE  /\ m.dst \in Replicas /\ ~ Leading(m.dst)
              /\ m.n \in Lengths /\ m.hash \in PartialLogs
  <2>1. m \in Messages /\ m.dst # LeaderIndex(m.view)
    BY <1>11 DEF Inv, TypeOK, MessagesBacked
  <2>. QED
    BY <1>11, <2>1, MessageFields DEF ForMe, Leading, IsLeader
<1>12. ASSUME NEW m \in msgs, HandleSyncPrepareReady(m.dst, m)
       PROVE  Inv'
  <2>1. m.dst \in Replicas /\ ~ Leading(m.dst) /\ m.n \in Lengths
    BY <1>11, <1>12 DEF HandleSyncPrepareReady
  <2>2. lg[m.dst].stable \in Lengths
    BY <1>0, <2>1 DEF Logs, Lengths
  <2>3. PICK verdict \in Verdicts :
          AnswerSyncPrepare(m.dst, m.n, verdict, lg[m.dst].stable, Idle(m.dst))
    BY <1>12, CompareType DEF HandleSyncPrepareReady
  <2>4. LogStep(m.dst) /\ MessageStep(m.dst) /\ FetchStep(m.dst)
    BY <1>1, <1>12, <2>1, <2>2, <2>3, AnswerStep DEF HandleSyncPrepareReady
  <2>. QED
    BY <1>0, <1>3, <1>12, <2>1, <2>4 DEF HandleSyncPrepareReady
<1>13. ASSUME NEW m \in msgs, HandleSyncPrepareBehind(m.dst, m)
       PROVE  Inv'
  <2>. DEFINE r == m.dst
              f == CatchUp(r, lg[r], m.n, m.hash)
              g == [fetch[r] EXCEPT !.n = m.n, !.hash = m.hash]
  <2>1. r \in Replicas /\ ~ Leading(r) /\ m.n \in Lengths /\ m.hash \in PartialLogs
    BY <1>11, <1>13 DEF HandleSyncPrepareBehind
  <2>2. lg[r] \in Logs /\ fetch[r] \in Transfer /\ LeaderIndex(view[r]) \in Replicas
    BY <1>0, <2>1, Config
  <2>3. f \in Transfer /\ f.kind = "sync"
    <3>1. lg[r].next \in Lengths /\ Missing(lg[r], lg[r].next, m.n) \in SUBSET Slots
      BY <2>1, <2>2, MissingType
    <3>. QED
      BY <2>1, <2>2, <3>1, FetchType DEF CatchUp
  <2>4. g \in Transfer /\ g.kind = fetch[r].kind
    BY <2>1, <2>2 DEF Transfer
  <2>5. \/ fetch' = [fetch EXCEPT ![r] = f]
        \/ fetch' = [fetch EXCEPT ![r] = g] /\ fetch[r].kind = "sync"
    BY <1>0, <1>13, <2>1 DEF HandleSyncPrepareBehind
  <2>6. LogStep(r) /\ MessageStep(r) /\ sync' \in [Replicas -> Lengths]
    BY <1>0, <1>2, <1>13, <2>1, LogSame, MessagesSame DEF HandleSyncPrepareBehind
  <2>. HIDE DEF f, g, r
  <2>7. FetchStep(r)
    BY <1>1, <2>1, <2>3, <2>4, <2>5, FetchSet
  <2>. QED
    BY <1>3, <2>1, <2>6, <2>7
<1>14. ASSUME NEW m \in msgs, HandleSyncCommit(m.dst, m)
       PROVE  Inv'
  <2>1. m.dst \in Replicas /\ m.n \in Lengths
    BY <1>14, MessageFields DEF HandleSyncCommit, Inv, TypeOK
  <2>2. LogStep(m.dst)
    BY <1>2, <1>14, <2>1, StableStep DEF HandleSyncCommit
  <2>3. FetchStep(m.dst) /\ MessageStep(m.dst)
    BY <1>1, <1>14, <2>1, FetchSame, MessagesSame DEF HandleSyncCommit
  <2>. QED
    BY <1>0, <1>3, <1>14, <2>1, <2>2, <2>3 DEF HandleSyncCommit
<1>. QED
  BY <1>5, <1>6, <1>7, <1>8, <1>9, <1>10, <1>12, <1>13, <1>14 DEF SyncNext

-----------------------------------------------------------------------------
(* The logs of a view change *)

(***************************************************************************)
(* installCanonicalViewLocked leaves a filled executed prefix, and below   *)
(* the end of the merged log exactly the merged no-ops are added.          *)
(***************************************************************************)
LEMMA CanonicalFacts ==
  ASSUME NEW L \in Logs, Filled(L), NEW max \in Lengths, NEW noops \in SUBSET Slots
  PROVE  LET M == Canonical(L, max, noops) IN
         /\ M \in Logs /\ Filled(M) /\ M.next <= L.next
         /\ \A s \in Slots : s < max =>
              M.ent[s] = IF s \in noops THEN NoOp ELSE L.ent[s]
<1>. DEFINE T == {n \in 0 .. Smaller(L.next, max) : \A s \in noops : s < n => L.ent[s] # Received}
            target == Highest(T)
            R == RewindTo(L, target)
            outside == {s \in Slots : s >= max /\ R.ent[s] = NoOp}
            C == ClearSlots(R, outside)
            K == RecomputeMax(C)
            M == SetNoOps(K, noops)
<1>0. /\ L.ent \in [Slots -> SlotStates] /\ L.next \in 0 .. NumSlots /\ max \in 0 .. NumSlots
      /\ NumSlots \in Nat
  BY NumSlotsAssumption DEF Logs, Lengths
<1>1. Smaller(L.next, max) \in Nat /\ Smaller(L.next, max) <= L.next /\ Smaller(L.next, max) <= max
  BY <1>0 DEF Smaller
<1>2. 0 \in T /\ T \in SUBSET (0 .. Smaller(L.next, max))
  BY <1>1, NumSlotsAssumption DEF Slots
<1>3. target \in T
  BY <1>1, <1>2, HighestFacts
<1>4. target \in 0 .. NumSlots /\ target <= L.next /\ target <= max
  BY <1>0, <1>1, <1>3
<1>5. \A s \in noops : s < target => L.ent[s] # Received
  BY <1>3
<1>. HIDE DEF target, T
<1>6. R \in Logs /\ R.ent = L.ent /\ R.next = target
  <2>1. R \in Logs /\ R.ent = L.ent /\ R.next = Smaller(L.next, target)
    BY <1>4, RewindToFacts
  <2>2. Smaller(L.next, target) = target
    BY <1>0, <1>4 DEF Smaller
  <2>. QED
    BY <2>1, <2>2
<1>. HIDE DEF R
<1>7. /\ C \in Logs /\ C.next = target
      /\ \A t \in Slots : C.ent[t] = IF t \in outside THEN Empty ELSE L.ent[t]
  BY <1>6, ClearSlotsFacts
<1>8. \A t \in Slots : t < max => C.ent[t] = L.ent[t]
  BY <1>0, <1>7, NumSlotsAssumption DEF Slots
<1>. HIDE DEF C, outside
<1>9. K \in Logs /\ K.next = target /\ K.ent = C.ent
  BY <1>7, RecomputeMaxFacts
<1>. HIDE DEF K
<1>10. /\ M \in Logs /\ M.next = target
       /\ \A t \in Slots : M.ent[t] = IF t \in noops /\ t >= target THEN NoOp ELSE C.ent[t]
  BY <1>9, SetNoOpsFacts
<1>. HIDE DEF M
<1>11. \A t \in Slots : t < L.next => L.ent[t] # Empty
  BY <1>0, NumSlotsAssumption DEF Filled, Slots
<1>12. \A s \in Slots : s < max => M.ent[s] = IF s \in noops THEN NoOp ELSE L.ent[s]
  <2>. SUFFICES ASSUME NEW s \in Slots, s < max
                PROVE  M.ent[s] = IF s \in noops THEN NoOp ELSE L.ent[s]
    OBVIOUS
  <2>1. s \in Int /\ target \in Int /\ L.next \in Int
    BY <1>0, <1>4, NumSlotsAssumption DEF Slots
  <2>2. M.ent[s] = IF s \in noops /\ s >= target THEN NoOp ELSE L.ent[s]
    BY <1>8, <1>10
  <2>3. ASSUME s \in noops, s < target PROVE L.ent[s] = NoOp
    <3>1. L.ent[s] # Received /\ L.ent[s] # Empty
      BY <1>4, <1>5, <1>11, <2>1, <2>3
    <3>. QED
      BY <1>0, <3>1 DEF SlotStates
  <2>. QED
    BY <2>1, <2>2, <2>3
<1>13. Filled(M)
  <2>1. \A s \in 0 .. target - 1 : s \in Slots /\ s < max /\ s < L.next
    BY <1>0, <1>4, NumSlotsAssumption DEF Slots
  <2>. QED
    BY <1>10, <1>11, <1>12, <2>1 DEF Filled, NoOp, Empty
<1>14. M = Canonical(L, max, noops)
  BY DEF Canonical, M, K, C, outside, R, target, T
<1>. QED
  BY <1>4, <1>10, <1>12, <1>13, <1>14

(***************************************************************************)
(* prepareRecoveryLocked rewinds far enough: what it leaves executed is    *)
(* filled, whether or not the log is retained.                             *)
(***************************************************************************)
LEMMA PreparedFacts ==
  ASSUME NEW L \in Logs, Filled(L), NEW m \in Messages, m.type = "StartView", NEW retain
  PROVE  Prepared(L, m, retain) \in Logs /\ Filled(Prepared(L, m, retain))
<1>. DEFINE dropped == {s \in Slots : s >= L.stable /\ L.ent[s] = NoOp /\ s \notin m.noops}
            wrong == dropped \cup {s \in m.noops : L.ent[s] = Received}
            T == {n \in 0 .. Smaller(L.next, m.max) : \A s \in wrong : s >= n}
            target == IF m.max = 0 THEN 0 ELSE IF ~retain THEN L.stable ELSE Highest(T)
            R == RewindTo(L, target)
            cleared == IF retain THEN dropped ELSE target .. NumSlots - 1
            C == ClearSlots(R, cleared)
            K == RecomputeMax(C)
            M == SetNoOps(K, m.noops)
<1>0. /\ L.next \in 0 .. NumSlots /\ L.stable \in 0 .. NumSlots /\ m.max \in 0 .. NumSlots
      /\ NumSlots \in Nat /\ m.noops \in SUBSET Slots
  BY MessageFields, NumSlotsAssumption DEF Logs, Lengths
<1>1. Smaller(L.next, m.max) \in Nat /\ Smaller(L.next, m.max) <= NumSlots
  BY <1>0 DEF Smaller
<1>2. 0 \in T /\ T \in SUBSET (0 .. Smaller(L.next, m.max))
  BY <1>0, <1>1, NumSlotsAssumption DEF Slots
<1>3. Highest(T) \in T
  BY <1>1, <1>2, HighestFacts
<1>4. target \in 0 .. NumSlots
  BY <1>0, <1>1, <1>3
<1>5. \A s \in Slots : s < target /\ target # 0 => s \notin cleared
  <2>1. CASE retain
    <3>1. target # 0 => \A s \in wrong : s >= target
      BY <1>3, <2>1
    <3>. HIDE DEF target
    <3>. QED
      BY <1>4, <2>1, <3>1, NumSlotsAssumption DEF Slots
  <2>2. CASE ~retain
    <3>. HIDE DEF target
    <3>. QED
      BY <1>4, <2>2, NumSlotsAssumption DEF Slots
  <2>. QED
    BY <2>1, <2>2
<1>. HIDE DEF target, cleared, T
<1>6. R \in Logs /\ R.ent = L.ent /\ R.next = Smaller(L.next, target)
  BY <1>4, RewindToFacts
<1>. HIDE DEF R
<1>7. /\ C \in Logs /\ C.next = R.next
      /\ \A t \in Slots : C.ent[t] = IF t \in cleared THEN Empty ELSE L.ent[t]
  BY <1>6, ClearSlotsFacts
<1>. HIDE DEF C
<1>8. K \in Logs /\ K.next = R.next /\ K.ent = C.ent
  BY <1>7, RecomputeMaxFacts
<1>. HIDE DEF K
<1>9. /\ M \in Logs /\ M.next = R.next
      /\ \A t \in Slots : M.ent[t] = IF t \in m.noops /\ t >= R.next THEN NoOp ELSE C.ent[t]
  BY <1>0, <1>8, SetNoOpsFacts
<1>. HIDE DEF M
<1>10. Filled(M)
  <2>1. \A s \in 0 .. R.next - 1 : s \in Slots /\ s < L.next /\ s < target /\ target # 0
    BY <1>0, <1>4, <1>6, NumSlotsAssumption DEF Slots, Smaller
  <2>2. \A s \in 0 .. L.next - 1 : L.ent[s] # Empty
    BY DEF Filled
  <2>. QED
    BY <1>0, <1>5, <1>7, <1>9, <2>1, <2>2, NumSlotsAssumption DEF Filled, NoOp, Empty, Slots
<1>11. M = Prepared(L, m, retain)
  BY DEF Prepared, M, K, C, cleared, R, target, T
<1>. QED
  BY <1>9, <1>10, <1>11

\* mergeSuffix over reports of one view makes a plan for that view.
LEMMA MergeType ==
  ASSUME Inv, NEW v \in Nat, NEW Q \in SUBSET Reports(v), Q # {}, NEW c \in Furthest(Q)
  PROVE  /\ MergeSuffix(Q, c) \in Plan /\ MergeSuffix(Q, c).phase = "fetch"
         /\ DOMAIN MergeSuffix(Q, c).donors = MergeSuffix(Q, c).stable .. MergeSuffix(Q, c).max - 1
         /\ c \in Replicas
<1>. DEFINE best == Highest({m.lastNormalView : m \in Q})
            survivors == {m \in Q : m.lastNormalView = best}
            stable == Highest({m.stable : m \in survivors})
            max == Highest({FilledTop(m) : m \in survivors})
            donors == [s \in stable .. max - 1 |->
                         {m.src : m \in {m \in survivors : m.ent[s] = Received}}]
<1>1. \A m \in Q : /\ m.src \in Replicas /\ m.lastNormalView \in 0 .. v
                   /\ m.stable \in 0 .. NumSlots /\ m.ent \in [Slots -> SlotStates]
  <2>. SUFFICES ASSUME NEW m \in Q
                PROVE  /\ m.src \in Replicas /\ m.lastNormalView \in 0 .. v
                       /\ m.stable \in 0 .. NumSlots /\ m.ent \in [Slots -> SlotStates]
    OBVIOUS
  <2>1. m \in Messages /\ m.type = "ViewChange" /\ m.view = v /\ m.lastNormalView < v
    BY DEF Reports, Inv, TypeOK, MessagesBacked
  <2>. QED
    BY <2>1, MessageFields DEF Lengths
<1>2. best \in {m.lastNormalView : m \in Q} /\ best \in Nat
  <2>. DEFINE S == {m.lastNormalView : m \in Q}
  <2>1. S \in SUBSET (0 .. v) /\ S # {}
    BY <1>1
  <2>2. Highest(S) \in S
    BY <2>1, HighestFacts
  <2>3. \A x \in S : x \in Nat
    BY <1>1
  <2>. QED
    BY <2>2, <2>3, Zenon
<1>3. survivors # {} /\ survivors \in SUBSET Q
  BY <1>2
<1>. HIDE DEF best, survivors
<1>4. stable \in Lengths
  <2>. DEFINE S == {m.stable : m \in survivors}
  <2>1. S \in SUBSET (0 .. NumSlots) /\ S # {} /\ NumSlots \in Nat
    BY <1>1, <1>3, NumSlotsAssumption
  <2>2. Highest(S) \in S
    BY <2>1, HighestFacts
  <2>. QED
    BY <2>1, <2>2 DEF Lengths
<1>5. max \in Lengths
  <2>. DEFINE S == {FilledTop(m) : m \in survivors}
  <2>1. ASSUME NEW m \in survivors PROVE FilledTop(m) \in 0 .. NumSlots
    <3>1. {s \in Slots : m.ent[s] # Empty} \in SUBSET Slots /\ 0 \in 0 .. NumSlots
      BY NumSlotsAssumption
    <3>. QED
      BY <3>1, TopType DEF FilledTop
  <2>2. S \in SUBSET (0 .. NumSlots) /\ S # {} /\ NumSlots \in Nat
    BY <1>3, <2>1, NumSlotsAssumption
  <2>3. Highest(S) \in S
    BY <2>2, HighestFacts
  <2>. QED
    BY <2>2, <2>3 DEF Lengths
<1>. HIDE DEF stable, max
<1>6. stable .. max - 1 \in SUBSET Slots
  BY <1>4, <1>5, NumSlotsAssumption DEF Lengths, Slots
<1>7. donors \in [stable .. max - 1 -> SUBSET Replicas]
  BY <1>1, <1>3
<1>8. donors \in UNION {[D -> SUBSET Replicas] : D \in SUBSET Slots} /\ DOMAIN donors = stable .. max - 1
  BY <1>6, <1>7, Zenon
<1>9. c \in Replicas
  BY <1>1, <1>3 DEF Furthest, survivors, best
<1>. HIDE DEF donors
<1>10. MergeSuffix(Q, c) =
         [phase |-> "fetch", source |-> best, stable |-> stable, max |-> max,
          donors |-> donors, catchUp |-> c, stuck |-> {}]
  BY DEF MergeSuffix, donors, max, stable, survivors, best
<1>. QED
  BY <1>2, <1>4, <1>5, <1>8, <1>9, <1>10 DEF Plan

-----------------------------------------------------------------------------
(* The view change *)

\* What the values without a plan and without a StartView say.
LEMMA NoneFacts == NoPlan \in Plan /\ NoPlan.phase = "none" /\ NoRecovery \in Recovery
BY DEF NoPlan, Plan, NoRecovery, Recovery

\* A plan under work is a record, of the leader of a view that changes.
LEMMA PlanFacts ==
  ASSUME Inv, NEW r \in Replicas, plan[r].phase \in {"fetch", "installed"}
  PROVE  /\ plan[r] # NoPlan /\ status[r] = StatusViewChange /\ recovery[r] = NoRecovery
         /\ IsLeader(r) /\ Left(view[r])
         /\ plan[r] \in [phase : {"fetch", "installed"}, source : Nat, stable : Lengths,
                         max : Lengths,
                         donors : UNION {[D -> SUBSET Replicas] : D \in SUBSET Slots},
                         catchUp : Replicas, stuck : SUBSET Slots]
         /\ DOMAIN plan[r].donors = plan[r].stable .. plan[r].max - 1
<1>1. plan[r] \in Plan /\ Placed(r) /\ Entered(r) /\ plan[r] # NoPlan
  BY NoneFacts DEF Inv, TypeOK
<1>2. /\ status[r] = StatusViewChange /\ recovery[r] = NoRecovery /\ IsLeader(r)
      /\ DOMAIN plan[r].donors = plan[r].stable .. plan[r].max - 1
  BY <1>1 DEF Placed
<1>3. Left(view[r])
  BY <1>1 DEF Entered
<1>. QED
  BY <1>1, <1>2, <1>3 DEF Plan

\* A StartView under work is a record, of a replica without a plan.
LEMMA RecoveryFacts ==
  ASSUME Inv, NEW r \in Replicas, recovery[r] # NoRecovery
  PROVE  /\ plan[r] = NoPlan /\ Left(view[r])
         /\ recovery[r] \in [view : Nat, refused : BOOLEAN, stable : Lengths, max : Lengths,
                             verify : BOOLEAN, hash : PartialLogs, base : Lengths,
                             replayTo : Lengths]
<1>1. recovery[r] \in Recovery /\ Placed(r) /\ Entered(r)
  BY DEF Inv, TypeOK
<1>2. plan[r] = NoPlan
  BY <1>1 DEF Placed
<1>3. Left(view[r])
  BY <1>1 DEF Entered
<1>. QED
  BY <1>1, <1>2, <1>3 DEF Recovery

\* A step that changes only r's plan, in a view that a majority has reached.
LEMMA PlanSet ==
  ASSUME Inv, NEW r \in Replicas, UNCHANGED <<view, status, lastNormalView, source, recovery>>,
         plan' \in [Replicas -> Plan], \A q \in Replicas \ {r} : plan'[q] = plan[q], Left(view[r])
  PROVE  ControlStep(r)
<1>1. view[r] \in Nat /\ view'[r] = view[r] /\ Left(view'[r])
  BY DEF Inv, TypeOK
<1>2. IF status'[r] = StatusNormal THEN lastNormalView'[r] = view'[r]
                                   ELSE lastNormalView'[r] < view'[r]
  BY DEF Inv, TypeOK
<1>. QED
  BY <1>1, <1>2 DEF ControlStep, Inv, TypeOK

\* beginViewChangeLocked: the replica leaves its view and drops its work there.
LEMMA BeginInv ==
  ASSUME Inv, NEW r \in Replicas, NEW v \in Nat, v > view[r], BeginViewChange(r, v)
  PROVE  Inv'
<1>. USE DEF BeginViewChange
<1>0. /\ view[r] \in Nat /\ lastNormalView[r] \in Nat /\ lastNormalView[r] <= view[r]
      /\ StatusNormal # StatusViewChange /\ 0 \in Lengths
  <2>1. view[r] \in Nat /\ lastNormalView[r] \in Nat
    BY DEF Inv, TypeOK
  <2>2. lastNormalView[r] = view[r] \/ lastNormalView[r] < view[r]
    BY DEF Inv, TypeOK
  <2>. QED
    BY <2>1, <2>2, NumSlotsAssumption DEF Lengths, StatusNormal, StatusViewChange
<1>1. ControlStep(r)
  <2>1. /\ view'[r] = v /\ status'[r] = StatusViewChange /\ plan'[r] = NoPlan
        /\ recovery'[r] = NoRecovery
    BY DEF Inv, TypeOK
  <2>2. /\ view' \in [Replicas -> Nat] /\ status' \in [Replicas -> {StatusNormal, StatusViewChange}]
        /\ lastNormalView' \in [Replicas -> Nat] /\ source' \in [Replicas -> Nat]
        /\ plan' \in [Replicas -> Plan] /\ recovery' \in [Replicas -> Recovery]
    BY NoneFacts DEF Inv, TypeOK
  <2>3. \A q \in Replicas \ {r} :
          /\ view'[q] = view[q] /\ status'[q] = status[q] /\ lastNormalView'[q] = lastNormalView[q]
          /\ plan'[q] = plan[q] /\ recovery'[q] = recovery[q]
    BY DEF Inv, TypeOK
  <2>. QED
    BY <1>0, <2>1, <2>2, <2>3 DEF ControlStep
<1>2. LogStep(r)
  <2>1. view'[r] # view[r]
    BY <1>0 DEF Inv, TypeOK
  <2>. QED
    BY <2>1, LogSame
<1>3. FetchStep(r)
  <2>1. /\ fetch' \in [Replicas -> Transfer] /\ fetch'[r] = NoFetch
        /\ \A q \in Replicas \ {r} : fetch'[q] = fetch[q]
    BY NoFetchFacts DEF Inv, TypeOK
  <2>2. plan'[r] = NoPlan /\ status'[r] = StatusViewChange
    BY DEF Inv, TypeOK
  <2>3. Placed(r)'
    BY <1>0, <2>1, <2>2, NoFetchFacts, NoneFacts DEF Placed, Leading
  <2>. QED
    BY <2>1, <2>3 DEF FetchStep
<1>4. OtherStep
  BY <1>0 DEF OtherStep, Inv, TypeOK
<1>5. MessageStep(r)
  <2>1. view'[r] = v
    BY DEF Inv, TypeOK
  <2>2. Sound(r, ViewChangeRequest(v, r))
    BY <2>1 DEF Sound, ViewChangeRequest, Messages
  <2>. QED
    BY <2>2 DEF MessageStep
<1>. QED
  BY <1>1, <1>2, <1>3, <1>4, <1>5, StepInv DEF Step

\* handleViewChangeRequest: a report is sent after a quorum has left the lower views.
LEMMA ReportInv == ASSUME Inv, NEW r \in Replicas, SendReport(r) PROVE Inv'
<1>. USE DEF SendReport
<1>0. UNCHANGED <<view, status, plan, recovery>> /\ UNCHANGED changeVars
  BY DEF changeVars
<1>1. /\ view[r] \in Nat /\ lastNormalView[r] \in Nat /\ lg[r] \in Logs
      /\ LeaderIndex(view[r]) \in Replicas
  BY Config DEF Inv, TypeOK
<1>2. lastNormalView[r] < view[r]
  BY DEF Changing, StatusNormal, StatusViewChange, Inv, TypeOK
<1>3. Left(view[r])
  <2>. DEFINE A == Requests(view[r])
              B == {q \in Replicas : view[q] >= view[r]}
  <2>1. A \in SUBSET B
    BY MessageFields DEF Requests, Inv, TypeOK, MessagesBacked
  <2>2. IsFiniteSet(A) /\ IsFiniteSet(B) /\ Cardinality(A) <= Cardinality(B)
    BY <2>1, Config, FS_Subset
  <2>3. Cardinality(A) \in Nat /\ Cardinality(B) \in Nat /\ Cardinality(A) >= F + 1
    BY <2>2, FS_CardinalityType, Config
  <2>. HIDE DEF A, B
  <2>4. 2 * Cardinality(B) > N
    BY <2>2, <2>3, Config
  <2>. QED
    BY <2>4 DEF Left, B
<1>4. Sound(r, Report(r))
  <2>1. Report(r) \in Messages
    <3>1. lg[r].next \in Lengths /\ lg[r].stable \in Lengths /\ lg[r].ent \in [Slots -> SlotStates]
      BY <1>1 DEF Logs, Lengths
    <3>2. [s \in Slots |-> IF s < lg[r].stable THEN Empty ELSE lg[r].ent[s]] \in [Slots -> SlotStates]
      BY <3>1 DEF SlotStates
    <3>. QED
      BY <1>1, <3>1, <3>2 DEF Report, Messages
  <2>. QED
    BY <1>2, <1>3, <2>1 DEF Sound, Report
<1>5. MessageStep(r)
  BY <1>4 DEF MessageStep
<1>6. LogStep(r) /\ FetchStep(r)
  BY <1>0, ControlSame, LogSame, FetchSame
<1>7. OtherStep
  BY DEF OtherStep, Inv, TypeOK
<1>. QED
  BY <1>0, <1>5, <1>6, <1>7, HandlerInv

\* driveViewChange: the merge.
LEMMA MergeInv == ASSUME Inv, NEW l \in Replicas, Merge(l) PROVE Inv'
<1>. USE DEF Merge
<1>1. PICK Q \in SUBSET Reports(view[l]) :
        /\ Cardinality(Q) = QuorumSize
        /\ \E c \in Furthest(Q) : plan' = [plan EXCEPT ![l] = MergeSuffix(Q, c)]
  OBVIOUS
<1>2. PICK c \in Furthest(Q) : plan' = [plan EXCEPT ![l] = MergeSuffix(Q, c)]
  BY <1>1
<1>3. Q # {} /\ view[l] \in Nat
  <2>1. Cardinality({}) = 0 /\ QuorumSize # 0
    BY Config, FS_EmptySet
  <2>2. view[l] \in Nat
    BY DEF Inv, TypeOK
  <2>. QED
    BY <1>1, <2>1, <2>2
<1>4. PICK p \in Plan : /\ plan' = [plan EXCEPT ![l] = p] /\ p.phase = "fetch"
                        /\ DOMAIN p.donors = p.stable .. p.max - 1
  BY <1>2, <1>3, MergeType
<1>5. Left(view[l])
  BY <1>3 DEF Reports, Inv, MessagesBacked
<1>6. /\ plan' \in [Replicas -> Plan] /\ plan'[l] = p
      /\ \A q \in Replicas \ {l} : plan'[q] = plan[q]
  BY <1>4 DEF Inv, TypeOK
<1>7. ControlStep(l)
  BY <1>5, <1>6, PlanSet
<1>8. ~ Leading(l) /\ ~ Leading(l)'
  BY <1>4, <1>6, NoneFacts DEF Leading, Changing, StatusNormal, StatusViewChange
<1>9. LogStep(l) /\ MessageStep(l)
  BY <1>8, LogSame, MessagesSame
<1>10. FetchStep(l)
  <2>1. Placed(l)'
    BY <1>4, <1>6, <1>8 DEF Placed, Changing, IsLeader
  <2>. QED
    BY <2>1 DEF FetchStep, Inv, TypeOK
<1>11. OtherStep
  BY DEF OtherStep, Inv, TypeOK
<1>. QED
  BY <1>7, <1>9, <1>10, <1>11, StepInv DEF Step

\* fetchMergedState: the new leader asks for what it lacks, and takes back the
\* no-op of a slot that is to be a bus.
LEMMA FetchMergedInv ==
  ASSUME Inv, NEW l \in Replicas, FetchPrefix(l) \/ FetchSlot(l)
  PROVE  Inv'
<1>0. /\ UNCHANGED <<view, status, plan, recovery>> /\ UNCHANGED <<view, status>>
      /\ UNCHANGED changeVars
      /\ msgs' = msgs /\ replies' = replies /\ UNCHANGED <<inflight, gaps, sync>>
  BY DEF FetchPrefix, FetchSlot, changeVars
<1>1. /\ plan[l].phase = "fetch" /\ plan[l] \in Plan /\ lg[l] \in Logs /\ Filled(lg[l])
      /\ lg \in [Replicas -> Logs]
  BY DEF FetchPrefix, FetchSlot, Merging, Inv, TypeOK, ExecutedPrefixFilled, Filled
<1>2. /\ plan[l].stable \in Lengths /\ plan[l].catchUp \in Replicas
      /\ DOMAIN plan[l].donors \in SUBSET Slots
      /\ \A s \in DOMAIN plan[l].donors : plan[l].donors[s] \in SUBSET Replicas
  <2>. DEFINE FD == UNION {[D -> SUBSET Replicas] : D \in SUBSET Slots}
  <2>1. plan[l].donors \in FD /\ plan[l].stable \in Lengths /\ plan[l].catchUp \in Replicas
    BY <1>1, PlanFacts
  <2>2. PICK D \in SUBSET Slots : plan[l].donors \in [D -> SUBSET Replicas]
    BY <2>1, Zenon
  <2>. QED
    BY <2>1, <2>2
<1>3. ~ Leading(l) /\ (Leading(l)' <=> Leading(l))
  BY <1>0, <1>1, PlanFacts, ControlSame DEF Leading, StatusNormal, StatusViewChange
<1>4. OtherStep /\ MessageStep(l)
  BY <1>0, MessagesSame DEF OtherStep, Inv, TypeOK
<1>5. NoEntries \in PartialLogs /\ 0 \in Lengths
  BY NoFetchFacts, NumSlotsAssumption DEF Lengths
<1>6. CASE FetchPrefix(l)
  <2>1. lg[l].next \in Lengths /\ PrefixMissing(l) \in SUBSET Slots
    BY <1>1, <1>2, MissingType DEF PrefixMissing
  <2>2. PICK f \in Transfer : fetch' = [fetch EXCEPT ![l] = f] /\ f.kind = "prefix"
    <3>. DEFINE g == Fetch("prefix", plan[l].catchUp, lg[l].next, PrefixMissing(l), 0, NoEntries)
    <3>1. g \in Transfer /\ g.kind = "prefix"
      BY <1>2, <1>5, <2>1, FetchType
    <3>2. fetch' = [fetch EXCEPT ![l] = g]
      BY <1>6 DEF FetchPrefix
    <3>. HIDE DEF g
    <3>. QED
      BY <3>1, <3>2
  <2>3. FetchStep(l)
    BY <1>0, <1>3, <2>2, FetchSet
  <2>4. LogStep(l)
    BY <1>0, <1>3, <1>6, LogSame DEF FetchPrefix
  <2>. QED
    BY <1>0, <1>4, <2>3, <2>4, HandlerInv
<1>7. CASE FetchSlot(l)
  <2>1. PICK s \in Wanted(l) :
          /\ lg' = [lg EXCEPT ![l] = ClearSlots(RewindTo(@, s), {s})]
          /\ \E d \in plan[l].donors[s] \ {l} :
               fetch' = [fetch EXCEPT ![l] = Fetch("slot", d, s, {s}, 0, NoEntries)]
    BY <1>7 DEF FetchSlot
  <2>2. s \in Slots /\ s \in DOMAIN plan[l].donors /\ s \in 0 .. NumSlots
    BY <1>2, <2>1, NumSlotsAssumption DEF Wanted, Slots
  <2>3. PICK d \in Replicas : fetch' = [fetch EXCEPT ![l] = Fetch("slot", d, s, {s}, 0, NoEntries)]
    BY <1>2, <2>1, <2>2
  <2>4. PICK f \in Transfer : fetch' = [fetch EXCEPT ![l] = f]
    <3>1. {s} \in SUBSET Slots /\ s \in Lengths
      BY <2>2 DEF Lengths
    <3>2. Fetch("slot", d, s, {s}, 0, NoEntries) \in Transfer
      BY <1>5, <3>1, FetchType
    <3>. QED
      BY <2>3, <3>2
  <2>5. FetchStep(l)
    BY <1>0, <1>1, <1>3, <2>4, FetchSet
  <2>. DEFINE R == RewindTo(lg[l], s)
              C == ClearSlots(R, {s})
  <2>6. R \in Logs /\ R.ent = lg[l].ent /\ R.next = Smaller(lg[l].next, s) /\ Filled(R)
    BY <1>1, <2>2, RewindToFacts
  <2>7. lg' = [lg EXCEPT ![l] = C]
    BY <1>1, <2>1
  <2>8. R.next <= s /\ R.next \in 0 .. NumSlots
    BY <1>1, <2>2, <2>6, NumSlotsAssumption DEF Smaller, Logs
  <2>. HIDE DEF R
  <2>9. C \in Logs /\ C.next = R.next /\ \A t \in Slots : C.ent[t] = IF t \in {s} THEN Empty ELSE R.ent[t]
    BY <2>6, ClearSlotsFacts
  <2>. HIDE DEF C
  <2>10. Filled(C)
    BY <2>2, <2>6, <2>8, <2>9, NumSlotsAssumption DEF Filled, Slots
  <2>11. LogStep(l)
    BY <1>0, <1>3, <2>7, <2>9, <2>10, LogSet
  <2>. QED
    BY <1>0, <1>4, <2>5, <2>11, HandlerInv
<1>. QED
  BY <1>6, <1>7

\* A transfer of a view change ends, with its answer or without one.
LEMMA ChangeFetchInv ==
  ASSUME Inv, NEW r \in Replicas, ChangeFetchDone(r) \/ ChangeFetchFail(r)
  PROVE  Inv'
<1>0. /\ UNCHANGED <<view, status, lastNormalView, source, recovery>>
      /\ msgs' = msgs /\ replies' = replies /\ UNCHANGED <<inflight, gaps, sync>>
      /\ fetch' = [fetch EXCEPT ![r] = NoFetch]
  BY DEF ChangeFetchDone, ChangeFetchFail, changeVars
<1>1. /\ Placed(r) /\ lg \in [Replicas -> Logs] /\ fetch[r] \in Transfer /\ plan \in [Replicas -> Plan]
      /\ Filled(lg[r]) /\ lg[r].next \in 0 .. NumSlots
  BY DEF Inv, TypeOK, ExecutedPrefixFilled, Filled, Logs
<1>2. ~ Leading(r)
  BY <1>1 DEF Placed, ChangeFetchDone, ChangeFetchFail, FetchDone, FetchLost
<1>3. OtherStep /\ MessageStep(r)
  BY <1>0, MessagesSame DEF OtherStep, Inv, TypeOK
<1>4. CASE ChangeFetchDone(r)
  <2>. DEFINE M == ApplyEntries(lg[r], fetch[r].entries)
  <2>1. fetch[r].entries \in PartialLogs
    BY <1>1 DEF Transfer
  <2>2. M \in Logs /\ Extends(lg[r], M) /\ M.next = lg[r].next
    BY <2>1, EntriesExtend
  <2>. HIDE DEF M
  <2>3. Filled(M)
    BY <1>1, <2>2, NumSlotsAssumption DEF Filled, Extends, Slots
  <2>4. lg' = [lg EXCEPT ![r] = M] /\ UNCHANGED changeVars
    BY <1>4 DEF ChangeFetchDone, M
  <2>5. LogStep(r)
    BY <1>0, <1>2, <2>2, <2>3, <2>4, LogSet
  <2>6. FetchStep(r)
    BY <1>0, <2>4, NoFetchFacts, FetchSet DEF changeVars
  <2>. QED
    BY <1>0, <1>3, <2>4, <2>5, <2>6, HandlerInv
<1>5. CASE ChangeFetchFail(r) /\ UNCHANGED plan
  <2>1. UNCHANGED changeVars /\ lg' = lg
    BY <1>0, <1>5 DEF changeVars, ChangeFetchFail
  <2>2. LogStep(r)
    BY <1>0, <1>2, <2>1, LogSame
  <2>3. FetchStep(r)
    BY <1>0, <1>5, NoFetchFacts, FetchSet
  <2>. QED
    BY <1>0, <1>3, <2>1, <2>2, <2>3, HandlerInv
<1>6. CASE ChangeFetchFail(r) /\ FetchLost(r, "slot")
           /\ plan' = [plan EXCEPT ![r].stuck = @ \cup fetch[r].slots]
  <2>1. plan[r].phase = "fetch"
    BY <1>1, <1>6 DEF Placed, FetchLost
  <2>. DEFINE p == [plan[r] EXCEPT !.stuck = @ \cup fetch[r].slots]
  <2>2. /\ p \in Plan /\ p.phase = "fetch" /\ p.donors = plan[r].donors
        /\ p.stable = plan[r].stable /\ p.max = plan[r].max
    <3>1. fetch[r].slots \in SUBSET Slots
      BY <1>1 DEF Transfer
    <3>. QED
      BY <2>1, <3>1, PlanFacts DEF Plan
  <2>3. plan' = [plan EXCEPT ![r] = p]
    BY <1>1, <1>6
  <2>. HIDE DEF p
  <2>4. plan' \in [Replicas -> Plan] /\ plan'[r] = p /\ \A q \in Replicas \ {r} : plan'[q] = plan[q]
    BY <1>1, <2>2, <2>3
  <2>5. /\ status[r] = StatusViewChange /\ recovery[r] = NoRecovery /\ IsLeader(r)
        /\ Left(view[r]) /\ DOMAIN plan[r].donors = plan[r].stable .. plan[r].max - 1
    BY <2>1, PlanFacts
  <2>6. ControlStep(r)
    BY <1>0, <2>4, <2>5, PlanSet
  <2>7. LogStep(r)
    BY <1>0, <1>2, <1>6, LogSame DEF ChangeFetchFail
  <2>8. FetchStep(r)
    <3>1. /\ fetch' \in [Replicas -> Transfer] /\ fetch'[r] = NoFetch
          /\ \A q \in Replicas \ {r} : fetch'[q] = fetch[q]
      BY <1>0, NoFetchFacts DEF Inv, TypeOK
    <3>2. Placed(r)'
      BY <1>0, <2>2, <2>4, <2>5, <3>1, NoFetchFacts DEF Placed, IsLeader
    <3>. QED
      BY <3>1, <3>2 DEF FetchStep
  <2>. QED
    BY <1>3, <2>6, <2>7, <2>8, StepInv DEF Step
<1>. QED
  BY <1>4, <1>5, <1>6 DEF ChangeFetchFail

\* A StartView is a message.
LEMMA StartViewType ==
  ASSUME NEW v \in Nat, NEW src \in Replicas, NEW dst \in Replicas, NEW from \in Nat,
         NEW L \in Logs, NEW stable \in Lengths, NEW max \in Lengths, NEW noops \in SUBSET Slots
  PROVE  StartView(v, src, dst, from, L, stable, max, noops) \in Messages
<1>1. Prefix(L, stable) \in PartialLogs
  BY PrefixType
<1>. QED
  BY <1>1 DEF StartView, Messages

(***************************************************************************)
(* driveViewChange installs the merge: every slot of the merged log is     *)
(* filled, so all of it executes, and the StartViews tell which of its     *)
(* slots are no-ops.                                                       *)
(***************************************************************************)
LEMMA InstallMergeInv == ASSUME Inv, NEW l \in Replicas, InstallMerge(l) PROVE Inv'
<1>. DEFINE p == plan[l]
            v == view[l]
            L == lg[l]
            noops == {s \in DOMAIN p.donors : p.donors[s] = {} \/ s \in p.stuck}
            max == Larger(p.stable, p.max)
            M == Canonical(L, max, noops)
            X == AdvanceThrough(M, max)
            Y == SetStable(X, p.stable)
            SV(d) == StartView(v, l, d, p.source, X, p.stable, max, noops)
<1>0. /\ p.phase = "fetch" /\ L \in Logs /\ Filled(L) /\ v \in Nat
      /\ L.next \in 0 .. NumSlots /\ L.stable \in Nat
      /\ lg \in [Replicas -> Logs] /\ plan \in [Replicas -> Plan] /\ source \in [Replicas -> Nat]
  BY DEF InstallMerge, Merging, Inv, TypeOK, ExecutedPrefixFilled, Filled, Logs
<1>1. /\ p.stable \in Lengths /\ p.max \in Lengths /\ p.source \in Nat
      /\ DOMAIN p.donors = p.stable .. p.max - 1
      /\ status[l] = StatusViewChange /\ recovery[l] = NoRecovery /\ IsLeader(l) /\ Left(v)
  BY <1>0, PlanFacts
<1>2. max \in Lengths /\ max >= p.stable /\ max >= p.max
  BY <1>1, NumSlotsAssumption DEF Larger, Lengths
<1>3. /\ lg' = [lg EXCEPT ![l] = Y]
      /\ replies' = replies \cup RepliesFor(l, X, L.stable, M.next, v)
                            \cup RepliesFor(l, X, M.next, X.next, v)
      /\ msgs' = msgs \cup {SV(d) : d \in Replicas \ {l}}
      /\ source' = [source EXCEPT ![l] = p.source]
      /\ plan' = [plan EXCEPT ![l] = [p EXCEPT !.phase = "installed"]]
      /\ UNCHANGED <<view, status, inflight, fetch, gaps, sync, lastNormalView, recovery>>
  BY <1>0 DEF InstallMerge
<1>4. fetch[l].stage = "idle" /\ Missing(L, L.next, p.stable) = {} /\ Wanted(l) = {}
  BY DEF InstallMerge, Idle, PrefixMissing
<1>5. noops \in SUBSET Slots /\ \A s \in noops : s >= p.stable
  BY <1>1, NumSlotsAssumption DEF Lengths, Slots
<1>6. \A s \in Slots : s < max /\ s \notin noops => L.ent[s] # Empty
  <2>. SUFFICES ASSUME NEW s \in Slots, s < max, s \notin noops PROVE L.ent[s] # Empty
    OBVIOUS
  <2>0. s \in Nat /\ p.stable \in Nat /\ p.max \in Nat /\ L.next \in Nat
    BY <1>0, <1>1, NumSlotsAssumption DEF Slots, Lengths
  <2>1. CASE s < L.next
    BY <1>0, <2>0, <2>1 DEF Filled
  <2>2. CASE s >= L.next /\ s < p.stable
    <3>1. s \in L.next .. p.stable - 1
      BY <2>0, <2>2
    <3>. QED
      BY <1>4, <2>2, <3>1 DEF Missing
  <2>3. CASE s >= p.stable
    <3>1. s \in DOMAIN p.donors
      BY <1>1, <2>0, <2>3 DEF Larger
    <3>. QED
      BY <1>4, <3>1 DEF Wanted, Received, Empty
  <2>. QED
    BY <2>0, <2>1, <2>2, <2>3
<1>7. \A s \in Slots : p.stable <= s /\ s < max /\ s \notin noops => L.ent[s] # NoOp
  <2>. SUFFICES ASSUME NEW s \in Slots, p.stable <= s, s < max, s \notin noops
                PROVE  L.ent[s] # NoOp
    OBVIOUS
  <2>0. s \in Nat /\ p.stable \in Nat /\ p.max \in Nat
    BY <1>1, NumSlotsAssumption DEF Slots, Lengths
  <2>1. s \in DOMAIN p.donors
    BY <1>1, <2>0 DEF Larger
  <2>. QED
    BY <1>4, <2>1 DEF Wanted, Received, NoOp
<1>. HIDE DEF noops, max
<1>8. /\ M \in Logs /\ Filled(M) /\ M.next <= L.next
      /\ \A s \in Slots : s < max => M.ent[s] = IF s \in noops THEN NoOp ELSE L.ent[s]
  BY <1>0, <1>2, <1>5, CanonicalFacts
<1>. HIDE DEF M
<1>9. \A s \in M.next .. max - 1 : M.ent[s] # Empty
  <2>1. \A s \in M.next .. max - 1 : s \in Slots /\ s < max
    BY <1>2, <1>8, NumSlotsAssumption DEF Logs, Lengths, Slots
  <2>. QED
    BY <1>6, <1>8, <2>1 DEF NoOp, Empty
<1>10. X \in Logs /\ X.ent = M.ent /\ X.next >= max /\ Filled(X)
  BY <1>2, <1>8, <1>9, AdvanceThroughFacts DEF Lengths
<1>. HIDE DEF X
<1>11. Y \in Logs /\ Y.ent = X.ent /\ Y.next = X.next /\ Filled(Y)
  <2>1. Y \in Logs /\ Y.ent = X.ent /\ Y.next = X.next
    BY <1>1, <1>10, SetStableFacts DEF Lengths
  <2>. QED
    BY <1>10, <2>1 DEF Filled
<1>. HIDE DEF Y
<1>12. /\ lg' \in [Replicas -> Logs] /\ lg'[l] = Y /\ \A q \in Replicas \ {l} : lg'[q] = lg[q]
  BY <1>0, <1>3, <1>11
<1>13. ~ Leading(l)
  BY <1>0, <1>1 DEF Leading, StatusNormal, StatusViewChange
<1>14. LogStep(l)
  <2>1. M.next \in Lengths /\ M.next \in Nat /\ X.next \in Lengths
    BY <1>8, <1>10 DEF Logs, Lengths
  <2>2. /\ RepliesFor(l, X, L.stable, M.next, v) \subseteq Votes
        /\ RepliesFor(l, X, M.next, X.next, v) \subseteq Votes
    BY <1>0, <2>1, RepliesType
  <2>. QED
    BY <1>3, <1>11, <1>12, <1>13, <2>2 DEF LogStep
<1>15. /\ plan' \in [Replicas -> Plan] /\ plan'[l].phase = "installed"
       /\ plan'[l].donors = p.donors /\ plan'[l].stable = p.stable /\ plan'[l].max = p.max
       /\ \A q \in Replicas \ {l} : plan'[q] = plan[q]
  <2>. DEFINE n == [p EXCEPT !.phase = "installed"]
  <2>1. /\ n \in Plan /\ n.phase = "installed" /\ n.donors = p.donors
        /\ n.stable = p.stable /\ n.max = p.max
    BY <1>0, PlanFacts DEF Plan
  <2>2. plan' = [plan EXCEPT ![l] = n]
    BY <1>3
  <2>. HIDE DEF n
  <2>. QED
    BY <1>0, <2>1, <2>2
<1>16. ControlStep(l)
  <2>1. source' \in [Replicas -> Nat]
    BY <1>0, <1>1, <1>3
  <2>2. view[l] \in Nat /\ view'[l] = view[l] /\ Left(view'[l])
    BY <1>0, <1>1, <1>3
  <2>3. IF status'[l] = StatusNormal THEN lastNormalView'[l] = view'[l]
                                     ELSE lastNormalView'[l] < view'[l]
    BY <1>3 DEF Inv, TypeOK
  <2>. QED
    BY <1>3, <1>15, <2>1, <2>2, <2>3 DEF ControlStep, Inv, TypeOK
<1>17. FetchStep(l)
  <2>1. Placed(l)'
    BY <1>1, <1>3, <1>4, <1>15 DEF Placed, IsLeader
  <2>. QED
    BY <1>3, <2>1 DEF FetchStep, Inv, TypeOK
<1>18. OtherStep
  BY <1>3 DEF OtherStep, Inv, TypeOK
<1>19. MessageStep(l)
  <2>1. Leading(l)'
    BY <1>1, <1>3, <1>15 DEF Leading, IsLeader
  <2>2. ASSUME NEW d \in Replicas \ {l} PROVE Sound(l, SV(d))
    <3>1. SV(d) \in Messages
      BY <1>0, <1>1, <1>2, <1>5, <1>10, StartViewType
    <3>2. /\ SV(d).type = "StartView" /\ SV(d).view = v /\ SV(d).dst = d
          /\ SV(d).stable = p.stable /\ SV(d).max = max /\ SV(d).noops = noops
      BY DEF StartView
    <3>3. \A s \in Slots : p.stable <= s /\ s < max => (s \in noops <=> Y.ent[s] = NoOp)
      BY <1>7, <1>8, <1>10, <1>11
    <3>4. Describes(SV(d), lg'[l])
      BY <1>10, <1>11, <1>12, <3>2, <3>3 DEF Describes
    <3>. HIDE DEF SV
    <3>. QED
      BY <1>0, <1>1, <1>3, <2>1, <3>1, <3>2, <3>4 DEF Sound, IsLeader
  <2>. HIDE DEF SV
  <2>. QED
    BY <1>3, <2>2 DEF MessageStep
<1>. QED
  BY <1>14, <1>16, <1>17, <1>18, <1>19, StepInv DEF Step

\* publishNormalViewLocked: the new leader runs the view.
LEMMA PublishInv == ASSUME Inv, NEW l \in Replicas, PublishNormalView(l) PROVE Inv'
<1>. USE DEF PublishNormalView
<1>0. /\ plan[l].phase = "installed" /\ view[l] \in Nat /\ lg[l] \in Logs
      /\ lg[l].next \in Nat /\ Placed(l)
  BY DEF Inv, TypeOK, Logs
<1>1. status[l] = StatusViewChange /\ recovery[l] = NoRecovery /\ IsLeader(l) /\ Left(view[l])
  BY <1>0, PlanFacts
<1>2. /\ status' \in [Replicas -> {StatusNormal, StatusViewChange}] /\ status'[l] = StatusNormal
      /\ plan' \in [Replicas -> Plan] /\ plan'[l] = NoPlan
      /\ lastNormalView' \in [Replicas -> Nat] /\ lastNormalView'[l] = view[l]
      /\ view' = view /\ fetch' = fetch /\ recovery' = recovery
      /\ \A q \in Replicas \ {l} : /\ status'[q] = status[q] /\ plan'[q] = plan[q]
                                   /\ lastNormalView'[q] = lastNormalView[q]
  BY <1>0, NoneFacts DEF Inv, TypeOK
<1>3. Leading(l) /\ Leading(l)'
  BY <1>0, <1>1, <1>2 DEF Leading, IsLeader
<1>4. ControlStep(l)
  <2>1. view'[l] >= view[l] /\ lastNormalView'[l] = view'[l] /\ Left(view'[l])
    BY <1>0, <1>1, <1>2
  <2>. QED
    BY <1>2, <2>1 DEF ControlStep, Inv, TypeOK
<1>5. LogStep(l)
  <2>1. Extends(lg[l], lg[l])
    BY <1>0 DEF Extends
  <2>. QED
    BY <1>0, <1>3, <2>1, ExecuteStep
<1>6. FetchStep(l)
  <2>1. fetch[l].stage = "idle"
    BY <1>0, <1>3 DEF Placed
  <2>2. Placed(l)'
    BY <1>2, <2>1 DEF Placed
  <2>. QED
    BY <1>2, <2>2 DEF FetchStep, Inv, TypeOK
<1>7. OtherStep /\ MessageStep(l)
  BY MessagesSame DEF OtherStep, Inv, TypeOK
<1>. QED
  BY <1>4, <1>5, <1>6, <1>7, StepInv DEF Step

\* startViewMsg: a late replica gets the leader's log of the moment.
LEMMA ResendInv == ASSUME Inv, NEW l \in Replicas, NEW r \in Replicas, ResendStartView(l, r) PROVE Inv'
<1>. DEFINE L == lg[l]
            noops == {s \in L.stable .. L.next - 1 : L.ent[s] = NoOp}
            m == StartView(view[l], l, r, source[l], L, L.stable, L.next, noops)
<1>. USE DEF ResendStartView
<1>0. UNCHANGED <<view, status, plan, recovery>> /\ UNCHANGED changeVars /\ UNCHANGED <<view, status>>
  BY DEF changeVars
<1>1. /\ view[l] \in Nat /\ source[l] \in Nat /\ L \in Logs /\ L.stable \in Lengths
      /\ L.next \in Lengths /\ Entered(l)
  BY DEF Inv, TypeOK, Logs, Lengths
<1>2. noops \in SUBSET Slots
  BY <1>1, NumSlotsAssumption DEF Lengths, Slots
<1>3. Left(view[l]) /\ Leading(l) /\ Leading(l)'
  BY <1>0, <1>1, ControlSame DEF Entered, Leading
<1>4. Sound(l, m)
  <2>1. m \in Messages
    BY <1>1, <1>2, StartViewType
  <2>2. /\ m.type = "StartView" /\ m.view = view[l] /\ m.dst = r
        /\ m.stable = L.stable /\ m.max = L.next /\ m.noops = noops
    BY DEF StartView
  <2>3. Describes(m, lg'[l])
    <3>1. lg' = lg
      OBVIOUS
    <3>2. \A s \in Slots : L.stable <= s /\ s < L.next => (s \in noops <=> L.ent[s] = NoOp)
      BY <1>1, NumSlotsAssumption DEF Lengths, Slots
    <3>3. L.next <= L.next
      BY <1>1, NumSlotsAssumption DEF Lengths
    <3>. HIDE DEF m, noops
    <3>. QED
      BY <2>2, <3>1, <3>2, <3>3 DEF Describes
  <2>. HIDE DEF m
  <2>. QED
    BY <1>0, <1>3, <2>1, <2>2, <2>3 DEF Sound, IsLeader
<1>5. MessageStep(l)
  <2>1. msgs' = msgs \cup {m}
    OBVIOUS
  <2>. HIDE DEF m
  <2>. QED
    BY <1>4, <2>1 DEF MessageStep
<1>6. LogStep(l) /\ FetchStep(l) /\ OtherStep
  BY <1>0, <1>3, LogSame, FetchSame DEF OtherStep, Inv, TypeOK
<1>. QED
  BY <1>0, <1>5, <1>6, HandlerInv

\* handleStartView: a replica takes up the log of a view that has started.
LEMMA InstallStartViewInv ==
  ASSUME Inv, NEW m \in msgs, InstallStartView(m.dst, m)
  PROVE  Inv'
<1>. DEFINE r == m.dst
            L == lg[r]
            M == IF Refused(L, m) THEN L ELSE Prepared(L, m, Retain(r, m))
            c == [view |-> m.view, refused |-> Refused(L, m), stable |-> m.stable, max |-> m.max,
                  verify |-> Retain(r, m) /\ m.stable > 0 /\ L.next < m.stable, hash |-> m.hash,
                  base |-> L.stable, replayTo |-> M.next]
<1>0. /\ m.type = "StartView" /\ m \in Messages /\ r \in Replicas /\ m.view \in Nat
      /\ m.source \in Nat /\ m.stable \in Lengths /\ m.max \in Lengths /\ m.hash \in PartialLogs
  BY MessageFields DEF InstallStartView, Inv, TypeOK
<1>1. /\ L \in Logs /\ Filled(L) /\ L.stable \in Lengths /\ lg \in [Replicas -> Logs]
      /\ view[r] \in Nat /\ lastNormalView[r] \in Nat
  BY <1>0 DEF Inv, TypeOK, ExecutedPrefixFilled, Filled, Logs, Lengths
<1>2. Left(m.view) /\ r # LeaderIndex(m.view)
  BY <1>0 DEF Inv, MessagesBacked, Announces
<1>3. /\ lg' = [lg EXCEPT ![r] = M] /\ recovery' = [recovery EXCEPT ![r] = c]
      /\ view' = [view EXCEPT ![r] = m.view]
      /\ status' = [status EXCEPT ![r] = StatusViewChange]
      /\ source' = [source EXCEPT ![r] = m.source]
      /\ fetch' = [fetch EXCEPT ![r] = NoFetch] /\ gaps' = [gaps EXCEPT ![r] = {}]
      /\ sync' = [sync EXCEPT ![r] = 0] /\ plan' = [plan EXCEPT ![r] = NoPlan]
      /\ UNCHANGED <<inflight, msgs, replies, lastNormalView>>
      /\ m.view >= view[r] /\ m.view > lastNormalView[r]
  BY DEF InstallStartView
<1>4. M \in Logs /\ Filled(M) /\ M.next \in Lengths
  <2>1. Prepared(L, m, Retain(r, m)) \in Logs /\ Filled(Prepared(L, m, Retain(r, m)))
    BY <1>0, <1>1, PreparedFacts
  <2>2. M \in Logs /\ Filled(M)
    BY <1>1, <2>1
  <2>. QED
    BY <2>2 DEF Logs, Lengths
<1>. HIDE DEF M
<1>5. c \in Recovery
  <2>1. Refused(L, m) \in BOOLEAN
    BY DEF Refused
  <2>2. (Retain(r, m) /\ m.stable > 0 /\ L.next < m.stable) \in BOOLEAN
    OBVIOUS
  <2>. QED
    BY <1>0, <1>1, <1>4, <2>1, <2>2 DEF Recovery
<1>. HIDE DEF c, L
<1>6. ControlStep(r)
  <2>1. /\ view' \in [Replicas -> Nat] /\ status' \in [Replicas -> {StatusNormal, StatusViewChange}]
        /\ lastNormalView' \in [Replicas -> Nat] /\ source' \in [Replicas -> Nat]
        /\ plan' \in [Replicas -> Plan] /\ recovery' \in [Replicas -> Recovery]
    BY <1>0, <1>3, <1>5, NoneFacts DEF Inv, TypeOK
  <2>2. view'[r] = m.view /\ status'[r] = StatusViewChange /\ lastNormalView'[r] < view'[r]
    BY <1>0, <1>1, <1>3 DEF Inv, TypeOK
  <2>3. \A q \in Replicas \ {r} :
          /\ view'[q] = view[q] /\ status'[q] = status[q] /\ lastNormalView'[q] = lastNormalView[q]
          /\ plan'[q] = plan[q] /\ recovery'[q] = recovery[q]
    BY <1>0, <1>3 DEF Inv, TypeOK
  <2>. QED
    BY <1>0, <1>1, <1>2, <1>3, <2>1, <2>2, <2>3
    DEF ControlStep, StatusNormal, StatusViewChange
<1>7. LogStep(r)
  <2>1. Leading(r) => view'[r] # view[r]
    BY <1>0, <1>2, <1>3 DEF Leading, IsLeader, Inv, TypeOK
  <2>. HIDE DEF r
  <2>. QED
    BY <1>0, <1>3, <1>4, <2>1, LogSet DEF L
<1>8. FetchStep(r)
  <2>1. /\ fetch' \in [Replicas -> Transfer] /\ fetch'[r] = NoFetch
        /\ \A q \in Replicas \ {r} : fetch'[q] = fetch[q]
    BY <1>0, <1>3, NoFetchFacts DEF Inv, TypeOK
  <2>2. plan'[r] = NoPlan /\ status'[r] = StatusViewChange
    BY <1>0, <1>3 DEF Inv, TypeOK
  <2>. HIDE DEF r
  <2>3. Placed(r)'
    BY <2>1, <2>2, NoFetchFacts, NoneFacts DEF Placed, Leading, StatusNormal, StatusViewChange, r
  <2>. QED
    BY <2>1, <2>3 DEF FetchStep
<1>9. OtherStep
  <2>1. 0 \in Lengths
    BY NumSlotsAssumption DEF Lengths
  <2>. QED
    BY <1>0, <1>3, <2>1 DEF OtherStep, Inv, TypeOK
<1>10. MessageStep(r)
  BY <1>3, MessagesSame
<1>. HIDE DEF r
<1>. QED
  BY <1>0, <1>6, <1>7, <1>8, <1>9, <1>10, StepInv DEF Step

\* installStartView's loop: fetch what is missing, repair the retained prefix, or finish.
LEMMA RecoverInv ==
  ASSUME Inv, NEW r \in Replicas, FetchRecovery(r) \/ RepairPrefix(r) \/ FinishRecovery(r)
  PROVE  Inv'
<1>. DEFINE c == recovery[r]
<1>0. /\ status[r] = StatusViewChange /\ c # NoRecovery /\ fetch[r].stage = "idle"
      /\ lg[r] \in Logs /\ Filled(lg[r]) /\ lg \in [Replicas -> Logs] /\ view[r] \in Nat
      /\ lg[r].next \in Lengths /\ recovery \in [Replicas -> Recovery]
  BY DEF FetchRecovery, RepairPrefix, FinishRecovery, Recovering, Idle, Inv, TypeOK,
         ExecutedPrefixFilled, Filled, Logs, Lengths
<1>1. /\ plan[r] = NoPlan /\ Left(view[r])
      /\ c \in [view : Nat, refused : BOOLEAN, stable : Lengths, max : Lengths,
                verify : BOOLEAN, hash : PartialLogs, base : Lengths, replayTo : Lengths]
  BY <1>0, RecoveryFacts
<1>2. c.stable \in Lengths /\ c.max \in Lengths /\ c.base \in Lengths /\ c.replayTo \in Lengths
  BY <1>1
<1>3. ~ Leading(r)
  BY <1>0, <1>1, NoneFacts DEF Leading, StatusNormal, StatusViewChange
<1>4. CASE FetchRecovery(r)
  <2>0. UNCHANGED <<view, status, plan, recovery>> /\ UNCHANGED changeVars /\ UNCHANGED <<view, status>>
    BY <1>4 DEF FetchRecovery, changeVars
  <2>. DEFINE f == Fetch("install", LeaderIndex(view[r]), lg[r].next, RecoveryMissing(r), 0, NoEntries)
  <2>1. RecoveryMissing(r) \in SUBSET Slots /\ LeaderIndex(view[r]) \in Replicas
    BY <1>0, <1>2, MissingType, Config DEF RecoveryMissing
  <2>2. f \in Transfer /\ f.kind = "install"
    <3>1. 0 \in Lengths /\ NoEntries \in PartialLogs
      BY NoFetchFacts, NumSlotsAssumption DEF Lengths
    <3>. QED
      BY <1>0, <2>1, <3>1, FetchType
  <2>3. fetch' = [fetch EXCEPT ![r] = f]
    BY <1>4 DEF FetchRecovery
  <2>. HIDE DEF f
  <2>4. FetchStep(r)
    BY <1>3, <2>0, <2>2, <2>3, FetchSet
  <2>5. LogStep(r) /\ MessageStep(r) /\ OtherStep
    BY <1>3, <1>4, LogSame, MessagesSame DEF FetchRecovery, OtherStep, Inv, TypeOK
  <2>. QED
    BY <2>0, <2>4, <2>5, HandlerInv
<1>5. CASE RepairPrefix(r)
  <2>. DEFINE R == RewindTo(lg[r], c.base)
              C == ClearSlots(R, c.base .. c.stable - 1)
              M == RecomputeMax(C)
              n == [c EXCEPT !.replayTo = M.next]
  <2>1. /\ lg' = [lg EXCEPT ![r] = M] /\ recovery' = [recovery EXCEPT ![r] = n]
        /\ UNCHANGED <<view, status, inflight, fetch, msgs, replies, gaps, sync,
                       lastNormalView, source, plan>>
    BY <1>0, <1>5 DEF RepairPrefix
  <2>2. R \in Logs /\ R.ent = lg[r].ent /\ R.next = Smaller(lg[r].next, c.base) /\ Filled(R)
    BY <1>0, <1>2, RewindToFacts DEF Lengths
  <2>3. R.next <= c.base /\ R.next \in 0 .. NumSlots
    BY <1>0, <1>2, <2>2, NumSlotsAssumption DEF Smaller, Lengths
  <2>. HIDE DEF R
  <2>4. /\ C \in Logs /\ C.next = R.next
        /\ \A t \in Slots : C.ent[t] = IF t \in c.base .. c.stable - 1 THEN Empty ELSE R.ent[t]
    <3>1. PICK S : S = c.base .. c.stable - 1
      OBVIOUS
    <3>2. ClearSlots(R, S) \in Logs /\ ClearSlots(R, S).next = R.next
          /\ \A t \in Slots : ClearSlots(R, S).ent[t] = IF t \in S THEN Empty ELSE R.ent[t]
      BY <2>2, ClearSlotsFacts
    <3>. QED
      BY <3>1, <3>2, Zenon
  <2>. HIDE DEF C
  <2>5. M \in Logs /\ M.next = R.next /\ M.ent = C.ent
    BY <2>4, RecomputeMaxFacts
  <2>. HIDE DEF M
  <2>6. Filled(M)
    <3>1. \A s \in 0 .. R.next - 1 : s \in Slots /\ s \notin c.base .. c.stable - 1
      BY <1>2, <2>3, NumSlotsAssumption DEF Slots, Lengths
    <3>. QED
      BY <2>2, <2>4, <2>5, <3>1 DEF Filled
  <2>7. n \in Recovery
    <3>1. M.next \in Lengths
      BY <2>5 DEF Logs, Lengths
    <3>. HIDE DEF c
    <3>. QED
      BY <1>1, <3>1 DEF Recovery
  <2>. HIDE DEF n
  <2>8. recovery' \in [Replicas -> Recovery] /\ \A q \in Replicas \ {r} : recovery'[q] = recovery[q]
    BY <1>0, <2>1, <2>7
  <2>9. LogStep(r)
    BY <1>3, <2>1, <2>5, <2>6, LogSet
  <2>10. ControlStep(r)
    <3>1. view'[r] >= view[r] /\ Left(view'[r])
      BY <1>0, <1>1, <2>1
    <3>2. IF status'[r] = StatusNormal THEN lastNormalView'[r] = view'[r]
                                       ELSE lastNormalView'[r] < view'[r]
      BY <2>1 DEF Inv, TypeOK
    <3>. QED
      BY <2>1, <2>8, <3>1, <3>2 DEF ControlStep, Inv, TypeOK
  <2>11. FetchStep(r)
    <3>1. Placed(r)'
      BY <1>0, <1>1, <2>1, NoneFacts DEF Placed
    <3>. QED
      BY <2>1, <3>1 DEF FetchStep, Inv, TypeOK
  <2>12. OtherStep /\ MessageStep(r)
    BY <2>1, MessagesSame DEF OtherStep, Inv, TypeOK
  <2>. QED
    BY <2>9, <2>10, <2>11, <2>12, StepInv DEF Step
<1>6. CASE FinishRecovery(r)
  <2>. DEFINE X == AdvanceThrough(lg[r], c.max)
              S == SetStable(X, c.stable)
              Y == Advance(S)
  <2>1. /\ lg' = [lg EXCEPT ![r] = Y]
        /\ replies' = replies \cup RepliesFor(r, Y, c.base, c.replayTo, view[r])
                              \cup RepliesFor(r, Y, lg[r].next, Y.next, view[r])
        /\ lastNormalView' = [lastNormalView EXCEPT ![r] = view[r]]
        /\ status' = [status EXCEPT ![r] = StatusNormal]
        /\ recovery' = [recovery EXCEPT ![r] = NoRecovery]
        /\ UNCHANGED <<view, inflight, fetch, msgs, gaps, sync, source, plan>>
    BY <1>6 DEF FinishRecovery
  <2>2. X \in Logs /\ Filled(X)
    BY <1>0, <1>2, AdvanceThroughFacts DEF Lengths
  <2>. HIDE DEF X
  <2>3. S \in Logs /\ S.ent = X.ent /\ S.next = X.next
    BY <1>2, <2>2, SetStableFacts DEF Lengths
  <2>. HIDE DEF S
  <2>4. Filled(S)
    BY <2>2, <2>3 DEF Filled
  <2>5. Y \in Logs /\ Filled(Y)
    BY <2>3, <2>4, AdvanceFacts
  <2>. HIDE DEF Y
  <2>6. lg' \in [Replicas -> Logs] /\ lg'[r] = Y /\ \A q \in Replicas \ {r} : lg'[q] = lg[q]
    BY <1>0, <2>1, <2>5
  <2>7. LogStep(r)
    <3>1. Y.next \in Lengths /\ c.base \in Nat /\ lg[r].next \in Nat
      BY <1>0, <1>2, <2>5 DEF Logs, Lengths
    <3>. HIDE DEF c
    <3>2. /\ RepliesFor(r, Y, c.base, c.replayTo, view[r]) \subseteq Votes
          /\ RepliesFor(r, Y, lg[r].next, Y.next, view[r]) \subseteq Votes
      BY <1>0, <1>2, <3>1, RepliesType
    <3>. QED
      BY <1>3, <2>1, <2>5, <2>6, <3>2 DEF LogStep
  <2>8. /\ status' \in [Replicas -> {StatusNormal, StatusViewChange}] /\ status'[r] = StatusNormal
        /\ lastNormalView' \in [Replicas -> Nat] /\ lastNormalView'[r] = view[r]
        /\ recovery' \in [Replicas -> Recovery] /\ recovery'[r] = NoRecovery
        /\ \A q \in Replicas \ {r} : /\ status'[q] = status[q] /\ recovery'[q] = recovery[q]
                                     /\ lastNormalView'[q] = lastNormalView[q]
    BY <1>0, <2>1, NoneFacts DEF Inv, TypeOK
  <2>9. ControlStep(r)
    <3>1. view'[r] >= view[r] /\ lastNormalView'[r] = view'[r] /\ Left(view'[r])
      BY <1>0, <1>1, <2>1, <2>8
    <3>. QED
      BY <2>1, <2>8, <3>1 DEF ControlStep, Inv, TypeOK
  <2>10. FetchStep(r)
    <3>1. Placed(r)'
      BY <1>0, <1>1, <2>1, NoneFacts DEF Placed
    <3>. QED
      BY <2>1, <3>1 DEF FetchStep, Inv, TypeOK
  <2>11. OtherStep /\ MessageStep(r)
    BY <2>1, MessagesSame DEF OtherStep, Inv, TypeOK
  <2>. QED
    BY <2>7, <2>9, <2>10, <2>11, StepInv DEF Step
<1>. QED
  BY <1>4, <1>5, <1>6

-----------------------------------------------------------------------------
(* The theorems *)

\* Every step of the group preserves the invariant.
LEMMA NextInv == ASSUME Inv, [Next]_vars PROVE Inv'
<1>0. view \in [Replicas -> Nat] /\ msgs \subseteq Messages
  BY DEF Inv, TypeOK
<1>1. CASE NormalNext /\ UNCHANGED changeVars
  BY <1>1, BusInv, GapInv, SyncInv DEF NormalNext
<1>2. ASSUME NEW r \in Replicas, SuspectLeader(r) \/ ViewChangeTimeout(r) PROVE Inv'
  BY <1>0, <1>2, BeginInv DEF SuspectLeader, ViewChangeTimeout
<1>3. ASSUME NEW r \in Replicas, NEW m \in msgs, JoinViewChange(r, m) PROVE Inv'
  <2>1. m.view \in Nat
    BY <1>0, MessageFields
  <2>. QED
    BY <1>0, <1>3, <2>1, BeginInv DEF JoinViewChange
<1>4. CASE ChangeNext
  BY <1>2, <1>3, <1>4, ReportInv, MergeInv, FetchMergedInv, ChangeFetchInv, InstallMergeInv,
     PublishInv, ResendInv, InstallStartViewInv, RecoverInv DEF ChangeNext
<1>5. CASE UNCHANGED vars
  BY <1>5 DEF vars, Inv, TypeOK, ExecutedPrefixFilled, Placed, Entered, Left, Leading, IsLeader,
              MessagesBacked, Announces, Describes, StartViewsAgree
<1>. QED
  BY <1>1, <1>4, <1>5 DEF Next

\* The invariant holds in every state of the group.
THEOREM Invariance == Spec => []Inv
<1>1. Inv /\ [Next]_vars => Inv'
  BY NextInv
<1>. QED
  BY InitInv, <1>1, PTL DEF Spec

(***************************************************************************)
(* Every variable keeps its type over all view changes, and a replica is   *)
(* normal exactly in the view it last installed.                           *)
(***************************************************************************)
THEOREM TypeCorrect == Spec => []TypeOK
<1>1. Inv => TypeOK
  BY DEF Inv
<1>. QED
  BY Invariance, <1>1, PTL

\* No replica executes over an empty slot, whatever a merge or a StartView
\* makes it rewind, forget and fetch again.
THEOREM ExecutionIsFilled == Spec => []ExecutedPrefixFilled
<1>1. Inv => ExecutedPrefixFilled
  BY DEF Inv
<1>. QED
  BY Invariance, <1>1, PTL

\* Nobody runs a view before a majority has left every lower one
\* (handleViewChangeRequest, driveViewChange).
THEOREM OlderViewsAreLeft == Spec => []OlderViewsLeft
<1>1. Inv => OlderViewsLeft
  BY DEF Inv, Entered, Left, OlderViewsLeft
<1>. QED
  BY Invariance, <1>1, PTL

\* The StartViews of a view, early and late ones, name the same no-ops
\* (initialStartViewMsgLocked, startViewMsg).
THEOREM StartViewsSayTheSame == Spec => []StartViewsAgree
<1>1. Inv => StartViewsAgree
  BY DEF Inv
<1>. QED
  BY Invariance, <1>1, PTL

-----------------------------------------------------------------------------
(* What an installation leaves alone *)

\* Log M holds what log L holds below its commit point.
Kept(L, M) == \A s \in Slots : s < L.stable /\ L.ent[s] # Empty => M.ent[s] = L.ent[s]

(***************************************************************************)
(* A replica that installs a StartView does nothing else: it opens no gap  *)
(* and no round, its commit point stays the one it had on arrival, and the *)
(* transfer it runs brings slots that are empty.                           *)
(***************************************************************************)
Installing(q) ==
  recovery[q] # NoRecovery =>
    /\ status[q] = StatusViewChange /\ gaps[q] = {} /\ sync[q] = 0
    /\ recovery[q].base = lg[q].stable
    /\ \/ fetch[q].stage = "idle"
       \/ /\ fetch[q].kind = "install" /\ fetch[q].stage \in {"sent", "served"}
          /\ DOMAIN fetch[q].entries \subseteq fetch[q].slots
          /\ \A s \in fetch[q].slots : lg[q].ent[s] = Empty

\* What a step does to replica q, if q installs before it or after it.
Keeps(q) ==
  /\ Installing(q)'
  /\ recovery[q] # NoRecovery \/ recovery'[q] # NoRecovery => Kept(lg[q], lg'[q])

\* A step that leaves replica q as it is.
Untouched(q) ==
  /\ status'[q] = status[q] /\ gaps'[q] = gaps[q] /\ sync'[q] = sync[q]
  /\ recovery'[q] = recovery[q] /\ lg'[q] = lg[q] /\ fetch'[q] = fetch[q]

LEMMA UntouchedKeeps == ASSUME NEW q, Installing(q), Untouched(q) PROVE Keeps(q)
BY DEF Untouched, Installing, Keeps, Kept

LEMMA NotInstalling ==
  ASSUME NEW q, recovery[q] = NoRecovery, recovery'[q] = NoRecovery PROVE Keeps(q)
BY DEF Installing, Keeps

\* prepareRecoveryLocked rewrites nothing below the commit point of a log it accepts.
LEMMA PreparedKeeps ==
  ASSUME NEW L \in Logs, NEW m \in Messages, m.type = "StartView", NEW retain, ~ Refused(L, m)
  PROVE  Prepared(L, m, retain).stable = L.stable /\ Kept(L, Prepared(L, m, retain))
<1>. DEFINE dropped == {s \in Slots : s >= L.stable /\ L.ent[s] = NoOp /\ s \notin m.noops}
            wrong == dropped \cup {s \in m.noops : L.ent[s] = Received}
            T == {n \in 0 .. Smaller(L.next, m.max) : \A s \in wrong : s >= n}
            target == IF m.max = 0 THEN 0 ELSE IF ~retain THEN L.stable ELSE Highest(T)
            R == RewindTo(L, target)
            cleared == IF retain THEN dropped ELSE target .. NumSlots - 1
            C == ClearSlots(R, cleared)
            K == RecomputeMax(C)
            M == SetNoOps(K, m.noops)
<1>0. /\ L.next \in 0 .. NumSlots /\ L.stable \in 0 .. NumSlots /\ m.max \in 0 .. NumSlots
      /\ NumSlots \in Nat /\ m.noops \in SUBSET Slots
  BY MessageFields, NumSlotsAssumption DEF Logs, Lengths
<1>1. Smaller(L.next, m.max) \in Nat /\ Smaller(L.next, m.max) <= NumSlots
  BY <1>0 DEF Smaller
<1>2. 0 \in T /\ T \in SUBSET (0 .. Smaller(L.next, m.max))
  BY <1>0, <1>1, NumSlotsAssumption DEF Slots
<1>3. Highest(T) \in T
  BY <1>1, <1>2, HighestFacts
<1>4. target \in 0 .. NumSlots
  BY <1>0, <1>1, <1>3
<1>5. ASSUME NEW s \in Slots, s < L.stable
      PROVE  s \notin cleared /\ (s \in m.noops => L.ent[s] = NoOp)
  <2>1. L.stable > 0 /\ m.max # 0 /\ s \in Nat
    BY <1>0, <1>5 DEF Refused, Slots
  <2>2. s \in m.noops => L.ent[s] = NoOp
    BY <1>5, <2>1 DEF Refused
  <2>3. CASE retain
    BY <1>0, <1>5, <2>1, <2>2, <2>3
  <2>4. CASE ~retain
    <3>1. target = L.stable
      BY <2>1, <2>4
    <3>2. cleared = L.stable .. NumSlots - 1
      BY <2>4, <3>1
    <3>. HIDE DEF cleared
    <3>. QED
      BY <1>0, <1>5, <2>1, <2>2, <3>2
  <2>. QED
    BY <2>3, <2>4
<1>. HIDE DEF target, cleared, T
<1>6. R \in Logs /\ R.ent = L.ent /\ R.stable = L.stable
  BY <1>4, RewindToFacts
<1>. HIDE DEF R
<1>7. /\ C \in Logs /\ C.stable = R.stable
      /\ \A t \in Slots : C.ent[t] = IF t \in cleared THEN Empty ELSE L.ent[t]
  BY <1>6, ClearSlotsFacts
<1>. HIDE DEF C
<1>8. K \in Logs /\ K.stable = R.stable /\ K.ent = C.ent
  BY <1>7, RecomputeMaxFacts
<1>. HIDE DEF K
<1>9. /\ M.stable = L.stable
      /\ \A t \in Slots : M.ent[t] = IF t \in m.noops /\ t >= K.next THEN NoOp ELSE C.ent[t]
  BY <1>0, <1>6, <1>8, SetNoOpsFacts
<1>. HIDE DEF M
<1>10. Kept(L, M)
  BY <1>5, <1>7, <1>9 DEF Kept
<1>11. M = Prepared(L, m, retain)
  BY DEF Prepared, M, K, C, cleared, R, target, T
<1>. QED
  BY <1>9, <1>10, <1>11

\* The steps of normal operation pass a replica by that installs a StartView.
LEMMA NormalKeeps ==
  ASSUME Inv, NEW q \in Replicas, Installing(q), NormalNext, UNCHANGED changeVars
  PROVE  Keeps(q)
<1>0. /\ lg \in [Replicas -> Logs] /\ fetch \in [Replicas -> Transfer]
      /\ gaps \in [Replicas -> SUBSET Slots] /\ sync \in [Replicas -> Lengths]
      /\ recovery' = recovery /\ msgs \subseteq Messages /\ view \in [Replicas -> Nat]
  BY DEF Inv, TypeOK, changeVars
<1>1. CASE recovery[q] = NoRecovery
  BY <1>0, <1>1, NotInstalling
<1>2. CASE recovery[q] # NoRecovery
  <2>0. /\ status[q] # StatusNormal /\ gaps[q] = {} /\ sync[q] = 0
        /\ fetch[q].stage = "idle" \/ (fetch[q].kind = "install" /\ fetch[q].stage # "answer")
    BY <1>2 DEF Installing, StatusNormal, StatusViewChange
  <2>1. ASSUME NEW r \in Replicas, NEW s \in Slots, HandleBus(r, s), UNCHANGED <<gaps, sync>>
        PROVE  Keeps(q)
    <3>1. Untouched(q)
      BY <1>0, <2>0, <2>1 DEF HandleBus, Execute, Untouched
    <3>. QED
      BY <3>1, UntouchedKeeps
  <2>2. ASSUME NEW r \in Replicas, FetchServe(r), UNCHANGED <<gaps, sync>>
        PROVE  Keeps(q)
    <3>1. CASE r # q
      <4>1. Untouched(q)
        BY <1>0, <2>2, <3>1 DEF FetchServe, Untouched
      <4>. QED
        BY <4>1, UntouchedKeeps
    <3>2. CASE r = q
      <4>. DEFINE donor == fetch[q].peer
                  held == {s \in fetch[q].slots : lg[donor].ent[s] # Empty}
                  e == [s \in held |-> lg[donor].ent[s]]
                  f == [fetch[q] EXCEPT !.stage = "served", !.entries = e]
      <4>1. /\ fetch'[q] = f /\ fetch[q] \in Transfer /\ fetch[q].stage = "sent"
            /\ lg' = lg /\ status' = status /\ UNCHANGED <<gaps, sync>>
        BY <1>0, <2>2, <3>2 DEF FetchServe
      <4>2. DOMAIN e = held /\ held \subseteq fetch[q].slots
        OBVIOUS
      <4>. HIDE DEF e, held
      <4>3. /\ f.kind = fetch[q].kind /\ f.slots = fetch[q].slots /\ f.stage = "served"
            /\ f.entries = e
        BY <4>1 DEF Transfer
      <4>. HIDE DEF f
      <4>4. Installing(q)'
        BY <1>0, <1>2, <4>1, <4>2, <4>3 DEF Installing
      <4>. QED
        BY <4>1, <4>4 DEF Keeps, Kept
    <3>. QED
      BY <3>1, <3>2
  <2>3. ASSUME NEW r \in Replicas, NEW s \in Slots, UNCHANGED sync,
               \/ DetectGap(r, s)
               \/ FollowerEndGap(r, s)
               \/ HandleGapRequestFollower(r, LeaderIndex(view[r]), s)
               \/ HandleGapRequestLeader(LeaderIndex(view[r]), r, s)
               \/ LeaderFilled(r, s)
               \/ LeaderNoOp(r, s)
        PROVE  Keeps(q)
    <3>1. LeaderIndex(view[r]) \in Replicas
      BY <1>0, Config
    <3>2. Untouched(q)
      BY <1>0, <2>0, <2>3, <3>1
      DEF DetectGap, FollowerEndGap, HandleGapRequestFollower, HandleGapRequestLeader,
          LeaderFilled, LeaderNoOp, Execute, Follows, replicaVars, Untouched
    <3>. QED
      BY <3>2, UntouchedKeeps
  <2>4. ASSUME NEW m \in msgs, UNCHANGED sync,
               LeaderRecover(m.dst, m) \/ HandleGapReply(m.dst, m) \/ HandleGapCommit(m.dst, m)
        PROVE  Keeps(q)
    <3>1. m.dst \in Replicas
      BY <1>0, MessageFields
    <3>2. Untouched(q)
      BY <1>0, <2>0, <2>4, <3>1
      DEF LeaderRecover, HandleGapReply, HandleGapCommit, Execute, Untouched
    <3>. QED
      BY <3>2, UntouchedKeeps
  <2>5. ASSUME NEW r \in Replicas, UNCHANGED gaps,
               SyncOnce(r) \/ CommitSync(r) \/ SyncFetchFail(r) \/ PlainFetchEnd(r)
        PROVE  Keeps(q)
    <3>1. ~(0 > 0)
      OBVIOUS
    <3>2. Untouched(q)
      BY <1>0, <2>0, <2>5, <3>1
      DEF SyncOnce, CommitSync, SyncFetchFail, PlainFetchEnd, Execute, FetchDone, FetchLost,
          Untouched
    <3>. QED
      BY <3>2, UntouchedKeeps
  <2>6. ASSUME NEW r \in Replicas, UNCHANGED gaps, SyncFetchDone(r)
        PROVE  Keeps(q)
    <3>1. PICK h : fetch' = [fetch EXCEPT ![r] = h]
      BY <2>6 DEF SyncFetchDone
    <3>2. r # q
      BY <2>0, <2>6 DEF SyncFetchDone, FetchDone
    <3>3. Untouched(q)
      BY <1>0, <2>6, <3>1, <3>2 DEF SyncFetchDone, Execute, Untouched
    <3>. QED
      BY <3>3, UntouchedKeeps
  <2>7. ASSUME NEW r \in Replicas, r # q, NEW n, NEW verdict, NEW stable, NEW idle,
               AnswerSyncPrepare(r, n, verdict, stable, idle), UNCHANGED <<status, gaps, sync>>
        PROVE  Keeps(q)
    <3>1. lg'[q] = lg[q] /\ fetch'[q] = fetch[q]
      BY <1>0, <2>7 DEF AnswerSyncPrepare, Acknowledge, RewindAndRefetch
    <3>. QED
      BY <1>0, <2>7, <3>1, UntouchedKeeps DEF Untouched
  <2>8. ASSUME NEW r \in Replicas, UNCHANGED gaps, SyncFetchAnswer(r)
        PROVE  Keeps(q)
    <3>1. r # q
      BY <2>0, <2>8 DEF SyncFetchAnswer
    <3>. QED
      BY <2>7, <2>8, <3>1 DEF SyncFetchAnswer
  <2>9. ASSUME NEW m \in msgs, UNCHANGED gaps, HandleSyncPrepareReady(m.dst, m)
        PROVE  Keeps(q)
    <3>1. m.dst \in Replicas /\ m.dst # q
      BY <1>0, <2>0, <2>9, MessageFields DEF HandleSyncPrepareReady, ForMe
    <3>. QED
      BY <2>7, <2>9, <3>1 DEF HandleSyncPrepareReady
  <2>10. ASSUME NEW m \in msgs, UNCHANGED gaps,
                HandleSyncPrepareBehind(m.dst, m) \/ HandleSyncCommit(m.dst, m)
         PROVE  Keeps(q)
    <3>1. m.dst \in Replicas /\ m.dst # q
      BY <1>0, <2>0, <2>10, MessageFields DEF HandleSyncPrepareBehind, HandleSyncCommit, ForMe
    <3>2. Untouched(q)
      BY <1>0, <2>10, <3>1 DEF HandleSyncPrepareBehind, HandleSyncCommit, Untouched
    <3>. QED
      BY <3>2, UntouchedKeeps
  <2>11. CASE GapNext /\ UNCHANGED sync
    BY <2>3, <2>4, <2>11 DEF GapNext
  <2>12. CASE SyncNext /\ UNCHANGED gaps
    BY <2>5, <2>6, <2>8, <2>9, <2>10, <2>12 DEF SyncNext
  <2>. QED
    BY <2>1, <2>2, <2>11, <2>12 DEF NormalNext
<1>. QED
  BY <1>1, <1>2

\* handleStartView and prepareRecoveryLocked at any replica.
LEMMA InstallKeeps ==
  ASSUME Inv, NEW q \in Replicas, Installing(q), NEW m \in msgs, InstallStartView(m.dst, m)
  PROVE  Keeps(q)
<1>. DEFINE r == m.dst
            L == lg[r]
            M == IF Refused(L, m) THEN L ELSE Prepared(L, m, Retain(r, m))
            c == [view |-> m.view, refused |-> Refused(L, m), stable |-> m.stable, max |-> m.max,
                  verify |-> Retain(r, m) /\ m.stable > 0 /\ L.next < m.stable, hash |-> m.hash,
                  base |-> L.stable, replayTo |-> M.next]
<1>0. m \in Messages /\ m.type = "StartView" /\ r \in Replicas /\ L \in Logs
  BY MessageFields DEF InstallStartView, Inv, TypeOK
<1>1. /\ lg' = [lg EXCEPT ![r] = M] /\ recovery' = [recovery EXCEPT ![r] = c]
      /\ status' = [status EXCEPT ![r] = StatusViewChange]
      /\ fetch' = [fetch EXCEPT ![r] = NoFetch] /\ gaps' = [gaps EXCEPT ![r] = {}]
      /\ sync' = [sync EXCEPT ![r] = 0]
  BY DEF InstallStartView
<1>2. c.base = L.stable
  OBVIOUS
<1>3. M.stable = L.stable /\ Kept(L, M)
  BY <1>0, PreparedKeeps DEF Kept
<1>. HIDE DEF r, L, M, c
<1>4. /\ lg \in [Replicas -> Logs] /\ recovery \in [Replicas -> Recovery]
      /\ status \in [Replicas -> {StatusNormal, StatusViewChange}]
      /\ fetch \in [Replicas -> Transfer] /\ gaps \in [Replicas -> SUBSET Slots]
      /\ sync \in [Replicas -> Lengths]
  BY DEF Inv, TypeOK
<1>5. CASE q = r
  BY <1>0, <1>1, <1>2, <1>3, <1>4, <1>5, NoFetchFacts DEF Keeps, Installing, L
<1>6. CASE q # r
  <2>1. Untouched(q)
    BY <1>0, <1>1, <1>4, <1>6 DEF Untouched
  <2>. QED
    BY <2>1, UntouchedKeeps
<1>. QED
  BY <1>5, <1>6

\* installStartView's loop fills empty slots, and clears from the commit point on.
LEMMA RecoverKeeps ==
  ASSUME Inv, NEW q \in Replicas, Installing(q), NEW r \in Replicas,
         FetchRecovery(r) \/ RepairPrefix(r) \/ FinishRecovery(r)
  PROVE  Keeps(q)
<1>. DEFINE c == recovery[r]
<1>0. /\ lg \in [Replicas -> Logs] /\ recovery \in [Replicas -> Recovery]
      /\ status \in [Replicas -> {StatusNormal, StatusViewChange}]
      /\ fetch \in [Replicas -> Transfer] /\ lg[r] \in Logs
  BY DEF Inv, TypeOK
<1>1. c # NoRecovery /\ fetch[r].stage = "idle"
  BY DEF FetchRecovery, RepairPrefix, FinishRecovery, Recovering, Idle
<1>2. CASE q # r
  <2>1. Untouched(q)
    BY <1>0, <1>2
    DEF FetchRecovery, RepairPrefix, FinishRecovery, Untouched, changeVars
  <2>. QED
    BY <2>1, UntouchedKeeps
<1>3. CASE q = r
  <2>1. c \in [view : Nat, refused : BOOLEAN, stable : Lengths, max : Lengths,
                verify : BOOLEAN, hash : PartialLogs, base : Lengths, replayTo : Lengths]
    BY <1>1, RecoveryFacts
  <2>2. /\ status[r] = StatusViewChange /\ gaps[r] = {} /\ sync[r] = 0
        /\ c.base = lg[r].stable /\ c.base \in 0 .. NumSlots /\ c.max \in 0 .. NumSlots
        /\ c.stable \in 0 .. NumSlots
    BY <1>1, <1>3, <2>1 DEF Installing, Lengths
  <2>3. CASE FetchRecovery(r)
    <3>. DEFINE W == RecoveryMissing(r)
                f == Fetch("install", LeaderIndex(view[r]), lg[r].next, W, 0, NoEntries)
    <3>1. /\ fetch' = [fetch EXCEPT ![r] = f] /\ lg' = lg /\ recovery' = recovery
          /\ UNCHANGED <<status, gaps, sync>>
      BY <2>3 DEF FetchRecovery, changeVars
    <3>2. \A s \in W : lg[r].ent[s] = Empty
      BY DEF RecoveryMissing, Missing
    <3>. HIDE DEF W
    <3>3. /\ f.kind = "install" /\ f.stage \in {"sent", "served"} /\ f.slots = W
          /\ DOMAIN f.entries = {}
      BY NoFetchFacts DEF Fetch
    <3>. HIDE DEF f
    <3>4. Installing(r)'
      BY <1>0, <2>2, <3>1, <3>2, <3>3 DEF Installing
    <3>. QED
      BY <1>3, <3>1, <3>4 DEF Keeps, Kept
  <2>4. CASE RepairPrefix(r)
    <3>. DEFINE S == c.base .. c.stable - 1
                R == RewindTo(lg[r], c.base)
                C == ClearSlots(R, S)
                M == RecomputeMax(C)
                n == [c EXCEPT !.replayTo = M.next]
    <3>1. /\ lg' = [lg EXCEPT ![r] = M] /\ recovery' = [recovery EXCEPT ![r] = n]
          /\ UNCHANGED <<status, gaps, sync, fetch>>
      BY <1>0, <2>4 DEF RepairPrefix
    <3>2. R \in Logs /\ R.ent = lg[r].ent /\ R.stable = lg[r].stable
      BY <1>0, <2>2, RewindToFacts
    <3>3. \A t \in Slots : t < c.base => t \notin S
      BY <2>2, NumSlotsAssumption DEF Slots
    <3>. HIDE DEF R, S
    <3>4. /\ C \in Logs /\ C.stable = lg[r].stable
          /\ \A t \in Slots : C.ent[t] = IF t \in S THEN Empty ELSE R.ent[t]
      BY <3>2, ClearSlotsFacts
    <3>. HIDE DEF C
    <3>5. M.stable = lg[r].stable /\ M.ent = C.ent
      BY <3>4, RecomputeMaxFacts
    <3>. HIDE DEF M
    <3>6. Kept(lg[r], M)
      BY <2>2, <3>2, <3>3, <3>4, <3>5 DEF Kept
    <3>7. n.base = c.base
      BY <2>1
    <3>. HIDE DEF n
    <3>. QED
      BY <1>0, <1>1, <1>3, <2>2, <3>1, <3>5, <3>6, <3>7 DEF Keeps, Installing
  <2>5. CASE FinishRecovery(r)
    <3>. DEFINE X == AdvanceThrough(lg[r], c.max)
                S == SetStable(X, c.stable)
                Y == Advance(S)
    <3>1. /\ lg' = [lg EXCEPT ![r] = Y] /\ recovery' = [recovery EXCEPT ![r] = NoRecovery]
      BY <2>5 DEF FinishRecovery
    <3>2. X \in Logs /\ X.ent = lg[r].ent
      BY <1>0, <2>2, AdvanceThroughFacts
    <3>. HIDE DEF X
    <3>3. S \in Logs /\ S.ent = lg[r].ent
      BY <2>2, <3>2, SetStableFacts
    <3>. HIDE DEF S
    <3>4. Y.ent = lg[r].ent
      BY <3>3, AdvanceFacts
    <3>. HIDE DEF Y
    <3>. QED
      BY <1>0, <1>3, <3>1, <3>4 DEF Keeps, Installing, Kept
  <2>. QED
    BY <2>3, <2>4, <2>5
<1>. QED
  BY <1>2, <1>3

\* A transfer of the merge or of a StartView ends.
LEMMA ChangeFetchKeeps ==
  ASSUME Inv, NEW q \in Replicas, Installing(q), NEW r \in Replicas,
         ChangeFetchDone(r) \/ ChangeFetchFail(r)
  PROVE  Keeps(q)
<1>0. /\ lg \in [Replicas -> Logs] /\ fetch \in [Replicas -> Transfer] /\ lg[q] \in Logs
      /\ fetch' = [fetch EXCEPT ![r] = NoFetch] /\ UNCHANGED <<status, gaps, sync, recovery>>
  BY DEF Inv, TypeOK, ChangeFetchDone, ChangeFetchFail, changeVars
<1>1. CASE q # r
  <2>1. Untouched(q)
    BY <1>0, <1>1 DEF ChangeFetchDone, ChangeFetchFail, Untouched
  <2>. QED
    BY <2>1, UntouchedKeeps
<1>2. CASE q = r /\ recovery[q] = NoRecovery
  BY <1>0, <1>2, NotInstalling
<1>3. CASE q = r /\ recovery[q] # NoRecovery
  <2>1. fetch'[q] = NoFetch
    BY <1>0, <1>3
  <2>2. lg'[q].stable = lg[q].stable /\ Kept(lg[q], lg'[q])
    <3>1. CASE ChangeFetchDone(r)
      <4>. DEFINE e == fetch[q].entries
                  M == ApplyEntries(lg[q], e)
      <4>1. lg'[q] = M /\ fetch[q].stage = "served"
        BY <1>0, <1>3, <3>1 DEF ChangeFetchDone, FetchDone
      <4>2. \A s \in DOMAIN e : lg[q].ent[s] = Empty
        BY <1>3, <4>1 DEF Installing
      <4>3. /\ M.stable = lg[q].stable
            /\ \A t \in Slots : t \notin DOMAIN e => M.ent[t] = lg[q].ent[t]
        BY <1>0, ApplyEntriesOutside
      <4>. HIDE DEF M, e
      <4>. QED
        BY <4>1, <4>2, <4>3 DEF Kept
    <3>2. CASE ChangeFetchFail(r)
      BY <3>2 DEF ChangeFetchFail, Kept
    <3>. QED
      BY <3>1, <3>2
  <2>. QED
    BY <1>0, <1>3, <2>1, <2>2, NoFetchFacts DEF Keeps, Installing
<1>. QED
  BY <1>1, <1>2, <1>3

\* The other steps of a view change.
LEMMA ChangeKeeps ==
  ASSUME Inv, NEW q \in Replicas, Installing(q), ChangeNext
  PROVE  Keeps(q)
<1>0. /\ lg \in [Replicas -> Logs] /\ recovery \in [Replicas -> Recovery]
      /\ status \in [Replicas -> {StatusNormal, StatusViewChange}]
      /\ fetch \in [Replicas -> Transfer] /\ gaps \in [Replicas -> SUBSET Slots]
      /\ sync \in [Replicas -> Lengths]
  BY DEF Inv, TypeOK
<1>1. ASSUME NEW r \in Replicas, NEW v, BeginViewChange(r, v)
      PROVE  Keeps(q)
  <2>1. CASE q = r
    BY <1>0, <1>1, <2>1 DEF BeginViewChange, Keeps, Installing, Kept
  <2>2. CASE q # r
    <3>1. Untouched(q)
      BY <1>0, <1>1, <2>2 DEF BeginViewChange, Untouched
    <3>. QED
      BY <3>1, UntouchedKeeps
  <2>. QED
    BY <2>1, <2>2
<1>2. ASSUME NEW r \in Replicas,
             \/ SendReport(r) \/ Merge(r) \/ FetchPrefix(r) \/ FetchSlot(r)
             \/ InstallMerge(r) \/ PublishNormalView(r)
      PROVE  Keeps(q)
  <2>1. recovery[r] = NoRecovery /\ recovery' = recovery
    BY <1>2 DEF SendReport, Merge, FetchPrefix, FetchSlot, InstallMerge, PublishNormalView,
                Merging, Changing, changeVars
  <2>2. CASE q = r
    BY <2>1, <2>2, NotInstalling
  <2>3. CASE q # r
    <3>1. Untouched(q)
      BY <1>0, <1>2, <2>1, <2>3
      DEF SendReport, Merge, FetchPrefix, FetchSlot, InstallMerge, PublishNormalView, Execute,
          Untouched
    <3>. QED
      BY <3>1, UntouchedKeeps
  <2>. QED
    BY <2>2, <2>3
<1>3. ASSUME NEW l, NEW r, ResendStartView(l, r)
      PROVE  Keeps(q)
  <2>1. Untouched(q)
    BY <1>3 DEF ResendStartView, Untouched, changeVars
  <2>. QED
    BY <2>1, UntouchedKeeps
<1>. QED
  BY <1>1, <1>2, <1>3, InstallKeeps, RecoverKeeps, ChangeFetchKeeps
  DEF ChangeNext, SuspectLeader, ViewChangeTimeout, JoinViewChange

(***************************************************************************)
(* Installing a StartView rewrites nothing below the commit point, at any  *)
(* step of it, whatever the merge says (prepareRecoveryLocked,             *)
(* finishRecoveryIfComplete).                                              *)
(***************************************************************************)
THEOREM StartViewsKeepStable == Spec => StableKept
<1>. DEFINE J == Inv /\ \A q \in Replicas : Installing(q)
<1>1. Init => J
  BY InitInv DEF Init, Installing
<1>2. ASSUME J, [Next]_vars
      PROVE  J' /\ [\A r \in Replicas : (recovery[r] # NoRecovery \/ recovery'[r] # NoRecovery) =>
                      \A s \in Slots : s < lg[r].stable /\ lg[r].ent[s] # Empty =>
                        lg'[r].ent[s] = lg[r].ent[s]]_vars
  <2>1. ASSUME NEW q \in Replicas PROVE Keeps(q)
    <3>1. CASE UNCHANGED vars
      BY <1>2, <3>1, UntouchedKeeps DEF vars, Untouched
    <3>. QED
      BY <1>2, <3>1, NormalKeeps, ChangeKeeps DEF Next
  <2>. QED
    BY <1>2, <2>1, NextInv DEF Keeps, Kept
<1>. HIDE DEF J
<1>. QED
  BY <1>1, <1>2, PTL DEF Spec, StableKept
=============================================================================
