--------------------------- MODULE BusNormalProofs --------------------------
(***************************************************************************)
(* Proofs about normal operation, for every configuration, every number of *)
(* slots, every view and every pattern of bus arrivals: the log and the    *)
(* votes first, then the commit point of the synchronisation rounds.       *)
(***************************************************************************)
EXTENDS BusNormal, BusLogProofs

(***************************************************************************)
(* The inductive invariant.  Beyond the properties themselves it says that *)
(* the leader's authority is one way: what orders a follower about is      *)
(* never addressed to the leader, a GapCommit or a transferred no-op is    *)
(* backed by the leader's log, and the leader transfers nothing.           *)
(***************************************************************************)
MessagesBacked ==
  \A m \in msgs :
    /\ m.type \in {"GapCommit", "SyncPrepare", "SyncCommit"} => m.dst # Leader
    /\ m.type = "GapCommit" => lg[Leader].ent[m.slot] = NoOp

\* The leader transfers nothing, and a no-op on its way to a follower is its own.
TransfersBacked ==
  /\ fetch[Leader].stage = "idle"
  /\ \A r \in Replicas : \A s \in DOMAIN fetch[r].entries :
       fetch[r].entries[s] = NoOp => lg[Leader].ent[s] = NoOp

\* A vote names no no-op the leader lacks, and the leader's votes name them all.
VotesBacked ==
  \A b \in replies :
    /\ b.logIndex + Cardinality(b.noops) = b.slot
    /\ \A t \in b.noops : t < b.slot /\ lg[Leader].ent[t] = NoOp
    /\ b.replica = Leader =>
         /\ b.slot < lg[Leader].next
         /\ \A t \in 0 .. b.slot - 1 : lg[Leader].ent[t] = NoOp => t \in b.noops

\* Only the leader of the view has a round open.
RoundsBacked == \A r \in Replicas \ {Leader} : sync[r] = 0

\* The inductive invariant as a whole.
Inv ==
  /\ TypeOK
  /\ ExecutedPrefixFilled
  /\ NoOpsFromLeader
  /\ RoundsBacked
  /\ MessagesBacked
  /\ TransfersBacked
  /\ VotesBacked

-----------------------------------------------------------------------------

\* The configuration pbconfig.Parse accepts: there is a leader, of every view.
LEMMA Config ==
  /\ N \in Nat \ {0}
  /\ F \in Nat
  /\ Leader \in Replicas
  /\ \A v \in Nat : LeaderIndex(v) \in Replicas
<1>1. N \in Nat \ {0} /\ F \in Nat
  BY ConfigAssumption
<1>2. \A v \in Nat : v % N \in 0 .. N - 1
  BY <1>1
<1>. QED
  BY <1>1, <1>2, ViewAssumption DEF Leader, LeaderIndex, Replicas

\* What a partial log is.
LEMMA PartialLogFacts ==
  /\ \A D \in SUBSET Slots : \A e \in [D -> SlotStates] : e \in PartialLogs
  /\ \A e \in PartialLogs : DOMAIN e \in SUBSET Slots /\ e \in [DOMAIN e -> SlotStates]
<1>1. ASSUME NEW D \in SUBSET Slots, NEW e \in [D -> SlotStates]
      PROVE  e \in PartialLogs
  BY <1>1, Zenon DEF PartialLogs
<1>2. ASSUME NEW e \in PartialLogs
      PROVE  DOMAIN e \in SUBSET Slots /\ e \in [DOMAIN e -> SlotStates]
  <2>1. PICK D \in SUBSET Slots : e \in [D -> SlotStates]
    BY Zenon DEF PartialLogs
  <2>. QED
    BY <2>1
<1>. QED
  BY <1>1, <1>2

\* No transfer runs: the value is a transfer record without entries.
LEMMA NoFetchFacts ==
  /\ NoEntries \in PartialLogs /\ DOMAIN NoEntries = {}
  /\ NoFetch \in Transfer
  /\ NoFetch.stage = "idle" /\ NoFetch.entries = NoEntries
<1>1. NoEntries \in [{} -> SlotStates] /\ DOMAIN NoEntries = {}
  BY DEF NoEntries
<1>2. NoEntries \in PartialLogs
  BY <1>1, PartialLogFacts
<1>. QED
  BY <1>1, <1>2, Config, NumSlotsAssumption DEF NoFetch, Transfer, Lengths, Replicas, Verdicts

\* Every replica starts with nothing, so the invariant holds at the start.
LEMMA InitInv == Init => Inv
<1>. SUFFICES ASSUME Init PROVE Inv
  OBVIOUS
<1>. USE Config DEF Init, ReplicaInit, GapInit, SyncInit
<1>3. TypeOK
  BY NoFetchFacts, EmptyLogFacts, ArrivalsAssumption, NumSlotsAssumption DEF TypeOK, Replicas, Lengths
<1>4. ExecutedPrefixFilled
  BY EmptyLogFacts DEF ExecutedPrefixFilled, Filled
<1>5. NoOpsFromLeader
  BY DEF NoOpsFromLeader, EmptyLog, Empty, NoOp
<1>6. TransfersBacked
  BY NoFetchFacts DEF TransfersBacked
<1>. QED
  BY <1>3, <1>4, <1>5, <1>6 DEF Inv, MessagesBacked, VotesBacked, RoundsBacked

-----------------------------------------------------------------------------
(* What every step of normal operation does *)

\* No log runs over an empty slot, the leader's executed prefix and its no-ops
\* stay, and a no-op that appears anywhere is one of the leader's.
Grows ==
  /\ lg' \in [Replicas -> Logs]
  /\ \A r \in Replicas : Filled(lg'[r])
  /\ lg'[Leader].next >= lg[Leader].next
  /\ \A s \in Slots : s < lg[Leader].next \/ lg[Leader].ent[s] = NoOp =>
                        lg'[Leader].ent[s] = lg[Leader].ent[s]
  /\ \A r \in Replicas, s \in Slots : lg'[r].ent[s] = NoOp =>
                        lg[r].ent[s] = NoOp \/ lg'[Leader].ent[s] = NoOp

\* A vote that is sent describes the log it comes from.
NewVotes ==
  \A b \in replies' \ replies :
    /\ b \in Votes
    /\ b.slot < lg'[b.replica].next
    /\ b.noops = {t \in 0 .. b.slot - 1 : lg'[b.replica].ent[t] = NoOp}
    /\ b.logIndex + Cardinality(b.noops) = b.slot

\* A message that is sent does not order the leader about, and a GapCommit
\* tells of a no-op the leader holds.
NewMessages ==
  \A m \in msgs' \ msgs :
    /\ m \in Messages
    /\ m.type \in {"GapCommit", "SyncPrepare", "SyncCommit"} => m.dst # Leader
    /\ m.type = "GapCommit" => lg'[Leader].ent[m.slot] = NoOp

\* A transfer that starts or is answered belongs to a follower and brings
\* only no-ops the leader holds.
NewTransfers ==
  /\ fetch' \in [Replicas -> Transfer]
  /\ fetch'[Leader].stage = "idle"
  /\ \A r \in Replicas : fetch'[r] # fetch[r] =>
       \A s \in DOMAIN fetch'[r].entries :
         fetch'[r].entries[s] = NoOp => lg'[Leader].ent[s] = NoOp

\* What any step of normal operation may do, in one formula.
Step ==
  /\ view' = view /\ status' = status
  /\ inflight' \in [Replicas -> SUBSET Slots]
  /\ gaps' \in [Replicas -> SUBSET Slots]
  /\ sync' \in [Replicas -> Lengths]
  /\ \A r \in Replicas \ {Leader} : sync'[r] = 0
  /\ Grows /\ NewVotes /\ NewMessages /\ NewTransfers

\* Such a step preserves the invariant.
LEMMA StepInv == Inv /\ Step => Inv'
<1>. SUFFICES ASSUME Inv, Step PROVE Inv'
  OBVIOUS
<1>. USE Config
<1>1. TypeOK'
  BY DEF Inv, TypeOK, Step, Grows, NewVotes, NewMessages, NewTransfers
<1>2. ExecutedPrefixFilled'
  BY DEF Step, Grows, ExecutedPrefixFilled, Filled
<1>3. NoOpsFromLeader'
  BY DEF Inv, Step, Grows, NoOpsFromLeader
<1>4. MessagesBacked'
  <2>. SUFFICES ASSUME NEW m \in msgs'
                PROVE /\ m.type \in {"GapCommit", "SyncPrepare", "SyncCommit"} => m.dst # Leader
                      /\ m.type = "GapCommit" => lg'[Leader].ent[m.slot] = NoOp
    BY DEF MessagesBacked
  <2>1. CASE m \in msgs
    <3>1. m \in Messages
      BY <2>1 DEF Inv, TypeOK
    <3>2. m.type = "GapCommit" => m.slot \in Slots
      BY <3>1 DEF Messages
    <3>. QED
      BY <2>1, <3>2 DEF Inv, MessagesBacked, Step, Grows
  <2>2. CASE m \notin msgs
    BY <2>2 DEF Step, NewMessages
  <2>. QED
    BY <2>1, <2>2
<1>5. TransfersBacked'
  <2>1. ASSUME NEW r \in Replicas, NEW s \in DOMAIN fetch'[r].entries,
               fetch'[r].entries[s] = NoOp
        PROVE  lg'[Leader].ent[s] = NoOp
    <3>1. CASE fetch'[r] # fetch[r]
      BY <2>1, <3>1 DEF Step, NewTransfers
    <3>2. CASE fetch'[r] = fetch[r]
      <4>1. lg[Leader].ent[s] = NoOp
        BY <2>1, <3>2 DEF Inv, TransfersBacked
      <4>2. s \in Slots
        BY <2>1, <3>2, PartialLogFacts DEF Inv, TypeOK, Transfer
      <4>. QED
        BY <4>1, <4>2 DEF Step, Grows
    <3>. QED
      BY <3>1, <3>2
  <2>2. fetch'[Leader].stage = "idle"
    BY DEF Step, NewTransfers
  <2>. QED
    BY <2>1, <2>2 DEF TransfersBacked
<1>6. VotesBacked'
  <2>. SUFFICES ASSUME NEW b \in replies'
                PROVE  /\ b.logIndex + Cardinality(b.noops) = b.slot
                       /\ \A t \in b.noops : t < b.slot /\ lg'[Leader].ent[t] = NoOp
                       /\ b.replica = Leader =>
                            /\ b.slot < lg'[Leader].next
                            /\ \A t \in 0 .. b.slot - 1 : lg'[Leader].ent[t] = NoOp => t \in b.noops
    BY DEF VotesBacked
  <2>1. CASE b \in replies
    <3>1. b.slot \in Slots /\ b.noops \in SUBSET Slots
      BY <2>1 DEF Inv, TypeOK, Votes
    <3>2. lg[Leader].next \in 0 .. NumSlots /\ lg'[Leader].next \in 0 .. NumSlots
      BY DEF Inv, TypeOK, Step, Grows, Logs
    <3>3. \A t \in b.noops : t < b.slot /\ lg'[Leader].ent[t] = NoOp
      BY <2>1, <3>1 DEF Inv, VotesBacked, Step, Grows
    <3>4. ASSUME b.replica = Leader
          PROVE  /\ b.slot < lg'[Leader].next
                 /\ \A t \in 0 .. b.slot - 1 : lg'[Leader].ent[t] = NoOp => t \in b.noops
      <4>1. b.slot < lg[Leader].next
        BY <2>1, <3>4 DEF Inv, VotesBacked
      <4>2. \A t \in 0 .. b.slot - 1 : t \in Slots /\ t < lg[Leader].next
        BY <3>1, <3>2, <4>1, NumSlotsAssumption DEF Slots
      <4>3. \A t \in 0 .. b.slot - 1 : lg'[Leader].ent[t] = lg[Leader].ent[t]
        BY <4>2 DEF Step, Grows
      <4>4. lg'[Leader].next >= lg[Leader].next
        BY DEF Step, Grows
      <4>. QED
        BY <2>1, <3>1, <3>2, <3>4, <4>1, <4>3, <4>4, NumSlotsAssumption DEF Inv, VotesBacked, Slots
    <3>. QED
      BY <2>1, <3>3, <3>4 DEF Inv, VotesBacked
  <2>2. CASE b \notin replies
    <3>1. /\ b \in Votes
          /\ b.slot < lg'[b.replica].next
          /\ b.noops = {t \in 0 .. b.slot - 1 : lg'[b.replica].ent[t] = NoOp}
          /\ b.logIndex + Cardinality(b.noops) = b.slot
      BY <2>2 DEF Step, NewVotes
    <3>2. b.replica \in Replicas /\ b.slot \in Slots
      BY <3>1 DEF Votes
    <3>3. \A t \in b.noops : t \in Slots /\ t < b.slot /\ lg'[b.replica].ent[t] = NoOp
      BY <3>1, <3>2, NumSlotsAssumption DEF Slots
    <3>4. \A t \in b.noops : lg'[Leader].ent[t] = NoOp
      BY <1>3, <3>2, <3>3 DEF NoOpsFromLeader
    <3>. QED
      BY <3>1, <3>3, <3>4
  <2>. QED
    BY <2>1, <2>2
<1>7. RoundsBacked'
  BY DEF Step, RoundsBacked
<1>. QED
  BY <1>1, <1>2, <1>3, <1>4, <1>5, <1>6, <1>7 DEF Inv

-----------------------------------------------------------------------------
(* Parts of a step that leave something alone *)

\* A handler that leaves the logs alone and answers no client.
LEMMA LogUnchanged ==
  ASSUME Inv, lg' = lg, replies' = replies
  PROVE  Grows /\ NewVotes
<1>1. lg \in [Replicas -> Logs] /\ lg[Leader].next \in 0 .. NumSlots
  BY Config DEF Inv, TypeOK, Logs
<1>2. \A r \in Replicas : Filled(lg[r])
  BY DEF Inv, ExecutedPrefixFilled, Filled
<1>. QED
  BY <1>1, <1>2, Config DEF Grows, NewVotes

\* A handler that leaves the transfers alone.
LEMMA FetchUnchanged ==
  ASSUME Inv, fetch' = fetch
  PROVE  NewTransfers
BY DEF Inv, TypeOK, TransfersBacked, NewTransfers

(***************************************************************************)
(* Execute in log M, which has replaced lg[r]: the votes describe M, and   *)
(* the step is sound if M keeps what was executed, adds at the leader no   *)
(* more than empty slots allow, and at a follower only the leader's no-ops.*)
(***************************************************************************)
LEMMA ExecuteFacts ==
  ASSUME Inv, NEW r \in Replicas, NEW M \in Logs, Execute(r, M, View),
         M.next = lg[r].next,
         \A t \in Slots : t < M.next => M.ent[t] = lg[r].ent[t],
         r = Leader => \A t \in Slots : lg[r].ent[t] = NoOp => M.ent[t] = NoOp,
         r # Leader => \A t \in Slots : M.ent[t] = NoOp =>
                           lg[r].ent[t] = NoOp \/ lg[Leader].ent[t] = NoOp
  PROVE  /\ Grows /\ NewVotes
         /\ lg'[r].ent = M.ent
<1>. DEFINE A == Advance(M)
<1>0. lg \in [Replicas -> Logs] /\ Leader \in Replicas
  BY Config DEF Inv, TypeOK
<1>1. Filled(M)
  <2>1. Filled(lg[r]) /\ lg[r].next \in 0 .. NumSlots
    BY <1>0 DEF Inv, ExecutedPrefixFilled, Filled, Logs
  <2>. QED
    BY <2>1, NumSlotsAssumption DEF Filled, Slots
<1>2. A \in Logs /\ A.ent = M.ent /\ A.next >= M.next /\ Filled(A)
  BY <1>1, AdvanceFacts
<1>3. lg' = [lg EXCEPT ![r] = A]
  BY DEF Execute
<1>4. \A q \in Replicas : lg'[q] = IF q = r THEN A ELSE lg[q]
  BY <1>0, <1>3
<1>5. Grows
  <2>1. lg' \in [Replicas -> Logs]
    BY <1>0, <1>2, <1>3
  <2>2. \A q \in Replicas : Filled(lg'[q])
    BY <1>2, <1>4 DEF Inv, ExecutedPrefixFilled, Filled
  <2>3. lg'[Leader].next >= lg[Leader].next
    BY <1>0, <1>2, <1>4 DEF Logs
  <2>4. \A s \in Slots : s < lg[Leader].next \/ lg[Leader].ent[s] = NoOp =>
                        lg'[Leader].ent[s] = lg[Leader].ent[s]
    BY <1>0, <1>2, <1>4
  <2>5. \A q \in Replicas, s \in Slots : lg'[q].ent[s] = NoOp =>
                        lg[q].ent[s] = NoOp \/ lg'[Leader].ent[s] = NoOp
    BY <1>0, <1>2, <1>4
  <2>. QED
    BY <2>1, <2>2, <2>3, <2>4, <2>5 DEF Grows
<1>6. NewVotes
  <2>. SUFFICES ASSUME NEW b \in replies' \ replies
                PROVE  /\ b \in Votes
                       /\ b.slot < lg'[b.replica].next
                       /\ b.noops = {t \in 0 .. b.slot - 1 : lg'[b.replica].ent[t] = NoOp}
                       /\ b.logIndex + Cardinality(b.noops) = b.slot
    BY DEF NewVotes
  <2>1. PICK s \in M.next .. A.next - 1 : b = Reply(r, A, s, View)
    BY DEF Execute, RepliesFor
  <2>2. s \in Slots /\ s < A.next /\ M.next \in 0 .. NumSlots /\ A.next \in 0 .. NumSlots
    BY <1>2, NumSlotsAssumption DEF Logs, Slots
  <2>3. \A t \in 0 .. s - 1 : A.ent[t] # Empty
    BY <1>2, <2>2, NumSlotsAssumption DEF Filled, Slots
  <2>. DEFINE Z == {t \in 0 .. s - 1 : A.ent[t] = NoOp}
  <2>4. LogIndex(A, s) \in 0 .. NumSlots /\ LogIndex(A, s) + Cardinality(Z) = s
    BY <1>2, <2>2, <2>3, LogIndexFacts
  <2>5. Z \in SUBSET Slots
    BY <2>2, NumSlotsAssumption DEF Slots
  <2>6. b = [replica |-> r, view |-> View, slot |-> s, logIndex |-> LogIndex(A, s), noops |-> Z]
    BY <2>1 DEF Reply
  <2>7. lg'[r] = A
    BY <1>4
  <2>. HIDE DEF Z
  <2>8. b \in Votes /\ b.slot = s /\ b.replica = r /\ b.noops = Z /\ b.logIndex = LogIndex(A, s)
    BY <2>2, <2>4, <2>5, <2>6 DEF Votes, Lengths
  <2>. QED
    BY <2>2, <2>4, <2>7, <2>8 DEF Z
<1>. QED
  BY <1>2, <1>4, <1>5, <1>6

\* A bus recorded in the log of r, at the leader or at a follower.
LEMMA ExecuteBus ==
  ASSUME Inv, NEW r \in Replicas, NEW s \in Slots, Execute(r, RecordBus(lg[r], s), View)
  PROVE  Grows /\ NewVotes
<1>. DEFINE M == RecordBus(lg[r], s)
<1>1. lg[r] \in Logs /\ lg[r].next \in 0 .. NumSlots
  BY DEF Inv, TypeOK, Logs
<1>2. /\ M \in Logs /\ M.next = lg[r].next
      /\ \A t \in Slots : M.ent[t] = IF t = s /\ lg[r].ent[t] = Empty THEN Received ELSE lg[r].ent[t]
  BY <1>1, RecordBusFacts
<1>3. \A t \in Slots : t < M.next => lg[r].ent[t] # Empty
  BY <1>1, <1>2, NumSlotsAssumption DEF Inv, ExecutedPrefixFilled, Slots
<1>. HIDE DEF M
<1>4. \A t \in Slots : t < M.next => M.ent[t] = lg[r].ent[t]
  BY <1>2, <1>3
<1>5. \A t \in Slots : lg[r].ent[t] = NoOp => M.ent[t] = NoOp
  BY <1>2 DEF Empty, NoOp
<1>6. \A t \in Slots : M.ent[t] = NoOp => lg[r].ent[t] = NoOp
  BY <1>2 DEF Received, NoOp
<1>7. Execute(r, M, View)
  BY DEF M
<1>. QED
  BY <1>2, <1>4, <1>5, <1>6, <1>7, ExecuteFacts

\* A no-op entered in the log of r: the leader's own, or one the leader has.
LEMMA ExecuteNoOp ==
  ASSUME Inv, NEW r \in Replicas, NEW s \in Slots, Execute(r, SetNoOp(lg[r], s), View),
         r = Leader \/ lg[Leader].ent[s] = NoOp
  PROVE  /\ Grows /\ NewVotes
         /\ s >= lg[r].next => lg'[r].ent[s] = NoOp
<1>. DEFINE M == SetNoOp(lg[r], s)
<1>1. lg[r] \in Logs /\ lg[r].next \in 0 .. NumSlots
  BY DEF Inv, TypeOK, Logs
<1>2. /\ M \in Logs /\ M.next = lg[r].next
      /\ \A t \in Slots : M.ent[t] = IF t = s /\ t >= lg[r].next THEN NoOp ELSE lg[r].ent[t]
  BY <1>1, SetNoOpFacts
<1>3. Execute(r, M, View)
  OBVIOUS
<1>. HIDE DEF M
<1>4. \A t \in Slots : t < M.next => M.ent[t] = lg[r].ent[t]
  BY <1>1, <1>2, NumSlotsAssumption DEF Slots
<1>5. \A t \in Slots : lg[r].ent[t] = NoOp => M.ent[t] = NoOp
  BY <1>2
<1>6. r # Leader => \A t \in Slots : M.ent[t] = NoOp =>
                           lg[r].ent[t] = NoOp \/ lg[Leader].ent[t] = NoOp
  BY <1>2
<1>7. Grows /\ NewVotes /\ lg'[r].ent = M.ent
  BY <1>2, <1>3, <1>4, <1>5, <1>6, ExecuteFacts
<1>. QED
  BY <1>2, <1>7

\* A transfer applied in the log of a follower.
LEMMA ExecuteEntries ==
  ASSUME Inv, NEW r \in Replicas, r # Leader,
         Execute(r, ApplyEntries(lg[r], fetch[r].entries), View)
  PROVE  /\ Grows /\ NewVotes
         /\ lg' \in [Replicas -> Logs] /\ \A q \in Replicas \ {r} : lg'[q] = lg[q]
<1>. DEFINE e == fetch[r].entries
            M == ApplyEntries(lg[r], e)
<1>1. lg[r] \in Logs /\ lg[r].next \in 0 .. NumSlots
  BY DEF Inv, TypeOK, Logs
<1>2. DOMAIN e \in SUBSET Slots /\ e \in [DOMAIN e -> SlotStates]
  BY PartialLogFacts DEF Inv, TypeOK, Transfer
<1>3. \A t \in DOMAIN e : e[t] = NoOp => lg[Leader].ent[t] = NoOp
  BY DEF Inv, TransfersBacked
<1>4. Execute(r, M, View)
  OBVIOUS
<1>. HIDE DEF e
<1>5. /\ M \in Logs /\ M.next = lg[r].next
      /\ \A t \in Slots : M.ent[t] = NoOp => lg[r].ent[t] = NoOp \/ (t \in DOMAIN e /\ e[t] = NoOp)
      /\ \A t \in Slots : t < lg[r].next /\ lg[r].ent[t] # Empty => M.ent[t] = lg[r].ent[t]
  BY <1>1, <1>2, ApplyEntriesFacts
<1>6. \A t \in Slots : t < M.next => lg[r].ent[t] # Empty
  BY <1>1, <1>5, NumSlotsAssumption DEF Inv, ExecutedPrefixFilled, Slots
<1>. HIDE DEF M
<1>7. Grows /\ NewVotes
  BY <1>3, <1>4, <1>5, <1>6, ExecuteFacts
<1>8. \A q \in Replicas \ {r} : lg'[q] = lg[q]
  BY <1>4 DEF Execute, Inv, TypeOK
<1>. QED
  BY <1>7, <1>8 DEF Grows

-----------------------------------------------------------------------------
(* The actions *)

\* Every replica is in the view, and only its leader takes itself for the leader.
LEMMA Views ==
  ASSUME Inv, NEW r \in Replicas
  PROVE  /\ view[r] = View /\ status[r] = StatusNormal
         /\ LeaderIndex(view[r]) = Leader
         /\ IsLeader(r) <=> r = Leader
BY DEF Inv, TypeOK, IsLeader, Leader

\* Arrival of a bus, and the donor's side of a transfer.
LEMMA ReplicaStep ==
  ASSUME Inv, UNCHANGED <<gaps, sync>>, NEW r \in Replicas,
         \/ \E s \in Slots : HandleBus(r, s)
         \/ FetchServe(r)
  PROVE  Step
<1>1. CASE \E s \in Slots : HandleBus(r, s)
  <2>1. PICK s \in Slots : HandleBus(r, s)
    BY <1>1
  <2>2. Execute(r, RecordBus(lg[r], s), View)
    BY <2>1, Views DEF HandleBus
  <2>3. Grows /\ NewVotes
    BY <2>2, ExecuteBus
  <2>. QED
    BY <2>1, <2>3, FetchUnchanged DEF HandleBus, Step, NewMessages, Inv, TypeOK, RoundsBacked
<1>2. CASE FetchServe(r)
  <2>. DEFINE donor == fetch[r].peer
              held == {s \in fetch[r].slots : lg[donor].ent[s] # Empty}
              e == [s \in held |-> lg[donor].ent[s]]
  <2>1. Grows /\ NewVotes
    BY <1>2, LogUnchanged DEF FetchServe
  <2>2. fetch[r] \in Transfer /\ donor \in Replicas /\ fetch[r].slots \in SUBSET Slots
    BY DEF Inv, TypeOK, Transfer
  <2>3. r # Leader
    BY <1>2 DEF FetchServe, Inv, TransfersBacked
  <2>4. held \in SUBSET Slots /\ e \in [held -> SlotStates]
    BY <2>2 DEF Inv, TypeOK, Logs
  <2>5. e \in PartialLogs
    BY <2>4, PartialLogFacts
  <2>6. \A s \in held : e[s] = NoOp => lg[Leader].ent[s] = NoOp
    BY <2>2, <2>4 DEF Inv, NoOpsFromLeader
  <2>7. fetch' = [fetch EXCEPT ![r] = [fetch[r] EXCEPT !.stage = "served", !.entries = e]]
    BY <1>2 DEF FetchServe, Inv, TypeOK
  <2>8. DOMAIN e = held
    OBVIOUS
  <2>. HIDE DEF e, held
  <2>. DEFINE f == [fetch[r] EXCEPT !.stage = "served", !.entries = e]
  <2>9. f \in Transfer /\ f.entries = e
    BY <2>2, <2>5 DEF Transfer
  <2>. HIDE DEF f
  <2>10. NewTransfers
    <3>1. \A q \in Replicas : fetch'[q] = IF q = r THEN f ELSE fetch[q]
      BY <2>7 DEF Inv, TypeOK, f
    <3>2. fetch' \in [Replicas -> Transfer]
      BY <2>7, <2>9 DEF Inv, TypeOK, f
    <3>3. fetch'[Leader].stage = "idle"
      BY <2>3, <3>1, Config DEF Inv, TransfersBacked
    <3>4. lg' = lg
      BY <1>2 DEF FetchServe
    <3>. QED
      BY <2>6, <2>8, <2>9, <3>1, <3>2, <3>3, <3>4 DEF NewTransfers
  <2>. QED
    BY <1>2, <2>1, <2>10 DEF FetchServe, Step, NewMessages, Inv, TypeOK, RoundsBacked
<1>. QED
  BY <1>1, <1>2

\* Gap agreement.
LEMMA GapStep == ASSUME Inv, GapNext, UNCHANGED sync PROVE Step
<1>. USE Config
<1>1. ASSUME NEW r \in Replicas, NEW s \in Slots, DetectGap(r, s) \/ FollowerEndGap(r, s)
      PROVE  Step
  <2>1. UNCHANGED replicaVars /\ gaps' \in [Replicas -> SUBSET Slots]
    BY <1>1 DEF DetectGap, FollowerEndGap, Inv, TypeOK
  <2>. QED
    BY <2>1, LogUnchanged, FetchUnchanged DEF replicaVars, Step, NewMessages, Inv, TypeOK, RoundsBacked
<1>2. ASSUME NEW r \in Replicas, NEW s \in Slots,
             HandleGapRequestFollower(r, LeaderIndex(view[r]), s)
      PROVE  Step
  <2>1. msgs' = msgs \cup {GapReply(View, s, r, Leader)}
    BY <1>2, Views DEF HandleGapRequestFollower
  <2>2. NewMessages
    BY <2>1 DEF NewMessages, GapReply, Messages
  <2>. QED
    BY <1>2, <2>2, LogUnchanged, FetchUnchanged DEF HandleGapRequestFollower, Step, Inv, TypeOK, RoundsBacked
<1>3. ASSUME NEW r \in Replicas, NEW s \in Slots,
             HandleGapRequestLeader(LeaderIndex(view[r]), r, s)
      PROVE  Step
  <2>1. r # Leader /\ LeaderIndex(view[r]) = Leader /\ view[Leader] = View
    BY <1>3, Views DEF HandleGapRequestLeader, Follows
  <2>2. \/ msgs' = msgs
        \/ msgs' = msgs \cup {GapReply(View, s, Leader, r)}
        \/ msgs' = msgs \cup {GapCommit(View, s, Leader, r)} /\ lg[Leader].ent[s] = NoOp
    BY <1>3, <2>1 DEF HandleGapRequestLeader
  <2>3. lg' = lg
    BY <1>3 DEF HandleGapRequestLeader
  <2>4. NewMessages
    BY <2>1, <2>2, <2>3 DEF NewMessages, GapReply, GapCommit, Messages
  <2>5. gaps' \in [Replicas -> SUBSET Slots]
    BY <1>3 DEF HandleGapRequestLeader, Inv, TypeOK
  <2>. QED
    BY <1>3, <2>4, <2>5, LogUnchanged, FetchUnchanged DEF HandleGapRequestLeader, Step, Inv, TypeOK, RoundsBacked
<1>4. ASSUME NEW l \in Replicas, NEW s \in Slots, NEW m \in Answers(l, s), view[l] = View
      PROVE  m \in Messages /\ m.type = "GapReply"
  BY <1>4 DEF Answers, GapReply, Messages
<1>5. ASSUME NEW l \in Replicas, NEW s \in Slots, LeaderFilled(l, s)
      PROVE  Step
  <2>1. view[l] = View /\ msgs' = msgs \cup Answers(l, s)
    BY <1>5, Views DEF LeaderFilled
  <2>2. NewMessages
    BY <1>4, <2>1 DEF NewMessages
  <2>. QED
    BY <1>5, <2>2, LogUnchanged, FetchUnchanged DEF LeaderFilled, Step, Inv, TypeOK, RoundsBacked
<1>6. ASSUME NEW l \in Replicas, NEW s \in Slots, LeaderNoOp(l, s)
      PROVE  Step
  <2>1. l = Leader /\ view[l] = View
    BY <1>6, Views DEF LeaderNoOp
  <2>2. /\ Execute(l, SetNoOp(lg[l], s), View)
        /\ msgs' = msgs \cup {GapCommit(View, s, l, r) : r \in Replicas \ {l}}
    BY <1>6, <2>1 DEF LeaderNoOp
  <2>3. Grows /\ NewVotes /\ (s >= lg[l].next => lg'[l].ent[s] = NoOp)
    BY <2>1, <2>2, ExecuteNoOp
  <2>4. lg'[l].ent[s] = NoOp
    <3>0. lg[l].next \in 0 .. NumSlots
      BY DEF Inv, TypeOK, Logs
    <3>1. s < lg[l].next => lg[l].ent[s] # Empty
      BY <3>0, NumSlotsAssumption DEF Inv, ExecutedPrefixFilled, Slots
    <3>2. lg[l].ent[s] # Empty => lg[l].ent[s] = NoOp
      BY <1>6 DEF LeaderNoOp, Inv, TypeOK, Logs, SlotStates
    <3>3. lg[l].ent[s] = NoOp => lg'[l].ent[s] = NoOp
      BY <2>1, <2>3 DEF Grows
    <3>4. s >= lg[l].next \/ s < lg[l].next
      BY <3>0, NumSlotsAssumption DEF Slots
    <3>. QED
      BY <2>3, <3>1, <3>2, <3>3, <3>4
  <2>5. NewMessages
    BY <2>1, <2>2, <2>4 DEF NewMessages, GapCommit, Messages
  <2>. QED
    BY <1>6, <2>3, <2>5, FetchUnchanged DEF LeaderNoOp, Step, Inv, TypeOK, RoundsBacked
<1>7. ASSUME NEW m \in msgs, LeaderRecover(m.dst, m)
      PROVE  Step
  <2>1. m.dst \in Replicas /\ m.slot \in Slots
    BY <1>7 DEF LeaderRecover, Inv, TypeOK, Messages
  <2>2. /\ view[m.dst] = View /\ Execute(m.dst, RecordBus(lg[m.dst], m.slot), View)
        /\ msgs' = msgs \cup Answers(m.dst, m.slot)
    BY <1>7, <2>1, Views DEF LeaderRecover
  <2>3. Grows /\ NewVotes
    BY <2>1, <2>2, ExecuteBus
  <2>4. NewMessages
    BY <1>4, <2>1, <2>2 DEF NewMessages
  <2>. QED
    BY <1>7, <2>3, <2>4, FetchUnchanged DEF LeaderRecover, Step, Inv, TypeOK, RoundsBacked
<1>8. ASSUME NEW m \in msgs, HandleGapReply(m.dst, m)
      PROVE  Step
  <2>1. m.dst \in Replicas /\ m.slot \in Slots
    BY <1>8 DEF HandleGapReply, Inv, TypeOK, Messages
  <2>2. Execute(m.dst, RecordBus(lg[m.dst], m.slot), View)
    BY <1>8, <2>1, Views DEF HandleGapReply
  <2>3. Grows /\ NewVotes
    BY <2>1, <2>2, ExecuteBus
  <2>. QED
    BY <1>8, <2>3, FetchUnchanged DEF HandleGapReply, Step, NewMessages, Inv, TypeOK, RoundsBacked
<1>9. ASSUME NEW m \in msgs, HandleGapCommit(m.dst, m)
      PROVE  Step
  <2>1. /\ m.dst \in Replicas /\ m.src \in Replicas /\ m.slot \in Slots /\ m.view = View
        /\ lg[Leader].ent[m.slot] = NoOp
    BY <1>9 DEF HandleGapCommit, Inv, TypeOK, Messages, MessagesBacked
  <2>2. Grows /\ NewVotes
    <3>1. CASE lg[m.dst].ent[m.slot] = NoOp
      BY <1>9, <3>1, LogUnchanged DEF HandleGapCommit
    <3>2. CASE lg[m.dst].ent[m.slot] # NoOp
      <4>1. Execute(m.dst, SetNoOp(lg[m.dst], m.slot), View)
        BY <1>9, <2>1, <3>2, Views DEF HandleGapCommit
      <4>. QED
        BY <2>1, <4>1, ExecuteNoOp
    <3>. QED
      BY <3>1, <3>2
  <2>3. NewMessages
    BY <1>9, <2>1 DEF HandleGapCommit, NewMessages, GapCommitReply, Messages
  <2>. QED
    BY <1>9, <2>2, <2>3, FetchUnchanged DEF HandleGapCommit, Step, Inv, TypeOK, RoundsBacked
<1>. QED
  BY <1>1, <1>2, <1>3, <1>5, <1>6, <1>7, <1>8, <1>9 DEF GapNext

\* A log digest is a partial log.
LEMMA PrefixType ==
  ASSUME NEW L \in Logs, NEW n \in Lengths
  PROVE  Prefix(L, n) \in PartialLogs
<1>1. 0 .. n - 1 \in SUBSET Slots
  BY NumSlotsAssumption DEF Lengths, Slots
<1>2. Prefix(L, n) \in [0 .. n - 1 -> SlotStates]
  BY <1>1 DEF Prefix, Logs
<1>. QED
  BY <1>1, <1>2, PartialLogFacts

\* missingFetchSlotsLocked asks for slots of the log.
LEMMA MissingType ==
  ASSUME NEW L \in Logs, NEW n \in Lengths
  PROVE  L.next \in Lengths /\ Missing(L, L.next, n) \in SUBSET Slots
<1>1. L.next \in Lengths
  BY DEF Logs, Lengths
<1>2. L.next .. n - 1 \in SUBSET Slots
  BY <1>1, NumSlotsAssumption DEF Lengths, Slots
<1>. QED
  BY <1>1, <1>2 DEF Missing

\* A transfer that starts has no entries yet.
LEMMA FetchFacts ==
  ASSUME NEW kind \in {"plain", "sync"}, NEW peer \in Replicas, NEW from \in Lengths,
         NEW slots \in SUBSET Slots, NEW n \in Lengths, NEW hash \in PartialLogs
  PROVE  /\ Fetch(kind, peer, from, slots, n, hash) \in Transfer
         /\ Fetch(kind, peer, from, slots, n, hash).entries = NoEntries
BY NoFetchFacts, NumSlotsAssumption DEF Fetch, Transfer, Lengths, Verdicts

\* So has the one that only holds what is left to be answered.
LEMMA AnswerFacts ==
  ASSUME NEW n \in Lengths, NEW verdict \in Verdicts, NEW stable \in Lengths
  PROVE  Answer(n, verdict, stable) \in Transfer /\ Answer(n, verdict, stable).entries = NoEntries
BY NoFetchFacts, Config, NumSlotsAssumption DEF Answer, Transfer, Lengths, Replicas

\* Comparing gives a verdict.
LEMMA CompareType ==
  ASSUME NEW L, NEW n, NEW hash
  PROVE  Compare(L, n, hash) \in SUBSET Verdicts
BY DEF Compare, Verdicts

\* Only equal digests compare as equal.
LEMMA SameMeans ==
  ASSUME NEW L, NEW n, NEW hash, Same \in Compare(L, n, hash)
  PROVE  Prefix(L, n) = hash
BY DEF Compare, Same, Differs, Unknown

\* A step that gives follower r a transfer without entries, or leaves it its own.
LEMMA FetchSet ==
  ASSUME Inv, NEW r \in Replicas, r # Leader, NEW f \in Transfer,
         fetch' = [fetch EXCEPT ![r] = f],
         f.entries \in {NoEntries, fetch[r].entries}, Grows
  PROVE  NewTransfers
<1>1. \A q \in Replicas : fetch'[q] = IF q = r THEN f ELSE fetch[q]
  BY DEF Inv, TypeOK
<1>2. fetch' \in [Replicas -> Transfer]
  BY DEF Inv, TypeOK
<1>3. fetch'[Leader].stage = "idle"
  BY <1>1, Config DEF Inv, TransfersBacked
<1>4. ASSUME NEW s \in DOMAIN f.entries, f.entries[s] = NoOp
      PROVE  lg'[Leader].ent[s] = NoOp
  <2>1. f.entries = fetch[r].entries
    BY <1>4, NoFetchFacts
  <2>2. lg[Leader].ent[s] = NoOp
    BY <1>4, <2>1 DEF Inv, TransfersBacked
  <2>3. s \in Slots
    BY <1>4, <2>1, PartialLogFacts DEF Inv, TypeOK, Transfer
  <2>. QED
    BY <2>2, <2>3 DEF Grows
<1>. QED
  BY <1>1, <1>2, <1>3, <1>4 DEF NewTransfers

\* rewindToStableAndRefetch at a follower.
LEMMA RewindStep ==
  ASSUME Inv, NEW r \in Replicas, r # Leader, NEW n \in Lengths,
         lg' = [lg EXCEPT ![r] = ClearAbove(RewindTo(lg[r], n), n)], replies' = replies
  PROVE  Grows /\ NewVotes
<1>. DEFINE M == ClearAbove(RewindTo(lg[r], n), n)
<1>0. lg \in [Replicas -> Logs] /\ Leader \in Replicas /\ lg[Leader].next \in 0 .. NumSlots
  BY Config DEF Inv, TypeOK, Logs
<1>1. \A q \in Replicas : Filled(lg[q])
  BY DEF Inv, ExecutedPrefixFilled, Filled
<1>2. M \in Logs /\ Filled(M) /\ \A t \in Slots : M.ent[t] \in {lg[r].ent[t], Empty}
  BY <1>0, <1>1, RewindFacts DEF Lengths
<1>. HIDE DEF M
<1>3. \A q \in Replicas : lg'[q] = IF q = r THEN M ELSE lg[q]
  BY <1>0 DEF M
<1>4. lg' \in [Replicas -> Logs]
  BY <1>0, <1>2 DEF M
<1>. QED
  BY <1>0, <1>1, <1>2, <1>3, <1>4 DEF Grows, NewVotes, Empty, NoOp

\* setStableLocked at any replica.
LEMMA StableStep ==
  ASSUME Inv, NEW r \in Replicas, NEW n \in Lengths,
         lg' = [lg EXCEPT ![r] = SetStable(lg[r], n)], replies' = replies
  PROVE  Grows /\ NewVotes
<1>. DEFINE M == SetStable(lg[r], n)
<1>0. lg \in [Replicas -> Logs] /\ Leader \in Replicas /\ lg[Leader].next \in 0 .. NumSlots
  BY Config DEF Inv, TypeOK, Logs
<1>1. \A q \in Replicas : Filled(lg[q])
  BY DEF Inv, ExecutedPrefixFilled, Filled
<1>2. M \in Logs /\ M.ent = lg[r].ent /\ M.next = lg[r].next
  BY <1>0, SetStableFacts DEF Lengths
<1>. HIDE DEF M
<1>3. \A q \in Replicas : lg'[q] = IF q = r THEN M ELSE lg[q]
  BY <1>0 DEF M
<1>4. lg' \in [Replicas -> Logs]
  BY <1>0, <1>2 DEF M
<1>5. Filled(M)
  BY <1>1, <1>2 DEF Filled
<1>. QED
  BY <1>0, <1>1, <1>2, <1>3, <1>4, <1>5 DEF Grows, NewVotes

\* An acknowledgement.
LEMMA ReplyFacts ==
  ASSUME NEW n \in Lengths, NEW r \in Replicas, NEW u \in BOOLEAN
  PROVE  LET m == SyncReply(View, n, r, Leader, u) IN
         m \in Messages /\ m.type = "SyncReply" /\ m.n = n /\ m.src = r /\ m.unverified = u
BY Config DEF SyncReply, Messages

\* answerSyncPrepare at a follower, on either goroutine.
LEMMA AnswerStep ==
  ASSUME Inv, NEW r \in Replicas, r # Leader, NEW n \in Lengths, NEW verdict,
         NEW stable \in Lengths, NEW idle, AnswerSyncPrepare(r, n, verdict, stable, idle), replies' = replies
  PROVE  Grows /\ NewVotes /\ NewMessages /\ NewTransfers
<1>. DEFINE L == ClearAbove(RewindTo(lg[r], stable), stable)
            refetch == Fetch("plain", Leader, stable, stable .. L.seen - 1, 0, NoEntries)
            after == IF idle THEN NoFetch ELSE fetch[r]
<1>0. view[r] = View /\ LeaderIndex(View) = Leader /\ Leader \in Replicas
  BY Views, Config DEF Leader
<1>1. L \in Logs
  <2>1. lg[r] \in Logs /\ Filled(lg[r])
    BY DEF Inv, TypeOK, ExecutedPrefixFilled, Filled
  <2>. QED
    BY <2>1, RewindFacts DEF Lengths
<1>2. stable .. L.seen - 1 \in SUBSET Slots /\ 0 \in Lengths
  BY <1>1, NumSlotsAssumption DEF Logs, Slots, Lengths
<1>3. refetch \in Transfer /\ refetch.entries = NoEntries
  <2>. DEFINE W == stable .. L.seen - 1
  <2>1. W \in SUBSET Slots /\ 0 \in Lengths /\ NoEntries \in PartialLogs /\ Leader \in Replicas
    BY <1>0, <1>2, NoFetchFacts
  <2>. HIDE DEF W
  <2>2. /\ Fetch("plain", Leader, stable, W, 0, NoEntries) \in Transfer
        /\ Fetch("plain", Leader, stable, W, 0, NoEntries).entries = NoEntries
    BY <2>1, FetchFacts
  <2>. QED
    BY <2>2 DEF W
<1>4. after \in Transfer /\ after.entries \in {NoEntries, fetch[r].entries}
  BY NoFetchFacts DEF Inv, TypeOK
<1>5. CASE Acknowledge(r, n, verdict = Unknown, after)
  <2>1. /\ lg' = lg
        /\ msgs' = msgs \cup {SyncReply(View, n, r, Leader, verdict = Unknown)}
        /\ fetch' = [fetch EXCEPT ![r] = after]
    BY <1>0, <1>5 DEF Acknowledge
  <2>2. Grows /\ NewVotes
    BY <2>1, LogUnchanged
  <2>3. NewMessages
    <3>. DEFINE m == SyncReply(View, n, r, Leader, verdict = Unknown)
    <3>1. m \in Messages /\ m.type = "SyncReply"
      BY ReplyFacts
    <3>. HIDE DEF m
    <3>2. msgs' = msgs \cup {m}
      BY <2>1 DEF m
    <3>. QED
      BY <3>1, <3>2 DEF NewMessages
  <2>. HIDE DEF after
  <2>4. NewTransfers
    BY <1>4, <2>1, <2>2, FetchSet
  <2>. QED
    BY <2>2, <2>3, <2>4
<1>6. CASE RewindAndRefetch(r, stable, idle, after)
  <2>1. /\ msgs' = msgs
        /\ lg' = lg \/ lg' = [lg EXCEPT ![r] = L]
        /\ \E f \in {refetch, after} : fetch' = [fetch EXCEPT ![r] = f]
    BY <1>0, <1>6 DEF RewindAndRefetch
  <2>2. Grows /\ NewVotes
    BY <2>1, LogUnchanged, RewindStep
  <2>3. NewMessages
    BY <2>1 DEF NewMessages
  <2>. HIDE DEF after, refetch, L
  <2>4. NewTransfers
    BY <1>3, <1>4, <2>1, <2>2, FetchSet
  <2>. QED
    BY <2>2, <2>3, <2>4
<1>. QED
  BY <1>5, <1>6 DEF AnswerSyncPrepare

\* Synchronisation rounds and the transfers of lagging followers.
LEMMA SyncStep == ASSUME Inv, SyncNext, UNCHANGED gaps PROVE Step
<1>. USE Config
<1>1. ASSUME NEW r \in Replicas, SyncOnce(r)
      PROVE  Step
  <2>1. r = Leader /\ view[r] = View
    BY <1>1, Views DEF SyncOnce
  <2>2. lg[r] \in Logs /\ lg[r].next \in Lengths
    BY DEF Inv, TypeOK, Logs, Lengths
  <2>3. Prefix(lg[r], lg[r].next) \in PartialLogs
    BY <2>2, PrefixType
  <2>4. NewMessages
    BY <1>1, <2>1, <2>2, <2>3 DEF SyncOnce, NewMessages, SyncPrepare, Messages
  <2>5. sync' \in [Replicas -> Lengths] /\ \A q \in Replicas \ {Leader} : sync'[q] = 0
    BY <1>1, <2>1, <2>2 DEF SyncOnce, Inv, TypeOK, RoundsBacked
  <2>. QED
    BY <1>1, <2>4, <2>5, LogUnchanged, FetchUnchanged DEF SyncOnce, Step, Inv, TypeOK, RoundsBacked
<1>2. ASSUME NEW r \in Replicas, CommitSync(r)
      PROVE  Step
  <2>1. view[r] = View /\ sync[r] \in Lengths /\ 0 \in Lengths
    BY Views, NumSlotsAssumption DEF Inv, TypeOK, Lengths
  <2>2. r = Leader
    BY <1>2, <2>1 DEF CommitSync, Inv, RoundsBacked
  <2>3. Grows /\ NewVotes
    BY <1>2, <2>1, StableStep DEF CommitSync
  <2>4. NewMessages
    BY <1>2, <2>1, <2>2 DEF CommitSync, NewMessages, SyncCommit, Messages
  <2>5. sync' \in [Replicas -> Lengths] /\ \A q \in Replicas \ {Leader} : sync'[q] = 0
    BY <1>2, <2>1, <2>2 DEF CommitSync, Inv, TypeOK, RoundsBacked
  <2>. QED
    BY <1>2, <2>3, <2>4, <2>5, FetchUnchanged DEF CommitSync, Step, Inv, TypeOK
<1>3. ASSUME NEW m \in msgs, HandleSyncPrepareBehind(m.dst, m)
      PROVE  Step
  <2>. DEFINE r == m.dst
              f == CatchUp(r, lg[r], m.n, m.hash)
              g == [fetch[r] EXCEPT !.n = m.n, !.hash = m.hash]
  <2>1. r \in Replicas /\ r # Leader /\ m.n \in Lengths /\ m.hash \in PartialLogs
    BY <1>3 DEF HandleSyncPrepareBehind, Inv, TypeOK, Messages, MessagesBacked
  <2>0. lg[r] \in Logs /\ fetch[r] \in Transfer
    BY <2>1 DEF Inv, TypeOK
  <2>2. f \in Transfer /\ f.entries = NoEntries
    <3>1. lg[r].next \in Lengths /\ Missing(lg[r], lg[r].next, m.n) \in SUBSET Slots
      BY <2>0, <2>1, MissingType
    <3>2. LeaderIndex(view[r]) = Leader
      BY <2>1, Views
    <3>. QED
      BY <2>1, <3>1, <3>2, FetchFacts DEF CatchUp
  <2>3. g \in Transfer /\ g.entries = fetch[r].entries
    BY <2>0, <2>1 DEF Transfer
  <2>4. fetch' = [fetch EXCEPT ![r] = f] \/ fetch' = [fetch EXCEPT ![r] = g]
    BY <1>3, <2>1 DEF HandleSyncPrepareBehind, Inv, TypeOK
  <2>5. Grows /\ NewVotes
    BY <1>3, LogUnchanged DEF HandleSyncPrepareBehind
  <2>. HIDE DEF f, g
  <2>6. NewTransfers
    BY <2>1, <2>2, <2>3, <2>4, <2>5, FetchSet
  <2>. QED
    BY <1>3, <2>5, <2>6 DEF HandleSyncPrepareBehind, Step, NewMessages, Inv, TypeOK, RoundsBacked
<1>4. ASSUME NEW m \in msgs, HandleSyncPrepareReady(m.dst, m)
      PROVE  Step
  <2>1. m.dst \in Replicas /\ m.dst # Leader /\ m.n \in Lengths
    BY <1>4 DEF HandleSyncPrepareReady, Inv, TypeOK, Messages, MessagesBacked
  <2>2. lg[m.dst].stable \in Lengths
    BY <2>1 DEF Inv, TypeOK, Logs, Lengths
  <2>3. PICK verdict \in Verdicts :
          AnswerSyncPrepare(m.dst, m.n, verdict, lg[m.dst].stable, Idle(m.dst))
    BY <1>4, CompareType DEF HandleSyncPrepareReady
  <2>4. Grows /\ NewVotes /\ NewMessages /\ NewTransfers
    BY <1>4, <2>1, <2>2, <2>3, AnswerStep DEF HandleSyncPrepareReady
  <2>. QED
    BY <1>4, <2>4 DEF HandleSyncPrepareReady, Step, Inv, TypeOK, RoundsBacked
<1>5. ASSUME NEW m \in msgs, HandleSyncCommit(m.dst, m)
      PROVE  Step
  <2>1. m.dst \in Replicas /\ m.n \in Lengths
    BY <1>5 DEF HandleSyncCommit, Inv, TypeOK, Messages
  <2>2. Grows /\ NewVotes
    BY <1>5, <2>1, StableStep DEF HandleSyncCommit
  <2>. QED
    BY <1>5, <2>2, FetchUnchanged DEF HandleSyncCommit, Step, NewMessages, Inv, TypeOK, RoundsBacked
<1>6. ASSUME NEW r \in Replicas, SyncFetchDone(r)
      PROVE  Step
  <2>. DEFINE f == fetch[r]
              L == lg'[r]
              c == CatchUp(r, L, f.n, f.hash)
  <2>0. PICK verdict \in Verdicts :
          fetch' = [fetch EXCEPT ![r] =
            CASE L.next < f.n /\ L.next <= f.from -> NoFetch
              [] L.next < f.n /\ L.next > f.from -> c
              [] OTHER -> Answer(f.n, verdict, L.stable)]
    BY <1>6, CompareType DEF SyncFetchDone
  <2>. DEFINE a == Answer(f.n, verdict, L.stable)
  <2>1. r # Leader /\ view[r] = View /\ LeaderIndex(view[r]) = Leader
    BY <1>6, Views DEF SyncFetchDone, FetchDone, Inv, TransfersBacked
  <2>2. Execute(r, ApplyEntries(lg[r], fetch[r].entries), View)
    BY <1>6, <2>1 DEF SyncFetchDone
  <2>3. Grows /\ NewVotes /\ L \in Logs
    BY <2>1, <2>2, ExecuteEntries
  <2>4. f.n \in Lengths /\ f.hash \in PartialLogs
    BY DEF Inv, TypeOK, Transfer
  <2>5. a \in Transfer /\ a.entries = NoEntries
    <3>1. L.stable \in Lengths
      BY <2>3 DEF Logs, Lengths
    <3>. QED
      BY <2>4, <3>1, AnswerFacts
  <2>6. c \in Transfer /\ c.entries = NoEntries
    <3>1. L.next \in Lengths /\ Missing(L, L.next, f.n) \in SUBSET Slots
      BY <2>3, <2>4, MissingType
    <3>. QED
      BY <2>1, <2>4, <3>1, FetchFacts DEF CatchUp
  <2>7. fetch' = [fetch EXCEPT ![r] =
           CASE L.next < f.n /\ L.next <= f.from -> NoFetch
             [] L.next < f.n /\ L.next > f.from -> c
             [] OTHER -> a]
    BY <2>0
  <2>. HIDE DEF a, c
  <2>8. \E h \in {NoFetch, a, c} : fetch' = [fetch EXCEPT ![r] = h]
    <3>. DEFINE p == L.next < f.n
                q == L.next <= f.from
    <3>0. L.next \in Int /\ f.from \in Int
      <4>1. L.next \in 0 .. NumSlots /\ f.from \in 0 .. NumSlots
        BY <2>3 DEF Logs, Inv, TypeOK, Transfer, Lengths
      <4>. QED
        BY <4>1, NumSlotsAssumption
    <3>1. (L.next > f.from) <=> ~q
      BY <3>0
    <3>2. CASE p /\ q
      BY <2>7, <3>1, <3>2, Zenon
    <3>3. CASE p /\ ~q
      BY <2>7, <3>1, <3>3, Zenon
    <3>4. CASE ~p
      BY <2>7, <3>4, Zenon
    <3>. QED
      BY <3>2, <3>3, <3>4
  <2>9. NewTransfers
    BY <2>1, <2>3, <2>5, <2>6, <2>8, FetchSet, NoFetchFacts
  <2>. QED
    BY <1>6, <2>3, <2>9 DEF SyncFetchDone, Step, NewMessages, Inv, TypeOK, RoundsBacked
<1>7. ASSUME NEW r \in Replicas, SyncFetchAnswer(r)
      PROVE  Step
  <2>1. r # Leader
    BY <1>7 DEF SyncFetchAnswer, Inv, TransfersBacked
  <2>2. fetch[r].n \in Lengths /\ fetch[r].stable \in Lengths
    BY DEF Inv, TypeOK, Transfer
  <2>3. Grows /\ NewVotes /\ NewMessages /\ NewTransfers
    BY <1>7, <2>1, <2>2, AnswerStep DEF SyncFetchAnswer
  <2>. QED
    BY <1>7, <2>3 DEF SyncFetchAnswer, Step, Inv, TypeOK, RoundsBacked
<1>8. ASSUME NEW r \in Replicas, SyncFetchFail(r)
      PROVE  Step
  <2>1. r # Leader
    BY <1>8 DEF SyncFetchFail, FetchLost, Inv, TransfersBacked
  <2>2. Grows /\ NewVotes
    BY <1>8, LogUnchanged DEF SyncFetchFail
  <2>3. NewTransfers
    BY <1>8, <2>1, <2>2, FetchSet, NoFetchFacts DEF SyncFetchFail
  <2>. QED
    BY <1>8, <2>2, <2>3 DEF SyncFetchFail, Step, NewMessages, Inv, TypeOK, RoundsBacked
<1>9. ASSUME NEW r \in Replicas, PlainFetchEnd(r)
      PROVE  Step
  <2>1. r # Leader /\ view[r] = View
    BY <1>9, Views DEF PlainFetchEnd, FetchDone, FetchLost, Inv, TransfersBacked
  <2>2. Grows /\ NewVotes
    <3>1. CASE FetchDone(r, "plain") /\ Execute(r, ApplyEntries(lg[r], fetch[r].entries), view[r])
      BY <2>1, <3>1, ExecuteEntries
    <3>2. CASE UNCHANGED <<lg, replies>>
      BY <3>2, LogUnchanged
    <3>. QED
      BY <1>9, <3>1, <3>2 DEF PlainFetchEnd
  <2>3. NewTransfers
    BY <1>9, <2>1, <2>2, FetchSet, NoFetchFacts DEF PlainFetchEnd
  <2>. QED
    BY <1>9, <2>2, <2>3 DEF PlainFetchEnd, Step, NewMessages, Inv, TypeOK, RoundsBacked
<1>. QED
  BY <1>1, <1>2, <1>3, <1>4, <1>5, <1>6, <1>7, <1>8, <1>9 DEF SyncNext

-----------------------------------------------------------------------------
(* The theorems *)

\* Every handler makes such a step, or changes nothing.
LEMMA NextStep == ASSUME Inv, [Next]_vars PROVE Step \/ UNCHANGED vars
BY ReplicaStep, GapStep, SyncStep DEF Next

\* The invariant holds in every state of normal operation.
THEOREM Invariance == Spec => []Inv
<1>1. Inv /\ [Next]_vars => Inv'
  <2>. SUFFICES ASSUME Inv, [Next]_vars PROVE Inv'
    OBVIOUS
  <2>1. CASE Step
    BY <2>1, StepInv
  <2>2. CASE UNCHANGED vars
    BY <2>2 DEF vars, Inv, TypeOK, ExecutedPrefixFilled, NoOpsFromLeader, RoundsBacked,
                MessagesBacked, TransfersBacked, VotesBacked
  <2>. QED
    BY <2>1, <2>2, NextStep
<1>. QED
  BY InitInv, <1>1, PTL DEF Spec

\* Every variable keeps its type, messages and transfers included.
THEOREM TypeCorrect == Spec => []TypeOK
<1>1. Inv => TypeOK
  BY DEF Inv
<1>. QED
  BY Invariance, <1>1, PTL

\* No log is executed over an empty slot, whatever rewinds and refetches race.
THEOREM ExecutionIsFilled == Spec => []ExecutedPrefixFilled
<1>1. Inv => ExecutedPrefixFilled
  BY DEF Inv
<1>. QED
  BY Invariance, <1>1, PTL

\* A follower's no-op is always the leader's no-op too.
THEOREM NoOpsComeFromLeader == Spec => []NoOpsFromLeader
<1>1. Inv => NoOpsFromLeader
  BY DEF Inv
<1>. QED
  BY Invariance, <1>1, PTL

(***************************************************************************)
(* Votes a client can count together come from logs with the same no-ops   *)
(* below the slot: a vote's no-ops are among the leader's, and equal log   *)
(* indexes make them equally many.                                         *)
(***************************************************************************)
THEOREM VotesAgree == Spec => []VoteAgreement
<1>1. Inv => VoteAgreement
  <2>. SUFFICES ASSUME Inv, NEW a \in replies, NEW b \in replies, a.replica = Leader,
                       a.slot = b.slot, a.logIndex = b.logIndex
                PROVE  a.noops = b.noops
    BY DEF VoteAgreement
  <2>1. /\ a.slot \in Slots /\ a.logIndex \in Lengths
        /\ a.noops \in SUBSET Slots /\ b.noops \in SUBSET Slots
    BY DEF Inv, TypeOK, Votes
  <2>2. IsFiniteSet(Slots)
    BY NumSlotsAssumption, FS_Interval DEF Slots
  <2>3. IsFiniteSet(a.noops) /\ IsFiniteSet(b.noops)
    BY <2>1, <2>2, FS_Subset
  <2>4. Cardinality(a.noops) \in Nat /\ Cardinality(b.noops) \in Nat
    BY <2>3, FS_CardinalityType
  <2>5. a.logIndex + Cardinality(a.noops) = b.logIndex + Cardinality(b.noops)
    BY DEF Inv, VotesBacked
  <2>6. Cardinality(a.noops) = Cardinality(b.noops)
    BY <2>1, <2>4, <2>5 DEF Lengths
  <2>7. b.noops \in SUBSET a.noops
    BY <2>1, NumSlotsAssumption DEF Inv, VotesBacked, Slots
  <2>. QED
    BY <2>3, <2>6, <2>7, FS_Subset
<1>. QED
  BY Invariance, <1>1, PTL

\* The leader never takes back what it has executed.
THEOREM LeaderLogGrows == Spec => LeaderAppendOnly
<1>. DEFINE A == /\ lg'[Leader].next >= lg[Leader].next
                 /\ Prefix(lg'[Leader], lg[Leader].next) = Prefix(lg[Leader], lg[Leader].next)
<1>1. Inv /\ [Next]_vars => [A]_vars
  <2>. SUFFICES ASSUME Inv, Step PROVE A
    BY NextStep
  <2>1. lg[Leader].next \in 0 .. NumSlots
    BY Config DEF Inv, TypeOK, Logs
  <2>2. \A s \in 0 .. lg[Leader].next - 1 : lg'[Leader].ent[s] = lg[Leader].ent[s]
    BY <2>1, NumSlotsAssumption DEF Step, Grows, Slots
  <2>. QED
    BY <2>2 DEF Step, Grows, Prefix
<1>. QED
  BY Invariance, <1>1, PTL DEF Spec, LeaderAppendOnly

-----------------------------------------------------------------------------
(***************************************************************************)
(* The commit point of the synchronisation rounds is safe: what lies below *)
(* the leader's has the consent of a quorum.  This rests on Inv.           *)
(***************************************************************************)

\* Replica r has replied to the client of slot s with log index i.
Answered(r, s, i) ==
  \E b \in replies : b.replica = r /\ b.slot = s /\ b.logIndex = i

\* A replica has replied for every bus in its executed prefix, with the log
\* index the bus still has.
ExecutedAnswered ==
  \A r \in Replicas, s \in Slots :
    s < lg[r].next /\ lg[r].ent[s] = Received => Answered(r, s, LogIndex(lg[r], s))

\* Replica r has replied like the leader for the first n slots.
Backed(n, r) ==
  /\ n <= lg[Leader].next
  /\ \A s \in Slots : s < n /\ lg[Leader].ent[s] = Received =>
                        Answered(r, s, LogIndex(lg[Leader], s))

\* (n, hash) is an executed prefix of the leader with its digest.
Announces(n, hash) == n <= lg[Leader].next /\ hash = Prefix(lg[Leader], n)

\* What a replica's transfer f of kind "sync" knows: the round it works
\* towards, or what came of comparing the digests before the mutex was released.
Towards(r, f) ==
  /\ f.kind = "sync" /\ f.stage \in {"sent", "served"} => Announces(f.n, f.hash)
  /\ f.stage = "answer" /\ f.verdict = Same => Backed(f.n, r)

\* The messages of the rounds: an announcement is true and stays true, and an
\* acknowledgement is given only by a replica that has replied like the leader,
\* unless it is given unverified.
RoundMessages ==
  \A m \in msgs :
    /\ m.type = "SyncPrepare" => Announces(m.n, m.hash)
    /\ m.type = "SyncReply" /\ ~m.unverified => Backed(m.n, m.src)

\* The same for what a follower remembers of a round.
RoundTransfers == \A r \in Replicas : Towards(r, fetch[r])

\* The open round and the commit point lie in the leader's executed prefix.
RoundOpen == sync[Leader] <= lg[Leader].next /\ lg[Leader].stable <= lg[Leader].next

\* The request of slot s with log index i has the leader's reply and the consent
\* of a quorum: a reply, or an unverified acknowledgement.
Consented(s, i) ==
  Leader \in Voters(s, i) /\ Cardinality(Voters(s, i) \cup Unverified(s)) >= QuorumSize

\* Below the leader's commit point everything has it.
StableConsented ==
  \A s \in Slots : s < lg[Leader].stable /\ lg[Leader].ent[s] = Received =>
                     Consented(s, LogIndex(lg[Leader], s))

\* The inductive invariant, relative to Inv.
SyncInv ==
  /\ ExecutedAnswered
  /\ RoundMessages
  /\ RoundTransfers
  /\ RoundOpen
  /\ StableConsented

-----------------------------------------------------------------------------
(* What a step does, as far as the rounds are concerned *)

\* Replies stay, and what is executed after the step was so before or is replied to.
NewAnswers ==
  /\ replies \subseteq replies'
  /\ \A r \in Replicas, s \in Slots : s < lg'[r].next /\ lg'[r].ent[s] = Received =>
       \/ s < lg[r].next /\ \A t \in 0 .. s : lg'[r].ent[t] = lg[r].ent[t]
       \/ Answered(r, s, LogIndex(lg[r], s))'

\* A message of a round that is sent is true when it is sent.
NewRounds ==
  /\ msgs \subseteq msgs'
  /\ \A m \in msgs' \ msgs :
       /\ m.type = "SyncPrepare" => Announces(m.n, m.hash)'
       /\ m.type = "SyncReply" /\ ~m.unverified => Backed(m.n, m.src)'

\* So is what a follower starts to remember of a round.
NewTowards == \A r \in Replicas : fetch'[r] = fetch[r] \/ Towards(r, fetch[r])'

\* The leader's commit point moves over slots a quorum consents to.
NewStable ==
  /\ RoundOpen'
  /\ \A s \in Slots : s < lg'[Leader].stable /\ lg'[Leader].ent[s] = Received =>
       s < lg[Leader].stable \/ Consented(s, LogIndex(lg[Leader], s))'

\* What any step of normal operation does to the rounds, in one formula.
SyncMove == NewAnswers /\ NewRounds /\ NewTowards /\ NewStable

\* The leader's executed prefix and its log indexes stay as they are.
LEMMA LeaderKeeps ==
  ASSUME Inv, Grows, NEW s \in Slots, s < lg[Leader].next
  PROVE  /\ s < lg'[Leader].next
         /\ lg'[Leader].ent[s] = lg[Leader].ent[s]
         /\ LogIndex(lg'[Leader], s) = LogIndex(lg[Leader], s)
<1>1. lg[Leader].next \in 0 .. NumSlots /\ lg'[Leader].next \in 0 .. NumSlots
  BY Config DEF Inv, TypeOK, Grows, Logs
<1>2. \A t \in 0 .. s - 1 : t \in Slots /\ t < lg[Leader].next
  BY <1>1, NumSlotsAssumption DEF Slots
<1>3. \A t \in 0 .. s - 1 : lg'[Leader].ent[t] = lg[Leader].ent[t]
  BY <1>2 DEF Grows
<1>4. LogIndex(lg'[Leader], s) = LogIndex(lg[Leader], s)
  BY <1>3, LogIndexSame
<1>5. s < lg'[Leader].next
  BY <1>1, NumSlotsAssumption DEF Grows, Slots
<1>. QED
  BY <1>4, <1>5 DEF Grows

\* A replica that has replied like the leader has done so for good.
LEMMA BackedStays ==
  ASSUME Inv, Grows, replies \subseteq replies', NEW n \in Lengths, NEW r, Backed(n, r)
  PROVE  Backed(n, r)'
<1>1. lg[Leader].next \in 0 .. NumSlots /\ lg'[Leader].next \in 0 .. NumSlots
  BY Config DEF Inv, TypeOK, Grows, Logs
<1>2. n <= lg'[Leader].next
  BY <1>1 DEF Grows, Backed, Lengths
<1>3. ASSUME NEW s \in Slots, s < n, lg'[Leader].ent[s] = Received
      PROVE  Answered(r, s, LogIndex(lg[Leader], s))'
  <2>1. s < lg[Leader].next
    BY <1>1, <1>3, NumSlotsAssumption DEF Backed, Lengths, Slots
  <2>2. lg[Leader].ent[s] = Received /\ LogIndex(lg'[Leader], s) = LogIndex(lg[Leader], s)
    BY <1>3, <2>1, LeaderKeeps
  <2>3. Answered(r, s, LogIndex(lg[Leader], s))
    BY <1>3, <2>2 DEF Backed
  <2>. QED
    BY <2>2, <2>3 DEF Answered
<1>. QED
  BY <1>2, <1>3 DEF Backed

\* A prefix of the leader's executed log stays one.
LEMMA AnnouncesStays ==
  ASSUME Inv, Grows, NEW n \in Lengths, NEW hash, Announces(n, hash)
  PROVE  Announces(n, hash)'
<1>1. lg[Leader].next \in 0 .. NumSlots /\ lg'[Leader].next \in 0 .. NumSlots
  BY Config DEF Inv, TypeOK, Grows, Logs
<1>2. n <= lg'[Leader].next
  BY <1>1 DEF Grows, Announces, Lengths
<1>3. \A t \in 0 .. n - 1 : t \in Slots /\ t < lg[Leader].next
  BY <1>1, NumSlotsAssumption DEF Announces, Lengths, Slots
<1>4. \A t \in 0 .. n - 1 : lg'[Leader].ent[t] = lg[Leader].ent[t]
  BY <1>3 DEF Grows
<1>5. Prefix(lg'[Leader], n) = Prefix(lg[Leader], n)
  BY <1>4 DEF Prefix
<1>. QED
  BY <1>2, <1>5 DEF Announces

\* Those who reply or acknowledge are replicas, finitely many.
LEMMA ConsentFinite ==
  ASSUME Inv, NEW s, NEW i
  PROVE  IsFiniteSet(Voters(s, i) \cup Unverified(s))
<1>1. Voters(s, i) \in SUBSET Replicas
  BY DEF Voters, Inv, TypeOK, Votes
<1>2. Unverified(s) \in SUBSET Replicas
  BY DEF Unverified, Inv, TypeOK, Messages
<1>3. IsFiniteSet(Replicas)
  BY Config, FS_Interval DEF Replicas
<1>4. Voters(s, i) \cup Unverified(s) \in SUBSET Replicas
  BY <1>1, <1>2
<1>. QED
  BY <1>3, <1>4, FS_Subset

\* A quorum that consents to a slot does so for good.
LEMMA ConsentedStays ==
  ASSUME Inv, Inv', replies \subseteq replies', msgs \subseteq msgs', NEW s, NEW i,
         Consented(s, i)
  PROVE  Consented(s, i)'
<1>. DEFINE V == Voters(s, i) \cup Unverified(s)
            W == (Voters(s, i) \cup Unverified(s))'
<1>1. Voters(s, i) \subseteq Voters(s, i)' /\ Unverified(s) \subseteq Unverified(s)'
  BY DEF Voters, Unverified
<1>2. IsFiniteSet(W)
  <2>1. Voters(s, i)' \in SUBSET Replicas /\ Unverified(s)' \in SUBSET Replicas
    BY DEF Voters, Unverified, Inv, TypeOK, Votes, Messages
  <2>2. IsFiniteSet(Replicas)
    BY Config, FS_Interval DEF Replicas
  <2>. QED
    BY <2>1, <2>2, FS_Subset
<1>3. V \in SUBSET W
  BY <1>1
<1>. HIDE DEF V, W
<1>4. Cardinality(V) <= Cardinality(W) /\ Cardinality(V) \in Nat /\ Cardinality(W) \in Nat
  BY <1>2, <1>3, FS_Subset, FS_CardinalityType
<1>5. Leader \in Voters(s, i) /\ Cardinality(V) >= QuorumSize
  BY DEF Consented, V
<1>6. Leader \in Voters(s, i)' /\ Cardinality(W) >= QuorumSize
  BY <1>1, <1>4, <1>5, Config DEF QuorumSize
<1>. QED
  BY <1>6 DEF Consented, W

\* A replica has replied for what it has executed, after the step too.
LEMMA AnsweredStays ==
  ASSUME ExecutedAnswered, NewAnswers
  PROVE  ExecutedAnswered'
<1>. SUFFICES ASSUME NEW r \in Replicas, NEW s \in Slots,
                     s < lg'[r].next, lg'[r].ent[s] = Received
              PROVE  Answered(r, s, LogIndex(lg[r], s))'
  BY DEF ExecutedAnswered
<1>1. CASE s < lg[r].next /\ \A t \in 0 .. s : lg'[r].ent[t] = lg[r].ent[t]
  <2>1. s \in 0 .. s /\ \A t \in 0 .. s - 1 : t \in 0 .. s
    BY NumSlotsAssumption DEF Slots
  <2>2. LogIndex(lg'[r], s) = LogIndex(lg[r], s)
    BY <1>1, <2>1, LogIndexSame
  <2>3. Answered(r, s, LogIndex(lg[r], s))
    BY <1>1, <2>1 DEF ExecutedAnswered
  <2>. QED
    BY <2>2, <2>3 DEF Answered, NewAnswers
<1>. QED
  BY <1>1 DEF NewAnswers

\* Such a step preserves the invariant.
LEMMA SyncMoveInv == Inv /\ Inv' /\ Step /\ SyncInv /\ SyncMove => SyncInv'
<1>. SUFFICES ASSUME Inv, Inv', Step, SyncInv, SyncMove PROVE SyncInv'
  OBVIOUS
<1>0. Grows /\ replies \subseteq replies' /\ msgs \subseteq msgs'
  BY DEF Step, SyncMove, NewAnswers, NewRounds
<1>1. ExecutedAnswered'
  BY AnsweredStays DEF SyncInv, SyncMove
<1>2. RoundMessages'
  <2>. SUFFICES ASSUME NEW m \in msgs'
                PROVE  /\ m.type = "SyncPrepare" => Announces(m.n, m.hash)'
                       /\ m.type = "SyncReply" /\ ~m.unverified => Backed(m.n, m.src)'
    BY DEF RoundMessages
  <2>1. CASE m \in msgs
    <3>1. m.type \in {"SyncPrepare", "SyncReply"} => m.n \in Lengths
      BY <2>1 DEF Inv, TypeOK, Messages
    <3>. QED
      BY <1>0, <2>1, <3>1, BackedStays, AnnouncesStays DEF SyncInv, RoundMessages
  <2>. QED
    BY <2>1 DEF SyncMove, NewRounds
<1>3. RoundTransfers'
  <2>. SUFFICES ASSUME NEW r \in Replicas PROVE Towards(r, fetch[r])'
    BY DEF RoundTransfers
  <2>1. CASE fetch'[r] = fetch[r]
    <3>1. fetch[r].n \in Lengths
      BY DEF Inv, TypeOK, Transfer
    <3>. QED
      BY <1>0, <2>1, <3>1, BackedStays, AnnouncesStays DEF SyncInv, RoundTransfers, Towards
  <2>. QED
    BY <2>1 DEF SyncMove, NewTowards
<1>4. StableConsented'
  <2>. SUFFICES ASSUME NEW s \in Slots, s < lg'[Leader].stable, lg'[Leader].ent[s] = Received
                PROVE  Consented(s, LogIndex(lg[Leader], s))'
    BY DEF StableConsented
  <2>1. CASE s < lg[Leader].stable
    <3>1. lg[Leader].stable \in 0 .. NumSlots /\ lg[Leader].next \in 0 .. NumSlots
      BY Config DEF Inv, TypeOK, Logs
    <3>2. s < lg[Leader].next
      BY <2>1, <3>1, NumSlotsAssumption DEF SyncInv, RoundOpen, Slots
    <3>3. /\ lg[Leader].ent[s] = Received
          /\ LogIndex(lg'[Leader], s) = LogIndex(lg[Leader], s)
      BY <1>0, <3>2, LeaderKeeps
    <3>4. Consented(s, LogIndex(lg[Leader], s))
      BY <2>1, <3>3 DEF SyncInv, StableConsented
    <3>5. \A j : Consented(s, j) => Consented(s, j)'
      BY <1>0, ConsentedStays
    <3>6. PICK j : j = LogIndex(lg[Leader], s)
      OBVIOUS
    <3>7. Consented(s, j)'
      <4>1. Consented(s, j)
        BY <3>4, <3>6 DEF Consented, Voters
      <4>. QED
        BY <4>1, <3>5
    <3>8. LogIndex(lg'[Leader], s) = j
      BY <3>3, <3>6
    <3>. QED
      BY <3>7, <3>8 DEF Consented, Voters
  <2>. QED
    BY <2>1 DEF SyncMove, NewStable
<1>5. RoundOpen'
  BY DEF SyncMove, NewStable
<1>. QED
  BY <1>1, <1>2, <1>3, <1>4, <1>5 DEF SyncInv

-----------------------------------------------------------------------------
(* Executing, and handlers that have nothing to do with a round *)

\* A handler that leaves the logs alone and answers no client.
LEMMA NothingExecuted ==
  ASSUME Inv, lg' = lg, replies' = replies
  PROVE  NewAnswers /\ lg'[Leader].stable = lg[Leader].stable
<1>1. \A r \in Replicas, s \in Slots : s < lg'[r].next =>
        s < lg[r].next /\ \A t \in 0 .. s : lg'[r].ent[t] = lg[r].ent[t]
  OBVIOUS
<1>. QED
  BY <1>1 DEF NewAnswers

\* Execute replies to every bus it passes, with the log index it has.
LEMMA ExecuteAnswers ==
  ASSUME Inv, NEW r \in Replicas, NEW M \in Logs, Execute(r, M, View),
         M.next = lg[r].next, M.stable = lg[r].stable \/ r # Leader,
         \A t \in Slots : t < M.next => M.ent[t] = lg[r].ent[t]
  PROVE  NewAnswers /\ lg'[Leader].stable = lg[Leader].stable
<1>. DEFINE A == Advance(M)
<1>0. lg \in [Replicas -> Logs] /\ Leader \in Replicas
  BY Config DEF Inv, TypeOK
<1>1. A \in Logs /\ A.ent = M.ent /\ A.next >= M.next /\ A.stable = M.stable
  BY AdvanceFacts
<1>2. lg' = [lg EXCEPT ![r] = A] /\ replies' = replies \cup RepliesFor(r, A, M.next, A.next, View)
  BY DEF Execute
<1>. HIDE DEF A
<1>3. \A q \in Replicas : lg'[q] = IF q = r THEN A ELSE lg[q]
  BY <1>0, <1>2
<1>4. M.next \in 0 .. NumSlots /\ A.next \in 0 .. NumSlots
  BY <1>1 DEF Logs
<1>5. ASSUME NEW q \in Replicas, NEW s \in Slots, s < lg'[q].next, lg'[q].ent[s] = Received
      PROVE  \/ s < lg[q].next /\ \A t \in 0 .. s : lg'[q].ent[t] = lg[q].ent[t]
             \/ Answered(q, s, LogIndex(lg[q], s))'
  <2>1. CASE q # r
    BY <1>3, <1>5, <2>1
  <2>2. CASE q = r /\ s < M.next
    <3>1. \A t \in 0 .. s : t \in Slots /\ t < M.next
      BY <1>4, <2>2, NumSlotsAssumption DEF Slots
    <3>. QED
      BY <1>1, <1>3, <2>2, <3>1
  <2>3. CASE q = r /\ s >= M.next
    <3>1. s \in M.next .. A.next - 1 /\ A.ent[s] = Received
      BY <1>3, <1>4, <1>5, <2>3, NumSlotsAssumption DEF Slots
    <3>2. Reply(r, A, s, View) \in replies'
      BY <1>2, <3>1 DEF RepliesFor
    <3>3. /\ Reply(r, A, s, View).replica = r
          /\ Reply(r, A, s, View).slot = s
          /\ Reply(r, A, s, View).logIndex = LogIndex(A, s)
      BY DEF Reply
    <3>. QED
      BY <1>3, <2>3, <3>2, <3>3 DEF Answered
  <2>4. s < M.next \/ s >= M.next
    BY <1>4, NumSlotsAssumption DEF Slots
  <2>. QED
    BY <2>1, <2>2, <2>3, <2>4
<1>. QED
  BY <1>0, <1>1, <1>2, <1>3, <1>5 DEF NewAnswers

\* A bus recorded in the log of r.
LEMMA BusAnswers ==
  ASSUME Inv, NEW r \in Replicas, NEW s \in Slots, Execute(r, RecordBus(lg[r], s), View)
  PROVE  NewAnswers /\ lg'[Leader].stable = lg[Leader].stable
<1>. DEFINE M == RecordBus(lg[r], s)
<1>1. lg[r] \in Logs /\ lg[r].next \in 0 .. NumSlots
  BY DEF Inv, TypeOK, Logs
<1>2. /\ M \in Logs /\ M.next = lg[r].next /\ M.stable = lg[r].stable
      /\ \A t \in Slots : M.ent[t] = IF t = s /\ lg[r].ent[t] = Empty THEN Received ELSE lg[r].ent[t]
  BY <1>1, RecordBusFacts
<1>3. \A t \in Slots : t < M.next => lg[r].ent[t] # Empty
  BY <1>1, <1>2, NumSlotsAssumption DEF Inv, ExecutedPrefixFilled, Slots
<1>4. Execute(r, M, View)
  OBVIOUS
<1>. HIDE DEF M
<1>. QED
  BY <1>2, <1>3, <1>4, ExecuteAnswers

\* A no-op entered in the log of r.
LEMMA NoOpAnswers ==
  ASSUME Inv, NEW r \in Replicas, NEW s \in Slots, Execute(r, SetNoOp(lg[r], s), View)
  PROVE  NewAnswers /\ lg'[Leader].stable = lg[Leader].stable
<1>. DEFINE M == SetNoOp(lg[r], s)
<1>1. lg[r] \in Logs /\ lg[r].next \in 0 .. NumSlots
  BY DEF Inv, TypeOK, Logs
<1>2. /\ M \in Logs /\ M.next = lg[r].next /\ M.stable = lg[r].stable
      /\ \A t \in Slots : M.ent[t] = IF t = s /\ t >= lg[r].next THEN NoOp ELSE lg[r].ent[t]
  BY <1>1, SetNoOpFacts
<1>3. Execute(r, M, View)
  OBVIOUS
<1>. HIDE DEF M
<1>4. \A t \in Slots : t < M.next => M.ent[t] = lg[r].ent[t]
  BY <1>1, <1>2, NumSlotsAssumption DEF Slots
<1>. QED
  BY <1>2, <1>3, <1>4, ExecuteAnswers

\* A transfer applied in the log of a follower.
LEMMA EntriesAnswers ==
  ASSUME Inv, NEW r \in Replicas, r # Leader,
         Execute(r, ApplyEntries(lg[r], fetch[r].entries), View)
  PROVE  NewAnswers /\ lg'[Leader].stable = lg[Leader].stable
<1>. DEFINE e == fetch[r].entries
            M == ApplyEntries(lg[r], e)
<1>1. lg[r] \in Logs /\ lg[r].next \in 0 .. NumSlots
  BY DEF Inv, TypeOK, Logs
<1>2. DOMAIN e \in SUBSET Slots /\ e \in [DOMAIN e -> SlotStates]
  BY PartialLogFacts DEF Inv, TypeOK, Transfer
<1>3. Execute(r, M, View)
  OBVIOUS
<1>. HIDE DEF e
<1>4. /\ M \in Logs /\ M.next = lg[r].next
      /\ \A t \in Slots : t < lg[r].next /\ lg[r].ent[t] # Empty => M.ent[t] = lg[r].ent[t]
  BY <1>1, <1>2, ApplyEntriesFacts
<1>5. \A t \in Slots : t < M.next => lg[r].ent[t] # Empty
  BY <1>1, <1>4, NumSlotsAssumption DEF Inv, ExecutedPrefixFilled, Slots
<1>. HIDE DEF M
<1>. QED
  BY <1>3, <1>4, <1>5, ExecuteAnswers

\* Where the leader's commit point stays and no round opens.
LEMMA StableKept ==
  ASSUME Inv, Inv', SyncInv, Step, lg'[Leader].stable = lg[Leader].stable,
         sync'[Leader] \in {0, sync[Leader]}
  PROVE  NewStable
<1>1. /\ lg[Leader].next \in 0 .. NumSlots /\ lg'[Leader].next \in 0 .. NumSlots
      /\ lg[Leader].stable \in 0 .. NumSlots /\ sync[Leader] \in 0 .. NumSlots
  BY Config DEF Inv, TypeOK, Logs, Lengths
<1>2. lg[Leader].next <= lg'[Leader].next
  BY <1>1 DEF Step, Grows
<1>3. sync'[Leader] <= lg'[Leader].next
  BY <1>1, <1>2 DEF SyncInv, RoundOpen
<1>4. lg'[Leader].stable <= lg'[Leader].next
  BY <1>1, <1>2 DEF SyncInv, RoundOpen
<1>. QED
  BY <1>3, <1>4 DEF NewStable, RoundOpen

\* A handler that takes no part in a round.
LEMMA Aside ==
  ASSUME Inv, Inv', SyncInv, Step, NewAnswers, lg'[Leader].stable = lg[Leader].stable,
         sync' = sync, fetch' = fetch, msgs \subseteq msgs',
         \A m \in msgs' \ msgs : m.type \notin {"SyncPrepare", "SyncReply"}
  PROVE  SyncMove
<1>1. NewStable
  BY StableKept
<1>2. NewRounds
  BY DEF NewRounds
<1>. QED
  BY <1>1, <1>2 DEF SyncMove, NewTowards

\* A step that ends the transfer of r, or starts one that serves no round.
LEMMA TowardsNothing ==
  ASSUME Inv, NEW r \in Replicas, NEW f, fetch' = [fetch EXCEPT ![r] = f],
         f = fetch[r] \/ (f.kind = "plain" /\ f.stage # "answer")
  PROVE  NewTowards
<1>1. \A q \in Replicas : fetch'[q] = IF q = r THEN f ELSE fetch[q]
  BY DEF Inv, TypeOK
<1>. QED
  BY <1>1 DEF NewTowards, Towards

\* rewindToStableAndRefetch at a follower: execution only backs up.
LEMMA RewindAnswers ==
  ASSUME Inv, NEW r \in Replicas, r # Leader, NEW n \in Lengths,
         lg' = [lg EXCEPT ![r] = ClearAbove(RewindTo(lg[r], n), n)], replies' = replies
  PROVE  NewAnswers /\ lg'[Leader].stable = lg[Leader].stable
<1>. DEFINE M == ClearAbove(RewindTo(lg[r], n), n)
<1>0. lg \in [Replicas -> Logs] /\ Leader \in Replicas
  BY Config DEF Inv, TypeOK
<1>1. Filled(lg[r])
  BY DEF Inv, ExecutedPrefixFilled, Filled
<1>2. M \in Logs /\ M.next <= lg[r].next /\ \A t \in Slots : t < M.next => M.ent[t] = lg[r].ent[t]
  BY <1>0, <1>1, RewindFacts DEF Lengths
<1>. HIDE DEF M
<1>3. \A q \in Replicas : lg'[q] = IF q = r THEN M ELSE lg[q]
  BY <1>0 DEF M
<1>4. ASSUME NEW q \in Replicas, NEW s \in Slots, s < lg'[q].next
      PROVE  s < lg[q].next /\ \A t \in 0 .. s : lg'[q].ent[t] = lg[q].ent[t]
  <2>1. CASE q # r
    BY <1>3, <1>4, <2>1
  <2>2. CASE q = r
    <3>1. M.next \in 0 .. NumSlots /\ lg[r].next \in 0 .. NumSlots
      BY <1>0, <1>2 DEF Logs
    <3>2. s < lg[r].next /\ \A t \in 0 .. s : t \in Slots /\ t < M.next
      BY <1>2, <1>3, <1>4, <2>2, <3>1, NumSlotsAssumption DEF Slots
    <3>. QED
      BY <1>2, <1>3, <2>2, <3>2
  <2>. QED
    BY <2>1, <2>2
<1>. QED
  BY <1>0, <1>3, <1>4 DEF NewAnswers

\* setStableLocked at any replica: nothing is executed.
LEMMA StableAnswers ==
  ASSUME Inv, NEW r \in Replicas, NEW n \in Lengths,
         lg' = [lg EXCEPT ![r] = SetStable(lg[r], n)], replies' = replies
  PROVE  NewAnswers
<1>1. lg \in [Replicas -> Logs]
  BY DEF Inv, TypeOK
<1>2. SetStable(lg[r], n).ent = lg[r].ent /\ SetStable(lg[r], n).next = lg[r].next
  BY <1>1, SetStableFacts DEF Lengths
<1>3. \A q \in Replicas : lg'[q].ent = lg[q].ent /\ lg'[q].next = lg[q].next
  BY <1>1, <1>2
<1>. QED
  BY <1>3 DEF NewAnswers

\* Equal digests are equal slots with equal log indexes.
LEMMA EqualPrefix ==
  ASSUME NEW L, NEW K, NEW n \in Lengths, Prefix(L, n) = Prefix(K, n), NEW s \in Slots, s < n
  PROVE  L.ent[s] = K.ent[s] /\ LogIndex(L, s) = LogIndex(K, s)
<1>1. \A t \in 0 .. n - 1 : Prefix(L, n)[t] = L.ent[t] /\ Prefix(K, n)[t] = K.ent[t]
  BY DEF Prefix
<1>2. \A t \in 0 .. n - 1 : L.ent[t] = K.ent[t]
  BY <1>1
<1>3. s \in 0 .. n - 1 /\ \A t \in 0 .. s - 1 : t \in 0 .. n - 1
  BY NumSlotsAssumption DEF Lengths, Slots
<1>4. LogIndex(L, s) = LogIndex(K, s)
  BY <1>2, <1>3, LogIndexSame
<1>. QED
  BY <1>2, <1>3, <1>4

\* answerSyncPrepare at a follower that compared digests when it could.
LEMMA AnswerMove ==
  ASSUME Inv, Inv', SyncInv, Step, NEW r \in Replicas, r # Leader,
         NEW n \in Lengths, NEW verdict, NEW stable \in Lengths, NEW idle,
         AnswerSyncPrepare(r, n, verdict, stable, idle), replies' = replies, sync' = sync,
         verdict = Same => Backed(n, r), verdict \in Verdicts
  PROVE  SyncMove
<1>. DEFINE L == ClearAbove(RewindTo(lg[r], stable), stable)
            W == stable .. L.seen - 1
            refetch == Fetch("plain", Leader, stable, W, 0, NoEntries)
            after == IF idle THEN NoFetch ELSE fetch[r]
<1>0. view[r] = View /\ LeaderIndex(View) = Leader /\ Grows
  BY Views DEF Leader, Step
<1>1. after = fetch[r] \/ (after.kind = "plain" /\ after.stage # "answer")
  BY DEF NoFetch
<1>2. refetch.kind = "plain" /\ refetch.stage # "answer"
  BY DEF Fetch
<1>3. CASE verdict # Differs /\ Acknowledge(r, n, verdict = Unknown, after)
  <2>1. /\ lg' = lg
        /\ msgs' = msgs \cup {SyncReply(View, n, r, Leader, verdict = Unknown)}
        /\ fetch' = [fetch EXCEPT ![r] = after]
    BY <1>0, <1>3 DEF Acknowledge
  <2>2. NewAnswers /\ NewStable
    BY <2>1, NothingExecuted, StableKept
  <2>3. verdict # Unknown => Backed(n, r)'
    BY <1>0, <1>3, BackedStays DEF Verdicts
  <2>4. NewRounds
    <3>. DEFINE m == SyncReply(View, n, r, Leader, verdict = Unknown)
    <3>1. /\ m.type = "SyncReply" /\ m.n = n /\ m.src = r
          /\ m.unverified = (verdict = Unknown)
      BY ReplyFacts
    <3>. HIDE DEF m
    <3>2. msgs' = msgs \cup {m}
      BY <2>1 DEF m
    <3>3. ~m.unverified => Backed(m.n, m.src)'
      BY <2>3, <3>1
    <3>. QED
      BY <3>1, <3>2, <3>3 DEF NewRounds
  <2>. HIDE DEF after
  <2>5. NewTowards
    BY <1>1, <2>1, TowardsNothing
  <2>. QED
    BY <2>2, <2>4, <2>5 DEF SyncMove
<1>4. CASE RewindAndRefetch(r, stable, idle, after)
  <2>1. /\ msgs' = msgs
        /\ lg' = lg \/ lg' = [lg EXCEPT ![r] = L]
        /\ \E f \in {refetch, after} : fetch' = [fetch EXCEPT ![r] = f]
    BY <1>0, <1>4 DEF RewindAndRefetch
  <2>2. NewAnswers /\ NewStable
    BY <2>1, NothingExecuted, RewindAnswers, StableKept
  <2>3. NewRounds
    BY <2>1 DEF NewRounds
  <2>. HIDE DEF after, refetch, L
  <2>4. NewTowards
    BY <1>1, <1>2, <2>1, TowardsNothing
  <2>. QED
    BY <2>2, <2>3, <2>4 DEF SyncMove
<1>. QED
  BY <1>3, <1>4 DEF AnswerSyncPrepare

-----------------------------------------------------------------------------
(* The actions *)

\* Arrival of a bus, and the donor's side of a transfer.
LEMMA ReplicaMove ==
  ASSUME Inv, Inv', SyncInv, Step, UNCHANGED <<gaps, sync>>, NEW r \in Replicas,
         \/ \E s \in Slots : HandleBus(r, s)
         \/ FetchServe(r)
  PROVE  SyncMove
<1>1. CASE \E s \in Slots : HandleBus(r, s)
  <2>1. PICK s \in Slots : HandleBus(r, s)
    BY <1>1
  <2>2. Execute(r, RecordBus(lg[r], s), View)
    BY <2>1, Views DEF HandleBus
  <2>3. NewAnswers /\ lg'[Leader].stable = lg[Leader].stable
    BY <2>2, BusAnswers
  <2>. QED
    BY <2>1, <2>3, Aside DEF HandleBus
<1>2. CASE FetchServe(r)
  <2>1. lg' = lg /\ replies' = replies /\ msgs' = msgs
    BY <1>2 DEF FetchServe
  <2>2. NewAnswers /\ NewStable
    BY <2>1, NothingExecuted, StableKept
  <2>3. /\ \A q \in Replicas \ {r} : fetch'[q] = fetch[q]
        /\ fetch[r].stage = "sent" /\ fetch'[r].stage = "served"
        /\ fetch'[r].kind = fetch[r].kind
        /\ fetch'[r].n = fetch[r].n /\ fetch'[r].hash = fetch[r].hash
    <3>1. \E e : fetch' = [fetch EXCEPT ![r] = [fetch[r] EXCEPT !.stage = "served", !.entries = e]]
      BY <1>2 DEF FetchServe, Inv, TypeOK
    <3>2. PICK e : fetch' = [fetch EXCEPT ![r] = [fetch[r] EXCEPT !.stage = "served", !.entries = e]]
      BY <3>1
    <3>3. fetch[r] \in Transfer /\ fetch[r].stage = "sent"
      BY <1>2 DEF FetchServe, Inv, TypeOK
    <3>4. /\ fetch'[r] = [fetch[r] EXCEPT !.stage = "served", !.entries = e]
          /\ \A q \in Replicas \ {r} : fetch'[q] = fetch[q]
      BY <3>2 DEF Inv, TypeOK
    <3>. QED
      BY <3>3, <3>4 DEF Transfer
  <2>4. NewTowards
    BY <2>1, <2>3 DEF NewTowards, SyncInv, RoundTransfers, Towards, Announces
  <2>. QED
    BY <2>1, <2>2, <2>4 DEF SyncMove, NewRounds
<1>. QED
  BY <1>1, <1>2

\* Gap agreement sends no message of a round and starts no transfer.
LEMMA GapMove == ASSUME Inv, Inv', SyncInv, Step, GapNext, UNCHANGED sync PROVE SyncMove
<1>1. ASSUME NEW r \in Replicas, NEW s \in Slots,
             \/ DetectGap(r, s) \/ FollowerEndGap(r, s)
             \/ HandleGapRequestFollower(r, LeaderIndex(view[r]), s)
             \/ HandleGapRequestLeader(LeaderIndex(view[r]), r, s)
             \/ LeaderFilled(r, s)
      PROVE  SyncMove
  <2>1. lg' = lg /\ replies' = replies /\ fetch' = fetch
    BY <1>1 DEF DetectGap, FollowerEndGap, replicaVars, HandleGapRequestFollower,
                HandleGapRequestLeader, LeaderFilled
  <2>2. msgs \subseteq msgs' /\ \A m \in msgs' \ msgs : m.type \in {"GapReply", "GapCommit"}
    BY <1>1 DEF DetectGap, FollowerEndGap, replicaVars, HandleGapRequestFollower,
                HandleGapRequestLeader, LeaderFilled, Answers, GapReply, GapCommit
  <2>3. NewAnswers /\ lg'[Leader].stable = lg[Leader].stable
    BY <2>1, NothingExecuted
  <2>. QED
    BY <2>1, <2>2, <2>3, Aside
<1>2. ASSUME NEW l \in Replicas, NEW s \in Slots, LeaderNoOp(l, s)
      PROVE  SyncMove
  <2>1. /\ Execute(l, SetNoOp(lg[l], s), View)
        /\ fetch' = fetch
        /\ msgs \subseteq msgs' /\ \A m \in msgs' \ msgs : m.type = "GapCommit"
    BY <1>2, Views DEF LeaderNoOp, GapCommit
  <2>2. NewAnswers /\ lg'[Leader].stable = lg[Leader].stable
    BY <2>1, NoOpAnswers
  <2>. QED
    BY <2>1, <2>2, Aside
<1>3. ASSUME NEW m \in msgs, LeaderRecover(m.dst, m) \/ HandleGapReply(m.dst, m)
      PROVE  SyncMove
  <2>1. m.dst \in Replicas /\ m.slot \in Slots
    BY <1>3 DEF LeaderRecover, HandleGapReply, Inv, TypeOK, Messages
  <2>2. /\ Execute(m.dst, RecordBus(lg[m.dst], m.slot), View)
        /\ fetch' = fetch
        /\ msgs \subseteq msgs' /\ \A k \in msgs' \ msgs : k.type = "GapReply"
    BY <1>3, <2>1, Views DEF LeaderRecover, HandleGapReply, Answers, GapReply
  <2>3. NewAnswers /\ lg'[Leader].stable = lg[Leader].stable
    BY <2>1, <2>2, BusAnswers
  <2>. QED
    BY <2>2, <2>3, Aside
<1>4. ASSUME NEW m \in msgs, HandleGapCommit(m.dst, m)
      PROVE  SyncMove
  <2>1. m.dst \in Replicas /\ m.slot \in Slots
    BY <1>4 DEF HandleGapCommit, Inv, TypeOK, Messages
  <2>2. /\ fetch' = fetch /\ msgs \subseteq msgs'
        /\ \A k \in msgs' \ msgs : k.type = "GapCommitReply"
    BY <1>4 DEF HandleGapCommit, GapCommitReply
  <2>3. NewAnswers /\ lg'[Leader].stable = lg[Leader].stable
    <3>1. CASE lg[m.dst].ent[m.slot] = NoOp
      BY <1>4, <3>1, NothingExecuted DEF HandleGapCommit
    <3>2. CASE lg[m.dst].ent[m.slot] # NoOp
      BY <1>4, <2>1, <3>2, Views, NoOpAnswers DEF HandleGapCommit
    <3>. QED
      BY <3>1, <3>2
  <2>. QED
    BY <2>2, <2>3, Aside
<1>. QED
  BY <1>1, <1>2, <1>3, <1>4 DEF GapNext

(***************************************************************************)
(* maybeCommitSyncLocked: every replica that acknowledged the round has    *)
(* replied like the leader for its slots or was not able to compare, and   *)
(* the leader has replied, so the acknowledgements are a quorum's consent. *)
(***************************************************************************)
LEMMA CommitMove == ASSUME Inv, Inv', SyncInv, Step, NEW r \in Replicas, CommitSync(r) PROVE SyncMove
<1>. DEFINE n == sync[r]
            K == lg[Leader]
<1>0. Leader \in Replicas /\ lg \in [Replicas -> Logs] /\ QuorumSize \in Nat
  BY Config DEF Inv, TypeOK, QuorumSize
<1>1. r = Leader /\ view[r] = View /\ n \in Lengths
  BY Views DEF CommitSync, Inv, RoundsBacked, TypeOK
<1>2. /\ lg' = [lg EXCEPT ![r] = SetStable(K, n)] /\ replies' = replies /\ fetch' = fetch
      /\ sync' = [sync EXCEPT ![r] = 0]
      /\ msgs' = msgs \cup {SyncCommit(view[r], n, d) : d \in Replicas \ {r}}
  BY <1>1 DEF CommitSync
<1>3. /\ lg'[Leader].ent = K.ent /\ lg'[Leader].next = K.next
      /\ lg'[Leader].stable = Larger(K.stable, Smaller(n, K.next))
  BY <1>0, <1>1, <1>2, SetStableFacts DEF Lengths
<1>4. K.next \in 0 .. NumSlots /\ K.stable \in 0 .. NumSlots /\ n <= K.next /\ K.stable <= K.next
  BY <1>0, <1>1 DEF Logs, SyncInv, RoundOpen
<1>5. ASSUME NEW s \in Slots, s < n, K.ent[s] = Received
      PROVE  Consented(s, LogIndex(K, s))'
  <2>. DEFINE i == LogIndex(K, s)
              V == Voters(s, i) \cup Unverified(s)
  <2>1. s < K.next
    BY <1>1, <1>4, <1>5, NumSlotsAssumption DEF Lengths, Slots
  <2>2. Leader \in Voters(s, i)
    <3>1. Answered(Leader, s, i)
      BY <1>0, <1>5, <2>1 DEF SyncInv, ExecutedAnswered
    <3>. QED
      BY <3>1 DEF Answered, Voters
  <2>3. ASSUME NEW m \in msgs, m.type = "SyncReply", m.n = n
        PROVE  m.src \in V
    <3>1. CASE m.unverified
      BY <1>5, <2>3, <3>1 DEF Unverified
    <3>2. CASE ~m.unverified
      <4>1. Backed(m.n, m.src)
        BY <2>3, <3>2 DEF SyncInv, RoundMessages
      <4>2. Answered(m.src, s, i)
        BY <1>5, <2>3, <4>1 DEF Backed
      <4>. QED
        BY <4>2 DEF Answered, Voters
    <3>. QED
      BY <3>1, <3>2
  <2>4. SyncAcks(r) \in SUBSET V
    BY <1>1, <2>2, <2>3 DEF SyncAcks
  <2>5. IsFiniteSet(V)
    BY ConsentFinite
  <2>. HIDE DEF V
  <2>7. /\ Cardinality(SyncAcks(r)) <= Cardinality(V)
        /\ Cardinality(SyncAcks(r)) \in Nat /\ Cardinality(V) \in Nat
    BY <2>4, <2>5, FS_Subset, FS_CardinalityType
  <2>8. Cardinality(V) >= QuorumSize
    BY <1>0, <2>7 DEF CommitSync
  <2>9. Consented(s, i)
    BY <2>2, <2>8 DEF Consented, V
  <2>10. replies \subseteq replies' /\ msgs \subseteq msgs'
    BY <1>2
  <2>11. \A j : Consented(s, j) => Consented(s, j)'
    BY <2>10, ConsentedStays
  <2>12. LogIndex(lg'[Leader], s) = i
    BY <1>3, LogIndexSame
  <2>. QED
    BY <2>9, <2>11, <2>12 DEF Consented, Voters, Unverified
<1>6. NewStable
  <2>1. RoundOpen'
    BY <1>0, <1>1, <1>2, <1>3, <1>4 DEF RoundOpen, Inv, TypeOK, Larger, Smaller, Lengths
  <2>2. ASSUME NEW s \in Slots, s < lg'[Leader].stable, lg'[Leader].ent[s] = Received
        PROVE  s < K.stable \/ Consented(s, LogIndex(lg[Leader], s))'
    <3>1. s < K.stable \/ s < n
      BY <1>1, <1>3, <1>4, <2>2, NumSlotsAssumption DEF Larger, Smaller, Lengths, Slots
    <3>2. LogIndex(lg'[Leader], s) = LogIndex(K, s)
      BY <1>3, LogIndexSame
    <3>. QED
      BY <1>3, <1>5, <2>2, <3>1
  <2>. QED
    BY <2>1, <2>2 DEF NewStable
<1>7. NewAnswers
  BY <1>1, <1>2, StableAnswers
<1>8. NewRounds
  BY <1>2 DEF NewRounds, SyncCommit
<1>. QED
  BY <1>2, <1>6, <1>7, <1>8 DEF SyncMove, NewTowards

\* Synchronisation rounds and the transfers of lagging followers.
LEMMA RoundMove == ASSUME Inv, Inv', SyncInv, Step, SyncNext, UNCHANGED gaps PROVE SyncMove
<1>. USE Config
<1>0. Grows
  BY DEF Step
<1>1. ASSUME NEW r \in Replicas, SyncOnce(r)
      PROVE  SyncMove
  <2>1. r = Leader /\ view[r] = View /\ lg[r].next \in 0 .. NumSlots
    BY <1>1, Views DEF SyncOnce, Inv, TypeOK, Logs
  <2>2. /\ lg' = lg /\ replies' = replies /\ fetch' = fetch
        /\ sync'[Leader] = lg[Leader].next
        /\ msgs' = msgs \cup {SyncPrepare(View, lg[r].next, Prefix(lg[r], lg[r].next), d) :
                                d \in Replicas \ {r}}
    BY <1>1, <2>1 DEF SyncOnce, Inv, TypeOK
  <2>3. NewRounds
    BY <2>1, <2>2 DEF NewRounds, SyncPrepare, Announces
  <2>4. NewStable
    BY <2>1, <2>2 DEF NewStable, RoundOpen, SyncInv
  <2>. QED
    BY <2>2, <2>3, <2>4, NothingExecuted DEF SyncMove, NewTowards
<1>2. ASSUME NEW r \in Replicas, CommitSync(r)
      PROVE  SyncMove
  BY <1>2, CommitMove
<1>3. ASSUME NEW m \in msgs, HandleSyncPrepareBehind(m.dst, m)
      PROVE  SyncMove
  <2>. DEFINE r == m.dst
  <2>1. r \in Replicas /\ m.n \in Lengths /\ fetch[r] \in Transfer
    BY <1>3 DEF HandleSyncPrepareBehind, Inv, TypeOK, Messages
  <2>2. lg' = lg /\ replies' = replies /\ msgs' = msgs /\ sync' = sync
    BY <1>3 DEF HandleSyncPrepareBehind
  <2>3. Announces(m.n, m.hash)'
    BY <1>3, <2>2 DEF HandleSyncPrepareBehind, SyncInv, RoundMessages, Announces
  <2>4. /\ \A q \in Replicas \ {r} : fetch'[q] = fetch[q]
        /\ fetch'[r].n = m.n /\ fetch'[r].hash = m.hash /\ fetch'[r].stage # "answer"
    <3>. DEFINE f == CatchUp(r, lg[r], m.n, m.hash)
                g == [fetch[r] EXCEPT !.n = m.n, !.hash = m.hash]
    <3>1. \/ fetch' = [fetch EXCEPT ![r] = f]
          \/ fetch' = [fetch EXCEPT ![r] = g] /\ fetch[r].stage \in {"sent", "served"}
      BY <1>3, <2>1 DEF HandleSyncPrepareBehind, Inv, TypeOK
    <3>2. f.n = m.n /\ f.hash = m.hash /\ f.stage # "answer"
      BY DEF CatchUp, Fetch
    <3>3. g.n = m.n /\ g.hash = m.hash /\ g.stage = fetch[r].stage
      BY <2>1 DEF Transfer
    <3>. HIDE DEF f, g
    <3>. QED
      BY <2>1, <3>1, <3>2, <3>3 DEF Inv, TypeOK
  <2>5. NewTowards
    BY <2>3, <2>4 DEF NewTowards, Towards
  <2>. QED
    BY <2>2, <2>5, NothingExecuted, StableKept DEF SyncMove, NewRounds
<1>4. ASSUME NEW m \in msgs, HandleSyncPrepareReady(m.dst, m)
      PROVE  SyncMove
  <2>. DEFINE r == m.dst
  <2>1. r \in Replicas /\ r # Leader /\ m.n \in Lengths
    BY <1>4 DEF HandleSyncPrepareReady, Inv, TypeOK, Messages, MessagesBacked
  <2>2. lg[r].stable \in Lengths /\ lg[r].next \in 0 .. NumSlots /\ lg[r].next >= m.n
    BY <1>4, <2>1 DEF HandleSyncPrepareReady, Inv, TypeOK, Logs, Lengths
  <2>3. Prefix(lg[r], m.n) = m.hash => Backed(m.n, r)
    <3>. SUFFICES ASSUME Prefix(lg[r], m.n) = m.hash PROVE Backed(m.n, r)
      OBVIOUS
    <3>1. m.n <= lg[Leader].next /\ Prefix(lg[r], m.n) = Prefix(lg[Leader], m.n)
      BY <1>4 DEF HandleSyncPrepareReady, SyncInv, RoundMessages, Announces
    <3>2. ASSUME NEW s \in Slots, s < m.n, lg[Leader].ent[s] = Received
          PROVE  Answered(r, s, LogIndex(lg[Leader], s))
      <4>1. s < lg[r].next
        BY <2>1, <2>2, <3>2, NumSlotsAssumption DEF Lengths, Slots
      <4>2. lg[r].ent[s] = Received /\ LogIndex(lg[r], s) = LogIndex(lg[Leader], s)
        BY <2>1, <3>1, <3>2, EqualPrefix
      <4>3. Answered(r, s, LogIndex(lg[r], s))
        BY <2>1, <4>1, <4>2 DEF SyncInv, ExecutedAnswered
      <4>. QED
        BY <4>2, <4>3
    <3>. QED
      BY <3>1, <3>2 DEF Backed
  <2>4. PICK verdict \in Verdicts :
          /\ AnswerSyncPrepare(r, m.n, verdict, lg[r].stable, Idle(r))
          /\ verdict = Same => Prefix(lg[r], m.n) = m.hash
    BY <1>4, CompareType, SameMeans DEF HandleSyncPrepareReady
  <2>. QED
    BY <1>4, <2>1, <2>2, <2>3, <2>4, AnswerMove DEF HandleSyncPrepareReady
<1>5. ASSUME NEW m \in msgs, HandleSyncCommit(m.dst, m)
      PROVE  SyncMove
  <2>1. m.dst \in Replicas /\ m.n \in Lengths /\ m.dst # Leader
    BY <1>5 DEF HandleSyncCommit, Inv, TypeOK, Messages, MessagesBacked
  <2>2. lg' = [lg EXCEPT ![m.dst] = SetStable(lg[m.dst], m.n)] /\ replies' = replies
    BY <1>5 DEF HandleSyncCommit
  <2>3. lg'[Leader] = lg[Leader]
    BY <2>1, <2>2 DEF Inv, TypeOK
  <2>4. NewAnswers
    BY <2>1, <2>2, StableAnswers
  <2>. QED
    BY <1>5, <2>3, <2>4, Aside DEF HandleSyncCommit
<1>6. ASSUME NEW r \in Replicas, SyncFetchDone(r)
      PROVE  SyncMove
  <2>0. PICK n, hash : n = fetch[r].n /\ hash = fetch[r].hash
    OBVIOUS
  <2>. DEFINE from == fetch[r].from
              L == lg'[r]
              c == CatchUp(r, L, n, hash)
  <2>1. r # Leader /\ view[r] = View
    BY <1>6, Views DEF SyncFetchDone, FetchDone, Inv, TransfersBacked
  <2>2. Execute(r, ApplyEntries(lg[r], fetch[r].entries), View)
    BY <1>6, <2>1 DEF SyncFetchDone
  <2>3. NewAnswers /\ NewStable
    BY <1>6, <2>1, <2>2, EntriesAnswers, StableKept DEF SyncFetchDone
  <2>4. n \in Lengths /\ from \in 0 .. NumSlots /\ L.next \in 0 .. NumSlots
    BY <2>0 DEF Inv, TypeOK, Transfer, Logs, Lengths
  <2>5. Announces(n, hash)'
    <3>1. Announces(n, hash)
      BY <1>6, <2>0 DEF SyncFetchDone, FetchDone, SyncInv, RoundTransfers, Towards
    <3>. QED
      BY <1>0, <2>4, <3>1, AnnouncesStays
  <2>6. n <= L.next /\ Prefix(L, n) = hash => Backed(n, r)'
    <3>. SUFFICES ASSUME n <= L.next, Prefix(L, n) = hash PROVE Backed(n, r)'
      OBVIOUS
    <3>1. n <= lg'[Leader].next /\ Prefix(L, n) = Prefix(lg'[Leader], n)
      BY <2>5 DEF Announces
    <3>2. ExecutedAnswered'
      BY <2>3, AnsweredStays DEF SyncInv
    <3>3. ASSUME NEW s \in Slots, s < n, lg'[Leader].ent[s] = Received
          PROVE  Answered(r, s, LogIndex(lg[Leader], s))'
      <4>1. s < L.next
        BY <2>4, <3>3, NumSlotsAssumption DEF Lengths, Slots
      <4>2. L.ent[s] = Received /\ LogIndex(L, s) = LogIndex(lg'[Leader], s)
        BY <2>4, <3>1, <3>3, EqualPrefix
      <4>3. Answered(r, s, LogIndex(lg[r], s))'
        BY <3>2, <4>1, <4>2 DEF ExecutedAnswered
      <4>. QED
        BY <4>2, <4>3 DEF Answered
    <3>. QED
      BY <3>1, <3>3 DEF Backed
  <2>. DEFINE Outcome(v) == CASE L.next < n /\ L.next <= from -> NoFetch
                              [] L.next < n /\ L.next > from -> c
                              [] OTHER -> Answer(n, v, L.stable)
  <2>70. PICK verdict \in Compare(L, n, hash) : fetch' = [fetch EXCEPT ![r] = Outcome(verdict)]
    BY <1>6, <2>0, Zenon DEF SyncFetchDone
  <2>. DEFINE a == Answer(n, verdict, L.stable)
  <2>7. fetch' = [fetch EXCEPT ![r] =
           CASE L.next < n /\ L.next <= from -> NoFetch
             [] L.next < n /\ L.next > from -> c
             [] OTHER -> a]
    BY <2>70
  <2>8. /\ c.n = n /\ c.hash = hash /\ c.stage # "answer"
        /\ a.n = n /\ a.stage = "answer" /\ (a.verdict = Same => Prefix(L, n) = hash)
    BY <2>70, SameMeans DEF CatchUp, Fetch, Answer
  <2>9. NoFetch.kind = "plain" /\ NoFetch.stage = "idle"
    BY DEF NoFetch
  <2>. HIDE DEF a, c
  <2>10. \/ fetch'[r] = NoFetch
         \/ fetch'[r] = c
         \/ fetch'[r] = a /\ n <= L.next
    <3>. DEFINE p == L.next < n
                q == L.next <= from
    <3>1. ((L.next > from) <=> ~q) /\ (~p => n <= L.next)
      BY <2>4, NumSlotsAssumption DEF Lengths
    <3>2. fetch'[r] = CASE p /\ q -> NoFetch [] p /\ L.next > from -> c [] OTHER -> a
      BY <2>7, Zenon DEF Inv, TypeOK
    <3>3. CASE p /\ q
      BY <3>1, <3>2, <3>3, Zenon
    <3>4. CASE p /\ ~q
      BY <3>1, <3>2, <3>4, Zenon
    <3>5. CASE ~p
      BY <3>1, <3>2, <3>5, Zenon
    <3>. QED
      BY <3>3, <3>4, <3>5
  <2>11. \A q \in Replicas \ {r} : fetch'[q] = fetch[q]
    BY <2>7 DEF Inv, TypeOK
  <2>12. Towards(r, fetch[r])'
    BY <2>5, <2>6, <2>8, <2>9, <2>10 DEF Towards
  <2>. QED
    BY <1>6, <2>3, <2>11, <2>12 DEF SyncFetchDone, SyncMove, NewTowards, NewRounds
<1>7. ASSUME NEW r \in Replicas, SyncFetchAnswer(r)
      PROVE  SyncMove
  <2>1. r # Leader
    BY <1>7 DEF SyncFetchAnswer, Inv, TransfersBacked
  <2>2. fetch[r].n \in Lengths /\ fetch[r].stable \in Lengths /\ fetch[r].verdict \in Verdicts
    BY DEF Inv, TypeOK, Transfer
  <2>3. fetch[r].verdict = Same => Backed(fetch[r].n, r)
    BY <1>7 DEF SyncFetchAnswer, SyncInv, RoundTransfers, Towards
  <2>. QED
    BY <1>7, <2>1, <2>2, <2>3, AnswerMove DEF SyncFetchAnswer
<1>8. ASSUME NEW r \in Replicas, SyncFetchFail(r)
      PROVE  SyncMove
  <2>1. NewTowards
    BY <1>8, TowardsNothing DEF SyncFetchFail, NoFetch
  <2>. QED
    BY <1>8, <2>1, NothingExecuted, StableKept DEF SyncFetchFail, SyncMove, NewRounds
<1>9. ASSUME NEW r \in Replicas, PlainFetchEnd(r)
      PROVE  SyncMove
  <2>1. r # Leader /\ view[r] = View
    BY <1>9, Views DEF PlainFetchEnd, FetchDone, FetchLost, Inv, TransfersBacked
  <2>2. NewAnswers /\ lg'[Leader].stable = lg[Leader].stable
    <3>1. CASE FetchDone(r, "plain") /\ Execute(r, ApplyEntries(lg[r], fetch[r].entries), view[r])
      BY <2>1, <3>1, EntriesAnswers
    <3>2. CASE UNCHANGED <<lg, replies>>
      BY <3>2, NothingExecuted
    <3>. QED
      BY <1>9, <3>1, <3>2 DEF PlainFetchEnd
  <2>3. NewTowards
    BY <1>9, TowardsNothing DEF PlainFetchEnd, NoFetch
  <2>. QED
    BY <1>9, <2>2, <2>3, StableKept DEF PlainFetchEnd, SyncMove, NewRounds
<1>. QED
  BY <1>1, <1>2, <1>3, <1>4, <1>5, <1>6, <1>7, <1>8, <1>9 DEF SyncNext

-----------------------------------------------------------------------------
(* The theorem *)

\* Every replica starts with nothing executed and nothing replied.
LEMMA InitSync == Init => SyncInv
<1>. SUFFICES ASSUME Init PROVE SyncInv
  OBVIOUS
<1>1. /\ \A r \in Replicas : lg[r] = EmptyLog /\ fetch[r] = NoFetch /\ sync[r] = 0
      /\ msgs = {} /\ Leader \in Replicas
  BY Config DEF Init, ReplicaInit, SyncInit
<1>2. EmptyLog.next = 0 /\ EmptyLog.stable = 0
  BY DEF EmptyLog
<1>3. \A s \in Slots : ~ (s < 0)
  BY NumSlotsAssumption DEF Slots
<1>4. ExecutedAnswered /\ StableConsented /\ RoundOpen
  BY <1>1, <1>2, <1>3 DEF ExecutedAnswered, StableConsented, RoundOpen
<1>5. RoundMessages /\ RoundTransfers
  BY <1>1 DEF RoundMessages, RoundTransfers, Towards, NoFetch
<1>. QED
  BY <1>4, <1>5 DEF SyncInv

\* Every handler makes such a step, or changes nothing.
LEMMA NextMove == ASSUME Inv, Inv', SyncInv, Step, Next PROVE SyncMove
BY ReplicaMove, GapMove, RoundMove DEF Next

(***************************************************************************)
(* The commit point is safe: below the leader's, every request has been    *)
(* answered by the leader, and by a quorum with the same log index, where  *)
(* a replica that acknowledged a round over it unverified counts as if it  *)
(* had answered.                                                           *)
(***************************************************************************)
THEOREM SyncIsSafe == Spec => []SyncSafety
<1>1. Inv /\ Inv' /\ SyncInv /\ [Next]_vars => SyncInv'
  <2>. SUFFICES ASSUME Inv, Inv', SyncInv, [Next]_vars PROVE SyncInv'
    OBVIOUS
  <2>1. CASE Next /\ Step
    BY <2>1, NextMove, SyncMoveInv
  <2>2. CASE UNCHANGED vars
    BY <2>2 DEF vars, SyncInv, ExecutedAnswered, Answered, RoundMessages, Announces, Backed,
                RoundTransfers, Towards, RoundOpen, StableConsented, Consented, Voters, Unverified
  <2>. QED
    BY <2>1, <2>2, NextStep
<1>2. Inv /\ SyncInv => SyncSafety
  <2>. SUFFICES ASSUME Inv, SyncInv, NEW s \in 0 .. lg[Leader].stable - 1,
                       lg[Leader].ent[s] = Received
                PROVE  Consented(s, LogIndex(lg[Leader], s))
    BY DEF SyncSafety, Consented
  <2>1. lg[Leader].stable \in 0 .. NumSlots
    BY Config DEF Inv, TypeOK, Logs
  <2>2. s \in Slots /\ s < lg[Leader].stable
    BY <2>1, NumSlotsAssumption DEF Slots
  <2>. QED
    BY <2>2 DEF SyncInv, StableConsented
<1>. QED
  BY Invariance, InitSync, <1>1, <1>2, PTL DEF Spec
=============================================================================
