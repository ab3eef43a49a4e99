------------------------------ MODULE PaxosBus ------------------------------
(***************************************************************************)
(* The whole group over several views: normal operation (BusGap, BusSync)  *)
(* and the view change that replaces its leader.                           *)
(*                                                                         *)
(* A replica that suspects the leader moves to the next view, stops taking *)
(* buses and asks everyone to follow.  With a quorum of requests it        *)
(* reports its log to the new leader.  The new leader merges a quorum of   *)
(* reports, fetches what it lacks, installs the merged log, sends it in a  *)
(* StartView, and only then leaves the view-change status.  A replica that *)
(* gets the StartView rewinds what the merge contradicts, fetches the rest *)
(* from the leader and becomes normal again.                               *)
(*                                                                         *)
(* A crashed replica is one that takes no more steps.  The queue of        *)
(* StartViews, generations, and the identity of vcState and watchdog       *)
(* objects only cancel work of an older view; here everything an older     *)
(* view left is cleared in the step that leaves it.                        *)
(***************************************************************************)
EXTENDS BusGap, BusSync

CONSTANTS
  Timeouts,    \* bound: <<r, v>> if replica r's timers may fire in view v
  Hears,       \* bound: <<r, v>> if messages that start view v can reach replica r
  MergeFails   \* bound: whether all attempts to fetch a merged slot may fail

ASSUME TimeoutsAssumption == Timeouts \subseteq (0 .. N - 1) \X Nat
ASSUME HearsAssumption == Hears \subseteq (0 .. N - 1) \X Nat
ASSUME MergeFailsAssumption == MergeFails \in BOOLEAN

(***************************************************************************)
(* The slots of the model fit in the hash ring, so no cell of it is ever   *)
(* overwritten and the rewinds of this module find the state they go back  *)
(* to.  Outside the window prepareMergedRequestSlotLocked,                 *)
(* prepareRecoveryLocked and finishRecoveryIfComplete give up, and         *)
(* installCanonicalViewLocked goes on without having rewound.              *)
(***************************************************************************)
ASSUME WindowAssumption == NumSlots <= RingSize

VARIABLES
  lastNormalView,  \* lastNormalView[r]
  source,          \* source[r]: startViewSource, the view whose logs were merged
  plan,            \* plan[r]: the merge a new leader works on
  recovery         \* recovery[r]: the StartView a replica installs

changeVars == <<lastNormalView, source, plan, recovery>>
vars == <<view, status, lg, inflight, fetch, msgs, replies, gaps, sync,
          lastNormalView, source, plan, recovery>>

NoPlan == [phase |-> "none"]
NoRecovery == [view |-> 0]

ViewChangeRequest(v, src) == [type |-> "ViewChangeRequest", view |-> v, src |-> src, dst |-> src]

Highest(S) == CHOOSE n \in S : \A k \in S : k <= n

-----------------------------------------------------------------------------
(* Leaving a view *)

(***************************************************************************)
(* beginViewChangeLocked and publishViewChange, for a higher view: every   *)
(* activity of the old one is cancelled and the request is broadcast.      *)
(***************************************************************************)
BeginViewChange(r, v) ==
  /\ view' = [view EXCEPT ![r] = v]
  /\ status' = [status EXCEPT ![r] = StatusViewChange]
  /\ fetch' = [fetch EXCEPT ![r] = NoFetch]
  /\ gaps' = [gaps EXCEPT ![r] = {}]
  /\ sync' = [sync EXCEPT ![r] = 0]
  /\ plan' = [plan EXCEPT ![r] = NoPlan]
  /\ recovery' = [recovery EXCEPT ![r] = NoRecovery]
  /\ msgs' = msgs \cup {ViewChangeRequest(v, r)}
  /\ UNCHANGED <<lg, inflight, replies, lastNormalView, source>>

\* suspectLeaderIfTimedOut: heartbeats may be late at any time.
SuspectLeader(r) ==
  /\ status[r] = StatusNormal /\ ~IsLeader(r)
  /\ <<r, view[r]>> \in Timeouts
  /\ BeginViewChange(r, view[r] + 1)

\* expireViewChangeWatchdog, and the deadline of driveViewChange.
ViewChangeTimeout(r) ==
  /\ status[r] = StatusViewChange
  /\ <<r, view[r]>> \in Timeouts
  /\ BeginViewChange(r, view[r] + 1)

\* handleViewChangeRequest, handleViewChange: a message of a higher view.
JoinViewChange(r, m) ==
  /\ m.type = "ViewChangeRequest"
  /\ m.view > view[r] /\ <<r, m.view>> \in Hears
  /\ BeginViewChange(r, m.view)

\* r.vc is set: the replica takes part in a view change and has no StartView yet.
Changing(r) == status[r] = StatusViewChange /\ recovery[r] = NoRecovery

\* Who has asked for view v, and the reports to its leader.
Requests(v) == {m.src : m \in {m \in msgs : m.type = "ViewChangeRequest" /\ m.view = v}}
Reports(v) == {m \in msgs : m.type = "ViewChange" /\ m.view = v}

\* buildViewChangeLocked: what the report says of the slots from the commit point on.
Report(r) ==
  [type |-> "ViewChange", view |-> view[r], src |-> r, dst |-> LeaderIndex(view[r]),
   lastNormalView |-> lastNormalView[r], next |-> lg[r].next, stable |-> lg[r].stable,
   ent |-> [s \in Slots |-> IF s < lg[r].stable THEN Empty ELSE lg[r].ent[s]]]

(***************************************************************************)
(* handleViewChangeRequest: the quorum-th request makes the replica send   *)
(* its report, once per view.                                              *)
(***************************************************************************)
SendReport(r) ==
  /\ Changing(r)
  /\ Cardinality(Requests(view[r])) >= QuorumSize
  /\ \A m \in Reports(view[r]) : m.src # r
  /\ msgs' = msgs \cup {Report(r)}
  /\ UNCHANGED <<view, status, lg, inflight, fetch, replies, gaps, sync, changeVars>>

-----------------------------------------------------------------------------
(* The merge *)

\* The length that covers every slot report m calls filled (HasMax, MaxSlotFilled).
FilledTop(m) == Top(0, {s \in Slots : m.ent[s] # Empty})

\* Mutant of MergeSuffix: a bus must be in every report.
MergeSuffixCommon(R, catchUp) ==
  LET max == Highest({FilledTop(m) : m \in R})
      stable == Highest({m.stable : m \in R})
  IN [phase |-> "fetch", source |-> Highest({m.lastNormalView : m \in R}),
      stable |-> stable, max |-> max, catchUp |-> catchUp, stuck |-> {},
      donors |-> [s \in stable .. max - 1 |->
                    IF \A m \in R : m.ent[s] = Received THEN {m.src : m \in R} ELSE {}]]

(***************************************************************************)
(* mergeSuffix over the reports R: only those of the highest last normal   *)
(* view count.  A slot above the highest commit point becomes a bus if any *)
(* of them has the bus, whatever the others say, and a no-op otherwise.    *)
(* The prefix is fetched from one that has executed furthest.              *)
(***************************************************************************)
MergeSuffix(R, catchUp) ==
  LET best == Highest({m.lastNormalView : m \in R})
      survivors == {m \in R : m.lastNormalView = best}
      stable == Highest({m.stable : m \in survivors})
      max == Highest({FilledTop(m) : m \in survivors})
      donors == [s \in stable .. max - 1 |->
                   {m.src : m \in {m \in survivors : m.ent[s] = Received}}]
  IN [phase |-> "fetch", source |-> best, stable |-> stable, max |-> max,
      donors |-> donors, catchUp |-> catchUp,
      stuck |-> {}]

\* mergeSuffix: the reporters that have executed furthest, to fetch the prefix from.
Furthest(R) ==
  LET best == Highest({m.lastNormalView : m \in R})
      survivors == {m \in R : m.lastNormalView = best}
  IN {m.src : m \in {m \in survivors : \A k \in survivors : k.next <= m.next}}

\* driveViewChange merges the first quorum of reports to arrive.
Merge(l) ==
  /\ Changing(l) /\ IsLeader(l) /\ plan[l] = NoPlan
  /\ \E Q \in SUBSET Reports(view[l]) :
       /\ Cardinality(Q) = QuorumSize
       /\ \E c \in Furthest(Q) : plan' = [plan EXCEPT ![l] = MergeSuffix(Q, c)]
  /\ UNCHANGED <<view, status, lg, inflight, fetch, msgs, replies, gaps, sync,
                 lastNormalView, source, recovery>>

Merging(l) == Changing(l) /\ plan[l].phase = "fetch"

\* committedPrefixMissingLocked: slots below the merged commit point to fetch.
PrefixMissing(l) == Missing(lg[l], lg[l].next, plan[l].stable)

\* fetchMergedState, committed prefix: from the furthest reporter, until complete.
FetchPrefix(l) ==
  /\ Merging(l) /\ Idle(l) /\ MayTransfer(l)
  /\ PrefixMissing(l) # {}
  /\ plan[l].catchUp # l
  /\ fetch' = [fetch EXCEPT ![l] =
                 Fetch("prefix", plan[l].catchUp, lg[l].next, PrefixMissing(l), 0, NoEntries)]
  /\ UNCHANGED <<view, status, lg, inflight, msgs, replies, gaps, sync, changeVars>>

\* The slots that are to be buses, are not yet, and have not been given up.
Wanted(l) == {s \in DOMAIN plan[l].donors :
                /\ plan[l].donors[s] # {} /\ s \notin plan[l].stuck
                /\ lg[l].ent[s] # Received}

(***************************************************************************)
(* fetchMergedState with prepareMergedRequestSlotLocked: the leader lacks  *)
(* the bus of a slot, in slot order, or has a no-op there, which it takes  *)
(* back.  The bus is asked of one donor; asking the others and asking      *)
(* again are further choices of the donor.                                 *)
(***************************************************************************)
FetchSlot(l) ==
  /\ Merging(l) /\ Idle(l) /\ MayTransfer(l) /\ PrefixMissing(l) = {}
  /\ \E s \in Wanted(l) :
       /\ \A t \in Wanted(l) : s <= t
       /\ lg' = [lg EXCEPT ![l] = ClearSlots(RewindTo(@, s), {s})]
       /\ \E d \in plan[l].donors[s] \ {l} :
            fetch' = [fetch EXCEPT ![l] = Fetch("slot", d, s, {s}, 0, NoEntries)]
  /\ UNCHANGED <<view, status, inflight, msgs, replies, gaps, sync, changeVars>>

\* A transfer of the merge or of a StartView ends well; nothing is executed yet.
ChangeFetchDone(r) ==
  /\ FetchDone(r, "prefix") \/ FetchDone(r, "slot") \/ FetchDone(r, "install")
  /\ lg' = [lg EXCEPT ![r] = ApplyEntries(@, fetch[r].entries)]
  /\ fetch' = [fetch EXCEPT ![r] = NoFetch]
  /\ UNCHANGED <<view, status, inflight, msgs, replies, gaps, sync, changeVars>>

\* It fails: the prefix and a StartView are tried again, a merged slot may be given up.
ChangeFetchFail(r) ==
  /\ \/ FetchLost(r, "prefix") /\ UNCHANGED plan
     \/ FetchLost(r, "install") /\ UNCHANGED plan
     \/ /\ FetchLost(r, "slot") /\ MergeFails
        /\ plan' = [plan EXCEPT ![r].stuck = @ \cup fetch[r].slots]
  /\ fetch' = [fetch EXCEPT ![r] = NoFetch]
  /\ UNCHANGED <<view, status, lg, inflight, msgs, replies, gaps, sync,
                 lastNormalView, source, recovery>>

-----------------------------------------------------------------------------
(* Installing at the new leader *)

\* A StartView, from what initialStartViewMsgLocked or startViewMsg put in it.
StartView(v, src, dst, from, L, stable, max, noops) ==
  [type |-> "StartView", view |-> v, src |-> src, dst |-> dst, source |-> from,
   stable |-> stable, max |-> max, noops |-> noops, hash |-> Prefix(L, stable)]

(***************************************************************************)
(* installCanonicalViewLocked for the merged log (max, noops):             *)
(* back to the lowest executed bus that is to be a no-op, drop no-ops      *)
(* beyond the end, enter the merged ones.  Nothing here looks at the       *)
(* replica's own commit point: the rewind may go below it, and rewrite it. *)
(***************************************************************************)
Canonical(L, max, noops) ==
  LET target == Highest({n \in 0 .. Smaller(L.next, max) :
                           \A s \in noops : s < n => L.ent[s] # Received})
      M == RewindTo(L, target)
      outside == {s \in Slots : s >= max /\ M.ent[s] = NoOp}
  IN SetNoOps(RecomputeMax(ClearSlots(M, outside)), noops)

(***************************************************************************)
(* driveViewChange's last two critical sections.  The first installs the   *)
(* merge, closing what could not be fetched as no-ops, executes it,        *)
(* repeats the replies above the old commit point in the new view and      *)
(* sends the StartViews, still in the view-change status.                  *)
(***************************************************************************)
InstallMerge(l) ==
  /\ Merging(l) /\ Idle(l) /\ PrefixMissing(l) = {} /\ Wanted(l) = {}
  /\ LET p == plan[l]
         v == view[l]
         noops == {s \in DOMAIN p.donors : p.donors[s] = {} \/ s \in p.stuck}
         max == Larger(p.stable, p.max)
         M == Canonical(lg[l], max, noops)
         X == AdvanceThrough(M, max)
     IN /\ lg' = [lg EXCEPT ![l] = SetStable(X, p.stable)]
        /\ replies' = replies \cup RepliesFor(l, X, lg[l].stable, M.next, v)
                              \cup RepliesFor(l, X, M.next, X.next, v)
        /\ msgs' = msgs \cup {StartView(v, l, d, p.source, X, p.stable, max, noops) :
                                d \in Replicas \ {l}}
        /\ source' = [source EXCEPT ![l] = p.source]
  /\ plan' = [plan EXCEPT ![l].phase = "installed"]
  /\ UNCHANGED <<view, status, inflight, fetch, gaps, sync, lastNormalView, recovery>>

\* Mutant of PublishNormalView: lastNormalView stays behind.
PublishNormalViewOnly(l) ==
  /\ Changing(l) /\ plan[l].phase = "installed"
  /\ status' = [status EXCEPT ![l] = StatusNormal]
  /\ plan' = [plan EXCEPT ![l] = NoPlan]
  /\ Execute(l, lg[l], view[l])
  /\ UNCHANGED <<view, inflight, fetch, msgs, gaps, sync, lastNormalView, source, recovery>>

\* The second, publishNormalViewLocked: buses are taken again.
PublishNormalView(l) ==
  /\ Changing(l) /\ plan[l].phase = "installed"
  /\ lastNormalView' = [lastNormalView EXCEPT ![l] = view[l]]
  /\ status' = [status EXCEPT ![l] = StatusNormal]
  /\ plan' = [plan EXCEPT ![l] = NoPlan]
  /\ Execute(l, lg[l], view[l])
  /\ UNCHANGED <<view, inflight, fetch, msgs, gaps, sync, source, recovery>>

\* Mutant of ResendStartView: a commit point of slot 0 is taken for granted.
ResendStartViewAbove(l, r) ==
  /\ IsLeader(l) /\ status[l] = StatusNormal /\ r # l /\ <<r, view[l]>> \in Hears
  /\ view[r] < view[l] \/ \E m \in Reports(view[l]) : m.src = r
  /\ LET L == lg[l]
         noops == {s \in Larger(1, L.stable) .. L.next - 1 : L.ent[s] = NoOp}
     IN msgs' = msgs \cup {StartView(view[l], l, r, source[l], L, L.stable, L.next, noops)}
  /\ UNCHANGED <<view, status, lg, inflight, fetch, replies, gaps, sync, changeVars>>

(***************************************************************************)
(* handleViewChange for a late report and handleStateQuery (a replica in a *)
(* lower view heard a heartbeat, requestCatchUp): the leader sends a       *)
(* StartView for its log of the moment (startViewMsg).                     *)
(***************************************************************************)
ResendStartView(l, r) ==
  /\ IsLeader(l) /\ status[l] = StatusNormal /\ r # l /\ <<r, view[l]>> \in Hears
  /\ view[r] < view[l] \/ \E m \in Reports(view[l]) : m.src = r
  /\ LET L == lg[l]
         noops == {s \in L.stable .. L.next - 1 : L.ent[s] = NoOp}
     IN msgs' = msgs \cup {StartView(view[l], l, r, source[l], L, L.stable, L.next, noops)}
  /\ UNCHANGED <<view, status, lg, inflight, fetch, replies, gaps, sync, changeVars>>

-----------------------------------------------------------------------------
(* Installing at the other replicas *)

\* installStartView keeps the local log if it comes from the merged view and
\* the executed prefix, where it reaches the commit point, has its digest.
Retain(r, m) ==
  /\ lastNormalView[r] = m.source
  /\ m.stable > 0 /\ lg[r].next >= m.stable => Prefix(lg[r], m.stable) = m.hash

RefusedNever(L, m) == FALSE     \* mutant of Refused

\* prepareRecoveryLocked gives up on a merge that contradicts the local commit point.
Refused(L, m) ==
  /\ L.stable > 0
  /\ m.max < L.stable \/ \E s \in m.noops : s < L.stable /\ L.ent[s] # NoOp

\* prepareRecoveryLocked: rewind to where the log and the merge part, and take
\* back the entries the merge contradicts.
Prepared(L, m, retain) ==
  LET dropped == {s \in Slots : s >= L.stable /\ L.ent[s] = NoOp /\ s \notin m.noops}
      wrong == dropped \cup {s \in m.noops : L.ent[s] = Received}
      target == IF m.max = 0 THEN 0
                ELSE IF ~retain THEN L.stable
                ELSE Highest({n \in 0 .. Smaller(L.next, m.max) : \A s \in wrong : s >= n})
      M == RewindTo(L, target)
  IN SetNoOps(RecomputeMax(ClearSlots(M, IF retain THEN dropped ELSE target .. NumSlots - 1)),
              m.noops)

(***************************************************************************)
(* handleStartView, installStartView up to the first transfer.  A refused  *)
(* merge leaves the replica waiting for its watchdog.                      *)
(***************************************************************************)
InstallStartView(r, m) ==
  /\ m.type = "StartView" /\ m.dst = r
  /\ m.stable <= m.max /\ <<r, m.view>> \in Hears
  /\ m.view >= view[r] /\ m.view > lastNormalView[r] /\ m.view > recovery[r].view
  /\ LET L == lg[r]
         retain == Retain(r, m)
         M == IF Refused(L, m) THEN L ELSE Prepared(L, m, retain)
     IN /\ lg' = [lg EXCEPT ![r] = M]
        /\ recovery' = [recovery EXCEPT ![r] =
             [view |-> m.view, refused |-> Refused(L, m), stable |-> m.stable, max |-> m.max,
              verify |-> retain /\ m.stable > 0 /\ L.next < m.stable, hash |-> m.hash,
              base |-> L.stable, replayTo |-> M.next]]
  /\ view' = [view EXCEPT ![r] = m.view]
  /\ status' = [status EXCEPT ![r] = StatusViewChange]
  /\ source' = [source EXCEPT ![r] = m.source]
  /\ fetch' = [fetch EXCEPT ![r] = NoFetch]
  /\ gaps' = [gaps EXCEPT ![r] = {}]
  /\ sync' = [sync EXCEPT ![r] = 0]
  /\ plan' = [plan EXCEPT ![r] = NoPlan]
  /\ UNCHANGED <<inflight, msgs, replies, lastNormalView>>

\* installStartView's loop runs and no transfer of it is out.
Recovering(r) ==
  /\ status[r] = StatusViewChange /\ recovery[r] # NoRecovery
  /\ ~recovery[r].refused /\ Idle(r)

\* recoveryMissingRangeLocked: slots of the merged log still to fetch.
RecoveryMissing(r) == Missing(lg[r], lg[r].next, recovery[r].max)

\* fetchRecoveryRange: what is missing of the merged log, from its leader.
FetchRecovery(r) ==
  /\ Recovering(r) /\ MayTransfer(r)
  /\ RecoveryMissing(r) # {}
  /\ fetch' = [fetch EXCEPT ![r] =
                 Fetch("install", LeaderIndex(view[r]), lg[r].next, RecoveryMissing(r), 0, NoEntries)]
  /\ UNCHANGED <<view, status, lg, inflight, msgs, replies, gaps, sync, changeVars>>

\* Mutant of RepairPrefix: forgets the slots without rewinding.
RepairPrefixInPlace(r) ==
  /\ Recovering(r) /\ RecoveryMissing(r) = {}
  /\ LET c == recovery[r]
         M == RecomputeMax(ClearSlots(lg[r], c.base .. c.stable - 1))
     IN /\ c.verify /\ Prefix(lg[r], c.stable) # c.hash
        /\ lg' = [lg EXCEPT ![r] = M]
        /\ recovery' = [recovery EXCEPT ![r].replayTo = M.next]
  /\ UNCHANGED <<view, status, inflight, fetch, msgs, replies, gaps, sync,
                 lastNormalView, source, plan>>

\* finishRecoveryIfComplete: the retained prefix is not the leader's; refetch it.
RepairPrefix(r) ==
  /\ Recovering(r) /\ RecoveryMissing(r) = {}
  /\ LET c == recovery[r]
         M == RecomputeMax(ClearSlots(RewindTo(lg[r], c.base), c.base .. c.stable - 1))
     IN /\ c.verify /\ Prefix(lg[r], c.stable) # c.hash
        /\ lg' = [lg EXCEPT ![r] = M]
        /\ recovery' = [recovery EXCEPT ![r].replayTo = M.next]
  /\ UNCHANGED <<view, status, inflight, fetch, msgs, replies, gaps, sync,
                 lastNormalView, source, plan>>

\* finishRecoveryIfComplete: execute the merged log, repeat the replies above
\* the old commit point in the new view, and take buses again.
FinishRecovery(r) ==
  /\ Recovering(r) /\ RecoveryMissing(r) = {}
  /\ LET c == recovery[r]
         X == AdvanceThrough(lg[r], c.max)
         Y == Advance(SetStable(X, c.stable))
     IN /\ c.verify => Prefix(lg[r], c.stable) = c.hash
        /\ lg' = [lg EXCEPT ![r] = Y]
        /\ replies' = replies \cup RepliesFor(r, Y, c.base, c.replayTo, view[r])
                              \cup RepliesFor(r, Y, lg[r].next, Y.next, view[r])
  /\ lastNormalView' = [lastNormalView EXCEPT ![r] = view[r]]
  /\ status' = [status EXCEPT ![r] = StatusNormal]
  /\ recovery' = [recovery EXCEPT ![r] = NoRecovery]
  /\ UNCHANGED <<view, inflight, fetch, msgs, gaps, sync, source, plan>>

-----------------------------------------------------------------------------

Init ==
  /\ ReplicaInit(0) /\ GapInit /\ SyncInit
  /\ lastNormalView = [r \in Replicas |-> 0]
  /\ source = [r \in Replicas |-> 0]
  /\ plan = [r \in Replicas |-> NoPlan]
  /\ recovery = [r \in Replicas |-> NoRecovery]

NormalNext ==
  \/ \E r \in Replicas, s \in Slots : HandleBus(r, s) /\ UNCHANGED <<gaps, sync>>
  \/ \E r \in Replicas : FetchServe(r) /\ UNCHANGED <<gaps, sync>>
  \/ GapNext /\ UNCHANGED sync
  \/ SyncNext /\ UNCHANGED gaps

ChangeNext ==
  \/ \E r \in Replicas :
       \/ SuspectLeader(r)
       \/ ViewChangeTimeout(r)
       \/ SendReport(r)
       \/ Merge(r)
       \/ FetchPrefix(r)
       \/ FetchSlot(r)
       \/ ChangeFetchDone(r)
       \/ ChangeFetchFail(r)
       \/ InstallMerge(r)
       \/ PublishNormalView(r)
       \/ \E l \in Replicas : ResendStartView(l, r)
       \/ FetchRecovery(r)
       \/ RepairPrefix(r)
       \/ FinishRecovery(r)
  \/ \E r \in Replicas, m \in msgs : JoinViewChange(r, m)
  \/ \E m \in msgs : InstallStartView(m.dst, m)

Next ==
  \/ NormalNext /\ UNCHANGED changeVars
  \/ ChangeNext

Spec == Init /\ [][Next]_vars

-----------------------------------------------------------------------------
(* Properties *)

Lengths == 0 .. NumSlots
PartialLogs == UNION {[D -> SlotStates] : D \in SUBSET Slots}

Messages ==
  [type : {"GapReply", "GapCommit", "GapCommitReply"},
   view : Nat, slot : Slots, src : Replicas, dst : Replicas]
  \cup [type : {"SyncPrepare"}, view : Nat, n : Lengths, hash : PartialLogs, dst : Replicas]
  \cup [type : {"SyncReply"}, view : Nat, n : Lengths, src : Replicas, dst : Replicas,
        unverified : BOOLEAN]
  \cup [type : {"SyncCommit"}, view : Nat, n : Lengths, dst : Replicas]
  \cup [type : {"ViewChangeRequest"}, view : Nat, src : Replicas, dst : Replicas]
  \cup [type : {"ViewChange"}, view : Nat, src : Replicas, dst : Replicas,
        lastNormalView : Nat, next : Lengths, stable : Lengths, ent : [Slots -> SlotStates]]
  \cup [type : {"StartView"}, view : Nat, src : Replicas, dst : Replicas, source : Nat,
        stable : Lengths, max : Lengths, noops : SUBSET Slots, hash : PartialLogs]

Transfer ==
  [stage : {"idle", "sent", "served", "answer"},
   kind : {"plain", "sync", "prefix", "slot", "install"},
   peer : Replicas, from : Lengths, slots : SUBSET Slots, entries : PartialLogs,
   n : Lengths, hash : PartialLogs, verdict : Verdicts, stable : Lengths]

Plan ==
  {NoPlan} \cup
  [phase : {"fetch", "installed"}, source : Nat, stable : Lengths, max : Lengths,
   donors : UNION {[D -> SUBSET Replicas] : D \in SUBSET Slots},
   catchUp : Replicas, stuck : SUBSET Slots]

Recovery ==
  {NoRecovery} \cup
  [view : Nat, refused : BOOLEAN, stable : Lengths, max : Lengths, verify : BOOLEAN,
   hash : PartialLogs, base : Lengths, replayTo : Lengths]

\* The types, and what ties status, lastNormalView and viewId together: a
\* replica is normal exactly in the view it last installed.
TypeOK ==
  /\ view \in [Replicas -> Nat]
  /\ status \in [Replicas -> {StatusNormal, StatusViewChange}]
  /\ lg \in [Replicas -> Logs]
  /\ inflight \in [Replicas -> SUBSET Slots]
  /\ fetch \in [Replicas -> Transfer]
  /\ msgs \subseteq Messages
  /\ replies \subseteq [replica : Replicas, view : Nat, slot : Slots,
                        logIndex : Lengths, noops : SUBSET Slots]
  /\ gaps \in [Replicas -> SUBSET Slots]
  /\ sync \in [Replicas -> Lengths]
  /\ lastNormalView \in [Replicas -> Nat] /\ source \in [Replicas -> Nat]
  /\ plan \in [Replicas -> Plan] /\ recovery \in [Replicas -> Recovery]
  /\ \A r \in Replicas : IF status[r] = StatusNormal THEN lastNormalView[r] = view[r]
                                                     ELSE lastNormalView[r] < view[r]

\* ExecutedPrefixFilled: execution never runs over an empty slot, also after
\* the rewinds of a merge and of an installation.
ExecutedPrefixFilled ==
  \A r \in Replicas : \A s \in 0 .. lg[r].next - 1 : lg[r].ent[s] # Empty

(***************************************************************************)
(* Nobody runs a view normally before a majority has left every lower one  *)
(* (handleViewChangeRequest, driveViewChange), so no lower view can commit *)
(* a request any more with votes that are still to come.                   *)
(***************************************************************************)
OlderViewsLeft ==
  \A r \in Replicas : status[r] = StatusNormal =>
    2 * Cardinality({q \in Replicas : view[q] >= view[r]}) > N

(***************************************************************************)
(* The StartViews of one view, the merge and those sent later for late     *)
(* replicas (startViewMsg), make the same slots no-ops where both speak.   *)
(***************************************************************************)
StartViewsAgree ==
  \A a, b \in {m \in msgs : m.type = "StartView"} :
    a.view = b.view =>
      \A s \in Slots : (s >= a.stable /\ s >= b.stable /\ s < a.max /\ s < b.max)
                         => (s \in a.noops <=> s \in b.noops)

(***************************************************************************)
(* The installation of a StartView, from its arrival to the last refetched *)
(* slot and the replay, rewrites nothing that the replica holds below its  *)
(* commit point, whatever the merge says (prepareRecoveryLocked refuses    *)
(* what contradicts it; rewinds, clears and the repair stop there).  The   *)
(* new leader's own merge has no such check, and a round of a view that    *)
(* differs may go back to a commit point read earlier (BusSync).           *)
(***************************************************************************)
StableKept ==
  [][\A r \in Replicas : (recovery[r] # NoRecovery \/ recovery'[r] # NoRecovery) =>
       \A s \in Slots : s < lg[r].stable /\ lg[r].ent[s] # Empty =>
         lg'[r].ent[s] = lg[r].ent[s]]_vars

\* The client's quorumReached: the request of slot s at log index i, in view v.
CommittedInView(s, i, v) ==
  LET voters == {m.replica : m \in {m \in replies : m.slot = s /\ m.logIndex = i /\ m.view = v}}
  IN LeaderIndex(v) \in voters /\ Cardinality(voters) >= QuorumSize

\* At most one request is committed at a log index, over all views together.
Linearizability ==
  \A a, b \in replies :
    (/\ a.logIndex = b.logIndex
     /\ CommittedInView(a.slot, a.logIndex, a.view)
     /\ CommittedInView(b.slot, b.logIndex, b.view)) => a.slot = b.slot

(***************************************************************************)
(* A request that a client counts as committed keeps its log index at      *)
(* every replica that runs a later view (Durability in tla/paxosbus.tla).  *)
(***************************************************************************)
Durability ==
  \A a \in replies, r \in Replicas :
    (/\ status[r] = StatusNormal /\ view[r] > a.view
     /\ CommittedInView(a.slot, a.logIndex, a.view))
      => /\ a.slot < lg[r].next /\ lg[r].ent[a.slot] = Received
         /\ LogIndex(lg[r], a.slot) = a.logIndex
=============================================================================
