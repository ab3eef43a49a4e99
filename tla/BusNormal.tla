------------------------------ MODULE BusNormal -----------------------------
(***************************************************************************)
(* Normal operation: the replicas of one view, from its start to the next  *)
(* view change.  Bus arrival, gap agreement, synchronisation and the state *)
(* transfers of lagging followers interleave freely.                       *)
(***************************************************************************)
EXTENDS BusGap, BusSync

CONSTANT View        \* the view

ASSUME ViewAssumption == View \in Nat

vars == <<view, status, lg, inflight, fetch, msgs, replies, gaps, sync>>

Leader == LeaderIndex(View)

Init == ReplicaInit(View) /\ GapInit /\ SyncInit

Next ==
  \/ \E r \in Replicas, s \in Slots : HandleBus(r, s) /\ UNCHANGED <<gaps, sync>>
  \/ \E r \in Replicas : FetchServe(r) /\ UNCHANGED <<gaps, sync>>
  \/ GapNext /\ UNCHANGED sync
  \/ SyncNext /\ UNCHANGED gaps

Spec == Init /\ [][Next]_vars

(***************************************************************************)
(* The fairness behind progress.  The gap detector is a ticker, and the    *)
(* leader's probe ends by an answer or by its timer: weakly fair.  Between *)
(* a follower and the leader a question or an answer can be lost or come   *)
(* after the follower's timer has closed the gap; the follower opens it    *)
(* again and asks again for as long as the slot is empty, so it is enough  *)
(* that not every exchange fails: strongly fair.                           *)
(***************************************************************************)
LeaderResolves(s) ==
  \/ LeaderFilled(Leader, s)
  \/ LeaderNoOp(Leader, s)
  \/ \E m \in msgs : m.type = "GapReply" /\ m.slot = s /\ LeaderRecover(Leader, m)

FollowerHears(r, s) ==
  \E m \in msgs : /\ m.type \in {"GapReply", "GapCommit"} /\ m.slot = s
                  /\ HandleGapReply(r, m) \/ HandleGapCommit(r, m)
                  /\ lg' # lg

Fairness ==
  \A s \in Slots :
    /\ WF_vars(LeaderResolves(s) /\ UNCHANGED sync)
    /\ \A r \in Replicas : WF_vars(DetectGap(r, s) /\ UNCHANGED sync)
    /\ \A r \in Replicas \ {Leader} :
         /\ SF_vars(HandleGapRequestLeader(Leader, r, s) /\ UNCHANGED sync)
         /\ SF_vars(FollowerHears(r, s) /\ UNCHANGED sync)

FairSpec == Spec /\ Fairness

-----------------------------------------------------------------------------
(* Properties *)

\* What a digest or a transfer covers: some slots, with what they hold.
PartialLogs == UNION {[D -> SlotStates] : D \in SUBSET Slots}
Lengths == 0 .. NumSlots

Messages ==
  [type : {"GapReply", "GapCommit", "GapCommitReply"},
   view : {View}, slot : Slots, src : Replicas, dst : Replicas]
  \cup [type : {"SyncPrepare"}, view : {View}, n : Lengths, hash : PartialLogs, dst : Replicas]
  \cup [type : {"SyncReply"}, view : {View}, n : Lengths, src : Replicas, dst : Replicas,
        unverified : BOOLEAN]
  \cup [type : {"SyncCommit"}, view : {View}, n : Lengths, dst : Replicas]

Transfer ==
  [stage : {"idle", "sent", "served", "answer"}, kind : {"plain", "sync"},
   peer : Replicas, from : Lengths, slots : SUBSET Slots, entries : PartialLogs,
   n : Lengths, hash : PartialLogs, verdict : Verdicts, stable : Lengths]

Votes == [replica : Replicas, view : {View}, slot : Slots,
          logIndex : Lengths, noops : SUBSET Slots]

(***************************************************************************)
(* The types: of every replica's log, of every message, transfer and reply *)
(* that any handler produces.  No step of normal operation touches the     *)
(* view or the status, and no frontier leaves the schedule.                *)
(***************************************************************************)
TypeOK ==
  /\ view = [r \in Replicas |-> View]
  /\ status = [r \in Replicas |-> StatusNormal]
  /\ lg \in [Replicas -> Logs]
  /\ inflight \in [Replicas -> SUBSET Slots]
  /\ fetch \in [Replicas -> Transfer]
  /\ msgs \subseteq Messages
  /\ replies \subseteq Votes
  /\ gaps \in [Replicas -> SUBSET Slots]
  /\ sync \in [Replicas -> Lengths]

(***************************************************************************)
(* A follower holds a slot as a no-op only if the leader of its view does: *)
(* setNoOpLocked is reached through a GapCommit of the leader or through   *)
(* state the leader served, and the leader never takes a no-op back.       *)
(***************************************************************************)
NoOpsFromLeader ==
  \A r \in Replicas, s \in Slots : lg[r].ent[s] = NoOp => lg[Leader].ent[s] = NoOp

(***************************************************************************)
(* Votes that a client may count together (handleRequestReply matches      *)
(* request, log index and view, and needs the leader's) come from equal    *)
(* logs: below the slot the voter and the leader hold the same no-ops, so  *)
(* the same requests precede it.                                           *)
(***************************************************************************)
VoteAgreement ==
  \A a, b \in replies :
    (/\ a.replica = Leader
     /\ a.slot = b.slot /\ a.logIndex = b.logIndex) => a.noops = b.noops

(***************************************************************************)
(* The leader's executed log only grows: advanceNextExpectedLocked moves   *)
(* on and no handler of a leader rewinds or rewrites an executed slot.     *)
(***************************************************************************)
LeaderAppendOnly ==
  [][/\ lg'[Leader].next >= lg[Leader].next
     /\ Prefix(lg'[Leader], lg[Leader].next) = Prefix(lg[Leader], lg[Leader].next)]_vars

\* ExecutedPrefixFilled: execution never runs over an empty slot, also after
\* a rewind and a refetch that race with arriving buses.
ExecutedPrefixFilled ==
  \A r \in Replicas : \A s \in 0 .. lg[r].next - 1 : lg[r].ent[s] # Empty

\* The replicas that have replied for slot s with log index i.
Voters(s, i) == {m.replica : m \in {m \in replies : m.slot = s /\ m.logIndex = i}}

\* The replicas that acknowledged a round over slot s without comparing digests.
Unverified(s) ==
  {m.src : m \in {m \in msgs : m.type = "SyncReply" /\ m.unverified /\ s < m.n}}

(***************************************************************************)
(* Below the leader's commit point every request has the leader's reply    *)
(* and the consent of a quorum: each replica of it has replied with the    *)
(* leader's log index, whatever it had executed, rewound and fetched       *)
(* before, or has acknowledged a round over the slot unverified            *)
(* (answerSyncPrepare).  Without unverified acknowledgements the request   *)
(* is committed.                                                           *)
(***************************************************************************)
SyncSafety ==
  LET L == lg[Leader] IN
  \A s \in 0 .. L.stable - 1 : L.ent[s] = Received =>
    LET voters == Voters(s, LogIndex(L, s)) IN
    /\ Leader \in voters
    /\ Cardinality(voters \cup Unverified(s)) >= QuorumSize

(***************************************************************************)
(* Execution passes every slot below the highest one a replica has seen:   *)
(* lost buses, dropped answers, recovery timers that fire early and        *)
(* rewinds delay it and never stop it (gapDetectLoop, handleGap).          *)
(***************************************************************************)
GapsClose ==
  \A r \in Replicas, s \in Slots : s < lg[r].seen ~> s < lg[r].next
=============================================================================
