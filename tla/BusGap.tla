------------------------------- MODULE BusGap -------------------------------
(***************************************************************************)
(* Gap agreement.  A slot below the highest one seen that stays empty is a *)
(* gap.  A follower asks the leader for it; the leader asks everyone, and  *)
(* if no bus turns up in time it closes the slot as a no-op, goes on       *)
(* executing at once, and spreads the no-op until a quorum has it.         *)
(*                                                                         *)
(* gaps[r] holds the slots of r.gaps.  A view change empties r.gaps in the *)
(* critical section that changes the view, so an entry always belongs to   *)
(* the replica's current view and normal status (gapActiveLocked), and it  *)
(* stands for the replica's outstanding GapRequest as well: a request that *)
(* arrives after its gap ended could have arrived before it ended.         *)
(*                                                                         *)
(* Timers (clientGapDueLocked, gapRecoveryTimeout, gapRetryTimeout) may    *)
(* fire at any time.  A not-found answer only ends the leader's probe as   *)
(* its timer may do anyway, so those answers are left out.                 *)
(***************************************************************************)
EXTENDS BusReplica

CONSTANT MaxNoOps    \* bound: slots that leaders close as no-ops (at most NumSlots exist)

ASSUME MaxNoOpsAssumption == MaxNoOps \in Nat

VARIABLE gaps

\* The messages of gap agreement.
GapReply(v, s, src, dst) ==         \* Found
  [type |-> "GapReply", view |-> v, slot |-> s, src |-> src, dst |-> dst]
GapCommit(v, s, src, dst) ==
  [type |-> "GapCommit", view |-> v, slot |-> s, src |-> src, dst |-> dst]
GapCommitReply(v, s, src, dst) ==
  [type |-> "GapCommitReply", view |-> v, slot |-> s, src |-> src, dst |-> dst]

\* The leader of r's view, in which r takes part normally, is l.
Follows(r, l) ==
  /\ r # l /\ view[r] = view[l] /\ IsLeader(l)
  /\ status[r] = StatusNormal /\ status[l] = StatusNormal

\* Mutant of DetectGap: looks only beyond the slot to execute next.
DetectGapBeyond(r, s) ==
  /\ status[r] = StatusNormal
  /\ lg[r].next < s /\ s < lg[r].seen
  /\ lg[r].ent[s] = Empty
  /\ s \notin gaps[r]
  /\ gaps' = [gaps EXCEPT ![r] = @ \cup {s}]
  /\ UNCHANGED replicaVars

\* gapDetectLoop opens a gap; handleGap then asks the leader (followerRecover)
\* or every peer (leaderResolve).
DetectGap(r, s) ==
  /\ status[r] = StatusNormal
  /\ lg[r].next <= s /\ s < lg[r].seen
  /\ lg[r].ent[s] = Empty
  /\ s \notin gaps[r]
  /\ gaps' = [gaps EXCEPT ![r] = @ \cup {s}]
  /\ UNCHANGED replicaVars

\* followerRecover ends: it was woken through doneCh, or its timer fired.
FollowerEndGap(r, s) ==
  /\ s \in gaps[r] /\ ~IsLeader(r)
  /\ gaps' = [gaps EXCEPT ![r] = @ \ {s}]
  /\ UNCHANGED replicaVars

\* handleGapRequest at a follower r that has the bus, for the leader l.
HandleGapRequestFollower(r, l, s) ==
  /\ Follows(r, l) /\ s \in gaps[l]
  /\ lg[r].ent[s] = Received
  /\ msgs' = msgs \cup {GapReply(view[r], s, r, l)}
  /\ UNCHANGED <<view, status, lg, inflight, fetch, replies, gaps>>

(***************************************************************************)
(* handleGapRequest at the leader l, for the follower r: it answers with   *)
(* the bus or the no-op, or resolves the slot itself (ensureLeaderResolve, *)
(* which does not ask whether the leader has seen so high a slot).         *)
(***************************************************************************)
HandleGapRequestLeader(l, r, s) ==
  /\ Follows(r, l) /\ s \in gaps[r]
  /\ \/ /\ lg[l].ent[s] = Received
        /\ msgs' = msgs \cup {GapReply(view[l], s, l, r)}
        /\ UNCHANGED gaps
     \/ /\ lg[l].ent[s] = NoOp
        /\ msgs' = msgs \cup {GapCommit(view[l], s, l, r)}
        /\ UNCHANGED gaps
     \/ /\ lg[l].ent[s] = Empty /\ s \notin gaps[l]
        /\ gaps' = [gaps EXCEPT ![l] = @ \cup {s}]
        /\ UNCHANGED msgs
  /\ UNCHANGED <<view, status, lg, inflight, fetch, replies>>

\* answerAskers: the followers whose request for the slot is outstanding.
Answers(l, s) ==
  {GapReply(view[l], s, l, r) : r \in {r \in Replicas : Follows(r, l) /\ s \in gaps[r]}}

\* leaderResolve: a peer had the bus (handleGapReply put it in probeReplies).
LeaderRecover(l, m) ==
  /\ m.type = "GapReply" /\ m.dst = l /\ m.view = view[l]
  /\ IsLeader(l) /\ m.slot \in gaps[l]
  /\ Execute(l, RecordBus(lg[l], m.slot), view[l])
  /\ msgs' = msgs \cup Answers(l, m.slot)
  /\ gaps' = [gaps EXCEPT ![l] = @ \ {m.slot}]
  /\ UNCHANGED <<view, status, inflight, fetch>>

\* leaderResolve: the bus has come by itself before or during the probe.
LeaderFilled(l, s) ==
  /\ s \in gaps[l] /\ IsLeader(l)
  /\ lg[l].ent[s] = Received
  /\ msgs' = msgs \cup Answers(l, s)
  /\ gaps' = [gaps EXCEPT ![l] = @ \ {s}]
  /\ UNCHANGED <<view, status, lg, inflight, fetch, replies>>

\* The slots leaders have closed as no-ops.
Closed == {m.slot : m \in {m \in msgs : m.type = "GapCommit"}}

\* Mutant of LeaderNoOp: does not look again whether the bus came during the probe.
LeaderNoOpUnchecked(l, s) ==
  /\ s \in gaps[l] /\ IsLeader(l)
  /\ Cardinality(Closed \cup {s}) <= MaxNoOps
  /\ Execute(l, SetNoOp(lg[l], s), view[l])
  /\ gaps' = [gaps EXCEPT ![l] = @ \ {s}]
  /\ msgs' = msgs \cup {GapCommit(view[l], s, l, r) : r \in Replicas \ {l}}
  /\ UNCHANGED <<view, status, inflight, fetch>>

(***************************************************************************)
(* leaderResolve: the probe ended without the bus.  The slot becomes a     *)
(* no-op and the leader executes past it before any peer has agreed.       *)
(* collectNoOpQuorum sends the commit, and again until a quorum acks; it   *)
(* changes no more state, and msgs keeps the commit deliverable.           *)
(***************************************************************************)
LeaderNoOp(l, s) ==
  /\ s \in gaps[l] /\ IsLeader(l)
  /\ Cardinality(Closed \cup {s}) <= MaxNoOps
  /\ lg[l].ent[s] # Received
  /\ Execute(l, SetNoOp(lg[l], s), view[l])
  /\ gaps' = [gaps EXCEPT ![l] = @ \ {s}]
  /\ msgs' = msgs \cup {GapCommit(view[l], s, l, r) : r \in Replicas \ {l}}
  /\ UNCHANGED <<view, status, inflight, fetch>>

\* handleGapReply at a follower that still waits for the slot.
HandleGapReply(r, m) ==
  /\ m.type = "GapReply" /\ m.dst = r /\ m.view = view[r]
  /\ m.src = LeaderIndex(m.view)
  /\ m.slot \in gaps[r]
  /\ Execute(r, RecordBus(lg[r], m.slot), view[r])
  /\ UNCHANGED <<view, status, inflight, fetch, msgs, gaps>>

\* Mutant of HandleGapCommit: closes the slot it waits for, not the one it is told.
HandleGapCommitNext(r, m) ==
  /\ m.type = "GapCommit" /\ m.dst = r
  /\ status[r] = StatusNormal /\ m.view = view[r]
  /\ lg[r].next \in Slots
  /\ Execute(r, SetNoOp(lg[r], lg[r].next), view[r])
  /\ msgs' = msgs \cup {GapCommitReply(m.view, m.slot, r, m.src)}
  /\ UNCHANGED <<view, status, inflight, fetch, gaps>>

(***************************************************************************)
(* handleGapCommit, applyGapCommitLocked.  A slot that has executed as a   *)
(* bus stays as it is and is not acknowledged.                             *)
(***************************************************************************)
HandleGapCommit(r, m) ==
  /\ m.type = "GapCommit" /\ m.dst = r
  /\ status[r] = StatusNormal /\ m.view = view[r]
  /\ LET L == lg[r] IN
       /\ L.ent[m.slot] = NoOp \/ m.slot >= L.next
       /\ IF L.ent[m.slot] = NoOp
            THEN UNCHANGED <<lg, replies>>
            ELSE Execute(r, SetNoOp(L, m.slot), view[r])
  /\ msgs' = msgs \cup {GapCommitReply(m.view, m.slot, r, m.src)}
  /\ UNCHANGED <<view, status, inflight, fetch, gaps>>

GapInit == gaps = [r \in Replicas |-> {}]

GapNext ==
  \/ \E r \in Replicas, s \in Slots :
       \/ DetectGap(r, s)
       \/ FollowerEndGap(r, s)
       \/ HandleGapRequestFollower(r, LeaderIndex(view[r]), s)
       \/ HandleGapRequestLeader(LeaderIndex(view[r]), r, s)
       \/ LeaderFilled(r, s)
       \/ LeaderNoOp(r, s)
  \/ \E m \in msgs :
       \/ LeaderRecover(m.dst, m)
       \/ HandleGapReply(m.dst, m)
       \/ HandleGapCommit(m.dst, m)
=============================================================================
