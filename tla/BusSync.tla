------------------------------- MODULE BusSync ------------------------------
(***************************************************************************)
(* The synchronisation rounds that move the commit point.  The leader      *)
(* announces its executed prefix and its digest; a follower that has       *)
(* executed as far compares digests and acknowledges, one that is behind   *)
(* fetches the slots first, one that differs rewinds to its own commit     *)
(* point and refetches.  With a quorum the leader raises its commit point  *)
(* and tells everyone.                                                     *)
(*                                                                         *)
(* A follower's syncCatchup is the transfer of kind "sync" in fetch, with  *)
(* the round (n, hash) it works towards.                                   *)
(*                                                                         *)
(* A digest is kept in a ring of RingSize cells and in its log entry until *)
(* the entry is pruned.  BusLog does not prune, so a digest that has left  *)
(* the ring may be known or not, and a rewind to it may fail.  A rewind    *)
(* that succeeds is taken to restore digest and log index exactly;         *)
(* PrefixExact of BusExecution says when the ring does.                    *)
(***************************************************************************)
EXTENDS BusReplica

CONSTANTS
  MaxRounds,   \* bound: prefixes announced per view (at most NumSlots exist)
  RingSize     \* cells of hashRing: RetainSlots + 2, and RetainSlots is at least 1

ASSUME MaxRoundsAssumption == MaxRounds \in Nat
ASSUME RingSizeAssumption == RingSize \in Nat /\ RingSize >= 3

VARIABLE sync        \* sync[r]: length of the prefix of the leader's open round, or 0

\* The messages of a round.  unverified is a history field of the reply, which
\* the leader does not see: the follower acknowledged without comparing.
SyncPrepare(v, n, hash, dst) ==
  [type |-> "SyncPrepare", view |-> v, n |-> n, hash |-> hash, dst |-> dst]
SyncReply(v, n, src, dst, unverified) ==
  [type |-> "SyncReply", view |-> v, n |-> n, src |-> src, dst |-> dst,
   unverified |-> unverified]
SyncCommit(v, n, dst) ==
  [type |-> "SyncCommit", view |-> v, n |-> n, dst |-> dst]

\* The prefixes announced in view v.
Announced(v) == {m.n : m \in {m \in msgs : m.type = "SyncPrepare" /\ m.view = v}}

(***************************************************************************)
(* syncOnce starts a round for everything executed.  It also repeats the   *)
(* open round, starts new rounds for a prefix it announced before, and     *)
(* sends heartbeats without a slot: the first two resend what msgs still   *)
(* holds and the last changes no state, so only longer prefixes open a     *)
(* round here.                                                             *)
(***************************************************************************)
SyncOnce(r) ==
  /\ IsLeader(r) /\ status[r] = StatusNormal
  /\ sync[r] = 0 /\ lg[r].next > 0
  /\ \A n \in Announced(view[r]) : n < lg[r].next
  /\ Cardinality(Announced(view[r])) < MaxRounds
  /\ sync' = [sync EXCEPT ![r] = lg[r].next]
  /\ msgs' = msgs \cup {SyncPrepare(view[r], lg[r].next, Prefix(lg[r], lg[r].next), d) :
                           d \in Replicas \ {r}}
  /\ UNCHANGED <<view, status, lg, inflight, fetch, replies>>

\* handleSyncReply: the replicas that acknowledged the open round, and the leader.
SyncAcks(r) == {r} \cup {m.src : m \in {m \in msgs : m.type = "SyncReply" /\ m.dst = r
                                              /\ m.view = view[r] /\ m.n = sync[r]}}

\* maybeCommitSyncLocked: with a quorum of acks the commit point moves.
CommitSync(r) ==
  /\ sync[r] > 0
  /\ Cardinality(SyncAcks(r)) >= QuorumSize
  /\ sync' = [sync EXCEPT ![r] = 0]
  /\ lg' = [lg EXCEPT ![r] = SetStable(@, sync[r])]
  /\ msgs' = msgs \cup {SyncCommit(view[r], sync[r], d) : d \in Replicas \ {r}}
  /\ UNCHANGED <<view, status, inflight, fetch, replies>>

\* The handlers' guards that do not depend on the log.
ForMe(r, m) == m.dst = r /\ m.view = view[r] /\ status[r] = StatusNormal

\* The transfer that catches r up with the round (n, hash).
CatchUp(r, L, n, hash) ==
  Fetch("sync", LeaderIndex(view[r]), L.next, Missing(L, L.next, n), n, hash)

\* handleSyncPrepare, behind: start a catch-up, or raise the target of one.
HandleSyncPrepareBehind(r, m) ==
  /\ m.type = "SyncPrepare" /\ ForMe(r, m)
  /\ lg[r].next < m.n
  /\ \/ /\ Idle(r) /\ MayTransfer(r)
        /\ fetch' = [fetch EXCEPT ![r] = CatchUp(r, lg[r], m.n, m.hash)]
     \/ /\ fetch[r].kind = "sync" /\ fetch[r].stage \in {"sent", "served"}
        /\ m.n > fetch[r].n
        /\ fetch' = [fetch EXCEPT ![r].n = m.n, ![r].hash = m.hash]
  /\ UNCHANGED <<view, status, lg, inflight, msgs, replies, sync>>

\* ringValidLocked fails for slot n - 1: its cell may hold a later slot.
OutOfRing(L, n) == n + RingSize <= L.next

\* prefixHashAtLocked and the comparison of answerSyncPrepare, for the round (n, hash).
Compare(L, n, hash) ==
  {IF Prefix(L, n) = hash THEN Same ELSE Differs}
  \cup {v \in {Unknown} : OutOfRing(L, n)}

\* Acknowledge the round n; the transfer of r is `after` then.
Acknowledge(r, n, unverified, after) ==
  /\ msgs' = msgs \cup {SyncReply(view[r], n, r, LeaderIndex(view[r]), unverified)}
  /\ fetch' = [fetch EXCEPT ![r] = after]
  /\ UNCHANGED lg

(***************************************************************************)
(* rewindToStableAndRefetch with the commit point `stable` that was read   *)
(* before.  It does nothing without a commit point, or when the rewind     *)
(* fails because the digest there is not known any more.                   *)
(***************************************************************************)
RewindAndRefetch(r, stable, idle, after) ==
  LET L == ClearAbove(RewindTo(lg[r], stable), stable)
      refetch == Fetch("plain", LeaderIndex(view[r]), stable, stable .. L.seen - 1, 0, NoEntries)
  IN \/ /\ stable > 0
        /\ lg' = [lg EXCEPT ![r] = L]
        /\ fetch' = [fetch EXCEPT ![r] = IF L.seen > stable /\ idle THEN refetch ELSE after]
        /\ UNCHANGED msgs
     \/ /\ stable = 0 \/ OutOfRing(lg[r], stable)
        /\ fetch' = [fetch EXCEPT ![r] = after]
        /\ UNCHANGED <<lg, msgs>>

\* Mutant of AnswerSyncPrepare: acknowledges a prefix that differs, too.
AnswerSyncPrepareBlindly(r, n, verdict, stable, idle) ==
  Acknowledge(r, n, verdict = Unknown, IF idle THEN NoFetch ELSE fetch[r])

(***************************************************************************)
(* answerSyncPrepare for the round n, once digests were compared (verdict) *)
(* and the commit point `stable` was read; idle tells whether the transfer *)
(* goroutine is free.  Equal prefixes are acknowledged, and so is one      *)
(* below the hash window, unverified.                                      *)
(***************************************************************************)
AnswerSyncPrepare(r, n, verdict, stable, idle) ==
  LET after == IF idle THEN NoFetch ELSE fetch[r] IN
  \/ verdict # Differs /\ Acknowledge(r, n, verdict = Unknown, after)
  \/ verdict = Differs /\ RewindAndRefetch(r, stable, idle, after)

(***************************************************************************)
(* handleSyncPrepare, executed as far.  The answer is given on the         *)
(* leader's connection reader, ahead of every later message of the leader. *)
(***************************************************************************)
HandleSyncPrepareReady(r, m) ==
  /\ m.type = "SyncPrepare" /\ ForMe(r, m)
  /\ lg[r].next >= m.n
  /\ MayTransfer(r)
  /\ \E verdict \in Compare(lg[r], m.n, m.hash) :
       AnswerSyncPrepare(r, m.n, verdict, lg[r].stable, Idle(r))
  /\ UNCHANGED <<view, status, inflight, replies, sync>>

\* handleSyncCommit: the commit point moves without comparing the prefix.
HandleSyncCommit(r, m) ==
  /\ m.type = "SyncCommit" /\ ForMe(r, m)
  /\ lg' = [lg EXCEPT ![r] = SetStable(@, m.n)]
  /\ UNCHANGED <<view, status, inflight, fetch, msgs, replies, sync>>

-----------------------------------------------------------------------------
(* The transfers of this module *)

\* What finishSyncFetch holds for answerSyncPrepare when it lets go of the mutex.
Answer(n, verdict, stable) ==
  [stage |-> "answer", kind |-> "sync", peer |-> 0, from |-> 0, slots |-> {},
   entries |-> NoEntries, n |-> n, hash |-> NoEntries, verdict |-> verdict, stable |-> stable]

(***************************************************************************)
(* applyStateEntries, then finishSyncFetch: fetch on if the target is not  *)
(* reached and there was progress, give up if there was none, else read    *)
(* what answerSyncPrepare needs and let go of the mutex.                   *)
(***************************************************************************)
SyncFetchDone(r) ==
  /\ FetchDone(r, "sync")
  /\ Execute(r, ApplyEntries(lg[r], fetch[r].entries), view[r])
  /\ LET L == lg'[r]
         f == fetch[r]
     IN \E verdict \in Compare(L, f.n, f.hash) :
          fetch' = [fetch EXCEPT ![r] =
            CASE L.next < f.n /\ L.next <= f.from -> NoFetch
              [] L.next < f.n /\ L.next > f.from -> CatchUp(r, L, f.n, f.hash)
              [] OTHER -> Answer(f.n, verdict, L.stable)]
  /\ UNCHANGED <<view, status, inflight, msgs, sync>>

\* answerSyncPrepare on the transfer goroutine, with what it read before.
SyncFetchAnswer(r) ==
  /\ fetch[r].stage = "answer"
  /\ AnswerSyncPrepare(r, fetch[r].n, fetch[r].verdict, fetch[r].stable, TRUE)
  /\ UNCHANGED <<view, status, inflight, replies, sync>>

\* finishSyncFetch after a transfer that failed.
SyncFetchFail(r) ==
  /\ FetchLost(r, "sync")
  /\ fetch' = [fetch EXCEPT ![r] = NoFetch]
  /\ UNCHANGED <<view, status, lg, inflight, msgs, replies, sync>>

\* A plain transfer (after a rewind) ends, with its answer or without one.
PlainFetchEnd(r) ==
  /\ \/ /\ FetchDone(r, "plain")
        /\ Execute(r, ApplyEntries(lg[r], fetch[r].entries), view[r])
     \/ FetchLost(r, "plain") /\ UNCHANGED <<lg, replies>>
  /\ fetch' = [fetch EXCEPT ![r] = NoFetch]
  /\ UNCHANGED <<view, status, inflight, msgs, sync>>

SyncInit == sync = [r \in Replicas |-> 0]

SyncNext ==
  \/ \E r \in Replicas :
       \/ SyncOnce(r)
       \/ CommitSync(r)
       \/ SyncFetchDone(r)
       \/ SyncFetchAnswer(r)
       \/ SyncFetchFail(r)
       \/ PlainFetchEnd(r)
  \/ \E m \in msgs :
       \/ HandleSyncPrepareBehind(m.dst, m)
       \/ HandleSyncPrepareReady(m.dst, m)
       \/ HandleSyncCommit(m.dst, m)
=============================================================================
