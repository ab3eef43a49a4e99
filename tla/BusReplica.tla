----------------------------- MODULE BusReplica -----------------------------
(***************************************************************************)
(* The replicas of a PaxosBus group: the state every protocol part shares, *)
(* the arrival of buses, and the state transfer (GetState / NewState).     *)
(*                                                                         *)
(* Each replica's fields are guarded by its mutex r.mu, so a handler's     *)
(* critical section is one step.  Replica-to-replica messages travel on    *)
(* TCP connections that are dropped and redialled: msgs holds every        *)
(* message ever sent, and a message may be handled late, in any order,     *)
(* more than once (the code resends) or never.                             *)
(***************************************************************************)
EXTENDS BusLog

CONSTANTS
  N,          \* number of replicas
  F,          \* failures tolerated
  Transfers,  \* bound: replicas that transfer state at the same time
  Arrivals    \* bound: the sets of buses the network may bring to each replica

\* pbconfig.Parse refuses every other pair.
ASSUME ConfigAssumption == F \in Nat /\ N = 2 * F + 1
ASSUME TransfersAssumption == Transfers \in Nat
ASSUME ArrivalsAssumption == Arrivals \subseteq [0 .. N - 1 -> SUBSET Slots]

Replicas == 0 .. N - 1
QuorumSizeShort == F           \* mutant of QuorumSize
QuorumSize == F + 1
LeaderIndex(v) == v % N

StatusNormal == "normal"
StatusViewChange == "view-change"

VARIABLES
  view,       \* view[r]: viewId
  status,     \* status[r]
  lg,         \* lg[r]: the slot log
  inflight,   \* inflight[r]: slots whose bus the network still holds for r
  fetch,      \* fetch[r]: the state transfer that runs
  msgs,       \* replica-to-replica messages sent so far
  replies     \* RequestReply messages sent to clients so far

replicaVars == <<view, status, lg, inflight, fetch, msgs, replies>>

IsLeader(r) == r = LeaderIndex(view[r])

-----------------------------------------------------------------------------
(* Replies to clients *)

(***************************************************************************)
(* enqueueReply for the request of slot s executed by replica r in log L.  *)
(* noops is a history field no client sees: the no-op slots below s in the *)
(* log that produced the reply.                                            *)
(***************************************************************************)
Reply(r, L, s, v) ==
  [replica |-> r, view |-> v, slot |-> s, logIndex |-> LogIndex(L, s),
   noops |-> {t \in 0 .. s - 1 : L.ent[t] = NoOp}]

\* The replies for the received slots of from .. to - 1.
RepliesFor(r, L, from, to, v) ==
  {Reply(r, L, s, v) : s \in {t \in from .. to - 1 : L.ent[t] = Received}}

\* Replica r's log becomes L, executed from where it stood, in view v.
Execute(r, L, v) ==
  LET M == Advance(L) IN
  /\ lg' = [lg EXCEPT ![r] = M]
  /\ replies' = replies \cup RepliesFor(r, M, L.next, M.next, v)

-----------------------------------------------------------------------------
(* Bus arrival *)

(***************************************************************************)
(* handleBus.  admitLocked fences a bus while the schedule is not active   *)
(* for the view, which is whenever the status is not normal: the bus is    *)
(* dropped.  Otherwise the slot is recorded and the run executed (the      *)
(* branch for an open gap, applyDuringRecoveryLocked, does the same and    *)
(* then wakes a waiter that may wake by itself at any time).               *)
(***************************************************************************)
HandleBus(r, s) ==
  /\ s \in inflight[r]
  /\ inflight' = [inflight EXCEPT ![r] = @ \ {s}]
  /\ IF status[r] = StatusNormal
       THEN Execute(r, RecordBus(lg[r], s), view[r])
       ELSE UNCHANGED <<lg, replies>>
  /\ UNCHANGED <<view, status, fetch, msgs>>

-----------------------------------------------------------------------------
(* State transfer *)

(***************************************************************************)
(* fetch[r] is the fetchReq that stateFetchLoop runs for the received and  *)
(* no-op slots of a peer.  kind tells whose continuation runs when it ends *)
(* (syncGen, vc, installGen, or none of them: plain).  One transfer runs   *)
(* at a time and FetchId matches the answer to it, so its GetState and     *)
(* NewState are kept here too: stage goes sent, served, and for a sync     *)
(* transfer answer.  Requests that would have to queue behind a running    *)
(* one are dropped, as the code does when its queue of 64 is full.         *)
(***************************************************************************)
NoEntries == [s \in {} |-> Empty]

\* What comparing digests can say: prefixHashAtLocked may not know its own.
Same == "same"
Differs == "differs"
Unknown == "unknown"
Verdicts == {Same, Differs, Unknown}

NoFetch == [stage |-> "idle", kind |-> "plain", peer |-> 0, from |-> 0, slots |-> {},
            entries |-> NoEntries, n |-> 0, hash |-> NoEntries, verdict |-> Differs, stable |-> 0]

\* runFetch sends GetState for the slots asked for; with none it is done.
Fetch(kind, peer, from, slots, n, hash) ==
  [stage |-> IF slots = {} THEN "served" ELSE "sent", kind |-> kind, peer |-> peer,
   from |-> from, slots |-> slots, entries |-> NoEntries, n |-> n, hash |-> hash,
   verdict |-> Differs, stable |-> 0]

Idle(r) == fetch[r].stage = "idle"

\* missingFetchSlotsLocked, for the slots from .. to - 1.
Missing(L, from, to) == {s \in from .. to - 1 : s >= L.next /\ L.ent[s] = Empty}

\* The bound: replica r may start a transfer now.
MayTransfer(r) == Cardinality({q \in Replicas \ {r} : ~Idle(q)}) < Transfers

(***************************************************************************)
(* handleGetState, serveState and readSlot at the donor, which answers     *)
(* only for its own current view: what it holds of the slots asked for.    *)
(***************************************************************************)
FetchServe(r) ==
  /\ fetch[r].stage = "sent"
  /\ LET donor == fetch[r].peer
         held == {s \in fetch[r].slots : lg[donor].ent[s] # Empty}
     IN /\ view[donor] = view[r]
        /\ fetch' = [fetch EXCEPT ![r].stage = "served",
                                  ![r].entries = [s \in held |-> lg[donor].ent[s]]]
  /\ UNCHANGED <<view, status, lg, inflight, msgs, replies>>

\* runFetch can end without an answer: timed out, or the connection was lost.
FetchLost(r, kind) == fetch[r].stage = "sent" /\ fetch[r].kind = kind

\* runFetch can end well: nothing was missing, or the answer can be applied.
FetchDone(r, kind) == fetch[r].stage = "served" /\ fetch[r].kind = kind

-----------------------------------------------------------------------------

\* NewReplica at every replica, with the schedule installed and view v running.
ReplicaInit(v) ==
  /\ view = [r \in Replicas |-> v]
  /\ status = [r \in Replicas |-> StatusNormal]
  /\ lg = [r \in Replicas |-> EmptyLog]
  /\ inflight \in Arrivals
  /\ fetch = [r \in Replicas |-> NoFetch]
  /\ msgs = {}
  /\ replies = {}
=============================================================================
