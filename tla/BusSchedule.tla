----------------------------- MODULE BusSchedule ----------------------------
(***************************************************************************)
(* Agreement on the clients' schedule (schedule.go) and what view changes  *)
(* do to it (recovery.go).  Clients ask the leader for lines in a window.  *)
(* The leader proposes the window, the followers prepare it, a quorum      *)
(* makes it committed, and the leader grants it to the clients.  A batch   *)
(* carries the committed history, the proposal and perhaps its commit on   *)
(* one connection; the receiver handles the three in three critical        *)
(* sections.  Messages are never removed from msgs: the leader repeats     *)
(* them, and a late copy may come from a broken connection.  No clock is   *)
(* modelled: a window is asked for, proposed or expires at any time.       *)
(*                                                                         *)
(* A schedule is a set of entries: validateSchedule lets no schedule in    *)
(* that is not in the order of windows and, in a window, of clients, so    *)
(* its entries determine it.                                               *)
(***************************************************************************)
EXTENDS Integers, FiniteSetsExt

CONSTANTS
  N,                \* replicas
  F,                \* faults tolerated
  Clients,          \* client identifiers
  ExpectedClients,  \* clients a window may hold
  MaxWindows,       \* bound: windows, numbered from 1
  Plans,            \* bound: [asks, suspects, resends]: the <<view, window, client>> that
                    \* clients ask for, the <<replica, view>> that time out, the StartViews
                    \* that normal leaders send again; a behaviour has one plan
  MaxView           \* bound: views that other replicas follow to

ASSUME ScheduleAssumption ==
  /\ F \in Nat /\ N = 2 * F + 1
  /\ Clients \subseteq Nat /\ IsFiniteSet(Clients) /\ ExpectedClients \in Nat \ {0}
  /\ MaxWindows \in Nat /\ MaxView \in Nat
  /\ Plans \subseteq [asks : SUBSET ((0..MaxView) \X (1..MaxWindows) \X Clients),
                      suspects : SUBSET ((0..(N - 1)) \X (0..MaxView)),
                      resends : Nat]

Replicas == 0..(N - 1)
Windows == 1..MaxWindows
Views == 0..MaxView
QuorumSize == F + 1
Quorums == kSubset(QuorumSize, Replicas)
LeaderIndex(v) == v % N

VARIABLES
  view, status, lastNormalView, \* of each replica
  phase,      \* "none"; "vc": asks and reports; "installed": leader before it publishes; "recover"
  asked,      \* <<r, v>>: r asked for view v
  schedule,   \* entries [client, first, end] of each replica
  epoch,      \* scheduleEpoch
  ready,      \* scheduleReady
  committedEnd,
  requests,   \* <<window, client>> pairs the leader holds
  proposal,   \* the leader's proposal, NoProposal if none
  prepared,   \* replicas that prepared it
  reading,    \* the batch a replica is reading, NoBatch if none
  msgs,
  resends,    \* counts repeated StartViews
  plan,       \* the clients' and the timers' plan, fixed
  held,       \* history: what each replica held last while it was normal in each view
  agreed,     \* history: the longest schedule that a quorum held
  leftover    \* history: replicas that took an empty schedule over and kept a
              \* committed end of an earlier view

scheduleVars == <<schedule, epoch, ready, committedEnd>>
leaderVars == <<requests, proposal, prepared>>
viewVars == <<view, status, lastNormalView, phase, asked>>
boundVars == <<resends, plan>>
historyVars == <<held, agreed>>
vars == <<viewVars, scheduleVars, leaderVars, reading, msgs, boundVars,
                 historyVars, leftover>>

NoProposal == [view |-> -1, window |-> 0]
NoBatch == [stage |-> "none"]

-----------------------------------------------------------------------------
(* Schedules *)

Entries(w, S) == {[client |-> c, first |-> w, end |-> w + 1] : c \in S}

WindowOf(sched, w) == {m \in sched : m.first = w}
UpTo(sched, end) == {m \in sched : m.end <= end}
LastEnd(sched) == Max({0} \cup {m.end : m \in sched})

(* The order of entries that validateSchedule asks for *)
Before(a, b) == a.first < b.first \/ (a.first = b.first /\ a.client < b.client)

(* a, written out in order, is the beginning of b *)
schedulePrefix(a, b) == a \subseteq b /\ \A x \in a, y \in b \ a : Before(x, y)

IsLeader(r) == LeaderIndex(view[r]) = r
NormalLeader(r) == IsLeader(r) /\ status[r] = "normal"

(* scheduleActiveLocked: the replica admits buses *)
scheduleActive(r) == ready[r] /\ epoch[r] = view[r] /\ schedule[r] # {}

committedSchedule(r) == UpTo(schedule[r], committedEnd[r])

(* acceptSchedulePrepareLocked: the window is known already, or it comes after
   the windows that are known. *)
acceptable(r, v, w, entries) ==
  /\ v = view[r] /\ status[r] = "normal"
  /\ Cardinality(entries) \in 1..ExpectedClients
  /\ IF WindowOf(schedule[r], w) # {} THEN WindowOf(schedule[r], w) = entries
     ELSE LastEnd(schedule[r]) <= w

(* The schedule variables after an accepted prepare *)
acceptPrepare(r, v, w, entries) ==
  IF WindowOf(schedule[r], w) # {} THEN UNCHANGED <<schedule, epoch, ready>>
  ELSE /\ schedule' = [schedule EXCEPT ![r] = @ \cup entries]
       /\ epoch' = [epoch EXCEPT ![r] = v]
       /\ ready' = [ready EXCEPT ![r] = committedEnd[r] > 0]

(* The windows that every member of a quorum held while it was normal in view
   v, h being what each replica held: no later view may lose them. *)
ChosenEnd(h, v, Q) == Min({LastEnd(h[q][v]) : q \in Q})

ChosenIn(h, v) == UNION {{UpTo(h[q][v], ChosenEnd(h, v, Q)) : q \in Q} : Q \in Quorums}

Longest(S) == CHOOSE a \in S : \A b \in S : LastEnd(b) <= LastEnd(a)

(* A replica holds its schedule while it is normal *)
hold(r, sched) ==
  IF held[r][view[r]] = sched THEN UNCHANGED historyVars
  ELSE /\ held' = [held EXCEPT ![r][view[r]] = sched]
       /\ agreed' = Longest(UNION {ChosenIn(held', v) : v \in Views})

Batch(r, w, entries, committed, history) ==
  [type |-> "batch", view |-> view[r], from |-> r, history |-> history,
   window |-> w, entries |-> entries, committed |-> committed]

-----------------------------------------------------------------------------
(* The leader: requests and proposals *)

(* handleHsRequest.  A client that asks for a window that is committed is
   answered at once, which changes nothing here. *)
TakeRequest(r, c, w) ==
  /\ NormalLeader(r)
  /\ <<view[r], w, c>> \in plan.asks
  /\ ~ \E m \in committedSchedule(r) : m.first = w /\ m.client = c
  /\ w >= committedEnd[r]
  /\ Cardinality({d \in Clients \ {c} : <<w, d>> \in requests[r]}) < ExpectedClients
  /\ requests' = [requests EXCEPT ![r] = @ \cup {<<w, c>>}]
  /\ UNCHANGED <<viewVars, scheduleVars, proposal, prepared, reading, msgs, boundVars,
                 historyVars, leftover>>

(* expireScheduleRequestsLocked: the window has passed *)
ExpireRequests(r, w) ==
  /\ NormalLeader(r)
  /\ \E c \in Clients : <<w, c>> \in requests[r]
  /\ requests' = [requests EXCEPT ![r] = {q \in @ : q[1] # w}]
  /\ UNCHANGED <<viewVars, scheduleVars, proposal, prepared, reading, msgs, boundVars,
                 historyVars, leftover>>

RequestedBy(r, w) == {c \in Clients : <<w, c>> \in requests[r]}

(* scheduleLoop without a proposal: the earliest requested window is proposed,
   or dropped if it is committed or cannot be accepted. *)
Propose(r) ==
  /\ NormalLeader(r)
  /\ proposal[r] = NoProposal
  /\ requests[r] # {}
  /\ LET w == Min({q[1] : q \in requests[r]})
         entries == Entries(w, RequestedBy(r, w))
     IN  /\ requests' = [requests EXCEPT ![r] = {q \in @ : q[1] # w}]
         /\ IF w >= committedEnd[r] /\ acceptable(r, view[r], w, entries)
            THEN /\ acceptPrepare(r, view[r], w, entries)
                 /\ proposal' = [proposal EXCEPT ![r] = [view |-> view[r], window |-> w]]
                 /\ prepared' = [prepared EXCEPT ![r] = {r}]
                 /\ msgs' = msgs \cup {Batch(r, w, entries, FALSE, committedSchedule(r))}
                 /\ hold(r, schedule'[r])
            ELSE UNCHANGED <<schedule, epoch, ready, proposal, prepared, msgs, historyVars>>
  /\ UNCHANGED <<viewVars, committedEnd, reading, boundVars, leftover>>

(* scheduleLoop: a quorum prepared the proposal *)
CommitProposal(r) ==
  /\ NormalLeader(r)
  /\ proposal[r] # NoProposal
  /\ Cardinality(prepared[r]) >= QuorumSize
  /\ LET w == proposal[r].window
         entries == WindowOf(schedule[r], w)
     IN  /\ committedEnd' = [committedEnd EXCEPT ![r] = w + 1]
         /\ ready' = [ready EXCEPT ![r] = TRUE]
         /\ proposal' = [proposal EXCEPT ![r] = NoProposal]
         /\ msgs' = msgs \cup {Batch(r, w, entries, TRUE, UpTo(schedule[r], w + 1))}
  /\ UNCHANGED <<viewVars, schedule, epoch, requests, prepared, reading,
                 boundVars, historyVars, leftover>>

(* scheduleLoop with nothing to propose: the committed history is repeated.  A
   batch that has it and breaks off behind it does the same. *)
SendHistory(r) ==
  /\ NormalLeader(r)
  /\ proposal[r] = NoProposal
  /\ committedSchedule(r) # {}
  /\ ~ \E m \in msgs : m.type = "batch" /\ m.view = view[r] /\ m.history = committedSchedule(r)
  /\ msgs' = msgs \cup {Batch(r, 0, {}, FALSE, committedSchedule(r))}
  /\ UNCHANGED <<viewVars, scheduleVars, leaderVars, reading, boundVars, historyVars, leftover>>

\* Mutant of PrepareReply: an acknowledgement of any proposal counts.
PrepareReplyToAny(r, m) ==
  /\ NormalLeader(r)
  /\ m.type = "prepareReply"
  /\ m.view = view[r]
  /\ prepared' = [prepared EXCEPT ![r] = @ \cup {m.from}]
  /\ UNCHANGED <<viewVars, scheduleVars, requests, proposal, reading, msgs, boundVars,
                 historyVars, leftover>>

(* handleSchdPrepareReply *)
PrepareReply(r, m) ==
  /\ NormalLeader(r)
  /\ m.type = "prepareReply"
  /\ m.view = proposal[r].view /\ m.window = proposal[r].window
  /\ prepared' = [prepared EXCEPT ![r] = @ \cup {m.from}]
  /\ UNCHANGED <<viewVars, scheduleVars, requests, proposal, reading, msgs, boundVars,
                 historyVars, leftover>>

-----------------------------------------------------------------------------
(* A follower reads a batch: snapshot, prepare, commit *)

CurrentLeader(r, m) == m.view = view[r] /\ status[r] = "normal" /\ m.from = LeaderIndex(view[r])

(* handleScheduleInstall's verdict *)
snapshotOK(r, m) ==
  /\ CurrentLeader(r, m)
  /\ IF m.history = {} THEN schedule[r] = {} \/ committedEnd[r] = 0
     ELSE schedulePrefix(schedule[r], m.history) \/ schedulePrefix(m.history, schedule[r])

PrepareReplyOf(r, m) ==
  [type |-> "prepareReply", view |-> m.view, from |-> r, window |-> m.window]

(* Batches that would have no effect are not read: those of a view that the
   replica has left, and repeated ones that say nothing new. *)
BringsNews(r, m) ==
  \/ m.view > view[r] /\ m.committed
  \/ /\ m.view = view[r]
     /\ \/ ~ ready[r] /\ m.history # {}
        \/ LastEnd(m.history) > committedEnd[r]
        \/ m.entries # {} /\ PrepareReplyOf(r, m) \notin msgs
        \/ m.committed /\ m.window >= committedEnd[r]

\* Mutant of ReadSnapshot: a repeated, shorter history replaces a longer one.
ReadSnapshotReplacing(r, m) ==
  /\ m.type = "batch" /\ m.from # r /\ BringsNews(r, m)
  /\ reading' = [reading EXCEPT ![r] =
                   IF m.entries = {} THEN NoBatch
                   ELSE [stage |-> "prepare", msg |-> m, ok |-> snapshotOK(r, m)]]
  /\ IF snapshotOK(r, m) /\ m.history # {}
     THEN /\ ready' = [ready EXCEPT ![r] = TRUE]
          /\ schedule' = [schedule EXCEPT ![r] = m.history]
          /\ epoch' = [epoch EXCEPT ![r] = m.view]
          /\ committedEnd' = [committedEnd EXCEPT ![r] = LastEnd(m.history)]
          /\ hold(r, schedule'[r])
     ELSE UNCHANGED <<scheduleVars, historyVars>>
  /\ UNCHANGED <<viewVars, leaderVars, msgs, boundVars, leftover>>

ReadSnapshot(r, m) ==
  /\ m.type = "batch" /\ m.from # r /\ BringsNews(r, m)
  /\ reading' = [reading EXCEPT ![r] =
                   IF m.entries = {} THEN NoBatch
                   ELSE [stage |-> "prepare", msg |-> m, ok |-> snapshotOK(r, m)]]
  /\ IF snapshotOK(r, m) /\ m.history # {}
     THEN /\ ready' = [ready EXCEPT ![r] = TRUE]
          /\ IF schedulePrefix(schedule[r], m.history)
             THEN /\ schedule' = [schedule EXCEPT ![r] = m.history]
                  /\ epoch' = [epoch EXCEPT ![r] = m.view]
                  /\ committedEnd' = [committedEnd EXCEPT ![r] = LastEnd(m.history)]
             ELSE /\ committedEnd' = [committedEnd EXCEPT ![r] = Max({@, LastEnd(m.history)})]
                  /\ UNCHANGED <<schedule, epoch>>
          /\ hold(r, schedule'[r])
     ELSE UNCHANGED <<scheduleVars, historyVars>>
  /\ UNCHANGED <<viewVars, leaderVars, msgs, boundVars, leftover>>

(* clientListener skips the prepare when the snapshot before it was refused *)
ReadPrepare(r) ==
  /\ reading[r].stage = "prepare"
  /\ LET m == reading[r].msg
     IN  /\ reading' = [reading EXCEPT ![r] =
                          IF m.committed THEN [stage |-> "commit", msg |-> m] ELSE NoBatch]
         /\ IF reading[r].ok /\ CurrentLeader(r, m) /\ acceptable(r, m.view, m.window, m.entries)
            THEN /\ acceptPrepare(r, m.view, m.window, m.entries)
                 /\ msgs' = msgs \cup {PrepareReplyOf(r, m)}
                 /\ hold(r, schedule'[r])
            ELSE UNCHANGED <<schedule, epoch, ready, msgs, historyVars>>
  /\ UNCHANGED <<viewVars, committedEnd, leaderVars, boundVars, leftover>>

\* Mutant of ReadCommit: a window that was never prepared is committed.
ReadCommitUnseen(r) ==
  /\ reading[r].stage = "commit"
  /\ LET m == reading[r].msg
     IN  IF CurrentLeader(r, m)
         THEN /\ committedEnd' = [committedEnd EXCEPT ![r] = Max({@, m.window + 1})]
              /\ ready' = [ready EXCEPT ![r] = TRUE]
         ELSE UNCHANGED <<committedEnd, ready>>
  /\ reading' = [reading EXCEPT ![r] = NoBatch]
  /\ UNCHANGED <<viewVars, schedule, epoch, leaderVars, msgs, boundVars,
                 historyVars, leftover>>

(* handleSchdCommit: only the window's times are compared *)
ReadCommit(r) ==
  /\ reading[r].stage = "commit"
  /\ LET m == reading[r].msg
     IN  IF CurrentLeader(r, m) /\ WindowOf(schedule[r], m.window) # {}
         THEN /\ committedEnd' = [committedEnd EXCEPT ![r] = Max({@, m.window + 1})]
              /\ ready' = [ready EXCEPT ![r] = TRUE]
         ELSE UNCHANGED <<committedEnd, ready>>
  /\ reading' = [reading EXCEPT ![r] = NoBatch]
  /\ UNCHANGED <<viewVars, schedule, epoch, leaderVars, msgs, boundVars,
                 historyVars, leftover>>

-----------------------------------------------------------------------------
(* View changes *)

(* The rest of a batch of an older view has no effect any more *)
dropStale(r, v) ==
  reading' = [reading EXCEPT ![r] = IF @.stage # "none" /\ @.msg.view < v THEN NoBatch ELSE @]

(* beginViewChangeLocked and publishViewChange *)
beginViewChange(r, v) ==
  /\ v > view[r]
  /\ view' = [view EXCEPT ![r] = v]
  /\ status' = [status EXCEPT ![r] = "viewChange"]
  /\ phase' = [phase EXCEPT ![r] = "vc"]
  /\ asked' = asked \cup {<<r, v>>}
  /\ ready' = [ready EXCEPT ![r] = FALSE]
  /\ proposal' = [proposal EXCEPT ![r] = NoProposal]
  /\ requests' = [requests EXCEPT ![r] = {}]
  /\ dropStale(r, v)
  /\ UNCHANGED <<lastNormalView, schedule, epoch, committedEnd, prepared, msgs, boundVars,
                 historyVars, leftover>>

(* The leader is suspected, or the fallback timer of a view change expires *)
Suspect(r) ==
  /\ <<r, view[r]>> \in plan.suspects /\ view[r] < MaxView
  /\ beginViewChange(r, view[r] + 1)

(* handleViewChangeRequest of a higher view *)
Follow(r, v) ==
  /\ \E q \in Replicas : <<q, v>> \in asked
  /\ beginViewChange(r, v)

(* handleViewChangeRequest: enough requests, the report goes to the leader *)
Report(r) ==
  /\ phase[r] = "vc"
  /\ Cardinality({q \in Replicas : <<q, view[r]>> \in asked}) >= QuorumSize
  /\ msgs' = msgs \cup {[type |-> "report", view |-> view[r], from |-> r,
                         lastNormalView |-> lastNormalView[r], schedule |-> schedule[r]]}
  /\ UNCHANGED <<viewVars, scheduleVars, leaderVars, reading, boundVars, historyVars, leftover>>

(* mergeSuffix: the reports of the highest last normal view *)
survivors(reports) ==
  {m \in reports : \A o \in reports : o.lastNormalView <= m.lastNormalView}

scheduleConflict(reports) ==
  \E a, b \in survivors(reports) :
    ~ schedulePrefix(a.schedule, b.schedule) /\ ~ schedulePrefix(b.schedule, a.schedule)

\* Mutant of mergedSchedule: only what every survivor holds.
mergedScheduleShortest(reports) ==
  LET shortest == CHOOSE a \in survivors(reports) :
                    \A b \in survivors(reports) : schedulePrefix(a.schedule, b.schedule)
  IN  shortest.schedule

mergedSchedule(reports) ==
  LET longest == CHOOSE a \in survivors(reports) :
                   \A b \in survivors(reports) : schedulePrefix(b.schedule, a.schedule)
  IN  longest.schedule

ReportsOf(r, Q) ==
  {m \in msgs : m.type = "report" /\ m.view = view[r] /\ m.from \in Q}

HasReports(r, Q) ==
  /\ phase[r] = "vc" /\ IsLeader(r)
  /\ {m.from : m \in ReportsOf(r, Q)} = Q

(* driveViewChange: the merge is installed and multicast *)
Merge(r, Q) ==
  /\ HasReports(r, Q)
  /\ ~ scheduleConflict(ReportsOf(r, Q))
  /\ LET merged == mergedSchedule(ReportsOf(r, Q))
     IN  /\ schedule' = [schedule EXCEPT ![r] = merged]
         /\ msgs' = msgs \cup {[type |-> "startView", view |-> view[r], schedule |-> merged]}
  /\ epoch' = [epoch EXCEPT ![r] = view[r]]
  /\ ready' = [ready EXCEPT ![r] = FALSE]
  /\ phase' = [phase EXCEPT ![r] = "installed"]
  /\ UNCHANGED <<view, status, lastNormalView, asked, committedEnd, leaderVars,
                 reading, boundVars, historyVars, leftover>>

(* driveViewChange refuses a view whose reports have conflicting schedules *)
RefuseMerge(r, Q) ==
  /\ HasReports(r, Q)
  /\ scheduleConflict(ReportsOf(r, Q))
  /\ view[r] < MaxView
  /\ beginViewChange(r, view[r] + 1)

(* publishNormalViewLocked and the end of finishRecoveryIfComplete: the whole
   history counts as committed. *)
publish(r) ==
  /\ status' = [status EXCEPT ![r] = "normal"]
  /\ lastNormalView' = [lastNormalView EXCEPT ![r] = view[r]]
  /\ phase' = [phase EXCEPT ![r] = "none"]
  /\ ready' = [ready EXCEPT ![r] = epoch[r] = view[r] /\ schedule[r] # {}]
  /\ committedEnd' = [committedEnd EXCEPT ![r] = IF schedule[r] = {} THEN @
                                                 ELSE LastEnd(schedule[r])]
  /\ hold(r, schedule[r])
  /\ leftover' = IF schedule[r] = {} /\ committedEnd[r] > 0 THEN leftover \cup {r}
                 ELSE leftover \ {r}
  /\ UNCHANGED <<view, asked, schedule, epoch, leaderVars, reading, msgs, boundVars>>

LeaderPublish(r) == phase[r] = "installed" /\ publish(r)

FinishRecovery(r) == phase[r] = "recover" /\ publish(r)

(* handleViewChange of a late report, handleStateQuery: the leader sends what
   it holds now, a window that is only proposed included. *)
ResendStartView(r) ==
  /\ resends < plan.resends
  /\ NormalLeader(r) /\ lastNormalView[r] = view[r] /\ view[r] > 0
  /\ \E q \in Replicas : view[q] < view[r] \/ (view[q] = view[r] /\ phase[q] = "vc")
  /\ msgs' = msgs \cup {[type |-> "startView", view |-> view[r], schedule |-> schedule[r]]}
  /\ msgs' # msgs
  /\ resends' = resends + 1
  /\ UNCHANGED <<viewVars, scheduleVars, leaderVars, reading, plan, historyVars, leftover>>

(* handleStartView and installStartView *)
InstallStartView(r, m) ==
  /\ m.type = "startView"
  /\ r # LeaderIndex(m.view)
  /\ m.view >= view[r]
  /\ m.view = view[r] => status[r] # "normal" /\ phase[r] # "recover"
  /\ view' = [view EXCEPT ![r] = m.view]
  /\ status' = [status EXCEPT ![r] = "viewChange"]
  /\ phase' = [phase EXCEPT ![r] = "recover"]
  /\ schedule' = [schedule EXCEPT ![r] = m.schedule]
  /\ epoch' = [epoch EXCEPT ![r] = m.view]
  /\ ready' = [ready EXCEPT ![r] = FALSE]
  /\ dropStale(r, m.view)
  /\ UNCHANGED <<lastNormalView, asked, committedEnd, leaderVars, msgs, boundVars,
                 historyVars, leftover>>

-----------------------------------------------------------------------------
Init ==
  /\ view = [r \in Replicas |-> 0]
  /\ status = [r \in Replicas |-> "normal"]
  /\ lastNormalView = [r \in Replicas |-> 0]
  /\ phase = [r \in Replicas |-> "none"]
  /\ asked = {}
  /\ schedule = [r \in Replicas |-> {}]
  /\ epoch = [r \in Replicas |-> 0]
  /\ ready = [r \in Replicas |-> FALSE]
  /\ committedEnd = [r \in Replicas |-> 0]
  /\ requests = [r \in Replicas |-> {}]
  /\ proposal = [r \in Replicas |-> NoProposal]
  /\ prepared = [r \in Replicas |-> {}]
  /\ reading = [r \in Replicas |-> NoBatch]
  /\ msgs = {}
  /\ resends = 0
  /\ plan \in Plans
  /\ held = [r \in Replicas |-> [v \in Views |-> {}]]
  /\ agreed = {}
  /\ leftover = {}

Next ==
  \E r \in Replicas :
    \/ \E c \in Clients, w \in Windows : TakeRequest(r, c, w)
    \/ \E w \in Windows : ExpireRequests(r, w)
    \/ Propose(r)
    \/ CommitProposal(r)
    \/ SendHistory(r)
    \/ ReadPrepare(r)
    \/ ReadCommit(r)
    \/ Suspect(r)
    \/ \E v \in Views : Follow(r, v)
    \/ Report(r)
    \/ \E Q \in Quorums : Merge(r, Q) \/ RefuseMerge(r, Q)
    \/ LeaderPublish(r)
    \/ FinishRecovery(r)
    \/ ResendStartView(r)
    \/ \E m \in msgs : PrepareReply(r, m) \/ ReadSnapshot(r, m) \/ InstallStartView(r, m)

Spec == Init /\ [][Next]_vars

-----------------------------------------------------------------------------
(* Properties *)

SameUpTo(a, b, end) == UpTo(a, end) = UpTo(b, end)

(* Two replicas that admit buses in the same view hold the same entries up to
   the earlier of their committed ends, so they put a bus that both admit into
   the same slot: prepares that skip a window, commits that name only times
   and histories repeated out of order never make them differ.  Except after
   commitScheduleHistoryLocked kept the committed end of windows that were lost. *)
SlotsAgree ==
  \A r, q \in Replicas \ leftover :
    view[r] = view[q] /\ scheduleActive(r) /\ scheduleActive(q)
      => SameUpTo(schedule[r], schedule[q], Min({committedEnd[r], committedEnd[q]}))

(* A window that a quorum held in one view is held, unchanged and behind the
   same windows, by every replica that is normal in a later view: a proposal
   survives the change of leader once the old leader could commit it. *)
ChosenKept ==
  \A r \in Replicas, v \in Views :
    status[r] = "normal" /\ v < view[r]
      => \A h \in ChosenIn(held, v) : UpTo(schedule[r], LastEnd(h)) = h

(* What a leader takes for committed, and grants to the clients that asked, a
   quorum of its view holds, or the leader took it over with the view:
   acknowledgements of an earlier proposal never count for this one. *)
GrantsBacked ==
  \A r \in Replicas : NormalLeader(r) =>
    LET backed == UNION {ChosenIn(held, view[r]),
                         {m.schedule : m \in {o \in msgs : o.type = "startView"
                                                              /\ o.view = view[r]}}}
    IN  \A m \in committedSchedule(r) : \E h \in backed : m \in h

History == INSTANCE BusHistory WITH history <- agreed

(* Over all views the replicas implement one append-only history of windows. *)
ImplementsHistory == History!Spec

=============================================================================
