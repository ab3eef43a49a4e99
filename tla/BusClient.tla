------------------------------ MODULE BusClient -----------------------------
(***************************************************************************)
(* One PaxosBus client (client.go, client_schedule.go, client_plan.go,     *)
(* client_control.go): its goroutines and their locks.  It asks the leader *)
(* for lines in windows, pauses when a replica reports a newer view until  *)
(* a newer leader grants a window, boards requests on the buses of its     *)
(* windows, boards them again after a timeout, and counts a request        *)
(* committed when a quorum with the leader of one view names one log       *)
(* index.                                                                  *)
(*                                                                         *)
(* The replicas are the environment: their views go up, a leader that is   *)
(* normal grants what the client asked for (the same line in every view:   *)
(* BusSchedule), and they answer requests.  A control report is read by    *)
(* the client when it is written: reports of one replica come in order, so *)
(* a late one is an early one of a replica that is behind.  Time is        *)
(* counted in buses; only the clock of windows is kept, the timers of the  *)
(* request and the janitor loop may fire at any time.                      *)
(***************************************************************************)
EXTENDS Integers, FiniteSetsExt, SequencesExt, Functions

CONSTANTS
  N, F,
  Width,     \* length of a window
  MaxTime,   \* bound: the clock of any plan
  MaxView,   \* bound: the views of any plan
  Intervals, \* the intervals an operator may set, the first one first
  Plans      \* bound: [time, view, changes, requests, polls, moves, answers]: how far the
             \* clock, the views and the intervals go, the requests generated, the
             \* replicas whose control connection works, those that may change views,
             \* the <<replica, view, log index>> that answer a request

ASSUME ClientAssumption ==
  /\ F \in Nat /\ N = 2 * F + 1
  /\ Width \in Nat \ {0} /\ MaxTime \in Nat /\ MaxView \in Nat
  /\ Intervals \in Seq(Nat) /\ Intervals # <<>>
  /\ \A p \in Plans : /\ p.polls \cup p.moves \subseteq 0..(N - 1)
                      /\ p.time \in 0..MaxTime /\ p.view \in 0..MaxView
                      /\ p.changes \in 0..(Len(Intervals) - 1)
                      /\ p.answers \subseteq (0..(N - 1)) \X (0..MaxView) \X Nat

Replicas == 0..(N - 1)
Views == 0..MaxView
QuorumSize == F + 1
LeaderIndex(v) == v % N
Starts == {t \in 0..MaxTime : t % Width = 0}

VARIABLES
  plan,
  rview, rnormal, \* the replicas' views and whether they are normal in them
  wasNormal,      \* history: <<replica, view>>
  grants,         \* HsReply messages sent: [start, interval, view]
  clock,
  desired,        \* desiredInterval, an index of Intervals
  dialled,        \* the view whose leader scheduleLoop talks to
  asked,          \* requests: start -> interval, of windows not yet over
  submitted,      \* <<start, interval>> that were sent
  windows,        \* start -> [interval, view] granted and accepted
  replies,        \* handshakeReplies: grants that awaitInitialSchedule has not looked at
  started,        \* startupComplete
  paused, activeView, pauseView, viewHint,
  controlStatus,  \* the last report of each replica
  pausing,        \* the view a receiver of control reports is about to pause for
  lastArrival,    \* of busLoop
  board,          \* sendBus: the arrival found and the requests taken
  sent,           \* history: arrivals of the buses sent
  pending, retry, \* requests that wait for a bus
  expired,        \* reboard: requests whose timer fired and that are not in retry yet
  inflight,       \* rInflight: request -> [committed, votes]
  boarded,        \* history: requests that were on a bus
  count,          \* history: how often each request was counted committed
  reborn          \* history: requests the janitor collected while a copy was on its way to a bus

replicaVars == <<rview, rnormal, wasNormal, grants>>
scheduleVars == <<desired, dialled, asked, submitted, windows>>
controlVars == <<replies, started, paused, activeView, pauseView, viewHint, controlStatus, pausing>>
busVars == <<lastArrival, board, sent>>
requestVars == <<pending, retry, expired, inflight, boarded, count, reborn>>
vars == <<plan, replicaVars, clock, scheduleVars, controlVars, busVars, requestVars>>

NoBoard == [stage |-> "none"]
NoView == -1

-----------------------------------------------------------------------------
(* The replicas *)

BeginView(r) ==
  /\ r \in plan.moves /\ rview[r] < plan.view
  /\ rview' = [rview EXCEPT ![r] = @ + 1]
  /\ rnormal' = [rnormal EXCEPT ![r] = FALSE]
  /\ UNCHANGED <<plan, wasNormal, grants, clock, scheduleVars, controlVars, busVars, requestVars>>

(* A follower becomes normal by a StartView, which the leader of the view sends
   before it is normal itself and which may be its last act in the view. *)
BecomeNormal(r) ==
  /\ ~ rnormal[r]
  /\ rview[LeaderIndex(rview[r])] >= rview[r]
  /\ rnormal' = [rnormal EXCEPT ![r] = TRUE]
  /\ wasNormal' = wasNormal \cup {<<r, rview[r]>>}
  /\ UNCHANGED <<plan, rview, grants, clock, scheduleVars, controlVars, busVars, requestVars>>

(* A leader answers a request for a line: what was granted before is repeated. *)
Grant(r, start, interval) ==
  /\ rnormal[r] /\ r = LeaderIndex(rview[r]) /\ r = LeaderIndex(dialled)
  /\ <<start, interval>> \in submitted
  /\ \A g \in grants : g.start = start => g.interval = interval /\ g.view < rview[r]
  /\ grants' = grants \cup {[start |-> start, interval |-> interval, view |-> rview[r]]}
  /\ UNCHANGED <<plan, rview, rnormal, wasNormal, clock, scheduleVars, controlVars, busVars, requestVars>>

-----------------------------------------------------------------------------
(* scheduleLoop *)

Tick ==
  /\ clock < plan.time
  /\ clock' = clock + 1
  /\ UNCHANGED <<plan, replicaVars, scheduleVars, controlVars, busVars, requestVars>>

SetBusInterval ==
  /\ desired <= plan.changes
  /\ desired' = desired + 1
  /\ UNCHANGED <<plan, replicaVars, clock, dialled, asked, submitted, windows, controlVars,
                 busVars, requestVars>>

scheduleTarget == (clock \div Width + 2) * Width

(* A round of scheduleLoop on a connection: the next window is asked for with
   the interval wanted now, windows that are over are forgotten, and what no
   leader of the dialled view or a newer one confirmed is asked for again. *)
AskWindows ==
  LET target == scheduleTarget
      live == {s \in DOMAIN asked \cup {target} : s + Width > clock}
      interval(s) == IF s = target THEN Intervals[desired] ELSE asked[s]
      open == {s \in live : s \notin DOMAIN windows \/ windows[s].view < dialled}
  IN  /\ target \in Starts
      /\ asked' = [s \in live |-> interval(s)]
      /\ submitted' = {p \in submitted : p[1] \in live} \cup {<<s, interval(s)>> : s \in open}
      /\ UNCHANGED <<plan, replicaVars, clock, desired, dialled, windows, controlVars,
                     busVars, requestVars>>

(* The connection is dropped when another replica leads the view it knows. *)
Dial ==
  /\ dialled # viewHint
  /\ dialled' = viewHint
  /\ UNCHANGED <<plan, replicaVars, clock, desired, asked, submitted, windows, controlVars,
                 busVars, requestVars>>

\* Mutant of acceptHandshake: a grant of a view that was left is accepted.
acceptHandshakeOldView(g) ==
  /\ g.start \in DOMAIN asked
  /\ LeaderIndex(g.view) = LeaderIndex(dialled)
  /\ asked[g.start] = g.interval \/ <<g.start, g.interval>> \in submitted
  /\ g.start \in DOMAIN windows => windows[g.start].interval = g.interval

acceptHandshake(g) ==
  /\ g.start \in DOMAIN asked
  /\ LeaderIndex(g.view) = LeaderIndex(dialled)
  /\ asked[g.start] = g.interval \/ <<g.start, g.interval>> \in submitted
  /\ g.start \in DOMAIN windows => windows[g.start].interval = g.interval
  /\ g.view >= pauseView /\ g.view >= viewHint

(* The grant ends a pause, and is handed to awaitInitialSchedule as long as
   that listens. *)
AcceptGrant(g) ==
  /\ acceptHandshake(g)
  /\ g.start \in DOMAIN windows => windows[g.start].view # g.view
  /\ windows' = [s \in DOMAIN windows \cup {g.start} |->
                   IF s = g.start THEN [interval |-> g.interval, view |-> g.view] ELSE windows[s]]
  /\ replies' = IF started THEN replies ELSE Append(replies, g)
  /\ activeView' = IF paused THEN g.view ELSE activeView
  /\ paused' = FALSE
  /\ UNCHANGED <<plan, replicaVars, clock, desired, dialled, asked, submitted, started, pauseView,
                 viewHint, controlStatus, pausing, busVars, requestVars>>

(* awaitInitialSchedule: the first grant whose window is not over starts the
   client, in the view of the grant, whatever was reported since it came. *)
AwaitInitialSchedule ==
  /\ ~ started /\ replies # <<>>
  /\ IF Head(replies).start + Width > clock
     THEN started' = TRUE /\ activeView' = Head(replies).view /\ replies' = <<>>
     ELSE replies' = Tail(replies) /\ UNCHANGED <<started, activeView>>
  /\ UNCHANGED <<plan, replicaVars, clock, scheduleVars, paused, pauseView, viewHint,
                 controlStatus, pausing, busVars, requestVars>>

-----------------------------------------------------------------------------
(* Control reports *)

\* Mutant of certified: one report of the leader is enough.
certifiedByLeader(status, v) ==
  LET normal == {r \in Replicas : status[r].normal /\ status[r].view = v}
  IN  LeaderIndex(v) \in normal

certified(status, v) ==
  LET normal == {r \in Replicas : status[r].normal /\ status[r].view = v}
  IN  Cardinality(normal) >= QuorumSize /\ LeaderIndex(v) \in normal

(* handleControlReply, for a status reply and for a pause (pauseClients):
   first the view that is certified, then, in a second critical section, the
   pause. *)
ControlReply(r) ==
  /\ r \in plan.polls /\ pausing[r] = NoView
  /\ LET status == [controlStatus EXCEPT ![r] = [view |-> rview[r], normal |-> rnormal[r]]]
     IN  /\ controlStatus' = status
         /\ viewHint' = Max({viewHint} \cup {v \in {status[q].view : q \in Replicas} : certified(status, v)})
  /\ pausing' = [pausing EXCEPT ![r] = IF started THEN rview[r] ELSE NoView]
  /\ UNCHANGED <<plan, replicaVars, clock, scheduleVars, replies, started, paused, activeView,
                 pauseView, busVars, requestVars>>

PauseForView(r) ==
  /\ pausing[r] # NoView
  /\ IF pausing[r] > activeView /\ pausing[r] > pauseView
     THEN paused' = TRUE /\ pauseView' = pausing[r]
     ELSE UNCHANGED <<paused, pauseView>>
  /\ pausing' = [pausing EXCEPT ![r] = NoView]
  /\ UNCHANGED <<plan, replicaVars, clock, scheduleVars, replies, started, activeView, viewHint,
                 controlStatus, busVars, requestVars>>

(* scheduleViewAllowed *)
allowed(v) == ~ paused /\ v >= activeView /\ v >= viewHint /\ v >= pauseView

generationEnabled ==
  LET start == (clock \div Width) * Width
  IN  start \in DOMAIN windows /\ windows[start].interval > 0 /\ allowed(windows[start].view)

-----------------------------------------------------------------------------
(* Buses *)

\* Mutant of arrivalIn: the last arrival is sent again.
arrivalInAgain(s, last) ==
  LET step == windows[s].interval
  IN  IF last < s THEN s ELSE s + ((last - s + step - 1) \div step) * step

arrivalIn(s, last) ==
  LET step == windows[s].interval
  IN  IF last < s THEN s ELSE s + ((last - s) \div step + 1) * step

(* nextBusArrival: the arrivals still to be served, and the windows dropped *)
sendable(s) == s <= clock /\ windows[s].interval > 0 /\ allowed(windows[s].view)

arrivals == {arrivalIn(s, lastArrival) : s \in {t \in DOMAIN windows :
               sendable(t) /\ arrivalIn(t, lastArrival) < t + Width}}

spent == {s \in DOMAIN windows :
            /\ s + Width <= clock
            /\ sendable(s) => arrivalIn(s, lastArrival) >= s + Width}

(* A round of busLoop: nextBusArrival drops the windows that are spent, whether
   it finds a bus or not; a bus whose time has come is sent. *)
due == arrivals # {} /\ Min(arrivals) <= clock

FindBus ==
  /\ started /\ board = NoBoard
  /\ due \/ spent # {}
  /\ board' = IF due THEN [stage |-> "found", arrival |-> Min(arrivals)] ELSE NoBoard
  /\ windows' = Restrict(windows, DOMAIN windows \ spent)
  /\ UNCHANGED <<plan, replicaVars, clock, desired, dialled, asked, submitted, controlVars,
                 lastArrival, sent, requestVars>>

(* sendBus takes the requests that wait, unless the client is paused.  It keeps
   pauseMu until the bus is sent. *)
TakeRequests ==
  /\ board.stage = "found"
  /\ IF paused
     THEN /\ board' = NoBoard
          /\ lastArrival' = board.arrival
          /\ UNCHANGED <<pending, retry>>
     ELSE /\ board' = [stage |-> "taken", arrival |-> board.arrival, reqs |-> pending \cup retry]
          /\ pending' = {} /\ retry' = {}
          /\ UNCHANGED lastArrival
  /\ UNCHANGED <<plan, replicaVars, clock, scheduleVars, controlVars, sent, expired, inflight,
                 boarded, count, reborn>>

NewInflight == [committed |-> FALSE, votes |-> {}]

SendBus ==
  /\ board.stage = "taken"
  /\ inflight' = [q \in DOMAIN inflight \cup board.reqs |->
                    IF q \in DOMAIN inflight THEN inflight[q] ELSE NewInflight]
  /\ boarded' = boarded \cup board.reqs
  /\ sent' = Append(sent, board.arrival)
  /\ lastArrival' = board.arrival
  /\ board' = NoBoard
  /\ UNCHANGED <<plan, replicaVars, clock, scheduleVars, controlVars, pending, retry, expired,
                 count, reborn>>

taken == IF board.stage = "taken" THEN board.reqs ELSE {}

(* The requests of which a copy is on its way to a bus once more *)
copies == expired \cup retry \cup taken

(* The steps that take pauseMu wait while sendBus has it. *)
PauseLockFree == board.stage # "taken"

-----------------------------------------------------------------------------
(* Requests *)

(* genLoop *)
Generate(q) ==
  /\ generationEnabled
  /\ q \in plan.requests \ (pending \cup retry \cup taken \cup boarded)
  /\ pending' = pending \cup {q}
  /\ UNCHANGED <<plan, replicaVars, clock, scheduleVars, controlVars, busVars, retry, expired,
                 inflight, boarded, count, reborn>>

(* reqTimeoutLoop: first the watched requests whose timers have fired are
   collected, then they are queued, in a critical section of its own. *)
RequestTimeout(Q) ==
  /\ generationEnabled
  /\ expired = {} /\ Q # {}
  /\ \A q \in Q : q \in DOMAIN inflight /\ ~ inflight[q].committed
  /\ expired' = Q
  /\ UNCHANGED <<plan, replicaVars, clock, scheduleVars, controlVars, busVars, pending, retry,
                 inflight, boarded, count, reborn>>

Reboard ==
  /\ expired # {}
  /\ retry' = retry \cup expired
  /\ expired' = {}
  /\ UNCHANGED <<plan, replicaVars, clock, scheduleVars, controlVars, busVars, pending, inflight,
                 boarded, count, reborn>>

\* Mutant of quorumReached: votes of all views together.
quorumReachedAnyView(votes, v, idx) ==
  LET mask == {r \in Replicas : \E u \in Views : <<r, u, idx>> \in votes}
  IN  Cardinality(mask) >= QuorumSize /\ LeaderIndex(v) \in mask

quorumReached(votes, v, idx) ==
  LET mask == {r \in Replicas : <<r, v, idx>> \in votes}
  IN  Cardinality(mask) >= QuorumSize /\ LeaderIndex(v) \in mask

\* Mutant of RequestReply: each further vote of a quorum counts it again.
RequestReplyRecounts(q, a) ==
  /\ q \in boarded /\ q \in DOMAIN inflight
  /\ a \in plan.answers /\ a \notin inflight[q].votes
  /\ LET votes == inflight[q].votes \cup {a}
         justCommitted == quorumReached(votes, a[2], a[3])
     IN  /\ inflight' = [inflight EXCEPT ![q].votes = votes,
                                         ![q].committed = @ \/ justCommitted]
         /\ count' = [count EXCEPT ![q] = IF justCommitted THEN @ + 1 ELSE @]
  /\ UNCHANGED <<plan, replicaVars, clock, scheduleVars, controlVars, busVars, pending, retry,
                 expired, boarded, reborn>>

(* handleRequestReply.  A replica may answer every copy of a request. *)
RequestReply(q, a) ==
  /\ q \in boarded /\ q \in DOMAIN inflight
  /\ a \in plan.answers /\ a \notin inflight[q].votes
  /\ LET votes == inflight[q].votes \cup {a}
         justCommitted == ~ inflight[q].committed /\ quorumReached(votes, a[2], a[3])
     IN  /\ inflight' = [inflight EXCEPT ![q].votes = votes,
                                         ![q].committed = @ \/ justCommitted]
         /\ count' = [count EXCEPT ![q] = IF justCommitted THEN @ + 1 ELSE @]
  /\ UNCHANGED <<plan, replicaVars, clock, scheduleVars, controlVars, busVars, pending, retry,
                 expired, boarded, reborn>>

\* Mutant of Janitor: what is old is collected, committed or not.
JanitorAll(q) ==
  /\ q \in DOMAIN inflight
  /\ inflight' = Restrict(inflight, DOMAIN inflight \ {q})
  /\ reborn' = IF q \in copies THEN reborn \cup {q} ELSE reborn
  /\ UNCHANGED <<plan, replicaVars, clock, scheduleVars, controlVars, busVars, pending, retry,
                 expired, boarded, count>>

(* janitorLoop, two seconds after the request was sent *)
Janitor(q) ==
  /\ q \in DOMAIN inflight /\ inflight[q].committed
  /\ inflight' = Restrict(inflight, DOMAIN inflight \ {q})
  /\ reborn' = IF q \in copies THEN reborn \cup {q} ELSE reborn
  /\ UNCHANGED <<plan, replicaVars, clock, scheduleVars, controlVars, busVars, pending, retry,
                 expired, boarded, count>>

-----------------------------------------------------------------------------
Init ==
  /\ plan \in Plans
  /\ rview = [r \in Replicas |-> 0] /\ rnormal = [r \in Replicas |-> TRUE]
  /\ wasNormal = Replicas \X {0}
  /\ grants = {}
  /\ clock = 0 /\ desired = 1 /\ dialled = 0
  /\ asked = <<>> /\ submitted = {} /\ windows = <<>>
  /\ replies = <<>> /\ started = FALSE /\ paused = FALSE
  /\ activeView = 0 /\ pauseView = 0 /\ viewHint = 0
  /\ controlStatus = [r \in Replicas |-> [view |-> 0, normal |-> FALSE]]
  /\ pausing = [r \in Replicas |-> NoView]
  /\ lastArrival = 0 /\ board = NoBoard /\ sent = <<>>
  /\ pending = {} /\ retry = {} /\ expired = {} /\ inflight = <<>>
  /\ boarded = {} /\ count = [q \in plan.requests |-> 0] /\ reborn = {}

Next ==
  \/ \E r \in Replicas : BeginView(r) \/ BecomeNormal(r)
  \/ \E r \in Replicas, p \in submitted : Grant(r, p[1], p[2])
  \/ Tick
  \/ SetBusInterval
  \/ AskWindows
  \/ PauseLockFree /\ Dial
  \/ \E g \in grants : PauseLockFree /\ AcceptGrant(g)
  \/ PauseLockFree /\ AwaitInitialSchedule
  \/ \E r \in Replicas : PauseLockFree /\ ControlReply(r)
  \/ \E r \in Replicas : PauseLockFree /\ PauseForView(r)
  \/ PauseLockFree /\ FindBus
  \/ TakeRequests
  \/ SendBus
  \/ \E q \in plan.requests : PauseLockFree /\ Generate(q)
  \/ \E Q \in SUBSET plan.requests : PauseLockFree /\ RequestTimeout(Q)
  \/ Reboard
  \/ \E q \in plan.requests : Janitor(q)
  \/ \E q \in plan.requests, a \in plan.answers : RequestReply(q, a)

Spec == Init /\ [][Next]_vars

-----------------------------------------------------------------------------
(* Properties *)

(* The view whose leader the client follows was normal at a quorum of replicas
   with that leader: reports of different times and of views on their way
   never add up to a view that did not start. *)
HintCertified ==
  /\ <<LeaderIndex(viewHint), viewHint>> \in wasNormal
  /\ Cardinality({r \in Replicas : <<r, viewHint>> \in wasNormal}) >= QuorumSize

(* A client that runs has been granted a window by a leader of the newest view
   it ever paused for, or of a later one, whatever late reports it gets. *)
ResumedByGrant ==
  started /\ ~ paused
    => \E g \in grants : g.view >= pauseView /\ g.view <= activeView

(* The buses a client sends have growing sequence numbers, and each is an
   arrival of a line that a leader granted: pauses, granted windows that are
   granted again and buses that are caught up never give two buses one slot. *)
BusesOnLine ==
  /\ \A i \in 1..(Len(sent) - 1) : sent[i] < sent[i + 1]
  /\ \A i \in DOMAIN sent : \E g \in grants :
       /\ sent[i] \in g.start..(g.start + Width - 1)
       /\ g.interval > 0 /\ (sent[i] - g.start) % g.interval = 0

(* A request that is counted committed has the answers of a quorum, with the
   leader, that name one log index in one view. *)
CommitBacked ==
  \A q \in DOMAIN inflight : inflight[q].committed =>
    \E v \in Views, idx \in {a[3] : a \in plan.answers} :
      /\ <<LeaderIndex(v), v, idx>> \in inflight[q].votes
      /\ Cardinality({r \in Replicas : <<r, v, idx>> \in inflight[q].votes}) >= QuorumSize

(* A request is counted once.  The exception: its last copy was on its way to a
   bus (between two locks of the timer, or while the client was paused) until
   the janitor had forgotten the committed request; the copy makes it a new one. *)
CountedOnce == \A q \in plan.requests : count[q] > 1 => q \in reborn

(* A request that was on a bus is watched until it is committed, so that a
   timeout will board it again however its answers and copies interleave. *)
StillWatched ==
  \A q \in boarded : q \in DOMAIN inflight \/ count[q] > 0

=============================================================================
