--------------------------- MODULE BusClientProofs --------------------------
(***************************************************************************)
(* Proofs about the client, for every configuration, window width, number  *)
(* of windows and views, sequence of intervals and set of answers.         *)
(***************************************************************************)
EXTENDS BusClient, NatFacts, FiniteSetTheorems

\* The values of the variables.
Grants == [start : Nat, interval : Nat, view : Views]
Windows == [interval : Nat, view : Views]
Boards == {NoBoard} \cup [stage : {"found"}, arrival : Nat]
            \cup [stage : {"taken"}, arrival : Nat, reqs : SUBSET plan.requests]
Watches == [committed : BOOLEAN, votes : SUBSET plan.answers]

\* The types, of each group of variables.
ReplicaTypes ==
  /\ plan \in Plans
  /\ rview \in [Replicas -> Views] /\ rnormal \in [Replicas -> BOOLEAN]
  /\ wasNormal \in SUBSET (Replicas \X Views)
  /\ grants \in SUBSET Grants
ScheduleTypes ==
  /\ clock \in Nat /\ desired \in 1 .. Len(Intervals) /\ dialled \in Views
  /\ DOMAIN asked \in SUBSET Nat /\ asked \in [DOMAIN asked -> Nat]
  /\ submitted \in SUBSET (Nat \X Nat)
  /\ DOMAIN windows \in SUBSET Nat /\ windows \in [DOMAIN windows -> Windows]
ControlTypes ==
  /\ replies \in Seq(Grants)
  /\ started \in BOOLEAN /\ paused \in BOOLEAN
  /\ activeView \in Views /\ pauseView \in Views /\ viewHint \in Views
  /\ controlStatus \in [Replicas -> [view : Views, normal : BOOLEAN]]
  /\ pausing \in [Replicas -> Views \cup {NoView}]
BusTypes ==
  /\ lastArrival \in Nat /\ board \in Boards /\ sent \in Seq(Nat)
RequestTypes ==
  /\ pending \in SUBSET plan.requests /\ retry \in SUBSET plan.requests
  /\ expired \in SUBSET plan.requests
  /\ boarded \in SUBSET plan.requests /\ reborn \in SUBSET plan.requests
  /\ DOMAIN inflight \in SUBSET plan.requests /\ inflight \in [DOMAIN inflight -> Watches]
  /\ count \in [plan.requests -> Nat]

\* The type invariant as a whole.
TypeInv == ReplicaTypes /\ ScheduleTypes /\ ControlTypes /\ BusTypes /\ RequestTypes

-----------------------------------------------------------------------------
(* The constants, and which steps touch which variables *)

\* The configuration pbconfig.Parse accepts.
LEMMA Config ==
  /\ F \in Nat /\ N \in Nat \ {0} /\ Width \in Nat \ {0} /\ MaxView \in Nat
  /\ IsFiniteSet(Replicas) /\ Cardinality(Replicas) = N
  /\ \A v \in Views : LeaderIndex(v) \in Replicas
<1>1. F \in Nat /\ N \in Nat \ {0} /\ Width \in Nat \ {0} /\ MaxView \in Nat
  BY ClientAssumption
<1>2. \A v \in Views : v % N \in 0 .. N - 1
  BY <1>1 DEF Views
<1>. QED
  BY <1>1, <1>2, FS_Interval DEF Replicas, LeaderIndex

\* What the plans leave to the network and the operator.
LEMMA PlanFacts ==
  ASSUME NEW p \in Plans
  PROVE  /\ p.view \in Views /\ p.changes \in 0 .. Len(Intervals) - 1
         /\ p.answers \in SUBSET (Replicas \X Views \X Nat)
BY ClientAssumption DEF Replicas, Views

\* The intervals an operator can set.
LEMMA IntervalFacts ==
  /\ Len(Intervals) \in Nat \ {0}
  /\ \A i \in 1 .. Len(Intervals) : Intervals[i] \in Nat
<1>1. Intervals \in Seq(Nat) /\ Intervals # <<>>
  BY ClientAssumption
<1>. QED
  BY <1>1

\* The steps that touch the replicas.
ReplicaSteps ==
  \/ \E r \in Replicas : BeginView(r) \/ BecomeNormal(r)
  \/ \E r \in Replicas, p \in submitted : Grant(r, p[1], p[2])

\* The steps that touch the clock and the windows.
ScheduleSteps ==
  \/ Tick \/ SetBusInterval \/ AskWindows \/ Dial \/ FindBus
  \/ \E g \in grants : AcceptGrant(g)

\* The steps that touch the control state.
ControlSteps ==
  \/ AwaitInitialSchedule
  \/ \E g \in grants : AcceptGrant(g)
  \/ \E r \in Replicas : ControlReply(r) \/ PauseForView(r)

\* The steps that touch the buses.
BusSteps == FindBus \/ TakeRequests \/ SendBus

\* The steps that touch the requests.
RequestSteps ==
  \/ TakeRequests \/ SendBus \/ Reboard
  \/ \E Q \in SUBSET plan.requests : RequestTimeout(Q)
  \/ \E q \in plan.requests : Generate(q) \/ Janitor(q)
  \/ \E q \in plan.requests, a \in plan.answers : RequestReply(q, a)

\* A step leaves a group of variables alone, or is one of those that touch it.
LEMMA Touches ==
  ASSUME [Next]_vars
  PROVE  /\ plan' = plan
         /\ UNCHANGED replicaVars \/ ReplicaSteps
         /\ UNCHANGED <<clock, scheduleVars>> \/ ScheduleSteps
         /\ UNCHANGED controlVars \/ ControlSteps
         /\ UNCHANGED busVars \/ BusSteps
         /\ UNCHANGED requestVars \/ RequestSteps
<1>. USE DEF vars, replicaVars, scheduleVars, controlVars, busVars, requestVars,
             ReplicaSteps, ScheduleSteps, ControlSteps, BusSteps, RequestSteps
<1>1. CASE UNCHANGED vars
  BY <1>1
<1>2. CASE \E r \in Replicas : BeginView(r) \/ BecomeNormal(r)
  BY <1>2 DEF BeginView, BecomeNormal
<1>3. CASE \E r \in Replicas, p \in submitted : Grant(r, p[1], p[2])
  BY <1>3 DEF Grant
<1>4. CASE Tick \/ SetBusInterval \/ AskWindows \/ Dial
  BY <1>4 DEF Tick, SetBusInterval, AskWindows, Dial
<1>5. CASE AwaitInitialSchedule \/ \E g \in grants : AcceptGrant(g)
  BY <1>5 DEF AcceptGrant, AwaitInitialSchedule
<1>6. CASE \E r \in Replicas : ControlReply(r) \/ PauseForView(r)
  BY <1>6 DEF ControlReply, PauseForView
<1>7. CASE FindBus
  BY <1>7 DEF FindBus
<1>8. CASE TakeRequests \/ SendBus
  BY <1>8 DEF TakeRequests, SendBus
<1>9. CASE \/ Reboard
           \/ \E Q \in SUBSET plan.requests : RequestTimeout(Q)
           \/ \E q \in plan.requests : Generate(q) \/ Janitor(q)
  BY <1>9 DEF Generate, RequestTimeout, Reboard, Janitor
<1>10. CASE \E q \in plan.requests, a \in plan.answers : RequestReply(q, a)
  BY <1>10 DEF RequestReply
<1>. QED
  BY <1>1, <1>2, <1>3, <1>4, <1>5, <1>6, <1>7, <1>8, <1>9, <1>10 DEF Next

\* What was granted and which views were normal is never forgotten.
LEMMA HistoryGrows ==
  ASSUME [Next]_vars
  PROVE  grants \in SUBSET grants' /\ wasNormal \in SUBSET wasNormal'
<1>1. CASE UNCHANGED replicaVars
  BY <1>1 DEF replicaVars
<1>2. CASE ReplicaSteps
  BY <1>2 DEF ReplicaSteps, BeginView, BecomeNormal, Grant
<1>. QED
  BY <1>1, <1>2, Touches

-----------------------------------------------------------------------------
(* Types *)

\* The initial values have their types.
LEMMA InitTypes == Init => TypeInv
<1>. SUFFICES ASSUME Init PROVE TypeInv
  OBVIOUS
<1>. USE DEF Init
<1>1. 0 \in Views
  BY Config DEF Views
<1>2. ReplicaTypes
  BY <1>1 DEF ReplicaTypes
<1>3. ScheduleTypes
  <2>1. DOMAIN <<>> = {} /\ <<>> \in [{} -> Nat] /\ <<>> \in [{} -> Windows]
    OBVIOUS
  <2>2. 1 \in 1 .. Len(Intervals)
    BY IntervalFacts
  <2>. QED
    BY <1>1, <2>1, <2>2 DEF ScheduleTypes
<1>4. ControlTypes
  <2>1. replies = <<>> /\ <<>> \in Seq(Grants)
    OBVIOUS
  <2>2. /\ controlStatus \in [Replicas -> [view : Views, normal : BOOLEAN]]
        /\ pausing \in [Replicas -> Views \cup {NoView}]
    BY <1>1
  <2>. QED
    BY <1>1, <2>1, <2>2 DEF ControlTypes
<1>5. BusTypes
  BY DEF BusTypes, Boards
<1>6. RequestTypes
  BY DEF RequestTypes
<1>. QED
  BY <1>2, <1>3, <1>4, <1>5, <1>6 DEF TypeInv

\* The replicas keep their types.
LEMMA ReplicaTypesStep == ASSUME TypeInv, [Next]_vars PROVE ReplicaTypes'
<1>. USE DEF TypeInv, ReplicaTypes
<1>0. plan' = plan
  BY Touches
<1>1. CASE UNCHANGED replicaVars
  BY <1>0, <1>1 DEF replicaVars
<1>2. ASSUME NEW r \in Replicas, BeginView(r)
      PROVE  ReplicaTypes'
  <2>0. plan.view \in Views /\ rview[r] \in Views /\ rview[r] < plan.view
    BY <1>2, PlanFacts DEF BeginView
  <2>1. rview[r] + 1 \in Views
    BY <2>0, Config DEF Views
  <2>. QED
    BY <1>0, <1>2, <2>1 DEF BeginView
<1>3. ASSUME NEW r \in Replicas, BecomeNormal(r)
      PROVE  ReplicaTypes'
  BY <1>0, <1>3 DEF BecomeNormal
<1>4. ASSUME NEW r \in Replicas, NEW p \in submitted, Grant(r, p[1], p[2])
      PROVE  ReplicaTypes'
  <2>1. p[1] \in Nat /\ p[2] \in Nat
    BY DEF ScheduleTypes
  <2>. QED
    BY <1>0, <1>4, <2>1 DEF Grant, Grants
<1>. QED
  BY <1>1, <1>2, <1>3, <1>4, Touches DEF ReplicaSteps

\* So do the clock and the windows.
LEMMA ScheduleTypesStep == ASSUME TypeInv, [Next]_vars PROVE ScheduleTypes'
<1>. USE DEF TypeInv, ScheduleTypes
<1>1. CASE UNCHANGED <<clock, scheduleVars>>
  BY <1>1 DEF scheduleVars
<1>2. CASE Tick
  BY <1>2 DEF Tick, scheduleVars
<1>3. CASE SetBusInterval
  <2>1. desired + 1 \in 1 .. Len(Intervals)
    BY <1>3, PlanFacts, IntervalFacts DEF SetBusInterval, ReplicaTypes
  <2>. QED
    BY <1>3, <2>1 DEF SetBusInterval
<1>4. CASE AskWindows
  <2>. DEFINE target == scheduleTarget
              live == {s \in DOMAIN asked \cup {target} : s + Width > clock}
              interval(s) == IF s = target THEN Intervals[desired] ELSE asked[s]
              open == {s \in live : s \notin DOMAIN windows \/ windows[s].view < dialled}
  <2>1. target \in Nat
    BY <1>4 DEF AskWindows, Starts
  <2>2. live \in SUBSET Nat /\ open \in SUBSET Nat
    BY <2>1
  <2>3. \A s \in live : interval(s) \in Nat
    BY IntervalFacts
  <2>4. /\ asked' = [s \in live |-> interval(s)]
        /\ submitted' = {p \in submitted : p[1] \in live} \cup {<<s, interval(s)>> : s \in open}
        /\ UNCHANGED <<clock, desired, dialled, windows>>
    BY <1>4 DEF AskWindows
  <2>. HIDE DEF target, interval
  <2>5. DOMAIN asked' = live /\ asked' \in [live -> Nat]
    BY <2>3, <2>4
  <2>6. submitted' \in SUBSET (Nat \X Nat)
    BY <2>2, <2>3, <2>4
  <2>. HIDE DEF live
  <2>. QED
    BY <2>2, <2>4, <2>5, <2>6
<1>5. CASE Dial
  BY <1>5 DEF Dial, ControlTypes
<1>6. CASE FindBus
  BY <1>6 DEF FindBus, Restrict
<1>7. ASSUME NEW g \in grants, AcceptGrant(g)
      PROVE  ScheduleTypes'
  <2>1. g.start \in Nat /\ [interval |-> g.interval, view |-> g.view] \in Windows
    BY DEF ReplicaTypes, Grants, Windows
  <2>2. /\ windows' = [s \in DOMAIN windows \cup {g.start} |->
                   IF s = g.start THEN [interval |-> g.interval, view |-> g.view] ELSE windows[s]]
        /\ UNCHANGED <<clock, desired, dialled, asked, submitted>>
    BY <1>7 DEF AcceptGrant
  <2>. QED
    BY <2>1, <2>2
<1>. QED
  BY <1>1, <1>2, <1>3, <1>4, <1>5, <1>6, <1>7, Touches DEF ScheduleSteps

(***************************************************************************)
(* handleControlReply: the view the client follows stays, or becomes one   *)
(* that the reports it holds certify.                                      *)
(***************************************************************************)
LEMMA HintFacts ==
  ASSUME TypeInv, NEW r \in Replicas, ControlReply(r)
  PROVE  /\ controlStatus' \in [Replicas -> [view : Views, normal : BOOLEAN]]
         /\ viewHint' \in Views
         /\ viewHint' = viewHint \/ certified(controlStatus', viewHint')
<1>. DEFINE T == {viewHint} \cup {v \in {controlStatus'[q].view : q \in Replicas} :
                                    certified(controlStatus', v)}
<1>1. controlStatus' = [controlStatus EXCEPT ![r] = [view |-> rview[r], normal |-> rnormal[r]]]
  BY DEF ControlReply
<1>2. controlStatus' \in [Replicas -> [view : Views, normal : BOOLEAN]]
  BY <1>1 DEF TypeInv, ControlTypes, ReplicaTypes
<1>3. viewHint' = Max(T)
  BY DEF ControlReply
<1>4. T \in SUBSET (0 .. MaxView) /\ T # {}
  BY <1>2 DEF TypeInv, ControlTypes, Views
<1>5. PICK x \in T : \A y \in T : x >= y
  BY <1>4, Config, GreatestNatural
<1>6. Max(T) \in T
  BY <1>5 DEF Max
<1>. QED
  BY <1>2, <1>3, <1>4, <1>6 DEF Views

\* The control state keeps its types.
LEMMA ControlTypesStep == ASSUME TypeInv, [Next]_vars PROVE ControlTypes'
<1>. USE DEF TypeInv, ControlTypes
<1>1. CASE UNCHANGED controlVars
  BY <1>1 DEF controlVars
<1>2. ASSUME NEW g \in grants, AcceptGrant(g)
      PROVE  ControlTypes'
  <2>1. g \in Grants /\ g.view \in Views
    BY DEF ReplicaTypes, Grants
  <2>2. replies' \in Seq(Grants)
    BY <1>2, <2>1 DEF AcceptGrant
  <2>. QED
    BY <1>2, <2>1, <2>2 DEF AcceptGrant
<1>3. ASSUME NEW r \in Replicas, ControlReply(r)
      PROVE  ControlTypes'
  <2>1. pausing' \in [Replicas -> Views \cup {NoView}]
    BY <1>3 DEF ControlReply, ReplicaTypes
  <2>. QED
    BY <1>3, <2>1, HintFacts DEF ControlReply
<1>4. ASSUME NEW r \in Replicas, PauseForView(r)
      PROVE  ControlTypes'
  BY <1>4 DEF PauseForView
<1>5. CASE AwaitInitialSchedule
  <2>1. replies # <<>> /\ Head(replies) \in Grants /\ Tail(replies) \in Seq(Grants)
    BY <1>5 DEF AwaitInitialSchedule
  <2>2. Head(replies).view \in Views
    BY <2>1 DEF Grants
  <2>3. replies' \in Seq(Grants)
    <3>1. <<>> \in Seq(Grants)
      OBVIOUS
    <3>2. replies' = <<>> \/ replies' = Tail(replies)
      BY <1>5 DEF AwaitInitialSchedule
    <3>. QED
      BY <2>1, <3>1, <3>2
  <2>. QED
    BY <1>5, <2>2, <2>3 DEF AwaitInitialSchedule
<1>. QED
  BY <1>1, <1>2, <1>3, <1>4, <1>5, Touches DEF ControlSteps

\* nextBusArrival: the arrival after the last one, on the line of the window.
LEMMA ArrivalFacts ==
  ASSUME TypeInv, NEW s \in DOMAIN windows, windows[s].interval > 0
  PROVE  LET a == arrivalIn(s, lastArrival) IN
         /\ a \in Nat /\ a > lastArrival /\ a >= s
         /\ (a - s) % windows[s].interval = 0
<1>. DEFINE step == windows[s].interval
            x == lastArrival - s
<1>1. s \in Nat /\ step \in Nat \ {0} /\ lastArrival \in Nat
  BY DEF TypeInv, ScheduleTypes, Windows, BusTypes
<1>2. CASE lastArrival < s
  <2>1. arrivalIn(s, lastArrival) = s
    BY <1>2 DEF arrivalIn
  <2>2. (s - s) % step = 0
    BY <1>1
  <2>. QED
    BY <1>1, <1>2, <2>1, <2>2
<1>3. CASE lastArrival >= s
  <2>. DEFINE k == (x \div step + 1) * step
  <2>1. x \in Nat
    BY <1>1, <1>3
  <2>. HIDE DEF step, x
  <2>2. k \in Nat /\ k > x /\ k % step = 0
    BY <1>1, <2>1, NextMultiple
  <2>3. arrivalIn(s, lastArrival) = s + k
    BY <1>1, <1>3 DEF arrivalIn, step, x
  <2>. HIDE DEF k
  <2>4. s + k \in Nat /\ s + k > lastArrival /\ s + k >= s /\ (s + k) - s = k
    BY <1>1, <2>2 DEF x
  <2>. QED
    BY <2>2, <2>3, <2>4 DEF step
<1>. QED
  BY <1>1, <1>2, <1>3

\* busLoop: the bus found is an arrival of a window that may be used.
LEMMA FoundBus ==
  ASSUME TypeInv, FindBus, due
  PROVE  \E s \in DOMAIN windows :
           /\ windows[s].interval > 0
           /\ arrivalIn(s, lastArrival) < s + Width
           /\ board' = [stage |-> "found", arrival |-> arrivalIn(s, lastArrival)]
<1>1. \A s \in DOMAIN windows : sendable(s) => arrivalIn(s, lastArrival) \in Nat
  BY ArrivalFacts DEF sendable
<1>2. arrivals \in SUBSET Nat /\ arrivals # {}
  BY <1>1 DEF arrivals, due
<1>3. PICK x \in arrivals : \A y \in arrivals : x <= y
  BY <1>2, LeastNatural
<1>4. Min(arrivals) \in arrivals
  BY <1>3 DEF Min
<1>5. board' = [stage |-> "found", arrival |-> Min(arrivals)]
  BY DEF FindBus
<1>. QED
  BY <1>4, <1>5 DEF arrivals, sendable

\* A bus that is on its way has an arrival, one that is loaded also its requests.
LEMMA BoardFacts ==
  ASSUME TypeInv
  PROVE  /\ board.stage \in {"none", "found", "taken"}
         /\ board.stage = "none" <=> board = NoBoard
         /\ board.stage # "none" => board.arrival \in Nat
         /\ board.stage = "taken" => board.reqs \in SUBSET plan.requests
         /\ taken \in SUBSET plan.requests
BY DEF TypeInv, BusTypes, Boards, NoBoard, taken

\* The buses keep their types.
LEMMA BusTypesStep == ASSUME TypeInv, [Next]_vars PROVE BusTypes'
<1>. USE DEF TypeInv, BusTypes
<1>0. plan' = plan
  BY Touches
<1>1. CASE UNCHANGED busVars
  BY <1>0, <1>1 DEF busVars, Boards
<1>2. CASE FindBus
  <2>1. CASE due
    <3>1. PICK s \in DOMAIN windows :
             /\ windows[s].interval > 0
             /\ board' = [stage |-> "found", arrival |-> arrivalIn(s, lastArrival)]
      BY <1>2, <2>1, FoundBus
    <3>2. arrivalIn(s, lastArrival) \in Nat
      BY <3>1, ArrivalFacts
    <3>3. board' \in Boards'
      BY <3>1, <3>2 DEF Boards
    <3>. QED
      BY <1>2, <3>3 DEF FindBus
  <2>2. CASE ~ due
    BY <1>2, <2>2 DEF FindBus, Boards
  <2>. QED
    BY <2>1, <2>2
<1>3. CASE TakeRequests
  <2>1. board.arrival \in Nat
    BY <1>3, BoardFacts DEF TakeRequests
  <2>2. pending \cup retry \in SUBSET plan.requests
    BY DEF RequestTypes
  <2>3. board' \in Boards' /\ lastArrival' \in Nat
    BY <1>0, <1>3, <2>1, <2>2 DEF TakeRequests, Boards
  <2>. QED
    BY <1>3, <2>3 DEF TakeRequests
<1>4. CASE SendBus
  <2>1. board.arrival \in Nat
    BY <1>4, BoardFacts DEF SendBus
  <2>. QED
    BY <1>4, <2>1 DEF SendBus, Boards
<1>. QED
  BY <1>1, <1>2, <1>3, <1>4, Touches DEF BusSteps

\* handleRequestReply adds the vote to the request it answers, and counts it
\* when the quorum is complete.
LEMMA ReplyFacts ==
  ASSUME TypeInv, NEW q, NEW a \in plan.answers, RequestReply(q, a)
  PROVE  /\ q \in DOMAIN inflight /\ q \in plan.requests
         /\ DOMAIN inflight' = DOMAIN inflight /\ inflight' \in [DOMAIN inflight -> Watches]
         /\ \A p \in DOMAIN inflight \ {q} : inflight'[p] = inflight[p]
         /\ inflight'[q].votes = inflight[q].votes \cup {a}
         /\ inflight[q].committed => inflight'[q].committed /\ count' = count
         /\ ~ inflight[q].committed /\ ~ inflight'[q].committed => count' = count
         /\ ~ inflight[q].committed /\ inflight'[q].committed =>
              /\ quorumReached(inflight'[q].votes, a[2], a[3])
              /\ count' = [count EXCEPT ![q] = @ + 1]
<1>. DEFINE V == inflight[q].votes \cup {a}
            just == ~ inflight[q].committed /\ quorumReached(V, a[2], a[3])
<1>1. q \in DOMAIN inflight /\ inflight[q] \in Watches /\ q \in plan.requests
  BY DEF RequestReply, TypeInv, RequestTypes
<1>2. PICK b \in BOOLEAN : b <=> (inflight[q].committed \/ just)
  OBVIOUS
<1>. DEFINE w == [inflight[q] EXCEPT !.votes = V, !.committed = b]
<1>3. inflight' = [inflight EXCEPT ![q] = w]
  <2>1. inflight' = [inflight EXCEPT ![q] =
             [inflight[q] EXCEPT !.votes = V, !.committed = inflight[q].committed \/ just]]
    BY <1>1 DEF RequestReply
  <2>2. b = (inflight[q].committed \/ just)
    BY <1>2, Zenon
  <2>. HIDE DEF V, just
  <2>. QED
    BY <2>1, <2>2, Zenon
<1>4. w \in Watches /\ w.votes = V /\ w.committed = b
  <2>1. V \in SUBSET plan.answers
    BY <1>1 DEF Watches
  <2>. HIDE DEF V
  <2>. QED
    BY <1>1, <2>1 DEF Watches
<1>. HIDE DEF w
<1>5. /\ DOMAIN inflight' = DOMAIN inflight /\ inflight' \in [DOMAIN inflight -> Watches]
      /\ \A p \in DOMAIN inflight \ {q} : inflight'[p] = inflight[p]
      /\ inflight'[q] = w
  BY <1>1, <1>3, <1>4 DEF TypeInv, RequestTypes
<1>6. count' = [count EXCEPT ![q] = IF just THEN @ + 1 ELSE @]
  BY DEF RequestReply
<1>7. inflight'[q].committed <=> (inflight[q].committed \/ just)
  BY <1>2, <1>4, <1>5, Zenon
<1>8. inflight'[q].votes = V
  BY <1>4, <1>5
<1>9. ~ just => count' = count
  BY <1>6 DEF TypeInv, RequestTypes
<1>10. just => count' = [count EXCEPT ![q] = @ + 1]
  BY <1>6
<1>. QED
  BY <1>1, <1>5, <1>7, <1>8, <1>9, <1>10

\* The requests keep their types.
LEMMA RequestTypesStep == ASSUME TypeInv, [Next]_vars PROVE RequestTypes'
<1>. USE DEF TypeInv, RequestTypes
<1>0. plan' = plan /\ Watches' = Watches
  BY Touches DEF Watches
<1>1. CASE UNCHANGED requestVars
  BY <1>0, <1>1 DEF requestVars
<1>2. CASE TakeRequests
  BY <1>0, <1>2 DEF TakeRequests
<1>3. CASE SendBus
  <2>1. board.reqs \in SUBSET plan.requests
    BY <1>3, BoardFacts DEF SendBus
  <2>2. NewInflight \in Watches
    BY DEF NewInflight, Watches
  <2>. DEFINE D == DOMAIN inflight \cup board.reqs
  <2>3. inflight' = [q \in D |-> IF q \in DOMAIN inflight THEN inflight[q] ELSE NewInflight]
    BY <1>3 DEF SendBus
  <2>4. DOMAIN inflight' = D /\ inflight' \in [D -> Watches]
    BY <2>2, <2>3
  <2>. QED
    BY <1>0, <1>3, <2>1, <2>4 DEF SendBus
<1>4. ASSUME \/ \E q \in plan.requests : Generate(q)
             \/ \E Q \in SUBSET plan.requests : RequestTimeout(Q)
             \/ Reboard
      PROVE  RequestTypes'
  BY <1>0, <1>4 DEF Generate, RequestTimeout, Reboard
<1>5. ASSUME NEW q \in plan.requests, Janitor(q)
      PROVE  RequestTypes'
  <2>. DEFINE D == DOMAIN inflight \ {q}
  <2>1. inflight' = [p \in D |-> inflight[p]]
    BY <1>5 DEF Janitor, Restrict
  <2>2. DOMAIN inflight' = D /\ inflight' \in [D -> Watches]
    BY <2>1
  <2>. QED
    BY <1>0, <1>5, <2>2 DEF Janitor
<1>6. ASSUME NEW q \in plan.requests, NEW a \in plan.answers, RequestReply(q, a)
      PROVE  RequestTypes'
  <2>1. DOMAIN inflight' = DOMAIN inflight /\ inflight' \in [DOMAIN inflight -> Watches]
    BY <1>6, ReplyFacts
  <2>2. count' \in [plan.requests -> Nat]
    BY <1>6 DEF RequestReply
  <2>. QED
    BY <1>0, <1>6, <2>1, <2>2 DEF RequestReply
<1>. QED
  BY <1>1, <1>2, <1>3, <1>4, <1>5, <1>6, Touches DEF RequestSteps

\* All variables keep their types.
LEMMA Types == Spec => []TypeInv
<1>1. TypeInv /\ [Next]_vars => TypeInv'
  BY ReplicaTypesStep, ScheduleTypesStep, ControlTypesStep, BusTypesStep, RequestTypesStep DEF TypeInv
<1>. QED
  BY <1>1, InitTypes, PTL DEF Spec

-----------------------------------------------------------------------------
(* The view the client follows *)

\* What a replica reports, and what the client holds of the reports, was so.
HintInv ==
  /\ \A r \in Replicas : rnormal[r] => <<r, rview[r]>> \in wasNormal
  /\ \A r \in Replicas : controlStatus[r].normal => <<r, controlStatus[r].view>> \in wasNormal
  /\ HintCertified

\* A quorum that was normal in a view is one for good.
LEMMA CertifiedStays ==
  ASSUME NEW v \in Views, NEW W, NEW W2, W \in SUBSET W2,
         <<LeaderIndex(v), v>> \in W,
         Cardinality({r \in Replicas : <<r, v>> \in W}) >= QuorumSize
  PROVE  /\ <<LeaderIndex(v), v>> \in W2
         /\ Cardinality({r \in Replicas : <<r, v>> \in W2}) >= QuorumSize
<1>. DEFINE A == {r \in Replicas : <<r, v>> \in W}
            B == {r \in Replicas : <<r, v>> \in W2}
<1>1. A \in SUBSET B /\ B \in SUBSET Replicas
  OBVIOUS
<1>2. IsFiniteSet(B)
  BY <1>1, Config, FS_Subset
<1>3. Cardinality(A) <= Cardinality(B) /\ Cardinality(A) \in Nat /\ Cardinality(B) \in Nat
  BY <1>1, <1>2, FS_Subset, FS_CardinalityType
<1>. QED
  BY <1>3, Config DEF QuorumSize

\* Every replica is normal in view 0 when the client starts.
LEMMA InitHint == Init => HintInv
<1>. SUFFICES ASSUME Init PROVE HintInv
  OBVIOUS
<1>1. 0 \in Views
  BY Config DEF Views
<1>2. {r \in Replicas : <<r, 0>> \in wasNormal} = Replicas
  BY DEF Init
<1>3. N >= QuorumSize
  BY ClientAssumption DEF QuorumSize
<1>4. HintCertified
  BY <1>1, <1>2, <1>3, Config DEF HintCertified, Init
<1>. QED
  BY <1>4 DEF HintInv, Init

\* The reports certify only what was so, whenever they were given.
LEMMA HintStep == ASSUME TypeInv, HintInv, [Next]_vars PROVE HintInv'
<1>0. wasNormal \in SUBSET wasNormal' /\ viewHint \in Views
  BY HistoryGrows DEF TypeInv, ControlTypes
<1>1. \A r \in Replicas : rnormal'[r] => <<r, rview'[r]>> \in wasNormal'
  <2>1. CASE UNCHANGED replicaVars
    BY <2>1 DEF replicaVars, HintInv
  <2>2. ASSUME NEW q \in Replicas, BeginView(q) \/ BecomeNormal(q), NEW r \in Replicas, rnormal'[r]
        PROVE  <<r, rview'[r]>> \in wasNormal'
    BY <2>2 DEF BeginView, BecomeNormal, HintInv, TypeInv, ReplicaTypes
  <2>3. ASSUME NEW q \in Replicas, NEW p \in submitted, Grant(q, p[1], p[2])
        PROVE  UNCHANGED <<rview, rnormal, wasNormal>>
    BY <2>3 DEF Grant
  <2>. QED
    BY <2>1, <2>2, <2>3, Touches DEF ReplicaSteps, HintInv
<1>2. ASSUME controlStatus' = controlStatus, viewHint' = viewHint
      PROVE  HintInv'
  <2>1. HintCertified'
    BY <1>0, <1>2, CertifiedStays DEF HintInv, HintCertified
  <2>. QED
    BY <1>0, <1>1, <1>2, <2>1 DEF HintInv
<1>3. ASSUME NEW r \in Replicas, ControlReply(r)
      PROVE  HintInv'
  <2>1. /\ controlStatus' \in [Replicas -> [view : Views, normal : BOOLEAN]]
        /\ viewHint' \in Views
        /\ viewHint' = viewHint \/ certified(controlStatus', viewHint')
    BY <1>3, HintFacts
  <2>2. controlStatus' = [controlStatus EXCEPT ![r] = [view |-> rview[r], normal |-> rnormal[r]]]
    BY <1>3 DEF ControlReply
  <2>3. ASSUME NEW q \in Replicas, controlStatus'[q].normal
        PROVE  <<q, controlStatus'[q].view>> \in wasNormal'
    <3>1. CASE q = r
      <4>1. controlStatus'[q] = [view |-> rview[r], normal |-> rnormal[r]]
        BY <2>2, <3>1 DEF TypeInv, ControlTypes
      <4>2. controlStatus'[q].view = rview[r] /\ (controlStatus'[q].normal = rnormal[r])
        BY <4>1
      <4>. QED
        BY <1>0, <2>3, <3>1, <4>2 DEF HintInv
    <3>2. CASE q # r
      BY <1>0, <2>2, <2>3, <3>2 DEF HintInv, TypeInv, ControlTypes
    <3>. QED
      BY <3>1, <3>2
  <2>4. HintCertified'
    <3>1. CASE viewHint' = viewHint
      BY <1>0, <3>1, CertifiedStays DEF HintInv, HintCertified
    <3>2. CASE certified(controlStatus', viewHint')
      <4>. DEFINE A == {q \in Replicas : controlStatus'[q].normal /\ controlStatus'[q].view = viewHint'}
                  B == {q \in Replicas : <<q, viewHint'>> \in wasNormal'}
      <4>1. Cardinality(A) >= QuorumSize /\ LeaderIndex(viewHint') \in A
        BY <3>2 DEF certified
      <4>2. A \in SUBSET B /\ B \in SUBSET Replicas
        BY <2>3
      <4>3. IsFiniteSet(B)
        BY <4>2, Config, FS_Subset
      <4>4. Cardinality(A) <= Cardinality(B) /\ Cardinality(A) \in Nat /\ Cardinality(B) \in Nat
        BY <4>2, <4>3, FS_Subset, FS_CardinalityType
      <4>5. Cardinality(B) >= QuorumSize /\ <<LeaderIndex(viewHint'), viewHint'>> \in wasNormal'
        BY <4>1, <4>2, <4>4, Config DEF QuorumSize
      <4>. QED
        BY <4>5 DEF HintCertified
    <3>. QED
      BY <2>1, <3>1, <3>2
  <2>. QED
    BY <1>1, <2>3, <2>4 DEF HintInv
<1>4. ASSUME AwaitInitialSchedule \/ \E g \in grants : AcceptGrant(g)
      PROVE  UNCHANGED <<controlStatus, viewHint>>
  BY <1>4 DEF AcceptGrant, AwaitInitialSchedule
<1>5. ASSUME NEW r \in Replicas, PauseForView(r)
      PROVE  UNCHANGED <<controlStatus, viewHint>>
  BY <1>5 DEF PauseForView
<1>. QED
  BY <1>2, <1>3, <1>4, <1>5, Touches DEF ControlSteps, controlVars

(***************************************************************************)
(* The view whose leader the client follows had a quorum of normal         *)
(* replicas, its leader among them: handleControlReply certifies nothing   *)
(* out of reports of different times and of views on their way.            *)
(***************************************************************************)
THEOREM HintIsCertified == Spec => []HintCertified
<1>1. TypeInv /\ HintInv /\ [Next]_vars => HintInv'
  BY HintStep
<1>2. HintInv => HintCertified
  BY DEF HintInv
<1>. QED
  BY <1>1, <1>2, InitHint, Types, PTL DEF Spec

-----------------------------------------------------------------------------
(* Pausing and resuming *)

(***************************************************************************)
(* The grants that awaitInitialSchedule reads were given, and before it    *)
(* has taken one nothing is paused: no report is about to pause a client   *)
(* that has not started.                                                   *)
(***************************************************************************)
StartInv ==
  /\ \A i \in 1 .. Len(replies) : replies[i] \in grants
  /\ ~ started => pauseView = 0 /\ \A r \in Replicas : pausing[r] = NoView

\* The client starts with no grant and no pause.
LEMMA InitStart == Init => StartInv
BY DEF Init, StartInv

\* Grants wait in order, and reports pause only a client that has started.
LEMMA StartStep == ASSUME TypeInv, StartInv, [Next]_vars PROVE StartInv'
<1>0. grants \in SUBSET grants' /\ replies \in Seq(Grants)
  BY HistoryGrows DEF TypeInv, ControlTypes
<1>1. ASSUME replies' = replies
      PROVE  \A i \in 1 .. Len(replies') : replies'[i] \in grants'
  BY <1>0, <1>1 DEF StartInv
<1>2. CASE UNCHANGED controlVars
  BY <1>1, <1>2 DEF controlVars, StartInv
<1>3. ASSUME NEW g \in grants, AcceptGrant(g)
      PROVE  StartInv'
  <2>1. g \in Grants /\ g \in grants'
    BY <1>0 DEF TypeInv, ReplicaTypes
  <2>2. replies' = replies \/ replies' = Append(replies, g)
    BY <1>3 DEF AcceptGrant
  <2>3. ASSUME replies' = Append(replies, g)
        PROVE  \A i \in 1 .. Len(replies') : replies'[i] \in grants'
    <3>1. Len(replies') = Len(replies) + 1 /\ replies'[Len(replies) + 1] = g
      BY <1>0, <2>1, <2>3
    <3>2. \A i \in 1 .. Len(replies) : replies'[i] = replies[i]
      BY <1>0, <2>1, <2>3
    <3>. QED
      BY <1>0, <2>1, <3>1, <3>2 DEF StartInv
  <2>. QED
    BY <1>1, <1>3, <2>2, <2>3 DEF AcceptGrant, StartInv
<1>4. ASSUME NEW r \in Replicas, ControlReply(r)
      PROVE  StartInv'
  BY <1>1, <1>4 DEF ControlReply, StartInv, TypeInv, ControlTypes
<1>5. ASSUME NEW r \in Replicas, PauseForView(r)
      PROVE  StartInv'
  BY <1>1, <1>5 DEF PauseForView, StartInv, TypeInv, ControlTypes
<1>6. CASE AwaitInitialSchedule
  <2>1. replies # <<>>
    BY <1>6 DEF AwaitInitialSchedule
  <2>2. /\ Len(Tail(replies)) = Len(replies) - 1
        /\ \A i \in 1 .. Len(Tail(replies)) : Tail(replies)[i] = replies[i + 1]
    BY <1>0, <2>1
  <2>3. \A i \in 1 .. Len(Tail(replies)) : Tail(replies)[i] \in grants'
    BY <1>0, <2>2 DEF StartInv
  <2>4. \A i \in 1 .. Len(<<>>) : <<>>[i] \in grants'
    OBVIOUS
  <2>5. \A i \in 1 .. Len(replies') : replies'[i] \in grants'
    BY <1>6, <2>3, <2>4 DEF AwaitInitialSchedule
  <2>. QED
    BY <1>6, <2>5 DEF AwaitInitialSchedule, StartInv
<1>. QED
  BY <1>2, <1>3, <1>4, <1>5, <1>6, Touches DEF ControlSteps

(***************************************************************************)
(* A client that runs was granted a window by a leader of the newest view  *)
(* it paused for or of a later one: a pause and a grant that race, the     *)
(* pause decided before and applied after, never leave it running on an    *)
(* older grant.                                                            *)
(***************************************************************************)
THEOREM ResumesByGrant == Spec => []ResumedByGrant
<1>1. Init => ResumedByGrant
  BY DEF Init, ResumedByGrant
<1>2. TypeInv /\ StartInv /\ ResumedByGrant /\ [Next]_vars => ResumedByGrant'
  <2>. SUFFICES ASSUME TypeInv, StartInv, ResumedByGrant, [Next]_vars PROVE ResumedByGrant'
    OBVIOUS
  <2>0. grants \in SUBSET grants'
    BY HistoryGrows
  <2>1. CASE UNCHANGED controlVars
    BY <2>0, <2>1 DEF controlVars, ResumedByGrant
  <2>2. ASSUME NEW g \in grants, AcceptGrant(g)
        PROVE  ResumedByGrant'
    <3>1. /\ g.view >= pauseView /\ pauseView' = pauseView
          /\ activeView' = IF paused THEN g.view ELSE activeView
          /\ started' = started
      BY <2>2 DEF AcceptGrant, acceptHandshake
    <3>2. g.view \in Int
      BY Config DEF TypeInv, ReplicaTypes, Grants, Views
    <3>3. CASE paused
      BY <2>0, <3>1, <3>2, <3>3 DEF ResumedByGrant
    <3>4. CASE ~ paused
      BY <2>0, <3>1, <3>4 DEF ResumedByGrant
    <3>. QED
      BY <3>3, <3>4
  <2>3. ASSUME NEW r \in Replicas, ControlReply(r)
        PROVE  ResumedByGrant'
    BY <2>0, <2>3 DEF ControlReply, ResumedByGrant
  <2>4. ASSUME NEW r \in Replicas, PauseForView(r)
        PROVE  ResumedByGrant'
    BY <2>0, <2>4 DEF PauseForView, ResumedByGrant
  <2>5. CASE AwaitInitialSchedule
    <3>1. replies # <<>> /\ ~ started /\ paused' = paused /\ pauseView' = pauseView
      BY <2>5 DEF AwaitInitialSchedule
    <3>2. PICK g : g = Head(replies)
      OBVIOUS
    <3>3. g \in grants /\ g \in Grants
      BY <3>1, <3>2 DEF StartInv, TypeInv, ControlTypes
    <3>4. g.view \in Int /\ g.view >= 0
      BY <3>3, Config DEF Grants, Views
    <3>5. pauseView = 0
      BY <3>1 DEF StartInv
    <3>6. started' => activeView' = g.view
      BY <2>5, <3>1, <3>2 DEF AwaitInitialSchedule
    <3>. QED
      BY <2>0, <3>1, <3>3, <3>4, <3>5, <3>6 DEF ResumedByGrant
  <2>. QED
    BY <2>1, <2>2, <2>3, <2>4, <2>5, Touches DEF ControlSteps
<1>3. TypeInv /\ StartInv /\ [Next]_vars => StartInv'
  BY StartStep
<1>. QED
  BY <1>1, <1>2, <1>3, InitStart, Types, PTL DEF Spec

-----------------------------------------------------------------------------
(* Buses *)

\* The bus sequence number a is an arrival of a line that was granted.
OnLine(a) ==
  \E g \in grants :
    /\ a \in g.start..(g.start + Width - 1)
    /\ g.interval > 0 /\ (a - g.start) % g.interval = 0

\* A window comes from a grant, and the bus on its way is newer than those sent.
LineInv ==
  /\ \A s \in DOMAIN windows : \E g \in grants : g.start = s /\ g.interval = windows[s].interval
  /\ board.stage # "none" => board.arrival > lastArrival /\ OnLine(board.arrival)
  /\ \A i \in 1 .. Len(sent) : sent[i] <= lastArrival /\ OnLine(sent[i])
  /\ \A i \in 1 .. Len(sent) - 1 : sent[i] < sent[i + 1]

\* A window that is accepted is one that was granted.
LEMMA WindowsGranted ==
  ASSUME TypeInv, LineInv, [Next]_vars
  PROVE  \A s \in DOMAIN windows' : \E g \in grants' : g.start = s /\ g.interval = windows'[s].interval
<1>0. grants \in SUBSET grants'
  BY HistoryGrows
<1>1. ASSUME windows' = windows
      PROVE  \A s \in DOMAIN windows' : \E g \in grants' : g.start = s /\ g.interval = windows'[s].interval
  BY <1>0, <1>1 DEF LineInv
<1>2. CASE Tick \/ SetBusInterval \/ AskWindows \/ Dial
  BY <1>1, <1>2 DEF Tick, SetBusInterval, AskWindows, Dial, scheduleVars
<1>3. CASE FindBus
  <2>1. windows' = [s \in DOMAIN windows \ spent |-> windows[s]]
    BY <1>3 DEF FindBus, Restrict
  <2>. QED
    BY <1>0, <2>1 DEF LineInv
<1>4. ASSUME NEW g \in grants, AcceptGrant(g), NEW s \in DOMAIN windows'
      PROVE  \E h \in grants' : h.start = s /\ h.interval = windows'[s].interval
  <2>1. windows' = [t \in DOMAIN windows \cup {g.start} |->
                   IF t = g.start THEN [interval |-> g.interval, view |-> g.view] ELSE windows[t]]
    BY <1>4 DEF AcceptGrant
  <2>. QED
    BY <1>0, <1>4, <2>1 DEF LineInv
<1>. QED
  BY <1>1, <1>2, <1>3, <1>4, Touches DEF ScheduleSteps, scheduleVars

\* The line of a bus that is found, and the order of the buses that are sent.
LEMMA LineStep == ASSUME TypeInv, LineInv, [Next]_vars PROVE LineInv'
<1>0. grants \in SUBSET grants' /\ \A a : OnLine(a) => OnLine(a)'
  <2>1. grants \in SUBSET grants'
    BY HistoryGrows
  <2>. QED
    BY <2>1 DEF OnLine
<1>1. \A s \in DOMAIN windows' : \E g \in grants' : g.start = s /\ g.interval = windows'[s].interval
  BY WindowsGranted
<1>2. lastArrival \in Nat /\ sent \in Seq(Nat)
  BY DEF TypeInv, BusTypes
<1>3. CASE UNCHANGED busVars
  <2>1. board' = board /\ lastArrival' = lastArrival /\ sent' = sent
    BY <1>3 DEF busVars
  <2>2. board'.stage # "none" => board'.arrival > lastArrival' /\ OnLine(board.arrival)'
    <3>. SUFFICES ASSUME board.stage # "none" PROVE board.arrival > lastArrival /\ OnLine(board.arrival)'
      BY <2>1
    <3>1. board.arrival > lastArrival /\ OnLine(board.arrival)
      BY DEF LineInv
    <3>. QED
      BY <1>0, <2>1, <3>1 DEF OnLine
  <2>3. \A i \in 1 .. Len(sent') : sent'[i] <= lastArrival' /\ OnLine(sent[i])'
    BY <1>0, <2>1 DEF LineInv, OnLine
  <2>. QED
    BY <1>1, <2>1, <2>2, <2>3 DEF LineInv
<1>4. CASE FindBus /\ due
  <2>1. PICK s \in DOMAIN windows :
           /\ windows[s].interval > 0
           /\ arrivalIn(s, lastArrival) < s + Width
           /\ board' = [stage |-> "found", arrival |-> arrivalIn(s, lastArrival)]
    BY <1>4, FoundBus
  <2>2. PICK a : a = arrivalIn(s, lastArrival)
    OBVIOUS
  <2>3. a \in Nat /\ a > lastArrival /\ a >= s /\ (a - s) % windows[s].interval = 0
    BY <2>1, <2>2, ArrivalFacts
  <2>4. PICK g \in grants : g.start = s /\ g.interval = windows[s].interval
    BY DEF LineInv
  <2>5. s \in Nat /\ Width \in Nat
    BY Config DEF TypeInv, ScheduleTypes
  <2>6. a \in g.start .. (g.start + Width - 1)
    BY <2>1, <2>2, <2>3, <2>4, <2>5
  <2>7. OnLine(a)
    BY <2>1, <2>3, <2>4, <2>6 DEF OnLine
  <2>8. board'.arrival = a /\ lastArrival' = lastArrival /\ sent' = sent
    BY <1>4, <2>1, <2>2 DEF FindBus
  <2>9. OnLine(board.arrival)'
    BY <1>0, <2>7, <2>8 DEF OnLine
  <2>10. \A i \in 1 .. Len(sent') : sent'[i] <= lastArrival' /\ OnLine(sent[i])'
    BY <1>0, <2>8 DEF LineInv, OnLine
  <2>. QED
    BY <1>1, <2>3, <2>8, <2>9, <2>10 DEF LineInv
<1>5. CASE TakeRequests
  <2>1. board.stage = "found" /\ sent' = sent /\ grants' = grants
    BY <1>5 DEF TakeRequests, replicaVars
  <2>2. board.arrival \in Nat /\ board.arrival > lastArrival /\ OnLine(board.arrival)
    BY <2>1, BoardFacts DEF LineInv
  <2>3. CASE paused
    <3>1. board'.stage = "none" /\ lastArrival' = board.arrival
      BY <1>5, <2>3 DEF TakeRequests, NoBoard
    <3>2. \A i \in 1 .. Len(sent') : sent'[i] \in Nat /\ sent'[i] <= lastArrival /\ OnLine(sent[i])'
      BY <1>2, <2>1 DEF LineInv, OnLine
    <3>3. \A i \in 1 .. Len(sent') : sent'[i] <= lastArrival' /\ OnLine(sent[i])'
      BY <1>2, <2>2, <3>1, <3>2
    <3>. QED
      BY <1>1, <2>1, <3>1, <3>3 DEF LineInv
  <2>4. CASE ~ paused
    <3>1. board'.arrival = board.arrival /\ lastArrival' = lastArrival
      BY <1>5, <2>4 DEF TakeRequests
    <3>. QED
      BY <1>1, <2>1, <2>2, <3>1 DEF LineInv, OnLine
  <2>. QED
    BY <2>3, <2>4
<1>6. CASE SendBus
  <2>1. PICK a : a = board.arrival
    OBVIOUS
  <2>2. a \in Nat /\ a > lastArrival /\ OnLine(a)
    BY <1>6, <2>1, BoardFacts DEF SendBus, LineInv
  <2>3. sent' = Append(sent, a) /\ lastArrival' = a /\ board'.stage = "none"
    BY <1>6, <2>1 DEF SendBus, NoBoard
  <2>. DEFINE n == Len(sent)
  <2>4. /\ n \in Nat /\ Len(sent') = n + 1 /\ sent'[n + 1] = a
        /\ \A i \in 1 .. n : sent'[i] = sent[i] /\ sent[i] \in Nat
    BY <1>2, <2>2, <2>3
  <2>5. \A i \in 1 .. n : sent[i] <= lastArrival /\ OnLine(sent[i])
    BY DEF LineInv
  <2>6. OnLine(a)'
    BY <1>0, <2>2
  <2>7. \A i \in 1 .. n : sent'[i] < a /\ OnLine(sent[i])'
    BY <1>0, <1>2, <2>2, <2>4, <2>5 DEF OnLine
  <2>8. \A i \in 1 .. Len(sent') : sent'[i] <= lastArrival' /\ OnLine(sent[i])'
    <3>1. ASSUME NEW i \in 1 .. Len(sent')
          PROVE  sent'[i] <= lastArrival' /\ OnLine(sent[i])'
      <4>1. CASE i = n + 1
        BY <2>2, <2>3, <2>4, <2>6, <4>1 DEF OnLine
      <4>2. CASE i \in 1 .. n
        BY <2>2, <2>3, <2>4, <2>7, <4>2
      <4>. QED
        BY <2>4, <4>1, <4>2
    <3>. QED
      BY <3>1
  <2>9. \A i \in 1 .. Len(sent') - 1 : sent'[i] < sent'[i + 1]
    <3>1. ASSUME NEW i \in 1 .. n
          PROVE  sent'[i] < sent'[i + 1]
      <4>1. CASE i = n
        BY <2>4, <2>7, <4>1
      <4>2. CASE i \in 1 .. n - 1
        BY <2>4, <4>2 DEF LineInv
      <4>. QED
        BY <2>4, <4>1, <4>2
    <3>. QED
      BY <2>4, <3>1
  <2>. QED
    BY <1>1, <2>3, <2>8, <2>9 DEF LineInv
<1>7. CASE FindBus /\ ~ due
  <2>1. board' = board /\ lastArrival' = lastArrival /\ sent' = sent
    BY <1>7 DEF FindBus
  <2>. QED
    BY <1>3, <2>1 DEF busVars
<1>. QED
  BY <1>3, <1>4, <1>5, <1>6, <1>7, Touches DEF BusSteps

(***************************************************************************)
(* The buses sent have growing sequence numbers, each an arrival of a line *)
(* that a leader granted, through pauses, repeated grants and catching up: *)
(* no two buses of a client share a slot.                                  *)
(***************************************************************************)
THEOREM BusesAreOnLine == Spec => []BusesOnLine
<1>1. Init => LineInv
  BY DEF Init, LineInv, NoBoard
<1>2. TypeInv /\ LineInv /\ [Next]_vars => LineInv'
  BY LineStep
<1>3. TypeInv /\ LineInv => BusesOnLine
  <2>. SUFFICES ASSUME TypeInv, LineInv PROVE BusesOnLine
    OBVIOUS
  <2>1. DOMAIN sent = 1 .. Len(sent)
    BY DEF TypeInv, BusTypes
  <2>. QED
    BY <2>1 DEF LineInv, OnLine, BusesOnLine
<1>. QED
  BY <1>1, <1>2, <1>3, Types, PTL DEF Spec

-----------------------------------------------------------------------------
(* Requests *)

\* The votes name one log index of one view by a quorum with its leader.
Quorate(votes) ==
  \E v \in Views, idx \in {a[3] : a \in plan.answers} :
    /\ <<LeaderIndex(v), v, idx>> \in votes
    /\ Cardinality({r \in Replicas : <<r, v, idx>> \in votes}) >= QuorumSize

\* More votes are still a quorum.
LEMMA QuorateStays ==
  ASSUME NEW V, NEW W, V \in SUBSET W, Quorate(V), plan' = plan
  PROVE  Quorate(W)'
<1>1. PICK v \in Views, idx \in {a[3] : a \in plan.answers} :
        /\ <<LeaderIndex(v), v, idx>> \in V
        /\ Cardinality({r \in Replicas : <<r, v, idx>> \in V}) >= QuorumSize
  BY DEF Quorate
<1>. DEFINE A == {r \in Replicas : <<r, v, idx>> \in V}
            B == {r \in Replicas : <<r, v, idx>> \in W}
<1>2. A \in SUBSET B /\ B \in SUBSET Replicas
  OBVIOUS
<1>3. IsFiniteSet(B)
  BY <1>2, Config, FS_Subset
<1>4. Cardinality(A) <= Cardinality(B) /\ Cardinality(A) \in Nat /\ Cardinality(B) \in Nat
  BY <1>2, <1>3, FS_Subset, FS_CardinalityType
<1>5. Cardinality(B) >= QuorumSize
  BY <1>1, <1>4, Config DEF QuorumSize
<1>. QED
  BY <1>1, <1>5 DEF Quorate

(***************************************************************************)
(* A request is counted committed only on the votes of a quorum with the   *)
(* leader, all for one log index of one view: answers to several copies,   *)
(* from several views, never add up (handleRequestReply, quorumReached).   *)
(***************************************************************************)
THEOREM CommitsAreBacked == Spec => []CommitBacked
<1>. DEFINE Backed == \A q \in DOMAIN inflight : inflight[q].committed => Quorate(inflight[q].votes)
<1>1. Init => Backed
  BY DEF Init
<1>2. TypeInv /\ Backed /\ [Next]_vars => Backed'
  <2>. SUFFICES ASSUME TypeInv, Backed, [Next]_vars,
                       NEW p \in DOMAIN inflight', inflight'[p].committed
                PROVE  Quorate(inflight[p].votes)'
    OBVIOUS
  <2>0. plan' = plan
    BY Touches
  <2>1. ASSUME p \in DOMAIN inflight, inflight'[p] = inflight[p]
        PROVE  Quorate(inflight[p].votes)'
    <3>1. PICK V : V = inflight[p].votes
      OBVIOUS
    <3>2. Quorate(V)
      BY <2>1, <3>1
    <3>3. Quorate(V)'
      BY <2>0, <3>2, QuorateStays
    <3>. QED
      BY <2>1, <3>1, <3>3 DEF Quorate
  <2>2. CASE UNCHANGED requestVars
    BY <2>1, <2>2 DEF requestVars
  <2>3. CASE TakeRequests
    BY <2>1, <2>3 DEF TakeRequests
  <2>4. CASE SendBus
    <3>1. inflight' = [q \in DOMAIN inflight \cup board.reqs |->
                    IF q \in DOMAIN inflight THEN inflight[q] ELSE NewInflight]
      BY <2>4 DEF SendBus
    <3>2. ~ NewInflight.committed
      BY DEF NewInflight
    <3>3. p \in DOMAIN inflight /\ inflight'[p] = inflight[p]
      BY <3>1, <3>2
    <3>. QED
      BY <2>1, <3>3
  <2>5. ASSUME \/ \E q \in plan.requests : Generate(q)
               \/ \E Q \in SUBSET plan.requests : RequestTimeout(Q)
               \/ Reboard
        PROVE  Quorate(inflight[p].votes)'
    BY <2>1, <2>5 DEF Generate, RequestTimeout, Reboard
  <2>6. ASSUME NEW q \in plan.requests, Janitor(q)
        PROVE  Quorate(inflight[p].votes)'
    <3>1. inflight' = [t \in DOMAIN inflight \ {q} |-> inflight[t]]
      BY <2>6 DEF Janitor, Restrict
    <3>2. p \in DOMAIN inflight /\ inflight'[p] = inflight[p]
      BY <3>1
    <3>. QED
      BY <2>1, <3>2
  <2>7. ASSUME NEW q \in plan.requests, NEW a \in plan.answers, RequestReply(q, a)
        PROVE  Quorate(inflight[p].votes)'
    <3>1. CASE p # q
      BY <2>1, <2>7, <3>1, ReplyFacts
    <3>2. CASE p = q /\ inflight[q].committed
      <4>1. PICK V, W : V = inflight[q].votes /\ W = inflight'[q].votes
        OBVIOUS
      <4>2. V \in SUBSET W /\ Quorate(V)
        BY <2>7, <3>2, <4>1, ReplyFacts
      <4>3. Quorate(W)'
        BY <2>0, <4>2, QuorateStays
      <4>. QED
        BY <3>2, <4>1, <4>3 DEF Quorate
    <3>3. CASE p = q /\ ~ inflight[q].committed
      <4>1. quorumReached(inflight'[q].votes, a[2], a[3])
        BY <2>7, <3>3, ReplyFacts
      <4>2. a[2] \in Views
        BY PlanFacts DEF TypeInv, ReplicaTypes
      <4>. DEFINE mask == {r \in Replicas : <<r, a[2], a[3]>> \in inflight'[q].votes}
      <4>3. Cardinality(mask) >= QuorumSize /\ LeaderIndex(a[2]) \in mask
        BY <4>1 DEF quorumReached
      <4>4. a[3] \in {b[3] : b \in plan'.answers}
        BY <2>0
      <4>. QED
        BY <3>3, <4>2, <4>3, <4>4 DEF Quorate
    <3>. QED
      BY <3>1, <3>2, <3>3
  <2>. QED
    BY <2>2, <2>3, <2>4, <2>5, <2>6, <2>7, Touches DEF RequestSteps
<1>3. Backed => CommitBacked
  BY DEF CommitBacked, Quorate
<1>. QED
  BY <1>1, <1>2, <1>3, Types, PTL DEF Spec

(***************************************************************************)
(* What counting a request rests on.  Only what was on a bus is watched or *)
(* boarded again, a new request is neither; one that is committed has been *)
(* counted; and as long as the janitor has not collected a request while a *)
(* copy of it waited, its count says whether its watch has committed, and  *)
(* a copy that waits without a watch is of a request never counted.        *)
(***************************************************************************)
CountInv ==
  /\ DOMAIN inflight \in SUBSET boarded /\ retry \in SUBSET boarded
  /\ expired \in SUBSET boarded
  /\ pending \cap (boarded \cup taken) = {}
  /\ \A q \in DOMAIN inflight : inflight[q].committed => count[q] > 0
  /\ \A q \in plan.requests : count[q] > 0 => q \in boarded
  /\ \A q \in boarded : q \in DOMAIN inflight \/ count[q] > 0
  /\ \A q \in plan.requests \ reborn :
       /\ q \in DOMAIN inflight /\ ~ inflight[q].committed => count[q] = 0
       /\ q \in copies /\ q \notin DOMAIN inflight => count[q] = 0
       /\ count[q] <= 1

\* Nothing has been generated at the start.
LEMMA InitCount == Init => CountInv
BY DEF Init, CountInv, copies, taken, NoBoard

\* Boarding, timeouts, answers and the janitor keep the count right.
LEMMA CountStep == ASSUME TypeInv, CountInv, [Next]_vars PROVE CountInv'
<1>0. plan' = plan
  BY Touches
<1>. USE DEF copies
<1>1. /\ pending \in SUBSET plan.requests /\ retry \in SUBSET plan.requests
      /\ expired \in SUBSET plan.requests
      /\ boarded \in SUBSET plan.requests /\ DOMAIN inflight \in SUBSET plan.requests
      /\ count \in [plan.requests -> Nat] /\ taken \in SUBSET plan.requests
  BY BoardFacts DEF TypeInv, RequestTypes
<1>2. ASSUME UNCHANGED requestVars, taken' = taken
      PROVE  CountInv'
  BY <1>0, <1>2 DEF requestVars, CountInv
<1>3. CASE FindBus
  <2>1. taken = {} /\ taken' = {} /\ UNCHANGED requestVars
    BY <1>3 DEF FindBus, taken, NoBoard, requestVars
  <2>. QED
    BY <1>2, <2>1
<1>4. CASE TakeRequests
  <2>1. /\ taken = {}
        /\ UNCHANGED <<expired, inflight, boarded, count, reborn>>
        /\ \/ taken' = {} /\ pending' = pending /\ retry' = retry
           \/ taken' = pending \cup retry /\ pending' = {} /\ retry' = {}
    BY <1>4 DEF TakeRequests, taken, NoBoard
  <2>2. ASSUME NEW q \in pending
        PROVE  q \notin DOMAIN inflight /\ count[q] = 0
    BY <1>1 DEF CountInv
  <2>. QED
    BY <1>0, <1>1, <2>1, <2>2 DEF CountInv
<1>5. CASE SendBus
  <2>1. /\ taken = board.reqs /\ taken' = {}
        /\ boarded' = boarded \cup taken
        /\ inflight' = [q \in DOMAIN inflight \cup taken |->
                          IF q \in DOMAIN inflight THEN inflight[q] ELSE NewInflight]
        /\ UNCHANGED <<pending, retry, expired, count, reborn>>
    BY <1>5 DEF SendBus, taken, NoBoard
  <2>2. ~ NewInflight.committed
    BY DEF NewInflight
  <2>3. /\ DOMAIN inflight' = DOMAIN inflight \cup taken
        /\ \A q \in DOMAIN inflight : inflight'[q] = inflight[q]
        /\ \A q \in taken \ DOMAIN inflight : inflight'[q] = NewInflight
    BY <2>1
  <2>. HIDE DEF NewInflight
  <2>4. \A q \in DOMAIN inflight' : inflight'[q].committed =>
          q \in DOMAIN inflight /\ inflight[q].committed
    BY <2>2, <2>3
  <2>5. \A q \in plan.requests \ reborn' :
         /\ q \in DOMAIN inflight' /\ ~ inflight'[q].committed => count[q] = 0
         /\ q \in copies' /\ q \notin DOMAIN inflight' => count[q] = 0
         /\ count[q] <= 1
    BY <2>1, <2>3 DEF CountInv
  <2>. QED
    BY <1>0, <1>1, <2>1, <2>3, <2>4, <2>5 DEF CountInv
<1>6. ASSUME NEW q \in plan.requests, Generate(q)
      PROVE  CountInv'
  <2>1. /\ q \notin boarded \cup taken /\ pending' = pending \cup {q} /\ taken' = taken
        /\ UNCHANGED <<retry, expired, inflight, boarded, count, reborn>>
    BY <1>6 DEF Generate, taken, busVars
  <2>. QED
    BY <1>0, <2>1 DEF CountInv
<1>7. ASSUME NEW Q \in SUBSET plan.requests, RequestTimeout(Q)
      PROVE  CountInv'
  <2>1. /\ Q \in SUBSET DOMAIN inflight /\ expired = {} /\ expired' = Q /\ taken' = taken
        /\ UNCHANGED <<pending, retry, inflight, boarded, count, reborn>>
    BY <1>7 DEF RequestTimeout, taken, busVars
  <2>. QED
    BY <1>0, <2>1 DEF CountInv
<1>8. ASSUME NEW q \in plan.requests, Janitor(q)
      PROVE  CountInv'
  <2>1. /\ q \in DOMAIN inflight /\ inflight[q].committed /\ taken' = taken
        /\ inflight' = [t \in DOMAIN inflight \ {q} |-> inflight[t]]
        /\ reborn' = IF q \in copies THEN reborn \cup {q} ELSE reborn
        /\ UNCHANGED <<pending, retry, expired, boarded, count>>
    BY <1>8 DEF Janitor, Restrict, taken, busVars
  <2>2. /\ DOMAIN inflight' = DOMAIN inflight \ {q}
        /\ \A t \in DOMAIN inflight \ {q} : inflight'[t] = inflight[t]
    BY <2>1
  <2>3. count[q] > 0
    BY <2>1 DEF CountInv
  <2>4. \A p \in plan.requests \ reborn' :
         /\ p \in DOMAIN inflight' /\ ~ inflight'[p].committed => count[p] = 0
         /\ p \in copies /\ p \notin DOMAIN inflight' => count[p] = 0
         /\ count[p] <= 1
    BY <2>1, <2>2 DEF CountInv
  <2>. QED
    BY <1>0, <2>1, <2>2, <2>3, <2>4 DEF CountInv
<1>9. ASSUME NEW q \in plan.requests, NEW a \in plan.answers, RequestReply(q, a)
      PROVE  CountInv'
  <2>1. taken' = taken /\ UNCHANGED <<pending, retry, expired, boarded, reborn>>
    BY <1>9 DEF RequestReply, taken, busVars
  <2>2. /\ q \in DOMAIN inflight /\ DOMAIN inflight' = DOMAIN inflight
        /\ \A p \in DOMAIN inflight \ {q} : inflight'[p] = inflight[p]
        /\ inflight[q].committed => inflight'[q].committed /\ count' = count
        /\ ~ inflight[q].committed /\ ~ inflight'[q].committed => count' = count
        /\ ~ inflight[q].committed /\ inflight'[q].committed => count' = [count EXCEPT ![q] = @ + 1]
    BY <1>9, ReplyFacts
  <2>3. CASE ~ inflight[q].committed /\ inflight'[q].committed
    <3>1. /\ count'[q] = count[q] + 1 /\ \A p \in plan.requests \ {q} : count'[p] = count[p]
          /\ count[q] \in Nat
      BY <1>1, <2>2, <2>3
    <3>2. \A p \in DOMAIN inflight' : inflight'[p].committed => count'[p] > 0
      BY <1>1, <2>2, <3>1 DEF CountInv
    <3>3. \A p \in plan.requests : count'[p] > 0 => p \in boarded
      BY <1>1, <2>2, <3>1 DEF CountInv
    <3>4. \A p \in plan.requests \ reborn :
            /\ p \in DOMAIN inflight' /\ ~ inflight'[p].committed => count'[p] = 0
            /\ p \in copies /\ p \notin DOMAIN inflight' => count'[p] = 0
            /\ count'[p] <= 1
      BY <1>1, <2>2, <2>3, <3>1 DEF CountInv
    <3>5. \A p \in boarded : p \in DOMAIN inflight' \/ count'[p] > 0
      BY <1>1, <2>2, <3>1 DEF CountInv
    <3>. QED
      BY <1>0, <2>1, <2>2, <3>2, <3>3, <3>4, <3>5 DEF CountInv
  <2>4. CASE ~ (~ inflight[q].committed /\ inflight'[q].committed)
    <3>1. count' = count /\ \A p \in DOMAIN inflight : inflight'[p].committed <=> inflight[p].committed
      BY <2>2, <2>4
    <3>. QED
      BY <1>0, <2>1, <2>2, <3>1 DEF CountInv
  <2>. QED
    BY <2>3, <2>4
<1>10. UNCHANGED busVars => taken' = taken
  BY DEF busVars, taken
<1>11. CASE Reboard
  <2>1. /\ retry' = retry \cup expired /\ expired' = {} /\ taken' = taken
        /\ UNCHANGED <<pending, inflight, boarded, count, reborn>>
    BY <1>11 DEF Reboard, taken, busVars
  <2>. QED
    BY <1>0, <2>1 DEF CountInv
<1>. QED
  BY <1>2, <1>3, <1>4, <1>5, <1>6, <1>7, <1>8, <1>9, <1>10, <1>11, Touches DEF BusSteps, RequestSteps

\* The count of a request is right in every state.
LEMMA Counting == Spec => [](TypeInv /\ CountInv)
<1>1. TypeInv /\ CountInv /\ [Next]_vars => CountInv'
  BY CountStep
<1>. QED
  BY <1>1, InitCount, Types, PTL DEF Spec

\* A request is counted committed once, unless the janitor forgot it while a
\* copy of it waited for a bus.
THEOREM CountsOnce == Spec => []CountedOnce
<1>1. TypeInv /\ CountInv => CountedOnce
  <2>. SUFFICES ASSUME TypeInv, CountInv, NEW q \in plan.requests, count[q] > 1
                PROVE  q \in reborn
    BY DEF CountedOnce
  <2>1. count[q] \in Nat
    BY DEF TypeInv, RequestTypes
  <2>. QED
    BY <2>1 DEF CountInv
<1>. QED
  BY <1>1, Counting, PTL

\* A request that was on a bus stays watched until it is committed.
THEOREM StaysWatched == Spec => []StillWatched
<1>1. TypeInv /\ CountInv => StillWatched
  BY DEF CountInv, StillWatched
<1>. QED
  BY <1>1, Counting, PTL
=============================================================================
