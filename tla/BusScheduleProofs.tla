-------------------------- MODULE BusScheduleProofs -------------------------
(***************************************************************************)
(* Proofs about the agreement on the schedule, for every configuration,    *)
(* number of windows, views and clients, and every plan of the clients and *)
(* of the timers.                                                          *)
(***************************************************************************)
EXTENDS BusSchedule, NatFacts, FiniteSetTheorems

-----------------------------------------------------------------------------
(* Types *)

Entry == {e \in [client : Clients, first : Windows, end : 1 .. MaxWindows + 1] : e.end = e.first + 1}
Schedules == SUBSET Entry

Batches == [type : {"batch"}, view : Views, from : Replicas, history : Schedules,
            window : 0 .. MaxWindows, entries : Schedules, committed : BOOLEAN]
Replies == [type : {"prepareReply"}, view : Views, from : Replicas, window : 0 .. MaxWindows]
Reports == [type : {"report"}, view : Views, from : Replicas, lastNormalView : Views,
            schedule : Schedules]
StartViews == [type : {"startView"}, view : Views, schedule : Schedules]
Messages == UNION {Batches, Replies, Reports, StartViews}

Readings == UNION {{NoBatch}, [stage : {"prepare"}, msg : Batches, ok : BOOLEAN],
                   [stage : {"commit"}, msg : Batches]}

ViewTypes ==
  /\ view \in [Replicas -> Views] /\ lastNormalView \in [Replicas -> Views]
  /\ status \in [Replicas -> {"normal", "viewChange"}]
  /\ phase \in [Replicas -> {"none", "vc", "installed", "recover"}]
ScheduleTypes ==
  /\ schedule \in [Replicas -> Schedules] /\ epoch \in [Replicas -> Views]
  /\ ready \in [Replicas -> BOOLEAN] /\ committedEnd \in [Replicas -> Nat]
LeaderTypes ==
  /\ requests \in [Replicas -> SUBSET (Windows \X Clients)]
  /\ proposal \in [Replicas -> {NoProposal} \cup [view : Views, window : Windows]]
  /\ prepared \in [Replicas -> SUBSET Replicas]
HistoryTypes ==
  /\ reading \in [Replicas -> Readings] /\ msgs \in SUBSET Messages
  /\ plan \in Plans
  /\ held \in [Replicas -> [Views -> Schedules]] /\ agreed \in Schedules

Types == ViewTypes /\ ScheduleTypes /\ LeaderTypes /\ HistoryTypes

-----------------------------------------------------------------------------
(* The invariant *)

\* b begins with the windows of a and goes on with later ones.
Begins(a, b) == a \subseteq b /\ \A x \in a, y \in b \ a : x.end <= y.first

StartsOf(M, v) == {m \in M : m.type = "startView" /\ m.view = v}

(***************************************************************************)
(* All of the schedule of view v: what its leader held last while it was   *)
(* normal, or, before that, what it has sent in a StartView.               *)
(***************************************************************************)
Full(h, M, v) == h[LeaderIndex(v)][v] \cup UNION {m.schedule : m \in StartsOf(M, v)}

\* The view, the phase and the normal view of replica r fit.
Placed(r) ==
  /\ status[r] = "normal" <=> phase[r] = "none"
  /\ lastNormalView[r] <= view[r]
  /\ lastNormalView[r] = view[r] <=> phase[r] = "none"
  /\ phase[r] # "vc" => epoch[r] = view[r]
  /\ phase[r] = "installed" => IsLeader(r)
  /\ phase[r] = "recover" => ~ IsLeader(r)
  /\ ready[r] => phase[r] = "none"
  /\ phase[r] \in {"vc", "installed"} => proposal[r] = NoProposal

\* Where replica r has its schedule from.
Sourced(r) ==
  /\ phase[r] = "none" => schedule[r] = held[r][view[r]]
  /\ phase[r] \in {"installed", "recover"} =>
       \E s \in StartsOf(msgs, view[r]) : s.schedule = schedule[r]
  /\ phase[r] = "vc" =>
       \/ schedule[r] = held[r][lastNormalView[r]]
       \/ \E v \in Views : \E s \in StartsOf(msgs, v) :
            lastNormalView[r] < v /\ v < view[r] /\ s.schedule = schedule[r]

\* Replica q started view v from a StartView.
Based(q, v) == v > 0 => \E s \in StartsOf(msgs, v) : Begins(s.schedule, held[q][v])

\* What replica r held was held in views it has been normal in.
Held(r) ==
  /\ \A v \in Views : v > lastNormalView[r] => held[r][v] = {}
  /\ \A v \in Views : held[r][v] # {} \/ v = lastNormalView[r] => Based(r, v)

\* A leader has everything of its view.
Leads(r) == IsLeader(r) /\ phase[r] \in {"none", "installed"} =>
              schedule[r] = Full(held, msgs, view[r])

\* All that was held or said in a view is a beginning of one schedule.
Within ==
  /\ \A q \in Replicas, v \in Views : Begins(held[q][v], Full(held, msgs, v))
  /\ \A v \in Views : \A s \in StartsOf(msgs, v) : Begins(s.schedule, Full(held, msgs, v))

\* What a batch says, and that its leader is in its view or has left it.
GoodBatch(m) ==
  /\ m.from = LeaderIndex(m.view)
  /\ m.entries \in SUBSET WindowOf(m.entries, m.window)
  /\ Begins(m.history, Full(held, msgs, m.view))
  /\ Begins(m.history \cup m.entries, Full(held, msgs, m.view))

\* Who prepared a window holds it.
HoldsWindow(q, v, w) == WindowOf(held[q][v], w) # {}

\* The sender of a report has left all views below, and told all it held in the
\* last of them, or what it took over later.
GoodReport(m) ==
  /\ m.lastNormalView < m.view /\ m.view <= view[m.from]
  /\ \A v \in Views : held[m.from][v] # {} /\ v < m.view => v <= m.lastNormalView
  /\ Based(m.from, m.lastNormalView)
  /\ \/ m.schedule = held[m.from][m.lastNormalView]
     \/ \E v \in Views : \E s \in StartsOf(msgs, v) :
          m.lastNormalView < v /\ v < m.view /\ s.schedule = m.schedule

\* The leader of a view speaks once it has merged the reports.
Spoken(v) ==
  /\ view[LeaderIndex(v)] >= v
  /\ view[LeaderIndex(v)] = v => phase[LeaderIndex(v)] \in {"none", "installed"}

\* A quorum may still come to hold h in view v: who has left the view held it.
Choosable(v, h) ==
  \E Q \in Quorums : \A q \in Q : view[q] <= v \/ Begins(h, held[q][v])

\* A StartView has everything that may be chosen in a lower view.
Safe(s) ==
  \A v \in Views, h \in Schedules : v < s.view /\ Choosable(v, h) => Begins(h, s.schedule)

GoodMessage(m) ==
  /\ m.type = "batch" => GoodBatch(m) /\ Spoken(m.view)
  /\ m.type = "prepareReply" => HoldsWindow(m.from, m.view, m.window)
  /\ m.type = "report" => GoodReport(m)
  /\ m.type = "startView" => Safe(m) /\ Spoken(m.view)

MessagesGood == \A m \in msgs : GoodMessage(m)

\* A batch whose snapshot was taken is behind the schedule.
Reads(r) ==
  LET x == reading[r] IN
  /\ x.stage # "none" => x.msg \in msgs /\ x.msg.from # r
  /\ x.stage = "prepare" /\ x.ok =>
       /\ view[r] >= x.msg.view
       /\ view[r] = x.msg.view => phase[r] = "none" /\ x.msg.history \subseteq schedule[r]

\* What lies above a leader's committed end is its proposal, and who is said to
\* have prepared that has.
Proposes(r) == NormalLeader(r) =>
  LET p == proposal[r] IN
  /\ p = NoProposal => \A x \in schedule[r] : x.end <= committedEnd[r]
  /\ p # NoProposal =>
       /\ p.view = view[r] /\ p.window >= committedEnd[r]
       /\ \A x \in schedule[r] : x.end <= committedEnd[r] \/ x.first = p.window
       /\ \A q \in prepared[r] : HoldsWindow(q, p.view, p.window)

\* An entry that was handed over with view v, or that a quorum holds in it.
Granted(x, v) ==
  \/ \E s \in StartsOf(msgs, v) : x \in s.schedule
  \/ \E h \in ChosenIn(held, v) : x \in h

Grants(r) == NormalLeader(r) => \A x \in committedSchedule(r) : Granted(x, view[r])

\* A committed end lies in the schedule.
Covered(r) == phase[r] = "none" /\ r \notin leftover => committedEnd[r] <= LastEnd(schedule[r])

AllChosen(h) == UNION {ChosenIn(h, v) : v \in Views}

Replica(r) ==
  /\ Placed(r) /\ Sourced(r) /\ Held(r) /\ Leads(r)
  /\ Reads(r) /\ Proposes(r) /\ Grants(r) /\ Covered(r)

\* The inductive invariant.
Inv ==
  /\ Types
  /\ \A r \in Replicas : Replica(r)
  /\ Within /\ MessagesGood
  /\ agreed \in AllChosen(held)

-----------------------------------------------------------------------------
(* The configuration *)

LEMMA Config ==
  /\ F \in Nat /\ N \in Nat \ {0} /\ N = 2 * F + 1 /\ MaxWindows \in Nat /\ MaxView \in Nat
  /\ IsFiniteSet(Replicas) /\ Cardinality(Replicas) = N /\ IsFiniteSet(Clients)
  /\ \A v \in Views : LeaderIndex(v) \in Replicas
<1>1. /\ F \in Nat /\ N \in Nat \ {0} /\ N = 2 * F + 1 /\ MaxWindows \in Nat /\ MaxView \in Nat
      /\ IsFiniteSet(Clients)
  BY ScheduleAssumption
<1>2. \A v \in Views : v % N \in 0 .. N - 1
  BY <1>1 DEF Views
<1>. QED
  BY <1>1, <1>2, FS_Interval DEF Replicas, LeaderIndex

\* Two quorums have a replica in common.
LEMMA QuorumsMeet ==
  ASSUME NEW P \in Quorums, NEW Q \in Quorums
  PROVE  \E q \in Replicas : q \in P /\ q \in Q
<1>1. /\ P \in SUBSET Replicas /\ Cardinality(P) = F + 1
      /\ Q \in SUBSET Replicas /\ Cardinality(Q) = F + 1
  BY DEF Quorums, kSubset, QuorumSize
<1>2. IsFiniteSet(P) /\ IsFiniteSet(Q) /\ IsFiniteSet(P \cap Q) /\ IsFiniteSet(P \cup Q)
  <2>1. IsFiniteSet(P) /\ IsFiniteSet(Q)
    BY <1>1, Config, FS_Subset
  <2>2. IsFiniteSet(P \cap Q)
    BY <2>1, FS_Intersection
  <2>3. IsFiniteSet(P \cup Q)
    BY <2>1, FS_Union
  <2>. QED
    BY <2>1, <2>2, <2>3
<1>3. Cardinality(P \cup Q) = Cardinality(P) + Cardinality(Q) - Cardinality(P \cap Q)
  BY <1>2, FS_Union
<1>4. Cardinality(P \cup Q) <= 2 * F + 1
  <2>1. P \cup Q \in SUBSET Replicas
    BY <1>1
  <2>. QED
    BY <2>1, Config, FS_Subset
<1>5. P \cap Q # {}
  <2>1. SUFFICES ASSUME P \cap Q = {} PROVE FALSE
    OBVIOUS
  <2>2. Cardinality(P \cap Q) = 0
    BY <2>1, FS_EmptySet
  <2>. QED
    BY <1>1, <1>3, <1>4, <2>2, Config
<1>. QED
  BY <1>1, <1>5

\* A quorum is not empty, and a set that is large enough has one in it.
LEMMA QuorumNonempty ==
  ASSUME NEW Q \in Quorums
  PROVE  Q \in SUBSET Replicas /\ Q # {}
BY QuorumsMeet DEF Quorums, kSubset

LEMMA QuorumWithin ==
  ASSUME NEW S \in SUBSET Replicas, Cardinality(S) >= QuorumSize
  PROVE  \E Q \in Quorums : Q \in SUBSET S
<1>. DEFINE T == {n \in Nat : n >= F + 1 /\ \E A \in SUBSET S : Cardinality(A) = n}
<1>1. IsFiniteSet(S) /\ \A A \in SUBSET S : IsFiniteSet(A) /\ Cardinality(A) \in Nat
  <2>1. IsFiniteSet(S)
    BY Config, FS_Subset
  <2>. QED
    BY <2>1, FS_Subset, FS_CardinalityType
<1>2. Cardinality(S) \in T
  BY <1>1, Config DEF QuorumSize
<1>3. PICK n \in T : \A k \in T : n <= k
  BY <1>2, LeastNatural
<1>4. PICK A \in SUBSET S : Cardinality(A) = n
  BY <1>3
<1>5. n = F + 1
  <2>1. SUFFICES ASSUME n > F + 1 PROVE FALSE
    BY <1>3, Config
  <2>2. A # {}
    BY <1>4, <2>1, FS_EmptySet, Config
  <2>3. PICK a \in A : TRUE
    BY <2>2
  <2>4. Cardinality(A \ {a}) = n - 1
    BY <1>1, <1>4, <2>3, FS_RemoveElement
  <2>5. n - 1 \in T
    <3>1. A \ {a} \in SUBSET S /\ n - 1 \in Nat /\ n - 1 >= F + 1
      BY <2>1, <1>3, Config
    <3>. QED
      BY <2>4, <3>1
  <2>. QED
    BY <1>3, <2>5
<1>. QED
  BY <1>4, <1>5 DEF Quorums, kSubset, QuorumSize

-----------------------------------------------------------------------------
(* Schedules and their beginnings *)

LEMMA EntryFacts ==
  \A e \in Entry : /\ e.client \in Clients /\ e.first \in Windows /\ e.client \in Nat
                   /\ e.first \in Nat /\ e.end \in Nat /\ e.first >= 1
                   /\ e.end = e.first + 1 /\ e.end <= MaxWindows + 1
<1>1. SUFFICES ASSUME NEW e \in Entry
               PROVE  /\ e.client \in Clients /\ e.first \in Windows /\ e.client \in Nat
                      /\ e.first \in Nat /\ e.end \in Nat /\ e.first >= 1
                      /\ e.end = e.first + 1 /\ e.end <= MaxWindows + 1
  OBVIOUS
<1>2. e.client \in Clients /\ e.first \in Windows /\ e.end = e.first + 1
  BY DEF Entry
<1>3. MaxWindows \in Nat /\ Clients \subseteq Nat
  BY ScheduleAssumption
<1>4. e.client \in Nat
  BY <1>2, <1>3
<1>5. e.first \in Nat /\ e.first >= 1 /\ e.first <= MaxWindows
  BY <1>2, <1>3 DEF Windows
<1>. QED
  BY <1>2, <1>3, <1>4, <1>5

LEMMA BeginsRefl == \A a : Begins(a, a)
BY DEF Begins

LEMMA BeginsEmpty == \A a : Begins({}, a) /\ (Begins(a, {}) => a = {})
BY DEF Begins

LEMMA BeginsTrans ==
  ASSUME NEW a, NEW b, NEW c, Begins(a, b), Begins(b, c)
  PROVE  Begins(a, c)
BY DEF Begins

\* Two beginnings of a schedule can be compared.
LEMMA BeginsCompare ==
  ASSUME NEW a \in Schedules, NEW b \in Schedules, NEW c \in Schedules,
         Begins(a, c), Begins(b, c)
  PROVE  Begins(a, b) \/ Begins(b, a)
<1>1. a \subseteq b \/ b \subseteq a
  <2>1. SUFFICES ASSUME NEW x \in a, x \notin b, NEW y \in b, y \notin a PROVE FALSE
    OBVIOUS
  <2>2. x \in Entry /\ y \in Entry /\ x \in c /\ y \in c
    BY <2>1 DEF Begins, Schedules
  <2>3. x.end <= y.first /\ y.end <= x.first
    BY <2>1, <2>2 DEF Begins
  <2>. QED
    BY <2>2, <2>3, EntryFacts
<1>. QED
  BY <1>1 DEF Begins

LEMMA BeginsWithin ==
  ASSUME NEW a, NEW b, NEW c, Begins(a, c), Begins(b, c), a \subseteq b
  PROVE  Begins(a, b)
BY DEF Begins

LEMMA BeginsEqual ==
  ASSUME NEW a, NEW b, Begins(a, b), b \subseteq a
  PROVE  a = b
BY DEF Begins

\* The end of a schedule.
LEMMA LastEndFacts ==
  ASSUME NEW s \in Schedules
  PROVE  /\ LastEnd(s) \in 0 .. MaxWindows + 1
         /\ \A x \in s : x.end <= LastEnd(s)
         /\ s = {} => LastEnd(s) = 0
         /\ s # {} => \E x \in s : x.end = LastEnd(s)
<1>. DEFINE T == {0} \cup {m.end : m \in s}
<1>1. MaxWindows + 1 \in Nat /\ T \in SUBSET (0 .. MaxWindows + 1) /\ T # {}
  BY EntryFacts, Config DEF Schedules
<1>2. \E x \in T : \A y \in T : x >= y
  BY <1>1, GreatestNatural
<1>3. Max(T) \in T /\ \A y \in T : Max(T) >= y
  BY <1>2 DEF Max
<1>4. LastEnd(s) \in T /\ \A y \in T : LastEnd(s) >= y
  BY <1>3 DEF LastEnd
<1>5. LastEnd(s) \in 0 .. MaxWindows + 1 /\ \A x \in s : x.end <= LastEnd(s)
  BY <1>1, <1>4, EntryFacts DEF Schedules
<1>6. s = {} => LastEnd(s) = 0
  BY <1>4
<1>7. ASSUME s # {} PROVE \E x \in s : x.end = LastEnd(s)
  <2>1. PICK y \in s : TRUE
    BY <1>7
  <2>2. y \in Entry
    BY DEF Schedules
  <2>3. y.end >= 1
    BY <2>2, EntryFacts
  <2>4. LastEnd(s) # 0
    BY <2>3, <1>5, <2>1, <2>2, EntryFacts
  <2>. QED
    BY <1>4, <2>4
<1>. QED
  BY <1>5, <1>6, <1>7

\* Cutting a schedule gives a beginning, and every beginning is a cut.
LEMMA UpToBegins ==
  ASSUME NEW s \in Schedules, NEW e \in Int
  PROVE  UpTo(s, e) \in Schedules /\ Begins(UpTo(s, e), s)
<1>1. \A x \in s, y \in s : x.end <= e /\ ~ (y.end <= e) => x.end <= y.first
  BY EntryFacts DEF Schedules
<1>. QED
  BY <1>1 DEF UpTo, Begins, Schedules

LEMMA BeginsEnd ==
  ASSUME NEW a \in Schedules, NEW b \in Schedules, Begins(a, b)
  PROVE  /\ LastEnd(a) <= LastEnd(b)
         /\ \A y \in b : y \in a <=> y.end <= LastEnd(a)
<1>1. /\ LastEnd(a) \in Nat /\ LastEnd(b) \in Nat
      /\ \A x \in a : x.end <= LastEnd(a)
      /\ \A x \in b : x.end <= LastEnd(b)
      /\ a = {} => LastEnd(a) = 0
      /\ a # {} => \E x \in a : x.end = LastEnd(a)
  BY LastEndFacts, Config
<1>2. LastEnd(a) <= LastEnd(b)
  <2>1. CASE a = {}
    BY <1>1, <2>1
  <2>2. CASE a # {}
    BY <1>1, <2>2 DEF Begins
  <2>. QED
    BY <2>1, <2>2
<1>3. ASSUME NEW y \in b, y \notin a PROVE ~ (y.end <= LastEnd(a))
  <2>1. y \in Entry
    BY DEF Schedules
  <2>2. CASE a = {}
    BY <1>1, <2>1, <2>2, EntryFacts
  <2>3. CASE a # {}
    <3>1. PICK x \in a : x.end = LastEnd(a)
      BY <1>1, <2>3
    <3>2. x.end <= y.first
      BY <1>3 DEF Begins
    <3>. QED
      BY <1>1, <2>1, <3>1, <3>2, EntryFacts
  <2>. QED
    BY <2>2, <2>3
<1>. QED
  BY <1>1, <1>2, <1>3

LEMMA UpToExact ==
  ASSUME NEW a \in Schedules, NEW b \in Schedules, Begins(a, b)
  PROVE  UpTo(b, LastEnd(a)) = a
BY BeginsEnd DEF Begins, UpTo

\* Among comparable schedules the one that ends later is the longer one.
LEMMA BeginsByEnd ==
  ASSUME NEW a \in Schedules, NEW b \in Schedules, Begins(a, b) \/ Begins(b, a),
         LastEnd(a) <= LastEnd(b)
  PROVE  Begins(a, b)
<1>1. SUFFICES ASSUME Begins(b, a) PROVE a \subseteq b
  BY BeginsRefl DEF Begins
<1>2. \A y \in a : y \in b <=> y.end <= LastEnd(b)
  BY <1>1, BeginsEnd
<1>3. \A y \in a : y.end <= LastEnd(a) /\ y.end \in Nat
  BY LastEndFacts, EntryFacts DEF Schedules
<1>. QED
  BY <1>2, <1>3, LastEndFacts, Config

-----------------------------------------------------------------------------
(* What a quorum holds *)

LEMMA ChosenEndFacts ==
  ASSUME NEW g \in [Replicas -> [Views -> Schedules]], NEW v \in Views, NEW Q \in Quorums
  PROVE  /\ ChosenEnd(g, v, Q) \in Nat
         /\ \A q \in Q : ChosenEnd(g, v, Q) <= LastEnd(g[q][v])
         /\ \E q \in Q : ChosenEnd(g, v, Q) = LastEnd(g[q][v])
<1>. DEFINE T == {LastEnd(g[q][v]) : q \in Q}
<1>1. Q \in SUBSET Replicas /\ Q # {}
  BY QuorumNonempty
<1>2. \A q \in Q : g[q][v] \in Schedules
  BY <1>1
<1>3. \A q \in Q : LastEnd(g[q][v]) \in Nat
  BY <1>2, LastEndFacts
<1>4. T \in SUBSET Nat /\ T # {}
  BY <1>1, <1>3
<1>5. \E x \in T : \A y \in T : x <= y
  BY <1>4, LeastNatural
<1>6. Min(T) \in T /\ \A y \in T : Min(T) <= y
  BY <1>5 DEF Min
<1>. QED
  BY <1>4, <1>6 DEF ChosenEnd

LEMMA ChosenType ==
  ASSUME NEW g \in [Replicas -> [Views -> Schedules]], NEW v \in Views, NEW h \in ChosenIn(g, v)
  PROVE  /\ h \in Schedules
         /\ \E Q \in Quorums : \E q \in Q : /\ q \in Replicas
                                            /\ h = UpTo(g[q][v], ChosenEnd(g, v, Q))
<1>1. PICK Q \in Quorums : \E q \in Q : h = UpTo(g[q][v], ChosenEnd(g, v, Q))
  BY DEF ChosenIn
<1>2. PICK q \in Q : h = UpTo(g[q][v], ChosenEnd(g, v, Q))
  BY <1>1
<1>3. q \in Replicas
  BY QuorumNonempty
<1>4. g[q][v] \in Schedules
  BY <1>3
<1>5. h \in Schedules
  BY <1>2, <1>4, ChosenEndFacts, UpToBegins
<1>. QED
  BY <1>2, <1>3, <1>5

\* Whatever is held longer, what a quorum holds grows at its end.
LEMMA ChosenGrows ==
  ASSUME NEW g \in [Replicas -> [Views -> Schedules]], NEW k \in [Replicas -> [Views -> Schedules]],
         NEW v \in Views, NEW h \in ChosenIn(g, v),
         \A q \in Replicas : Begins(g[q][v], k[q][v])
  PROVE  \E j \in ChosenIn(k, v) : Begins(h, j)
<1>1. PICK Q \in Quorums : \E q \in Q : q \in Replicas /\ h = UpTo(g[q][v], ChosenEnd(g, v, Q))
  BY ChosenType
<1>2. PICK q \in Q : q \in Replicas /\ h = UpTo(g[q][v], ChosenEnd(g, v, Q))
  BY <1>1
<1>. DEFINE e == ChosenEnd(g, v, Q)
            d == ChosenEnd(k, v, Q)
            j == UpTo(k[q][v], d)
<1>3. e \in Nat /\ d \in Nat
  BY ChosenEndFacts
<1>4. e <= d
  <2>1. PICK p \in Q : d = LastEnd(k[p][v])
    BY ChosenEndFacts
  <2>2. p \in Replicas
    BY QuorumNonempty
  <2>3. g[p][v] \in Schedules /\ k[p][v] \in Schedules
    BY <2>2
  <2>4. LastEnd(g[p][v]) <= LastEnd(k[p][v])
    BY <2>2, <2>3, BeginsEnd
  <2>5. e <= LastEnd(g[p][v])
    BY ChosenEndFacts
  <2>6. LastEnd(g[p][v]) \in Nat
    BY <2>3, LastEndFacts
  <2>. QED
    BY <1>3, <2>1, <2>4, <2>5, <2>6
<1>5. j \in ChosenIn(k, v)
  BY DEF ChosenIn
<1>6. Begins(g[q][v], k[q][v]) /\ g[q][v] \in Schedules /\ k[q][v] \in Schedules
  BY <1>2
<1>7. Begins(h, j)
  <2>1. \A x \in h : x \in g[q][v] /\ x.end <= e
    BY <1>2 DEF UpTo
  <2>2. h \subseteq j
    <3>1. SUFFICES ASSUME NEW x \in h PROVE x \in k[q][v] /\ x.end <= d
      BY DEF UpTo
    <3>2. x \in Entry /\ x \in k[q][v]
      BY <2>1, <1>6 DEF Begins, Schedules
    <3>. QED
      BY <2>1, <3>2, <1>3, <1>4, EntryFacts
  <2>3. ASSUME NEW x \in h, NEW y \in j, y \notin h PROVE x.end <= y.first
    <3>1. y \in k[q][v] /\ x \in g[q][v] /\ x.end <= e
      BY <2>1, <2>3 DEF UpTo
    <3>2. x \in Entry /\ y \in Entry
      BY <3>1, <1>6 DEF Schedules
    <3>3. CASE y \in g[q][v]
      <4>1. ~ (y.end <= e)
        BY <3>3, <2>3, <1>2 DEF UpTo
      <4>. QED
        BY <4>1, <3>1, <3>2, <1>3, EntryFacts
    <3>4. CASE y \notin g[q][v]
      BY <3>1, <3>4, <1>6 DEF Begins
    <3>. QED
      BY <3>3, <3>4
  <2>. QED
    BY <2>2, <2>3 DEF Begins
<1>. QED
  BY <1>5, <1>7

-----------------------------------------------------------------------------
(* What every step keeps *)

\* What all replicas say and hold only grows, in the views they are in.
Grow ==
  /\ msgs \subseteq msgs'
  /\ \A q \in Replicas : view[q] <= view'[q]
  /\ \A q \in Replicas, v \in Views : Begins(held[q][v], held'[q][v])
  /\ \A q \in Replicas, v \in Views : v # view[q] => held'[q][v] = held[q][v]
  /\ \A v \in Views : Begins(Full(held, msgs, v), Full(held', msgs', v))
  /\ \A q \in Replicas :
       IsLeader(q) /\ view'[q] = view[q] /\ phase[q] \in {"none", "installed"}
         => phase'[q] \in {"none", "installed"}

LEMMA MsgFacts ==
  ASSUME Types, NEW m \in msgs
  PROVE  /\ m.type \in {"batch", "prepareReply", "report", "startView"}
         /\ m.view \in Views
         /\ m.type = "batch" => m \in Batches
         /\ m.type = "prepareReply" => m \in Replies
         /\ m.type = "report" => m \in Reports
         /\ m.type = "startView" => m \in StartViews
<1>1. m \in Batches \/ m \in Replies \/ m \in Reports \/ m \in StartViews
  BY DEF Types, HistoryTypes, Messages
<1>2. CASE m \in Batches
  BY <1>2 DEF Batches
<1>3. CASE m \in Replies
  BY <1>3 DEF Replies
<1>4. CASE m \in Reports
  BY <1>4 DEF Reports
<1>5. CASE m \in StartViews
  BY <1>5 DEF StartViews
<1>. QED
  BY <1>1, <1>2, <1>3, <1>4, <1>5

LEMMA StartFacts ==
  ASSUME Types, NEW v \in Views
  PROVE  \A s \in StartsOf(msgs, v) :
           s \in msgs /\ s.type = "startView" /\ s.view = v /\ s.schedule \in Schedules
BY MsgFacts DEF StartsOf, StartViews

LEMMA HeldTypes ==
  ASSUME Types
  PROVE  \A q \in Replicas, v \in Views : held[q][v] \in Schedules
BY DEF Types, HistoryTypes

LEMMA FullType ==
  ASSUME Types, NEW v \in Views
  PROVE  Full(held, msgs, v) \in Schedules
<1>1. held[LeaderIndex(v)][v] \in Schedules
  BY Config, HeldTypes
<1>2. \A s \in StartsOf(msgs, v) : s.schedule \in Schedules
  BY StartFacts
<1>. QED
  BY <1>1, <1>2 DEF Full, Schedules

\* What may be chosen becomes less.
LEMMA GrowChoosable ==
  ASSUME Types, Types', Grow, NEW v \in Views, NEW h, Choosable(v, h)'
  PROVE  Choosable(v, h)
<1>1. PICK Q \in Quorums : \A q \in Q : view'[q] <= v \/ Begins(h, held'[q][v])
  BY DEF Choosable
<1>2. ASSUME NEW q \in Q PROVE view[q] <= v \/ Begins(h, held[q][v])
  <2>1. q \in Replicas
    BY QuorumNonempty
  <2>2. view[q] \in Nat /\ view'[q] \in Nat /\ v \in Nat
    BY <2>1, Config DEF Types, ViewTypes, Views
  <2>3. CASE view'[q] <= v
    BY <2>1, <2>2, <2>3 DEF Grow
  <2>4. CASE Begins(h, held'[q][v]) /\ v # view[q]
    BY <2>1, <2>4 DEF Grow
  <2>5. CASE v = view[q]
    BY <2>2, <2>5
  <2>. QED
    BY <1>1, <2>3, <2>4, <2>5
<1>. QED
  BY <1>2 DEF Choosable

LEMMA GrowBased ==
  ASSUME Grow, NEW q \in Replicas, NEW v \in Views, Based(q, v)
  PROVE  Based(q, v)'
<1>1. SUFFICES ASSUME v > 0 PROVE \E s \in StartsOf(msgs', v) : Begins(s.schedule, held'[q][v])
  BY DEF Based
<1>2. PICK s \in StartsOf(msgs, v) : Begins(s.schedule, held[q][v])
  BY <1>1 DEF Based
<1>3. s \in StartsOf(msgs', v)
  BY DEF Grow, StartsOf
<1>4. Begins(s.schedule, held'[q][v])
  BY <1>2, BeginsTrans DEF Grow
<1>. QED
  BY <1>3, <1>4

LEMMA GrowWindow ==
  ASSUME Grow, NEW q \in Replicas, NEW v \in Views, NEW w, HoldsWindow(q, v, w)
  PROVE  HoldsWindow(q, v, w)'
BY DEF Grow, HoldsWindow, WindowOf, Begins

LEMMA GrowGranted ==
  ASSUME Types, Types', Grow, NEW x, NEW v \in Views, Granted(x, v)
  PROVE  Granted(x, v)'
<1>1. CASE \E s \in StartsOf(msgs, v) : x \in s.schedule
  BY <1>1 DEF Granted, StartsOf, Grow
<1>2. CASE \E h \in ChosenIn(held, v) : x \in h
  <2>1. PICK h \in ChosenIn(held, v) : x \in h
    BY <1>2
  <2>2. \E j \in ChosenIn(held', v) : Begins(h, j)
    BY ChosenGrows DEF Grow, Types, HistoryTypes
  <2>. QED
    BY <2>1, <2>2 DEF Granted, Begins
<1>. QED
  BY <1>1, <1>2 DEF Granted

LEMMA GrowMessage ==
  ASSUME Inv, Types', Grow, NEW m \in msgs
  PROVE  GoodMessage(m)'
<1>1. GoodMessage(m) /\ Types
  BY DEF Inv, MessagesGood
<1>2. m.view \in Views
  BY <1>1, MsgFacts
<1>3. ASSUME Spoken(m.view) PROVE Spoken(m.view)'
  <2>1. LeaderIndex(m.view) \in Replicas
    BY <1>2, Config
  <2>2. LeaderIndex(m.view)' = LeaderIndex(m.view)
    BY DEF LeaderIndex
  <2>. QED
    <3>. PICK l \in Replicas : l = LeaderIndex(m.view)
      BY <2>1
    <3>1. view[l] \in Nat /\ view'[l] \in Nat /\ m.view \in Nat
      BY <1>1, <1>2, Config DEF Types, ViewTypes, Views
    <3>2. view[l] >= m.view /\ (view[l] = m.view => phase[l] \in {"none", "installed"})
      BY <1>3 DEF Spoken
    <3>3. /\ view[l] <= view'[l]
          /\ IsLeader(l) /\ view'[l] = view[l] /\ phase[l] \in {"none", "installed"}
               => phase'[l] \in {"none", "installed"}
      BY DEF Grow
    <3>4. view[l] = m.view => IsLeader(l)
      BY DEF IsLeader
    <3>5. view'[l] >= m.view /\ (view'[l] = m.view => phase'[l] \in {"none", "installed"})
      BY <3>1, <3>2, <3>3, <3>4
    <3>. QED
      BY <2>2, <3>5 DEF Spoken
<1>4. CASE m.type = "batch"
  <2>1. GoodBatch(m) /\ Spoken(m.view)
    BY <1>1, <1>4 DEF GoodMessage
  <2>2. Begins(Full(held, msgs, m.view), Full(held', msgs', m.view))
    BY <1>2 DEF Grow
  <2>3. GoodBatch(m)'
    BY <2>1, <2>2, BeginsTrans DEF GoodBatch
  <2>. QED
    BY <1>3, <1>4, <2>1, <2>3 DEF GoodMessage
<1>5. CASE m.type = "prepareReply"
  <2>1. m.from \in Replicas
    BY <1>1, <1>5, MsgFacts DEF Replies
  <2>2. HoldsWindow(m.from, m.view, m.window)'
    BY <1>1, <1>2, <1>5, <2>1, GrowWindow DEF GoodMessage
  <2>. QED
    BY <1>5, <2>2 DEF GoodMessage
<1>6. CASE m.type = "report"
  <2>1. m \in Reports /\ GoodReport(m)
    BY <1>1, <1>6, MsgFacts DEF GoodMessage
  <2>2. m.from \in Replicas /\ m.lastNormalView \in Views
    BY <2>1 DEF Reports
  <2>3. view[m.from] \in Nat /\ view'[m.from] \in Nat /\ m.view \in Nat /\ m.lastNormalView \in Nat
    BY <1>1, <1>2, <2>2, Config DEF Types, ViewTypes, Views
  <2>4. \A v \in Views : v < m.view => held'[m.from][v] = held[m.from][v]
    BY <2>1, <2>2, <2>3, Config DEF Grow, GoodReport, Views
  <2>5. m.lastNormalView < m.view /\ m.view <= view'[m.from]
    BY <2>1, <2>2, <2>3 DEF Grow, GoodReport
  <2>6. \A v \in Views : held'[m.from][v] # {} /\ v < m.view => v <= m.lastNormalView
    BY <2>1, <2>4 DEF GoodReport
  <2>7. Based(m.from, m.lastNormalView)'
    BY <2>1, <2>2, GrowBased DEF GoodReport
  <2>8. \/ m.schedule = held'[m.from][m.lastNormalView]
        \/ \E v \in Views : \E s \in StartsOf(msgs', v) :
             m.lastNormalView < v /\ v < m.view /\ s.schedule = m.schedule
    <3>1. CASE m.schedule = held[m.from][m.lastNormalView]
      BY <3>1, <2>2, <2>4, <2>5
    <3>2. CASE \E v \in Views : \E s \in StartsOf(msgs, v) :
                 m.lastNormalView < v /\ v < m.view /\ s.schedule = m.schedule
      BY <3>2 DEF Grow, StartsOf
    <3>. QED
      BY <2>1, <3>1, <3>2 DEF GoodReport
  <2>9. GoodReport(m)'
    BY <2>5, <2>6, <2>7, <2>8 DEF GoodReport
  <2>. QED
    BY <1>6, <2>9 DEF GoodMessage
<1>7. CASE m.type = "startView"
  <2>1. Safe(m) /\ Spoken(m.view)
    BY <1>1, <1>7 DEF GoodMessage
  <2>2. Safe(m)'
    <3>1. SUFFICES ASSUME NEW v \in Views, NEW h \in Schedules, v < m.view, Choosable(v, h)'
                   PROVE  Begins(h, m.schedule)
      BY DEF Safe
    <3>2. Choosable(v, h)
      BY <1>1, <3>1, GrowChoosable
    <3>. QED
      BY <2>1, <3>1, <3>2 DEF Safe
  <2>. QED
    BY <1>3, <1>7, <2>1, <2>2 DEF GoodMessage
<1>. QED
  BY <1>1, <1>4, <1>5, <1>6, <1>7, MsgFacts

\* Replica q takes no part in the step.
Same(q) ==
  /\ view'[q] = view[q] /\ status'[q] = status[q] /\ phase'[q] = phase[q]
  /\ lastNormalView'[q] = lastNormalView[q]
  /\ schedule'[q] = schedule[q] /\ epoch'[q] = epoch[q] /\ ready'[q] = ready[q]
  /\ committedEnd'[q] = committedEnd[q]
  /\ proposal'[q] = proposal[q] /\ prepared'[q] = prepared[q] /\ reading'[q] = reading[q]
  /\ held'[q] = held[q] /\ (q \in leftover' <=> q \in leftover)

LEMMA LeaderPrime == \A v : LeaderIndex(v)' = LeaderIndex(v)
BY DEF LeaderIndex

LEMMA OthersKeep ==
  ASSUME Inv, Types', Grow, NEW q \in Replicas, Same(q),
         IsLeader(q) => Full(held', msgs', view[q]) = Full(held, msgs, view[q])
  PROVE  Replica(q)'
<1>1. Replica(q) /\ Types
  BY DEF Inv
<1>2. view[q] \in Views /\ lastNormalView[q] \in Views
  BY <1>1 DEF Types, ViewTypes
<1>3. IsLeader(q)' <=> IsLeader(q)
  BY DEF IsLeader, Same, LeaderIndex
<1>4. NormalLeader(q)' <=> NormalLeader(q)
  BY <1>3 DEF NormalLeader, Same
<1>5. Placed(q)'
  BY <1>1, <1>3 DEF Replica, Placed, Same
<1>6. Sourced(q)'
  <2>1. \A v \in Views : StartsOf(msgs, v) \subseteq StartsOf(msgs', v)
    BY DEF Grow, StartsOf
  <2>2. Sourced(q)
    BY <1>1 DEF Replica
  <2>3. phase[q] = "none" => schedule'[q] = held'[q][view'[q]]
    BY <2>2 DEF Sourced, Same
  <2>4. phase[q] \in {"installed", "recover"} =>
          \E s \in StartsOf(msgs', view'[q]) : s.schedule = schedule'[q]
    BY <1>2, <2>1, <2>2 DEF Sourced, Same
  <2>5. phase[q] = "vc" =>
          \/ schedule'[q] = held'[q][lastNormalView'[q]]
          \/ \E v \in Views : \E s \in StartsOf(msgs', v) :
               lastNormalView'[q] < v /\ v < view'[q] /\ s.schedule = schedule'[q]
    BY <2>1, <2>2 DEF Sourced, Same
  <2>. QED
    BY <2>3, <2>4, <2>5 DEF Sourced, Same
<1>7. Held(q)'
  <2>1. \A v \in Views : Based(q, v) => Based(q, v)'
    BY GrowBased
  <2>. QED
    BY <1>1, <2>1 DEF Replica, Held, Same
<1>8. Leads(q)'
  BY <1>1, <1>3 DEF Replica, Leads, Same
<1>9. Reads(q)'
  BY <1>1 DEF Replica, Reads, Same, Grow
<1>10. Proposes(q)'
  <2>1. SUFFICES ASSUME NormalLeader(q) PROVE Proposes(q)'
    BY <1>4 DEF Proposes
  <2>2. Proposes(q)
    BY <1>1 DEF Replica
  <2>3. ASSUME proposal[q] # NoProposal, NEW p \in prepared[q]
        PROVE  WindowOf(held'[p][proposal[q].view], proposal[q].window) # {}
    <3>a. PICK v \in Views : v = view[q]
      BY <1>2
    <3>1. PICK w : v = view[q] /\ w = proposal[q].window
      BY <3>a
    <3>2. HoldsWindow(p, v, w) /\ proposal[q].view = v
      BY <2>1, <2>2, <2>3, <3>1 DEF Proposes
    <3>3. p \in Replicas
      BY <1>1 DEF Types, LeaderTypes
    <3>4. HoldsWindow(p, v, w)'
      BY <3>2, <3>3, GrowWindow
    <3>. QED
      BY <3>1, <3>2, <3>4 DEF HoldsWindow
  <2>. QED
    BY <2>1, <2>2, <2>3 DEF Proposes, Same, HoldsWindow
<1>11. Grants(q)'
  <2>1. PICK v \in Views : v = view[q]
    BY <1>2
  <2>2. SUFFICES ASSUME NormalLeader(q), NEW x \in committedSchedule(q)' PROVE Granted(x, v)'
    BY <1>4, <2>1 DEF Grants, Same, Granted
  <2>3. x \in committedSchedule(q)
    BY <2>2 DEF committedSchedule, Same
  <2>4. Granted(x, v)
    BY <1>1, <2>1, <2>2, <2>3 DEF Replica, Grants
  <2>. QED
    BY <1>1, <2>4, GrowGranted
<1>12. Covered(q)'
  BY <1>1 DEF Replica, Covered, Same
<1>. QED
  BY <1>5, <1>6, <1>7, <1>8, <1>9, <1>10, <1>11, <1>12 DEF Replica

\* A step of replica r keeps the invariant if r keeps its part of it.
LEMMA Preserve ==
  ASSUME Inv, Types', Grow, NEW r \in Replicas, Replica(r)',
         \A q \in Replicas : q # r => Same(q),
         \A v \in Views : LeaderIndex(v) # r => Full(held', msgs', v) = Full(held, msgs, v),
         Begins(held'[r][view[r]], Full(held', msgs', view[r])),
         \A m \in msgs' \ msgs : GoodMessage(m)',
         \A s \in msgs' \ msgs :
           s.type = "startView" => Begins(s.schedule, Full(held', msgs', s.view)),
         agreed' \in AllChosen(held')
  PROVE  Inv' /\ Grow
<1>1. Types /\ \A q \in Replicas : view[q] \in Views
  BY DEF Inv, Types, ViewTypes
<1>2. \A q \in Replicas : Replica(q)'
  <2>1. SUFFICES ASSUME NEW q \in Replicas, q # r PROVE Replica(q)'
    OBVIOUS
  <2>2. IsLeader(q) => Full(held', msgs', view[q]) = Full(held, msgs, view[q])
    BY <1>1, <2>1 DEF IsLeader
  <2>. QED
    BY <2>1, <2>2, OthersKeep
<1>3. MessagesGood'
  BY GrowMessage DEF MessagesGood
<1>4. Within'
  <2>1. ASSUME NEW q \in Replicas, NEW v \in Views
        PROVE  Begins(held'[q][v], Full(held', msgs', v))
    <3>1. CASE q = r /\ v = view[r]
      BY <3>1
    <3>2. CASE q # r \/ v # view[r]
      <4>1. held'[q][v] = held[q][v]
        BY <3>2 DEF Same, Grow
      <4>2. Begins(held[q][v], Full(held, msgs, v)) /\ Begins(Full(held, msgs, v), Full(held', msgs', v))
        BY DEF Inv, Within, Grow
      <4>. QED
        BY <4>1, <4>2, BeginsTrans
    <3>. QED
      BY <3>1, <3>2
  <2>2. ASSUME NEW v \in Views, NEW s \in StartsOf(msgs', v)
        PROVE  Begins(s.schedule, Full(held', msgs', v))
    <3>1. CASE s \in msgs
      <4>1. s \in StartsOf(msgs, v)
        BY <3>1 DEF StartsOf
      <4>2. Begins(s.schedule, Full(held, msgs, v)) /\ Begins(Full(held, msgs, v), Full(held', msgs', v))
        BY <4>1 DEF Inv, Within, Grow
      <4>. QED
        BY <4>2, BeginsTrans
    <3>2. CASE s \notin msgs
      BY <3>2 DEF StartsOf
    <3>. QED
      BY <3>1, <3>2
  <2>. QED
    BY <2>1, <2>2 DEF Within
<1>. QED
  BY <1>2, <1>3, <1>4 DEF Inv

-----------------------------------------------------------------------------
(* The longest schedule that a quorum held *)

LEMMA AllChosenTypes ==
  ASSUME NEW g \in [Replicas -> [Views -> Schedules]]
  PROVE  AllChosen(g) \in SUBSET Schedules /\ AllChosen(g) # {}
<1>1. AllChosen(g) \in SUBSET Schedules
  BY ChosenType DEF AllChosen
<1>2. \E Q \in Quorums : Q # {}
  <2>1. Cardinality(Replicas) >= QuorumSize
    BY Config DEF QuorumSize
  <2>. QED
    BY <2>1, QuorumWithin, QuorumNonempty
<1>3. 0 \in Views
  BY Config DEF Views
<1>4. ChosenIn(g, 0) # {}
  BY <1>2 DEF ChosenIn
<1>. QED
  BY <1>1, <1>3, <1>4 DEF AllChosen

LEMMA LongestFacts ==
  ASSUME NEW S \in SUBSET Schedules, S # {}
  PROVE  Longest(S) \in S /\ \A b \in S : LastEnd(b) <= LastEnd(Longest(S))
<1>. DEFINE T == {LastEnd(b) : b \in S}
<1>1. MaxWindows + 1 \in Nat /\ T \in SUBSET (0 .. MaxWindows + 1) /\ T # {}
  BY LastEndFacts, Config
<1>2. \E x \in T : \A y \in T : x >= y
  BY <1>1, GreatestNatural
<1>3. PICK a \in S : \A b \in S : LastEnd(a) >= LastEnd(b)
  BY <1>2
<1>4. \A b \in S : LastEnd(b) <= LastEnd(a)
  BY <1>1, <1>3
<1>. QED
  BY <1>4 DEF Longest

LEMMA HoldFacts ==
  ASSUME Inv, NEW r \in Replicas, NEW s \in Schedules, hold(r, s)
  PROVE  /\ held' = [held EXCEPT ![r][view[r]] = s]
         /\ held' \in [Replicas -> [Views -> Schedules]]
         /\ agreed' \in AllChosen(held') /\ agreed' \in Schedules
<1>1. /\ held \in [Replicas -> [Views -> Schedules]] /\ view[r] \in Views
      /\ agreed \in AllChosen(held)
  BY DEF Inv, Types, HistoryTypes, ViewTypes
<1>2. held' = [held EXCEPT ![r][view[r]] = s]
  <2>1. CASE held[r][view[r]] = s
    BY <1>1, <2>1 DEF hold, historyVars
  <2>2. CASE held[r][view[r]] # s
    BY <2>2 DEF hold
  <2>. QED
    BY <2>1, <2>2
<1>3. held' \in [Replicas -> [Views -> Schedules]]
  BY <1>1, <1>2
<1>4. agreed' \in AllChosen(held')
  <2>1. CASE held[r][view[r]] = s
    BY <1>1, <2>1 DEF hold, historyVars
  <2>2. CASE held[r][view[r]] # s
    <3>1. agreed' = Longest(AllChosen(held'))
      BY <2>2 DEF hold, AllChosen
    <3>. QED
      BY <1>3, <3>1, AllChosenTypes, LongestFacts
  <2>. QED
    BY <2>1, <2>2
<1>. QED
  BY <1>2, <1>3, <1>4, AllChosenTypes

-----------------------------------------------------------------------------
(* Steps that neither say nor hold anything *)

LEMMA QuietGrow ==
  ASSUME Inv, Types', held' = held, msgs' = msgs,
         \A q \in Replicas : view[q] <= view'[q],
         \A q \in Replicas :
           IsLeader(q) /\ view'[q] = view[q] /\ phase[q] \in {"none", "installed"}
             => phase'[q] \in {"none", "installed"}
  PROVE  Grow /\ \A v \in Views : Full(held', msgs', v) = Full(held, msgs, v)
BY BeginsRefl DEF Grow

LEMMA QuietPreserve ==
  ASSUME Inv, Types', UNCHANGED <<held, agreed, msgs>>, NEW r \in Replicas, Replica(r)',
         view[r] <= view'[r],
         IsLeader(r) /\ view'[r] = view[r] /\ phase[r] \in {"none", "installed"}
           => phase'[r] \in {"none", "installed"},
         \A q \in Replicas : q # r => Same(q)
  PROVE  Inv' /\ Grow
<1>1. \A q \in Replicas : view[q] \in Nat /\ view[q] \in Views
  BY Config DEF Inv, Types, ViewTypes, Views
<1>2. Grow /\ \A v \in Views : Full(held', msgs', v) = Full(held, msgs, v)
  <2>1. \A q \in Replicas : view[q] <= view'[q]
    BY <1>1 DEF Same
  <2>2. \A q \in Replicas :
          IsLeader(q) /\ view'[q] = view[q] /\ phase[q] \in {"none", "installed"}
            => phase'[q] \in {"none", "installed"}
    BY DEF Same
  <2>. QED
    BY <2>1, <2>2, QuietGrow
<1>3. Begins(held'[r][view[r]], Full(held', msgs', view[r]))
  BY <1>1, <1>2 DEF Inv, Within
<1>4. agreed' \in AllChosen(held')
  BY DEF Inv
<1>. QED
  BY <1>2, <1>3, <1>4, Preserve

\* Requests have no part in the invariant.
LEMMA RequestsStep ==
  ASSUME Inv, NEW r \in Replicas,
         \/ \E c \in Clients, w \in Windows : TakeRequest(r, c, w)
         \/ \E w \in Windows : ExpireRequests(r, w)
  PROVE  Inv' /\ Grow
<1>1. /\ UNCHANGED <<viewVars, scheduleVars, proposal, prepared, reading, msgs, boundVars,
                     historyVars, leftover>>
      /\ requests' \in [Replicas -> SUBSET (Windows \X Clients)]
  <2>1. requests \in [Replicas -> SUBSET (Windows \X Clients)]
    BY DEF Inv, Types, LeaderTypes
  <2>2. CASE \E c \in Clients, w \in Windows : TakeRequest(r, c, w)
    BY <2>1, <2>2 DEF TakeRequest
  <2>3. CASE \E w \in Windows : ExpireRequests(r, w)
    BY <2>1, <2>3 DEF ExpireRequests
  <2>. QED
    BY <2>2, <2>3
<1>2. /\ UNCHANGED <<view, status, lastNormalView, phase, schedule, epoch, ready, committedEnd>>
      /\ UNCHANGED <<proposal, prepared, reading, msgs, plan, held, agreed, leftover>>
  BY <1>1 DEF viewVars, scheduleVars, historyVars, boundVars
<1>3. Types'
  BY <1>1, <1>2 DEF Inv, Types, ViewTypes, ScheduleTypes, LeaderTypes, HistoryTypes
<1>4. \A q \in Replicas : Same(q)
  BY <1>2 DEF Same
<1>5. view[r] \in Nat
  BY Config DEF Inv, Types, ViewTypes, Views
<1>6. Grow /\ \A v \in Views : Full(held', msgs', v) = Full(held, msgs, v)
  BY <1>2, <1>3, QuietGrow, Config DEF Inv, Types, ViewTypes, Views
<1>7. view[r] \in Views
  BY DEF Inv, Types, ViewTypes
<1>8. Replica(r)'
  BY <1>3, <1>4, <1>6, <1>7, OthersKeep
<1>. QED
  BY <1>2, <1>3, <1>4, <1>5, <1>8, QuietPreserve

\* The reply is for the proposal, so its sender holds the proposed window.
LEMMA PrepareReplyStep ==
  ASSUME Inv, NEW r \in Replicas, NEW m \in msgs, PrepareReply(r, m)
  PROVE  Inv' /\ Grow
<1>. DEFINE p == proposal[r]
<1>1. /\ UNCHANGED <<view, status, lastNormalView, phase, schedule, epoch, ready, committedEnd>>
      /\ UNCHANGED <<requests, proposal, reading, msgs, plan, held, agreed, leftover>>
      /\ prepared' = [prepared EXCEPT ![r] = @ \cup {m.from}]
      /\ m.type = "prepareReply" /\ m.view = p.view /\ m.window = p.window
  BY DEF PrepareReply, viewVars, scheduleVars, historyVars, boundVars
<1>2. Types /\ Replica(r)
  BY DEF Inv
<1>3. m.from \in Replicas /\ m.view \in Views
  BY <1>1, <1>2, MsgFacts DEF Replies
<1>4. Types'
  <2>1. prepared' \in [Replicas -> SUBSET Replicas]
    BY <1>1, <1>2, <1>3 DEF Types, LeaderTypes
  <2>. QED
    BY <1>1, <1>2, <2>1 DEF Types, ViewTypes, ScheduleTypes, LeaderTypes, HistoryTypes
<1>5. prepared'[r] = prepared[r] \cup {m.from}
  BY <1>1, <1>2 DEF Types, LeaderTypes
<1>6. HoldsWindow(m.from, p.view, p.window)
  BY <1>1 DEF Inv, MessagesGood, GoodMessage
<1>7. Proposes(r)'
  <2>1. Proposes(r)
    BY <1>2 DEF Replica
  <2>. QED
    BY <1>1, <1>5, <1>6, <2>1 DEF Proposes, NormalLeader, IsLeader, HoldsWindow, LeaderIndex
<1>8. /\ Placed(r)' /\ Sourced(r)' /\ Held(r)' /\ Leads(r)' /\ Reads(r)' /\ Grants(r)' /\ Covered(r)'
  <2>1. /\ Placed(r) /\ Sourced(r) /\ Held(r) /\ Leads(r) /\ Reads(r) /\ Grants(r) /\ Covered(r)
    BY <1>2 DEF Replica
  <2>2. Placed(r)' /\ Sourced(r)'
    BY <1>1, <2>1 DEF Placed, Sourced, IsLeader, LeaderIndex
  <2>3. Held(r)' /\ Leads(r)' /\ Reads(r)'
    BY <1>1, <2>1 DEF Held, Based, Leads, Reads, IsLeader, LeaderIndex
  <2>4. Grants(r)' /\ Covered(r)'
    BY <1>1, <2>1 DEF Grants, Granted, Covered, committedSchedule, NormalLeader, IsLeader, LeaderIndex
  <2>. QED
    BY <2>2, <2>3, <2>4
<1>9. Replica(r)'
  BY <1>7, <1>8 DEF Replica
<1>10. \A q \in Replicas : q # r => Same(q)
  BY <1>1, <1>2 DEF Same, Types, LeaderTypes
<1>11. view[r] <= view'[r]
  BY <1>1, <1>2, Config DEF Types, ViewTypes, Views
<1>. QED
  BY <1>1, <1>4, <1>9, <1>10, <1>11, QuietPreserve

-----------------------------------------------------------------------------
(* Leaving a view *)

LEMMA BeginStep ==
  ASSUME Inv, NEW r \in Replicas, NEW v \in Views, beginViewChange(r, v)
  PROVE  Inv' /\ Grow
<1>1. /\ v > view[r] /\ view' = [view EXCEPT ![r] = v]
      /\ status' = [status EXCEPT ![r] = "viewChange"] /\ phase' = [phase EXCEPT ![r] = "vc"]
      /\ ready' = [ready EXCEPT ![r] = FALSE] /\ proposal' = [proposal EXCEPT ![r] = NoProposal]
      /\ requests' = [requests EXCEPT ![r] = {}]
      /\ reading' = [reading EXCEPT ![r] = IF @.stage # "none" /\ @.msg.view < v THEN NoBatch ELSE @]
      /\ UNCHANGED <<lastNormalView, schedule, epoch, committedEnd, prepared, msgs, plan, held,
                     agreed, leftover>>
  BY DEF beginViewChange, dropStale, historyVars, boundVars
<1>2. Types /\ Replica(r)
  BY DEF Inv
<1>3. Types'
  <2>1. ViewTypes'
    BY <1>1, <1>2 DEF Types, ViewTypes
  <2>2. ScheduleTypes'
    BY <1>1, <1>2 DEF Types, ScheduleTypes
  <2>3. LeaderTypes'
    BY <1>1, <1>2 DEF Types, LeaderTypes
  <2>4. reading' \in [Replicas -> Readings]
    <3>1. NoBatch \in Readings /\ reading \in [Replicas -> Readings]
      BY <1>2 DEF Readings, Types, HistoryTypes
    <3>. QED
      BY <1>1, <3>1
  <2>. QED
    BY <1>1, <1>2, <2>1, <2>2, <2>3, <2>4 DEF Types, HistoryTypes
<1>4. /\ view'[r] = v /\ status'[r] = "viewChange" /\ phase'[r] = "vc" /\ ready'[r] = FALSE
      /\ proposal'[r] = NoProposal
      /\ reading'[r] = IF reading[r].stage # "none" /\ reading[r].msg.view < v THEN NoBatch ELSE reading[r]
  BY <1>1, <1>2 DEF Types, ViewTypes, ScheduleTypes, LeaderTypes, HistoryTypes
<1>5. /\ view[r] \in Nat /\ v \in Nat /\ lastNormalView[r] \in Nat /\ lastNormalView[r] <= view[r]
      /\ view[r] \in Views /\ lastNormalView[r] \in Views
  BY <1>2, Config DEF Types, ViewTypes, Views, Replica, Placed
<1>6. Placed(r)'
  BY <1>1, <1>2, <1>4, <1>5 DEF Placed, Replica
<1>7. Sourced(r)'
  <2>1. Sourced(r) /\ Placed(r)
    BY <1>2 DEF Replica
  <2>2. SUFFICES \/ schedule[r] = held[r][lastNormalView[r]]
                 \/ \E u \in Views : \E s \in StartsOf(msgs, u) :
                      lastNormalView[r] < u /\ u < v /\ s.schedule = schedule[r]
    BY <1>1, <1>4 DEF Sourced
  <2>3. CASE phase[r] = "none"
    BY <2>1, <2>3 DEF Sourced, Placed
  <2>4. CASE phase[r] \in {"installed", "recover"}
    <3>1. PICK s \in StartsOf(msgs, view[r]) : s.schedule = schedule[r]
      BY <2>1, <2>4 DEF Sourced
    <3>2. lastNormalView[r] # view[r]
      BY <2>1, <2>4 DEF Placed
    <3>3. lastNormalView[r] < view[r] /\ view[r] < v
      BY <1>1, <1>5, <3>2
    <3>. QED
      BY <1>5, <3>1, <3>3
  <2>5. CASE phase[r] = "vc"
    <3>1. SUFFICES ASSUME NEW u \in Views, NEW s \in StartsOf(msgs, u),
                          lastNormalView[r] < u /\ u < view[r] /\ s.schedule = schedule[r]
                   PROVE  lastNormalView[r] < u /\ u < v /\ s.schedule = schedule[r]
      BY <2>1, <2>5 DEF Sourced
    <3>. QED
      BY <1>1, <1>5, <3>1, Config DEF Views
  <2>. QED
    BY <1>2, <2>3, <2>4, <2>5 DEF Types, ViewTypes
<1>8. Held(r)'
  BY <1>1, <1>2 DEF Replica, Held, Based
<1>9. Leads(r)' /\ Proposes(r)' /\ Grants(r)' /\ Covered(r)'
  BY <1>4 DEF Leads, Proposes, Grants, Covered, NormalLeader
<1>10. Reads(r)'
  <2>1. Reads(r)
    BY <1>2 DEF Replica
  <2>2. NoBatch.stage = "none"
    BY DEF NoBatch
  <2>3. CASE reading'[r] = NoBatch
    BY <2>2, <2>3 DEF Reads
  <2>4. CASE reading'[r] = reading[r] /\ (reading[r].stage = "none" \/ ~ (reading[r].msg.view < v))
    <3>1. ASSUME reading[r].stage = "prepare", reading[r].ok PROVE FALSE
      <4>1. view[r] >= reading[r].msg.view /\ reading[r].msg \in msgs
        BY <2>1, <3>1 DEF Reads
      <4>2. reading[r].msg.view \in Nat
        BY <1>2, <4>1, MsgFacts, Config DEF Views
      <4>. QED
        BY <1>1, <1>5, <2>4, <3>1, <4>1, <4>2
    <3>. QED
      BY <1>1, <2>1, <2>4, <3>1 DEF Reads
  <2>. QED
    BY <1>4, <2>3, <2>4
<1>11. Replica(r)'
  BY <1>6, <1>7, <1>8, <1>9, <1>10 DEF Replica
<1>12. \A q \in Replicas : q # r => Same(q)
  BY <1>1, <1>2 DEF Same, Types, ViewTypes, ScheduleTypes, LeaderTypes, HistoryTypes
<1>13. view[r] <= view'[r] /\ view'[r] # view[r]
  BY <1>1, <1>4, <1>5
<1>. QED
  BY <1>1, <1>3, <1>11, <1>12, <1>13, QuietPreserve

-----------------------------------------------------------------------------
(* Steps that send a message and hold nothing new *)

LEMMA SpeakGrow ==
  ASSUME Inv, Types', held' = held, view' = view, phase' = phase, NEW m, msgs' = msgs \cup {m},
         m.type = "startView" => m.schedule \subseteq Full(held, msgs, m.view)
  PROVE  Grow /\ \A v \in Views : Full(held', msgs', v) = Full(held, msgs, v)
<1>1. ASSUME NEW v \in Views PROVE Full(held', msgs', v) = Full(held, msgs, v)
  <2>1. StartsOf(msgs, v) \subseteq StartsOf(msgs', v)
    BY DEF StartsOf
  <2>2. \A s \in StartsOf(msgs', v) : s \in StartsOf(msgs, v) \/ (s = m /\ m.type = "startView" /\ m.view = v)
    BY DEF StartsOf
  <2>3. \A s \in StartsOf(msgs', v) : s.schedule \subseteq Full(held, msgs, v)
    BY <2>2 DEF Full
  <2>4. Full(held, msgs, v) \subseteq Full(held', msgs', v)
    BY <2>1 DEF Full
  <2>5. Full(held', msgs', v) \subseteq Full(held, msgs, v)
    BY <2>3 DEF Full
  <2>. QED
    BY <2>4, <2>5
<1>2. \A q \in Replicas : view[q] <= view'[q]
  BY Config DEF Inv, Types, ViewTypes, Views
<1>. QED
  BY <1>1, <1>2, BeginsRefl DEF Grow

LEMMA SpeakPreserve ==
  ASSUME Inv, Types', UNCHANGED <<held, agreed, view, phase>>, NEW r \in Replicas, NEW m,
         msgs' = msgs \cup {m}, GoodMessage(m)', Replica(r)',
         m.type = "startView" =>
           m.view \in Views /\ Begins(m.schedule, Full(held, msgs, m.view)),
         \A q \in Replicas : q # r => Same(q)
  PROVE  Inv' /\ Grow
<1>1. Grow /\ \A v \in Views : Full(held', msgs', v) = Full(held, msgs, v)
  BY SpeakGrow DEF Begins
<1>2. view[r] \in Views
  BY DEF Inv, Types, ViewTypes
<1>3. Begins(held'[r][view[r]], Full(held', msgs', view[r]))
  BY <1>1, <1>2 DEF Inv, Within
<1>4. agreed' \in AllChosen(held')
  BY DEF Inv
<1>5. \A s \in msgs' \ msgs :
        s.type = "startView" => Begins(s.schedule, Full(held', msgs', s.view))
  BY <1>1
<1>6. \A o \in msgs' \ msgs : GoodMessage(o)'
  OBVIOUS
<1>. QED
  BY <1>1, <1>3, <1>4, <1>5, <1>6, Preserve

LEMMA ReportStep ==
  ASSUME Inv, NEW r \in Replicas, Report(r)
  PROVE  Inv' /\ Grow
<1>. DEFINE m == [type |-> "report", view |-> view[r], from |-> r,
                  lastNormalView |-> lastNormalView[r], schedule |-> schedule[r]]
<1>1. /\ UNCHANGED <<view, status, lastNormalView, phase, schedule, epoch, ready, committedEnd>>
      /\ UNCHANGED <<requests, proposal, prepared, reading, plan, held, agreed, leftover>>
      /\ msgs' = msgs \cup {m} /\ phase[r] = "vc"
  BY DEF Report, viewVars, scheduleVars, leaderVars, historyVars, boundVars
<1>2. Types /\ Replica(r)
  BY DEF Inv
<1>3. /\ view[r] \in Views /\ lastNormalView[r] \in Views /\ schedule[r] \in Schedules
      /\ view[r] \in Nat /\ lastNormalView[r] \in Nat
  BY <1>2, Config DEF Types, ViewTypes, ScheduleTypes, Views
<1>4. m \in Messages
  BY <1>3 DEF Messages, Reports
<1>5. Types'
  BY <1>1, <1>2, <1>4 DEF Types, ViewTypes, ScheduleTypes, LeaderTypes, HistoryTypes
<1>6. m.type = "report"
  OBVIOUS
<1>7. Grow /\ \A v \in Views : Full(held', msgs', v) = Full(held, msgs, v)
  BY <1>1, <1>5, <1>6, SpeakGrow
<1>8. \A q \in Replicas : Same(q)
  BY <1>1 DEF Same
<1>9. Replica(r)'
  BY <1>3, <1>5, <1>7, <1>8, OthersKeep
<1>10. GoodReport(m)
  <2>1. lastNormalView[r] < view[r]
    BY <1>1, <1>2, <1>3 DEF Replica, Placed
  <2>2. Held(r) /\ Sourced(r)
    BY <1>2 DEF Replica
  <2>3. \A v \in Views : held[r][v] # {} => v <= lastNormalView[r]
    BY <2>2, <1>3, Config DEF Held, Views
  <2>4. Based(r, lastNormalView[r])
    BY <2>2, <1>3 DEF Held
  <2>. QED
    BY <1>1, <1>3, <2>1, <2>2, <2>3, <2>4 DEF GoodReport, Sourced
<1>11. GoodMessage(m)'
  <2>1. GoodReport(m)'
    BY <1>1, <1>10 DEF GoodReport, Based, StartsOf
  <2>. QED
    BY <1>6, <2>1 DEF GoodMessage
<1>. QED
  BY <1>1, <1>5, <1>6, <1>8, <1>9, <1>11, SpeakPreserve

LEMMA SendHistoryStep ==
  ASSUME Inv, NEW r \in Replicas, SendHistory(r)
  PROVE  Inv' /\ Grow
<1>0. PICK m : m = Batch(r, 0, {}, FALSE, committedSchedule(r))
  OBVIOUS
<1>1. /\ UNCHANGED <<view, status, lastNormalView, phase, schedule, epoch, ready, committedEnd>>
      /\ UNCHANGED <<requests, proposal, prepared, reading, plan, held, agreed, leftover>>
      /\ msgs' = msgs \cup {m} /\ NormalLeader(r)
  BY <1>0 DEF SendHistory, viewVars, scheduleVars, leaderVars, historyVars, boundVars
<1>2. Types /\ Replica(r)
  BY DEF Inv
<1>3. view[r] \in Views /\ schedule[r] \in Schedules /\ committedEnd[r] \in Nat /\ phase[r] = "none"
  BY <1>1, <1>2 DEF Types, ViewTypes, ScheduleTypes, NormalLeader, Replica, Placed
<1>4. committedSchedule(r) \in Schedules /\ Begins(committedSchedule(r), schedule[r])
  BY <1>3, UpToBegins DEF committedSchedule
<1>5. /\ m \in Messages /\ m.type = "batch" /\ m.from = r /\ m.view = view[r] /\ m.window = 0
      /\ m.entries = {} /\ m.history = committedSchedule(r)
  <2>1. {} \in Schedules /\ 0 \in 0 .. MaxWindows
    BY Config DEF Schedules
  <2>2. m \in Batches
    BY <1>0, <1>3, <1>4, <2>1 DEF Batches, Batch
  <2>. QED
    BY <1>0, <2>2 DEF Messages, Batch
<1>6. Types'
  BY <1>1, <1>2, <1>5 DEF Types, ViewTypes, ScheduleTypes, LeaderTypes, HistoryTypes
<1>7. Grow /\ \A v \in Views : Full(held', msgs', v) = Full(held, msgs, v)
  BY <1>1, <1>5, <1>6, SpeakGrow
<1>8. \A q \in Replicas : Same(q)
  BY <1>1 DEF Same
<1>9. Replica(r)'
  BY <1>3, <1>6, <1>7, <1>8, OthersKeep
<1>10. GoodMessage(m)'
  <2>1. schedule[r] = Full(held', msgs', view[r])
    BY <1>1, <1>2, <1>3, <1>7 DEF Replica, Leads, NormalLeader
  <2>2. GoodBatch(m)'
    <3>1. m.from = LeaderIndex(m.view) /\ m.history \cup m.entries = m.history
      BY <1>1, <1>5 DEF NormalLeader, IsLeader
    <3>2. m.entries \in SUBSET WindowOf(m.entries, m.window)
      BY <1>5
    <3>3. Begins(m.history, Full(held', msgs', m.view))
      BY <1>4, <1>5, <2>1
    <3>. QED
      BY <1>1, <3>1, <3>2, <3>3 DEF GoodBatch, LeaderIndex
  <2>3. Spoken(m.view)'
    BY <1>1, <1>3, <1>5, Config DEF Spoken, NormalLeader, IsLeader, LeaderIndex, Views
  <2>. QED
    BY <1>5, <2>2, <2>3 DEF GoodMessage
<1>. QED
  BY <1>1, <1>5, <1>6, <1>8, <1>9, <1>10, SpeakPreserve

\* A window that a quorum holds is in what the quorum has chosen.
LEMMA WindowChosen ==
  ASSUME Inv, NEW v \in Views, NEW Q \in Quorums, NEW x \in Full(held, msgs, v),
         \A q \in Q : HoldsWindow(q, v, x.first)
  PROVE  \E h \in ChosenIn(held, v) : x \in h
<1>1. Types /\ held \in [Replicas -> [Views -> Schedules]]
  BY DEF Inv, Types, HistoryTypes
<1>2. x \in Entry
  BY <1>1, FullType DEF Schedules
<1>3. ASSUME NEW q \in Q PROVE x \in held[q][v] /\ x.end <= LastEnd(held[q][v])
  <2>1. q \in Replicas
    BY QuorumNonempty
  <2>2. held[q][v] \in Schedules /\ Begins(held[q][v], Full(held, msgs, v))
    BY <1>1, <2>1 DEF Inv, Within
  <2>3. PICK y \in held[q][v] : y.first = x.first
    BY DEF HoldsWindow, WindowOf
  <2>4. y \in Entry
    BY <2>2 DEF Schedules
  <2>5. x \in held[q][v]
    <3>1. SUFFICES ASSUME x \notin held[q][v] PROVE y.end <= x.first
      BY <1>2, <2>3, <2>4, EntryFacts
    <3>. QED
      BY <2>2, <2>3, <3>1 DEF Begins
  <2>. QED
    BY <2>2, <2>5, LastEndFacts
<1>4. PICK p \in Q : ChosenEnd(held, v, Q) = LastEnd(held[p][v])
  BY <1>1, ChosenEndFacts
<1>5. x \in UpTo(held[p][v], ChosenEnd(held, v, Q))
  BY <1>3, <1>4 DEF UpTo
<1>. QED
  BY <1>4, <1>5 DEF ChosenIn

LEMMA CommitProposalStep ==
  ASSUME Inv, NEW r \in Replicas, CommitProposal(r)
  PROVE  Inv' /\ Grow
<1>. DEFINE w == proposal[r].window
<1>0. PICK m : m = Batch(r, w, WindowOf(schedule[r], w), TRUE, UpTo(schedule[r], w + 1))
  OBVIOUS
<1>1. /\ UNCHANGED <<view, status, lastNormalView, phase, schedule, epoch>>
      /\ UNCHANGED <<requests, prepared, reading, plan, held, agreed, leftover>>
      /\ committedEnd' = [committedEnd EXCEPT ![r] = w + 1]
      /\ ready' = [ready EXCEPT ![r] = TRUE]
      /\ proposal' = [proposal EXCEPT ![r] = NoProposal]
      /\ msgs' = msgs \cup {m} /\ NormalLeader(r) /\ proposal[r] # NoProposal
      /\ Cardinality(prepared[r]) >= QuorumSize
  BY <1>0 DEF CommitProposal, viewVars, historyVars, boundVars
<1>2. Types /\ Replica(r)
  BY DEF Inv
<1>3. /\ view[r] \in Views /\ schedule[r] \in Schedules /\ committedEnd[r] \in Nat
      /\ status[r] = "normal" /\ phase[r] = "none" /\ LeaderIndex(view[r]) = r
      /\ w \in Windows /\ w \in Nat /\ w <= MaxWindows
  <2>1. proposal[r] \in [view : Views, window : Windows]
    BY <1>1, <1>2 DEF Types, LeaderTypes
  <2>2. w \in Windows
    BY <2>1
  <2>. QED
    BY <1>1, <1>2, <2>2, Config
    DEF Types, ViewTypes, ScheduleTypes, NormalLeader, IsLeader, Replica, Placed, Windows
<1>4. schedule[r] = Full(held, msgs, view[r])
  BY <1>2, <1>3 DEF Replica, Leads, IsLeader
<1>5. \A x \in schedule[r] : x \in Entry
  BY <1>3 DEF Schedules
<1>6. /\ w >= committedEnd[r]
      /\ \A x \in schedule[r] : x.end <= committedEnd[r] \/ x.first = w
      /\ \A q \in prepared[r] : HoldsWindow(q, view[r], w)
  BY <1>1, <1>2 DEF Replica, Proposes
<1>7. PICK Q \in Quorums : Q \in SUBSET prepared[r]
  <2>1. prepared[r] \in SUBSET Replicas
    BY <1>2 DEF Types, LeaderTypes
  <2>. QED
    BY <1>1, <2>1, QuorumWithin
<1>8. \E y \in schedule[r] : y.end = w + 1
  <2>1. PICK q \in Q : q \in Replicas
    BY QuorumNonempty
  <2>2. PICK y \in held[q][view[r]] : y.first = w
    BY <1>6, <1>7, <2>1 DEF HoldsWindow, WindowOf
  <2>3. y \in schedule[r]
    BY <1>3, <1>4, <2>1, <2>2 DEF Inv, Within, Begins
  <2>. QED
    BY <1>5, <2>2, <2>3, EntryFacts
<1>9. UpTo(schedule[r], w + 1) = schedule[r] /\ WindowOf(schedule[r], w) \in Schedules
  <2>1. \A x \in schedule[r] : x.end <= w + 1
    BY <1>3, <1>5, <1>6, EntryFacts
  <2>. QED
    BY <1>3, <2>1 DEF UpTo, WindowOf, Schedules
<1>10. /\ m \in Messages /\ m.type = "batch" /\ m.from = r /\ m.view = view[r] /\ m.window = w
       /\ m.entries = WindowOf(schedule[r], w) /\ m.history = schedule[r]
  <2>1. m \in Batches
    <3>1. w \in 0 .. MaxWindows
      BY <1>3, Config
    <3>. QED
      BY <1>0, <1>3, <1>9, <3>1 DEF Batches, Batch
  <2>. QED
    BY <1>0, <1>9, <2>1 DEF Messages, Batch
<1>11. Types'
  BY <1>1, <1>2, <1>3, <1>10 DEF Types, ViewTypes, ScheduleTypes, LeaderTypes, HistoryTypes
<1>12. Grow /\ \A v \in Views : Full(held', msgs', v) = Full(held, msgs, v)
  BY <1>1, <1>10, <1>11, SpeakGrow
<1>13. \A q \in Replicas : q # r => Same(q)
  BY <1>1, <1>2 DEF Same, Types, ScheduleTypes, LeaderTypes
<1>14. committedEnd'[r] = w + 1 /\ ready'[r] = TRUE /\ proposal'[r] = NoProposal
  BY <1>1, <1>2 DEF Types, ScheduleTypes, LeaderTypes
<1>15. Replica(r)'
  <2>1. /\ Placed(r) /\ Sourced(r) /\ Held(r) /\ Leads(r) /\ Reads(r) /\ Grants(r) /\ Covered(r)
    BY <1>2 DEF Replica
  <2>2. Placed(r)' /\ Sourced(r)'
    BY <1>1, <1>3, <1>14, <2>1 DEF Placed, Sourced, IsLeader, LeaderIndex
  <2>3. Held(r)' /\ Reads(r)'
    <3>1. \A v \in Views : Based(r, v) => Based(r, v)'
      BY <1>12, GrowBased
    <3>. QED
      BY <1>1, <2>1, <3>1 DEF Held, Reads
  <2>4. Leads(r)'
    BY <1>1, <1>3, <1>4, <1>12 DEF Leads
  <2>5. Proposes(r)'
    BY <1>1, <1>3, <1>5, <1>6, <1>14, EntryFacts DEF Proposes
  <2>6. Covered(r)'
    <3>1. w + 1 <= LastEnd(schedule[r])
      BY <1>3, <1>8, LastEndFacts
    <3>. QED
      BY <1>1, <1>14, <3>1 DEF Covered
  <2>7. Grants(r)'
    <3>1. PICK v \in Views : v = view[r]
      BY <1>3
    <3>2. SUFFICES ASSUME NEW x \in schedule[r] PROVE Granted(x, v)
      <4>1. \A x \in schedule[r] : Granted(x, v)'
        BY <1>2, <1>11, <1>12, <3>2, GrowGranted
      <4>. QED
        BY <1>1, <3>1, <4>1 DEF Grants, committedSchedule, UpTo, Granted
    <3>3. CASE x.end <= committedEnd[r]
      BY <1>1, <2>1, <3>1, <3>3 DEF Grants, committedSchedule, UpTo
    <3>4. CASE x.first = w
      <4>1. \E h \in ChosenIn(held, v) : x \in h
        BY <1>4, <1>6, <1>7, <3>1, <3>4, WindowChosen
      <4>. QED
        BY <4>1 DEF Granted
    <3>. QED
      BY <1>6, <3>3, <3>4
  <2>. QED
    BY <2>2, <2>3, <2>4, <2>5, <2>6, <2>7 DEF Replica
<1>16. GoodMessage(m)'
  <2>1. GoodBatch(m)'
    <3>1. m.from = LeaderIndex(m.view) /\ m.history \cup m.entries = m.history
      BY <1>3, <1>10 DEF WindowOf
    <3>2. m.entries \in SUBSET WindowOf(m.entries, m.window)
      BY <1>10 DEF WindowOf
    <3>3. m.history = Full(held', msgs', m.view)
      BY <1>3, <1>4, <1>10, <1>12
    <3>. QED
      BY <3>1, <3>2, <3>3, BeginsRefl DEF GoodBatch, LeaderIndex
  <2>2. Spoken(m.view)'
    BY <1>1, <1>3, <1>10, Config DEF Spoken, LeaderIndex, Views
  <2>. QED
    BY <1>10, <2>1, <2>2 DEF GoodMessage
<1>. QED
  BY <1>1, <1>10, <1>11, <1>13, <1>15, <1>16, SpeakPreserve

LEMMA ResendStep ==
  ASSUME Inv, NEW r \in Replicas, ResendStartView(r)
  PROVE  Inv' /\ Grow
<1>0. PICK m : m = [type |-> "startView", view |-> view[r], schedule |-> schedule[r]]
  OBVIOUS
<1>1. /\ UNCHANGED <<view, status, lastNormalView, phase, schedule, epoch, ready, committedEnd>>
      /\ UNCHANGED <<requests, proposal, prepared, reading, plan, held, agreed, leftover>>
      /\ msgs' = msgs \cup {m} /\ NormalLeader(r) /\ view[r] > 0
  BY <1>0 DEF ResendStartView, viewVars, scheduleVars, leaderVars, historyVars
<1>2. Types /\ Replica(r)
  BY DEF Inv
<1>3. /\ view[r] \in Views /\ schedule[r] \in Schedules /\ phase[r] = "none"
      /\ LeaderIndex(view[r]) = r /\ lastNormalView[r] = view[r]
  BY <1>1, <1>2 DEF Types, ViewTypes, ScheduleTypes, NormalLeader, IsLeader, Replica, Placed
<1>4. schedule[r] = Full(held, msgs, view[r]) /\ schedule[r] = held[r][view[r]]
  BY <1>2, <1>3 DEF Replica, Leads, IsLeader, Sourced
<1>5. m \in Messages /\ m.type = "startView" /\ m.view = view[r] /\ m.schedule = schedule[r]
  BY <1>0, <1>3 DEF Messages, StartViews
<1>6. Types'
  BY <1>1, <1>2, <1>5 DEF Types, ViewTypes, ScheduleTypes, LeaderTypes, HistoryTypes
<1>7. Grow /\ \A v \in Views : Full(held', msgs', v) = Full(held, msgs, v)
  BY <1>1, <1>4, <1>5, <1>6, SpeakGrow
<1>8. \A q \in Replicas : Same(q)
  BY <1>1 DEF Same
<1>9. Replica(r)'
  BY <1>3, <1>6, <1>7, <1>8, OthersKeep
<1>10. GoodMessage(m)'
  <2>1. PICK s \in StartsOf(msgs, view[r]) : Begins(s.schedule, schedule[r])
    BY <1>1, <1>2, <1>3, <1>4 DEF Replica, Held, Based
  <2>2. Safe(s) /\ s.view = view[r]
    BY <1>2, <1>3, <2>1, StartFacts DEF Inv, MessagesGood, GoodMessage
  <2>3. Safe(m)'
    <3>1. SUFFICES ASSUME NEW v \in Views, NEW h \in Schedules, v < m.view, Choosable(v, h)'
                   PROVE  Begins(h, m.schedule)
      BY DEF Safe
    <3>2. Choosable(v, h)
      BY <1>2, <1>6, <1>7, <3>1, GrowChoosable
    <3>3. Begins(h, s.schedule)
      BY <1>5, <2>2, <3>1, <3>2 DEF Safe
    <3>. QED
      BY <1>5, <2>1, <3>3, BeginsTrans
  <2>4. Spoken(m.view)'
    BY <1>1, <1>3, <1>5, Config DEF Spoken, LeaderIndex, Views
  <2>. QED
    BY <1>5, <2>3, <2>4 DEF GoodMessage
<1>11. Begins(m.schedule, Full(held, msgs, m.view))
  BY <1>4, <1>5, BeginsRefl
<1>. QED
  BY <1>1, <1>3, <1>5, <1>6, <1>8, <1>9, <1>10, <1>11, SpeakPreserve

-----------------------------------------------------------------------------
(* Steps by which a replica holds more *)

LEMMA HoldGrow ==
  ASSUME Inv, Types', NEW r \in Replicas, NEW s \in Schedules,
         held' = [held EXCEPT ![r][view[r]] = s], Begins(held[r][view[r]], s),
         LeaderIndex(view[r]) = r => Begins(Full(held, msgs, view[r]), s),
         msgs \subseteq msgs', \A m \in msgs' \ msgs : m.type # "startView", view' = view,
         \A q \in Replicas : phase[q] \in {"none", "installed"} => phase'[q] \in {"none", "installed"}
  PROVE  /\ Grow
         /\ held'[r][view[r]] = s /\ \A v \in Views : v # view[r] => held'[r][v] = held[r][v]
         /\ \A v \in Views : LeaderIndex(v) # r => Full(held', msgs', v) = Full(held, msgs, v)
         /\ LeaderIndex(view[r]) = r => Full(held', msgs', view[r]) = s
<1>1. held \in [Replicas -> [Views -> Schedules]] /\ view[r] \in Views
  BY DEF Inv, Types, HistoryTypes, ViewTypes
<1>2. /\ held'[r][view[r]] = s
      /\ \A q \in Replicas, v \in Views : q # r \/ v # view[r] => held'[q][v] = held[q][v]
  BY <1>1
<1>3. \A v \in Views : StartsOf(msgs', v) = StartsOf(msgs, v)
  BY DEF StartsOf
<1>4. \A v \in Views : LeaderIndex(v) # r \/ v # view[r] => Full(held', msgs', v) = Full(held, msgs, v)
  BY <1>2, <1>3, Config DEF Full
<1>5. ASSUME LeaderIndex(view[r]) = r PROVE Full(held', msgs', view[r]) = s
  <2>1. \A m \in StartsOf(msgs', view[r]) : m.schedule \subseteq Full(held, msgs, view[r])
    BY <1>1, <1>3 DEF Full
  <2>2. Full(held, msgs, view[r]) \subseteq s
    BY <1>5 DEF Begins
  <2>. QED
    BY <1>2, <1>5, <2>1, <2>2 DEF Full
<1>6. \A v \in Views : Begins(Full(held, msgs, v), Full(held', msgs', v))
  BY <1>4, <1>5, BeginsRefl
<1>7. \A q \in Replicas : view[q] <= view'[q]
  BY Config DEF Inv, Types, ViewTypes, Views
<1>8. \A q \in Replicas, v \in Views : Begins(held[q][v], held'[q][v])
  BY <1>2, BeginsRefl
<1>9. \A q \in Replicas, v \in Views : v # view[q] => held'[q][v] = held[q][v]
  BY <1>2
<1>10. Grow
  BY <1>6, <1>7, <1>8, <1>9 DEF Grow
<1>. QED
  BY <1>2, <1>4, <1>5, <1>10

\* A follower holds more of what its leader holds.
LEMMA ReadSnapshotStep ==
  ASSUME Inv, NEW r \in Replicas, NEW m \in msgs, ReadSnapshot(r, m)
  PROVE  Inv' /\ Grow
<1>. DEFINE ok == snapshotOK(r, m)
            news == ok /\ m.history # {}
            longer == schedulePrefix(schedule[r], m.history)
<1>1. /\ UNCHANGED <<view, status, lastNormalView, phase, requests, proposal, prepared, msgs, plan,
                     leftover>>
      /\ m.type = "batch" /\ m.from # r
      /\ reading' = [reading EXCEPT ![r] =
                       IF m.entries = {} THEN NoBatch
                       ELSE [stage |-> "prepare", msg |-> m, ok |-> snapshotOK(r, m)]]
  BY DEF ReadSnapshot, viewVars, leaderVars, boundVars
<1>2. Types /\ Replica(r)
  BY DEF Inv
<1>3. /\ view[r] \in Views /\ schedule[r] \in Schedules /\ committedEnd[r] \in Nat
      /\ m.view \in Views /\ m.history \in Schedules /\ m \in Batches
      /\ GoodBatch(m)
  BY <1>1, <1>2, MsgFacts DEF Types, ViewTypes, ScheduleTypes, Batches, Inv, MessagesGood, GoodMessage
<1>4. reading'[r] = IF m.entries = {} THEN NoBatch ELSE [stage |-> "prepare", msg |-> m, ok |-> ok]
  BY <1>1, <1>2 DEF Types, HistoryTypes
<1>5. reading' \in [Replicas -> Readings]
  <2>1. NoBatch \in Readings
    BY DEF Readings
  <2>2. ok \in BOOLEAN
    BY DEF snapshotOK, CurrentLeader, schedulePrefix
  <2>3. [stage |-> "prepare", msg |-> m, ok |-> ok] \in Readings
    BY <1>3, <2>2 DEF Readings
  <2>. QED
    BY <1>1, <1>2, <2>1, <2>3 DEF Types, HistoryTypes
<1>6. ASSUME ok
      PROVE  /\ m.view = view[r] /\ status[r] = "normal" /\ phase[r] = "none"
             /\ LeaderIndex(view[r]) # r /\ schedule[r] = held[r][view[r]]
             /\ lastNormalView[r] = view[r]
  BY <1>1, <1>2, <1>6 DEF snapshotOK, CurrentLeader, Replica, Placed, Sourced
<1>7. CASE ~ news
  <2>1. UNCHANGED <<schedule, epoch, ready, committedEnd, held, agreed>>
    BY <1>7 DEF ReadSnapshot, scheduleVars, historyVars
  <2>2. Types'
    BY <1>1, <1>2, <1>5, <2>1 DEF Types, ViewTypes, ScheduleTypes, LeaderTypes, HistoryTypes
  <2>3. Reads(r)'
    <3>1. ok => m.history = {}
      BY <1>7
    <3>. QED
      BY <1>1, <1>3, <1>4, <1>6, <2>1, <3>1, Config DEF Reads, NoBatch, Views
  <2>4. /\ Placed(r)' /\ Sourced(r)' /\ Held(r)' /\ Leads(r)' /\ Proposes(r)' /\ Grants(r)'
        /\ Covered(r)'
    <3>1. /\ Placed(r) /\ Sourced(r) /\ Held(r) /\ Leads(r) /\ Proposes(r) /\ Grants(r) /\ Covered(r)
      BY <1>2 DEF Replica
    <3>2. Placed(r)' /\ Sourced(r)'
      BY <1>1, <2>1, <3>1 DEF Placed, Sourced, IsLeader, LeaderIndex
    <3>3. Held(r)' /\ Leads(r)' /\ Proposes(r)'
      BY <1>1, <2>1, <3>1 DEF Held, Based, Leads, Proposes, HoldsWindow, NormalLeader, IsLeader, LeaderIndex
    <3>4. Grants(r)' /\ Covered(r)'
      BY <1>1, <2>1, <3>1 DEF Grants, Granted, Covered, committedSchedule, NormalLeader, IsLeader, LeaderIndex
    <3>. QED
      BY <3>2, <3>3, <3>4
  <2>5. Replica(r)'
    BY <2>3, <2>4 DEF Replica
  <2>6. \A q \in Replicas : q # r => Same(q)
    BY <1>1, <1>2, <2>1 DEF Same, Types, HistoryTypes
  <2>7. view[r] <= view'[r]
    BY <1>1, <1>3, Config DEF Views
  <2>. QED
    BY <1>1, <2>1, <2>2, <2>5, <2>6, <2>7, QuietPreserve
<1>8. CASE news
  <2>. DEFINE sched == IF longer THEN m.history ELSE schedule[r]
              end == IF longer THEN LastEnd(m.history) ELSE Max({committedEnd[r], LastEnd(m.history)})
  <2>1. /\ m.view = view[r] /\ phase[r] = "none" /\ LeaderIndex(view[r]) # r
        /\ schedule[r] = held[r][view[r]] /\ lastNormalView[r] = view[r] /\ status[r] = "normal"
    BY <1>6, <1>8
  <2>2. longer \/ schedulePrefix(m.history, schedule[r])
    BY <1>8 DEF snapshotOK
  <2>3. Begins(schedule[r], Full(held, msgs, view[r])) /\ Begins(m.history, Full(held, msgs, view[r]))
    BY <1>3, <2>1 DEF Inv, Within, GoodBatch
  <2>4. /\ sched \in Schedules /\ Begins(schedule[r], sched) /\ Begins(m.history, sched)
        /\ Begins(sched, Full(held, msgs, view[r]))
    <3>1. CASE longer
      BY <1>3, <2>3, <3>1, BeginsWithin, BeginsRefl DEF schedulePrefix
    <3>2. CASE ~ longer
      BY <1>3, <2>2, <2>3, <3>2, BeginsWithin, BeginsRefl DEF schedulePrefix
    <3>. QED
      BY <3>1, <3>2
  <2>5. /\ LastEnd(m.history) \in Nat /\ LastEnd(sched) \in Nat /\ LastEnd(m.history) <= LastEnd(sched)
        /\ end \in Nat
        /\ end = LastEnd(m.history) \/ (end = committedEnd[r] /\ ~ longer)
    <3>1. LastEnd(m.history) \in Nat /\ LastEnd(sched) \in Nat /\ LastEnd(m.history) <= LastEnd(sched)
      BY <1>3, <2>4, LastEndFacts, BeginsEnd
    <3>2. \A a, b \in Nat : Max({a, b}) = a \/ Max({a, b}) = b
      BY DEF Max
    <3>. QED
      BY <1>3, <3>1, <3>2
  <2>6. /\ ready' = [ready EXCEPT ![r] = TRUE]
        /\ schedule' = [schedule EXCEPT ![r] = sched]
        /\ committedEnd' = [committedEnd EXCEPT ![r] = end]
        /\ epoch' = IF longer THEN [epoch EXCEPT ![r] = m.view] ELSE epoch
        /\ hold(r, schedule'[r])
    <3>1. schedule \in [Replicas -> Schedules] /\ committedEnd \in [Replicas -> Nat]
      BY <1>2 DEF Types, ScheduleTypes
    <3>2. CASE longer
      BY <1>8, <3>1, <3>2 DEF ReadSnapshot
    <3>3. CASE ~ longer
      BY <1>8, <3>1, <3>3 DEF ReadSnapshot
    <3>. QED
      BY <3>2, <3>3
  <2>7. /\ schedule'[r] = sched /\ committedEnd'[r] = end /\ ready'[r] = TRUE
        /\ epoch'[r] = view[r]
    <3>1. epoch[r] = view[r]
      BY <1>2, <2>1 DEF Replica, Placed
    <3>. QED
      BY <1>2, <2>1, <2>6, <3>1 DEF Types, ScheduleTypes
  <2>8. /\ held' = [held EXCEPT ![r][view[r]] = sched]
        /\ held' \in [Replicas -> [Views -> Schedules]]
        /\ agreed' \in AllChosen(held') /\ agreed' \in Schedules
    BY <2>4, <2>6, <2>7, HoldFacts
  <2>9. Types'
    <3>1. ScheduleTypes'
      BY <1>2, <1>3, <2>4, <2>5, <2>6 DEF Types, ScheduleTypes
    <3>. QED
      BY <1>1, <1>2, <1>5, <2>8, <3>1 DEF Types, ViewTypes, LeaderTypes, HistoryTypes
  <2>10. /\ Grow
         /\ held'[r][view[r]] = sched /\ \A v \in Views : v # view[r] => held'[r][v] = held[r][v]
         /\ \A v \in Views : LeaderIndex(v) # r => Full(held', msgs', v) = Full(held, msgs, v)
    BY <1>1, <2>1, <2>4, <2>8, <2>9, HoldGrow
  <2>11. Replica(r)'
    <3>1. /\ Placed(r) /\ Sourced(r) /\ Held(r) /\ Covered(r)
      BY <1>2 DEF Replica
    <3>2. ~ IsLeader(r)'
      BY <1>1, <2>1 DEF IsLeader, LeaderIndex
    <3>3. Placed(r)'
      BY <1>1, <2>1, <2>7, <3>1, <3>2 DEF Placed
    <3>4. Sourced(r)'
      BY <1>1, <2>1, <2>7, <2>10 DEF Sourced
    <3>5. Held(r)'
      <4>1. \A v \in Views : Based(r, v) => Based(r, v)'
        BY <2>10, GrowBased
      <4>. QED
        BY <1>1, <1>3, <2>1, <2>10, <3>1, <4>1, Config DEF Held, Views
    <3>6. Leads(r)' /\ Proposes(r)' /\ Grants(r)'
      BY <3>2 DEF Leads, Proposes, Grants, NormalLeader
    <3>7. Reads(r)'
      <4>1. m.history \subseteq sched
        BY <2>4 DEF Begins
      <4>. QED
        BY <1>1, <1>3, <1>4, <2>1, <2>7, <4>1, Config DEF Reads, NoBatch, Views
    <3>8. Covered(r)'
      <4>1. SUFFICES ASSUME r \notin leftover PROVE end <= LastEnd(sched)
        BY <1>1, <2>7 DEF Covered
      <4>2. committedEnd[r] <= LastEnd(schedule[r])
        BY <2>1, <3>1, <4>1 DEF Covered
      <4>. QED
        BY <2>5, <4>2
    <3>. QED
      BY <3>3, <3>4, <3>5, <3>6, <3>7, <3>8 DEF Replica
  <2>12. \A q \in Replicas : q # r => Same(q)
    BY <1>1, <1>2, <2>6, <2>8 DEF Same, Types, ScheduleTypes, HistoryTypes
  <2>13. Begins(held'[r][view[r]], Full(held', msgs', view[r]))
    BY <1>3, <2>1, <2>4, <2>10
  <2>. QED
    BY <1>1, <2>8, <2>9, <2>10, <2>11, <2>12, <2>13, Preserve
<1>. QED
  BY <1>7, <1>8

\* What acceptPrepare does to the schedule.
LEMMA AcceptFacts ==
  ASSUME Types, NEW r \in Replicas, NEW w \in Nat, NEW es \in Schedules,
         es \in SUBSET WindowOf(es, w), status[r] = "normal", NEW v \in Views, v = view[r],
         acceptable(r, v, w, es), acceptPrepare(r, v, w, es)
  PROVE  /\ es # {} /\ schedule'[r] = schedule[r] \cup es /\ schedule'[r] \in Schedules
         /\ schedule' = [schedule EXCEPT ![r] = schedule[r] \cup es]
         /\ epoch' \in [Replicas -> Views] /\ ready' \in [Replicas -> BOOLEAN]
         /\ \A q \in Replicas : q # r => epoch'[q] = epoch[q] /\ ready'[q] = ready[q]
         /\ epoch[r] = v => epoch'[r] = v
         /\ WindowOf(schedule'[r], w) # {}
         /\ Begins(schedule[r], schedule[r] \cup es)
<1>1. schedule \in [Replicas -> Schedules] /\ epoch \in [Replicas -> Views] /\ ready \in [Replicas -> BOOLEAN]
  BY DEF Types, ScheduleTypes
<1>2. es # {}
  <2>1. Cardinality({}) = 0
    BY FS_EmptySet
  <2>. QED
    BY <2>1 DEF acceptable
<1>3. schedule[r] \cup es \in Schedules
  BY <1>1 DEF Schedules
<1>4. schedule' = [schedule EXCEPT ![r] = schedule[r] \cup es]
  <2>1. CASE WindowOf(schedule[r], w) # {}
    <3>1. es \subseteq schedule[r]
      BY <2>1 DEF acceptable, WindowOf
    <3>2. schedule[r] \cup es = schedule[r]
      BY <3>1
    <3>. QED
      BY <1>1, <2>1, <3>2 DEF acceptPrepare
  <2>2. CASE WindowOf(schedule[r], w) = {}
    BY <2>2 DEF acceptPrepare
  <2>. QED
    BY <2>1, <2>2
<1>5. schedule'[r] = schedule[r] \cup es
  BY <1>1, <1>4
<1>6. WindowOf(schedule'[r], w) # {}
  BY <1>2, <1>5 DEF WindowOf
<1>7. Begins(schedule[r], schedule[r] \cup es)
  <2>1. CASE WindowOf(schedule[r], w) # {}
    <3>1. es \subseteq schedule[r]
      BY <2>1 DEF acceptable, WindowOf
    <3>2. schedule[r] \cup es = schedule[r]
      BY <3>1
    <3>. QED
      BY <3>2, BeginsRefl
  <2>2. CASE WindowOf(schedule[r], w) = {}
    <3>1. LastEnd(schedule[r]) <= w /\ LastEnd(schedule[r]) \in Nat
      BY <1>1, <2>2, LastEndFacts DEF acceptable
    <3>2. \A x \in schedule[r] : x.end <= LastEnd(schedule[r]) /\ x.end \in Nat
      BY <1>1, LastEndFacts, EntryFacts DEF Schedules
    <3>3. \A y \in es : y.first = w
      BY DEF WindowOf
    <3>. QED
      BY <3>1, <3>2, <3>3 DEF Begins
  <2>. QED
    BY <2>1, <2>2
<1>8. /\ epoch' \in [Replicas -> Views] /\ ready' \in [Replicas -> BOOLEAN]
      /\ \A q \in Replicas : q # r => epoch'[q] = epoch[q] /\ ready'[q] = ready[q]
      /\ epoch[r] = v => epoch'[r] = v
  <2>1. CASE WindowOf(schedule[r], w) # {}
    BY <1>1, <2>1 DEF acceptPrepare
  <2>2. CASE WindowOf(schedule[r], w) = {}
    <3>1. epoch' = [epoch EXCEPT ![r] = v] /\ ready' = [ready EXCEPT ![r] = committedEnd[r] > 0]
      BY <2>2 DEF acceptPrepare
    <3>2. (committedEnd[r] > 0) \in BOOLEAN
      OBVIOUS
    <3>. QED
      BY <1>1, <3>1, <3>2
  <2>. QED
    BY <2>1, <2>2
<1>. QED
  BY <1>2, <1>3, <1>4, <1>5, <1>6, <1>7, <1>8

LEMMA ReadPrepareStep ==
  ASSUME Inv, NEW r \in Replicas, ReadPrepare(r)
  PROVE  Inv' /\ Grow
<1>0. PICK m : m = reading[r].msg
  OBVIOUS
<1>. DEFINE taken == /\ reading[r].ok /\ CurrentLeader(r, m)
                     /\ acceptable(r, m.view, m.window, m.entries)
            reply == PrepareReplyOf(r, m)
<1>1. /\ UNCHANGED <<view, status, lastNormalView, phase, committedEnd, requests, proposal, prepared,
                     plan, leftover>>
      /\ reading[r].stage = "prepare"
      /\ reading' = [reading EXCEPT ![r] = IF m.committed THEN [stage |-> "commit", msg |-> m] ELSE NoBatch]
      /\ IF taken
         THEN /\ acceptPrepare(r, m.view, m.window, m.entries)
              /\ msgs' = msgs \cup {reply}
              /\ hold(r, schedule'[r])
         ELSE UNCHANGED <<schedule, epoch, ready, msgs, held, agreed>>
  BY <1>0 DEF ReadPrepare, viewVars, leaderVars, boundVars, historyVars
<1>2. Types /\ Replica(r)
  BY DEF Inv
<1>3. m \in msgs /\ m.from # r
  BY <1>0, <1>1, <1>2 DEF Replica, Reads
<1>4. m \in Batches
  <2>1. reading[r] \in Readings
    BY <1>2 DEF Types, HistoryTypes
  <2>. QED
    BY <1>0, <1>1, <2>1 DEF Readings, NoBatch
<1>5. /\ m.type = "batch" /\ m.view \in Views /\ m.window \in Nat /\ m.window \in 0 .. MaxWindows
      /\ m.entries \in Schedules /\ m.history \in Schedules /\ m.committed \in BOOLEAN
  BY <1>4, Config DEF Batches
<1>6. GoodBatch(m)
  BY <1>3, <1>5 DEF Inv, MessagesGood, GoodMessage
<1>7. /\ reading'[r] = IF m.committed THEN [stage |-> "commit", msg |-> m] ELSE NoBatch
      /\ reading' \in [Replicas -> Readings]
  <2>1. NoBatch \in Readings /\ [stage |-> "commit", msg |-> m] \in Readings
    BY <1>4 DEF Readings
  <2>. QED
    BY <1>1, <1>2, <2>1 DEF Types, HistoryTypes
<1>8. Reads(r)'
  <2>1. msgs \subseteq msgs'
    BY <1>1
  <2>. QED
    BY <1>3, <1>7, <2>1 DEF Reads, NoBatch
<1>9. view[r] \in Views /\ schedule[r] \in Schedules
  BY <1>2 DEF Types, ViewTypes, ScheduleTypes
<1>10. CASE ~ taken
  <2>1. UNCHANGED <<schedule, epoch, ready, msgs, held, agreed>>
    BY <1>1, <1>10
  <2>2. Types'
    BY <1>1, <1>2, <1>7, <2>1 DEF Types, ViewTypes, ScheduleTypes, LeaderTypes, HistoryTypes
  <2>3. /\ Placed(r)' /\ Sourced(r)' /\ Held(r)' /\ Leads(r)' /\ Proposes(r)' /\ Grants(r)'
        /\ Covered(r)'
    <3>1. /\ Placed(r) /\ Sourced(r) /\ Held(r) /\ Leads(r) /\ Proposes(r) /\ Grants(r) /\ Covered(r)
      BY <1>2 DEF Replica
    <3>2. Placed(r)' /\ Sourced(r)'
      BY <1>1, <2>1, <3>1 DEF Placed, Sourced, IsLeader, LeaderIndex
    <3>3. Held(r)' /\ Leads(r)' /\ Proposes(r)'
      BY <1>1, <2>1, <3>1 DEF Held, Based, Leads, Proposes, HoldsWindow, NormalLeader, IsLeader, LeaderIndex
    <3>4. Grants(r)' /\ Covered(r)'
      BY <1>1, <2>1, <3>1 DEF Grants, Granted, Covered, committedSchedule, NormalLeader, IsLeader, LeaderIndex
    <3>. QED
      BY <3>2, <3>3, <3>4
  <2>4. Replica(r)'
    BY <1>8, <2>3 DEF Replica
  <2>5. \A q \in Replicas : q # r => Same(q)
    BY <1>1, <1>2, <2>1 DEF Same, Types, HistoryTypes
  <2>6. view[r] <= view'[r]
    BY <1>1, <1>9, Config DEF Views
  <2>. QED
    BY <1>1, <2>1, <2>2, <2>4, <2>5, <2>6, QuietPreserve
<1>11. CASE taken
  <2>. DEFINE sched == schedule[r] \cup m.entries
  <2>1. /\ m.view = view[r] /\ status[r] = "normal" /\ LeaderIndex(view[r]) # r
        /\ acceptPrepare(r, m.view, m.window, m.entries) /\ msgs' = msgs \cup {reply}
        /\ hold(r, schedule'[r])
    BY <1>1, <1>3, <1>11 DEF CurrentLeader
  <2>2. phase[r] = "none" /\ m.history \subseteq schedule[r]
    BY <1>0, <1>1, <1>2, <1>11, <2>1 DEF Replica, Reads
  <2>3. /\ schedule[r] = held[r][view[r]] /\ lastNormalView[r] = view[r] /\ epoch[r] = m.view
    BY <1>2, <2>1, <2>2 DEF Replica, Placed, Sourced
  <2>4. /\ schedule'[r] = sched /\ sched \in Schedules
        /\ schedule' = [schedule EXCEPT ![r] = sched]
        /\ epoch' \in [Replicas -> Views] /\ ready' \in [Replicas -> BOOLEAN]
        /\ \A q \in Replicas : q # r => epoch'[q] = epoch[q] /\ ready'[q] = ready[q]
        /\ epoch'[r] = m.view /\ WindowOf(sched, m.window) # {} /\ Begins(schedule[r], sched)
    <3>1. m.entries \in SUBSET WindowOf(m.entries, m.window)
      BY <1>6 DEF GoodBatch
    <3>2. acceptable(r, m.view, m.window, m.entries)
      BY <1>11
    <3>3. PICK v \in Views, w \in Nat, es \in Schedules :
            v = m.view /\ w = m.window /\ es = m.entries
      BY <1>5
    <3>4. /\ es \in SUBSET WindowOf(es, w) /\ v = view[r] /\ acceptable(r, v, w, es)
          /\ acceptPrepare(r, v, w, es) /\ status[r] = "normal"
      BY <2>1, <3>1, <3>2, <3>3
    <3>5. /\ schedule'[r] = schedule[r] \cup es /\ schedule'[r] \in Schedules
          /\ schedule' = [schedule EXCEPT ![r] = schedule[r] \cup es]
          /\ epoch' \in [Replicas -> Views] /\ ready' \in [Replicas -> BOOLEAN]
          /\ \A q \in Replicas : q # r => epoch'[q] = epoch[q] /\ ready'[q] = ready[q]
          /\ epoch[r] = v => epoch'[r] = v
          /\ WindowOf(schedule'[r], w) # {}
          /\ Begins(schedule[r], schedule[r] \cup es)
      BY <1>2, <3>4, AcceptFacts
    <3>. QED
      BY <2>3, <3>3, <3>5
  <2>5. Begins(sched, Full(held, msgs, view[r]))
    <3>1. /\ Begins(schedule[r], Full(held, msgs, view[r]))
          /\ Begins(m.history \cup m.entries, Full(held, msgs, view[r]))
      BY <1>6, <1>9, <2>1, <2>3 DEF Inv, Within, GoodBatch
    <3>. QED
      BY <2>2, <3>1 DEF Begins
  <2>6. /\ held' = [held EXCEPT ![r][view[r]] = sched]
        /\ held' \in [Replicas -> [Views -> Schedules]]
        /\ agreed' \in AllChosen(held') /\ agreed' \in Schedules
    BY <2>1, <2>4, HoldFacts
  <2>7. /\ reply.type = "prepareReply" /\ reply.view = m.view /\ reply.from = r
        /\ reply.window = m.window /\ reply \in Messages
    BY <1>5 DEF PrepareReplyOf, Messages, Replies
  <2>8. Types'
    <3>1. ScheduleTypes'
      BY <1>1, <1>2, <2>4 DEF Types, ScheduleTypes
    <3>. QED
      BY <1>1, <1>2, <1>7, <2>1, <2>6, <2>7, <3>1 DEF Types, ViewTypes, LeaderTypes, HistoryTypes
  <2>9. /\ Grow
        /\ held'[r][view[r]] = sched /\ \A v \in Views : v # view[r] => held'[r][v] = held[r][v]
        /\ \A v \in Views : LeaderIndex(v) # r => Full(held', msgs', v) = Full(held, msgs, v)
    BY <1>1, <2>1, <2>3, <2>4, <2>6, <2>7, <2>8, HoldGrow
  <2>10. Replica(r)'
    <3>1. /\ Placed(r) /\ Sourced(r) /\ Held(r) /\ Covered(r)
      BY <1>2 DEF Replica
    <3>2. ~ IsLeader(r)'
      BY <1>1, <2>1 DEF IsLeader, LeaderIndex
    <3>3. Placed(r)'
      BY <1>1, <2>1, <2>2, <2>3, <2>4, <3>1, <3>2 DEF Placed
    <3>4. Sourced(r)'
      BY <1>1, <2>2, <2>4, <2>9 DEF Sourced
    <3>5. Held(r)'
      <4>1. \A v \in Views : Based(r, v) => Based(r, v)'
        BY <2>9, GrowBased
      <4>. QED
        BY <1>1, <1>9, <2>3, <2>9, <3>1, <4>1, Config DEF Held, Views
    <3>6. Leads(r)' /\ Proposes(r)' /\ Grants(r)'
      BY <3>2 DEF Leads, Proposes, Grants, NormalLeader
    <3>7. Covered(r)'
      <4>1. LastEnd(schedule[r]) <= LastEnd(sched) /\ LastEnd(schedule[r]) \in Nat /\ LastEnd(sched) \in Nat
        BY <1>9, <2>4, BeginsEnd, LastEndFacts
      <4>2. committedEnd[r] \in Nat
        BY <1>2 DEF Types, ScheduleTypes
      <4>. QED
        BY <1>1, <2>2, <2>4, <3>1, <4>1, <4>2 DEF Covered
    <3>. QED
      BY <1>8, <3>3, <3>4, <3>5, <3>6, <3>7 DEF Replica
  <2>11. \A q \in Replicas : q # r => Same(q)
    BY <1>1, <1>2, <2>4, <2>6 DEF Same, Types, ScheduleTypes, HistoryTypes
  <2>12. Begins(held'[r][view[r]], Full(held', msgs', view[r]))
    BY <1>9, <2>1, <2>5, <2>9
  <2>13. PICK o : o = reply
    OBVIOUS
  <2>14. GoodMessage(o)'
    BY <2>1, <2>4, <2>7, <2>9, <2>13 DEF GoodMessage, HoldsWindow
  <2>. QED
    BY <2>1, <2>6, <2>7, <2>8, <2>9, <2>10, <2>11, <2>12, <2>13, <2>14, Preserve
<1>. QED
  BY <1>10, <1>11

LEMMA ReadCommitStep ==
  ASSUME Inv, NEW r \in Replicas, ReadCommit(r)
  PROVE  Inv' /\ Grow
<1>0. PICK m : m = reading[r].msg
  OBVIOUS
<1>. DEFINE taken == CurrentLeader(r, m) /\ WindowOf(schedule[r], m.window) # {}
<1>1. /\ UNCHANGED <<view, status, lastNormalView, phase, schedule, epoch, requests, proposal, prepared,
                     msgs, plan, held, agreed, leftover>>
      /\ reading[r].stage = "commit" /\ reading' = [reading EXCEPT ![r] = NoBatch]
      /\ IF taken
         THEN /\ committedEnd' = [committedEnd EXCEPT ![r] = Max({committedEnd[r], m.window + 1})]
              /\ ready' = [ready EXCEPT ![r] = TRUE]
         ELSE UNCHANGED <<committedEnd, ready>>
  BY <1>0 DEF ReadCommit, viewVars, leaderVars, boundVars, historyVars
<1>2. Types /\ Replica(r)
  BY DEF Inv
<1>3. m \in msgs /\ m.from # r /\ m.window \in Nat
  <2>1. m \in msgs /\ m.from # r
    BY <1>0, <1>1, <1>2 DEF Replica, Reads
  <2>2. reading[r] \in Readings
    BY <1>2 DEF Types, HistoryTypes
  <2>3. m \in Batches
    BY <1>0, <1>1, <2>2 DEF Readings, NoBatch
  <2>. QED
    BY <2>1, <2>3, Config DEF Batches
<1>4. NoBatch \in Readings /\ reading'[r] = NoBatch
  BY <1>1, <1>2 DEF Readings, Types, HistoryTypes
<1>5. schedule[r] \in Schedules /\ committedEnd[r] \in Nat /\ view[r] \in Views
  BY <1>2 DEF Types, ScheduleTypes, ViewTypes
<1>6. \A a, b \in Nat : Max({a, b}) \in {a, b}
  BY DEF Max
<1>7. /\ committedEnd'[r] \in Nat /\ ready'[r] \in BOOLEAN
      /\ committedEnd' = [committedEnd EXCEPT ![r] = committedEnd'[r]]
      /\ ready' = [ready EXCEPT ![r] = ready'[r]]
      /\ ~ taken => committedEnd'[r] = committedEnd[r] /\ ready'[r] = ready[r]
      /\ taken => committedEnd'[r] \in {committedEnd[r], m.window + 1}
  <2>1. committedEnd \in [Replicas -> Nat] /\ ready \in [Replicas -> BOOLEAN]
    BY <1>2 DEF Types, ScheduleTypes
  <2>2. CASE taken
    <3>1. PICK e : e = Max({committedEnd[r], m.window + 1})
      OBVIOUS
    <3>2. e \in {committedEnd[r], m.window + 1} /\ m.window + 1 \in Nat
      BY <1>3, <1>5, <1>6, <3>1
    <3>3. committedEnd' = [committedEnd EXCEPT ![r] = e] /\ ready' = [ready EXCEPT ![r] = TRUE]
      BY <1>1, <2>2, <3>1
    <3>4. committedEnd'[r] = e /\ ready'[r] = TRUE
      BY <2>1, <3>3
    <3>. QED
      BY <1>5, <2>2, <3>2, <3>3, <3>4
  <2>3. CASE ~ taken
    BY <1>1, <2>1, <2>3
  <2>. QED
    BY <2>2, <2>3
<1>8. Types'
  <2>1. ScheduleTypes'
    BY <1>1, <1>2, <1>7 DEF Types, ScheduleTypes
  <2>. QED
    BY <1>1, <1>2, <1>4, <2>1 DEF Types, ViewTypes, LeaderTypes, HistoryTypes
<1>9. /\ Placed(r) /\ Sourced(r) /\ Held(r) /\ Leads(r) /\ Proposes(r) /\ Grants(r) /\ Covered(r)
  BY <1>2 DEF Replica
<1>10. taken => status[r] = "normal" /\ phase[r] = "none" /\ ~ IsLeader(r)
  BY <1>3, <1>9 DEF CurrentLeader, IsLeader, Placed
<1>11. Placed(r)' /\ Sourced(r)'
  BY <1>1, <1>7, <1>9, <1>10 DEF Placed, Sourced, IsLeader, LeaderIndex
<1>12. Held(r)' /\ Leads(r)'
  BY <1>1, <1>9 DEF Held, Based, Leads, IsLeader, LeaderIndex
<1>13. Reads(r)'
  BY <1>4 DEF Reads, NoBatch
<1>14. Proposes(r)' /\ Grants(r)'
  <2>1. CASE taken
    <3>1. ~ IsLeader(r)'
      BY <1>1, <1>10, <2>1 DEF IsLeader, LeaderIndex
    <3>. QED
      BY <3>1 DEF Proposes, Grants, NormalLeader
  <2>2. CASE ~ taken
    <3>1. committedEnd'[r] = committedEnd[r]
      BY <1>7, <2>2
    <3>. QED
      BY <1>1, <1>9, <3>1
      DEF Proposes, Grants, Granted, HoldsWindow, committedSchedule, NormalLeader, IsLeader, LeaderIndex
  <2>. QED
    BY <2>1, <2>2
<1>15. Covered(r)'
  <2>1. SUFFICES ASSUME taken PROVE m.window + 1 <= LastEnd(schedule[r])
    BY <1>1, <1>7, <1>9, <1>10 DEF Covered
  <2>2. PICK x \in schedule[r] : x.first = m.window
    BY <2>1 DEF WindowOf
  <2>3. x \in Entry
    BY <1>5 DEF Schedules
  <2>. QED
    BY <1>5, <2>2, <2>3, EntryFacts, LastEndFacts
<1>16. Replica(r)'
  BY <1>11, <1>12, <1>13, <1>14, <1>15 DEF Replica
<1>17. \A q \in Replicas : q # r => Same(q)
  BY <1>1, <1>2, <1>7 DEF Same, Types, ScheduleTypes, HistoryTypes
<1>18. view[r] <= view'[r]
  BY <1>1, <1>5, Config DEF Views
<1>. QED
  BY <1>1, <1>8, <1>16, <1>17, <1>18, QuietPreserve

\* The leader adds the earliest window that was asked for.
LEMMA ProposeStep ==
  ASSUME Inv, NEW r \in Replicas, Propose(r)
  PROVE  Inv' /\ Grow
<1>0. PICK w, es : w = Min({q[1] : q \in requests[r]}) /\ es = Entries(w, RequestedBy(r, w))
  OBVIOUS
<1>. DEFINE taken == w >= committedEnd[r] /\ acceptable(r, view[r], w, es)
<1>1. /\ UNCHANGED <<view, status, lastNormalView, phase, committedEnd, reading, plan, leftover>>
      /\ NormalLeader(r) /\ proposal[r] = NoProposal /\ requests[r] # {}
      /\ requests' = [requests EXCEPT ![r] = {q \in requests[r] : q[1] # w}]
      /\ IF taken
         THEN /\ acceptPrepare(r, view[r], w, es)
              /\ proposal' = [proposal EXCEPT ![r] = [view |-> view[r], window |-> w]]
              /\ prepared' = [prepared EXCEPT ![r] = {r}]
              /\ msgs' = msgs \cup {Batch(r, w, es, FALSE, committedSchedule(r))}
              /\ hold(r, schedule'[r])
         ELSE UNCHANGED <<schedule, epoch, ready, proposal, prepared, msgs, held, agreed>>
  BY <1>0 DEF Propose, viewVars, boundVars, historyVars
<1>2. Types /\ Replica(r)
  BY DEF Inv
<1>3. /\ view[r] \in Views /\ schedule[r] \in Schedules /\ committedEnd[r] \in Nat
      /\ status[r] = "normal" /\ phase[r] = "none" /\ LeaderIndex(view[r]) = r
      /\ lastNormalView[r] = view[r] /\ epoch[r] = view[r]
  BY <1>1, <1>2 DEF Types, ViewTypes, ScheduleTypes, NormalLeader, IsLeader, Replica, Placed
<1>4. w \in Windows /\ w \in Nat /\ es \in Schedules /\ es \in SUBSET WindowOf(es, w)
  <2>1. requests[r] \in SUBSET (Windows \X Clients)
    BY <1>2 DEF Types, LeaderTypes
  <2>. DEFINE T == {q[1] : q \in requests[r]}
  <2>2. T \in SUBSET Windows /\ T # {} /\ Windows \in SUBSET Nat
    BY <1>1, <2>1, Config DEF Windows
  <2>3. \E x \in T : \A y \in T : x <= y
    BY <2>2, LeastNatural
  <2>4. Min(T) \in T
    BY <2>3 DEF Min
  <2>5. w \in Windows /\ w \in Nat
    BY <1>0, <2>2, <2>4
  <2>6. w + 1 \in 1 .. MaxWindows + 1
    BY <2>5, Config DEF Windows
  <2>7. \A c \in Clients : [client |-> c, first |-> w, end |-> w + 1] \in Entry
    BY <2>5, <2>6 DEF Entry
  <2>8. es \in Schedules
    BY <1>0, <2>7 DEF Entries, RequestedBy, Schedules
  <2>9. \A x \in es : x.first = w
    BY <1>0 DEF Entries
  <2>. QED
    BY <2>5, <2>8, <2>9 DEF WindowOf
<1>5. requests' \in [Replicas -> SUBSET (Windows \X Clients)]
  BY <1>1, <1>2 DEF Types, LeaderTypes
<1>6. CASE ~ taken
  <2>1. UNCHANGED <<schedule, epoch, ready, proposal, prepared, msgs, held, agreed>>
    BY <1>1, <1>6
  <2>2. Types'
    BY <1>1, <1>2, <1>5, <2>1 DEF Types, ViewTypes, ScheduleTypes, LeaderTypes, HistoryTypes
  <2>3. \A q \in Replicas : Same(q)
    BY <1>1, <2>1 DEF Same
  <2>4. Grow /\ \A v \in Views : Full(held', msgs', v) = Full(held, msgs, v)
    BY <1>1, <1>2, <2>1, <2>2, QuietGrow, Config DEF Types, ViewTypes, Views
  <2>5. Replica(r)'
    BY <1>3, <2>2, <2>3, <2>4, OthersKeep
  <2>6. view[r] <= view'[r]
    BY <1>1, <1>3, Config DEF Views
  <2>. QED
    BY <1>1, <2>1, <2>2, <2>3, <2>5, <2>6, QuietPreserve
<1>7. CASE taken
  <2>a. PICK v \in Views : v = view[r]
    BY <1>3
  <2>0. PICK m : v = view[r] /\ m = Batch(r, w, es, FALSE, committedSchedule(r))
    BY <2>a
  <2>. DEFINE sched == schedule[r] \cup es
  <2>1. /\ w >= committedEnd[r] /\ acceptable(r, v, w, es) /\ acceptPrepare(r, v, w, es)
        /\ proposal' = [proposal EXCEPT ![r] = [view |-> v, window |-> w]]
        /\ prepared' = [prepared EXCEPT ![r] = {r}]
        /\ msgs' = msgs \cup {m} /\ hold(r, schedule'[r])
    BY <1>1, <1>7, <2>0
  <2>2. /\ schedule'[r] = sched /\ schedule'[r] \in Schedules
        /\ schedule' = [schedule EXCEPT ![r] = sched]
        /\ epoch' \in [Replicas -> Views] /\ ready' \in [Replicas -> BOOLEAN]
        /\ \A q \in Replicas : q # r => epoch'[q] = epoch[q] /\ ready'[q] = ready[q]
        /\ epoch[r] = v => epoch'[r] = v
        /\ WindowOf(schedule'[r], w) # {}
        /\ Begins(schedule[r], sched)
    <3>1. PICK k \in Nat, e \in Schedules : k = w /\ e = es
      BY <1>4
    <3>2. /\ e \in SUBSET WindowOf(e, k) /\ v = view[r] /\ acceptable(r, v, k, e)
          /\ acceptPrepare(r, v, k, e) /\ status[r] = "normal"
      BY <1>3, <1>4, <2>0, <2>1, <3>1
    <3>3. /\ schedule'[r] = schedule[r] \cup e /\ schedule'[r] \in Schedules
          /\ schedule' = [schedule EXCEPT ![r] = schedule[r] \cup e]
          /\ epoch' \in [Replicas -> Views] /\ ready' \in [Replicas -> BOOLEAN]
          /\ \A q \in Replicas : q # r => epoch'[q] = epoch[q] /\ ready'[q] = ready[q]
          /\ epoch[r] = v => epoch'[r] = v
          /\ WindowOf(schedule'[r], k) # {}
          /\ Begins(schedule[r], schedule[r] \cup e)
      BY <1>2, <3>2, AcceptFacts
    <3>. QED
      BY <3>1, <3>3
  <2>3. /\ \A x \in schedule[r] : x.end <= committedEnd[r]
        /\ committedSchedule(r) = schedule[r]
    <3>1. \A x \in schedule[r] : x.end <= committedEnd[r]
      BY <1>1, <1>2 DEF Replica, Proposes
    <3>. QED
      BY <3>1 DEF committedSchedule, UpTo
  <2>4. schedule[r] = Full(held, msgs, v) /\ schedule[r] = held[r][v]
    BY <1>2, <1>3, <2>0 DEF Replica, Leads, IsLeader, Sourced
  <2>5. /\ held' = [held EXCEPT ![r][view[r]] = sched]
        /\ held' \in [Replicas -> [Views -> Schedules]]
        /\ agreed' \in AllChosen(held') /\ agreed' \in Schedules
    BY <2>1, <2>2, HoldFacts
  <2>6. /\ m \in Messages /\ m.type = "batch" /\ m.from = r /\ m.view = v /\ m.window = w
        /\ m.entries = es /\ m.history = schedule[r]
    <3>1. w \in 0 .. MaxWindows
      BY <1>4, Config DEF Windows
    <3>2. m \in Batches
      BY <1>3, <1>4, <2>0, <2>3, <3>1 DEF Batches, Batch
    <3>. QED
      BY <2>0, <2>3, <3>2 DEF Messages, Batch
  <2>7. Types'
    <3>1. ScheduleTypes'
      BY <1>1, <1>2, <2>2 DEF Types, ScheduleTypes
    <3>2. LeaderTypes'
      <4>1. [view |-> v, window |-> w] \in [view : Views, window : Windows]
        BY <1>4, <2>0
      <4>. QED
        BY <1>2, <1>5, <2>1, <4>1 DEF Types, LeaderTypes
    <3>. QED
      BY <1>1, <1>2, <2>1, <2>5, <2>6, <3>1, <3>2 DEF Types, ViewTypes, HistoryTypes
  <2>8. /\ Grow
        /\ held'[r][v] = sched /\ \A u \in Views : u # v => held'[r][u] = held[r][u]
        /\ \A u \in Views : LeaderIndex(u) # r => Full(held', msgs', u) = Full(held, msgs, u)
        /\ Full(held', msgs', v) = sched
    <3>1. /\ Begins(held[r][view[r]], sched) /\ Begins(Full(held, msgs, view[r]), sched)
          /\ sched \in Schedules
      BY <2>0, <2>2, <2>4
    <3>2. /\ msgs \subseteq msgs' /\ \A o \in msgs' \ msgs : o.type # "startView"
      BY <2>1, <2>6
    <3>3. /\ Grow
          /\ held'[r][view[r]] = sched
          /\ \A u \in Views : u # view[r] => held'[r][u] = held[r][u]
          /\ \A u \in Views : LeaderIndex(u) # r => Full(held', msgs', u) = Full(held, msgs, u)
          /\ LeaderIndex(view[r]) = r => Full(held', msgs', view[r]) = sched
      BY <1>1, <2>5, <2>7, <3>1, <3>2, HoldGrow
    <3>. QED
      BY <1>3, <2>0, <3>3
  <2>9. /\ view'[r] = v /\ proposal'[r] = [view |-> v, window |-> w] /\ prepared'[r] = {r}
        /\ proposal'[r] # NoProposal
    <3>1. v # -1
      BY Config DEF Views
    <3>2. [view |-> v, window |-> w].view # NoProposal.view
      BY <3>1 DEF NoProposal
    <3>3. [view |-> v, window |-> w] # NoProposal
      BY <3>2
    <3>4. proposal'[r] = [view |-> v, window |-> w] /\ prepared'[r] = {r}
      BY <1>2, <2>1 DEF Types, LeaderTypes
    <3>. QED
      BY <1>1, <2>0, <3>3, <3>4
  <2>10. \A x \in es : x \in Entry /\ x.first = w /\ ~ (x.end <= committedEnd[r])
    <3>1. \A x \in es : x \in Entry /\ x.first = w
      BY <1>4 DEF WindowOf, Schedules
    <3>. QED
      BY <1>3, <1>4, <2>1, <3>1, EntryFacts
  <2>11. Replica(r)'
    <3>1. /\ Placed(r) /\ Sourced(r) /\ Held(r) /\ Covered(r) /\ Reads(r) /\ Grants(r)
      BY <1>2 DEF Replica
    <3>2. Placed(r)'
      BY <1>1, <1>3, <2>0, <2>2, <3>1 DEF Placed, IsLeader, LeaderIndex
    <3>3. Sourced(r)'
      BY <1>1, <1>3, <2>2, <2>8, <2>9 DEF Sourced
    <3>4. Held(r)'
      <4>1. \A u \in Views : Based(r, u) => Based(r, u)'
        BY <2>8, GrowBased
      <4>. QED
        BY <1>1, <1>3, <2>0, <2>8, <3>1, <4>1, Config DEF Held, Views
    <3>5. Leads(r)'
      BY <2>2, <2>8, <2>9 DEF Leads
    <3>6. Reads(r)'
      BY <1>1, <2>1, <2>2, <3>1 DEF Reads
    <3>7. Proposes(r)'
      <4>1. HoldsWindow(r, v, w)'
        BY <2>2, <2>8 DEF HoldsWindow
      <4>2. \A x \in sched : x.end <= committedEnd[r] \/ x.first = w
        BY <2>3, <2>10
      <4>. QED
        BY <1>1, <2>1, <2>2, <2>9, <4>1, <4>2 DEF Proposes, HoldsWindow
    <3>8. Covered(r)'
      <4>1. LastEnd(schedule[r]) <= LastEnd(sched) /\ LastEnd(schedule[r]) \in Nat /\ LastEnd(sched) \in Nat
        BY <1>3, <2>2, BeginsEnd, LastEndFacts
      <4>. QED
        BY <1>1, <1>3, <2>2, <3>1, <4>1 DEF Covered
    <3>9. Grants(r)'
      <4>1. SUFFICES ASSUME NEW x \in committedSchedule(r)' PROVE Granted(x, v)'
        BY <2>9 DEF Grants, Granted
      <4>2. x \in schedule[r]
        BY <1>1, <2>2, <2>10, <4>1 DEF committedSchedule, UpTo
      <4>3. Granted(x, v)
        BY <1>1, <2>0, <2>3, <3>1, <4>2 DEF Grants
      <4>. QED
        BY <1>2, <2>7, <2>8, <4>3, GrowGranted
    <3>. QED
      BY <3>2, <3>3, <3>4, <3>5, <3>6, <3>7, <3>8, <3>9 DEF Replica
  <2>12. \A q \in Replicas : q # r => Same(q)
    BY <1>1, <1>2, <2>1, <2>2, <2>5 DEF Same, Types, ScheduleTypes, LeaderTypes, HistoryTypes
  <2>13. Begins(held'[r][view[r]], Full(held', msgs', view[r]))
    BY <2>0, <2>8, BeginsRefl
  <2>14. GoodMessage(m)'
    <3>1. GoodBatch(m)'
      <4>1. m.from = LeaderIndex(m.view) /\ m.history \cup m.entries = sched
        BY <1>3, <2>0, <2>6
      <4>2. m.entries \in SUBSET WindowOf(m.entries, m.window)
        BY <1>4, <2>6
      <4>3. Begins(m.history, Full(held', msgs', m.view)) /\ Begins(sched, Full(held', msgs', m.view))
        BY <2>2, <2>6, <2>8, BeginsRefl
      <4>. QED
        BY <4>1, <4>2, <4>3 DEF GoodBatch, LeaderIndex
    <3>2. Spoken(m.view)'
      <4>1. LeaderIndex(m.view) = r /\ view'[r] = m.view /\ phase'[r] = "none" /\ m.view \in Nat
        <5>1. v \in Nat
          BY Config DEF Views
        <5>2. phase' = phase
          BY <1>1
        <5>. QED
          BY <1>3, <2>0, <2>6, <2>9, <5>1, <5>2
      <4>. QED
        BY <4>1 DEF Spoken, LeaderIndex
    <3>. QED
      BY <2>6, <3>1, <3>2 DEF GoodMessage
  <2>. QED
    BY <2>1, <2>5, <2>6, <2>7, <2>8, <2>11, <2>12, <2>13, <2>14, Preserve
<1>. QED
  BY <1>6, <1>7

-----------------------------------------------------------------------------
(* Entering a view *)

LEMMA PublishStep ==
  ASSUME Inv, NEW r \in Replicas, phase[r] \in {"installed", "recover"}, publish(r)
  PROVE  Inv' /\ Grow
<1>0. PICK e : e = IF schedule[r] = {} THEN committedEnd[r] ELSE LastEnd(schedule[r])
  OBVIOUS
<1>1. /\ UNCHANGED <<view, schedule, epoch, requests, proposal, prepared, reading, msgs, plan>>
      /\ status' = [status EXCEPT ![r] = "normal"]
      /\ lastNormalView' = [lastNormalView EXCEPT ![r] = view[r]]
      /\ phase' = [phase EXCEPT ![r] = "none"]
      /\ ready' = [ready EXCEPT ![r] = epoch[r] = view[r] /\ schedule[r] # {}]
      /\ committedEnd' = [committedEnd EXCEPT ![r] = e]
      /\ leftover' = IF schedule[r] = {} /\ committedEnd[r] > 0 THEN leftover \cup {r}
                     ELSE leftover \ {r}
      /\ hold(r, schedule[r])
  BY <1>0 DEF publish, leaderVars, boundVars
<1>2. Types /\ Replica(r)
  BY DEF Inv
<1>3. /\ view[r] \in Views /\ schedule[r] \in Schedules /\ committedEnd[r] \in Nat
      /\ lastNormalView[r] \in Views /\ view[r] \in Nat /\ lastNormalView[r] \in Nat
  BY <1>2, Config DEF Types, ViewTypes, ScheduleTypes, Views
<1>4. /\ Placed(r) /\ Sourced(r) /\ Held(r) /\ Leads(r) /\ Reads(r)
  BY <1>2 DEF Replica
<1>5. lastNormalView[r] < view[r] /\ epoch[r] = view[r] /\ view[r] > 0
  BY <1>3, <1>4 DEF Placed
<1>6. held[r][view[r]] = {}
  BY <1>3, <1>4, <1>5 DEF Held
<1>7. PICK s \in StartsOf(msgs, view[r]) : s.schedule = schedule[r]
  BY <1>4 DEF Sourced
<1>8. Begins(schedule[r], Full(held, msgs, view[r]))
  BY <1>3, <1>7 DEF Inv, Within
<1>9. LeaderIndex(view[r]) = r => phase[r] = "installed" /\ schedule[r] = Full(held, msgs, view[r])
  BY <1>4 DEF Placed, Leads, IsLeader
<1>10. /\ held' = [held EXCEPT ![r][view[r]] = schedule[r]]
       /\ held' \in [Replicas -> [Views -> Schedules]]
       /\ agreed' \in AllChosen(held') /\ agreed' \in Schedules
  BY <1>1, <1>3, HoldFacts
<1>11. e \in Nat
  BY <1>0, <1>3, LastEndFacts
<1>12. Types'
  <2>1. ViewTypes'
    BY <1>1, <1>2, <1>3 DEF Types, ViewTypes
  <2>2. ScheduleTypes'
    BY <1>1, <1>2, <1>11 DEF Types, ScheduleTypes
  <2>. QED
    BY <1>1, <1>2, <1>10, <2>1, <2>2 DEF Types, LeaderTypes, HistoryTypes
<1>13. /\ status'[r] = "normal" /\ phase'[r] = "none" /\ lastNormalView'[r] = view[r]
       /\ committedEnd'[r] = e
  BY <1>1, <1>2 DEF Types, ViewTypes, ScheduleTypes
<1>14. /\ Grow
       /\ held'[r][view[r]] = schedule[r]
       /\ \A v \in Views : v # view[r] => held'[r][v] = held[r][v]
       /\ \A v \in Views : LeaderIndex(v) # r => Full(held', msgs', v) = Full(held, msgs, v)
       /\ LeaderIndex(view[r]) = r => Full(held', msgs', view[r]) = schedule[r]
  <2>1. Begins(held[r][view[r]], schedule[r])
    BY <1>6, BeginsEmpty
  <2>2. LeaderIndex(view[r]) = r => Begins(Full(held, msgs, view[r]), schedule[r])
    BY <1>9, BeginsRefl
  <2>3. \A q \in Replicas : phase[q] \in {"none", "installed"} => phase'[q] \in {"none", "installed"}
    BY <1>1, <1>2 DEF Types, ViewTypes
  <2>. QED
    BY <1>1, <1>3, <1>10, <1>12, <2>1, <2>2, <2>3, HoldGrow
<1>15. Replica(r)'
  <2>1. Placed(r)'
    BY <1>1, <1>3, <1>5, <1>13 DEF Placed
  <2>2. Sourced(r)'
    BY <1>1, <1>13, <1>14 DEF Sourced
  <2>3. Held(r)'
    <3>1. ASSUME NEW v \in Views, v > view[r] PROVE held'[r][v] = {}
      BY <1>3, <1>4, <1>5, <1>14, <3>1, Config DEF Held, Views
    <3>2. ASSUME NEW v \in Views, held'[r][v] # {} \/ v = view[r] PROVE Based(r, v)'
      <4>1. CASE v = view[r]
        BY <1>1, <1>7, <1>14, <4>1, BeginsRefl DEF Based
      <4>2. CASE v # view[r]
        BY <1>4, <1>14, <3>2, <4>2, GrowBased DEF Held
      <4>. QED
        BY <4>1, <4>2
    <3>. QED
      BY <1>13, <3>1, <3>2 DEF Held
  <2>4. Leads(r)'
    BY <1>1, <1>14 DEF Leads, IsLeader, LeaderIndex
  <2>5. Reads(r)'
    BY <1>1, <1>4 DEF Reads
  <2>6. /\ \A x \in schedule[r] : x.end <= e
        /\ schedule[r] # {} => e = LastEnd(schedule[r])
    BY <1>0, <1>3, LastEndFacts
  <2>7. Proposes(r)'
    <3>1. NormalLeader(r)' => proposal[r] = NoProposal
      BY <1>1, <1>4, <1>9 DEF NormalLeader, IsLeader, LeaderIndex, Placed
    <3>. QED
      BY <1>1, <1>13, <2>6, <3>1 DEF Proposes
  <2>8. Grants(r)'
    <3>1. \A x \in schedule[r] : Granted(x, view[r])'
      BY <1>1, <1>7 DEF Granted
    <3>. QED
      BY <1>1, <3>1 DEF Grants, committedSchedule, UpTo
  <2>9. Covered(r)'
    <3>1. SUFFICES ASSUME r \notin leftover' PROVE e <= LastEnd(schedule[r])
      BY <1>1, <1>13 DEF Covered
    <3>2. CASE schedule[r] = {}
      <4>1. committedEnd[r] = 0
        BY <1>1, <1>3, <3>1, <3>2
      <4>. QED
        BY <1>0, <1>3, <3>2, <4>1, LastEndFacts
    <3>3. CASE schedule[r] # {}
      BY <1>11, <2>6, <3>3
    <3>. QED
      BY <3>2, <3>3
  <2>. QED
    BY <2>1, <2>2, <2>3, <2>4, <2>5, <2>7, <2>8, <2>9 DEF Replica
<1>16. \A q \in Replicas : q # r => Same(q)
  <2>1. \A q \in Replicas : q # r => (q \in leftover' <=> q \in leftover)
    BY <1>1
  <2>. QED
    BY <1>1, <1>2, <1>10, <2>1 DEF Same, Types, ViewTypes, ScheduleTypes, HistoryTypes
<1>17. Begins(held'[r][view[r]], Full(held', msgs', view[r]))
  BY <1>3, <1>8, <1>14, BeginsRefl
<1>. QED
  BY <1>1, <1>10, <1>12, <1>14, <1>15, <1>16, <1>17, Preserve

LEMMA InstallStep ==
  ASSUME Inv, NEW r \in Replicas, NEW m \in msgs, InstallStartView(r, m)
  PROVE  Inv' /\ Grow
<1>1. /\ UNCHANGED <<lastNormalView, committedEnd, requests, proposal, prepared, msgs, plan, held,
                     agreed, leftover>>
      /\ m.type = "startView" /\ r # LeaderIndex(m.view) /\ m.view >= view[r]
      /\ m.view = view[r] => status[r] # "normal" /\ phase[r] # "recover"
      /\ view' = [view EXCEPT ![r] = m.view] /\ status' = [status EXCEPT ![r] = "viewChange"]
      /\ phase' = [phase EXCEPT ![r] = "recover"] /\ schedule' = [schedule EXCEPT ![r] = m.schedule]
      /\ epoch' = [epoch EXCEPT ![r] = m.view] /\ ready' = [ready EXCEPT ![r] = FALSE]
      /\ reading' = [reading EXCEPT ![r] =
                       IF @.stage # "none" /\ @.msg.view < m.view THEN NoBatch ELSE @]
  BY DEF InstallStartView, dropStale, leaderVars, historyVars, boundVars
<1>2. Types /\ Replica(r)
  BY DEF Inv
<1>3. m.view \in Views /\ m.schedule \in Schedules
  BY <1>1, <1>2, MsgFacts DEF StartViews
<1>4. Types'
  <2>1. ViewTypes'
    BY <1>1, <1>2, <1>3 DEF Types, ViewTypes
  <2>2. ScheduleTypes'
    BY <1>1, <1>2, <1>3 DEF Types, ScheduleTypes
  <2>3. reading' \in [Replicas -> Readings]
    <3>1. NoBatch \in Readings /\ reading \in [Replicas -> Readings]
      BY <1>2 DEF Readings, Types, HistoryTypes
    <3>. QED
      BY <1>1, <3>1
  <2>. QED
    BY <1>1, <1>2, <2>1, <2>2, <2>3 DEF Types, LeaderTypes, HistoryTypes
<1>5. /\ view'[r] = m.view /\ status'[r] = "viewChange" /\ phase'[r] = "recover" /\ ready'[r] = FALSE
      /\ schedule'[r] = m.schedule /\ epoch'[r] = m.view
      /\ reading'[r] = IF reading[r].stage # "none" /\ reading[r].msg.view < m.view THEN NoBatch
                       ELSE reading[r]
  BY <1>1, <1>2 DEF Types, ViewTypes, ScheduleTypes, HistoryTypes
<1>6. /\ view[r] \in Nat /\ m.view \in Nat /\ lastNormalView[r] \in Nat /\ lastNormalView[r] <= view[r]
      /\ lastNormalView[r] = view[r] <=> phase[r] = "none"
      /\ status[r] = "normal" <=> phase[r] = "none"
  BY <1>2, <1>3, Config DEF Types, ViewTypes, Views, Replica, Placed
<1>7. Placed(r)'
  <2>1. lastNormalView[r] <= m.view /\ lastNormalView[r] # m.view
    BY <1>1, <1>6
  <2>2. ~ IsLeader(r)'
    BY <1>1, <1>5 DEF IsLeader, LeaderIndex
  <2>. QED
    BY <1>1, <1>5, <2>1, <2>2 DEF Placed
<1>8. Sourced(r)'
  BY <1>1, <1>5 DEF Sourced, StartsOf
<1>9. Held(r)'
  BY <1>1, <1>2 DEF Replica, Held, Based
<1>10. Leads(r)' /\ Proposes(r)' /\ Grants(r)' /\ Covered(r)'
  BY <1>5 DEF Leads, Proposes, Grants, Covered, NormalLeader
<1>11. Reads(r)'
  <2>1. Reads(r)
    BY <1>2 DEF Replica
  <2>2. NoBatch.stage = "none"
    BY DEF NoBatch
  <2>3. CASE reading'[r] = NoBatch
    BY <2>2, <2>3 DEF Reads
  <2>4. CASE reading'[r] = reading[r] /\ (reading[r].stage = "none" \/ ~ (reading[r].msg.view < m.view))
    <3>1. ASSUME reading[r].stage = "prepare", reading[r].ok PROVE FALSE
      <4>1. /\ view[r] >= reading[r].msg.view /\ reading[r].msg \in msgs
            /\ view[r] = reading[r].msg.view => phase[r] = "none"
        BY <2>1, <3>1 DEF Reads
      <4>2. reading[r].msg.view \in Nat
        BY <1>2, <4>1, MsgFacts, Config DEF Views
      <4>. QED
        BY <1>1, <1>6, <2>4, <3>1, <4>1, <4>2
    <3>. QED
      BY <1>1, <2>1, <2>4, <3>1 DEF Reads
  <2>. QED
    BY <1>5, <2>3, <2>4
<1>12. Replica(r)'
  BY <1>7, <1>8, <1>9, <1>10, <1>11 DEF Replica
<1>13. \A q \in Replicas : q # r => Same(q)
  BY <1>1, <1>2 DEF Same, Types, ViewTypes, ScheduleTypes, HistoryTypes
<1>14. view[r] <= view'[r] /\ (view'[r] = view[r] => ~ IsLeader(r))
  BY <1>1, <1>5, <1>6 DEF IsLeader
<1>. QED
  BY <1>1, <1>4, <1>12, <1>13, <1>14, QuietPreserve

-----------------------------------------------------------------------------
(* The merge of the reports *)

LEMMA EntryFinite == IsFiniteSet(Entry)
<1>. DEFINE f == [p \in Clients \X Windows |-> [client |-> p[1], first |-> p[2], end |-> p[2] + 1]]
<1>1. IsFiniteSet(Clients \X Windows)
  <2>1. IsFiniteSet(Windows)
    BY Config, FS_Interval DEF Windows
  <2>. QED
    BY <2>1, Config, FS_Product
<1>2. IsFiniteSet({f[p] : p \in Clients \X Windows})
  <2>1. f \in Surjection(Clients \X Windows, {f[p] : p \in Clients \X Windows})
    BY DEF Surjection
  <2>. QED
    BY <1>1, <2>1, FS_Surjection
<1>3. Entry \in SUBSET {f[p] : p \in Clients \X Windows}
  <2>1. SUFFICES ASSUME NEW e \in Entry PROVE \E p \in Clients \X Windows : e = f[p]
    OBVIOUS
  <2>2. /\ e = [client |-> e.client, first |-> e.first, end |-> e.first + 1]
        /\ <<e.client, e.first>> \in Clients \X Windows
    BY DEF Entry
  <2>. QED
    BY <2>2
<1>. QED
  BY <1>2, <1>3, FS_Subset

\* There is a report of the highest normal view, and, without a conflict, one
\* whose schedule has all the others in it.
LEMMA SurvivorFacts ==
  ASSUME NEW R \in SUBSET Reports, R # {}, ~ scheduleConflict(R)
  PROVE  \E a \in survivors(R) : /\ mergedSchedule(R) = a.schedule
                                 /\ \A b \in survivors(R) : b.schedule \subseteq a.schedule
<1>1. \A m \in R : m.lastNormalView \in 0 .. MaxView /\ m.schedule \in Schedules
  BY DEF Reports, Views
<1>2. survivors(R) # {}
  <2>. DEFINE T == {m.lastNormalView : m \in R}
  <2>1. T \in SUBSET (0 .. MaxView) /\ T # {} /\ MaxView \in Nat
    BY <1>1, Config
  <2>2. \E x \in T : \A y \in T : x >= y
    BY <2>1, GreatestNatural
  <2>3. PICK m \in R : \A o \in R : m.lastNormalView >= o.lastNormalView
    BY <2>2
  <2>4. \A o \in R : o.lastNormalView <= m.lastNormalView
    BY <1>1, <2>3, Config
  <2>. QED
    BY <2>4 DEF survivors
<1>3. \A m \in survivors(R) : m \in R
  BY DEF survivors
<1>4. \A m \in survivors(R) : /\ IsFiniteSet(m.schedule)
                              /\ Cardinality(m.schedule) \in 0 .. Cardinality(Entry)
  <2>1. \A s \in Schedules : /\ IsFiniteSet(s) /\ Cardinality(s) \in Nat
                             /\ Cardinality(s) <= Cardinality(Entry)
    BY EntryFinite, FS_Subset, FS_CardinalityType DEF Schedules
  <2>2. Cardinality(Entry) \in Nat
    BY EntryFinite, FS_CardinalityType
  <2>. QED
    BY <1>1, <1>3, <2>1, <2>2
<1>5. PICK a \in survivors(R) :
        \A b \in survivors(R) : Cardinality(b.schedule) <= Cardinality(a.schedule)
  <2>. DEFINE T == {Cardinality(m.schedule) : m \in survivors(R)}
  <2>1. T \in SUBSET (0 .. Cardinality(Entry)) /\ T # {} /\ Cardinality(Entry) \in Nat
    BY <1>2, <1>4, EntryFinite, FS_CardinalityType
  <2>2. \E x \in T : \A y \in T : x >= y
    BY <2>1, GreatestNatural
  <2>3. PICK m \in survivors(R) : \A o \in survivors(R) : Cardinality(m.schedule) >= Cardinality(o.schedule)
    BY <2>2
  <2>. QED
    BY <1>4, <2>1, <2>3
<1>6. ASSUME NEW b \in survivors(R) PROVE schedulePrefix(b.schedule, a.schedule)
  <2>1. schedulePrefix(b.schedule, a.schedule) \/ schedulePrefix(a.schedule, b.schedule)
    BY DEF scheduleConflict
  <2>2. SUFFICES ASSUME schedulePrefix(a.schedule, b.schedule)
                 PROVE  a.schedule = b.schedule
    BY <2>1 DEF schedulePrefix
  <2>3. a.schedule \in SUBSET b.schedule
    BY <2>2 DEF schedulePrefix
  <2>4. Cardinality(a.schedule) <= Cardinality(b.schedule)
    BY <1>4, <2>3, FS_Subset
  <2>5. Cardinality(b.schedule) = Cardinality(a.schedule)
    BY <1>4, <1>5, <2>4, FS_CardinalityType
  <2>. QED
    BY <1>4, <2>3, <2>5, FS_Subset
<1>7. PICK c \in survivors(R) : /\ mergedSchedule(R) = c.schedule
                                /\ \A b \in survivors(R) : schedulePrefix(b.schedule, c.schedule)
  BY <1>6 DEF mergedSchedule
<1>. QED
  BY <1>7 DEF schedulePrefix

\* A schedule from a later view has what may be chosen in an earlier one.
LEMMA LaterHas ==
  ASSUME Inv, NEW v \in Views, NEW h \in Schedules, Choosable(v, h)
  PROVE  /\ \A u \in Views : \A s \in StartsOf(msgs, u) : v < u => Begins(h, s.schedule)
         /\ \A q \in Replicas, u \in Views : v < u /\ Based(q, u) => Begins(h, held[q][u])
<1>1. \A u \in Views : \A s \in StartsOf(msgs, u) : v < u => Begins(h, s.schedule)
  BY StartFacts DEF Inv, MessagesGood, GoodMessage, Safe
<1>2. ASSUME NEW q \in Replicas, NEW u \in Views, v < u, Based(q, u) PROVE Begins(h, held[q][u])
  <2>1. u > 0
    BY <1>2, Config DEF Views
  <2>2. PICK s \in StartsOf(msgs, u) : Begins(s.schedule, held[q][u])
    BY <1>2, <2>1 DEF Based
  <2>3. Begins(h, s.schedule)
    BY <1>1, <1>2
  <2>. QED
    BY <2>2, <2>3, BeginsTrans
<1>. QED
  BY <1>1, <1>2

\* The merge has everything that may be chosen in a lower view.
LEMMA MergeSafe ==
  ASSUME Inv, NEW r \in Replicas, NEW Q \in Quorums, HasReports(r, Q),
         ~ scheduleConflict(ReportsOf(r, Q)),
         NEW v \in Views, NEW h \in Schedules, v < view[r], Choosable(v, h)
  PROVE  Begins(h, mergedSchedule(ReportsOf(r, Q)))
<1>. DEFINE R == ReportsOf(r, Q)
<1>1. Types /\ Within /\ view[r] \in Nat /\ v \in Nat
  BY Config DEF Inv, Types, ViewTypes, Views
<1>2. \A m \in R : /\ m \in Reports /\ m.view = view[r] /\ m.from \in Q /\ GoodReport(m)
  <2>1. \A m \in R : m \in msgs /\ m.type = "report" /\ m.view = view[r] /\ m.from \in Q
    BY DEF ReportsOf
  <2>. QED
    BY <1>1, <2>1, MsgFacts DEF Inv, MessagesGood, GoodMessage
<1>3. \A m \in R : /\ m.from \in Replicas /\ m.lastNormalView \in Views /\ m.lastNormalView \in Nat
                   /\ m.schedule \in Schedules /\ view[m.from] \in Nat
  <2>1. \A m \in R : m.from \in Replicas /\ m.lastNormalView \in Views /\ m.schedule \in Schedules
    BY <1>2 DEF Reports
  <2>. QED
    BY <1>1, <2>1, Config DEF Types, ViewTypes, Views
<1>4. {m.from : m \in R} = Q
  BY DEF HasReports
<1>5. PICK P \in Quorums : \A q \in P : view[q] <= v \/ Begins(h, held[q][v])
  BY DEF Choosable
<1>6. PICK p \in Replicas : p \in P /\ p \in Q
  BY QuorumsMeet
<1>7. PICK o \in R : o.from = p
  BY <1>4, <1>6
<1>8. SUFFICES ASSUME h # {} PROVE Begins(h, mergedSchedule(R))
  BY BeginsEmpty
<1>9. Begins(h, held[p][v])
  <2>1. view[r] <= view[p] /\ view[p] \in Nat
    BY <1>2, <1>3, <1>7 DEF GoodReport
  <2>. QED
    BY <1>1, <1>5, <1>6, <2>1
<1>10. v <= o.lastNormalView
  <2>1. held[p][v] # {}
    BY <1>8, <1>9, BeginsEmpty
  <2>. QED
    BY <1>2, <1>7, <2>1 DEF GoodReport
<1>11. PICK a \in survivors(R) : /\ mergedSchedule(R) = a.schedule
                                 /\ \A b \in survivors(R) : b.schedule \subseteq a.schedule
  <2>1. R \in SUBSET Reports /\ R # {}
    BY <1>2, <1>7
  <2>. QED
    BY <2>1, SurvivorFacts
<1>12. a \in R /\ o.lastNormalView <= a.lastNormalView
  BY <1>7, <1>11 DEF survivors
<1>13. \A m \in R : (\E u \in Views : \E s \in StartsOf(msgs, u) : v < u /\ s.schedule = m.schedule)
                      => Begins(h, m.schedule)
  BY LaterHas
<1>14. CASE v < a.lastNormalView
  <2>1. CASE a.schedule = held[a.from][a.lastNormalView]
    <3>1. Begins(h, held[a.from][a.lastNormalView])
      BY <1>2, <1>3, <1>12, <1>14, LaterHas DEF GoodReport
    <3>. QED
      BY <1>11, <2>1, <3>1
  <2>2. CASE \E u \in Views : \E s \in StartsOf(msgs, u) :
               a.lastNormalView < u /\ u < a.view /\ s.schedule = a.schedule
    <3>1. \E u \in Views : \E s \in StartsOf(msgs, u) : v < u /\ s.schedule = a.schedule
      BY <1>1, <1>3, <1>12, <1>14, <2>2, Config DEF Views
    <3>. QED
      BY <1>11, <1>12, <1>13, <3>1
  <2>. QED
    BY <1>2, <1>12, <2>1, <2>2 DEF GoodReport
<1>15. CASE ~ (v < a.lastNormalView)
  <2>1. a.lastNormalView = v /\ o.lastNormalView = v
    BY <1>1, <1>3, <1>7, <1>10, <1>12, <1>15
  <2>2. o \in survivors(R)
    BY <1>7, <1>11, <2>1 DEF survivors
  <2>3. o.schedule \subseteq a.schedule
    BY <1>11, <2>2
  <2>4. CASE \E u \in Views : \E s \in StartsOf(msgs, u) :
               a.lastNormalView < u /\ u < a.view /\ s.schedule = a.schedule
    BY <1>11, <1>12, <1>13, <2>1, <2>4
  <2>5. CASE a.schedule = held[a.from][v]
    <3>1. Begins(a.schedule, Full(held, msgs, v)) /\ Begins(held[p][v], Full(held, msgs, v))
      BY <1>1, <1>3, <1>12, <2>5 DEF Within
    <3>2. CASE o.schedule = held[p][v]
      <4>1. Begins(held[p][v], a.schedule)
        BY <2>3, <3>1, <3>2, BeginsWithin
      <4>. QED
        BY <1>9, <1>11, <4>1, BeginsTrans
    <3>3. CASE \E u \in Views : \E s \in StartsOf(msgs, u) :
                 o.lastNormalView < u /\ u < o.view /\ s.schedule = o.schedule
      <4>1. Begins(h, o.schedule)
        BY <1>7, <1>13, <2>1, <3>3
      <4>2. Begins(h, Full(held, msgs, v))
        BY <1>9, <3>1, BeginsTrans
      <4>3. Begins(h, a.schedule) \/ Begins(a.schedule, h)
        BY <1>1, <1>3, <1>12, <3>1, <4>2, FullType, BeginsCompare
      <4>4. CASE Begins(a.schedule, h)
        <5>1. h \subseteq a.schedule
          BY <2>3, <4>1 DEF Begins
        <5>2. a.schedule = h
          BY <4>4, <5>1, BeginsEqual
        <5>. QED
          BY <1>11, <5>2, BeginsRefl
      <4>. QED
        BY <1>11, <4>3, <4>4
    <3>. QED
      BY <1>2, <1>7, <2>1, <3>2, <3>3 DEF GoodReport
  <2>. QED
    BY <1>2, <1>12, <2>1, <2>4, <2>5 DEF GoodReport
<1>. QED
  BY <1>14, <1>15

LEMMA MergeStep ==
  ASSUME Inv, NEW r \in Replicas, NEW Q \in Quorums, Merge(r, Q)
  PROVE  Inv' /\ Grow
<1>0. PICK v, merged, m : /\ v = view[r] /\ merged = mergedSchedule(ReportsOf(r, Q))
                          /\ m = [type |-> "startView", view |-> view[r], schedule |-> merged]
  OBVIOUS
<1>1. /\ UNCHANGED <<view, status, lastNormalView, committedEnd, requests, proposal, prepared,
                     reading, plan, held, agreed, leftover>>
      /\ HasReports(r, Q) /\ ~ scheduleConflict(ReportsOf(r, Q))
      /\ schedule' = [schedule EXCEPT ![r] = merged] /\ msgs' = msgs \cup {m}
      /\ epoch' = [epoch EXCEPT ![r] = v] /\ ready' = [ready EXCEPT ![r] = FALSE]
      /\ phase' = [phase EXCEPT ![r] = "installed"]
  BY <1>0 DEF Merge, leaderVars, historyVars, boundVars
<1>2. Types /\ Replica(r)
  BY DEF Inv
<1>3. /\ phase[r] = "vc" /\ LeaderIndex(v) = r /\ v \in Views /\ v \in Nat
      /\ lastNormalView[r] \in Nat /\ lastNormalView[r] < v
  <2>1. phase[r] = "vc" /\ LeaderIndex(v) = r
    BY <1>0, <1>1 DEF HasReports, IsLeader
  <2>2. v \in Views /\ v \in Nat /\ lastNormalView[r] \in Nat
    BY <1>0, <1>2, Config DEF Types, ViewTypes, Views
  <2>. QED
    BY <1>0, <1>2, <2>1, <2>2 DEF Replica, Placed
<1>4. merged \in Schedules
  <2>1. ReportsOf(r, Q) \in SUBSET Reports
    BY <1>2, MsgFacts DEF ReportsOf
  <2>2. ReportsOf(r, Q) # {}
    BY <1>1, QuorumNonempty DEF HasReports
  <2>3. \E a \in survivors(ReportsOf(r, Q)) : merged = a.schedule
    BY <1>0, <1>1, <2>1, <2>2, SurvivorFacts
  <2>. QED
    BY <2>1, <2>3 DEF survivors, Reports
<1>5. m \in Messages /\ m.type = "startView" /\ m.view = v /\ m.schedule = merged
  BY <1>0, <1>3, <1>4 DEF Messages, StartViews
<1>6. Types'
  <2>1. ViewTypes' /\ ScheduleTypes'
    BY <1>1, <1>2, <1>3, <1>4 DEF Types, ViewTypes, ScheduleTypes
  <2>. QED
    BY <1>1, <1>2, <1>5, <2>1 DEF Types, LeaderTypes, HistoryTypes
<1>7. /\ schedule'[r] = merged /\ phase'[r] = "installed" /\ epoch'[r] = v /\ ready'[r] = FALSE
  BY <1>1, <1>2 DEF Types, ViewTypes, ScheduleTypes
\* Nothing was said in the view before.
<1>8. held[r][v] = {} /\ StartsOf(msgs, v) = {} /\ Full(held, msgs, v) = {}
  <2>1. held[r][v] = {}
    BY <1>2, <1>3 DEF Replica, Held
  <2>2. ASSUME NEW s \in StartsOf(msgs, v) PROVE FALSE
    <3>1. Spoken(v)
      BY <2>2 DEF StartsOf, Inv, MessagesGood, GoodMessage
    <3>. QED
      BY <1>0, <1>3, <3>1 DEF Spoken
  <2>. QED
    BY <1>3, <2>1, <2>2 DEF Full
<1>9. StartsOf(msgs', v) = {m} /\ Full(held', msgs', v) = merged
  <2>1. StartsOf(msgs', v) = {m}
    BY <1>1, <1>5, <1>8 DEF StartsOf
  <2>2. UNION {s.schedule : s \in StartsOf(msgs', v)} = merged
    BY <1>5, <2>1
  <2>3. held'[LeaderIndex(v)][v] = {}
    BY <1>1, <1>3, <1>8
  <2>. QED
    BY <2>1, <2>2, <2>3 DEF Full
<1>10. \A u \in Views : u # v => Full(held', msgs', u) = Full(held, msgs, u)
  <2>1. \A u \in Views : u # v => StartsOf(msgs', u) = StartsOf(msgs, u)
    BY <1>1, <1>5 DEF StartsOf
  <2>. QED
    BY <1>1, <2>1 DEF Full
<1>11. Grow
  <2>1. \A u \in Views : Begins(Full(held, msgs, u), Full(held', msgs', u))
    BY <1>8, <1>10, BeginsRefl, BeginsEmpty
  <2>2. \A q \in Replicas : view[q] <= view'[q]
    BY <1>1, <1>2, Config DEF Types, ViewTypes, Views
  <2>3. \A q \in Replicas : phase[q] \in {"none", "installed"} => phase'[q] \in {"none", "installed"}
    BY <1>1, <1>2 DEF Types, ViewTypes
  <2>. QED
    BY <1>1, <2>1, <2>2, <2>3, BeginsRefl DEF Grow
<1>12. Replica(r)'
  <2>1. /\ Placed(r) /\ Held(r) /\ Reads(r)
    BY <1>2 DEF Replica
  <2>2. Placed(r)'
    <3>1. IsLeader(r)'
      BY <1>0, <1>1, <1>3 DEF IsLeader, LeaderIndex
    <3>. QED
      BY <1>0, <1>1, <1>3, <1>7, <2>1, <3>1 DEF Placed
  <2>3. Sourced(r)'
    BY <1>0, <1>1, <1>5, <1>7, <1>9 DEF Sourced
  <2>4. Held(r)'
    <3>1. \A u \in Views : Based(r, u) => Based(r, u)'
      BY <1>11, GrowBased
    <3>. QED
      BY <1>1, <2>1, <3>1 DEF Held
  <2>5. Leads(r)'
    BY <1>0, <1>1, <1>7, <1>9 DEF Leads
  <2>6. Reads(r)'
    BY <1>1, <1>3, <2>1 DEF Reads
  <2>7. Proposes(r)' /\ Grants(r)' /\ Covered(r)'
    <3>1. status'[r] # "normal" /\ phase'[r] # "none"
      BY <1>1, <1>3, <1>7, <2>1 DEF Placed
    <3>. QED
      BY <3>1 DEF Proposes, Grants, Covered, NormalLeader
  <2>. QED
    BY <2>2, <2>3, <2>4, <2>5, <2>6, <2>7 DEF Replica
<1>13. \A q \in Replicas : q # r => Same(q)
  BY <1>1, <1>2 DEF Same, Types, ViewTypes, ScheduleTypes
<1>14. GoodMessage(m)'
  <2>1. Safe(m)'
    <3>1. SUFFICES ASSUME NEW u \in Views, NEW h \in Schedules, u < m.view, Choosable(u, h)'
                   PROVE  Begins(h, m.schedule)
      BY DEF Safe
    <3>2. Choosable(u, h)
      BY <1>2, <1>6, <1>11, <3>1, GrowChoosable
    <3>. QED
      BY <1>0, <1>1, <1>5, <3>1, <3>2, MergeSafe
  <2>2. Spoken(m.view)'
    <3>1. LeaderIndex(m.view) = r /\ view'[r] = m.view
      BY <1>0, <1>1, <1>3, <1>5
    <3>. QED
      BY <1>3, <1>5, <1>7, <3>1 DEF Spoken, LeaderIndex
  <2>. QED
    BY <1>5, <2>1, <2>2 DEF GoodMessage
<1>15. Begins(held'[r][view[r]], Full(held', msgs', view[r]))
  BY <1>0, <1>1, <1>8, BeginsEmpty
<1>16. \A s \in msgs' \ msgs : s.type = "startView" => Begins(s.schedule, Full(held', msgs', s.view))
  BY <1>1, <1>5, <1>9, BeginsRefl
<1>17. agreed' \in AllChosen(held')
  BY <1>1 DEF Inv
<1>18. \A u \in Views : LeaderIndex(u) # r => Full(held', msgs', u) = Full(held, msgs, u)
  BY <1>3, <1>10
<1>19. \A o \in msgs' \ msgs : GoodMessage(o)'
  BY <1>1, <1>14
<1>. QED
  BY <1>6, <1>11, <1>12, <1>13, <1>15, <1>16, <1>17, <1>18, <1>19, Preserve

-----------------------------------------------------------------------------
(* The invariant is inductive *)

LEMMA InitInv ==
  ASSUME Init
  PROVE  Inv
<1>1. 0 \in Views /\ 0 \in Nat
  BY Config DEF Views
<1>2. Types
  <2>1. {} \in Schedules /\ NoBatch \in Readings
    BY DEF Schedules, Readings
  <2>2. ViewTypes /\ ScheduleTypes
    BY <1>1, <2>1 DEF Init, ViewTypes, ScheduleTypes
  <2>3. LeaderTypes
    BY DEF Init, LeaderTypes
  <2>4. HistoryTypes
    BY <2>1 DEF Init, HistoryTypes
  <2>. QED
    BY <2>2, <2>3, <2>4 DEF Types
<1>3. /\ \A q \in Replicas, v \in Views : held[q][v] = {}
      /\ \A v \in Views : StartsOf(msgs, v) = {}
      /\ \A v \in Views : Full(held, msgs, v) = {}
  <2>1. /\ \A q \in Replicas, v \in Views : held[q][v] = {}
        /\ \A v \in Views : StartsOf(msgs, v) = {}
    BY DEF Init, StartsOf
  <2>. QED
    BY <2>1, Config DEF Full
<1>4. ASSUME NEW r \in Replicas PROVE Replica(r)
  <2>1. /\ view[r] = 0 /\ status[r] = "normal" /\ lastNormalView[r] = 0 /\ phase[r] = "none"
        /\ schedule[r] = {} /\ epoch[r] = 0 /\ ready[r] = FALSE /\ committedEnd[r] = 0
        /\ proposal[r] = NoProposal /\ reading[r] = NoBatch
    BY DEF Init
  <2>2. Placed(r) /\ Sourced(r)
    BY <1>1, <1>3, <2>1 DEF Placed, Sourced
  <2>3. Held(r)
    BY <1>3, <2>1 DEF Held, Based
  <2>4. Leads(r) /\ Reads(r)
    BY <1>1, <1>3, <2>1 DEF Leads, Reads, NoBatch
  <2>5. Proposes(r) /\ Grants(r)
    BY <2>1 DEF Proposes, Grants, committedSchedule, UpTo
  <2>6. Covered(r)
    <3>1. {} \in Schedules
      BY DEF Schedules
    <3>. QED
      BY <2>1, <3>1, LastEndFacts DEF Covered
  <2>. QED
    BY <2>2, <2>3, <2>4, <2>5, <2>6 DEF Replica
<1>5. Within
  BY <1>3, BeginsRefl DEF Within
<1>6. MessagesGood
  BY DEF Init, MessagesGood
<1>7. agreed \in AllChosen(held)
  <2>1. held \in [Replicas -> [Views -> Schedules]]
    BY <1>2 DEF Types, HistoryTypes
  <2>2. PICK h \in AllChosen(held) : TRUE
    BY <2>1, AllChosenTypes
  <2>3. PICK v \in Views : h \in ChosenIn(held, v)
    BY <2>2 DEF AllChosen
  <2>4. PICK Q \in Quorums, q \in Replicas : h = UpTo(held[q][v], ChosenEnd(held, v, Q))
    BY <2>1, <2>3, ChosenType
  <2>5. h = {}
    BY <1>3, <2>4 DEF UpTo
  <2>. QED
    BY <2>2, <2>5 DEF Init
<1>. QED
  BY <1>2, <1>4, <1>5, <1>6, <1>7 DEF Inv

LEMMA NextInv ==
  ASSUME Inv, Next
  PROVE  Inv' /\ Grow
<1>1. PICK r \in Replicas :
        \/ \E c \in Clients, w \in Windows : TakeRequest(r, c, w)
        \/ \E w \in Windows : ExpireRequests(r, w)
        \/ Propose(r)
        \/ CommitProposal(r)
        \/ SendHistory(r)
        \/ ReadPrepare(r)
        \/ ReadCommit(r)
        \/ Suspect(r)
        \/ \E v \in Views : Follow(r, v)
        \/ Report(r)
        \/ \E Q \in Quorums : Merge(r, Q) \/ RefuseMerge(r, Q)
        \/ LeaderPublish(r)
        \/ FinishRecovery(r)
        \/ ResendStartView(r)
        \/ \E m \in msgs : PrepareReply(r, m) \/ ReadSnapshot(r, m) \/ InstallStartView(r, m)
  BY DEF Next
<1>2. view[r] < MaxView => view[r] + 1 \in Views
  BY Config DEF Inv, Types, ViewTypes, Views
<1>3. CASE \/ \E c \in Clients, w \in Windows : TakeRequest(r, c, w)
           \/ \E w \in Windows : ExpireRequests(r, w)
  BY <1>3, RequestsStep
<1>4. CASE Propose(r) \/ CommitProposal(r) \/ SendHistory(r)
  BY <1>4, ProposeStep, CommitProposalStep, SendHistoryStep
<1>5. CASE ReadPrepare(r) \/ ReadCommit(r)
  BY <1>5, ReadPrepareStep, ReadCommitStep
<1>6. CASE Suspect(r)
  <2>1. PICK v \in Views : v = view[r] + 1
    BY <1>2, <1>6 DEF Suspect
  <2>2. beginViewChange(r, v)
    BY <1>6, <2>1 DEF Suspect
  <2>. QED
    BY <2>2, BeginStep
<1>7. CASE \E v \in Views : Follow(r, v)
  BY <1>7, BeginStep DEF Follow
<1>8. CASE Report(r) \/ ResendStartView(r)
  BY <1>8, ReportStep, ResendStep
<1>9. CASE \E Q \in Quorums : Merge(r, Q)
  BY <1>9, MergeStep
<1>10. CASE \E Q \in Quorums : RefuseMerge(r, Q)
  <2>1. view[r] < MaxView /\ beginViewChange(r, view[r] + 1)
    BY <1>10 DEF RefuseMerge
  <2>2. PICK v \in Views : v = view[r] + 1
    BY <1>2, <2>1
  <2>3. beginViewChange(r, v)
    BY <2>1, <2>2
  <2>. QED
    BY <2>3, BeginStep
<1>11. CASE LeaderPublish(r) \/ FinishRecovery(r)
  BY <1>11, PublishStep DEF LeaderPublish, FinishRecovery
<1>12. CASE \E m \in msgs : PrepareReply(r, m) \/ ReadSnapshot(r, m) \/ InstallStartView(r, m)
  BY <1>12, PrepareReplyStep, ReadSnapshotStep, InstallStep
<1>. QED
  BY <1>1, <1>3, <1>4, <1>5, <1>6, <1>7, <1>8, <1>9, <1>10, <1>11, <1>12

\* Nothing happens.
LEMMA StutterInv ==
  ASSUME Inv, UNCHANGED vars
  PROVE  Inv' /\ Grow
<1>1. /\ UNCHANGED <<view, status, lastNormalView, phase, asked, schedule, epoch, ready, committedEnd>>
      /\ UNCHANGED <<requests, proposal, prepared, reading, msgs, plan, held, agreed, leftover>>
  BY DEF vars, viewVars, scheduleVars, leaderVars, historyVars, boundVars
<1>2. Types'
  BY <1>1 DEF Inv, Types, ViewTypes, ScheduleTypes, LeaderTypes, HistoryTypes
<1>3. \A q \in Replicas : Same(q)
  BY <1>1 DEF Same
<1>4. \A q \in Replicas : view[q] \in Nat /\ view[q] \in Views /\ view[q] <= view'[q]
  BY <1>1, Config DEF Inv, Types, ViewTypes, Views
<1>5. Grow /\ \A v \in Views : Full(held', msgs', v) = Full(held, msgs, v)
  BY <1>1, <1>2, <1>4, QuietGrow
<1>6. PICK r \in Replicas : TRUE
  BY Config DEF Views
<1>7. Replica(r)'
  BY <1>2, <1>3, <1>4, <1>5, OthersKeep
<1>. QED
  BY <1>1, <1>2, <1>3, <1>4, <1>7, QuietPreserve

\* The invariant of schedule.go and recovery.go: what is said and held in a view
\* is one growing schedule, and every StartView has what may be chosen before it.
THEOREM Invariance == Spec => []Inv
<1>1. Init => Inv
  BY InitInv
<1>2. Inv /\ [Next]_vars => Inv'
  BY NextInv, StutterInv
<1>. QED
  BY <1>1, <1>2, PTL DEF Spec

-----------------------------------------------------------------------------
(* What the invariant shows *)

\* Two replicas that admit buses in the same view, except those in leftover, hold
\* the same entries up to the earlier of their committed ends, whatever
\* handleScheduleInstall, handleSchdPrepare and handleSchdCommit have seen, and in
\* whichever order: they put a bus that both admit into the same slot.
THEOREM SlotsAgreeAlways == Spec => []SlotsAgree
<1>1. Inv => SlotsAgree
  <2>1. SUFFICES ASSUME Inv, NEW r \in Replicas, NEW q \in Replicas, r \notin leftover, q \notin leftover,
                        view[r] = view[q], scheduleActive(r), scheduleActive(q)
                 PROVE  SameUpTo(schedule[r], schedule[q], Min({committedEnd[r], committedEnd[q]}))
    BY DEF SlotsAgree
  <2>. DEFINE v == view[r]
              a == schedule[r]
              b == schedule[q]
              e == Min({committedEnd[r], committedEnd[q]})
  <2>2. Types /\ Replica(r) /\ Replica(q) /\ v \in Views
    BY <2>1 DEF Inv, Types, ViewTypes
  <2>3. /\ phase[r] = "none" /\ phase[q] = "none" /\ a = held[r][v] /\ b = held[q][v]
        /\ committedEnd[r] <= LastEnd(a) /\ committedEnd[q] <= LastEnd(b)
    BY <2>1, <2>2 DEF Replica, Placed, Sourced, Covered, scheduleActive
  <2>4. /\ a \in Schedules /\ b \in Schedules /\ committedEnd[r] \in Nat /\ committedEnd[q] \in Nat
    BY <2>2 DEF Types, ScheduleTypes
  <2>5. Begins(a, b) \/ Begins(b, a)
    <3>1. Begins(a, Full(held, msgs, v)) /\ Begins(b, Full(held, msgs, v))
      BY <2>1, <2>2, <2>3 DEF Inv, Within
    <3>. QED
      BY <2>2, <2>4, <3>1, FullType, BeginsCompare
  <2>6. \A x, y \in Nat : Min({x, y}) \in {x, y} /\ Min({x, y}) <= x /\ Min({x, y}) <= y
    BY DEF Min
  <2>7. e \in Nat /\ e <= committedEnd[r] /\ e <= committedEnd[q]
    BY <2>4, <2>6
  <2>8. e <= LastEnd(a) /\ e <= LastEnd(b) /\ LastEnd(a) \in Nat /\ LastEnd(b) \in Nat
    BY <2>3, <2>4, <2>7, LastEndFacts
  <2>. HIDE DEF e
  <2>9. ASSUME NEW c \in Schedules, NEW d \in Schedules, Begins(c, d), e <= LastEnd(c), LastEnd(c) \in Nat
        PROVE  UpTo(c, e) = UpTo(d, e)
    <3>1. \A y \in d : y.end <= e => y.end <= LastEnd(c)
      BY <2>7, <2>9, EntryFacts DEF Schedules
    <3>2. \A y \in d : y.end <= e => y \in c
      BY <2>9, <3>1, BeginsEnd
    <3>. QED
      BY <2>9, <3>2 DEF UpTo, Begins
  <2>10. UpTo(a, e) = UpTo(b, e)
    BY <2>4, <2>5, <2>8, <2>9
  <2>. QED
    BY <2>10 DEF SameUpTo, e
<1>. QED
  BY <1>1, Invariance, PTL

\* What a quorum holds is a beginning of what each of its members holds.
LEMMA ChosenHeld ==
  ASSUME Inv, NEW v \in Views, NEW h \in ChosenIn(held, v)
  PROVE  /\ h \in Schedules /\ Choosable(v, h) /\ Begins(h, Full(held, msgs, v))
         /\ \E q \in Replicas : Begins(h, held[q][v])
<1>1. Types /\ held \in [Replicas -> [Views -> Schedules]]
  BY DEF Inv, Types, HistoryTypes
<1>2. h \in Schedules
  BY <1>1, ChosenType
<1>3. PICK Q \in Quorums : \E q \in Q : q \in Replicas /\ h = UpTo(held[q][v], ChosenEnd(held, v, Q))
  BY <1>1, ChosenType
<1>4. PICK q \in Q : q \in Replicas /\ h = UpTo(held[q][v], ChosenEnd(held, v, Q))
  BY <1>3
<1>. DEFINE e == ChosenEnd(held, v, Q)
<1>5. e \in Nat /\ \A p \in Q : e <= LastEnd(held[p][v])
  BY <1>1, ChosenEndFacts
<1>6. held[q][v] \in Schedules /\ Begins(h, held[q][v])
  BY <1>1, <1>4, <1>5, UpToBegins
<1>7. ASSUME NEW p \in Q PROVE Begins(h, held[p][v])
  <2>1. p \in Replicas
    BY QuorumNonempty
  <2>2. held[p][v] \in Schedules /\ LastEnd(held[p][v]) \in Nat
    BY <1>1, <2>1, LastEndFacts
  <2>3. Begins(held[q][v], held[p][v]) \/ Begins(held[p][v], held[q][v])
    <3>1. Begins(held[q][v], Full(held, msgs, v)) /\ Begins(held[p][v], Full(held, msgs, v))
      BY <1>4, <2>1 DEF Inv, Within
    <3>. QED
      BY <1>1, <1>6, <2>2, <3>1, FullType, BeginsCompare
  <2>4. CASE Begins(held[q][v], held[p][v])
    BY <1>6, <2>4, BeginsTrans
  <2>5. CASE Begins(held[p][v], held[q][v])
    <3>1. \A x \in h : x \in held[q][v] /\ x.end <= e /\ x.end \in Nat
      BY <1>2, <1>4, EntryFacts DEF UpTo, Schedules
    <3>2. \A x \in h : x.end <= LastEnd(held[p][v])
      BY <1>5, <2>2, <3>1
    <3>3. h \subseteq held[p][v]
      BY <1>6, <2>2, <2>5, <3>1, <3>2, BeginsEnd
    <3>. QED
      BY <1>6, <2>5, <3>3, BeginsWithin
  <2>. QED
    BY <2>3, <2>4, <2>5
<1>8. Choosable(v, h)
  BY <1>7 DEF Choosable
<1>9. Begins(h, Full(held, msgs, v))
  BY <1>4, <1>6, BeginsTrans DEF Inv, Within
<1>. QED
  BY <1>2, <1>4, <1>6, <1>8, <1>9

\* A window that a quorum held in a view is held, behind the same windows, by every
\* replica that is normal in a later view: mergeSuffix and installStartView lose
\* nothing that the leader of the earlier view could commit.
THEOREM ChosenKeptAlways == Spec => []ChosenKept
<1>1. Inv => ChosenKept
  <2>1. SUFFICES ASSUME Inv, NEW r \in Replicas, NEW v \in Views, status[r] = "normal", v < view[r],
                        NEW h \in ChosenIn(held, v)
                 PROVE  UpTo(schedule[r], LastEnd(h)) = h
    BY DEF ChosenKept
  <2>2. Types /\ Replica(r) /\ view[r] \in Views /\ schedule[r] \in Schedules
    BY <2>1 DEF Inv, Types, ViewTypes, ScheduleTypes
  <2>3. schedule[r] = held[r][view[r]] /\ Based(r, view[r])
    BY <2>1, <2>2 DEF Replica, Placed, Sourced, Held
  <2>4. h \in Schedules /\ Choosable(v, h)
    BY <2>1, ChosenHeld
  <2>5. Begins(h, schedule[r])
    BY <2>1, <2>2, <2>3, <2>4, LaterHas
  <2>. QED
    BY <2>2, <2>4, <2>5, UpToExact
<1>. QED
  BY <1>1, Invariance, PTL

\* What a leader takes for committed, and grants, a quorum of its view holds, or the
\* leader took it over with the view: handleSchdPrepareReply counts no
\* acknowledgement of an earlier proposal.
THEOREM GrantsBackedAlways == Spec => []GrantsBacked
<1>1. Inv => GrantsBacked
  <2>1. SUFFICES ASSUME Inv, NEW r \in Replicas, NormalLeader(r), NEW x \in committedSchedule(r)
                 PROVE  \E h \in UNION {ChosenIn(held, view[r]),
                                 {m.schedule : m \in {o \in msgs : o.type = "startView" /\ o.view = view[r]}}} :
                          x \in h
    BY DEF GrantsBacked
  <2>2. Granted(x, view[r])
    BY <2>1 DEF Inv, Replica, Grants
  <2>3. CASE \E s \in StartsOf(msgs, view[r]) : x \in s.schedule
    BY <2>3 DEF StartsOf
  <2>4. CASE \E h \in ChosenIn(held, view[r]) : x \in h
    BY <2>4
  <2>. QED
    BY <2>2, <2>3, <2>4 DEF Granted
<1>. QED
  BY <1>1, Invariance, PTL

-----------------------------------------------------------------------------
(* The replicas implement one history *)

Comparable == \A a, b \in AllChosen(held) : Begins(a, b) \/ Begins(b, a)

\* All that quorums held, in whichever views, is comparable.
LEMMA ChosenCompare == Inv => Comparable
<1>. SUFFICES ASSUME Inv, NEW a \in AllChosen(held), NEW b \in AllChosen(held)
              PROVE  Begins(a, b) \/ Begins(b, a)
  BY DEF Comparable
<1>1. Types
  BY DEF Inv
<1>2. PICK v \in Views : a \in ChosenIn(held, v)
  BY DEF AllChosen
<1>3. PICK u \in Views : b \in ChosenIn(held, u)
  BY DEF AllChosen
<1>4. ASSUME NEW i \in Views, NEW j \in Views, i < j,
             NEW c \in ChosenIn(held, i), NEW d \in ChosenIn(held, j)
      PROVE  Begins(c, d) \/ Begins(d, c)
  <2>1. c \in Schedules /\ Choosable(i, c) /\ d \in Schedules
    BY ChosenHeld
  <2>2. PICK q \in Replicas : Begins(d, held[q][j])
    BY ChosenHeld
  <2>3. CASE held[q][j] = {}
    BY <2>2, <2>3, BeginsEmpty
  <2>4. CASE held[q][j] # {}
    <3>1. Based(q, j)
      BY <2>4 DEF Inv, Replica, Held
    <3>2. Begins(c, held[q][j])
      BY <1>4, <2>1, <3>1, LaterHas
    <3>. QED
      BY <1>1, <2>1, <2>2, <3>2, HeldTypes, BeginsCompare
  <2>. QED
    BY <2>3, <2>4
<1>5. CASE v = u
  BY <1>1, <1>2, <1>3, <1>5, ChosenHeld, FullType, BeginsCompare
<1>6. CASE v < u
  BY <1>2, <1>3, <1>4, <1>6
<1>7. CASE u < v
  BY <1>2, <1>3, <1>4, <1>7
<1>8. v < u \/ v = u \/ u < v
  BY Config DEF Views
<1>. QED
  BY <1>5, <1>6, <1>7, <1>8

\* The longest is chosen anew when a replica holds more.
LEMMA AgreedStep ==
  ASSUME Next
  PROVE  agreed' = agreed \/ agreed' = Longest(AllChosen(held'))
<1>1. \A r, s : hold(r, s) => agreed' = agreed \/ agreed' = Longest(AllChosen(held'))
  BY DEF hold, historyVars, AllChosen
<1>2. PICK r \in Replicas :
        \/ \E c \in Clients, w \in Windows : TakeRequest(r, c, w)
        \/ \E w \in Windows : ExpireRequests(r, w)
        \/ Propose(r)
        \/ CommitProposal(r)
        \/ SendHistory(r)
        \/ ReadPrepare(r)
        \/ ReadCommit(r)
        \/ Suspect(r)
        \/ \E v \in Views : Follow(r, v)
        \/ Report(r)
        \/ \E Q \in Quorums : Merge(r, Q) \/ RefuseMerge(r, Q)
        \/ LeaderPublish(r)
        \/ FinishRecovery(r)
        \/ ResendStartView(r)
        \/ \E m \in msgs : PrepareReply(r, m) \/ ReadSnapshot(r, m) \/ InstallStartView(r, m)
  BY DEF Next
<1>3. CASE Propose(r) \/ ReadPrepare(r) \/ \E m \in msgs : ReadSnapshot(r, m)
  BY <1>1, <1>3 DEF Propose, ReadPrepare, ReadSnapshot, historyVars
<1>4. CASE LeaderPublish(r) \/ FinishRecovery(r)
  BY <1>1, <1>4 DEF LeaderPublish, FinishRecovery, publish
<1>5. CASE \/ \E c \in Clients, w \in Windows : TakeRequest(r, c, w)
           \/ \E w \in Windows : ExpireRequests(r, w)
           \/ CommitProposal(r) \/ SendHistory(r) \/ ReadCommit(r)
           \/ \E m \in msgs : PrepareReply(r, m)
  BY <1>5 DEF TakeRequest, ExpireRequests, CommitProposal, SendHistory, ReadCommit, PrepareReply,
              historyVars
<1>6. CASE \/ Suspect(r) \/ \E v \in Views : Follow(r, v)
           \/ \E Q \in Quorums : Merge(r, Q) \/ RefuseMerge(r, Q)
           \/ Report(r) \/ ResendStartView(r) \/ \E m \in msgs : InstallStartView(r, m)
  BY <1>6 DEF Suspect, Follow, Merge, RefuseMerge, beginViewChange, Report, ResendStartView,
              InstallStartView, historyVars
<1>. QED
  BY <1>2, <1>3, <1>4, <1>5, <1>6

\* Over all views, and whatever is lost, repeated or refused on the way, the
\* schedules that quorums hold are one history that only grows at its end.
THEOREM ScheduleRefinement == Spec => ImplementsHistory
<1>1. Init => History!Init
  BY DEF Init, History!Init
<1>2. Inv /\ [Next]_vars /\ Inv' /\ Comparable' => [History!Next]_agreed
  <2>. SUFFICES ASSUME Inv, [Next]_vars, Inv', Comparable'
                PROVE  [History!Next]_agreed
    OBVIOUS
  <2>1. CASE agreed' = agreed
    BY <2>1
  <2>2. CASE agreed' # agreed
    <3>1. Next
      BY <2>2 DEF vars, historyVars
    <3>2. Grow /\ Types /\ Types' /\ agreed \in AllChosen(held)
      BY <3>1, NextInv DEF Inv
    <3>3. /\ held \in [Replicas -> [Views -> Schedules]]
          /\ held' \in [Replicas -> [Views -> Schedules]]
      BY <3>2 DEF Types, HistoryTypes
    <3>4. agreed' = Longest(AllChosen(held'))
      BY <2>2, <3>1, AgreedStep
    <3>5. AllChosen(held') \in SUBSET Schedules /\ AllChosen(held') # {}
      BY <3>3, AllChosenTypes
    <3>6. agreed' \in AllChosen(held') /\ \A b \in AllChosen(held') : LastEnd(b) <= LastEnd(agreed')
      BY <3>4, <3>5, LongestFacts
    <3>7. PICK v \in Views : agreed \in ChosenIn(held, v)
      BY <3>2 DEF AllChosen
    <3>8. PICK j \in ChosenIn(held', v) : Begins(agreed, j)
      BY <3>2, <3>3, <3>7, ChosenGrows DEF Grow
    <3>9. j \in AllChosen(held')
      BY DEF AllChosen
    <3>10. Begins(j, agreed') \/ Begins(agreed', j)
      BY <3>6, <3>9 DEF Comparable, AllChosen, ChosenIn, ChosenEnd
    <3>11. Begins(j, agreed')
      BY <3>5, <3>6, <3>9, <3>10, BeginsByEnd
    <3>12. Begins(agreed, agreed')
      BY <3>8, <3>11, BeginsTrans
    <3>. QED
      BY <2>2, <3>12 DEF Begins, History!Next
  <2>. QED
    BY <2>1, <2>2
<1>. QED
  BY <1>1, <1>2, Invariance, ChosenCompare, PTL DEF Spec, ImplementsHistory, History!Spec

=============================================================================
