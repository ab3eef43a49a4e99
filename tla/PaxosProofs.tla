----------------------------- MODULE PaxosProofs ----------------------------
(***************************************************************************)
(* Proofs about the Paxos baseline, for every number of replicas and of    *)
(* instances, all commands, any leaders, any number of grace periods and   *)
(* of messages on their way.                                               *)
(***************************************************************************)
EXTENDS Paxos, TLAPS, SequenceTheorems, NatFacts

-----------------------------------------------------------------------------
(* Types *)

Commands == UNION {UNION {p.proposals[r] : r \in Replicas} : p \in Plans}
Values == Commands \cup {"nil", "empty", "noop"}

Bookkeeping == [proposals : Commands \cup {"nil"}, prepareOKs : Nat, acceptOKs : Nat, nacks : Nat,
                ballot : Int, cmds : Values, tried : Nat]

Insts == [cmds : Values, bal : Int, vbal : Int,
          status : {"preparing", "prepared", "accepted", "committed"},
          lb : Bookkeeping \cup {NoLB}]

Reps == [inst : [Instances -> Insts \cup {NoInst}], crt : Instances \cup {-1}, maxRecv : Int,
         dflt : [Replicas -> Nat \cup {-1}], smallest : Int, leader : BOOLEAN]

Messages ==
  UNION {[type : {"prepare"}, to : Replicas, from : Replicas, inst : Instances, bal : Nat],
         [type : {"commitShort"}, to : Replicas, from : Replicas, inst : Instances, bal : Int],
         [type : {"accept"}, to : Replicas, from : Replicas, inst : Instances, bal : Nat,
          cmds : Values],
         [type : {"prepareReply"}, to : Replicas, from : Replicas, inst : Instances, bal : Int,
          vbal : Int, dflt : Nat \cup {-1}, cmds : Values],
         [type : {"acceptReply"}, to : Replicas, inst : Instances, bal : Int],
         [type : {"commit"}, to : Replicas, inst : Instances, bal : Int, cmds : Values]}

Types ==
  /\ rep \in [Replicas -> Reps]
  /\ pending \in [Replicas -> SUBSET Commands]
  /\ executed \in [Replicas -> Seq(Values)]
  /\ toRecover \in [Replicas -> Seq(Instances)]
  /\ DOMAIN msgs \subseteq Messages
  /\ contested \subseteq Instances /\ raised \subseteq Instances

-----------------------------------------------------------------------------
(* The invariant *)

Proposer(p, i) == rep[p].inst[i] # NoInst /\ rep[p].inst[i].lb # NoLB
Proposal(p, i) == rep[p].inst[i].lb.proposals

\* p is the only replica that ever proposed something for instance i.
Sole(p, i) == i \notin contested /\ Proposer(p, i)

\* A replica other than the proposer p holds its command.
Held(p, i) ==
  \E q \in Replicas \ {p} : rep[q].inst[i] # NoInst /\ rep[q].inst[i].cmds = Proposal(p, i)

(***************************************************************************)
(* Instances up to crtInstance, and only these, are known to a replica.    *)
(* They have a proposer: whoever first went past an instance proposed it.  *)
(***************************************************************************)
Known ==
  \A r \in Replicas :
    /\ \A i \in Instances :
         /\ rep[r].inst[i] # NoInst => i <= rep[r].crt
         /\ i <= rep[r].crt => \E p \in Replicas : Proposer(p, i)
    /\ \A k \in DOMAIN toRecover[r] : toRecover[r][k] <= rep[r].crt
    /\ Len(executed[r]) <= rep[r].crt + 1

\* Requests come from a proposer of their instance, and answers go to one.
Addressed ==
  \A m \in DOMAIN msgs :
    /\ m.type \in {"prepare", "accept", "commitShort"} => m.to # m.from /\ Proposer(m.from, m.inst)
    /\ m.type = "prepareReply" => m.to # m.from
    /\ m.type \in {"prepareReply", "acceptReply", "commit"} => Proposer(m.to, m.inst)

\* The smallest ballot of replica p from low on.
RoundUp(p, low) == low + ((p - low) % N)

\* No ballot that p uses is higher, before p hears of a higher one; R is its state.
Reach(R, p) == RoundUp(p, IF R.maxRecv >= p THEN R.maxRecv ELSE p)

\* The proposer of an instance that nobody else proposed: it keeps its command
\* and never promised more than it tries.
Proposers ==
  \A p \in Replicas, i \in Instances : Sole(p, i) =>
    /\ \A q \in Replicas : Proposer(q, i) => q = p
    /\ Proposal(p, i) \in Commands /\ rep[p].leader
    /\ rep[p].inst[i].bal <= Reach(rep[p], p) /\ rep[p].inst[i].bal <= rep[p].inst[i].lb.tried

\* Nothing but that command is accepted, held or executed in the instance.
OneCommand ==
  \A p \in Replicas, i \in Instances : Sole(p, i) =>
    /\ \A q \in Replicas :
         /\ rep[q].inst[i] # NoInst => rep[q].inst[i].cmds \in {"nil", Proposal(p, i)}
         /\ i + 1 \in DOMAIN executed[q] => executed[q][i + 1] = Proposal(p, i)
    /\ \A m \in DOMAIN msgs : m.type = "accept" /\ m.inst = i => m.cmds = Proposal(p, i)

\* With one ballot, whoever says that the command is accepted or committed says
\* it after some acceptor has accepted it.
OneBallot ==
  \A p \in Replicas, i \in Instances : Sole(p, i) /\ i \notin raised =>
    /\ \A m \in DOMAIN msgs : m.inst = i =>
         /\ m.type = "accept" => m.bal = rep[p].inst[i].lb.tried
         /\ m.type = "acceptReply" /\ m.bal = rep[p].inst[i].lb.tried => Held(p, i)
         /\ m.type = "commitShort" => Held(p, i)
    /\ \A q \in Replicas :
         rep[q].inst[i] # NoInst /\ rep[q].inst[i].status = "committed" => Held(p, i)

Answers ==
  \A a \in answered :
    /\ a[1] \in Instances
    /\ a[1] \notin contested \cup raised =>
         \E p \in Replicas : /\ Proposer(p, a[1]) /\ Proposal(p, a[1]) = a[2]
                             /\ rep[p].inst[a[1]].cmds = a[2] /\ Held(p, a[1])

\* The default ballot of a replica is within its reach too.
Defaults == \A p \in Replicas : rep[p].dflt[p] <= Reach(rep[p], p)

Inv ==
  /\ Types /\ Known /\ Addressed
  /\ Proposers /\ Defaults /\ OneCommand /\ OneBallot /\ Answers

-----------------------------------------------------------------------------
(* Numbers, messages and types *)

\* The configuration that paxos.go runs in.
LEMMA Config ==
  /\ N \in Nat \ {0} /\ F \in Nat /\ N = 2 * F + 1
  /\ MaxInstances \in Nat \ {0} /\ Leader \in Replicas
  /\ Replicas = 0 .. N - 1 /\ Instances = 0 .. MaxInstances - 1
BY PaxosAssumption DEF Replicas, Instances

\* The larger of two and of three numbers.
LEMMA MaxFacts ==
  /\ \A a, b \in Int : Max({a, b}) = IF a >= b THEN a ELSE b
  /\ \A a, b, c \in Int : /\ Max({a, b, c}) \in {a, b, c}
                          /\ Max({a, b, c}) >= a /\ Max({a, b, c}) >= b /\ Max({a, b, c}) >= c
<1>1. ASSUME NEW a \in Int, NEW b \in Int
      PROVE  Max({a, b}) = IF a >= b THEN a ELSE b
  <2>1. \E x \in {a, b} : \A y \in {a, b} : x >= y
    OBVIOUS
  <2>2. Max({a, b}) \in {a, b} /\ \A y \in {a, b} : Max({a, b}) >= y
    BY <2>1 DEF Max
  <2>. QED
    BY <2>2
<1>2. ASSUME NEW a \in Int, NEW b \in Int, NEW c \in Int
      PROVE  Max({a, b, c}) \in {a, b, c} /\ \A y \in {a, b, c} : Max({a, b, c}) >= y
  <2>1. \E x \in {a, b, c} : \A y \in {a, b, c} : x >= y
    OBVIOUS
  <2>. QED
    BY <2>1 DEF Max
<1>. QED
  BY <1>1, <1>2

\* RoundUp gives the least ballot of p that is not below low.
LEMMA RoundUpFacts ==
  ASSUME NEW p \in Replicas, NEW low \in Int
  PROVE  /\ RoundUp(p, low) \in Int /\ low <= RoundUp(p, low) /\ RoundUp(p, low) < low + N
         /\ \E k \in Int : RoundUp(p, low) = p - N * k
<1>. DEFINE d == p - low
<1>1. d \in Int /\ N \in Nat \ {0} /\ p \in Int
  BY Config
<1>2. (d % N) \in 0 .. N - 1 /\ d = N * (d \div N) + (d % N) /\ (d \div N) \in Int
  <2>. HIDE DEF d
  <2>. QED
    BY <1>1
<1>3. RoundUp(p, low) = low + (d % N)
  BY DEF RoundUp
<1>4. RoundUp(p, low) = p - N * (d \div N)
  BY <1>1, <1>2, <1>3
<1>5. PICK k \in Int : k = d \div N
  BY <1>2
<1>6. PICK e \in 0 .. N - 1 : e = d % N
  BY <1>2
<1>7. RoundUp(p, low) = low + e /\ RoundUp(p, low) = p - N * k
  BY <1>3, <1>4, <1>5, <1>6, Zenon
<1>8. RoundUp(p, low) \in Int /\ low <= RoundUp(p, low) /\ RoundUp(p, low) < low + N
  BY <1>1, <1>7
<1>. QED
  BY <1>7, <1>8

\* A ballot of p that is not below low is not below RoundUp.
LEMMA RoundUpLeast ==
  ASSUME NEW p \in Replicas, NEW low \in Int, NEW high \in Int, low <= RoundUp(p, high)
  PROVE  RoundUp(p, low) <= RoundUp(p, high)
<1>1. PICK a \in Int : RoundUp(p, low) = p - N * a
  BY RoundUpFacts
<1>2. PICK b \in Int : RoundUp(p, high) = p - N * b
  BY RoundUpFacts
<1>3. RoundUp(p, low) < RoundUp(p, high) + N
  <2>1. RoundUp(p, low) \in Int /\ RoundUp(p, low) < low + N
    BY RoundUpFacts
  <2>2. RoundUp(p, high) \in Int /\ N \in Nat
    BY RoundUpFacts, Config
  <2>. QED
    BY <2>1, <2>2
<1>4. p \in Int /\ N \in Nat \ {0} /\ N * a \in Int /\ N * b \in Int
  BY Config
<1>5. N * b - N * a < N
  BY <1>1, <1>2, <1>3, <1>4
<1>6. N * (b - a) < N * 1
  BY <1>4, <1>5
<1>7. b - a < 1
  <2>. SUFFICES ASSUME b - a >= 1 PROVE FALSE
    OBVIOUS
  <2>1. N * (b - a) >= N * 1
    BY <1>4
  <2>. QED
    BY <1>4, <1>6, <2>1
<1>8. N * b <= N * a
  <2>1. PICK e \in Nat : a = b + e
    BY <1>7
  <2>2. N * a = N * b + N * e /\ N * e \in Nat
    BY <1>4, <2>1
  <2>. QED
    BY <1>4, <2>2
<1>. QED
  BY <1>1, <1>2, <1>4, <1>8

\* A replica's reach only grows.
LEMMA ReachGrows ==
  ASSUME NEW p \in Replicas, NEW R \in Reps, NEW S \in Reps, R.maxRecv <= S.maxRecv
  PROVE  Reach(R, p) \in Int /\ S.maxRecv <= Reach(S, p) /\ Reach(R, p) <= Reach(S, p)
<1>1. PICK a \in Int : a = IF R.maxRecv >= p THEN R.maxRecv ELSE p
  BY Config DEF Reps
<1>2. PICK b \in Int : b = IF S.maxRecv >= p THEN S.maxRecv ELSE p
  BY Config DEF Reps
<1>3. a <= b /\ S.maxRecv <= b /\ S.maxRecv \in Int
  BY <1>1, <1>2, Config DEF Reps
<1>4. Reach(R, p) = RoundUp(p, a) /\ Reach(S, p) = RoundUp(p, b)
  BY <1>1, <1>2, Zenon DEF Reach
<1>5. RoundUp(p, a) \in Int /\ RoundUp(p, b) \in Int /\ b <= RoundUp(p, b)
  BY RoundUpFacts
<1>6. a <= RoundUp(p, b)
  BY <1>3, <1>5
<1>7. RoundUp(p, a) <= RoundUp(p, b)
  BY <1>6, RoundUpLeast
<1>. QED
  BY <1>3, <1>4, <1>5, <1>7

(***************************************************************************)
(* makeBallot gives a natural number; a leader's is its reach, if its      *)
(* default ballot is not higher, and is never below what the leader knows. *)
(***************************************************************************)
LEMMA MakeBallotFacts ==
  ASSUME NEW r \in Replicas, NEW R \in Reps
  PROVE  /\ makeBallot(R, r) \in Nat
         /\ R.leader => /\ makeBallot(R, r) >= R.maxRecv /\ makeBallot(R, r) >= R.dflt[r]
                        /\ makeBallot(R, r) >= Reach(R, r)
         /\ R.leader /\ R.dflt[r] <= Reach(R, r) => makeBallot(R, r) <= Reach(R, r)
<1>0. r \in Nat /\ R.dflt[r] \in Int /\ R.maxRecv \in Int
  BY Config DEF Reps
<1>1. PICK low : low = Max({r, R.dflt[r], R.maxRecv})
  OBVIOUS
<1>2. /\ low \in Int /\ low \in {r, R.dflt[r], R.maxRecv}
      /\ low >= r /\ low >= R.dflt[r] /\ low >= R.maxRecv
  <2>1. r \in Int
    BY <1>0
  <2>2. /\ Max({r, R.dflt[r], R.maxRecv}) \in {r, R.dflt[r], R.maxRecv}
        /\ Max({r, R.dflt[r], R.maxRecv}) >= r /\ Max({r, R.dflt[r], R.maxRecv}) >= R.dflt[r]
        /\ Max({r, R.dflt[r], R.maxRecv}) >= R.maxRecv
    BY <1>0, <2>1, MaxFacts, Zenon
  <2>3. /\ low \in {r, R.dflt[r], R.maxRecv}
        /\ low >= r /\ low >= R.dflt[r] /\ low >= R.maxRecv
    BY <1>1, <2>2, Zenon
  <2>. QED
    BY <1>0, <2>3
<1>3. makeBallot(R, r) = IF R.leader THEN RoundUp(r, low) ELSE r
  BY <1>1 DEF makeBallot, RoundUp
<1>4. PICK a \in Int : a = IF R.maxRecv >= r THEN R.maxRecv ELSE r
  BY <1>0
<1>5. Reach(R, r) = RoundUp(r, a)
  BY <1>4, Zenon DEF Reach
<1>6. a <= low
  BY <1>0, <1>2, <1>4
<1>7. RoundUp(r, low) \in Int /\ RoundUp(r, low) >= low
  BY <1>2, RoundUpFacts
<1>8. RoundUp(r, a) \in Int /\ RoundUp(r, a) >= a
  BY RoundUpFacts
<1>9. RoundUp(r, a) <= RoundUp(r, low)
  <2>1. a <= RoundUp(r, low)
    BY <1>2, <1>6, <1>7
  <2>. QED
    BY <1>2, <2>1, RoundUpLeast
<1>10. R.dflt[r] <= RoundUp(r, a) => RoundUp(r, low) <= RoundUp(r, a)
  <2>. SUFFICES ASSUME R.dflt[r] <= RoundUp(r, a) PROVE RoundUp(r, low) <= RoundUp(r, a)
    OBVIOUS
  <2>1. low <= RoundUp(r, a)
    BY <1>0, <1>2, <1>4, <1>8
  <2>. QED
    BY <1>2, <2>1, RoundUpLeast
<1>. QED
  BY <1>0, <1>2, <1>3, <1>5, <1>7, <1>9, <1>10

\* The two kinds of things that instance and bookkeeping may be tell apart.
LEMMA NoneFacts ==
  /\ \A x \in Insts : x # NoInst
  /\ \A l \in Bookkeeping : l # NoLB
<1>1. ASSUME NEW x \in Insts PROVE x # NoInst
  <2>1. x.status # "none" /\ NoInst.status = "none"
    BY DEF Insts, NoInst
  <2>. QED
    BY <2>1
<1>2. ASSUME NEW l \in Bookkeeping PROVE l # NoLB
  <2>1. l.tried \in Nat /\ NoLB.tried = -2
    BY DEF Bookkeeping, NoLB
  <2>. QED
    BY <2>1
<1>. QED
  BY <1>1, <1>2

\* Fields of a replica's state.
LEMMA RepFields ==
  ASSUME NEW R \in Reps
  PROVE  /\ R.crt \in Int /\ R.crt \in Instances \cup {-1} /\ R.maxRecv \in Int /\ R.smallest \in Int
         /\ R.leader \in BOOLEAN /\ R.dflt \in [Replicas -> Nat \cup {-1}]
         /\ R.inst \in [Instances -> Insts \cup {NoInst}]
         /\ \A i \in Instances : R.inst[i] # NoInst => R.inst[i] \in Insts
<1>1. /\ R.crt \in Instances \cup {-1} /\ R.maxRecv \in Int /\ R.smallest \in Int
      /\ R.leader \in BOOLEAN /\ R.dflt \in [Replicas -> Nat \cup {-1}]
      /\ R.inst \in [Instances -> Insts \cup {NoInst}]
  BY DEF Reps
<1>2. R.crt \in Int
  <2>1. Instances \subseteq Int /\ -1 \in Int
    BY Config
  <2>. QED
    BY <1>1, <2>1
<1>3. \A i \in Instances : R.inst[i] # NoInst => R.inst[i] \in Insts
  BY <1>1, Zenon
<1>. QED
  BY <1>1, <1>2, <1>3, Zenon

\* The messages on their way after a handler has sent ms.
LEMMA SendFacts == ASSUME NEW ms, send(ms) PROVE DOMAIN msgs' \subseteq DOMAIN msgs \cup ms
BY DEF send, (+), SetToBag

LEMMA AnswerFacts ==
  ASSUME NEW m, NEW ms, answer(m, ms) PROVE DOMAIN msgs' \subseteq DOMAIN msgs \cup ms
BY DEF answer, (+), (-), SetToBag

\* Fields of a message, by its type.
LEMMA MessageFields ==
  ASSUME NEW m \in Messages
  PROVE  /\ m.to \in Replicas /\ m.inst \in Instances /\ m.bal \in Int
         /\ m.type \in {"prepare", "accept", "commitShort", "prepareReply"} => m.from \in Replicas
         /\ m.type \in {"accept", "commit", "prepareReply"} => m.cmds \in Values
         /\ m.type \in {"prepare", "accept"} => m.bal \in Nat
         /\ m.type = "prepareReply" => m.vbal \in Int /\ m.dflt \in Nat \cup {-1}
BY DEF Messages

-----------------------------------------------------------------------------
(* What a step of a replica may do *)

\* The step makes r a proposer of instance i; R is the state of r after it.
Starts(r, R, i) == ~ Proposer(r, i) /\ R.inst[i] # NoInst /\ R.inst[i].lb # NoLB

\* What is known to r, its ballots and its instances only grow.
Advances(r, R) ==
  /\ R \in Reps
  /\ R.crt >= rep[r].crt /\ R.maxRecv >= rep[r].maxRecv /\ (rep[r].leader => R.leader)
  /\ R.dflt[r] <= Reach(R, r)
  /\ \A i \in Instances :
       /\ rep[r].inst[i] # NoInst => R.inst[i] # NoInst
       /\ Proposer(r, i) => R.inst[i].lb # NoLB
       /\ R.inst[i] # NoInst => i <= R.crt
       /\ i <= R.crt => (\E p \in Replicas : Proposer(p, i)) \/ Starts(r, R, i)

\* The first proposal for an instance.
Opens(r, R, i) ==
  /\ \A q \in Replicas : ~ Proposer(q, i)
  /\ R.inst[i].lb.proposals \in Commands /\ R.leader
  /\ R.inst[i].cmds \in {"nil", R.inst[i].lb.proposals} /\ R.inst[i].status # "committed"

\* What r holds for the instance is what it held, nothing, or a proposer's command.
Takes(r, R, i) ==
  \/ rep[r].inst[i] # NoInst /\ R.inst[i].cmds = rep[r].inst[i].cmds
  \/ rep[r].inst[i] = NoInst /\ R.inst[i].cmds = "nil"
  \/ \E p \in Replicas : Proposer(p, i) /\ R.inst[i].cmds = Proposal(p, i)

\* Whoever proposed the instance, another replica holds the command.
Accepted(i) == \A p \in Replicas : Proposer(p, i) => Held(p, i)

Commits(r, R, i) ==
  R.inst[i].status = "committed" =>
    \/ rep[r].inst[i] # NoInst /\ rep[r].inst[i].status = "committed"
    \/ Accepted(i)

\* What the step does to an instance with one proposer.
Treats(r, R, i) ==
  /\ Starts(r, R, i) => Opens(r, R, i)
  /\ Proposer(r, i) => R.inst[i].lb.proposals = Proposal(r, i)
  /\ R.inst[i] # NoInst /\ R.inst[i].lb # NoLB =>
       R.inst[i].bal <= Reach(R, r) /\ R.inst[i].bal <= R.inst[i].lb.tried
  /\ R.inst[i] # NoInst /\ ~ Starts(r, R, i) => Takes(r, R, i) /\ (i \notin raised' => Commits(r, R, i))
  /\ rep[r].inst[i] # NoInst => R.inst[i].bal >= rep[r].inst[i].bal

Behaves(r, R) == \A i \in Instances : i \notin contested' => Treats(r, R, i)

\* What a message m that r sends says.
Truthful(r, R, m) ==
  LET i == m.inst
      x == R.inst[i]
  IN  /\ m \in Messages
      /\ m.type \in {"prepare", "accept", "commitShort"} =>
           m.from = r /\ m.to # r /\ x # NoInst /\ x.lb # NoLB
      /\ m.type = "accept" => m.bal = x.lb.tried /\ (i \notin contested' => m.cmds = x.lb.proposals)
      /\ m.type = "commitShort" /\ i \notin contested' \cup raised' => Proposer(r, i) /\ Accepted(i)
      /\ m.type = "prepareReply" => m.to # m.from
      /\ m.type \in {"prepareReply", "acceptReply", "commit"} => Proposer(m.to, i)
      /\ m.type = "acceptReply" /\ i \notin contested' \cup raised' =>
           \A p \in Replicas : Proposer(p, i) /\ m.bal = rep[p].inst[i].lb.tried =>
             Held(p, i) \/ (p # r /\ x # NoInst /\ x.cmds = Proposal(p, i))

\* A step of replica r that sends ms.
Step(r, R, ms) ==
  /\ become(r, R)
  /\ DOMAIN msgs' \subseteq DOMAIN msgs \cup ms
  /\ contested \subseteq contested' /\ contested' \subseteq Instances
  /\ pending' \in [Replicas -> SUBSET Commands]
  /\ toRecover' \in [Replicas -> Seq(Instances)]
  /\ \A q \in Replicas : \A k \in DOMAIN toRecover'[q] : toRecover'[q][k] <= rep'[q].crt
  /\ UNCHANGED <<executed, answered>>
  /\ Advances(r, R) /\ Behaves(r, R)
  /\ \A m \in ms : Truthful(r, R, m)

-----------------------------------------------------------------------------
(* Such a step keeps the invariant *)

\* Who proposes what before and after a step.
LEMMA StepProposers ==
  ASSUME Inv, NEW r \in Replicas, NEW R, NEW ms, Step(r, R, ms)
  PROVE  /\ rep' \in [Replicas -> Reps] /\ rep'[r] = R
         /\ \A q \in Replicas : q # r => rep'[q] = rep[q]
         /\ \A p \in Replicas, i \in Instances :
              /\ Proposer(p, i) => Proposer(p, i)'
              /\ Proposer(p, i)' => Proposer(p, i) \/ (p = r /\ Starts(r, R, i))
              /\ Proposer(p, i) /\ i \notin contested' => Proposal(p, i)' = Proposal(p, i)
<1>1. /\ rep' \in [Replicas -> Reps] /\ rep'[r] = R
      /\ \A q \in Replicas : q # r => rep'[q] = rep[q]
  BY DEF Step, become, Advances, Inv, Types
<1>2. ASSUME NEW p \in Replicas, NEW i \in Instances
      PROVE  /\ Proposer(p, i) => Proposer(p, i)'
             /\ Proposer(p, i)' => Proposer(p, i) \/ (p = r /\ Starts(r, R, i))
             /\ Proposer(p, i) /\ i \notin contested' => Proposal(p, i)' = Proposal(p, i)
  <2>1. CASE p = r
    BY <1>1, <2>1 DEF Step, Advances, Behaves, Treats, Proposer, Proposal, Starts
  <2>2. CASE p # r
    BY <1>1, <2>2 DEF Proposer, Proposal
  <2>. QED
    BY <2>1, <2>2
<1>. QED
  BY <1>1, <1>2

\* A command that was proposed first in this step is new to everybody.
LEMMA StepOpens ==
  ASSUME Inv, NEW i \in Instances, \A q \in Replicas : ~ Proposer(q, i)
  PROVE  /\ \A q \in Replicas : rep[q].inst[i] = NoInst /\ i + 1 \notin DOMAIN executed[q]
         /\ \A m \in DOMAIN msgs : m.inst # i
<1>1. ASSUME NEW q \in Replicas PROVE rep[q].inst[i] = NoInst /\ i + 1 \notin DOMAIN executed[q]
  <2>1. ~ (i <= rep[q].crt) /\ Len(executed[q]) <= rep[q].crt + 1
    BY DEF Inv, Known
  <2>2. rep[q].inst[i] = NoInst
    BY <2>1 DEF Inv, Known
  <2>3. rep[q].crt \in Int /\ i \in Int /\ executed[q] \in Seq(Values)
    <3>1. rep[q] \in Reps /\ executed[q] \in Seq(Values)
      BY DEF Inv, Types
    <3>. QED
      BY <3>1, RepFields, Config
  <2>4. DOMAIN executed[q] = 1 .. Len(executed[q]) /\ Len(executed[q]) \in Nat
    BY <2>3
  <2>. QED
    BY <2>1, <2>2, <2>3, <2>4
<1>2. ASSUME NEW m \in DOMAIN msgs PROVE m.inst # i
  <2>1. m \in Messages
    BY DEF Inv, Types
  <2>2. m.type \in {"prepare", "accept", "commitShort", "prepareReply", "acceptReply", "commit"}
    BY <2>1 DEF Messages
  <2>3. m.to \in Replicas /\ (m.type \in {"prepare", "accept", "commitShort"} => m.from \in Replicas)
    BY <2>1, MessageFields
  <2>. QED
    BY <2>2, <2>3 DEF Inv, Addressed
<1>. QED
  BY <1>1, <1>2

\* An instance with one proposer had it before, or it is new.
LEMMA StepSole ==
  ASSUME Inv, NEW r \in Replicas, NEW R, NEW ms, Step(r, R, ms),
         NEW p \in Replicas, NEW i \in Instances, Sole(p, i)'
  PROVE  \/ /\ Sole(p, i) /\ ~ Starts(r, R, i) /\ Proposal(p, i)' = Proposal(p, i)
            /\ \A q \in Replicas : Proposer(q, i) => q = p
         \/ /\ p = r /\ Starts(r, R, i) /\ Opens(r, R, i)
            /\ \A q \in Replicas : rep[q].inst[i] = NoInst /\ i + 1 \notin DOMAIN executed[q]
            /\ \A m \in DOMAIN msgs : m.inst # i
<1>1. i \notin contested' /\ i \notin contested /\ Proposer(p, i)'
  BY DEF Sole, Step
<1>2. Starts(r, R, i) => Opens(r, R, i)
  BY <1>1 DEF Step, Behaves, Treats
<1>3. CASE Starts(r, R, i)
  <2>1. Opens(r, R, i) /\ \A q \in Replicas : ~ Proposer(q, i)
    BY <1>2, <1>3 DEF Opens
  <2>2. p = r
    BY <1>1, <2>1, StepProposers
  <2>. QED
    BY <1>3, <2>1, <2>2, StepOpens
<1>4. CASE ~ Starts(r, R, i)
  <2>1. Proposer(p, i) /\ Proposal(p, i)' = Proposal(p, i)
    BY <1>1, <1>4, StepProposers
  <2>2. Sole(p, i)
    BY <1>1, <2>1 DEF Sole
  <2>. QED
    BY <1>4, <2>1, <2>2 DEF Inv, Proposers
<1>. QED
  BY <1>3, <1>4

\* What is accepted stays accepted.
LEMMA StepHeld ==
  ASSUME Inv, NEW r \in Replicas, NEW R, NEW ms, Step(r, R, ms),
         NEW p \in Replicas, NEW i \in Instances, Sole(p, i), i \notin contested', Held(p, i)
  PROVE  Held(p, i)'
<1>1. PICK q \in Replicas \ {p} : rep[q].inst[i] # NoInst /\ rep[q].inst[i].cmds = Proposal(p, i)
  BY DEF Held
<1>2. Proposal(p, i)' = Proposal(p, i) /\ \A s \in Replicas : Proposer(s, i) => s = p
  BY StepProposers DEF Sole, Inv, Proposers
<1>3. CASE q # r
  <2>1. rep'[q] = rep[q]
    BY <1>3, StepProposers
  <2>. QED
    BY <1>1, <1>2, <2>1 DEF Held
<1>4. CASE q = r
  <2>1. rep'[r] = R /\ R.inst[i] # NoInst
    BY <1>1, <1>4, StepProposers DEF Step, Advances
  <2>2. ~ Starts(r, R, i)
    BY DEF Step, Behaves, Treats, Opens, Sole
  <2>3. Takes(r, R, i)
    BY <2>1, <2>2 DEF Step, Behaves, Treats
  <2>4. R.inst[i].cmds = Proposal(p, i)
    BY <1>1, <1>2, <1>4, <2>3 DEF Takes
  <2>. QED
    BY <1>1, <1>2, <1>4, <2>1, <2>4 DEF Held
<1>. QED
  BY <1>3, <1>4

\* Types.
LEMMA StepTypes ==
  ASSUME Inv, NEW r \in Replicas, NEW R, NEW ms, Step(r, R, ms)
  PROVE  Types' /\ Known' /\ Defaults'
<1>0. /\ rep \in [Replicas -> Reps] /\ rep' \in [Replicas -> Reps] /\ rep'[r] = R
      /\ \A q \in Replicas : q # r => rep'[q] = rep[q]
  BY StepProposers DEF Inv, Types
<1>1. Types'
  <2>1. DOMAIN msgs' \subseteq Messages
    BY DEF Step, Truthful, Inv, Types
  <2>2. raised' \subseteq Instances
    BY DEF Step, become, Inv, Types
  <2>3. executed' \in [Replicas -> Seq(Values)]
    BY DEF Step, Inv, Types
  <2>. QED
    BY <1>0, <2>1, <2>2, <2>3 DEF Step, Types
<1>2. Known'
  <2>. SUFFICES ASSUME NEW q \in Replicas
                PROVE  /\ \A i \in Instances :
                            /\ rep'[q].inst[i] # NoInst => i <= rep'[q].crt
                            /\ i <= rep'[q].crt => \E p \in Replicas : Proposer(p, i)'
                       /\ \A k \in DOMAIN toRecover'[q] : toRecover'[q][k] <= rep'[q].crt
                       /\ Len(executed'[q]) <= rep'[q].crt + 1
    BY Zenon DEF Known
  <2>1. ASSUME NEW i \in Instances
        PROVE  /\ rep'[q].inst[i] # NoInst => i <= rep'[q].crt
               /\ i <= rep'[q].crt => \E p \in Replicas : Proposer(p, i)'
    <3>1. rep'[q].inst[i] # NoInst => i <= rep'[q].crt
      BY <1>0 DEF Step, Advances, Inv, Known
    <3>2. ASSUME i <= rep'[q].crt PROVE \E p \in Replicas : Proposer(p, i)'
      <4>1. (\E p \in Replicas : Proposer(p, i)) \/ Starts(r, R, i)
        BY <1>0, <3>2 DEF Step, Advances, Inv, Known
      <4>2. Starts(r, R, i) => Proposer(r, i)'
        BY <1>0 DEF Starts, Proposer
      <4>. QED
        BY <4>1, <4>2, StepProposers
    <3>. QED
      BY <3>1, <3>2
  <2>2. Len(executed'[q]) <= rep'[q].crt + 1
    <3>1. rep'[q].crt >= rep[q].crt
      <4>1. rep[q].crt \in Int
        BY <1>0, RepFields
      <4>. QED
        BY <1>0, <4>1 DEF Step, Advances
    <3>2. rep[q].crt \in Int /\ rep'[q].crt \in Int
      BY <1>0, RepFields
    <3>3. executed'[q] = executed[q] /\ Len(executed[q]) <= rep[q].crt + 1 /\ Len(executed[q]) \in Nat
      BY DEF Step, Inv, Known, Types
    <3>. QED
      BY <3>1, <3>2, <3>3
  <2>. QED
    BY <2>1, <2>2 DEF Step
<1>3. Defaults'
  <2>. SUFFICES ASSUME NEW q \in Replicas PROVE rep'[q].dflt[q] <= Reach(rep'[q], q)
    BY DEF Defaults, Reach, RoundUp
  <2>. QED
    BY <1>0 DEF Step, Advances, Inv, Defaults
<1>. QED
  BY <1>1, <1>2, <1>3

\* Messages come from proposers and go to proposers.
LEMMA StepAddressed ==
  ASSUME Inv, NEW r \in Replicas, NEW R, NEW ms, Step(r, R, ms)
  PROVE  Addressed'
<1>. SUFFICES ASSUME NEW m \in DOMAIN msgs'
              PROVE  /\ m.type \in {"prepare", "accept", "commitShort"} =>
                          m.to # m.from /\ Proposer(m.from, m.inst)'
                     /\ m.type = "prepareReply" => m.to # m.from
                     /\ m.type \in {"prepareReply", "acceptReply", "commit"} => Proposer(m.to, m.inst)'
  BY Zenon DEF Addressed
<1>1. m \in Messages /\ (m \in DOMAIN msgs \/ m \in ms)
  BY StepTypes DEF Types, Step
<1>2. /\ m.to \in Replicas /\ m.inst \in Instances
      /\ m.type \in {"prepare", "accept", "commitShort"} => m.from \in Replicas
  BY <1>1, MessageFields
<1>3. CASE m \in DOMAIN msgs
  BY <1>2, <1>3, StepProposers DEF Inv, Addressed
<1>4. CASE m \in ms
  <2>1. Truthful(r, R, m)
    BY <1>4 DEF Step
  <2>2. m.type \in {"prepare", "accept", "commitShort"} => m.from = r /\ Proposer(r, m.inst)'
    <3>1. rep'[r] = R
      BY StepProposers
    <3>. QED
      BY <2>1, <3>1 DEF Truthful, Proposer
  <2>. QED
    BY <1>2, <2>1, <2>2, StepProposers DEF Truthful
<1>. QED
  BY <1>1, <1>3, <1>4

\* Proposers keep their command and stay ahead of what they promised.
LEMMA StepProposal ==
  ASSUME Inv, NEW r \in Replicas, NEW R, NEW ms, Step(r, R, ms)
  PROVE  Proposers'
<1>. SUFFICES ASSUME NEW p \in Replicas, NEW i \in Instances, Sole(p, i)'
              PROVE  /\ \A q \in Replicas : Proposer(q, i)' => q = p
                     /\ Proposal(p, i)' \in Commands /\ rep'[p].leader
                     /\ rep'[p].inst[i].bal <= Reach(rep'[p], p)
                     /\ rep'[p].inst[i].bal <= rep'[p].inst[i].lb.tried
  BY Zenon DEF Proposers, Reach, RoundUp
<1>0. /\ rep'[r] = R /\ \A q \in Replicas : q # r => rep'[q] = rep[q]
      /\ i \notin contested' /\ Proposer(p, i)'
  BY StepProposers DEF Sole
<1>1. /\ \A q \in Replicas : Proposer(q, i)' => q = p
      /\ Proposal(p, i)' \in Commands /\ rep'[p].leader
  <2>1. CASE Starts(r, R, i)
    <3>1. p = r /\ Opens(r, R, i)
      BY <2>1, StepSole
    <3>2. Proposal(p, i)' = R.inst[i].lb.proposals
      BY <1>0, <3>1 DEF Proposal
    <3>. QED
      BY <1>0, <3>1, <3>2, StepProposers DEF Opens
  <2>2. CASE ~ Starts(r, R, i)
    <3>1. Sole(p, i) /\ Proposal(p, i)' = Proposal(p, i) /\ \A q \in Replicas : Proposer(q, i) => q = p
      BY <2>2, StepSole
    <3>2. Proposal(p, i) \in Commands /\ rep[p].leader
      BY <3>1 DEF Inv, Proposers
    <3>3. rep'[p].leader
      BY <1>0, <3>2 DEF Step, Advances
    <3>. QED
      BY <2>2, <3>1, <3>2, <3>3, StepProposers
  <2>. QED
    BY <2>1, <2>2
<1>2. /\ rep'[p].inst[i].bal <= Reach(rep'[p], p)
      /\ rep'[p].inst[i].bal <= rep'[p].inst[i].lb.tried
  <2>1. CASE p = r
    BY <1>0, <2>1 DEF Step, Behaves, Treats, Proposer
  <2>2. CASE p # r
    <3>1. Sole(p, i)
      BY <2>2, StepSole
    <3>. QED
      BY <1>0, <2>2, <3>1 DEF Inv, Proposers
  <2>. QED
    BY <2>1, <2>2
<1>. QED
  BY <1>1, <1>2

\* Nothing but the proposer's command is held, sent or executed.
LEMMA StepCommand ==
  ASSUME Inv, NEW r \in Replicas, NEW R, NEW ms, Step(r, R, ms)
  PROVE  OneCommand'
<1>. SUFFICES ASSUME NEW p \in Replicas, NEW i \in Instances, Sole(p, i)'
              PROVE  /\ \A q \in Replicas :
                          /\ rep'[q].inst[i] # NoInst => rep'[q].inst[i].cmds \in {"nil", Proposal(p, i)'}
                          /\ i + 1 \in DOMAIN executed'[q] => executed'[q][i + 1] = Proposal(p, i)'
                     /\ \A m \in DOMAIN msgs' : m.type = "accept" /\ m.inst = i => m.cmds = Proposal(p, i)'
  BY Zenon DEF OneCommand
<1>0. /\ rep'[r] = R /\ \A q \in Replicas : q # r => rep'[q] = rep[q]
      /\ i \notin contested' /\ executed' = executed
      /\ \A m \in DOMAIN msgs' : m \in DOMAIN msgs \/ (m \in ms /\ Truthful(r, R, m))
  BY StepProposers DEF Sole, Step
<1>1. ASSUME NEW m \in ms, Truthful(r, R, m), m.type = "accept", m.inst = i
      PROVE  m.cmds = Proposal(p, i)'
  <2>1. m.cmds = R.inst[i].lb.proposals /\ Proposer(r, i)'
    BY <1>0, <1>1 DEF Truthful, Proposer
  <2>2. r = p
    BY <2>1, StepProposal DEF Proposers
  <2>. QED
    BY <1>0, <2>1, <2>2 DEF Proposal
<1>2. CASE Starts(r, R, i)
  <2>1. /\ p = r /\ Opens(r, R, i)
        /\ \A q \in Replicas : rep[q].inst[i] = NoInst /\ i + 1 \notin DOMAIN executed[q]
        /\ \A m \in DOMAIN msgs : m.inst # i
    BY <1>2, StepSole
  <2>2. Proposal(p, i)' = R.inst[i].lb.proposals
    BY <1>0, <2>1 DEF Proposal
  <2>3. ASSUME NEW q \in Replicas
        PROVE  /\ rep'[q].inst[i] # NoInst => rep'[q].inst[i].cmds \in {"nil", Proposal(p, i)'}
               /\ i + 1 \in DOMAIN executed'[q] => executed'[q][i + 1] = Proposal(p, i)'
    BY <1>0, <2>1, <2>2 DEF Opens
  <2>. QED
    BY <1>0, <1>1, <2>1, <2>3
<1>3. CASE ~ Starts(r, R, i)
  <2>1. Sole(p, i) /\ Proposal(p, i)' = Proposal(p, i) /\ \A q \in Replicas : Proposer(q, i) => q = p
    BY <1>3, StepSole
  <2>2. /\ \A q \in Replicas :
             /\ rep[q].inst[i] # NoInst => rep[q].inst[i].cmds \in {"nil", Proposal(p, i)}
             /\ i + 1 \in DOMAIN executed[q] => executed[q][i + 1] = Proposal(p, i)
        /\ \A m \in DOMAIN msgs : m.type = "accept" /\ m.inst = i => m.cmds = Proposal(p, i)
    BY <2>1 DEF Inv, OneCommand
  <2>3. R.inst[i] # NoInst => R.inst[i].cmds \in {"nil", Proposal(p, i)}
    <3>1. R.inst[i] # NoInst => Takes(r, R, i)
      BY <1>0, <1>3 DEF Step, Behaves, Treats
    <3>. QED
      BY <2>1, <2>2, <3>1 DEF Takes
  <2>4. ASSUME NEW q \in Replicas
        PROVE  /\ rep'[q].inst[i] # NoInst => rep'[q].inst[i].cmds \in {"nil", Proposal(p, i)'}
               /\ i + 1 \in DOMAIN executed'[q] => executed'[q][i + 1] = Proposal(p, i)'
    BY <1>0, <2>1, <2>2, <2>3
  <2>. QED
    BY <1>0, <1>1, <2>1, <2>2, <2>4
<1>. QED
  BY <1>2, <1>3

\* A ballot that was not given up stays the one of the instance.
LEMMA StepTried ==
  ASSUME Inv, NEW r \in Replicas, NEW R, NEW ms, Step(r, R, ms),
         NEW p \in Replicas, NEW i \in Instances, Proposer(p, i), i \notin raised'
  PROVE  i \notin raised /\ rep'[p].inst[i].lb.tried = rep[p].inst[i].lb.tried
<1>1. rep'[r] = R /\ \A q \in Replicas : q # r => rep'[q] = rep[q]
  BY StepProposers
<1>2. raised' = raised \cup {k \in Instances : /\ rep[r].inst[k] # NoInst /\ rep[r].inst[k].lb # NoLB
                                              /\ R.inst[k].lb.tried # rep[r].inst[k].lb.tried}
  BY DEF Step, become
<1>. QED
  BY <1>1, <1>2 DEF Proposer

\* What is said of one ballot stays true.
LEMMA StepBallot ==
  ASSUME Inv, NEW r \in Replicas, NEW R, NEW ms, Step(r, R, ms)
  PROVE  OneBallot'
<1>. SUFFICES ASSUME NEW p \in Replicas, NEW i \in Instances, Sole(p, i)', i \notin raised'
              PROVE  /\ \A m \in DOMAIN msgs' : m.inst = i =>
                          /\ m.type = "accept" => m.bal = rep'[p].inst[i].lb.tried
                          /\ m.type = "acceptReply" /\ m.bal = rep'[p].inst[i].lb.tried => Held(p, i)'
                          /\ m.type = "commitShort" => Held(p, i)'
                     /\ \A q \in Replicas :
                          rep'[q].inst[i] # NoInst /\ rep'[q].inst[i].status = "committed" => Held(p, i)'
  BY Zenon DEF OneBallot
<1>0. /\ rep'[r] = R /\ \A q \in Replicas : q # r => rep'[q] = rep[q]
      /\ i \notin contested'
      /\ \A m \in DOMAIN msgs' : m \in DOMAIN msgs \/ (m \in ms /\ Truthful(r, R, m))
  BY StepProposers DEF Sole, Step
<1>1. ASSUME NEW m \in ms, Truthful(r, R, m), m.type = "accept", m.inst = i
      PROVE  m.bal = rep'[p].inst[i].lb.tried
  <2>1. m.bal = R.inst[i].lb.tried /\ Proposer(r, i)'
    BY <1>0, <1>1 DEF Truthful, Proposer
  <2>2. r = p
    BY <2>1, StepProposal DEF Proposers
  <2>. QED
    BY <1>0, <2>1, <2>2
<1>2. CASE Starts(r, R, i)
  <2>1. /\ p = r /\ Opens(r, R, i)
        /\ \A q \in Replicas : rep[q].inst[i] = NoInst
        /\ \A m \in DOMAIN msgs : m.inst # i
    BY <1>2, StepSole
  <2>2. ASSUME NEW m \in ms, Truthful(r, R, m), m.inst = i
        PROVE  m.type \notin {"acceptReply", "commitShort"}
    <3>1. m.type = "acceptReply" => Proposer(m.to, i)
      BY <2>2 DEF Truthful
    <3>2. m.type = "commitShort" => Proposer(r, i)
      BY <1>0, <2>2 DEF Truthful
    <3>3. m.to \in Replicas
      BY <2>2, MessageFields DEF Truthful
    <3>. QED
      BY <2>1, <3>1, <3>2, <3>3 DEF Opens
  <2>. QED
    BY <1>0, <1>1, <2>1, <2>2 DEF Opens
<1>3. CASE ~ Starts(r, R, i)
  <2>1. Sole(p, i) /\ Proposal(p, i)' = Proposal(p, i) /\ \A q \in Replicas : Proposer(q, i) => q = p
    BY <1>3, StepSole
  <2>2. i \notin raised /\ rep'[p].inst[i].lb.tried = rep[p].inst[i].lb.tried
    BY <2>1, StepTried DEF Sole
  <2>3. /\ \A m \in DOMAIN msgs : m.inst = i =>
             /\ m.type = "accept" => m.bal = rep[p].inst[i].lb.tried
             /\ m.type = "acceptReply" /\ m.bal = rep[p].inst[i].lb.tried => Held(p, i)
             /\ m.type = "commitShort" => Held(p, i)
        /\ \A q \in Replicas :
             rep[q].inst[i] # NoInst /\ rep[q].inst[i].status = "committed" => Held(p, i)
    BY <2>1, <2>2 DEF Inv, OneBallot
  <2>4. Held(p, i) => Held(p, i)'
    BY <1>0, <2>1, StepHeld
  <2>5. Accepted(i) => Held(p, i)
    BY <2>1 DEF Accepted, Sole
  <2>6. ASSUME NEW m \in ms, Truthful(r, R, m), m.inst = i
        PROVE  /\ m.type = "acceptReply" /\ m.bal = rep'[p].inst[i].lb.tried => Held(p, i)'
               /\ m.type = "commitShort" => Held(p, i)'
    <3>1. m.type = "commitShort" => Accepted(i)
      BY <1>0, <2>6 DEF Truthful
    <3>2. ASSUME m.type = "acceptReply", m.bal = rep'[p].inst[i].lb.tried PROVE Held(p, i)'
      <4>1. Held(p, i) \/ (p # r /\ R.inst[i] # NoInst /\ R.inst[i].cmds = Proposal(p, i))
        BY <1>0, <2>1, <2>2, <2>6, <3>2 DEF Truthful, Sole
      <4>2. p # r /\ R.inst[i] # NoInst /\ R.inst[i].cmds = Proposal(p, i) => Held(p, i)'
        BY <1>0, <2>1 DEF Held
      <4>. QED
        BY <2>4, <4>1, <4>2
    <3>. QED
      BY <2>4, <2>5, <3>1, <3>2
  <2>7. ASSUME NEW q \in Replicas, rep'[q].inst[i] # NoInst, rep'[q].inst[i].status = "committed"
        PROVE  Held(p, i)'
    <3>1. CASE q # r
      BY <1>0, <2>3, <2>4, <2>7, <3>1
    <3>2. CASE q = r
      <4>1. Commits(r, R, i)
        BY <1>0, <1>3, <2>7, <3>2 DEF Step, Behaves, Treats
      <4>. QED
        BY <1>0, <2>3, <2>4, <2>5, <2>7, <3>2, <4>1 DEF Commits
    <3>. QED
      BY <3>1, <3>2
  <2>. QED
    BY <1>0, <1>1, <2>2, <2>3, <2>4, <2>6, <2>7
<1>. QED
  BY <1>2, <1>3

\* Commands whose clients were answered are kept.
LEMMA StepAnswers ==
  ASSUME Inv, NEW r \in Replicas, NEW R, NEW ms, Step(r, R, ms)
  PROVE  Answers'
<1>. SUFFICES ASSUME NEW a \in answered'
              PROVE  /\ a[1] \in Instances
                     /\ a[1] \notin contested' \cup raised' =>
                          \E p \in Replicas : /\ Proposer(p, a[1])' /\ Proposal(p, a[1])' = a[2]
                                              /\ rep'[p].inst[a[1]].cmds = a[2] /\ Held(p, a[1])'
  BY Zenon DEF Answers
<1>1. a \in answered /\ a[1] \in Instances
  BY DEF Step, Inv, Answers
<1>. SUFFICES ASSUME a[1] \notin contested', a[1] \notin raised'
              PROVE  \E p \in Replicas : /\ Proposer(p, a[1])' /\ Proposal(p, a[1])' = a[2]
                                         /\ rep'[p].inst[a[1]].cmds = a[2] /\ Held(p, a[1])'
  BY <1>1
<1>2. PICK i \in Instances : i = a[1]
  BY <1>1
<1>3. i \notin contested /\ i \notin raised /\ i \notin contested'
  BY <1>2 DEF Step, become
<1>4. PICK p \in Replicas : /\ Proposer(p, i) /\ Proposal(p, i) = a[2]
                            /\ rep[p].inst[i].cmds = a[2] /\ Held(p, i)
  BY <1>1, <1>2, <1>3 DEF Inv, Answers
<1>5. Sole(p, i)
  BY <1>3, <1>4 DEF Sole
<1>6. Proposer(p, i)' /\ Proposal(p, i)' = a[2] /\ Held(p, i)'
  BY <1>3, <1>4, <1>5, StepProposers, StepHeld
<1>7. rep'[p].inst[i].cmds = a[2]
  <2>1. CASE p # r
    BY <1>4, <2>1, StepProposers
  <2>2. CASE p = r
    <3>1. rep'[r] = R /\ R.inst[i] # NoInst /\ ~ Starts(r, R, i)
      BY <1>4, <2>2, StepProposers DEF Step, Advances, Proposer, Starts
    <3>2. Takes(r, R, i)
      BY <1>3, <3>1 DEF Step, Behaves, Treats
    <3>3. \A q \in Replicas : Proposer(q, i) => q = p
      BY <1>5 DEF Inv, Proposers
    <3>. QED
      BY <1>4, <2>2, <3>1, <3>2, <3>3 DEF Takes, Proposer
  <2>. QED
    BY <2>1, <2>2
<1>. QED
  BY <1>2, <1>6, <1>7

\* A step of a replica keeps the invariant, and no ballot goes down.
LEMMA StepInv ==
  ASSUME Inv, NEW r \in Replicas, NEW R, NEW ms, Step(r, R, ms)
  PROVE  /\ Inv'
         /\ \A q \in Replicas, i \in Instances :
              rep[q].inst[i] # NoInst /\ i \notin contested' => rep'[q].inst[i].bal >= rep[q].inst[i].bal
<1>1. Inv'
  BY StepTypes, StepAddressed, StepProposal, StepCommand, StepBallot, StepAnswers DEF Inv
<1>2. ASSUME NEW q \in Replicas, NEW i \in Instances, rep[q].inst[i] # NoInst, i \notin contested'
      PROVE  rep'[q].inst[i].bal >= rep[q].inst[i].bal
  <2>1. CASE q = r
    <3>1. rep'[r] = R /\ Treats(r, R, i)
      BY <1>2, StepProposers DEF Step, Behaves
    <3>. QED
      BY <1>2, <2>1, <3>1 DEF Treats
  <2>2. CASE q # r
    <3>1. rep[q] \in Reps /\ rep'[q] = rep[q]
      BY <2>2, StepProposers DEF Inv, Types
    <3>2. rep[q].inst[i].bal \in Int
      BY <1>2, <3>1, RepFields DEF Insts
    <3>. QED
      BY <3>1, <3>2
  <2>. QED
    BY <2>1, <2>2
<1>. QED
  BY <1>1, <1>2

-----------------------------------------------------------------------------
(* What makes a handler such a step *)

\* What a handler does to an instance k that it changes.
Touches(r, R, k) ==
  /\ R.inst[k] # NoInst /\ k <= R.crt
  /\ Proposer(r, k) => R.inst[k].lb # NoLB
  /\ k \notin contested' => Treats(r, R, k)

\* crtInstance goes to an instance that somebody proposed, or to the next one.
Reaches(r, R) ==
  \/ R.crt = rep[r].crt
  \/ /\ R.crt \in Instances /\ R.crt >= rep[r].crt
     /\ \/ \E p \in Replicas : Proposer(p, R.crt)
        \/ Starts(r, R, R.crt) /\ R.crt <= rep[r].crt + 1

\* The frame of a handler.
Frame(r, R, ms) ==
  /\ become(r, R) /\ DOMAIN msgs' \subseteq DOMAIN msgs \cup ms
  /\ contested \subseteq contested' /\ contested' \subseteq Instances
  /\ pending' \in [Replicas -> SUBSET Commands]
  /\ toRecover' \in [Replicas -> Seq(Instances)]
  /\ \A q \in Replicas : \A k \in DOMAIN toRecover'[q] : toRecover'[q][k] <= rep[q].crt
  /\ UNCHANGED <<executed, answered>>

\* An instance that is left alone.
LEMMA Untouched ==
  ASSUME Inv, NEW r \in Replicas, NEW R \in Reps, R.maxRecv >= rep[r].maxRecv,
         contested \subseteq contested',
         NEW i \in Instances, R.inst[i] = rep[r].inst[i], i \notin contested'
  PROVE  Treats(r, R, i)
<1>1. rep[r] \in Reps /\ i \notin contested
  BY DEF Inv, Types
<1>2. ~ Starts(r, R, i)
  BY DEF Starts, Proposer
<1>3. Proposer(r, i) => R.inst[i].lb.proposals = Proposal(r, i)
  BY DEF Proposal
<1>4. rep[r].maxRecv \in Int /\ R.maxRecv \in Int /\ Reach(rep[r], r) \in Int /\ Reach(R, r) \in Int
      /\ Reach(rep[r], r) <= Reach(R, r)
  <2>1. rep[r].maxRecv \in Int /\ R.maxRecv \in Int
    BY <1>1, RepFields
  <2>2. rep[r].maxRecv <= R.maxRecv /\ R.maxRecv <= R.maxRecv
    BY <2>1
  <2>. QED
    BY <1>1, <2>1, <2>2, ReachGrows
<1>5. rep[r].inst[i] # NoInst => rep[r].inst[i].bal \in Int
  BY <1>1, RepFields DEF Insts
<1>6. R.inst[i] # NoInst /\ R.inst[i].lb # NoLB =>
        R.inst[i].bal <= Reach(R, r) /\ R.inst[i].bal <= R.inst[i].lb.tried
  <2>. SUFFICES ASSUME R.inst[i] # NoInst, R.inst[i].lb # NoLB
                PROVE  R.inst[i].bal <= Reach(R, r) /\ R.inst[i].bal <= R.inst[i].lb.tried
    OBVIOUS
  <2>1. rep[r].inst[i].bal <= Reach(rep[r], r) /\ rep[r].inst[i].bal <= rep[r].inst[i].lb.tried
    BY <1>1 DEF Sole, Proposer, Inv, Proposers
  <2>. QED
    BY <1>4, <1>5, <2>1
<1>7. R.inst[i] # NoInst => Takes(r, R, i) /\ Commits(r, R, i)
  BY DEF Takes, Commits
<1>8. rep[r].inst[i] # NoInst => R.inst[i].bal >= rep[r].inst[i].bal
  BY <1>5
<1>. QED
  BY <1>2, <1>3, <1>6, <1>7, <1>8 DEF Treats

\* A handler that keeps its frame, touches instances as it may and sends what
\* is so makes a step.
LEMMA MakesStep ==
  ASSUME Inv, NEW r \in Replicas, NEW R, NEW ms, Frame(r, R, ms),
         R \in Reps, R.maxRecv >= rep[r].maxRecv, rep[r].leader => R.leader, R.dflt[r] <= Reach(R, r),
         Reaches(r, R),
         \A k \in Instances : R.inst[k] = rep[r].inst[k] \/ Touches(r, R, k),
         \A m \in ms : Truthful(r, R, m)
  PROVE  Step(r, R, ms)
<1>1. rep[r] \in Reps /\ rep \in [Replicas -> Reps]
  BY DEF Inv, Types
<1>2. rep[r].crt \in Int /\ R.crt \in Int /\ Instances \subseteq Int
  BY <1>1, RepFields, Config
<1>3. R.crt >= rep[r].crt
  BY <1>2 DEF Reaches
<1>4. Behaves(r, R)
  BY Untouched DEF Behaves, Touches, Frame
<1>5. ASSUME NEW i \in Instances
      PROVE  /\ rep[r].inst[i] # NoInst => R.inst[i] # NoInst
             /\ Proposer(r, i) => R.inst[i].lb # NoLB
             /\ R.inst[i] # NoInst => i <= R.crt
             /\ i <= R.crt => (\E p \in Replicas : Proposer(p, i)) \/ Starts(r, R, i)
  <2>1. rep[r].inst[i] # NoInst => i <= rep[r].crt
    BY DEF Inv, Known
  <2>2. /\ rep[r].inst[i] # NoInst => R.inst[i] # NoInst
        /\ Proposer(r, i) => R.inst[i].lb # NoLB
    BY DEF Touches, Proposer
  <2>3. R.inst[i] # NoInst => i <= R.crt
    BY <1>2, <1>3, <2>1 DEF Touches
  <2>4. ASSUME i <= R.crt PROVE (\E p \in Replicas : Proposer(p, i)) \/ Starts(r, R, i)
    <3>1. CASE i <= rep[r].crt
      BY <3>1 DEF Inv, Known
    <3>2. CASE i > rep[r].crt
      <4>1. \/ \E p \in Replicas : R.crt \in Instances /\ Proposer(p, R.crt)
            \/ Starts(r, R, R.crt) /\ R.crt <= rep[r].crt + 1
        BY <1>2, <2>4, <3>2 DEF Reaches
      <4>2. ASSUME NEW p \in Replicas, R.crt \in Instances, Proposer(p, R.crt)
            PROVE  \E q \in Replicas : Proposer(q, i)
        <5>1. R.crt <= rep[p].crt
          BY <4>2 DEF Proposer, Inv, Known
        <5>2. rep[p].crt \in Int
          BY <1>1, RepFields
        <5>3. i <= rep[p].crt
          BY <1>2, <2>4, <5>1, <5>2
        <5>. QED
          BY <5>3 DEF Inv, Known
      <4>3. ASSUME Starts(r, R, R.crt), R.crt <= rep[r].crt + 1
            PROVE  Starts(r, R, i)
        <5>1. i = R.crt
          BY <1>2, <2>4, <3>2, <4>3
        <5>. QED
          BY <4>3, <5>1
      <4>. QED
        BY <4>1, <4>2, <4>3
    <3>. QED
      BY <1>2, <3>1, <3>2
  <2>. QED
    BY <2>2, <2>3, <2>4
<1>6. Advances(r, R)
  BY <1>3, <1>5 DEF Advances
<1>7. \A q \in Replicas : \A k \in DOMAIN toRecover'[q] : toRecover'[q][k] <= rep'[q].crt
  <2>. SUFFICES ASSUME NEW q \in Replicas, NEW k \in DOMAIN toRecover'[q]
                PROVE  toRecover'[q][k] <= rep'[q].crt
    OBVIOUS
  <2>1. toRecover'[q][k] <= rep[q].crt /\ toRecover'[q][k] \in Int
    <3>1. toRecover'[q] \in Seq(Instances)
      BY DEF Frame
    <3>2. toRecover'[q][k] \in Instances
      BY <3>1
    <3>. QED
      BY <1>2, <3>2 DEF Frame
  <2>2. rep[q].crt \in Int /\ rep[q].crt <= rep'[q].crt /\ rep'[q].crt \in Int
    <3>1. rep[q].crt \in Int
      BY <1>1, RepFields
    <3>2. rep'[q] = IF q = r THEN R ELSE rep[q]
      BY <1>1 DEF Frame, become
    <3>. QED
      BY <1>2, <1>3, <3>1, <3>2
  <2>. QED
    BY <2>1, <2>2
<1>. QED
  BY <1>4, <1>6, <1>7 DEF Step, Frame

\* The frame of a handler that changes only its replica's state and messages.
LEMMA HandlerFrame ==
  ASSUME Inv, NEW r \in Replicas, NEW R, NEW ms, become(r, R), DOMAIN msgs' \subseteq DOMAIN msgs \cup ms,
         UNCHANGED <<pending, executed, toRecover, contested, answered>>
  PROVE  Frame(r, R, ms)
BY DEF Frame, Inv, Types, Known

-----------------------------------------------------------------------------
(* How handlers change the state of their replica *)

\* R with x for instance i.
With(R, i, x) == [R EXCEPT !.inst = [R.inst EXCEPT ![i] = x]]

LEMMA WithFacts ==
  ASSUME NEW R \in Reps, NEW i \in Instances, NEW x \in Insts
  PROVE  /\ With(R, i, x) \in Reps /\ With(R, i, x).inst[i] = x
         /\ \A k \in Instances : k # i => With(R, i, x).inst[k] = R.inst[k]
         /\ With(R, i, x).crt = R.crt /\ With(R, i, x).maxRecv = R.maxRecv
         /\ With(R, i, x).dflt = R.dflt /\ With(R, i, x).leader = R.leader
         /\ With(R, i, x).smallest = R.smallest
<1>1. R.inst \in [Instances -> Insts \cup {NoInst}]
  BY RepFields
<1>2. [R.inst EXCEPT ![i] = x] \in [Instances -> Insts \cup {NoInst}]
  BY <1>1
<1>3. /\ [R.inst EXCEPT ![i] = x][i] = x
      /\ \A k \in Instances : k # i => [R.inst EXCEPT ![i] = x][k] = R.inst[k]
  BY <1>1
<1>4. PICK f : f = [R.inst EXCEPT ![i] = x]
  OBVIOUS
<1>5. With(R, i, x) = [R EXCEPT !.inst = f]
  BY <1>4 DEF With
<1>. QED
  BY <1>2, <1>3, <1>4, <1>5 DEF Reps

\* The reach of a state that knows no less.
LEMMA SameReach ==
  ASSUME NEW R, NEW S, NEW r, R.maxRecv = S.maxRecv
  PROVE  Reach(R, r) = Reach(S, r)
BY Zenon DEF Reach

\* What a replica knows after it has seen a ballot.
LEMMA SeenFacts ==
  ASSUME Inv, NEW r \in Replicas, NEW b \in Int, NEW S, S = seen(rep[r], b)
  PROVE  /\ rep[r] \in Reps /\ S \in Reps
         /\ S.inst = rep[r].inst /\ S.crt = rep[r].crt /\ S.dflt = rep[r].dflt
         /\ S.leader = rep[r].leader /\ S.smallest = rep[r].smallest
         /\ S.maxRecv >= rep[r].maxRecv /\ S.maxRecv >= b
         /\ Reach(S, r) \in Int /\ b <= Reach(S, r) /\ S.dflt[r] <= Reach(S, r)
         /\ Reach(rep[r], r) <= Reach(S, r)
<1>1. rep[r] \in Reps
  BY DEF Inv, Types
<1>2. rep[r].maxRecv \in Int /\ rep[r].dflt[r] \in Int
  BY <1>1, RepFields
<1>3. PICK h \in Int : h = Max({rep[r].maxRecv, b}) /\ h >= rep[r].maxRecv /\ h >= b
  BY <1>2, MaxFacts
<1>4. S = [rep[r] EXCEPT !.maxRecv = h]
  BY <1>3 DEF seen
<1>5. /\ S \in Reps /\ S.maxRecv = h
      /\ S.inst = rep[r].inst /\ S.crt = rep[r].crt /\ S.dflt = rep[r].dflt
      /\ S.leader = rep[r].leader /\ S.smallest = rep[r].smallest
  BY <1>1, <1>3, <1>4 DEF Reps
<1>6. /\ Reach(rep[r], r) \in Int /\ S.maxRecv <= Reach(S, r) /\ Reach(rep[r], r) <= Reach(S, r)
  BY <1>1, <1>2, <1>3, <1>5, ReachGrows
<1>7. Reach(S, r) \in Int
  BY <1>3, <1>5, ReachGrows
<1>8. rep[r].dflt[r] <= Reach(rep[r], r)
  BY DEF Inv, Defaults
<1>. QED
  BY <1>1, <1>2, <1>3, <1>5, <1>6, <1>7, <1>8

\* Messages that arrive, and what the invariant says of them.
LEMMA Arrived ==
  ASSUME Inv, NEW m, NEW type, arrived(m, type)
  PROVE  /\ m \in DOMAIN msgs /\ m \in Messages /\ m.type = type
         /\ m.to \in Replicas /\ m.inst \in Instances /\ m.bal \in Int
BY MessageFields DEF arrived, BagIn, BagToSet, Inv, Types

\* A proposer's instance, and its bookkeeping.
LEMMA ProposerFacts ==
  ASSUME Inv, NEW p \in Replicas, NEW i \in Instances, Proposer(p, i)
  PROVE  /\ rep[p].inst[i] \in Insts /\ rep[p].inst[i].lb \in Bookkeeping /\ i <= rep[p].crt
         /\ i \notin contested => /\ rep[p].inst[i].bal <= Reach(rep[p], p)
                                  /\ rep[p].inst[i].bal <= rep[p].inst[i].lb.tried
                                  /\ Proposal(p, i) \in Commands
                                  /\ \A q \in Replicas : Proposer(q, i) => q = p
<1>1. rep[p] \in Reps /\ rep[p].inst[i] \in Insts
  BY RepFields DEF Inv, Types, Proposer
<1>2. rep[p].inst[i].lb \in Bookkeeping /\ i <= rep[p].crt
  BY <1>1 DEF Insts, Proposer, Inv, Known
<1>. QED
  BY <1>1, <1>2 DEF Sole, Inv, Proposers

\* A proposer whose bookkeeping for an instance becomes l.
Books(R, i, l) == With(R, i, [R.inst[i] EXCEPT !.lb = l])

LEMMA BooksFacts ==
  ASSUME NEW R \in Reps, NEW i \in Instances, R.inst[i] \in Insts, NEW l \in Bookkeeping
  PROVE  /\ Books(R, i, l) \in Reps
         /\ Books(R, i, l).inst[i] \in Insts /\ Books(R, i, l).inst[i].lb = l
         /\ Books(R, i, l).inst[i].cmds = R.inst[i].cmds /\ Books(R, i, l).inst[i].bal = R.inst[i].bal
         /\ Books(R, i, l).inst[i].vbal = R.inst[i].vbal /\ Books(R, i, l).inst[i].status = R.inst[i].status
         /\ \A k \in Instances : k # i => Books(R, i, l).inst[k] = R.inst[k]
         /\ Books(R, i, l).crt = R.crt /\ Books(R, i, l).maxRecv = R.maxRecv
         /\ Books(R, i, l).dflt = R.dflt /\ Books(R, i, l).leader = R.leader
         /\ Books(R, i, l).smallest = R.smallest
<1>1. PICK x : x = [R.inst[i] EXCEPT !.lb = l]
  OBVIOUS
<1>2. /\ x \in Insts /\ x.lb = l /\ x.cmds = R.inst[i].cmds /\ x.bal = R.inst[i].bal
      /\ x.vbal = R.inst[i].vbal /\ x.status = R.inst[i].status
  BY <1>1 DEF Insts
<1>3. Books(R, i, l) = With(R, i, x)
  BY <1>1 DEF Books
<1>. QED
  BY <1>2, <1>3, WithFacts

\* Bookkeeping alone may change, while the ballot tried stays ahead.
LEMMA TouchesBooks ==
  ASSUME Inv, NEW r \in Replicas, NEW R \in Reps, R.maxRecv >= rep[r].maxRecv, R.crt = rep[r].crt,
         contested \subseteq contested',
         NEW i \in Instances, Proposer(r, i), R.inst[i] # NoInst,
         R.inst[i].cmds = rep[r].inst[i].cmds, R.inst[i].bal = rep[r].inst[i].bal,
         R.inst[i].status = rep[r].inst[i].status, R.inst[i].lb # NoLB,
         i \notin contested => /\ R.inst[i].lb.proposals = Proposal(r, i)
                               /\ rep[r].inst[i].bal <= R.inst[i].lb.tried
  PROVE  Touches(r, R, i)
<1>1. /\ rep[r].inst[i] \in Insts /\ i <= rep[r].crt /\ rep[r].inst[i].bal \in Int
      /\ i \notin contested => rep[r].inst[i].bal <= Reach(rep[r], r)
  BY ProposerFacts DEF Insts
<1>2. Reach(rep[r], r) \in Int /\ Reach(R, r) \in Int /\ Reach(rep[r], r) <= Reach(R, r)
  <2>1. rep[r] \in Reps /\ rep[r].maxRecv \in Int /\ R.maxRecv \in Int
    BY RepFields DEF Inv, Types
  <2>2. rep[r].maxRecv <= R.maxRecv /\ R.maxRecv <= R.maxRecv
    BY <2>1
  <2>. QED
    BY <2>1, <2>2, ReachGrows
<1>3. ASSUME i \notin contested' PROVE Treats(r, R, i)
  <2>1. i \notin contested
    BY <1>3
  <2>2. ~ Starts(r, R, i) /\ rep[r].inst[i] # NoInst
    BY DEF Starts, Proposer
  <2>3. R.inst[i].bal <= Reach(R, r) /\ R.inst[i].bal <= R.inst[i].lb.tried /\ R.inst[i].bal >= rep[r].inst[i].bal
    BY <1>1, <1>2, <2>1
  <2>4. Takes(r, R, i) /\ Commits(r, R, i)
    BY <2>2 DEF Takes, Commits
  <2>. QED
    BY <2>1, <2>2, <2>3, <2>4 DEF Treats
<1>. QED
  BY <1>1, <1>3 DEF Touches

\* Commands are never nil, empty or the no-op.
LEMMA CommandFacts == \A c \in Commands : c \notin {"nil", "empty", "noop"} /\ OnWire(c) = c
<1>. SUFFICES ASSUME NEW p \in Plans, NEW r \in Replicas, NEW c \in p.proposals[r]
              PROVE  c \notin {"nil", "empty", "noop"}
  BY DEF Commands, OnWire
<1>1. p.proposals = [q \in 0..(N - 1) |-> p.proposals[q] \ {"nil", "empty", "noop"}]
  BY PaxosAssumption
<1>2. PICK f : f = p.proposals
  OBVIOUS
<1>3. f = [q \in Replicas |-> f[q] \ {"nil", "empty", "noop"}]
  BY <1>1, <1>2, Zenon DEF Replicas
<1>4. f[r] = f[r] \ {"nil", "empty", "noop"}
  BY <1>3
<1>. QED
  BY <1>2, <1>4

LEMMA OnWireFacts == ASSUME NEW c \in Values PROVE OnWire(c) \in Values
BY DEF OnWire, Values

\* What the broadcasts of a proposer say.
LEMMA PrepareTruthful ==
  ASSUME NEW r \in Replicas, NEW R, NEW i \in Instances, R.inst[i] \in Insts, R.inst[i].lb \in Bookkeeping
  PROVE  \A n \in bcastPrepare(R, r, i) : Truthful(r, R, n)
<1>. SUFFICES ASSUME NEW q \in Replicas \ {r}, NEW n,
                     n = [type |-> "prepare", to |-> q, from |-> r, inst |-> i, bal |-> R.inst[i].lb.tried]
              PROVE  Truthful(r, R, n)
  BY DEF bcastPrepare, Peers
<1>1. R.inst[i].lb.tried \in Nat
  BY DEF Bookkeeping
<1>2. n \in Messages
  BY <1>1 DEF Messages
<1>3. R.inst[i] # NoInst /\ R.inst[i].lb # NoLB
  BY NoneFacts
<1>. QED
  BY <1>2, <1>3 DEF Truthful

LEMMA AcceptTruthful ==
  ASSUME NEW r \in Replicas, NEW R, NEW i \in Instances, R.inst[i] \in Insts, R.inst[i].lb \in Bookkeeping,
         i \notin contested' => R.inst[i].lb.cmds = R.inst[i].lb.proposals /\ R.inst[i].lb.proposals \in Commands
  PROVE  \A n \in bcastAccept(R, r, i) : Truthful(r, R, n)
<1>. SUFFICES ASSUME NEW q \in Replicas \ {r}, NEW n,
                     n = [type |-> "accept", to |-> q, from |-> r, inst |-> i, bal |-> R.inst[i].lb.tried,
                          cmds |-> OnWire(R.inst[i].lb.cmds)]
              PROVE  Truthful(r, R, n)
  BY DEF bcastAccept, Peers
<1>1. R.inst[i].lb.tried \in Nat /\ R.inst[i].lb.cmds \in Values
  BY DEF Bookkeeping
<1>2. n \in Messages
  BY <1>1, OnWireFacts DEF Messages
<1>3. R.inst[i] # NoInst /\ R.inst[i].lb # NoLB
  BY NoneFacts
<1>4. i \notin contested' => OnWire(R.inst[i].lb.cmds) = R.inst[i].lb.proposals
  BY CommandFacts
<1>. QED
  BY <1>2, <1>3, <1>4 DEF Truthful

LEMMA CommitTruthful ==
  ASSUME NEW r \in Replicas, NEW R, NEW i \in Instances, R.inst[i] \in Insts, R.inst[i].lb \in Bookkeeping,
         i \notin contested' \cup raised' => Proposer(r, i) /\ Accepted(i)
  PROVE  \A n \in bcastCommit(R, r, i) : Truthful(r, R, n)
<1>. SUFFICES ASSUME NEW q \in Replicas \ {r}, NEW n,
                     n = [type |-> "commitShort", to |-> q, from |-> r, inst |-> i, bal |-> R.inst[i].bal]
              PROVE  Truthful(r, R, n)
  BY DEF bcastCommit, Peers
<1>1. R.inst[i].bal \in Int
  BY DEF Insts
<1>2. n \in Messages
  BY <1>1 DEF Messages
<1>3. R.inst[i] # NoInst /\ R.inst[i].lb # NoLB
  BY NoneFacts
<1>. QED
  BY <1>2, <1>3 DEF Truthful

\* A handler of a message makes a step.
LEMMA HandlerStep ==
  ASSUME Inv, NEW m, NEW r \in Replicas, NEW R, NEW ms, become(r, R), answer(m, ms),
         UNCHANGED <<pending, executed, toRecover, contested, answered>>,
         R \in Reps, R.maxRecv >= rep[r].maxRecv, R.leader = rep[r].leader, R.dflt[r] <= Reach(R, r),
         Reaches(r, R),
         \A k \in Instances : R.inst[k] = rep[r].inst[k] \/ Touches(r, R, k),
         \A n \in ms : Truthful(r, R, n)
  PROVE  Step(r, R, ms)
<1>1. Frame(r, R, ms)
  BY AnswerFacts, HandlerFrame
<1>. QED
  BY <1>1, MakesStep

-----------------------------------------------------------------------------
(* Handlers of a proposer *)

\* The least default ballot that is known is a number.
LEMMA SmallestFacts == ASSUME NEW R \in Reps PROVE newSmallest(R) \in Int
<1>. DEFINE known == {q \in Replicas : R.dflt[q] # -1}
            T == {R.dflt[q] : q \in known}
<1>1. R.dflt \in [Replicas -> Nat \cup {-1}] /\ R.smallest \in Int
  BY RepFields
<1>2. T \in SUBSET Nat
  BY <1>1
<1>3. ASSUME known # {} PROVE Max({R.smallest, Min(T)}) \in Int
  <2>1. T # {}
    BY <1>3
  <2>2. PICK x \in T : \A y \in T : x <= y
    BY <1>2, <2>1, LeastNatural, Zenon
  <2>3. Min(T) \in T
    <3>. HIDE DEF T
    <3>. QED
      BY <2>2 DEF Min
  <2>4. PICK n : n = Min(T)
    OBVIOUS
  <2>5. n \in Nat
    BY <1>2, <2>3, <2>4, Zenon
  <2>6. Max({R.smallest, n}) \in Int
    BY <1>1, <2>5, MaxFacts
  <2>. QED
    BY <2>4, <2>6, Zenon
<1>4. newSmallest(R) = IF known # {} /\ Cardinality(known) >= ReadQuorumSize - 1
                       THEN Max({R.smallest, Min(T)}) ELSE R.smallest
  BY DEF newSmallest
<1>. QED
  BY <1>1, <1>3, <1>4, Zenon

\* X is S, but for the bookkeeping of instance i, which keeps its proposals,
\* and for the default ballots of replicas other than r.
Booked(S, X, r, i) ==
  /\ X \in Reps /\ X.inst[i] \in Insts /\ X.inst[i].lb \in Bookkeeping
  /\ X.inst[i].lb.proposals = S.inst[i].lb.proposals
  /\ X.inst[i].cmds = S.inst[i].cmds /\ X.inst[i].bal = S.inst[i].bal /\ X.inst[i].status = S.inst[i].status
  /\ \A k \in Instances : k # i => X.inst[k] = S.inst[k]
  /\ X.crt = S.crt /\ X.maxRecv = S.maxRecv /\ X.dflt[r] = S.dflt[r] /\ X.leader = S.leader

LEMMA BooksBooked ==
  ASSUME NEW r, NEW i \in Instances, NEW S, NEW X, Booked(S, X, r, i),
         NEW l \in Bookkeeping, l.proposals = X.inst[i].lb.proposals
  PROVE  Booked(S, Books(X, i, l), r, i) /\ Books(X, i, l).inst[i].lb = l
<1>1. PICK Y : Y = Books(X, i, l)
  OBVIOUS
<1>2. /\ Y \in Reps /\ Y.inst[i] \in Insts /\ Y.inst[i].lb = l
      /\ Y.inst[i].cmds = X.inst[i].cmds /\ Y.inst[i].bal = X.inst[i].bal /\ Y.inst[i].status = X.inst[i].status
      /\ \A k \in Instances : k # i => Y.inst[k] = X.inst[k]
      /\ Y.crt = X.crt /\ Y.maxRecv = X.maxRecv /\ Y.dflt = X.dflt /\ Y.leader = X.leader
  BY <1>1, BooksFacts DEF Booked
<1>. QED
  BY <1>1, <1>2 DEF Booked

\* A proposer of i that saw a ballot: S is its state then.
LEMMA ProposerSeen ==
  ASSUME Inv, NEW r \in Replicas, NEW i \in Instances, Proposer(r, i), NEW b \in Int,
         NEW S, S = seen(rep[r], b)
  PROVE  /\ Booked(S, S, r, i)
         /\ S.inst[i] = rep[r].inst[i] /\ S.inst[i].bal \in Int /\ S.inst[i].lb.proposals = Proposal(r, i)
         /\ i \notin contested => /\ S.inst[i].bal <= Reach(S, r) /\ S.inst[i].bal <= S.inst[i].lb.tried
                                  /\ Proposal(r, i) \in Commands
<1>1. /\ S \in Reps /\ rep[r] \in Reps
      /\ S.inst = rep[r].inst /\ Reach(S, r) \in Int /\ Reach(rep[r], r) <= Reach(S, r)
  BY SeenFacts
<1>2. /\ rep[r].inst[i] \in Insts /\ rep[r].inst[i].lb \in Bookkeeping
      /\ i \notin contested => /\ rep[r].inst[i].bal <= Reach(rep[r], r)
                               /\ rep[r].inst[i].bal <= rep[r].inst[i].lb.tried
                               /\ Proposal(r, i) \in Commands
  BY ProposerFacts
<1>3. rep[r].inst[i].bal \in Int
  BY <1>2 DEF Insts
<1>4. Reach(rep[r], r) \in Int
  <2>1. rep[r].maxRecv \in Int
    BY <1>1, RepFields
  <2>2. rep[r].maxRecv <= rep[r].maxRecv
    BY <2>1
  <2>. QED
    BY <1>1, <2>2, ReachGrows
<1>. QED
  BY <1>1, <1>2, <1>3, <1>4 DEF Booked, Proposal

\* A handler that saw a ballot and changes bookkeeping makes a step.
LEMMA BookedStep ==
  ASSUME Inv, NEW r \in Replicas, NEW i \in Instances, Proposer(r, i), NEW b \in Int,
         NEW S, S = seen(rep[r], b), NEW X, Booked(S, X, r, i),
         i \notin contested => S.inst[i].bal <= X.inst[i].lb.tried,
         NEW m, NEW ms, become(r, X), answer(m, ms), \A n \in ms : Truthful(r, X, n),
         UNCHANGED <<pending, executed, toRecover, contested, answered>>
  PROVE  Step(r, X, ms)
<1>1. /\ S \in Reps /\ S.inst = rep[r].inst /\ S.crt = rep[r].crt /\ S.dflt = rep[r].dflt
      /\ S.leader = rep[r].leader /\ S.maxRecv >= rep[r].maxRecv /\ S.dflt[r] <= Reach(S, r)
  BY SeenFacts
<1>2. X.inst[i] # NoInst /\ X.inst[i].lb # NoLB
  BY NoneFacts DEF Booked
<1>3. X.inst[i].lb.proposals = Proposal(r, i)
  BY <1>1 DEF Booked, Proposal
<1>4. Touches(r, X, i)
  BY <1>1, <1>2, <1>3, TouchesBooks DEF Booked
<1>5. X.dflt[r] <= Reach(X, r)
  BY <1>1, SameReach DEF Booked
<1>6. \A k \in Instances : X.inst[k] = rep[r].inst[k] \/ Touches(r, X, k)
  BY <1>1, <1>4 DEF Booked
<1>7. X \in Reps /\ X.maxRecv >= rep[r].maxRecv /\ X.leader = rep[r].leader /\ X.crt = rep[r].crt
  BY <1>1 DEF Booked
<1>. QED
  BY <1>5, <1>6, <1>7, HandlerStep DEF Reaches

\* One more refusal.
LEMMA NackBooked ==
  ASSUME NEW r, NEW i \in Instances, NEW S, Booked(S, S, r, i),
         NEW X, X = [S EXCEPT !.inst[i].lb.nacks = @ + 1]
  PROVE  Booked(S, X, r, i) /\ X.inst[i].lb.tried = S.inst[i].lb.tried
<1>1. PICK l : l = [S.inst[i].lb EXCEPT !.nacks = S.inst[i].lb.nacks + 1]
  OBVIOUS
<1>2. l \in Bookkeeping /\ l.proposals = S.inst[i].lb.proposals /\ l.tried = S.inst[i].lb.tried
  BY <1>1 DEF Booked, Bookkeeping
<1>3. X = Books(S, i, l)
  BY <1>1 DEF Books, With
<1>. QED
  BY <1>2, <1>3, BooksBooked

\* Another ballot.
LEMMA AgainBooked ==
  ASSUME NEW r, NEW i \in Instances, NEW S, NEW X, Booked(S, X, r, i), NEW h \in Nat,
         NEW Y, Y = [X EXCEPT !.inst[i].lb.tried = h]
  PROVE  Booked(S, Y, r, i) /\ Y.inst[i].lb.tried = h
<1>1. PICK l : l = [X.inst[i].lb EXCEPT !.tried = h]
  OBVIOUS
<1>2. l \in Bookkeeping /\ l.proposals = X.inst[i].lb.proposals /\ l.tried = h
  BY <1>1 DEF Booked, Bookkeeping
<1>3. Y = Books(X, i, l)
  BY <1>1 DEF Books, With
<1>4. Booked(S, Books(X, i, l), r, i) /\ Books(X, i, l).inst[i].lb = l
  BY <1>2, BooksBooked
<1>. QED
  BY <1>2, <1>3, <1>4

\* Bookkeeping l is g, changed by a reply to a prepare.
Counted(g, l, n, b, c) == l = [g EXCEPT !.prepareOKs = n, !.ballot = b, !.cmds = c]

LEMMA CountedFacts ==
  ASSUME NEW g \in Bookkeeping, NEW l, NEW n \in Nat, NEW b \in Int, NEW c \in Values, Counted(g, l, n, b, c)
  PROVE  l \in Bookkeeping /\ l.proposals = g.proposals /\ l.tried = g.tried
BY DEF Bookkeeping, Counted

LEMMA ChosenFacts ==
  ASSUME NEW g \in Bookkeeping, NEW c \in Values, NEW l, l = [g EXCEPT !.cmds = c]
  PROVE  l \in Bookkeeping /\ l.cmds = c /\ l.proposals = g.proposals /\ l.tried = g.tried
BY DEF Bookkeeping

LEMMA PrepareReplyStep ==
  ASSUME Inv, NEW m, handlePrepareReply(m)
  PROVE  \E R, ms : Step(m.to, R, ms)
<1>0. /\ m \in DOMAIN msgs /\ m.type = "prepareReply" /\ m.to \in Replicas /\ m.inst \in Instances
      /\ m.bal \in Int /\ m.from \in Replicas /\ m.from # m.to /\ m.vbal \in Int /\ m.dflt \in Nat \cup {-1}
      /\ m.cmds \in Values /\ Proposer(m.to, m.inst)
  <2>1. m \in DOMAIN msgs /\ m \in Messages /\ m.type = "prepareReply"
    BY Arrived DEF handlePrepareReply
  <2>. QED
    BY <2>1, MessageFields DEF Inv, Addressed
<1>1. PICK r \in Replicas : r = m.to
  BY <1>0
<1>2. PICK i \in Instances : i = m.inst
  BY <1>0
<1>3. PICK S : S = seen(rep[r], m.bal)
  OBVIOUS
<1>. DEFINE lb == S.inst[i].lb
            Nack == [S EXCEPT !.inst[i].lb.nacks = @ + 1]
            Again == [Nack EXCEPT !.inst[i].lb.tried = makeBallot(S, r)]
            P == [S EXCEPT !.inst[i].lb = [lb EXCEPT !.prepareOKs = @ + 1,
                                                     !.ballot = Max({@, m.vbal}),
                                                     !.cmds = IF m.vbal > lb.ballot THEN m.cmds ELSE @],
                           !.dflt[m.from] = Max({@, m.dflt})]
            A == startAccept(P, i)
<1>4. /\ UNCHANGED <<pending, executed, toRecover, contested, answered>>
      /\ \/ become(r, S) /\ answer(m, {})
         \/ become(r, Again) /\ answer(m, bcastPrepare(Again, r, i)) /\ S.leader
         \/ become(r, Nack) /\ answer(m, {})
         \/ become(r, A) /\ answer(m, bcastAccept(A, r, i)) /\ m.bal = lb.tried
         \/ become(r, P) /\ answer(m, {})
  BY <1>1, <1>2, <1>3, Zenon DEF handlePrepareReply
<1>. HIDE DEF A
<1>5. /\ Booked(S, S, r, i) /\ Proposer(r, i) /\ S.inst[i] = rep[r].inst[i] /\ S.inst[i].bal \in Int
      /\ S.inst[i].lb.proposals = Proposal(r, i)
      /\ i \notin contested => /\ S.inst[i].bal <= Reach(S, r) /\ S.inst[i].bal <= S.inst[i].lb.tried
                               /\ Proposal(r, i) \in Commands
  BY <1>0, <1>1, <1>2, <1>3, ProposerSeen
<1>6. PICK K : K = Nack
  OBVIOUS
<1>7. Booked(S, K, r, i) /\ K.inst[i].lb.tried = S.inst[i].lb.tried
  BY <1>5, <1>6, NackBooked
<1>8. PICK G : G = Again
  OBVIOUS
<1>9. PICK Q : Q = P
  OBVIOUS
<1>. HIDE DEF Nack, Again, P
<1>10. CASE become(r, S) /\ answer(m, {})
  <2>1. Step(r, S, {})
    BY <1>0, <1>3, <1>4, <1>5, <1>10, BookedStep
  <2>. QED
    BY <1>1, <2>1
<1>11. CASE become(r, Nack) /\ answer(m, {})
  <2>1. Step(r, K, {})
    BY <1>0, <1>3, <1>4, <1>5, <1>6, <1>7, <1>11, BookedStep
  <2>. QED
    BY <1>1, <2>1
<1>12. CASE become(r, Again) /\ answer(m, bcastPrepare(Again, r, i)) /\ S.leader
  <2>0. S \in Reps /\ Reach(S, r) \in Int
    BY <1>0, <1>3, SeenFacts
  <2>1. PICK h \in Nat : h = makeBallot(S, r) /\ h >= Reach(S, r)
    BY <1>12, <2>0, MakeBallotFacts
  <2>2. G = [K EXCEPT !.inst[i].lb.tried = h]
    BY <1>6, <1>8, <2>1 DEF Again
  <2>3. Booked(S, G, r, i) /\ G.inst[i].lb.tried = h
    BY <1>7, <2>2, AgainBooked
  <2>4. \A n \in bcastPrepare(G, r, i) : Truthful(r, G, n)
    BY <2>3, PrepareTruthful DEF Booked
  <2>5. i \notin contested => S.inst[i].bal <= G.inst[i].lb.tried
    BY <1>5, <2>0, <2>1, <2>3
  <2>6. Step(r, G, bcastPrepare(G, r, i))
    BY <1>0, <1>3, <1>4, <1>5, <1>8, <1>12, <2>3, <2>4, <2>5, BookedStep
  <2>. QED
    BY <1>1, <2>6
<1>13. Booked(S, Q, r, i) /\ Q.inst[i].lb.tried = S.inst[i].lb.tried
  <2>1. PICK l : l = [lb EXCEPT !.prepareOKs = @ + 1, !.ballot = Max({@, m.vbal}),
                                !.cmds = IF m.vbal > lb.ballot THEN m.cmds ELSE @]
    OBVIOUS
  <2>2. l \in Bookkeeping /\ l.proposals = S.inst[i].lb.proposals /\ l.tried = S.inst[i].lb.tried
    <3>1. PICK b \in Int : b = Max({lb.ballot, m.vbal})
      BY <1>0, <1>5, MaxFacts DEF Booked, Bookkeeping
    <3>2. PICK c \in Values : c = IF m.vbal > lb.ballot THEN m.cmds ELSE lb.cmds
      BY <1>0, <1>5 DEF Booked, Bookkeeping
    <3>3. l = [lb EXCEPT !.prepareOKs = lb.prepareOKs + 1, !.ballot = b, !.cmds = c]
      BY <2>1, <3>1, <3>2, Zenon
    <3>4. PICK g \in Bookkeeping : g = lb
      BY <1>5 DEF Booked
    <3>5. PICK n \in Nat : n = g.prepareOKs + 1
      BY DEF Bookkeeping
    <3>6. Counted(g, l, n, b, c)
      BY <3>3, <3>4, <3>5, Zenon DEF Counted
    <3>7. l \in Bookkeeping /\ l.proposals = g.proposals /\ l.tried = g.tried
      BY <3>6, CountedFacts, Zenon
    <3>. QED
      BY <3>4, <3>7
  <2>3. PICK B : B = Books(S, i, l)
    OBVIOUS
  <2>4. Booked(S, B, r, i) /\ B.inst[i].lb = l
    BY <1>5, <2>2, <2>3, BooksBooked
  <2>5. S \in Reps /\ S.dflt \in [Replicas -> Nat \cup {-1}]
    BY <1>5, RepFields DEF Booked
  <2>6. PICK d : d = [S.dflt EXCEPT ![m.from] = Max({S.dflt[m.from], m.dflt})]
    OBVIOUS
  <2>7. d \in [Replicas -> Nat \cup {-1}] /\ d[r] = S.dflt[r]
    <3>1. Max({S.dflt[m.from], m.dflt}) \in Nat \cup {-1}
      BY <1>0, <2>5, MaxFacts
    <3>. QED
      BY <1>0, <1>1, <2>5, <2>6, <3>1
  <2>8. Q = [B EXCEPT !.dflt = d]
    <3>1. Q = [S EXCEPT !.inst[i].lb = l, !.dflt[m.from] = Max({S.dflt[m.from], m.dflt})]
      BY <1>9, <2>1, Zenon DEF P
    <3>2. Q = [S EXCEPT !.inst = [S.inst EXCEPT ![i] = [S.inst[i] EXCEPT !.lb = l]], !.dflt = d]
      BY <2>5, <2>6, <3>1 DEF Reps
    <3>. QED
      BY <2>3, <2>5, <3>2 DEF Books, With, Reps
  <2>9. Q \in Reps /\ Q.inst = B.inst /\ Q.crt = B.crt /\ Q.maxRecv = B.maxRecv /\ Q.leader = B.leader /\ Q.dflt = d
    BY <2>4, <2>7, <2>8 DEF Booked, Reps
  <2>. QED
    BY <2>2, <2>4, <2>7, <2>9 DEF Booked
<1>14. CASE become(r, P) /\ answer(m, {})
  <2>1. Step(r, Q, {})
    BY <1>0, <1>3, <1>4, <1>5, <1>9, <1>13, <1>14, BookedStep
  <2>. QED
    BY <1>1, <2>1
<1>15. CASE become(r, A) /\ answer(m, bcastAccept(A, r, i)) /\ m.bal = lb.tried
  <2>0. PICK E : E = A
    OBVIOUS
  <2>1. PICK y : y = Q.inst[i]
    OBVIOUS
  <2>2. /\ y \in Insts /\ y.lb \in Bookkeeping /\ y.lb.tried = m.bal /\ y.lb.proposals = Proposal(r, i)
        /\ Q \in Reps
    BY <1>5, <1>13, <1>15, <2>1 DEF Booked
  <2>3. PICK c : c = IF y.lb.proposals # "nil" THEN y.lb.proposals ELSE "noop"
    OBVIOUS
  <2>4. c \in Values
    BY <2>2, <2>3 DEF Bookkeeping, Values
  <2>5. PICK l \in Bookkeeping : l = [y.lb EXCEPT !.cmds = c] /\ l.cmds = c /\ l.tried = m.bal
                                 /\ l.proposals = Proposal(r, i)
    <3>1. PICK l : l = [y.lb EXCEPT !.cmds = c]
      OBVIOUS
    <3>2. l \in Bookkeeping /\ l.cmds = c /\ l.proposals = y.lb.proposals /\ l.tried = y.lb.tried
      BY <2>2, <2>4, <3>1, ChosenFacts
    <3>. QED
      BY <2>2, <3>1, <3>2, Zenon
  <2>6. PICK x : x = [y EXCEPT !.cmds = c, !.bal = m.bal, !.status = "accepted", !.lb = l]
    OBVIOUS
  <2>7. x \in Insts /\ x.cmds = c /\ x.bal = m.bal /\ x.status = "accepted" /\ x.lb = l
    BY <1>0, <2>2, <2>4, <2>5, <2>6 DEF Insts
  <2>8. PICK g \in Int : g = newSmallest(Q)
    BY <2>2, SmallestFacts
  <2>9. E = [With(Q, i, x) EXCEPT !.smallest = g]
    <3>1. E = [Q EXCEPT !.inst[i] = [y EXCEPT !.cmds = c, !.bal = y.lb.tried, !.status = "accepted",
                                              !.lb = [y.lb EXCEPT !.cmds = c]],
                        !.smallest = newSmallest(Q)]
      BY <1>9, <2>0, <2>1, <2>3, Zenon DEF A, startAccept
    <3>2. E = [Q EXCEPT !.inst[i] = x, !.smallest = g]
      BY <2>2, <2>5, <2>6, <2>8, <3>1, Zenon
    <3>3. E = [Q EXCEPT !.inst = [Q.inst EXCEPT ![i] = x], !.smallest = g]
      BY <3>2
    <3>. QED
      BY <2>2, <3>3 DEF With, Reps
  <2>10. PICK W : W = With(Q, i, x)
    OBVIOUS
  <2>11. /\ W \in Reps /\ W.inst[i] = x /\ \A k \in Instances : k # i => W.inst[k] = Q.inst[k]
         /\ W.crt = Q.crt /\ W.maxRecv = Q.maxRecv /\ W.dflt = Q.dflt /\ W.leader = Q.leader
    BY <2>2, <2>7, <2>10, WithFacts
  <2>12. /\ E \in Reps /\ E.inst = W.inst
         /\ E.crt = W.crt /\ E.maxRecv = W.maxRecv /\ E.dflt = W.dflt /\ E.leader = W.leader
    BY <2>8, <2>9, <2>10, <2>11 DEF Reps
  <2>13. /\ E.inst[i] = x /\ \A k \in Instances : k # i => E.inst[k] = rep[r].inst[k]
         /\ E.crt = rep[r].crt /\ E.maxRecv = S.maxRecv /\ E.dflt[r] = S.dflt[r] /\ E.leader = rep[r].leader
         /\ E.maxRecv >= rep[r].maxRecv /\ E.dflt[r] <= Reach(E, r) /\ m.bal <= Reach(E, r)
    <3>1. /\ S.inst = rep[r].inst /\ S.crt = rep[r].crt /\ S.leader = rep[r].leader
          /\ S.maxRecv >= rep[r].maxRecv /\ S.dflt[r] <= Reach(S, r) /\ m.bal <= Reach(S, r)
      BY <1>0, <1>3, SeenFacts
    <3>2. /\ E.inst[i] = x /\ \A k \in Instances : k # i => E.inst[k] = rep[r].inst[k]
          /\ E.crt = rep[r].crt /\ E.maxRecv = S.maxRecv /\ E.dflt[r] = S.dflt[r] /\ E.leader = rep[r].leader
      BY <1>13, <2>11, <2>12, <3>1 DEF Booked
    <3>3. Reach(E, r) = Reach(S, r)
      BY <3>2, SameReach
    <3>. QED
      BY <3>1, <3>2, <3>3
  <2>14. i \notin contested => c = Proposal(r, i)
    BY <1>5, <2>2, <2>3, CommandFacts
  <2>15. Touches(r, E, i)
    <3>1. E.inst[i] # NoInst /\ E.inst[i].lb # NoLB /\ i <= E.crt
      BY <1>5, <2>5, <2>7, <2>13, NoneFacts, ProposerFacts
    <3>2. ASSUME i \notin contested' PROVE Treats(r, E, i)
      <4>1. i \notin contested /\ rep[r].inst[i].bal <= m.bal /\ rep[r].inst[i].bal \in Int
        BY <1>4, <1>5, <1>15, <3>2
      <4>2. ~ Starts(r, E, i)
        BY <1>5 DEF Starts
      <4>3. E.inst[i].lb.proposals = Proposal(r, i)
        BY <2>5, <2>7, <2>13
      <4>4. E.inst[i].bal = m.bal /\ E.inst[i].lb.tried = m.bal
        BY <2>5, <2>7, <2>13
      <4>5. Takes(r, E, i) /\ Commits(r, E, i)
        BY <1>5, <2>7, <2>13, <2>14, <4>1 DEF Takes, Commits
      <4>. QED
        BY <1>0, <2>13, <4>1, <4>2, <4>3, <4>4, <4>5 DEF Treats
    <3>. QED
      BY <3>1, <3>2 DEF Touches
  <2>16. \A n \in bcastAccept(E, r, i) : Truthful(r, E, n)
    <3>1. i \notin contested' => E.inst[i].lb.cmds = E.inst[i].lb.proposals /\ E.inst[i].lb.proposals \in Commands
      BY <1>4, <1>5, <2>5, <2>7, <2>13, <2>14
    <3>. QED
      BY <2>5, <2>7, <2>13, <3>1, AcceptTruthful
  <2>17. Step(r, E, bcastAccept(E, r, i))
    BY <1>4, <1>15, <2>0, <2>12, <2>13, <2>15, <2>16, HandlerStep DEF Reaches
  <2>. QED
    BY <1>1, <2>17
<1>. QED
  BY <1>4, <1>10, <1>11, <1>12, <1>14, <1>15

\* One more acceptance.
LEMMA AcceptedBooked ==
  ASSUME NEW r, NEW i \in Instances, NEW S, Booked(S, S, r, i),
         NEW X, X = [S EXCEPT !.inst[i].lb.acceptOKs = @ + 1]
  PROVE  Booked(S, X, r, i) /\ X.inst[i].lb.tried = S.inst[i].lb.tried
<1>1. PICK l : l = [S.inst[i].lb EXCEPT !.acceptOKs = S.inst[i].lb.acceptOKs + 1]
  OBVIOUS
<1>2. l \in Bookkeeping /\ l.proposals = S.inst[i].lb.proposals /\ l.tried = S.inst[i].lb.tried
  BY <1>1 DEF Booked, Bookkeeping
<1>3. X = Books(S, i, l)
  BY <1>1 DEF Books, With
<1>. QED
  BY <1>2, <1>3, BooksBooked

LEMMA AcceptReplyStep ==
  ASSUME Inv, NEW m, handleAcceptReply(m)
  PROVE  \E R, ms : Step(m.to, R, ms)
<1>0. /\ m \in DOMAIN msgs /\ m.type = "acceptReply" /\ m.to \in Replicas /\ m.inst \in Instances
      /\ m.bal \in Int /\ Proposer(m.to, m.inst)
  <2>1. m \in DOMAIN msgs /\ m \in Messages /\ m.type = "acceptReply"
    BY Arrived DEF handleAcceptReply
  <2>. QED
    BY <2>1, MessageFields DEF Inv, Addressed
<1>1. PICK r \in Replicas : r = m.to
  BY <1>0
<1>2. PICK i \in Instances : i = m.inst
  BY <1>0
<1>3. PICK S : S = seen(rep[r], m.bal)
  OBVIOUS
<1>. DEFINE b == m.bal
            Nack == [S EXCEPT !.inst[i].lb.nacks = @ + 1]
            Again == [Nack EXCEPT !.inst[b].lb.tried = makeBallot(S, r)]
            A == [S EXCEPT !.inst[i].lb.acceptOKs = @ + 1]
            C == [A EXCEPT !.inst[i].status = "committed"]
<1>4. /\ UNCHANGED <<pending, executed, toRecover, contested, answered>>
      /\ \/ become(r, S) /\ answer(m, {})
         \/ become(r, Nack) /\ answer(m, {})
         \/ /\ become(r, Again) /\ answer(m, bcastPrepare(Again, r, i)) /\ S.leader
            /\ b \in Instances /\ S.inst[b] # NoInst /\ S.inst[b].lb # NoLB
         \/ become(r, C) /\ answer(m, bcastCommit(C, r, i)) /\ m.bal = S.inst[i].lb.tried
         \/ become(r, A) /\ answer(m, {})
  BY <1>1, <1>2, <1>3, Zenon DEF handleAcceptReply
<1>5. /\ Booked(S, S, r, i) /\ Proposer(r, i) /\ S.inst[i] = rep[r].inst[i] /\ S.inst[i].bal \in Int
      /\ S.inst[i].lb.proposals = Proposal(r, i)
      /\ i \notin contested => /\ S.inst[i].bal <= Reach(S, r) /\ S.inst[i].bal <= S.inst[i].lb.tried
                               /\ Proposal(r, i) \in Commands
  BY <1>0, <1>1, <1>2, <1>3, ProposerSeen
<1>6. PICK K : K = Nack
  OBVIOUS
<1>7. Booked(S, K, r, i) /\ K.inst[i].lb.tried = S.inst[i].lb.tried
  BY <1>5, <1>6, NackBooked
<1>8. PICK B : B = A
  OBVIOUS
<1>9. Booked(S, B, r, i) /\ B.inst[i].lb.tried = S.inst[i].lb.tried
  BY <1>5, <1>8, AcceptedBooked
<1>. HIDE DEF Nack, A
<1>10. CASE become(r, S) /\ answer(m, {})
  <2>1. Step(r, S, {})
    BY <1>0, <1>3, <1>4, <1>5, <1>10, BookedStep
  <2>. QED
    BY <1>1, <2>1
<1>11. CASE become(r, Nack) /\ answer(m, {})
  <2>1. Step(r, K, {})
    BY <1>0, <1>3, <1>4, <1>5, <1>6, <1>7, <1>11, BookedStep
  <2>. QED
    BY <1>1, <2>1
<1>12. CASE become(r, A) /\ answer(m, {})
  <2>1. Step(r, B, {})
    BY <1>0, <1>3, <1>4, <1>5, <1>8, <1>9, <1>12, BookedStep
  <2>. QED
    BY <1>1, <2>1
<1>13. CASE /\ become(r, Again) /\ answer(m, bcastPrepare(Again, r, i)) /\ S.leader
            /\ b \in Instances /\ S.inst[b] # NoInst /\ S.inst[b].lb # NoLB
  <2>0. /\ S \in Reps /\ Reach(S, r) \in Int /\ S.inst = rep[r].inst /\ S.crt = rep[r].crt
        /\ S.leader = rep[r].leader /\ S.maxRecv >= rep[r].maxRecv /\ S.dflt[r] <= Reach(S, r)
    BY <1>0, <1>3, SeenFacts
  <2>1. PICK h \in Nat : h = makeBallot(S, r) /\ h >= Reach(S, r)
    BY <1>13, <2>0, MakeBallotFacts
  <2>2. PICK G : G = Again
    OBVIOUS
  <2>3. G = [K EXCEPT !.inst[b].lb.tried = h]
    BY <1>6, <2>1, <2>2
  <2>4. CASE b = i
    <3>1. G = [K EXCEPT !.inst[i].lb.tried = h]
      BY <2>3, <2>4
    <3>2. Booked(S, G, r, i) /\ G.inst[i].lb.tried = h
      BY <1>7, <3>1, AgainBooked
    <3>3. \A n \in bcastPrepare(G, r, i) : Truthful(r, G, n)
      BY <3>2, PrepareTruthful DEF Booked
    <3>4. i \notin contested => S.inst[i].bal <= G.inst[i].lb.tried
      BY <1>5, <2>0, <2>1, <3>2
    <3>5. Step(r, G, bcastPrepare(G, r, i))
      BY <1>0, <1>3, <1>4, <1>5, <1>13, <2>2, <3>2, <3>3, <3>4, BookedStep
    <3>. QED
      BY <1>1, <3>5
  <2>5. CASE b # i
    <3>0. PICK j \in Instances : j = b
      BY <1>13
    <3>1. Proposer(r, j)
      BY <1>13, <2>0, <3>0 DEF Proposer
    <3>2. /\ Booked(S, S, r, j) /\ S.inst[j] = rep[r].inst[j] /\ S.inst[j].bal \in Int
          /\ S.inst[j].lb.proposals = Proposal(r, j)
          /\ j \notin contested => S.inst[j].bal <= Reach(S, r)
      BY <1>0, <1>3, <3>1, ProposerSeen
    <3>3. K.inst[j] = S.inst[j]
      BY <1>7, <2>5, <3>0 DEF Booked
    <3>4. Booked(K, K, r, j)
      BY <1>7, <3>2, <3>3 DEF Booked
    <3>5. Booked(K, G, r, j) /\ G.inst[j].lb.tried = h
      BY <2>3, <3>0, <3>4, AgainBooked
    <3>6. G.inst[i] = K.inst[i]
      BY <2>5, <3>0, <3>5 DEF Booked
    <3>7. /\ G \in Reps /\ G.crt = rep[r].crt /\ G.maxRecv = S.maxRecv /\ G.dflt[r] = S.dflt[r]
          /\ G.leader = rep[r].leader /\ G.maxRecv >= rep[r].maxRecv
          /\ \A k \in Instances : k # i /\ k # j => G.inst[k] = rep[r].inst[k]
      BY <1>7, <2>0, <3>5 DEF Booked
    <3>8. Touches(r, G, i)
      <4>1. G.inst[i] # NoInst /\ G.inst[i].lb # NoLB
        BY <1>7, <3>6, NoneFacts DEF Booked
      <4>2. /\ G.inst[i].cmds = rep[r].inst[i].cmds /\ G.inst[i].bal = rep[r].inst[i].bal
            /\ G.inst[i].status = rep[r].inst[i].status /\ G.inst[i].lb.proposals = Proposal(r, i)
            /\ G.inst[i].lb.tried = S.inst[i].lb.tried
        BY <1>5, <1>7, <3>6 DEF Booked
      <4>. QED
        BY <1>4, <1>5, <3>7, <4>1, <4>2, TouchesBooks
    <3>9. Touches(r, G, j)
      <4>1. G.inst[j] # NoInst /\ G.inst[j].lb # NoLB
        BY <3>5, NoneFacts DEF Booked
      <4>2. /\ G.inst[j].cmds = rep[r].inst[j].cmds /\ G.inst[j].bal = rep[r].inst[j].bal
            /\ G.inst[j].status = rep[r].inst[j].status /\ G.inst[j].lb.proposals = Proposal(r, j)
        BY <3>2, <3>3, <3>5 DEF Booked
      <4>3. j \notin contested => rep[r].inst[j].bal <= G.inst[j].lb.tried
        BY <2>0, <2>1, <3>2, <3>5
      <4>. QED
        BY <1>4, <3>1, <3>7, <4>1, <4>2, <4>3, TouchesBooks
    <3>10. \A n \in bcastPrepare(G, r, i) : Truthful(r, G, n)
      BY <1>7, <3>6, PrepareTruthful DEF Booked
    <3>11. G.dflt[r] <= Reach(G, r)
      BY <2>0, <3>7, SameReach
    <3>12. Step(r, G, bcastPrepare(G, r, i))
      BY <1>4, <1>13, <2>2, <3>7, <3>8, <3>9, <3>10, <3>11, HandlerStep DEF Reaches
    <3>. QED
      BY <1>1, <3>12
  <2>. QED
    BY <2>4, <2>5
<1>14. CASE become(r, C) /\ answer(m, bcastCommit(C, r, i)) /\ m.bal = S.inst[i].lb.tried
  <2>0. /\ S.inst = rep[r].inst /\ S.crt = rep[r].crt
        /\ S.leader = rep[r].leader /\ S.maxRecv >= rep[r].maxRecv /\ S.dflt[r] <= Reach(S, r)
    BY <1>0, <1>3, SeenFacts
  <2>1. PICK E : E = C
    OBVIOUS
  <2>2. PICK x : x = [B.inst[i] EXCEPT !.status = "committed"]
    OBVIOUS
  <2>3. /\ x \in Insts /\ x.lb = B.inst[i].lb /\ x.cmds = B.inst[i].cmds /\ x.bal = B.inst[i].bal
    BY <1>9, <2>2 DEF Booked, Insts
  <2>4. E = With(B, i, x)
    BY <1>8, <2>1, <2>2 DEF With
  <2>5. /\ E \in Reps /\ E.inst[i] = x /\ \A k \in Instances : k # i => E.inst[k] = B.inst[k]
        /\ E.crt = B.crt /\ E.maxRecv = B.maxRecv /\ E.dflt = B.dflt /\ E.leader = B.leader
    BY <1>9, <2>3, <2>4, WithFacts DEF Booked
  <2>6. /\ E.crt = rep[r].crt /\ E.maxRecv = S.maxRecv /\ E.dflt[r] = S.dflt[r] /\ E.leader = rep[r].leader
        /\ E.maxRecv >= rep[r].maxRecv
        /\ \A k \in Instances : k # i => E.inst[k] = rep[r].inst[k]
        /\ E.inst[i].lb \in Bookkeeping /\ E.inst[i].lb.proposals = Proposal(r, i)
        /\ E.inst[i].lb.tried = S.inst[i].lb.tried
        /\ E.inst[i].cmds = rep[r].inst[i].cmds /\ E.inst[i].bal = rep[r].inst[i].bal
    BY <1>5, <1>9, <2>0, <2>3, <2>5 DEF Booked
  <2>7. Reach(E, r) = Reach(S, r)
    BY <2>6, SameReach
  <2>8. ASSUME i \notin contested' \cup raised' PROVE Accepted(i)
    <3>1. i \notin contested /\ i \notin raised
      BY <1>4, <1>14, <2>8 DEF become
    <3>2. Held(r, i)
      BY <1>0, <1>1, <1>2, <1>5, <1>14, <3>1 DEF Inv, OneBallot, Sole
    <3>3. \A q \in Replicas : Proposer(q, i) => q = r
      BY <1>5, <3>1, ProposerFacts
    <3>. QED
      BY <3>2, <3>3 DEF Accepted
  <2>9. Touches(r, E, i)
    <3>1. E.inst[i] # NoInst /\ E.inst[i].lb # NoLB /\ i <= E.crt
      BY <1>5, <2>3, <2>5, <2>6, NoneFacts, ProposerFacts
    <3>2. ASSUME i \notin contested' PROVE Treats(r, E, i)
      <4>1. i \notin contested
        BY <1>4, <3>2
      <4>2. ~ Starts(r, E, i) /\ rep[r].inst[i] # NoInst
        BY <1>5 DEF Starts, Proposer
      <4>3. Takes(r, E, i) /\ (i \notin raised' => Commits(r, E, i))
        BY <2>6, <2>8, <3>2, <4>2 DEF Takes, Commits
      <4>4. E.inst[i].bal <= Reach(E, r) /\ E.inst[i].bal <= E.inst[i].lb.tried
            /\ E.inst[i].bal >= rep[r].inst[i].bal
        BY <1>5, <2>6, <2>7, <4>1
      <4>. QED
        BY <2>6, <4>2, <4>3, <4>4 DEF Treats
    <3>. QED
      BY <3>1, <3>2 DEF Touches
  <2>10. \A n \in bcastCommit(E, r, i) : Truthful(r, E, n)
    BY <1>5, <2>3, <2>5, <2>6, <2>8, CommitTruthful
  <2>11. Step(r, E, bcastCommit(E, r, i))
    BY <1>4, <1>14, <2>0, <2>1, <2>5, <2>6, <2>7, <2>9, <2>10, HandlerStep DEF Reaches
  <2>. QED
    BY <1>1, <2>11
<1>. QED
  BY <1>4, <1>10, <1>11, <1>12, <1>13, <1>14

-----------------------------------------------------------------------------
(* Handlers of an acceptor *)

\* A request comes from the proposer of its instance, and only a contested
\* instance has another one.
LEMMA RequestFacts ==
  ASSUME Inv, NEW m \in DOMAIN msgs, m.type \in {"prepare", "accept", "commitShort"}
  PROVE  /\ m.to \in Replicas /\ m.from \in Replicas /\ m.inst \in Instances /\ m.bal \in Int
         /\ m.to # m.from /\ Proposer(m.from, m.inst)
         /\ m.inst \notin contested => ~ Proposer(m.to, m.inst)
<1>1. /\ m.to \in Replicas /\ m.from \in Replicas /\ m.inst \in Instances /\ m.bal \in Int
  BY MessageFields DEF Inv, Types
<1>2. m.to # m.from /\ Proposer(m.from, m.inst)
  BY DEF Inv, Addressed
<1>. QED
  BY <1>1, <1>2, ProposerFacts

\* R is S with instance i known.
LEMMA WithInstFacts ==
  ASSUME NEW r \in Replicas, NEW i \in Instances, NEW S \in Reps, S.inst[i] # NoInst => i <= S.crt,
         NEW R, R = withInst(S, r, i)
  PROVE  /\ R \in Reps /\ R.inst[i] \in Insts /\ i <= R.crt
         /\ R.crt = S.crt \/ (R.crt = i /\ i >= S.crt)
         /\ \A k \in Instances : k # i => R.inst[k] = S.inst[k]
         /\ R.maxRecv = S.maxRecv /\ R.dflt = S.dflt /\ R.leader = S.leader
         /\ S.inst[i] # NoInst => R = S
         /\ S.inst[i] = NoInst => R.inst[i].cmds = "nil" /\ R.inst[i].lb = NoLB /\ R.inst[i].status = "preparing"
<1>0. S.crt \in Int /\ S.crt \in Instances \cup {-1} /\ i \in Int /\ S.dflt[r] \in Int
  BY RepFields, Config
<1>1. CASE S.inst[i] # NoInst
  <2>1. R = S
    BY <1>1 DEF withInst
  <2>. QED
    BY <1>0, <1>1, <2>1, RepFields
<1>2. CASE S.inst[i] = NoInst
  <2>1. PICK x : x = NewInst(S, r, NoLB)
    OBVIOUS
  <2>2. x \in Insts /\ x.cmds = "nil" /\ x.lb = NoLB /\ x.status = "preparing"
    BY <1>0, <2>1 DEF NewInst, Insts, Values
  <2>3. PICK c : c = Max({S.crt, i})
    OBVIOUS
  <2>4. c \in Instances \cup {-1} /\ c \in Int /\ c >= S.crt /\ c >= i /\ (c = S.crt \/ c = i)
    BY <1>0, <2>3, MaxFacts
  <2>5. R = [S EXCEPT !.inst[i] = x, !.crt = c]
    BY <1>2, <2>1, <2>3 DEF withInst
  <2>6. R = [With(S, i, x) EXCEPT !.crt = c]
    BY <2>5 DEF With, Reps
  <2>7. PICK W : W = With(S, i, x)
    OBVIOUS
  <2>8. /\ W \in Reps /\ W.inst[i] = x /\ \A k \in Instances : k # i => W.inst[k] = S.inst[k]
        /\ W.maxRecv = S.maxRecv /\ W.dflt = S.dflt /\ W.leader = S.leader
    BY <2>2, <2>7, WithFacts
  <2>9. /\ R \in Reps /\ R.inst = W.inst /\ R.crt = c
        /\ R.maxRecv = W.maxRecv /\ R.dflt = W.dflt /\ R.leader = W.leader
    BY <2>4, <2>6, <2>7, <2>8 DEF Reps
  <2>. QED
    BY <1>0, <1>2, <2>2, <2>4, <2>8, <2>9
<1>. QED
  BY <1>1, <1>2

\* An acceptor that is not a proposer of the instance: it keeps what it holds,
\* holds nothing yet, or takes the proposer's command, and its ballot rises.
LEMMA TouchesAcceptor ==
  ASSUME Inv, NEW r \in Replicas, NEW R \in Reps, contested \subseteq contested',
         NEW i \in Instances, R.inst[i] \in Insts, i <= R.crt, i \notin contested => ~ Proposer(r, i),
         rep[r].inst[i] # NoInst => R.inst[i].lb = rep[r].inst[i].lb,
         rep[r].inst[i] = NoInst => R.inst[i].lb = NoLB,
         i \notin contested' => /\ Takes(r, R, i) /\ (i \notin raised' => Commits(r, R, i))
                                /\ rep[r].inst[i] # NoInst => R.inst[i].bal >= rep[r].inst[i].bal
  PROVE  Touches(r, R, i)
<1>1. R.inst[i] # NoInst
  BY NoneFacts
<1>2. Proposer(r, i) => R.inst[i].lb # NoLB
  BY DEF Proposer
<1>3. ASSUME i \notin contested' PROVE Treats(r, R, i)
  <2>1. ~ Proposer(r, i)
    BY <1>3
  <2>2. R.inst[i].lb = NoLB
    BY <2>1 DEF Proposer
  <2>. QED
    BY <1>3, <2>1, <2>2 DEF Treats, Starts
<1>. QED
  BY <1>1, <1>2, <1>3 DEF Touches

LEMMA PrepareStep ==
  ASSUME Inv, NEW m, handlePrepare(m)
  PROVE  \E R, ms : Step(m.to, R, ms)
<1>0. /\ m \in DOMAIN msgs /\ m.type = "prepare" /\ m.bal \in Nat
      /\ m.to \in Replicas /\ m.from \in Replicas /\ m.inst \in Instances /\ m.bal \in Int
      /\ m.to # m.from /\ Proposer(m.from, m.inst)
      /\ m.inst \notin contested => ~ Proposer(m.to, m.inst)
  <2>1. m \in DOMAIN msgs /\ m \in Messages /\ m.type = "prepare"
    BY Arrived DEF handlePrepare
  <2>. QED
    BY <2>1, MessageFields, RequestFacts
<1>1. PICK r \in Replicas : r = m.to
  BY <1>0
<1>2. PICK i \in Instances : i = m.inst
  BY <1>0
<1>3. PICK S : S = seen(rep[r], m.bal)
  OBVIOUS
<1>4. PICK R : R = withInst(S, r, i)
  OBVIOUS
<1>. DEFINE T == [R EXCEPT !.inst[i] = [@ EXCEPT !.bal = m.bal, !.status = "prepared"],
                           !.dflt[r] = IF R.crt = i THEN m.bal ELSE @]
            P == IF R.inst[i].bal >= m.bal THEN R ELSE T
            c == [type |-> "commit", to |-> m.from, inst |-> i, bal |-> R.inst[i].vbal,
                  cmds |-> OnWire(R.inst[i].cmds)]
            p(X) == [type |-> "prepareReply", to |-> m.from, from |-> r, inst |-> i,
                     bal |-> X.inst[i].bal, vbal |-> X.inst[i].vbal, dflt |-> X.dflt[r],
                     cmds |-> OnWire(X.inst[i].cmds)]
<1>5. /\ UNCHANGED <<pending, executed, toRecover, contested, answered>>
      /\ \/ become(r, R) /\ answer(m, {c})
         \/ become(r, R) /\ answer(m, {p(R)})
         \/ become(r, T) /\ answer(m, {p(T)}) /\ ~ (R.inst[i].bal >= m.bal)
  <2>1. UNCHANGED <<pending, executed, toRecover, contested, answered>>
    BY DEF handlePrepare
  <2>2. \/ become(r, R) /\ answer(m, {c})
        \/ become(r, P) /\ answer(m, {p(P)})
    BY <1>1, <1>2, <1>3, <1>4, Zenon DEF handlePrepare
  <2>. QED
    BY <2>1, <2>2, Zenon
<1>6. /\ S \in Reps /\ S.inst = rep[r].inst /\ S.crt = rep[r].crt
      /\ S.leader = rep[r].leader /\ S.maxRecv >= rep[r].maxRecv /\ S.dflt[r] <= Reach(S, r)
      /\ m.bal <= Reach(S, r)
  BY <1>0, <1>3, SeenFacts
<1>7. /\ R \in Reps /\ R.inst[i] \in Insts /\ i <= R.crt
      /\ R.crt = S.crt \/ (R.crt = i /\ i >= S.crt)
      /\ \A k \in Instances : k # i => R.inst[k] = S.inst[k]
      /\ R.maxRecv = S.maxRecv /\ R.dflt = S.dflt /\ R.leader = S.leader
      /\ S.inst[i] # NoInst => R = S
      /\ S.inst[i] = NoInst => R.inst[i].cmds = "nil" /\ R.inst[i].lb = NoLB /\ R.inst[i].status = "preparing"
  <2>1. S.inst[i] # NoInst => i <= S.crt
    BY <1>6 DEF Inv, Known
  <2>. QED
    BY <1>4, <1>6, <2>1, WithInstFacts
<1>8. ASSUME NEW X \in Reps, X.crt = R.crt, X.maxRecv = R.maxRecv, X.leader = R.leader,
             X.dflt[r] <= Reach(S, r), X.inst[i] \in Insts, X.inst[i].cmds = R.inst[i].cmds,
             X.inst[i].lb = R.inst[i].lb, X.inst[i].bal >= R.inst[i].bal,
             X.inst[i].status = R.inst[i].status \/ X.inst[i].status = "prepared",
             \A k \in Instances : k # i => X.inst[k] = R.inst[k],
             NEW ms, become(r, X), answer(m, ms), \A n \in ms : Truthful(r, X, n)
      PROVE  Step(r, X, ms)
  <2>1. Touches(r, X, i)
    <3>1. rep[r].inst[i] # NoInst => X.inst[i].lb = rep[r].inst[i].lb
      BY <1>6, <1>7, <1>8
    <3>2. rep[r].inst[i] = NoInst => X.inst[i].lb = NoLB
      BY <1>6, <1>7, <1>8
    <3>3. Takes(r, X, i) /\ Commits(r, X, i)
      BY <1>6, <1>7, <1>8 DEF Takes, Commits
    <3>4. rep[r].inst[i] # NoInst => X.inst[i].bal >= rep[r].inst[i].bal
      BY <1>6, <1>7, <1>8
    <3>. QED
      BY <1>0, <1>1, <1>2, <1>5, <1>7, <1>8, <3>1, <3>2, <3>3, <3>4, TouchesAcceptor
  <2>2. Reaches(r, X)
    BY <1>0, <1>2, <1>6, <1>7, <1>8 DEF Reaches
  <2>3. X.dflt[r] <= Reach(X, r)
    BY <1>7, <1>8, SameReach
  <2>. QED
    BY <1>5, <1>6, <1>7, <1>8, <2>1, <2>2, <2>3, HandlerStep
<1>9. R.inst[i].bal \in Int /\ R.inst[i].vbal \in Int /\ R.inst[i].cmds \in Values /\ R.dflt[r] \in Nat \cup {-1}
  BY <1>7, RepFields DEF Insts
<1>10. ASSUME NEW X \in Reps, X.inst[i] \in Insts PROVE Truthful(r, X, p(X))
  <2>1. PICK n : n = p(X)
    OBVIOUS
  <2>2. X.inst[i].bal \in Int /\ X.inst[i].vbal \in Int /\ OnWire(X.inst[i].cmds) \in Values /\ X.dflt[r] \in Nat \cup {-1}
    BY <1>10, RepFields, OnWireFacts DEF Insts
  <2>3. n \in Messages
    BY <1>0, <2>1, <2>2 DEF Messages
  <2>4. Truthful(r, X, n)
    BY <1>0, <1>1, <1>2, <2>1, <2>3 DEF Truthful
  <2>. QED
    BY <2>1, <2>4
<1>. HIDE DEF T, P, p
<1>11. CASE become(r, R) /\ answer(m, {c})
  <2>1. PICK n : n = c
    OBVIOUS
  <2>2. n \in Messages
    BY <1>0, <1>9, <2>1, OnWireFacts DEF Messages
  <2>3. Truthful(r, R, n)
    BY <1>0, <1>1, <1>2, <2>1, <2>2 DEF Truthful
  <2>4. become(r, R) /\ answer(m, {n}) /\ \A v \in {n} : Truthful(r, R, v)
    BY <1>11, <2>1, <2>3
  <2>5. Step(r, R, {n})
    <3>. HIDE DEF c
    <3>. QED
      BY <1>6, <1>7, <1>8, <1>9, <2>4
  <2>. QED
    BY <1>1, <2>5
<1>12. CASE become(r, R) /\ answer(m, {p(R)})
  <2>1. \A n \in {p(R)} : Truthful(r, R, n)
    BY <1>7, <1>10
  <2>2. Step(r, R, {p(R)})
    BY <1>6, <1>7, <1>8, <1>9, <1>12, <2>1
  <2>. QED
    BY <1>1, <2>2
<1>13. CASE become(r, T) /\ answer(m, {p(T)}) /\ ~ (R.inst[i].bal >= m.bal)
  <2>1. PICK x : x = [R.inst[i] EXCEPT !.bal = m.bal, !.status = "prepared"]
    OBVIOUS
  <2>2. x \in Insts /\ x.cmds = R.inst[i].cmds /\ x.lb = R.inst[i].lb /\ x.status = "prepared" /\ x.bal = m.bal
    BY <1>0, <1>7, <2>1 DEF Insts
  <2>3. PICK d : d = [R.dflt EXCEPT ![r] = IF R.crt = i THEN m.bal ELSE R.dflt[r]]
    OBVIOUS
  <2>4. d \in [Replicas -> Nat \cup {-1}] /\ d[r] <= Reach(S, r)
    <3>1. R.dflt \in [Replicas -> Nat \cup {-1}] /\ R.dflt[r] <= Reach(S, r)
      BY <1>6, <1>7, RepFields
    <3>. QED
      BY <1>0, <1>6, <2>3, <3>1
  <2>5. PICK X : X = T
    OBVIOUS
  <2>6. X = [With(R, i, x) EXCEPT !.dflt = d]
    BY <1>7, <2>1, <2>3, <2>5 DEF T, With, Reps
  <2>7. PICK W : W = With(R, i, x)
    OBVIOUS
  <2>8. /\ W \in Reps /\ W.inst[i] = x /\ \A k \in Instances : k # i => W.inst[k] = R.inst[k]
        /\ W.crt = R.crt /\ W.maxRecv = R.maxRecv /\ W.leader = R.leader
    BY <1>7, <2>2, <2>7, WithFacts
  <2>9. /\ X \in Reps /\ X.inst = W.inst /\ X.dflt = d
        /\ X.crt = W.crt /\ X.maxRecv = W.maxRecv /\ X.leader = W.leader
    BY <2>4, <2>6, <2>7, <2>8 DEF Reps
  <2>10. /\ X.inst[i] = x /\ X.dflt[r] <= Reach(S, r) /\ X.inst[i].bal >= R.inst[i].bal
         /\ \A k \in Instances : k # i => X.inst[k] = R.inst[k]
    BY <1>0, <1>9, <1>13, <2>2, <2>4, <2>8, <2>9
  <2>11. \A n \in {p(X)} : Truthful(r, X, n)
    BY <1>10, <2>2, <2>9, <2>10
  <2>12. become(r, X) /\ answer(m, {p(X)})
    BY <1>13, <2>5
  <2>13. Step(r, X, {p(X)})
    BY <1>8, <2>2, <2>8, <2>9, <2>10, <2>11, <2>12
  <2>. QED
    BY <1>1, <2>13
<1>. QED
  BY <1>5, <1>11, <1>12, <1>13

LEMMA AcceptStep ==
  ASSUME Inv, NEW m, handleAccept(m)
  PROVE  \E R, ms : Step(m.to, R, ms)
<1>0. /\ m \in DOMAIN msgs /\ m.type = "accept" /\ m.bal \in Nat /\ m.bal \in Int /\ m.cmds \in Values
      /\ m.to \in Replicas /\ m.from \in Replicas /\ m.inst \in Instances
      /\ m.to # m.from /\ Proposer(m.from, m.inst)
      /\ m.inst \notin contested => ~ Proposer(m.to, m.inst)
  <2>1. m \in DOMAIN msgs /\ m \in Messages /\ m.type = "accept"
    BY Arrived DEF handleAccept
  <2>. QED
    BY <2>1, MessageFields, RequestFacts
<1>1. PICK r \in Replicas : r = m.to
  BY <1>0
<1>2. PICK i \in Instances : i = m.inst
  BY <1>0
<1>3. PICK S : S = seen(rep[r], m.bal)
  OBVIOUS
<1>4. PICK p \in Replicas : p = m.from
  BY <1>0
<1>. DEFINE x == S.inst[i]
            y == [cmds |-> m.cmds, bal |-> m.bal, vbal |-> m.bal, status |-> "accepted",
                  lb |-> IF x = NoInst THEN NoLB ELSE x.lb]
            A == [S EXCEPT !.crt = Max({@, i}), !.inst[i] = y]
            W == IF accepting(x, m) THEN A ELSE S
            a(X) == [type |-> "acceptReply", to |-> p, inst |-> i, bal |-> X.inst[i].bal]
<1>5. /\ UNCHANGED <<pending, executed, toRecover, contested, answered>>
      /\ \/ become(r, A) /\ answer(m, {a(A)}) /\ accepting(x, m)
         \/ become(r, S) /\ answer(m, {a(S)}) /\ ~ accepting(x, m)
  <2>1. UNCHANGED <<pending, executed, toRecover, contested, answered>>
    BY DEF handleAccept
  <2>2. become(r, W) /\ answer(m, {a(W)})
    BY <1>1, <1>2, <1>3, <1>4, Zenon DEF handleAccept
  <2>. QED
    BY <2>1, <2>2, Zenon
<1>6. /\ S \in Reps /\ S.inst = rep[r].inst /\ S.crt = rep[r].crt
      /\ S.leader = rep[r].leader /\ S.maxRecv >= rep[r].maxRecv /\ S.dflt[r] <= Reach(S, r)
  BY <1>0, <1>3, SeenFacts
<1>7. r # p /\ Proposer(p, i) /\ (i \notin contested => ~ Proposer(r, i) /\ m.cmds = Proposal(p, i))
  <2>1. r # p /\ Proposer(p, i) /\ (i \notin contested => ~ Proposer(r, i))
    BY <1>0, <1>1, <1>2, <1>4
  <2>2. i \notin contested => m.cmds = Proposal(p, i)
    <3>1. i \notin contested => Sole(p, i)
      BY <2>1 DEF Sole
    <3>. QED
      BY <1>0, <1>2, <3>1 DEF Inv, OneCommand
  <2>. QED
    BY <2>1, <2>2
<1>8. ASSUME NEW X, X.inst[i].bal \in Int,
             i \notin contested' \cup raised' =>
               \A q \in Replicas : Proposer(q, i) /\ X.inst[i].bal = rep[q].inst[i].lb.tried =>
                 Held(q, i) \/ (q # r /\ X.inst[i] # NoInst /\ X.inst[i].cmds = Proposal(q, i))
      PROVE  Truthful(r, X, a(X))
  <2>1. PICK n : n = a(X)
    OBVIOUS
  <2>2. n \in Messages
    BY <1>8, <2>1 DEF Messages
  <2>3. n.type = "acceptReply" /\ n.to = p /\ n.inst = i /\ n.bal = X.inst[i].bal
    BY <2>1
  <2>4. Truthful(r, X, n)
    BY <1>7, <1>8, <2>2, <2>3 DEF Truthful
  <2>. QED
    BY <2>1, <2>4
<1>. HIDE DEF A, a, y
<1>9. CASE become(r, S) /\ answer(m, {a(S)}) /\ ~ accepting(x, m)
  <2>1. x \in Insts /\ x # NoInst /\ x.bal \in Int /\ (x.bal > m.bal \/ x.status = "committed")
    <3>1. x # NoInst /\ (x.status = "committed" \/ ~ (m.bal >= x.bal))
      BY <1>9 DEF accepting
    <3>2. x \in Insts
      BY <1>6, <3>1, RepFields
    <3>3. x.bal \in Int
      BY <3>2 DEF Insts
    <3>. QED
      BY <1>0, <3>1, <3>2, <3>3
  <2>2. ASSUME i \notin contested' \cup raised', NEW q \in Replicas, Proposer(q, i),
               S.inst[i].bal = rep[q].inst[i].lb.tried
        PROVE  Held(q, i)
    <3>1. i \notin contested /\ i \notin raised
      BY <1>5, <1>9, <2>2 DEF become
    <3>2. q = p /\ Sole(p, i)
      BY <1>7, <2>2, <3>1, ProposerFacts DEF Sole
    <3>3. m.bal = rep[p].inst[i].lb.tried
      BY <1>0, <1>2, <3>1, <3>2 DEF Inv, OneBallot
    <3>4. x.status = "committed"
      BY <1>0, <2>1, <2>2, <3>2, <3>3
    <3>5. rep[r].inst[i] # NoInst /\ rep[r].inst[i].status = "committed"
      BY <1>6, <2>1, <3>4
    <3>. QED
      BY <3>1, <3>2, <3>5 DEF Inv, OneBallot
  <2>3. \A n \in {a(S)} : Truthful(r, S, n)
    BY <1>8, <2>1, <2>2
  <2>4. Step(r, S, {a(S)})
    BY <1>5, <1>6, <1>9, <2>3, HandlerStep DEF Reaches
  <2>. QED
    BY <1>1, <2>4
<1>10. CASE become(r, A) /\ answer(m, {a(A)}) /\ accepting(x, m)
  <2>0. x # NoInst => x \in Insts /\ x.lb \in Bookkeeping \cup {NoLB} /\ x.bal \in Int /\ m.bal >= x.bal
    BY <1>6, <1>10, RepFields DEF Insts, accepting
  <2>1. PICK z : z = y
    OBVIOUS
  <2>2. /\ z \in Insts /\ z.cmds = m.cmds /\ z.bal = m.bal /\ z.status = "accepted"
        /\ x = NoInst => z.lb = NoLB
        /\ x # NoInst => z.lb = x.lb
    BY <1>0, <2>0, <2>1 DEF Insts, y
  <2>3. S.crt \in Int /\ S.crt \in Instances \cup {-1} /\ i \in Int
    BY <1>6, RepFields, Config
  <2>4. PICK c : c = Max({S.crt, i})
    OBVIOUS
  <2>5. c \in Instances \cup {-1} /\ c \in Int /\ c >= S.crt /\ c >= i /\ (c = S.crt \/ c = i)
    BY <2>3, <2>4, MaxFacts
  <2>6. PICK X : X = A
    OBVIOUS
  <2>7. X = [With(S, i, z) EXCEPT !.crt = c]
    <3>1. X = [S EXCEPT !.crt = c, !.inst[i] = z]
      BY <2>1, <2>4, <2>6, Zenon DEF A
    <3>. QED
      BY <1>6, <3>1 DEF With, Reps
  <2>8. PICK V : V = With(S, i, z)
    OBVIOUS
  <2>9. /\ V \in Reps /\ V.inst[i] = z /\ \A k \in Instances : k # i => V.inst[k] = S.inst[k]
        /\ V.maxRecv = S.maxRecv /\ V.dflt = S.dflt /\ V.leader = S.leader
    BY <1>6, <2>2, <2>8, WithFacts
  <2>10. /\ X \in Reps /\ X.inst = V.inst /\ X.crt = c
         /\ X.maxRecv = V.maxRecv /\ X.dflt = V.dflt /\ X.leader = V.leader
    BY <2>5, <2>7, <2>8, <2>9 DEF Reps
  <2>11. X.inst[i] = z /\ \A k \in Instances : k # i => X.inst[k] = rep[r].inst[k]
    BY <1>6, <2>9, <2>10
  <2>12. Touches(r, X, i)
    <3>1. i \notin contested' => Takes(r, X, i) /\ Commits(r, X, i)
      BY <1>5, <1>7, <2>2, <2>11 DEF Takes, Commits
    <3>2. rep[r].inst[i] # NoInst => X.inst[i].bal >= rep[r].inst[i].bal /\ X.inst[i].lb = rep[r].inst[i].lb
      BY <1>6, <2>0, <2>2, <2>11
    <3>3. rep[r].inst[i] = NoInst => X.inst[i].lb = NoLB
      BY <1>6, <2>2, <2>11
    <3>4. i <= X.crt /\ X.inst[i] \in Insts
      BY <2>2, <2>3, <2>5, <2>10, <2>11
    <3>. QED
      BY <1>5, <1>7, <2>10, <3>1, <3>2, <3>3, <3>4, TouchesAcceptor
  <2>13. Reaches(r, X)
    BY <1>6, <1>7, <2>5, <2>10 DEF Reaches
  <2>14. X.dflt[r] <= Reach(X, r)
    BY <1>6, <2>9, <2>10, SameReach
  <2>15. \A n \in {a(X)} : Truthful(r, X, n)
    <3>1. X.inst[i] # NoInst /\ X.inst[i].bal \in Int
      BY <1>0, <2>2, <2>11, NoneFacts
    <3>2. i \notin contested' => \A q \in Replicas : Proposer(q, i) => q = p /\ X.inst[i].cmds = Proposal(q, i)
      BY <1>5, <1>7, <2>2, <2>11, ProposerFacts
    <3>. QED
      BY <1>7, <1>8, <3>1, <3>2
  <2>16. become(r, X) /\ answer(m, {a(X)})
    BY <1>10, <2>6
  <2>17. Step(r, X, {a(X)})
    BY <1>5, <1>6, <2>9, <2>10, <2>11, <2>12, <2>13, <2>14, <2>15, <2>16, HandlerStep
  <2>. QED
    BY <1>1, <2>17
<1>. QED
  BY <1>5, <1>9, <1>10

\* A replica whose state stays as it is.
LEMMA Stays ==
  ASSUME Inv, NEW r \in Replicas, UNCHANGED <<rep, raised>>
  PROVE  become(r, rep[r])
<1>1. rep' = [rep EXCEPT ![r] = rep[r]]
  BY DEF Inv, Types
<1>. QED
  BY <1>1 DEF become

\* The state of a replica extends itself.
LEMMA OwnState ==
  ASSUME Inv, NEW r \in Replicas
  PROVE  /\ rep[r] \in Reps /\ rep[r].maxRecv >= rep[r].maxRecv /\ rep[r].dflt[r] <= Reach(rep[r], r)
         /\ Reach(rep[r], r) \in Int
<1>1. rep[r] \in Reps /\ rep[r].dflt[r] <= Reach(rep[r], r)
  BY DEF Inv, Types, Defaults
<1>2. rep[r].maxRecv \in Int
  BY <1>1, RepFields
<1>3. rep[r].maxRecv <= rep[r].maxRecv
  BY <1>2
<1>. QED
  BY <1>1, <1>2, <1>3, ReachGrows

LEMMA CommitShortStep ==
  ASSUME Inv, NEW m, handleCommitShort(m)
  PROVE  \E R, ms : Step(m.to, R, ms)
<1>0. /\ m \in DOMAIN msgs /\ m.type = "commitShort" /\ m.bal \in Int
      /\ m.to \in Replicas /\ m.from \in Replicas /\ m.inst \in Instances
      /\ m.to # m.from /\ Proposer(m.from, m.inst)
      /\ m.inst \notin contested => ~ Proposer(m.to, m.inst)
  <2>1. m \in DOMAIN msgs /\ m \in Messages /\ m.type = "commitShort"
    BY Arrived DEF handleCommitShort
  <2>. QED
    BY <2>1, RequestFacts
<1>1. PICK r \in Replicas : r = m.to
  BY <1>0
<1>2. PICK i \in Instances : i = m.inst
  BY <1>0
<1>3. PICK x : x = rep[r].inst[i]
  OBVIOUS
<1>. DEFINE C == [rep[r] EXCEPT !.inst[i] = [x EXCEPT !.status = "committed", !.bal = m.bal]]
<1>4. /\ UNCHANGED <<pending, executed, toRecover, contested, answered>> /\ answer(m, {})
      /\ \/ UNCHANGED <<rep, raised>>
         \/ become(r, C) /\ x # NoInst /\ ~ (m.bal < x.bal)
  BY <1>1, <1>2, <1>3, Zenon DEF handleCommitShort
<1>5. rep[r] \in Reps /\ rep[r].maxRecv >= rep[r].maxRecv /\ rep[r].dflt[r] <= Reach(rep[r], r)
  BY OwnState
<1>6. CASE UNCHANGED <<rep, raised>>
  <2>1. Step(r, rep[r], {})
    BY <1>4, <1>5, <1>6, Stays, HandlerStep DEF Reaches
  <2>. QED
    BY <1>1, <2>1
<1>7. CASE become(r, C) /\ x # NoInst /\ ~ (m.bal < x.bal)
  <2>0. x \in Insts /\ x.bal \in Int /\ i <= rep[r].crt
    BY <1>3, <1>5, <1>7, RepFields DEF Insts, Inv, Known
  <2>1. PICK y : y = [x EXCEPT !.status = "committed", !.bal = m.bal]
    OBVIOUS
  <2>2. y \in Insts /\ y.lb = x.lb /\ y.cmds = x.cmds /\ y.bal = m.bal
    BY <1>0, <2>0, <2>1 DEF Insts
  <2>3. PICK X : X = C
    OBVIOUS
  <2>4. X = With(rep[r], i, y)
    BY <2>1, <2>3 DEF With
  <2>5. /\ X \in Reps /\ X.inst[i] = y /\ \A k \in Instances : k # i => X.inst[k] = rep[r].inst[k]
        /\ X.crt = rep[r].crt /\ X.maxRecv = rep[r].maxRecv /\ X.dflt = rep[r].dflt /\ X.leader = rep[r].leader
    BY <1>5, <2>2, <2>4, WithFacts
  <2>6. ASSUME i \notin contested' \cup raised' PROVE Accepted(i)
    <3>1. i \notin contested /\ i \notin raised
      BY <1>4, <1>7, <2>6 DEF become
    <3>2. Held(m.from, i) /\ \A q \in Replicas : Proposer(q, i) => q = m.from
      BY <1>0, <1>2, <3>1, ProposerFacts DEF Inv, OneBallot, Sole
    <3>. QED
      BY <3>2 DEF Accepted
  <2>7. Touches(r, X, i)
    <3>1. Takes(r, X, i)
      BY <1>3, <1>7, <2>2, <2>5 DEF Takes
    <3>2. i \notin contested' => (i \notin raised' => Commits(r, X, i))
      BY <2>6 DEF Commits
    <3>3. X.inst[i].bal >= rep[r].inst[i].bal /\ X.inst[i].lb = rep[r].inst[i].lb /\ i <= X.crt /\ X.inst[i] \in Insts
      BY <1>0, <1>3, <1>7, <2>0, <2>2, <2>5
    <3>. QED
      BY <1>0, <1>1, <1>2, <1>3, <1>4, <1>7, <2>5, <3>1, <3>2, <3>3, TouchesAcceptor
  <2>8. X.dflt[r] <= Reach(X, r)
    BY <1>5, <2>5, SameReach
  <2>9. Step(r, X, {})
    BY <1>4, <1>5, <1>7, <2>3, <2>5, <2>7, <2>8, HandlerStep DEF Reaches
  <2>. QED
    BY <1>1, <2>9
<1>. QED
  BY <1>4, <1>6, <1>7

\* A Commit goes to a proposer, who gives its proposals back: that contests the
\* instance.
LEMMA CommitStep ==
  ASSUME Inv, NEW m, handleCommit(m)
  PROVE  \E R, ms : Step(m.to, R, ms)
<1>0. /\ m \in DOMAIN msgs /\ m.type = "commit" /\ m.bal \in Int /\ m.cmds \in Values
      /\ m.to \in Replicas /\ m.inst \in Instances /\ Proposer(m.to, m.inst)
  <2>1. m \in DOMAIN msgs /\ m \in Messages /\ m.type = "commit"
    BY Arrived DEF handleCommit
  <2>. QED
    BY <2>1, MessageFields DEF Inv, Addressed
<1>1. PICK r \in Replicas : r = m.to
  BY <1>0
<1>2. PICK i \in Instances : i = m.inst
  BY <1>0
<1>3. PICK x : x = rep[r].inst[i]
  OBVIOUS
<1>4. x \in Insts /\ x.lb \in Bookkeeping /\ i <= rep[r].crt /\ x # NoInst /\ x.lb # NoLB
  BY <1>0, <1>1, <1>2, <1>3, ProposerFacts DEF Proposer
<1>5. withInst(rep[r], r, i) = rep[r]
  BY <1>3, <1>4 DEF withInst
<1>. DEFINE mine == x.lb # NoLB /\ x.lb.proposals # "nil"
            y == [x EXCEPT !.cmds = m.cmds, !.bal = m.bal, !.vbal = m.bal, !.status = "committed",
                           !.lb = IF mine THEN [@ EXCEPT !.proposals = "nil"] ELSE @]
            C == [rep[r] EXCEPT !.inst[i] = y]
            ignored == x.status = "committed" \/ m.bal < x.bal
<1>6. /\ become(r, IF ignored THEN rep[r] ELSE C)
      /\ pending' = IF ~ ignored /\ mine THEN [pending EXCEPT ![r] = @ \cup {x.lb.proposals}] ELSE pending
      /\ contested' = IF ~ ignored /\ mine THEN contested \cup {i} ELSE contested
      /\ answer(m, {}) /\ UNCHANGED <<executed, toRecover, answered>>
  <2>1. PICK R : R = withInst(rep[r], r, i)
    OBVIOUS
  <2>2. R = rep[r] /\ R.inst[i] = x
    BY <1>3, <1>5, <2>1
  <2>. QED
    BY <1>1, <1>2, <1>5, <2>2, Zenon DEF handleCommit
<1>7. rep[r] \in Reps /\ rep[r].maxRecv >= rep[r].maxRecv /\ rep[r].dflt[r] <= Reach(rep[r], r)
  BY OwnState
<1>8. CASE ignored
  <2>1. become(r, rep[r]) /\ UNCHANGED <<pending, contested>>
    BY <1>6, <1>8
  <2>2. Step(r, rep[r], {})
    BY <1>6, <1>7, <2>1, HandlerStep DEF Reaches
  <2>. QED
    BY <1>1, <2>2
<1>9. CASE ~ ignored
  <2>1. PICK l : l = IF mine THEN [x.lb EXCEPT !.proposals = "nil"] ELSE x.lb
    OBVIOUS
  <2>2. l \in Bookkeeping
    BY <1>4, <2>1 DEF Bookkeeping
  <2>3. PICK z : z = [x EXCEPT !.cmds = m.cmds, !.bal = m.bal, !.vbal = m.bal, !.status = "committed", !.lb = l]
    OBVIOUS
  <2>4. z \in Insts /\ z.lb = l
    BY <1>0, <1>4, <2>2, <2>3 DEF Insts
  <2>5. PICK X : X = C
    OBVIOUS
  <2>6. X = With(rep[r], i, z)
    BY <2>1, <2>3, <2>5 DEF With
  <2>7. /\ X \in Reps /\ X.inst[i] = z /\ \A k \in Instances : k # i => X.inst[k] = rep[r].inst[k]
        /\ X.crt = rep[r].crt /\ X.maxRecv = rep[r].maxRecv /\ X.dflt = rep[r].dflt /\ X.leader = rep[r].leader
    BY <1>7, <2>4, <2>6, WithFacts
  <2>8. contested \subseteq contested' /\ contested' \subseteq Instances /\ i \in contested'
    <3>1. i \notin contested => x.lb.proposals \in Commands
      BY <1>0, <1>1, <1>2, <1>3, ProposerFacts DEF Proposal
    <3>2. i \notin contested => mine
      BY <1>4, <3>1, CommandFacts
    <3>3. contested \subseteq Instances
      BY DEF Inv, Types
    <3>. QED
      BY <1>6, <1>9, <3>2, <3>3
  <2>9. pending' \in [Replicas -> SUBSET Commands]
    <3>1. pending \in [Replicas -> SUBSET Commands]
      BY DEF Inv, Types
    <3>2. mine => x.lb.proposals \in Commands
      BY <1>4 DEF Bookkeeping
    <3>. QED
      BY <1>6, <3>1, <3>2
  <2>10. Touches(r, X, i)
    <3>1. X.inst[i] # NoInst /\ X.inst[i].lb # NoLB /\ i <= X.crt
      BY <1>4, <2>2, <2>4, <2>7, NoneFacts
    <3>. QED
      BY <2>8, <3>1 DEF Touches
  <2>11. Frame(r, X, {})
    <3>1. toRecover' = toRecover /\ DOMAIN msgs' \subseteq DOMAIN msgs \cup {} /\ UNCHANGED <<executed, answered>>
      BY <1>6, AnswerFacts
    <3>2. become(r, X)
      BY <1>6, <1>9, <2>5
    <3>3. /\ toRecover \in [Replicas -> Seq(Instances)]
          /\ \A q \in Replicas : \A k \in DOMAIN toRecover[q] : toRecover[q][k] <= rep[q].crt
      BY DEF Inv, Types, Known
    <3>. QED
      BY <2>8, <2>9, <3>1, <3>2, <3>3 DEF Frame
  <2>12. X.dflt[r] <= Reach(X, r)
    BY <1>7, <2>7, SameReach
  <2>13. Step(r, X, {})
    BY <1>7, <2>7, <2>10, <2>11, <2>12, MakesStep DEF Reaches
  <2>. QED
    BY <1>1, <2>13
<1>. QED
  BY <1>8, <1>9

LEMMA LeaderStep ==
  ASSUME Inv, NEW r \in Replicas, BeTheLeader(r)
  PROVE  \E R, ms : Step(r, R, ms)
<1>1. PICK X : X = [rep[r] EXCEPT !.leader = TRUE]
  OBVIOUS
<1>2. /\ rep[r] \in Reps /\ rep[r].maxRecv >= rep[r].maxRecv /\ rep[r].dflt[r] <= Reach(rep[r], r)
  BY OwnState
<1>3. /\ X \in Reps /\ X.inst = rep[r].inst /\ X.leader = TRUE
      /\ X.crt = rep[r].crt /\ X.maxRecv = rep[r].maxRecv /\ X.dflt = rep[r].dflt
  BY <1>1, <1>2 DEF Reps
<1>4. become(r, X) /\ UNCHANGED <<pending, executed, toRecover, msgs, contested, answered>>
  BY <1>1 DEF BeTheLeader
<1>5. Frame(r, X, {})
  BY <1>4, HandlerFrame
<1>6. X.dflt[r] <= Reach(X, r)
  BY <1>2, <1>3, SameReach
<1>7. Step(r, X, {})
  BY <1>2, <1>3, <1>5, <1>6, MakesStep DEF Reaches
<1>. QED
  BY <1>7

-----------------------------------------------------------------------------
(* Proposing and recovering *)

\* Who else proposes an instance contests it.
LEMMA ProposingFacts ==
  ASSUME Inv, NEW r \in Replicas, NEW i \in Instances, proposing(r, i)
  PROVE  /\ contested \subseteq contested' /\ contested' \subseteq Instances
         /\ i \notin contested' => \A q \in Replicas : Proposer(q, i) => q = r
<1>1. contested' = IF \E q \in Replicas \ {r} : Proposer(q, i) THEN contested \cup {i} ELSE contested
  BY DEF proposing, Peers, Proposer
<1>2. contested \subseteq Instances
  BY DEF Inv, Types
<1>. QED
  BY <1>1, <1>2

LEMMA ProposeStep ==
  ASSUME Inv, NEW r \in Replicas, NEW c, handlePropose(r, c)
  PROVE  \E R, ms : Step(r, R, ms)
<1>0. /\ rep[r] \in Reps /\ rep[r].maxRecv >= rep[r].maxRecv /\ rep[r].dflt[r] <= Reach(rep[r], r)
      /\ rep[r].leader /\ Reach(rep[r], r) \in Int
  BY OwnState DEF handlePropose
<1>1. PICK i \in Instances : i = rep[r].crt + 1
  BY DEF handlePropose
<1>2. PICK n : n = makeBallot(rep[r], r)
  OBVIOUS
<1>3. n \in Nat /\ n >= rep[r].dflt[r] /\ n <= Reach(rep[r], r)
  BY <1>0, <1>2, MakeBallotFacts
<1>4. c \in Commands /\ c \in Values /\ pending' \in [Replicas -> SUBSET Commands]
  <2>1. pending \in [Replicas -> SUBSET Commands] /\ c \in pending[r]
    BY DEF Inv, Types, handlePropose
  <2>2. pending' = [pending EXCEPT ![r] = pending[r] \ {c}]
    BY DEF handlePropose
  <2>. QED
    BY <2>1, <2>2 DEF Values
<1>. DEFINE R == [rep[r] EXCEPT !.crt = i, !.dflt[r] = n,
                                !.inst[i] = NewInst(rep[r], r, [LB(c, r) EXCEPT !.tried = n])]
            A == [R EXCEPT !.inst[i] = [cmds |-> c, bal |-> n, vbal |-> n, status |-> "accepted",
                                        lb |-> [R.inst[i].lb EXCEPT !.cmds = c]]]
<1>5. /\ \/ become(r, R) /\ send(bcastPrepare(R, r, i))
         \/ become(r, A) /\ send(bcastAccept(A, r, i))
      /\ proposing(r, i) /\ UNCHANGED <<executed, toRecover, answered>>
  BY <1>1, <1>2, Zenon DEF handlePropose
<1>6. PICK l : l = [LB(c, r) EXCEPT !.tried = n]
  OBVIOUS
<1>7. l \in Bookkeeping /\ l.proposals = c /\ l.tried = n
  <2>1. r \in Int
    BY Config
  <2>. QED
    BY <1>3, <1>4, <1>6, <2>1 DEF LB, Bookkeeping, Values
<1>8. PICK x : x = NewInst(rep[r], r, l)
  OBVIOUS
<1>9. x \in Insts /\ x.lb = l /\ x.cmds = "nil" /\ x.bal = rep[r].dflt[r] /\ x.status = "preparing"
  <2>1. rep[r].dflt[r] \in Int
    BY <1>0, RepFields
  <2>. QED
    BY <1>7, <1>8, <2>1 DEF NewInst, Insts, Values
<1>10. PICK Q : Q = R
  OBVIOUS
<1>11. PICK d : d = [rep[r].dflt EXCEPT ![r] = n]
  OBVIOUS
<1>12. d \in [Replicas -> Nat \cup {-1}] /\ d[r] = n
  <2>1. rep[r].dflt \in [Replicas -> Nat \cup {-1}]
    BY <1>0, RepFields
  <2>. QED
    BY <1>3, <1>11, <2>1
<1>13. Q = [With(rep[r], i, x) EXCEPT !.crt = i, !.dflt = d]
  <2>1. Q = [rep[r] EXCEPT !.crt = i, !.dflt[r] = n, !.inst[i] = x]
    BY <1>6, <1>8, <1>10, Zenon
  <2>. QED
    BY <1>0, <1>11, <2>1 DEF With, Reps
<1>14. PICK V : V = With(rep[r], i, x)
  OBVIOUS
<1>15. /\ V \in Reps /\ V.inst[i] = x /\ \A k \in Instances : k # i => V.inst[k] = rep[r].inst[k]
       /\ V.maxRecv = rep[r].maxRecv /\ V.leader = rep[r].leader
  <2>1. rep[r] \in Reps /\ x \in Insts
    BY <1>0, <1>9
  <2>. HIDE DEF R
  <2>. QED
    BY <1>14, <2>1, WithFacts
<1>16. /\ Q \in Reps /\ Q.inst = V.inst /\ Q.crt = i /\ Q.dflt = d
       /\ Q.maxRecv = V.maxRecv /\ Q.leader = V.leader
  BY <1>12, <1>13, <1>14, <1>15 DEF Reps
<1>17. /\ Q.inst[i] = x /\ Q.crt = i /\ Q.dflt[r] = n /\ Q.maxRecv = rep[r].maxRecv /\ Q.leader = rep[r].leader
       /\ \A k \in Instances : k # i => Q.inst[k] = rep[r].inst[k]
  BY <1>12, <1>15, <1>16
<1>18. rep[r].inst[i] = NoInst /\ ~ Proposer(r, i) /\ rep[r].crt \in Int
  <2>1. rep[r].crt \in Int
    BY <1>0, RepFields
  <2>2. ~ (i <= rep[r].crt)
    BY <1>1, <2>1
  <2>. QED
    BY <2>1, <2>2 DEF Inv, Known, Proposer
<1>19. /\ contested \subseteq contested' /\ contested' \subseteq Instances
       /\ i \notin contested' => \A q \in Replicas : ~ Proposer(q, i)
  BY <1>5, <1>18, ProposingFacts
<1>20. ASSUME NEW X \in Reps, X.crt = i, X.dflt[r] = n, X.maxRecv = rep[r].maxRecv, X.leader = rep[r].leader,
              \A k \in Instances : k # i => X.inst[k] = rep[r].inst[k],
              X.inst[i] \in Insts, X.inst[i].lb \in Bookkeeping,
              X.inst[i].lb.proposals = c, X.inst[i].lb.tried = n, X.inst[i].cmds \in {"nil", c},
              X.inst[i].bal <= n, X.inst[i].bal \in Int, X.inst[i].status # "committed",
              NEW ms, become(r, X), send(ms), \A v \in ms : Truthful(r, X, v)
       PROVE  Step(r, X, ms)
  <2>1. X.inst[i] # NoInst /\ X.inst[i].lb # NoLB /\ i <= X.crt
    BY <1>20, NoneFacts, Config
  <2>2. Starts(r, X, i)
    BY <1>18, <2>1 DEF Starts
  <2>3. Reach(X, r) = Reach(rep[r], r)
    BY <1>20, SameReach
  <2>4. Touches(r, X, i)
    <3>1. ASSUME i \notin contested' PROVE Treats(r, X, i)
      <4>1. Opens(r, X, i)
        BY <1>0, <1>4, <1>19, <1>20, <3>1 DEF Opens
      <4>2. X.inst[i].bal <= Reach(X, r) /\ X.inst[i].bal <= X.inst[i].lb.tried
        BY <1>0, <1>3, <1>20, <2>3
      <4>. QED
        BY <1>18, <2>2, <4>1, <4>2 DEF Treats
    <3>. QED
      BY <1>18, <2>1, <3>1 DEF Touches
  <2>5. Reaches(r, X)
    BY <1>1, <1>18, <1>20, <2>2 DEF Reaches
  <2>6. Frame(r, X, ms)
    <3>1. /\ toRecover \in [Replicas -> Seq(Instances)]
          /\ \A q \in Replicas : \A k \in DOMAIN toRecover[q] : toRecover[q][k] <= rep[q].crt
      BY DEF Inv, Types, Known
    <3>2. DOMAIN msgs' \subseteq DOMAIN msgs \cup ms
      BY <1>20, SendFacts
    <3>. QED
      BY <1>4, <1>5, <1>19, <1>20, <3>1, <3>2 DEF Frame
  <2>7. X.dflt[r] <= Reach(X, r)
    BY <1>3, <1>20, <2>3
  <2>. QED
    BY <1>0, <1>20, <2>4, <2>5, <2>6, <2>7, MakesStep
<1>. HIDE DEF R
<1>21. CASE become(r, R) /\ send(bcastPrepare(R, r, i))
  <2>1. become(r, Q) /\ send(bcastPrepare(Q, r, i))
    BY <1>10, <1>21
  <2>2. \A v \in bcastPrepare(Q, r, i) : Truthful(r, Q, v)
    BY <1>7, <1>9, <1>17, PrepareTruthful
  <2>3. Q.inst[i].bal \in Int
    BY <1>9, <1>17 DEF Insts
  <2>4. Q.inst[i].bal <= n
    BY <1>3, <1>9, <1>17
  <2>5. Step(r, Q, bcastPrepare(Q, r, i))
    BY <1>7, <1>9, <1>16, <1>17, <1>20, <2>1, <2>2, <2>3, <2>4
  <2>. QED
    BY <2>5
<1>22. CASE become(r, A) /\ send(bcastAccept(A, r, i))
  <2>1. PICK g : g = [l EXCEPT !.cmds = c]
    OBVIOUS
  <2>2. g \in Bookkeeping /\ g.cmds = c /\ g.proposals = c /\ g.tried = n
    BY <1>4, <1>7, <2>1, ChosenFacts
  <2>3. PICK y : y = [cmds |-> c, bal |-> n, vbal |-> n, status |-> "accepted", lb |-> g]
    OBVIOUS
  <2>4. y \in Insts /\ y.lb = g /\ y.cmds = c /\ y.bal = n /\ y.status = "accepted"
    BY <1>3, <1>4, <2>2, <2>3 DEF Insts
  <2>5. PICK X : X = A
    OBVIOUS
  <2>6. X = With(Q, i, y)
    <3>1. X = [Q EXCEPT !.inst[i] = [cmds |-> c, bal |-> n, vbal |-> n, status |-> "accepted",
                                     lb |-> [Q.inst[i].lb EXCEPT !.cmds = c]]]
      BY <1>10, <2>5, Zenon
    <3>2. Q.inst[i].lb = l
      BY <1>9, <1>17
    <3>. QED
      BY <2>1, <2>3, <3>1, <3>2 DEF With
  <2>7. /\ X \in Reps /\ X.inst[i] = y /\ \A k \in Instances : k # i => X.inst[k] = Q.inst[k]
        /\ X.crt = Q.crt /\ X.maxRecv = Q.maxRecv /\ X.dflt = Q.dflt /\ X.leader = Q.leader
    BY <1>16, <2>4, <2>6, WithFacts
  <2>8. become(r, X) /\ send(bcastAccept(X, r, i))
    BY <1>22, <2>5
  <2>9. \A v \in bcastAccept(X, r, i) : Truthful(r, X, v)
    BY <1>4, <2>2, <2>4, <2>7, AcceptTruthful
  <2>10. /\ X.crt = i /\ X.dflt[r] = n /\ X.maxRecv = rep[r].maxRecv /\ X.leader = rep[r].leader
         /\ \A k \in Instances : k # i => X.inst[k] = rep[r].inst[k]
    BY <1>17, <2>7
  <2>11. X.inst[i].bal \in Int /\ X.inst[i].bal <= n
    BY <1>3, <2>4, <2>7
  <2>12. Step(r, X, bcastAccept(X, r, i))
    <3>. HIDE DEF A
    <3>. QED
      BY <1>20, <2>2, <2>4, <2>7, <2>8, <2>9, <2>10, <2>11
  <2>. QED
    BY <2>12
<1>. QED
  BY <1>5, <1>21, <1>22

LEMMA RecoverStep ==
  ASSUME Inv, NEW r \in Replicas, recover(r)
  PROVE  \E R, ms : Step(r, R, ms)
<1>0. /\ rep[r] \in Reps /\ rep[r].maxRecv >= rep[r].maxRecv /\ rep[r].dflt[r] <= Reach(rep[r], r)
      /\ Reach(rep[r], r) \in Int /\ rep[r].dflt[r] \in Int
  BY OwnState, RepFields
<1>1. /\ toRecover \in [Replicas -> Seq(Instances)] /\ toRecover[r] \in Seq(Instances) /\ toRecover[r] # <<>>
      /\ toRecover' = [toRecover EXCEPT ![r] = Tail(toRecover[r])]
  BY DEF Inv, Types, recover
<1>2. PICK i \in Instances : i = Head(toRecover[r]) /\ i <= rep[r].crt
  <2>1. Head(toRecover[r]) = toRecover[r][1] /\ 1 \in DOMAIN toRecover[r] /\ Head(toRecover[r]) \in Instances
    BY <1>1
  <2>. QED
    BY <2>1 DEF Inv, Known
<1>3. /\ toRecover' \in [Replicas -> Seq(Instances)]
      /\ \A q \in Replicas : \A k \in DOMAIN toRecover'[q] : toRecover'[q][k] <= rep[q].crt
  <2>1. /\ Tail(toRecover[r]) \in Seq(Instances)
        /\ \A k \in DOMAIN Tail(toRecover[r]) :
             k + 1 \in DOMAIN toRecover[r] /\ Tail(toRecover[r])[k] = toRecover[r][k + 1]
    BY <1>1
  <2>2. /\ toRecover'[r] = Tail(toRecover[r])
        /\ \A q \in Replicas : q # r => toRecover'[q] = toRecover[q]
        /\ toRecover' \in [Replicas -> Seq(Instances)]
    BY <1>1, <2>1
  <2>3. \A q \in Replicas : \A k \in DOMAIN toRecover[q] : toRecover[q][k] <= rep[q].crt
    BY DEF Inv, Known
  <2>4. PICK t : t = Tail(toRecover[r])
    OBVIOUS
  <2>5. \A k \in DOMAIN t : t[k] <= rep[r].crt
    BY <2>1, <2>3, <2>4
  <2>. QED
    BY <2>2, <2>3, <2>4, <2>5
<1>. DEFINE R == IF rep[r].inst[i] # NoInst THEN rep[r]
                 ELSE [rep[r] EXCEPT !.inst[i] = NewInst(rep[r], r, NoLB)]
            W == [R EXCEPT !.inst[i].lb = [recoveryLB(R.inst[i]) EXCEPT !.tried = makeBallot(R, r)]]
<1>4. become(r, W) /\ send(bcastPrepare(W, r, i)) /\ proposing(r, i) /\ UNCHANGED <<pending, executed, answered>>
  BY <1>2, Zenon DEF recover
<1>5. PICK Q : Q = R
  OBVIOUS
<1>6. /\ Q \in Reps /\ Q.inst[i] \in Insts /\ \A k \in Instances : k # i => Q.inst[k] = rep[r].inst[k]
      /\ Q.crt = rep[r].crt /\ Q.maxRecv = rep[r].maxRecv /\ Q.dflt = rep[r].dflt /\ Q.leader = rep[r].leader
      /\ rep[r].inst[i] # NoInst => Q = rep[r]
  <2>1. CASE rep[r].inst[i] # NoInst
    BY <1>0, <1>5, <2>1, RepFields
  <2>2. CASE rep[r].inst[i] = NoInst
    <3>1. PICK x : x = NewInst(rep[r], r, NoLB)
      OBVIOUS
    <3>2. x \in Insts
      BY <1>0, <3>1 DEF NewInst, Insts, Values
    <3>3. Q = With(rep[r], i, x)
      BY <1>5, <2>2, <3>1 DEF With
    <3>. HIDE DEF R
    <3>. QED
      BY <1>0, <2>2, <3>2, <3>3, WithFacts
  <2>. QED
    BY <2>1, <2>2
<1>7. PICK n \in Nat : n = makeBallot(Q, r) /\ (Q.leader => n >= Reach(Q, r))
  BY <1>6, MakeBallotFacts
<1>8. PICK l : l = [recoveryLB(Q.inst[i]) EXCEPT !.tried = n]
  OBVIOUS
<1>9. /\ l \in Bookkeeping /\ l.tried = n
      /\ Q.inst[i].lb # NoLB => l.proposals = Q.inst[i].lb.proposals
  <2>1. CASE Q.inst[i].lb = NoLB
    <3>1. l = [LB("nil", -1) EXCEPT !.tried = n]
      BY <1>8, <2>1 DEF recoveryLB
    <3>2. l \in Bookkeeping /\ l.tried = n
      BY <3>1 DEF LB, Bookkeeping, Values
    <3>. QED
      BY <2>1, <3>2
  <2>2. CASE Q.inst[i].lb # NoLB
    <3>1. Q.inst[i].lb \in Bookkeeping
      BY <1>6, <2>2 DEF Insts
    <3>2. l = [Q.inst[i].lb EXCEPT !.tried = n]
      BY <1>8, <2>2 DEF recoveryLB
    <3>. QED
      BY <3>1, <3>2 DEF Bookkeeping
  <2>. QED
    BY <2>1, <2>2
<1>. HIDE DEF R
<1>10. PICK X : X = W
  OBVIOUS
<1>11. X = Books(Q, i, l)
  <2>1. X = [Q EXCEPT !.inst[i].lb = l]
    BY <1>5, <1>7, <1>8, <1>10, Zenon
  <2>. QED
    BY <2>1 DEF Books, With
<1>12. become(r, X) /\ send(bcastPrepare(X, r, i))
  BY <1>4, <1>10, Zenon
<1>. HIDE DEF W
<1>13. /\ X \in Reps /\ X.inst[i] \in Insts /\ X.inst[i].lb = l
       /\ X.inst[i].cmds = Q.inst[i].cmds /\ X.inst[i].bal = Q.inst[i].bal /\ X.inst[i].status = Q.inst[i].status
       /\ \A k \in Instances : k # i => X.inst[k] = rep[r].inst[k]
       /\ X.crt = rep[r].crt /\ X.maxRecv = rep[r].maxRecv /\ X.dflt = rep[r].dflt /\ X.leader = rep[r].leader
  BY <1>6, <1>9, <1>11, BooksFacts
<1>14. /\ contested \subseteq contested' /\ contested' \subseteq Instances
       /\ i \notin contested' => \A q \in Replicas : Proposer(q, i) => q = r
  BY <1>4, ProposingFacts
<1>15. X.inst[i] # NoInst /\ X.inst[i].lb # NoLB
  BY <1>9, <1>13, NoneFacts
<1>16. Touches(r, X, i)
  <2>1. CASE i \in contested'
    BY <1>2, <1>13, <1>15, <2>1 DEF Touches
  <2>2. CASE i \notin contested'
    <3>1. \E p \in Replicas : Proposer(p, i)
      BY <1>2 DEF Inv, Known
    <3>2. Proposer(r, i) /\ i \notin contested
      BY <1>14, <2>2, <3>1
    <3>3. Q = rep[r] /\ Q.inst[i].lb # NoLB /\ rep[r].leader /\ rep[r].inst[i].bal <= Reach(rep[r], r)
      BY <1>6, <3>2 DEF Proposer, Inv, Proposers, Sole
    <3>4. X.inst[i].lb.proposals = Proposal(r, i)
      BY <1>9, <1>13, <3>3 DEF Proposal
    <3>5. rep[r].inst[i].bal <= X.inst[i].lb.tried
      <4>1. rep[r].inst[i].bal \in Int
        BY <3>2, ProposerFacts DEF Insts
      <4>. QED
        BY <1>0, <1>7, <1>9, <1>13, <3>3, <4>1
    <3>. QED
      BY <1>0, <1>13, <1>14, <1>15, <3>2, <3>3, <3>4, <3>5, TouchesBooks
  <2>. QED
    BY <2>1, <2>2
<1>17. Frame(r, X, bcastPrepare(X, r, i))
  <2>1. pending' \in [Replicas -> SUBSET Commands]
    BY <1>4 DEF Inv, Types
  <2>2. DOMAIN msgs' \subseteq DOMAIN msgs \cup bcastPrepare(X, r, i)
    BY <1>12, SendFacts
  <2>. QED
    BY <1>3, <1>4, <1>12, <1>14, <2>1, <2>2 DEF Frame
<1>18. \A n_1 \in bcastPrepare(X, r, i) : Truthful(r, X, n_1)
  BY <1>9, <1>13, PrepareTruthful
<1>19. X.dflt[r] <= Reach(X, r)
  BY <1>0, <1>13, SameReach
<1>20. Step(r, X, bcastPrepare(X, r, i))
  BY <1>0, <1>13, <1>16, <1>17, <1>18, <1>19, MakesStep DEF Reaches
<1>. QED
  BY <1>20

-----------------------------------------------------------------------------
(* The other actions and the theorems *)

\* What only depends on replicas, messages and the history of proposals.
LEMMA SameProposals ==
  ASSUME Inv, UNCHANGED <<rep, raised, msgs, contested>>
  PROVE  /\ Addressed' /\ Proposers' /\ Defaults' /\ OneBallot'
         /\ \A p \in Replicas, i \in Instances :
              /\ Proposer(p, i)' = Proposer(p, i) /\ Sole(p, i)' = Sole(p, i)
              /\ Proposal(p, i)' = Proposal(p, i) /\ Held(p, i)' = Held(p, i)
<1>1. Addressed'
  BY Zenon DEF Inv, Addressed, Proposer
<1>2. Proposers'
  BY Zenon DEF Inv, Proposers, Sole, Proposer, Proposal, Reach, RoundUp
<1>3. Defaults'
  BY Zenon DEF Inv, Defaults, Reach, RoundUp
<1>4. \A p \in Replicas, i \in Instances :
        /\ Proposer(p, i)' = Proposer(p, i) /\ Sole(p, i)' = Sole(p, i)
        /\ Proposal(p, i)' = Proposal(p, i) /\ Held(p, i)' = Held(p, i)
  BY DEF Sole, Proposer, Held, Proposal
<1>5. OneBallot'
  <2>. SUFFICES ASSUME NEW p \in Replicas, NEW i \in Instances, Sole(p, i)', i \notin raised'
                PROVE  /\ \A m \in DOMAIN msgs' : m.inst = i =>
                            /\ m.type = "accept" => m.bal = rep'[p].inst[i].lb.tried
                            /\ m.type = "acceptReply" /\ m.bal = rep'[p].inst[i].lb.tried => Held(p, i)'
                            /\ m.type = "commitShort" => Held(p, i)'
                       /\ \A q \in Replicas :
                            rep'[q].inst[i] # NoInst /\ rep'[q].inst[i].status = "committed" => Held(p, i)'
    BY Zenon DEF OneBallot
  <2>1. Sole(p, i) /\ i \notin raised /\ Held(p, i)' = Held(p, i) /\ msgs' = msgs /\ rep' = rep
    BY <1>4
  <2>2. /\ \A m \in DOMAIN msgs : m.inst = i =>
             /\ m.type = "accept" => m.bal = rep[p].inst[i].lb.tried
             /\ m.type = "acceptReply" /\ m.bal = rep[p].inst[i].lb.tried => Held(p, i)
             /\ m.type = "commitShort" => Held(p, i)
        /\ \A q \in Replicas :
             rep[q].inst[i] # NoInst /\ rep[q].inst[i].status = "committed" => Held(p, i)
    BY <2>1 DEF Inv, OneBallot
  <2>. QED
    BY <2>1, <2>2
<1>. QED
  BY <1>1, <1>2, <1>3, <1>4, <1>5

LEMMA SameExecution ==
  ASSUME Inv, UNCHANGED <<rep, raised, msgs, contested, executed, answered>>
  PROVE  OneCommand' /\ Answers'
<1>0. /\ rep' = rep /\ executed' = executed /\ answered' = answered /\ msgs' = msgs
      /\ contested' = contested /\ raised' = raised
      /\ \A p \in Replicas, i \in Instances :
           /\ Proposer(p, i)' = Proposer(p, i) /\ Sole(p, i)' = Sole(p, i)
           /\ Proposal(p, i)' = Proposal(p, i) /\ Held(p, i)' = Held(p, i)
  BY SameProposals
<1>1. OneCommand'
  <2>. SUFFICES ASSUME NEW p \in Replicas, NEW i \in Instances, Sole(p, i)'
                PROVE  /\ \A q \in Replicas :
                            /\ rep'[q].inst[i] # NoInst => rep'[q].inst[i].cmds \in {"nil", Proposal(p, i)'}
                            /\ i + 1 \in DOMAIN executed'[q] => executed'[q][i + 1] = Proposal(p, i)'
                       /\ \A m \in DOMAIN msgs' : m.type = "accept" /\ m.inst = i => m.cmds = Proposal(p, i)'
    BY Zenon DEF OneCommand
  <2>. QED
    BY <1>0 DEF Inv, OneCommand
<1>2. Answers'
  <2>. SUFFICES ASSUME NEW a \in answered'
                PROVE  /\ a[1] \in Instances
                       /\ a[1] \notin contested' \cup raised' =>
                            \E p \in Replicas : /\ Proposer(p, a[1])' /\ Proposal(p, a[1])' = a[2]
                                                /\ rep'[p].inst[a[1]].cmds = a[2] /\ Held(p, a[1])'
    BY Zenon DEF Answers
  <2>. QED
    BY <1>0 DEF Inv, Answers
<1>. QED
  BY <1>1, <1>2

LEMMA RejectInv == ASSUME Inv, NEW r \in Replicas, NEW c, RejectPropose(r, c) PROVE Inv'
<1>1. UNCHANGED <<rep, raised, executed, toRecover, msgs, contested, answered>>
  BY DEF RejectPropose
<1>2. pending' \in [Replicas -> SUBSET Commands]
  <2>1. pending \in [Replicas -> SUBSET Commands] /\ pending' = [pending EXCEPT ![r] = pending[r] \ {c}]
    BY DEF RejectPropose, Inv, Types
  <2>. QED
    BY <2>1
<1>3. Types'
  BY <1>1, <1>2 DEF Inv, Types
<1>4. Known'
  BY <1>1, Zenon DEF Inv, Known, Proposer
<1>. QED
  BY <1>1, <1>3, <1>4, SameProposals, SameExecution DEF Inv

LEMMA GraceInv == ASSUME Inv, NEW r \in Replicas, GraceExpires(r) PROVE Inv'
<1>1. UNCHANGED <<rep, raised, pending, executed, msgs, contested, answered>>
  BY DEF GraceExpires
<1>2. PICK i \in Instances : i = Len(executed[r])
  BY DEF GraceExpires
<1>3. PICK s : s = [k \in 1..(rep[r].crt - i + 1) |-> i + k - 1]
  OBVIOUS
<1>4. toRecover' = [toRecover EXCEPT ![r] = toRecover[r] \o s]
  BY <1>2, <1>3 DEF GraceExpires
<1>5. rep[r].crt \in Instances /\ rep[r].crt \in Int /\ i <= rep[r].crt
  <2>1. rep[r] \in Reps /\ i <= rep[r].crt
    BY <1>2 DEF Inv, Types, GraceExpires
  <2>2. rep[r].crt \in Instances \cup {-1} /\ rep[r].crt \in Int
    BY <2>1, RepFields
  <2>. QED
    BY <2>1, <2>2, Config
<1>6. /\ s \in Seq(Instances) /\ \A k \in DOMAIN s : s[k] <= rep[r].crt
  <2>1. \A k \in 1..(rep[r].crt - i + 1) : i + k - 1 \in Instances /\ i + k - 1 <= rep[r].crt
    BY <1>5, Config
  <2>2. rep[r].crt - i + 1 \in Nat
    BY <1>5, Config
  <2>. QED
    BY <1>3, <2>1, <2>2
<1>7. toRecover \in [Replicas -> Seq(Instances)] /\ toRecover[r] \in Seq(Instances)
  BY DEF Inv, Types
<1>8. PICK t : t = toRecover[r] \o s
  OBVIOUS
<1>9. t \in Seq(Instances) /\ \A k \in DOMAIN t : t[k] <= rep[r].crt
  <2>1. t \in Seq(Instances) /\ Len(t) = Len(toRecover[r]) + Len(s)
    BY <1>6, <1>7, <1>8
  <2>2. ASSUME NEW k \in DOMAIN t
        PROVE  \/ k \in DOMAIN toRecover[r] /\ t[k] = toRecover[r][k]
               \/ k - Len(toRecover[r]) \in DOMAIN s /\ t[k] = s[k - Len(toRecover[r])]
    BY <1>6, <1>7, <1>8, <2>1
  <2>3. \A k \in DOMAIN toRecover[r] : toRecover[r][k] <= rep[r].crt
    BY DEF Inv, Known
  <2>. QED
    BY <1>6, <2>1, <2>2, <2>3
<1>10. /\ toRecover' \in [Replicas -> Seq(Instances)] /\ toRecover'[r] = t
       /\ \A q \in Replicas : q # r => toRecover'[q] = toRecover[q]
  BY <1>4, <1>7, <1>8, <1>9
<1>11. Types'
  BY <1>1, <1>10 DEF Inv, Types
<1>12. Known'
  <2>. SUFFICES ASSUME NEW q \in Replicas
                PROVE  /\ \A k \in Instances :
                            /\ rep'[q].inst[k] # NoInst => k <= rep'[q].crt
                            /\ k <= rep'[q].crt => \E p \in Replicas : Proposer(p, k)'
                       /\ \A k \in DOMAIN toRecover'[q] : toRecover'[q][k] <= rep'[q].crt
                       /\ Len(executed'[q]) <= rep'[q].crt + 1
    BY Zenon DEF Known
  <2>1. \A k \in DOMAIN toRecover'[q] : toRecover'[q][k] <= rep[q].crt
    BY <1>9, <1>10 DEF Inv, Known
  <2>2. \A p \in Replicas, k \in Instances : Proposer(p, k)' = Proposer(p, k)
    BY <1>1, SameProposals
  <2>3. /\ \A k \in Instances :
             /\ rep[q].inst[k] # NoInst => k <= rep[q].crt
             /\ k <= rep[q].crt => \E p \in Replicas : Proposer(p, k)
        /\ Len(executed[q]) <= rep[q].crt + 1
    BY DEF Inv, Known
  <2>4. rep' = rep /\ executed' = executed
    BY <1>1
  <2>. QED
    BY <2>1, <2>2, <2>3, <2>4
<1>. QED
  BY <1>1, <1>11, <1>12, SameProposals, SameExecution DEF Inv

\* A committed instance with one proposer and one ballot is stored; what is
\* executed is its command.
LEMMA ExecuteInv == ASSUME Inv, NEW r \in Replicas, Execute(r) PROVE Inv'
<1>1. UNCHANGED <<rep, raised, pending, toRecover, msgs, contested>>
  BY DEF Execute
<1>2. PICK i \in Instances : i = Len(executed[r])
  BY DEF Execute
<1>3. PICK x : x = rep[r].inst[i]
  OBVIOUS
<1>4. /\ x # NoInst /\ x.status = "committed" /\ x.cmds # "nil" /\ i <= rep[r].crt
      /\ executed' = [executed EXCEPT ![r] = Append(executed[r], x.cmds)]
      /\ answered' = IF x.lb # NoLB /\ x.lb.proposals # "nil" /\ x.cmds # "empty"
                     THEN answered \cup {<<i, x.lb.proposals>>} ELSE answered
  BY <1>2, <1>3 DEF Execute, executable
<1>5. /\ rep[r] \in Reps /\ x \in Insts /\ x.cmds \in Values
      /\ executed \in [Replicas -> Seq(Values)] /\ executed[r] \in Seq(Values)
  <2>1. rep[r] \in Reps /\ executed \in [Replicas -> Seq(Values)] /\ executed[r] \in Seq(Values)
    BY DEF Inv, Types
  <2>2. x \in Insts
    BY <1>3, <1>4, <2>1, RepFields
  <2>. QED
    BY <2>1, <2>2 DEF Insts
<1>6. PICK e : e = Append(executed[r], x.cmds)
  OBVIOUS
<1>7. /\ e \in Seq(Values) /\ Len(e) = i + 1 /\ e[i + 1] = x.cmds /\ DOMAIN e = 1 .. i + 1
      /\ \A k \in DOMAIN e : k # i + 1 => k \in DOMAIN executed[r] /\ e[k] = executed[r][k]
  BY <1>2, <1>5, <1>6
<1>8. /\ executed' \in [Replicas -> Seq(Values)] /\ executed'[r] = e
      /\ \A q \in Replicas : q # r => executed'[q] = executed[q]
  BY <1>4, <1>5, <1>6, <1>7
<1>9. /\ rep' = rep /\ msgs' = msgs /\ contested' = contested /\ raised' = raised
      /\ \A p \in Replicas, k \in Instances :
           /\ Proposer(p, k)' = Proposer(p, k) /\ Sole(p, k)' = Sole(p, k)
           /\ Proposal(p, k)' = Proposal(p, k) /\ Held(p, k)' = Held(p, k)
  BY <1>1, SameProposals
<1>10. Types'
  BY <1>1, <1>8 DEF Inv, Types
<1>11. Known'
  <2>. SUFFICES ASSUME NEW q \in Replicas
                PROVE  /\ \A k \in Instances :
                            /\ rep'[q].inst[k] # NoInst => k <= rep'[q].crt
                            /\ k <= rep'[q].crt => \E p \in Replicas : Proposer(p, k)'
                       /\ \A k \in DOMAIN toRecover'[q] : toRecover'[q][k] <= rep'[q].crt
                       /\ Len(executed'[q]) <= rep'[q].crt + 1
    BY Zenon DEF Known
  <2>1. Len(executed'[q]) <= rep[q].crt + 1
    <3>1. CASE q = r
      <4>1. rep[r].crt \in Int /\ i \in Int
        BY <1>5, RepFields, Config
      <4>. QED
        BY <1>4, <1>7, <1>8, <3>1, <4>1
    <3>2. CASE q # r
      BY <1>8, <3>2 DEF Inv, Known
    <3>. QED
      BY <3>1, <3>2
  <2>2. /\ \A k \in Instances :
             /\ rep[q].inst[k] # NoInst => k <= rep[q].crt
             /\ k <= rep[q].crt => \E p \in Replicas : Proposer(p, k)
        /\ \A k \in DOMAIN toRecover[q] : toRecover[q][k] <= rep[q].crt
    BY DEF Inv, Known
  <2>3. toRecover' = toRecover
    BY <1>1
  <2>. QED
    BY <1>9, <2>1, <2>2, <2>3
<1>12. ASSUME NEW p \in Replicas, Sole(p, i) PROVE x.cmds = Proposal(p, i)
  BY <1>3, <1>4, <1>12 DEF Inv, OneCommand
<1>13. OneCommand'
  <2>. SUFFICES ASSUME NEW p \in Replicas, NEW k \in Instances, Sole(p, k)'
                PROVE  /\ \A q \in Replicas :
                            /\ rep'[q].inst[k] # NoInst => rep'[q].inst[k].cmds \in {"nil", Proposal(p, k)'}
                            /\ k + 1 \in DOMAIN executed'[q] => executed'[q][k + 1] = Proposal(p, k)'
                       /\ \A m \in DOMAIN msgs' : m.type = "accept" /\ m.inst = k => m.cmds = Proposal(p, k)'
    BY Zenon DEF OneCommand
  <2>1. Sole(p, k)
    BY <1>9
  <2>2. /\ \A q \in Replicas :
             /\ rep[q].inst[k] # NoInst => rep[q].inst[k].cmds \in {"nil", Proposal(p, k)}
             /\ k + 1 \in DOMAIN executed[q] => executed[q][k + 1] = Proposal(p, k)
        /\ \A m \in DOMAIN msgs : m.type = "accept" /\ m.inst = k => m.cmds = Proposal(p, k)
    BY <2>1 DEF Inv, OneCommand
  <2>3. k + 1 \in DOMAIN e => e[k + 1] = Proposal(p, k)
    <3>1. CASE k = i
      BY <1>7, <1>12, <2>1, <3>1
    <3>2. CASE k # i
      <4>1. k + 1 # i + 1
        BY <3>2, Config
      <4>. QED
        BY <1>7, <2>2, <4>1
    <3>. QED
      BY <3>1, <3>2
  <2>4. ASSUME NEW q \in Replicas, k + 1 \in DOMAIN executed'[q]
        PROVE  executed'[q][k + 1] = Proposal(p, k)
    BY <1>8, <2>2, <2>3, <2>4
  <2>. QED
    BY <1>9, <2>2, <2>4
<1>14. Answers'
  <2>. SUFFICES ASSUME NEW a \in answered'
                PROVE  /\ a[1] \in Instances
                       /\ a[1] \notin contested' \cup raised' =>
                            \E p \in Replicas : /\ Proposer(p, a[1])' /\ Proposal(p, a[1])' = a[2]
                                                /\ rep'[p].inst[a[1]].cmds = a[2] /\ Held(p, a[1])'
    BY Zenon DEF Answers
  <2>1. CASE a \in answered
    BY <1>9, <2>1 DEF Inv, Answers
  <2>2. CASE a \notin answered
    <3>1. a = <<i, x.lb.proposals>> /\ x.lb # NoLB
      BY <1>4, <2>2
    <3>2. a[1] = i /\ a[2] = x.lb.proposals
      BY <3>1
    <3>3. ASSUME i \notin contested, i \notin raised
          PROVE  /\ Proposer(r, i) /\ Proposal(r, i) = a[2] /\ rep[r].inst[i].cmds = a[2] /\ Held(r, i)
      <4>1. Sole(r, i) /\ Proposal(r, i) = a[2]
        BY <1>3, <1>4, <3>1, <3>2, <3>3 DEF Sole, Proposer, Proposal
      <4>2. rep[r].inst[i].cmds = a[2]
        BY <1>3, <1>12, <4>1
      <4>3. Held(r, i)
        BY <1>3, <1>4, <3>3, <4>1 DEF Inv, OneBallot
      <4>. QED
        BY <4>1, <4>2, <4>3 DEF Sole
    <3>. QED
      BY <1>9, <3>2, <3>3
  <2>. QED
    BY <2>1, <2>2
<1>. QED
  BY <1>1, <1>10, <1>11, <1>13, <1>14, SameProposals DEF Inv

LEMMA InitInv == Init => Inv
<1>. SUFFICES ASSUME Init PROVE Inv
  OBVIOUS
<1>1. PICK z : z = [i \in Instances |-> NoInst]
  OBVIOUS
<1>2. PICK d : d = [q \in Replicas |-> -1]
  OBVIOUS
<1>3. z \in [Instances -> Insts \cup {NoInst}] /\ d \in [Replicas -> Nat \cup {-1}]
  BY <1>1, <1>2
<1>4. rep = [r \in Replicas |-> [inst |-> z, crt |-> -1, maxRecv |-> -1, dflt |-> d, smallest |-> -1,
                                 leader |-> r = Leader]]
  BY <1>1, <1>2, Zenon DEF Init
<1>5. rep \in [Replicas -> Reps]
  BY <1>3, <1>4 DEF Reps
<1>6. \A r \in Replicas : rep[r].inst = z /\ rep[r].crt = -1 /\ rep[r].maxRecv = -1 /\ rep[r].dflt = d
  BY <1>4
<1>7. \A r \in Replicas, i \in Instances : rep[r].inst[i] = NoInst /\ ~ Proposer(r, i)
  BY <1>1, <1>6 DEF Proposer
<1>8. DOMAIN msgs = {}
  BY DEF Init, EmptyBag, SetToBag
<1>9. pending \in [Replicas -> SUBSET Commands]
  <2>1. PICK f : f = plan.proposals
    OBVIOUS
  <2>2. plan \in Plans /\ pending = f
    BY <2>1 DEF Init
  <2>3. f = [q \in Replicas |-> f[q] \ {"nil", "empty", "noop"}]
    BY <2>1, <2>2, PaxosAssumption, Zenon DEF Replicas
  <2>4. \A r \in Replicas : f[r] \subseteq Commands
    BY <2>1, <2>2 DEF Commands
  <2>. QED
    BY <2>2, <2>3, <2>4
<1>10. Types
  BY <1>5, <1>8, <1>9 DEF Types, Init
<1>11. Known
  <2>1. \A r \in Replicas : executed[r] = <<>> /\ toRecover[r] = <<>>
    BY DEF Init
  <2>2. \A i \in Instances : ~ (i <= -1)
    BY Config
  <2>. QED
    BY <1>6, <1>7, <2>1, <2>2 DEF Known
<1>12. Addressed /\ Proposers /\ OneCommand /\ OneBallot
  BY <1>7, <1>8 DEF Addressed, Proposers, OneCommand, OneBallot, Sole
<1>13. Defaults
  <2>. SUFFICES ASSUME NEW r \in Replicas PROVE rep[r].dflt[r] <= Reach(rep[r], r)
    BY DEF Defaults
  <2>1. rep[r] \in Reps /\ rep[r].maxRecv = -1 /\ rep[r].dflt[r] = -1
    BY <1>2, <1>5, <1>6
  <2>2. rep[r].maxRecv <= rep[r].maxRecv
    BY <2>1
  <2>. QED
    BY <2>1, <2>2, ReachGrows
<1>14. Answers
  BY DEF Answers, Init
<1>. QED
  BY <1>10, <1>11, <1>12, <1>13, <1>14 DEF Inv

\* No step lets the ballot of an instance with one proposer go down.
Rises ==
  \A r \in Replicas, i \in Instances :
    rep[r].inst[i] # NoInst /\ i \notin contested' => rep'[r].inst[i].bal >= rep[r].inst[i].bal

LEMMA SameBallots == ASSUME Inv, rep' = rep PROVE Rises
<1>. SUFFICES ASSUME NEW r \in Replicas, NEW i \in Instances, rep[r].inst[i] # NoInst
              PROVE  rep'[r].inst[i].bal >= rep[r].inst[i].bal
  BY DEF Rises
<1>1. rep[r] \in Reps
  BY DEF Inv, Types
<1>2. rep[r].inst[i].bal \in Int
  BY <1>1, RepFields DEF Insts
<1>. QED
  BY <1>2

LEMMA NextInv == Inv /\ [Next]_vars => Inv' /\ Rises
<1>. SUFFICES ASSUME Inv, [Next]_vars PROVE Inv' /\ Rises
  OBVIOUS
<1>0. ASSUME NEW r \in Replicas, \E R, ms : Step(r, R, ms) PROVE Inv' /\ Rises
  <2>1. PICK R, ms : Step(r, R, ms)
    BY <1>0
  <2>. QED
    BY <2>1, StepInv DEF Rises
<1>1. ASSUME NEW r \in Replicas, NEW c, handlePropose(r, c) PROVE Inv' /\ Rises
  BY <1>0, <1>1, ProposeStep
<1>2. ASSUME NEW r \in Replicas, NEW c, RejectPropose(r, c) PROVE Inv' /\ Rises
  BY <1>2, RejectInv, SameBallots DEF RejectPropose
<1>3. ASSUME NEW r \in Replicas, BeTheLeader(r) PROVE Inv' /\ Rises
  BY <1>0, <1>3, LeaderStep
<1>4. ASSUME NEW r \in Replicas, Execute(r) PROVE Inv' /\ Rises
  BY <1>4, ExecuteInv, SameBallots DEF Execute
<1>5. ASSUME NEW r \in Replicas, GraceExpires(r) PROVE Inv' /\ Rises
  BY <1>5, GraceInv, SameBallots DEF GraceExpires
<1>6. ASSUME NEW r \in Replicas, recover(r) PROVE Inv' /\ Rises
  BY <1>0, <1>6, RecoverStep
<1>7. ASSUME NEW m \in BagToSet(msgs),
             \/ handlePrepare(m) \/ handleAccept(m) \/ handleCommit(m) \/ handleCommitShort(m)
             \/ handlePrepareReply(m) \/ handleAcceptReply(m)
      PROVE  Inv' /\ Rises
  <2>1. m.to \in Replicas
    BY MessageFields DEF BagToSet, Inv, Types
  <2>2. \E R, ms : Step(m.to, R, ms)
    BY <1>7, PrepareStep, AcceptStep, CommitStep, CommitShortStep, PrepareReplyStep, AcceptReplyStep
  <2>. QED
    BY <1>0, <2>1, <2>2
<1>8. CASE UNCHANGED vars
  <2>1. /\ UNCHANGED <<rep, pending, executed, toRecover, msgs, contested, raised, answered>>
    BY <1>8 DEF vars
  <2>2. Types'
    BY <2>1 DEF Inv, Types
  <2>3. Known'
    BY <2>1, Zenon DEF Inv, Known, Proposer
  <2>. QED
    BY <2>1, <2>2, <2>3, SameProposals, SameExecution, SameBallots DEF Inv
<1>. QED
  BY <1>1, <1>2, <1>3, <1>4, <1>5, <1>6, <1>7, <1>8 DEF Next

\* The invariant holds in every state that the program reaches.
THEOREM Invariance == Spec => []Inv
BY InitInv, NextInv, PTL DEF Spec

LEMMA InvAgree == Inv => ExecutedAgree
<1>. SUFFICES ASSUME Inv, NEW r \in Replicas, NEW q \in Replicas,
                     NEW k \in DOMAIN executed[r] \cap DOMAIN executed[q], k - 1 \notin contested
              PROVE  executed[r][k] = executed[q][k]
  BY DEF ExecutedAgree
<1>1. /\ rep[r] \in Reps /\ executed[r] \in Seq(Values) /\ Len(executed[r]) <= rep[r].crt + 1
  BY DEF Inv, Types, Known
<1>2. rep[r].crt \in Int /\ rep[r].crt \in Instances \cup {-1}
  BY <1>1, RepFields
<1>3. k \in Nat \ {0} /\ k <= Len(executed[r]) /\ Len(executed[r]) \in Nat
  BY <1>1
<1>4. PICK i \in Instances : i = k - 1 /\ i <= rep[r].crt /\ i + 1 = k
  BY <1>1, <1>2, <1>3, Config
<1>5. PICK p \in Replicas : Proposer(p, i)
  BY <1>4 DEF Inv, Known
<1>6. Sole(p, i)
  BY <1>4, <1>5 DEF Sole
<1>. QED
  BY <1>4, <1>6 DEF Inv, OneCommand

LEMMA InvStored == Inv => AnsweredStored
<1>. SUFFICES ASSUME Inv, NEW a \in answered, a[1] \notin contested \cup raised
              PROVE  \E r, q \in Replicas : r # q /\ \A p \in {r, q} :
                       rep[p].inst[a[1]] # NoInst /\ rep[p].inst[a[1]].cmds = a[2]
  BY DEF AnsweredStored
<1>1. PICK p \in Replicas : /\ Proposer(p, a[1]) /\ Proposal(p, a[1]) = a[2]
                            /\ rep[p].inst[a[1]].cmds = a[2] /\ Held(p, a[1])
  BY DEF Inv, Answers
<1>2. PICK q \in Replicas \ {p} : rep[q].inst[a[1]] # NoInst /\ rep[q].inst[a[1]].cmds = a[2]
  BY <1>1 DEF Held
<1>. QED
  BY <1>1, <1>2 DEF Proposer

\* Replicas execute the same commands in an instance that one replica proposed,
\* whatever the order of the replies, the commits and the recoveries.
THEOREM ExecutionAgrees == Spec => []ExecutedAgree
BY Invariance, InvAgree, PTL

\* A command whose client was answered is held by its proposer and another
\* replica, unless its instance had two proposers or a second ballot.
THEOREM AnswersAreStored == Spec => []AnsweredStored
BY Invariance, InvStored, PTL

\* The ballot of an instance with one proposer never goes down at any replica.
THEOREM BallotsOnlyRise == Spec => BallotsRise
<1>1. Inv /\ [Next]_vars => [Rises]_vars
  BY NextInv
<1>. QED
  BY <1>1, Invariance, PTL DEF Spec, BallotsRise, Rises
=============================================================================
