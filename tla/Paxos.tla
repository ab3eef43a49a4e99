-------------------------------- MODULE Paxos -------------------------------
(***************************************************************************)
(* The Paxos baseline (paxos.go) over the shared replica (replica.go).     *)
(* Replicas agree on a batch of commands for each instance; a leader skips *)
(* the prepare phase while its ballot is the smallest default ballot.  An  *)
(* executor goroutine applies committed instances in order, answers the    *)
(* clients, and after a grace period has the replica recover the instances *)
(* from the first it cannot execute on.                                    *)
(*                                                                         *)
(* replicaListener hands every message to a goroutine of its own, so       *)
(* messages arrive in any order, also of one sender and one type; they     *)
(* are not repeated, and one that never arrives is one on a connection     *)
(* that broke, which no replica dials again.  Nothing is durable, as       *)
(* replica.New sets Durable to FALSE, and clients are answered at          *)
(* execution, as it sets Dreply to TRUE.  A batch is one command, and the  *)
(* executor looks at an instance in one step.                              *)
(***************************************************************************)
EXTENDS Integers, Bags, FiniteSetsExt, SequencesExt

CONSTANTS
  N, F,
  Leader,        \* the replica that starts as leader
  MaxInstances,  \* bound: instances
  Plans,         \* bound: the commands clients send to each replica, how many
                 \* grace periods may expire, and which replicas the master may
                 \* make leaders later
  MaxInFlight    \* bound: messages on their way at a time

ASSUME PaxosAssumption ==
  /\ F \in Nat /\ N = 2 * F + 1
  /\ MaxInstances \in Nat \ {0} /\ MaxInFlight \in Nat
  /\ Leader \in 0..(N - 1)
  /\ \A p \in Plans : /\ p.proposals = [r \in 0..(N - 1) |-> p.proposals[r] \ {"nil", "empty", "noop"}]
                     /\ p.graces \in Nat /\ p.leaders \subseteq 0..(N - 1)

Replicas == 0..(N - 1)
Instances == 0..(MaxInstances - 1)
WriteQuorumSize == F + 1
ReadQuorumSize == N - F

VARIABLES
  rep,        \* the state of each replica that its run loop owns
  pending,    \* ProposeChan of each replica
  executed,   \* what each replica executed: cmds of instance i at i + 1
  toRecover,  \* instancesToRecover of each replica
  msgs,       \* bag of messages on their way
  plan,       \* what is left of the plan
  panicked,   \* replicas whose process ended in a nil dereference
  contested,  \* history: instances that two replicas proposed, or whose proposer
              \* gave its proposals back
  raised,     \* history: instances whose proposer gave up a ballot for another one
  answered    \* history: <<instance, command>> that a client was told is done

vars == <<rep, pending, executed, toRecover, msgs, plan, panicked, contested, raised, answered>>

NoInst == [status |-> "none"]
NoLB == [tried |-> -2]

(* What cmds holds: nil, a slice without commands, the no-op, or a batch.  A nil
   slice is an empty one after Marshal and Unmarshal. *)
OnWire(cmds) == IF cmds = "nil" THEN "empty" ELSE cmds

NewInst(R, r, lb) ==
  [cmds |-> "nil", bal |-> R.dflt[r], vbal |-> R.dflt[r], status |-> "preparing", lb |-> lb]

LB(proposals, ballot) ==
  [proposals |-> proposals, prepareOKs |-> 0, acceptOKs |-> 0, nacks |-> 0,
   ballot |-> ballot, cmds |-> "nil", tried |-> -1]

-----------------------------------------------------------------------------
(* Helpers of the run loop; R is the state of replica r *)

makeBallot(R, r) ==
  LET low == Max({r, R.dflt[r], R.maxRecv})
  IN  IF R.leader THEN low + ((r - low) % N) ELSE r

Peers(r) == Replicas \ {r}

bcastPrepare(R, r, i) ==
  {[type |-> "prepare", to |-> q, from |-> r, inst |-> i, bal |-> R.inst[i].lb.tried] : q \in Peers(r)}

bcastAccept(R, r, i) ==
  {[type |-> "accept", to |-> q, from |-> r, inst |-> i, bal |-> R.inst[i].lb.tried,
    cmds |-> OnWire(R.inst[i].lb.cmds)] : q \in Peers(r)}

(* Only the short form is sent. *)
bcastCommit(R, r, i) ==
  {[type |-> "commitShort", to |-> q, from |-> r, inst |-> i, bal |-> R.inst[i].bal] : q \in Peers(r)}

seen(R, bal) == [R EXCEPT !.maxRecv = Max({@, bal})]

withInst(R, r, i) ==
  IF R.inst[i] # NoInst THEN R
  ELSE [R EXCEPT !.inst[i] = NewInst(R, r, NoLB), !.crt = Max({@, i})]

become(r, R) ==
  /\ rep' = [rep EXCEPT ![r] = R]
  /\ raised' = raised \cup {i \in Instances : /\ rep[r].inst[i] # NoInst /\ rep[r].inst[i].lb # NoLB
                                             /\ R.inst[i].lb.tried # rep[r].inst[i].lb.tried}

carried == BagCardinality(msgs') <= MaxInFlight
send(ms) == msgs' = msgs (+) SetToBag(ms) /\ carried
answer(m, ms) == msgs' = (msgs (-) SetToBag({m})) (+) SetToBag(ms) /\ carried
arrived(m, type) == BagIn(m, msgs) /\ m.type = type /\ m.to \notin panicked

proposing(r, i) ==
  contested' = IF \E q \in Peers(r) : rep[q].inst[i] # NoInst /\ rep[q].inst[i].lb # NoLB
               THEN contested \cup {i} ELSE contested

-----------------------------------------------------------------------------
(* Proposers *)

(* handlePropose at a replica that is not a leader answers the client with a
   failure. *)
RejectPropose(r, c) ==
  /\ r \notin panicked /\ ~ rep[r].leader /\ c \in pending[r]
  /\ pending' = [pending EXCEPT ![r] = @ \ {c}]
  /\ UNCHANGED <<rep, raised, executed, toRecover, msgs, plan, panicked, contested, answered>>

handlePropose(r, c) ==
  /\ r \notin panicked /\ rep[r].leader /\ c \in pending[r]
  /\ rep[r].crt + 1 \in Instances
  /\ LET i == rep[r].crt + 1
         n == makeBallot(rep[r], r)
         R == [rep[r] EXCEPT !.crt = i, !.dflt[r] = n,
                             !.inst[i] = NewInst(rep[r], r, [LB(c, r) EXCEPT !.tried = n])]
         A == [R EXCEPT !.inst[i] = [cmds |-> c, bal |-> n, vbal |-> n, status |-> "accepted",
                                     lb |-> [R.inst[i].lb EXCEPT !.cmds = c]]]
     IN  /\ IF n # R.smallest THEN become(r, R) /\ send(bcastPrepare(R, r, i))
            ELSE become(r, A) /\ send(bcastAccept(A, r, i))
         /\ proposing(r, i)
  /\ pending' = [pending EXCEPT ![r] = @ \ {c}]
  /\ UNCHANGED <<executed, toRecover, plan, panicked, answered>>

(* The least default ballot that is known *)
newSmallest(R) ==
  LET known == {q \in Replicas : R.dflt[q] # -1}
      m == Min({R.dflt[q] : q \in known})
  IN  IF known # {} /\ Cardinality(known) >= ReadQuorumSize - 1 THEN Max({R.smallest, m}) ELSE R.smallest

(* A quorum is prepared: what the acceptors sent is not used, and an instance
   that is committed by now is accepted again. *)
startAccept(R, i) ==
  LET x == R.inst[i]
      c == IF x.lb.proposals # "nil" THEN x.lb.proposals ELSE "noop"
  IN  [R EXCEPT !.inst[i] = [x EXCEPT !.cmds = c, !.bal = x.lb.tried, !.status = "accepted",
                                      !.lb = [@ EXCEPT !.cmds = c]],
                !.smallest = newSmallest(R)]

handlePrepareReply(m) ==
  LET r == m.to
      i == m.inst
      R == seen(rep[r], m.bal)
      lb == R.inst[i].lb
      Nack == [R EXCEPT !.inst[i].lb.nacks = @ + 1]
      Again == [Nack EXCEPT !.inst[i].lb.tried = makeBallot(R, r)]
      P == [R EXCEPT !.inst[i].lb = [lb EXCEPT !.prepareOKs = @ + 1,
                                               !.ballot = Max({@, m.vbal}),
                                               !.cmds = IF m.vbal > lb.ballot THEN m.cmds ELSE @],
                     !.dflt[m.from] = Max({@, m.dflt})]
      A == startAccept(P, i)
  IN  /\ arrived(m, "prepareReply")
      /\ \/ m.bal < lb.tried /\ become(r, R) /\ answer(m, {})
         \/ /\ m.bal > lb.tried
            /\ IF Nack.inst[i].lb.nacks + 1 > N \div 2 /\ R.leader
               THEN become(r, Again) /\ answer(m, bcastPrepare(Again, r, i))
               ELSE become(r, Nack) /\ answer(m, {})
         \/ /\ m.bal = lb.tried
            /\ IF P.inst[i].lb.prepareOKs + 1 >= ReadQuorumSize
               THEN become(r, A) /\ answer(m, bcastAccept(A, r, i))
               ELSE become(r, P) /\ answer(m, {})
      /\ UNCHANGED <<pending, executed, toRecover, plan, panicked, contested, answered>>

(* The ballot of a refused accept is taken for an instance: makeBallot works on
   the bookkeeping of that instance, and there may be none. *)
handleAcceptReply(m) ==
  LET r == m.to
      i == m.inst
      R == seen(rep[r], m.bal)
      lb == R.inst[i].lb
      Nack == [R EXCEPT !.inst[i].lb.nacks = @ + 1]
      b == m.bal
      found == b \in Instances /\ R.inst[b] # NoInst /\ R.inst[b].lb # NoLB
      Again == [Nack EXCEPT !.inst[b].lb.tried = makeBallot(R, r)]
      A == [R EXCEPT !.inst[i].lb.acceptOKs = @ + 1]
      C == [A EXCEPT !.inst[i].status = "committed"]
  IN  /\ arrived(m, "acceptReply")
      /\ \/ /\ R.inst[i].status = "committed" \/ m.bal < lb.tried
            /\ become(r, R) /\ answer(m, {}) /\ UNCHANGED panicked
         \/ /\ R.inst[i].status # "committed" /\ m.bal > lb.tried
            /\ IF Nack.inst[i].lb.nacks + 1 < WriteQuorumSize \/ ~ R.leader
               THEN become(r, Nack) /\ answer(m, {}) /\ UNCHANGED panicked
               ELSE IF found
               THEN become(r, Again) /\ answer(m, bcastPrepare(Again, r, i)) /\ UNCHANGED panicked
               ELSE become(r, Nack) /\ answer(m, {}) /\ panicked' = panicked \cup {r}
         \/ /\ R.inst[i].status # "committed" /\ m.bal = lb.tried
            /\ IF A.inst[i].lb.acceptOKs + 1 >= WriteQuorumSize
               THEN become(r, C) /\ answer(m, bcastCommit(C, r, i))
               ELSE become(r, A) /\ answer(m, {})
            /\ UNCHANGED panicked
      /\ UNCHANGED <<pending, executed, toRecover, plan, contested, answered>>

(* BeTheLeader, called by the master; nobody ceases to be leader *)
BeTheLeader(r) ==
  /\ r \in plan.leaders \ panicked /\ ~ rep[r].leader
  /\ become(r, [rep[r] EXCEPT !.leader = TRUE])
  /\ UNCHANGED <<pending, executed, toRecover, msgs, plan, panicked, contested, answered>>

-----------------------------------------------------------------------------
(* Acceptors *)

(* A committed instance is answered with a Commit of its vbal. *)
handlePrepare(m) ==
  LET r == m.to
      i == m.inst
      R == withInst(seen(rep[r], m.bal), r, i)
      P == IF R.inst[i].bal >= m.bal THEN R
           ELSE [R EXCEPT !.inst[i] = [@ EXCEPT !.bal = m.bal, !.status = "prepared"],
                          !.dflt[r] = IF R.crt = i THEN m.bal ELSE @]
  IN  /\ arrived(m, "prepare")
      /\ IF R.inst[i].status = "committed"
         THEN /\ become(r, R)
              /\ answer(m, {[type |-> "commit", to |-> m.from, inst |-> i, bal |-> R.inst[i].vbal,
                             cmds |-> OnWire(R.inst[i].cmds)]})
         ELSE /\ become(r, P)
              /\ answer(m, {[type |-> "prepareReply", to |-> m.from, from |-> r, inst |-> i,
                             bal |-> P.inst[i].bal, vbal |-> P.inst[i].vbal, dflt |-> P.dflt[r],
                             cmds |-> OnWire(P.inst[i].cmds)]})
      /\ UNCHANGED <<pending, executed, toRecover, plan, panicked, contested, answered>>

\* Mutant of accepting: the ballot that was promised is not compared.
acceptingAny(x, m) == x = NoInst \/ x.status # "committed"

accepting(x, m) == x = NoInst \/ (m.bal >= x.bal /\ x.status # "committed")

(* The reply has the ballot of the instance, whether or not it was accepted. *)
handleAccept(m) ==
  LET r == m.to
      i == m.inst
      R == seen(rep[r], m.bal)
      x == R.inst[i]
      A == [R EXCEPT !.crt = Max({@, i}),
                     !.inst[i] = [cmds |-> m.cmds, bal |-> m.bal, vbal |-> m.bal,
                                  status |-> "accepted", lb |-> IF x = NoInst THEN NoLB ELSE x.lb]]
      W == IF accepting(x, m) THEN A ELSE R
  IN  /\ arrived(m, "accept")
      /\ become(r, W)
      /\ answer(m, {[type |-> "acceptReply", to |-> m.from, inst |-> i, bal |-> W.inst[i].bal]})
      /\ UNCHANGED <<pending, executed, toRecover, plan, panicked, contested, answered>>

(* The clients' proposals for an instance that another replica committed go
   back to ProposeChan. *)
handleCommit(m) ==
  LET r == m.to
      i == m.inst
      R == withInst(rep[r], r, i)
      x == R.inst[i]
      mine == x.lb # NoLB /\ x.lb.proposals # "nil"
      C == [R EXCEPT !.inst[i] = [x EXCEPT !.cmds = m.cmds, !.bal = m.bal, !.vbal = m.bal,
                                           !.status = "committed",
                                           !.lb = IF mine THEN [@ EXCEPT !.proposals = "nil"] ELSE @]]
      ignored == x.status = "committed" \/ m.bal < x.bal
  IN  /\ arrived(m, "commit")
      /\ become(r, IF ignored THEN R ELSE C)
      /\ pending' = IF ~ ignored /\ mine THEN [pending EXCEPT ![r] = @ \cup {x.lb.proposals}] ELSE pending
      /\ contested' = IF ~ ignored /\ mine THEN contested \cup {i} ELSE contested
      /\ answer(m, {})
      /\ UNCHANGED <<executed, toRecover, plan, panicked, answered>>

(* Nothing tells what was accepted, or whether anything was. *)
handleCommitShort(m) ==
  LET r == m.to
      i == m.inst
      x == rep[r].inst[i]
  IN  /\ arrived(m, "commitShort")
      /\ IF x = NoInst \/ x.status = "committed" \/ m.bal < x.bal THEN UNCHANGED <<rep, raised>>
         ELSE become(r, [rep[r] EXCEPT !.inst[i] = [x EXCEPT !.status = "committed", !.bal = m.bal]])
      /\ answer(m, {})
      /\ UNCHANGED <<pending, executed, toRecover, plan, panicked, contested, answered>>

-----------------------------------------------------------------------------
(* The executor and recovery *)

\* Mutant of executable: a commit that came before its accept is executed.
executableEmpty(x) == x # NoInst /\ x.status = "committed"

executable(x) == x # NoInst /\ x.status = "committed" /\ x.cmds # "nil"

(* executeCommands: the next instance; a client of this replica is answered *)
Execute(r) ==
  LET i == Len(executed[r])
      x == rep[r].inst[i]
  IN  /\ r \notin panicked
      /\ i \in Instances /\ i <= rep[r].crt /\ executable(x)
      /\ executed' = [executed EXCEPT ![r] = Append(@, x.cmds)]
      /\ answered' = IF x.lb # NoLB /\ x.lb.proposals # "nil" /\ x.cmds # "empty"
                     THEN answered \cup {<<i, x.lb.proposals>>} ELSE answered
      /\ UNCHANGED <<rep, raised, pending, toRecover, msgs, plan, panicked, contested>>

(* executeCommands: COMMIT_GRACE_PERIOD is over; everything from the problem
   instance on is to be recovered, committed or not. *)
GraceExpires(r) ==
  LET i == Len(executed[r])
  IN  /\ r \notin panicked /\ plan.graces > 0
      /\ i \in Instances /\ i <= rep[r].crt /\ ~ executable(rep[r].inst[i])
      /\ toRecover' = [toRecover EXCEPT ![r] = @ \o [k \in 1..(rep[r].crt - i + 1) |-> i + k - 1]]
      /\ plan' = [plan EXCEPT !.graces = @ - 1]
      /\ UNCHANGED <<rep, raised, pending, executed, msgs, panicked, contested, answered>>

\* Mutant of recoveryLB: the bookkeeping of the proposer starts over.
recoveryLBNew(x) == LB("nil", -1)

recoveryLB(x) == IF x.lb = NoLB THEN LB("nil", -1) ELSE x.lb

recover(r) ==
  LET i == Head(toRecover[r])
      R == IF rep[r].inst[i] # NoInst THEN rep[r]
           ELSE [rep[r] EXCEPT !.inst[i] = NewInst(rep[r], r, NoLB)]
      W == [R EXCEPT !.inst[i].lb = [recoveryLB(R.inst[i]) EXCEPT !.tried = makeBallot(R, r)]]
  IN  /\ r \notin panicked /\ toRecover[r] # <<>>
      /\ toRecover' = [toRecover EXCEPT ![r] = Tail(@)]
      /\ become(r, W)
      /\ send(bcastPrepare(W, r, i))
      /\ proposing(r, i)
      /\ UNCHANGED <<pending, executed, plan, panicked, answered>>

-----------------------------------------------------------------------------
Init ==
  /\ rep = [r \in Replicas |->
              [inst |-> [i \in Instances |-> NoInst], crt |-> -1, maxRecv |-> -1,
               dflt |-> [q \in Replicas |-> -1], smallest |-> -1, leader |-> r = Leader]]
  /\ executed = [r \in Replicas |-> <<>>]
  /\ toRecover = [r \in Replicas |-> <<>>]
  /\ msgs = EmptyBag
  /\ plan \in Plans /\ pending = plan.proposals
  /\ panicked = {}
  /\ contested = {}
  /\ raised = {}
  /\ answered = {}

(* run *)
Next ==
  \/ \E r \in Replicas : \E c \in pending[r] : handlePropose(r, c) \/ RejectPropose(r, c)
  \/ \E r \in Replicas : BeTheLeader(r) \/ Execute(r) \/ GraceExpires(r) \/ recover(r)
  \/ \E m \in BagToSet(msgs) :
       \/ handlePrepare(m) \/ handleAccept(m) \/ handleCommit(m) \/ handleCommitShort(m)
       \/ handlePrepareReply(m) \/ handleAcceptReply(m)

Spec == Init /\ [][Next]_vars

-----------------------------------------------------------------------------
(* Properties *)

(* Replicas execute the same commands in the same instance, unless two replicas
   were proposers of it: late replies that accept a committed instance anew,
   commits without commands and the leader's own recovery never change what is
   executed.  The exception is real: a proposer does not use the commands that
   acceptors report. *)
ExecutedAgree ==
  \A r, q \in Replicas : \A k \in DOMAIN executed[r] \cap DOMAIN executed[q] :
    k - 1 \in contested \/ executed[r][k] = executed[q][k]

(* A command whose client was answered is held in its instance by its proposer
   and by another replica, unless the instance had two proposers or its proposer
   changed the ballot: late and repeated replies and the leader's own recovery
   take nothing back.  With three replicas the two are a write quorum.  With a
   second ballot a refusal of the first one's accept, which carries the ballot
   promised since, counts as an acceptance. *)
AnsweredStored ==
  \A a \in answered : a[1] \notin contested \cup raised =>
    \E r, q \in Replicas : r # q /\ \A p \in {r, q} :
      rep[p].inst[a[1]] # NoInst /\ rep[p].inst[a[1]].cmds = a[2]

(* The ballot a replica knows for an instance never goes down, unless the
   instance had two proposers: accepts of a ballot that the leader gave up and
   commits that come late take nothing back. *)
BallotsRise ==
  [][\A r \in Replicas, i \in Instances :
       rep[r].inst[i] # NoInst /\ i \notin contested' => rep'[r].inst[i].bal >= rep[r].inst[i].bal]_vars

=============================================================================
