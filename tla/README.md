# PaxosBus: specifications, model checking and proofs

This directory is the verification development for `paxosbus/` and for the parts
of the baseline code it is compared with. It models the replica, the client, the
schedule agreement, the message formats and links, and the Paxos baseline from
their Go code, checks them with TLC on small instances, and proves what matters
most of normal operation, synchronisation, the view change, the schedule
agreement, the client, the links and the Paxos baseline with TLAPS for every
configuration. `PROJECT.json` lists the
components, the runs, the mutants, the source lines each definition models, the
hazards, the findings and the theorems.

The repository also has a design-level specification, `paxosbus/tla/paxosbus.tla`.
Nothing here is taken from it. Where its comments state a property of the
protocol, the same property is checked here of the code, and the findings below
say where the two part.

## 1. The system

Clients send *buses* (batches of requests) to all replicas at times fixed by a
shared schedule, so every bus has a slot that each replica can compute on its
own. A replica executes its slots in order and answers the client directly; the
client counts a request as committed once a quorum of replies, the leader's
included, agree on its log index and view. The replicas talk to each other only
for what goes wrong.

| Component | State | Operations | Interacts with |
| --- | --- | --- | --- |
| Slot log (`replica.go`, `recovery.go`) | `globalLog`, `nextExpected`, `maxSlotSeen`, `stableSlot`, `prefixHash`, `dedup`, the key-value store | record a bus, set a no-op, execute, rewind, clear, prune | everything; guarded by `r.mu` |
| Bus arrival (`replica.go`) | pending arrivals | `handleBus`, `admitLocked` | schedule, slot log, gaps |
| Gap agreement (`replica.go`) | `gaps` | detect, ask the leader, probe, no-op, commit | slot log, messages |
| Synchronisation (`recovery.go`) | `sync`, `syncCatchup` | rounds, acknowledgements, commit point, catch-up, rewind | slot log, state transfer |
| State transfer (`recovery.go`) | one running `fetchReq`, a queue of 64 | `runFetch`, `serveState`, `applyStateEntries` | called by sync, merge, installation |
| View change (`recovery.go`) | `viewId`, `status`, `lastNormalView`, `vc`, `recovery`, watchdog | suspect, request, report, merge, `StartView`, install | cancels all of the above |
| Schedule agreement (`schedule.go`) | `schedule`, `scheduleCommittedEnd`, the open proposal | window requests, prepare, commit, install | fences bus arrival; merged by view changes |
| Slot assignment (`replica.go`) | client lines, generation cursor | `computeGlobalSlot`, `genCursorUpToLocked` | schedule, gap detection |
| Client (`client*.go`) | in-flight requests, votes | send buses, count replies, time out, renew windows | replicas |
| Durable log (`durablelog.go`, `logreader.go`) | a file with holes and an index | append, fill a hole, read a slot | serves pruned slots |
| Wire format and links (`wire/`, `client.go`, `replica.go`) | the connection to each peer, its lock and buffer | marshal, send, read, retire, dial again | carries everything |
| Baselines (`paxos/`, `n2paxos/`, `epaxos/`, `curp/`, `fastpaxos/`, `swift/`, over `replica/`, `client/`, `rpc/`, `state/`) | instances, ballots, connections | the protocols PaxosBus is measured against | share the command encoding and the store |

What is hard in it: each replica runs a dozen goroutines (readers, tickers, one
transfer goroutine, one installer) that share one mutex and release it around
every send and every wait; messages come late, twice, in any order or never;
timers race answers; a view change can begin, and be abandoned, between any two
critical sections.

What makes each part correct:

- slot log: execution never passes an empty slot; the leader never takes back
  what it executed in its view;
- gap agreement: no-ops have one author, the leader; replies that can be
  counted together come from equal logs; every gap is closed one day;
- synchronisation: what lies below the leader's commit point is backed by a
  quorum, and replicas agree below their commit points;
- view change: a view starts only after a majority left all lower ones; what a
  client saw committed stays at its index; a `StartView` never rewrites a
  follower's committed prefix;
- schedule agreement: replicas agree on the slot of every bus, in every view;
- client: at most one outcome per request, and a retransmission is executed once;
- slot assignment: a bus has the slot of its rank among all send times, and the
  cursor that names the owner of a slot agrees with it;
- execution: store, log indexes and prefix digests depend on the present log
  only, whatever was rewound, retransmitted and pruned;
- durable log: a slot reads back as what was last executed there;
- wire format and links: a reader delivers what was sent, whole and in order, and
  a failed connection is replaced once;
- Paxos baseline: replicas execute the same command in an instance, and what a
  client was told is held by more than its proposer.

## 2. The modules

```
BusLog          the log of one replica, as a value
  BusReplica    replicas, bus arrival, state transfer, replies
    BusGap      gap agreement
    BusSync     synchronisation rounds
      BusNormal     BusGap + BusSync in one view        <- MCBusNormal
      PaxosBus      BusGap + BusSync + view change      <- MCPaxosBus

BusSlots        slot arithmetic and the cursor          <- MCBusSlots
BusHistory      abstract: one append-only history of windows
BusSchedule     schedule agreement over views           <- MCBusSchedule
BusExecution    one replica's execution and files       <- MCBusExecution
BusClient       one client                              <- MCBusClient
Paxos           the Paxos baseline                      <- MCPaxos
WireFormat      how layouts become bytes and back
  BusMessages       the types of PaxosBus
    BaselineMessages    the types of the baselines
BusConn         the connections of a link
  BusLink       WireFormat + BusConn: messages on it    <- MCBusLink

NatFacts        lemmas: extrema and remainders of naturals
BusLogProofs    lemmas: what the operators of BusLog return
  BusNormalProofs   theorems about BusNormal
  PaxosBusProofs    theorems about PaxosBus
BusScheduleProofs   theorems about BusSchedule
BusClientProofs theorems about BusClient
BusConnProofs   theorems about BusConn
PaxosProofs     theorems about Paxos
```

**BusLog.** A log is a record `ent`, `next` (`nextExpected`), `seen`
(`maxSlotSeen`), `stable` (`stableSlot`); the two flags `haveMax` and `haveStable`
are folded into lengths. A slot is `Empty`, `Received` or `NoOp`: a client sends
one bus for a slot, so what a received slot holds is determined by the slot. The
prefix hash is represented by the prefix it digests. Each operator is one of the
functions that change the log under `r.mu`.

**BusReplica.** `view`, `status`, `lg`, `inflight` (buses still on their way),
`fetch` (the transfer in progress), `msgs` and `replies`. A critical section is
one step. `msgs` only grows: a message may be handled late, in any order, more
than once or never, which covers lost connections and the code's resends. A
replica whose status is not normal drops buses, because `scheduleReady` is false
then (the comment at `replica.go:245`, "ViewChange records buses", describes the
buffer `pendingBuses`, which nothing fills any more).

**BusGap.** `gaps[r]` is the key set of `r.gaps`; an entry stands for the
replica's outstanding request too. Timers may fire at any time, so the not-found
answers, which only end a probe early, are left out. The leader's second look
at the slot after the probe, its execution past a no-op before anyone agreed,
and the refusal of a no-op below a follower's frontier are all there.

**BusSync.** Rounds are open, acknowledged and committed as in `syncOnce`,
`handleSyncReply` and `maybeCommitSyncLocked`. `Compare` gives the three verdicts of
`answerSyncPrepare`: equal, different, and unknown once the digest has left the
ring of `RingSize` cells (`ringValidLocked`) and its log entry. `BusLog` does not
prune, so beyond the ring known and unknown are both possible, and so are a rewind
that succeeds and one that fails. An unknown digest is acknowledged, and the
history field `unverified` of the `SyncReply` records it. A follower's answer on
the transfer goroutine is two steps, because `finishSyncFetch` reads the digest and
the commit point, releases the mutex, and `answerSyncPrepare` acts afterwards. On
the connection reader it is one, although `handleSyncPrepare`, `answerSyncPrepare` and
`rewindToStableAndRefetch` take the mutex one after the other: later messages of the
leader, `SyncCommit` and `GapCommit` among them, wait behind it, so the commit point
and the no-ops cannot change in between; a bus or the answer of a transfer can, which
only adds slots behind the compared prefix or, if the transfer goroutine rewinds
first, is a follower that has rewound after it acknowledged, which the model has
too. Repeated rounds for the same prefix resend what `msgs` holds and are not steps.

**BusNormal** composes these for one view `View`, with fairness for progress.

**PaxosBus** adds the view change. `lastNormalView` and `source`
(`startViewSource`) are the code's fields; `plan[l]` is the merge the new leader
works on, `recovery[r]` the installation of a `StartView`. The new leader's last
two critical sections (install, then publish) are two actions, with everything
else free to happen in between. Reports are frozen when sent, and any quorum of
them may be merged. Asking several donors, and asking again, is the choice of
the donor. `vcState`, watchdog and generation identities only cancel the work
of an older view; here the step that leaves the view clears it. A crashed
replica is one that takes no more steps. `WindowAssumption` keeps the log within
the hash window (`NumSlots <= RingSize`; 16,386 slots by default), so no rewind of
a view change fails here: `installCanonicalViewLocked` only warns then
(`recovery.go:1485`), which is in `BusExecution.InstallView`.

**BusSlots** is the slot arithmetic of one replica: `computeGlobalSlot` and
`countBefore` in closed form, `validSequence` and `nextSequence`, and the cursor of
`genCursorUpToLocked` that walks the schedule the other way. Windows are appended,
the end of the schedule is replaced by a view change, and slots are pruned; the
properties compare all of it with the sorted set of send times.

**BusSchedule** is `schedule.go` and what `recovery.go` does to schedules. A
schedule is the set of its entries: `validateSchedule` fixes their order, so one
schedule is a prefix of another when what the other has besides lies behind it. A
batch (snapshot, proposal, commit) is read in three critical sections. `held`,
`agreed` and `leftover` are history variables: what each replica held last while
normal in a view, the longest schedule that a quorum held in one, and the replicas
that started a view with the committed end of a schedule they no longer have (see
section 3). `ImplementsHistory` is a
refinement: `BusSchedule` with `agreed` for `history` implements **BusHistory**,
whose only step puts windows behind the last one. Requests, proposals, resends
and failed merges are stuttering steps.

**BusExecution** is one replica below the protocol: a bus holds a sequence of
requests, some of them retransmitted. The replica is one record, since all of this
runs under `r.mu`. It keeps dedup entries, log indexes, the store with undo
records, the rings of `foldExecutedLocked`, resident bytes (in units), and the
records of the two files. Which slots become no-ops, commit points and rewinds are
inputs, as long as they leave the commit point alone. A new leader whose rewind fails
goes on without it, as in the code. `rewound`, `lost`, `refilled` and `wrapped` are
history variables for the exemptions of section 3.

**BusClient** is one client: `scheduleLoop`, `busLoop`, the readers of control
reports and replies, the request timer and the janitor, with their two mutexes.
The grant that starts the client waits in a queue for `awaitInitialSchedule`, and
requests whose timers fired are queued in a step after the one that collected them.
The replicas are its environment: their views go up, a follower may be normal before
its leader (`StartView` is sent first), normal leaders grant what was asked for, and
replies come as the plan says.

**Paxos** is `paxos.go` over the shared replica. `replicaListener` hands each
message to a goroutine of its own, so messages are a bag. `contested` and
`raised` are history variables for what the code does not survive, see section 3:
instances with two proposers, and instances whose proposer gave up a ballot. A replica whose process
ends in a nil dereference is in `panicked`.

**WireFormat, BusMessages, BaselineMessages.** A message type is a layout: fixed
arrays with the slices their fields are in, and lists with their limits. `Put`
makes the `Write` calls of `Marshal`, `Get` runs `Unmarshal` on the bytes that
have arrived. A byte remembers of which value it is a part, so a field that is read
at another offset or width than it was written has no value. The layouts of the
generated code are read off `Marshal` and `Unmarshal` of each type, which agree
everywhere. Since one layout then serves both, a `Marshal` and an `Unmarshal` that
disagree could not be written down here: what the module checks is the framing, the
limits, the order and the early returns. The elements of a list are one `Write`
here and one each in the code; the reader cannot tell, since a connection may break
after any byte. The layouts of the baselines are long and of one kind, and only the
shapes they share (arrays, lists with and without limits, unwritten fields) matter to
the properties.

**BusConn** is the state machine of a link: threads that share a `lockedWriter` with
its lock and its buffer, connections that break between any two bytes, readers, and
`retirePeer` and `dialPeer`, which replace a connection. What the batches are, how
many bytes their writes have and what a reader makes of them are constants.

**BusLink** gives these constants their values: the messages of `BusMessages` and
`BaselineMessages`, and the reader that decodes them.

### Bounds

| Constant | Bounds | Why it is enough |
| --- | --- | --- |
| `NumSlots` | the slots explored | two slots are needed for a log index to change, three for two votes with the same index to come from different logs |
| `Arrivals` | which buses ever reach which replica | each instance names the one pattern that makes replicas differ; order and delay stay free |
| `MaxNoOps` | slots leaders close | one may fall on either of two slots below the last; two where progress needs it; 0 where a property is known to fail with one |
| `MaxRounds` | prefixes announced per view | two give a round over an earlier commit point |
| `RingSize` | the cells of the digest ring: at least 3 (`RetainSlots + 2`) | three, with five slots, so that the first prefix leaves it |
| `Transfers` | replicas that transfer at once | 1; a transfer's steps still interleave with all else |
| `Timeouts` | whose timers fire in which view | caps the number of views |
| `Hears` | whom messages starting a view can reach | cuts a replica off from a view |
| `MergeFails` | whether a merged slot can be given up | both values are used |
| `MaxWindows`, `MaxView`, `Plans` (BusSchedule) | windows, views, who asks for what, whose timer fires, repeated StartViews | two windows are needed for one to be skipped, two view changes for a merge of merged schedules, and a third view for the leader that refuses such a merge; `leftover` needs three timeouts and is covered by the proofs |
| `Window`, `Intervals`, `MaxInstalls` (BusSlots) | the shape of schedules | intervals that divide the window, do not, and send nothing; three installations reach append, replace, append |
| `Buses`, `RetainSlots`, `RetainUnits`, `MaxRewinds` (BusExecution) | the buses and the memory | a request repeated in its own slot's successors; both prune limits bind; the second rewind meets re-executed slots; there is one slot more than the ring has cells |
| `Plans`, `MaxTime`, `Width` (BusClient) | the clock, views, requests and answers | three windows; answers of two views and two indexes |
| `MaxInstances`, `MaxInFlight`, `Plans` (Paxos) | instances, messages on their way, proposals, grace periods, leaders | four messages in flight let one round overtake another |
| limits (BusLink), `MaxConns`, `MaxBreaks`, `Plans` (BusConn) | list limits of 2, two connections, one break | lengths 0, 2 and 3 are empty, at the limit and over it; the second connection shows what a late failure of the first does |

Two runs also start late, because part of what they are about lies deep. `sync` starts
from `Init` and from the state in which a follower has executed everything, with a bus
where the leader closed the slot and committed a round (`AheadInit`). `execution` starts
from a new replica, with one rewind, and from one that took all buses in order, so that
the ring has wrapped, with `MaxRewinds` (`NewOrWrapped`).

`Plans` sets are part of `Init`: a behaviour has one plan, and a run explores all of
them. `N = 3`, `F = 1` everywhere: the smallest group in which a quorum is not
everyone. Every run of several actors says `CHECK_DEADLOCK FALSE`: when all
buses, timers and rounds of an instance are spent the system rests.

The waits of the transfer queue are not modelled: a request that would queue
behind a running transfer is dropped, as the code drops it when the queue is
full, and the mechanisms that made it make it again.

## 3. The runs

Runs that pass:

| Run | Shows |
| --- | --- |
| `sync` | five slots, a ring of three, two rounds, a bus only one follower has, one no-op; also from the state in which the digest of a follower that differs has left the ring, for unverified acknowledgements and failed rewinds. Types; execution passes no empty slot; followers' no-ops are the leader's; votes counted together agree; below the leader's commit point every request has the leader's vote and a quorum of equal votes or unverified acknowledgements; the leader's log only grows. 771,097 states |
| `gap_liveness` | every slot below one that was seen is executed one day. 9,500 states |
| `view_change` | one view change, two slots. A view starts after a majority left the lower ones; committed requests keep their index and no index is given twice. 103,392 states |
| `view_change_sync` | a view change after a round, with a no-op, the old leader cut off, merged slots that may be given up: the new leader fetches the committed prefix, a retained prefix that differs is repaired without a hole, and all StartViews of a view agree. 60,087 states |
| `view_change_stable` | two view changes after a round; merged slots may be given up: installing a `StartView` rewrites nothing a replica holds below its commit point. 754,852 states |
| `schedule` | replicas that admit buses in one view agree on the slots; a window that a quorum held survives every view change; leaders grant only what a quorum holds; the refinement of `BusHistory`. 804,028 states |
| `slots` | the closed form, the cursor and the sorted send times agree, for every schedule of the instance. 164,876 states |
| `execution` | four slots and a ring of three. The store is a replay of the log; a request runs once; indexes and digests fit the prefix; resident memory is what is held; what is served was executed; each except where it is said below. 520,148 states |
| `client` | the client follows views that started; resumes only by a grant new enough; sends each bus once, on a granted line; commits on a quorum with the leader; counts a request once; watches it until then. 1,519,123 states |
| `paxos` | replicas execute the same; ballots rise, in instances with one proposer; answered commands are at two of the three, if it also kept its ballot. 2,080,079 states |
| `wire` | every message type arrives whole and in order; nothing is stuck; readers give up only over a limit; a retired connection is replaced exactly once. 655,629 states |

One run finds a violation of what the repository's own specification says:
`install_aborted`, of "A committed request remains at the same log index in every
later installed view" (`paxosbus/tla/paxosbus.tla:990`). A replica that cleared its
log for a `StartView` and then left that view reports the cleared log under its
old, highest `lastNormalView`; the merge trusts that report alone
(`recovery.go:1288`).

### Where the properties stop

Some sentences of the repository do not hold of its code. The properties above
exempt exactly these cases, named here with the constants that reach them.

Replicas (`BusNormal`, `PaxosBus`):

- `handleSyncCommit` raises a follower's commit point over a prefix that differs
  from the leader's, a bus executed where the leader has a no-op
  (`recovery.go:232`; `paxosbus.tla:1012`, "up to an agreed commit point, they have the
  same log prefix"). Two slots, `MaxRounds = 1`, the first bus at one follower.
- `mergeSuffix` prefers one bus to a no-op a quorum acknowledged, and later slots
  shift their log index with it (`recovery.go:695`; `paxosbus.tla:1006`). One slot,
  `MaxNoOps = 1`. So `view_change` has no no-ops.
- `fetchMergedState` turns a slot whose donors do not answer into a no-op although
  the request may be committed (`recovery.go:960`). `MergeFails = TRUE`; so
  `view_change` says `FALSE`.
- A new leader answers clients before `publishNormalViewLocked` sets
  `lastNormalView`; if it leaves the view in between, the next merge does not see
  what it helped to commit (`recovery.go:765`). Two view changes; so `view_change`
  has one.
- The first of these at the new leader: with `MaxNoOps = 1`, `MaxRounds = 1` and
  `Hears = Everyone` the merged commit point covers a slot the new leader has filled
  differently, and it keeps its own (`recovery.go:829`).
- A round acknowledged unverified counts like any other (`recovery.go:189`). A follower
  executes a bus that the leader closes as a no-op, and all buses after it; when the
  round comes, the announced prefix is below its hash window, and it agrees. The commit
  point then covers a request that the follower answered with another log index, against
  "Everything at or below a replica's commit point is committed" (`paxosbus.tla:998`).
  Five slots, `RingSize = 3`, `MaxNoOps = 1`, `MaxRounds = 1`, the second bus at the leader
  and all at one follower. So `SyncSafety` counts votes and unverified acknowledgements
  together; without the latter it says that everything below the commit point is
  committed.
- `finishSyncFetch` reads the commit point before it releases the mutex; a `SyncCommit`
  raises it, and the rewind stops below the new one (`recovery.go:1781`), against "The
  commit point never claims more than this replica has executed" (`paxosbus.tla:969`),
  until the replica has fetched the slots again. Three slots, `MaxNoOps = 1`,
  `MaxRounds = 2`, `Arrivals <- FollowerAhead`.
- The new leader installs its merge without a look at its own commit point
  (`installCanonicalViewLocked`, `recovery.go:1448`), and the stale commit point
  above can make a rewind go below the present one. So `StableKept` speaks of
  the installation of `StartView`s, where `prepareRecoveryLocked` refuses what
  contradicts the commit point.

Schedule agreement (`BusSchedule`, replicas in `leftover`):

- `commitScheduleHistoryLocked` (`schedule.go:102`) leaves `scheduleCommittedEnd` as it
  is when the history is empty. A window that only the leader of view 0 holds can be
  missing in view 1 and come back with the leader of view 2, which calls all it
  takes over committed (`recovery.go:1529`); view 3 starts without it again. A
  replica that was normal in views 2 and 3 then has a committed end above its
  schedule, admits buses on windows that are only prepared, and need not agree on
  their slots with the others. Two windows, `MaxView = 3`, `asks` for window 2 in
  view 0 and windows 1 and 2 in view 3, `suspects = {<<1, 0>>, <<2, 1>>, <<0, 2>>}`.

Execution (`BusExecution`):

- After a rewind the files keep the first record of a slot (`durablelog.go:259`), so
  a slot that is pruned later is served as it was before the rewind. The comment at
  `recovery.go:2077` trusts the disk below the commit point.
- A late bus fills a slot again whose entry was pruned, or dropped by a merge that
  could not rewind, and is served (`replica.go:980`).
- `ringValidLocked` (`replica.go:550`) goes by `nextExpected` alone. After a rewind a cell
  that a slot rewound since has taken counts as valid for the older slot: with
  `RetainSlots = 1`, slots 0 to 3 executed and a rewind to 1, the cell of slot 0 holds
  slot 3. A second rewind to 1 takes digest and log index from it. `PrefixExact`
  exempts such cells (`Overwritten`), and all that follows a rewind that used one
  (`wrapped`). `BusSync` and `PaxosBus` take a rewind that succeeds to be exact.
- Without a commit point pruning follows `nextExpected`, and a rewind to slot 0 finds
  no undo records (`replica.go:1222`).
- A retransmission that arrives after its first slot was pruned runs again
  (`replica.go:1257`); with `retainBytes` replicas prune at different times.

Client (`BusClient`):

- A copy that is on its way to a bus (queued while the client is paused, or collected
  by the timer and not yet queued) until the janitor has forgotten the committed request
  makes it a new one, and it is counted twice (`client.go:386`, `client.go:536`).
- The client pauses for any view a replica reports, certified or not
  (`client_control.go:219`; `paxosbus/specula/base.tla:702`, `PauseRequiresCertifiedView`).

Paxos baseline (`Paxos`, instances in `contested` or `raised`):

- A proposer ignores the commands acceptors report (the comment at `paxos.go:577`
  calls it strange), so a second leader or a follower that recovers an instance
  has its own command or a no-op accepted over a chosen one.
- `handlePrepareReply` does not set `vbal`, so a later `Commit` carries -1 and is
  ignored; a late reply takes a committed instance back to accepted; a refused
  accept uses the ballot as an instance (`paxos.go:639`) and may end the process. That
  end is modelled (`panicked`), but no property speaks of it.
- An acceptor answers an accept with the ballot it has promised, accepted or not.
  When a proposer prepares a higher ballot and its accept of the lower one comes
  after that, the refusal carries the higher ballot and is counted as an acceptance
  of it (`paxos.go:631`). So `AnsweredStored` exempts `raised`.
- Each `PrepareReply` after the quorum sends the accepts again, and replies name no
  sender: with five replicas one acceptor may be counted twice. So `AnsweredStored`
  speaks of two holders, which is a write quorum of three replicas.

Messages (`WireFormat`):

- `epaxos.PrepareReply.VBallot` is never marshalled (`epaxos/defs.go:153`), though
  recovery compares it (`epaxos.go:1240`).
- Generated `Unmarshal` methods drop the error of a list element: the message in
  which a connection fails may be delivered with zero elements at its end.
- Lists of slots have a limit at the reader (`msgs.go:443`) and none at the sender.

### Fairness

Only `gap_liveness` uses it. `gapDetectLoop` is a ticker and the leader's probe
ends by an answer or by its timer: weak fairness. Between a follower and the
leader a question or an answer can be lost, or come after the follower's timer;
the follower asks again as long as the slot is empty, so it is enough that not
every exchange fails: strong fairness. Nothing is assumed of buses, transfers
or rounds.

### Mutants

Each property of a passing run has a mutant, an operator that changes one
mapped definition the way a slip in that code would: a dropped re-check after
the probe, a clear that starts one slot early, an acknowledgement without
comparing digests, a rewind left out, a quorum of one less, a tie counted for the
wrong client, the shortest of the reported schedules, an undo record of the last
write instead of the first, a vote of another view, a lock not taken, a limit that
is off by one.

## 4. The proofs

The theorems hold for every value of the constants: every `N = 2F + 1`, any
numbers of slots, views, rounds and instances, any arrivals, timeouts, deliveries
and plans; those of `PaxosBus` for logs within the hash window (`WindowAssumption`). The bounds of the runs are parameters here, not limits. The
assumptions are the named `ASSUME`s of the modules: the configuration is one the
code accepts, bounds are naturals, plans and patterns have their types. In
`ClientAssumption` the plans' answers name replicas and views that exist; in
`PaxosAssumption` no command is one of the three values that stand for "none"; in
`ScheduleAssumption` the clients are finitely many numbers. `BusConn` assumes nothing
of batches, bytes and decoding.

| Module | Theorem | Statement |
| --- | --- | --- |
| `BusNormalProofs` | `TypeCorrect` | `Spec => []TypeOK` |
| | `ExecutionIsFilled` | `Spec => []ExecutedPrefixFilled` |
| | `NoOpsComeFromLeader` | `Spec => []NoOpsFromLeader` |
| | `VotesAgree` | `Spec => []VoteAgreement` |
| | `LeaderLogGrows` | `Spec => LeaderAppendOnly` |
| | `SyncIsSafe` | `Spec => []SyncSafety` |
| `PaxosBusProofs` | `TypeCorrect` | `Spec => []TypeOK` |
| | `ExecutionIsFilled` | `Spec => []ExecutedPrefixFilled` |
| | `OlderViewsAreLeft` | `Spec => []OlderViewsLeft` |
| | `StartViewsSayTheSame` | `Spec => []StartViewsAgree` |
| | `StartViewsKeepStable` | `Spec => StableKept` |
| `BusScheduleProofs` | `SlotsAgreeAlways` | `Spec => []SlotsAgree` |
| | `ChosenKeptAlways` | `Spec => []ChosenKept` |
| | `GrantsBackedAlways` | `Spec => []GrantsBacked` |
| | `ScheduleRefinement` | `Spec => ImplementsHistory` |
| `BusClientProofs` | `HintIsCertified` | `Spec => []HintCertified` |
| | `ResumesByGrant` | `Spec => []ResumedByGrant` |
| | `BusesAreOnLine` | `Spec => []BusesOnLine` |
| | `CommitsAreBacked` | `Spec => []CommitBacked` |
| | `CountsOnce` | `Spec => []CountedOnce` |
| | `StaysWatched` | `Spec => []StillWatched` |
| `BusConnProofs` | `OneTokenAlways` | `Spec => []OneToken` |
| | `RetiresRightly` | `Spec => RetiredRightly` |
| | `BatchesStayWhole` | `Spec => []SentWhole` |
| `PaxosProofs` | `ExecutionAgrees` | `Spec => []ExecutedAgree` |
| | `AnswersAreStored` | `Spec => []AnsweredStored` |
| | `BallotsOnlyRise` | `Spec => BallotsRise` |

**Normal operation.** `NoOpsFromLeader` alone is not inductive: a `GapCommit` in
flight, or the entries of a transfer that was served, can bring a no-op to a
follower later. So the invariant `Inv` adds that each of these is backed by a no-op
in the leader's log (`MessagesBacked`, `TransfersBacked`), that nothing which
orders a follower about is addressed to the leader, that the leader runs no
transfer, hence never rewinds, and that only it has a round open
(`RoundsBacked`). For `VoteAgreement` a vote must be tied to the log it came from:
`VotesBacked` says that its index and its no-ops add up to its slot, that its
no-ops are the leader's, and that the leader's own votes name all of them. Two
votes with the same slot and index then have equally many no-ops, one set inside
the other. Instead of one case per action and conjunct, every action is shown to
make a `Step`: logs grow (`Grows`), new votes describe the log they come from
(`NewVotes`), new messages and transfers are backed. `StepInv` shows once that a
`Step` preserves `Inv`.

**Synchronisation.** `SyncInv`, relative to `Inv`: a replica has replied for every bus
it executed, with the index the bus still has (`ExecutedAnswered`); what a
`SyncPrepare`, or a transfer made for one, announces is an executed prefix of the
leader with its digest; an acknowledgement, or an answer that waits for the mutex
after the digests were found equal, is of a replica that has replied like the
leader below it (`Backed`), or was given unverified, which `SyncSafety` counts as such:
the theorem holds for every size of the hash window. Replies are never withdrawn and the leader's prefix
never changes, so a follower may rewind after it acknowledged and `Backed` still
holds: that is what makes the window of `finishSyncFetch` harmless to clients.
A quorum of acknowledgements then is, for each bus, a quorum of equal votes and
unverified acknowledgements.

**View change.** `Left(v)` says that a majority is in view `v` or above; views only
rise, so it stays true. A replica that runs a view or works on its log entered it
after `Left` (`Entered`), as does every report and `StartView` (`MessagesBacked`).
For `StartViewsAgree` each `StartView` is tied to its leader's log while the leader
stays in the view (`Announces`, `Describes`): no-ops between the merged commit point
and the announced end are in its executed prefix, and a leader that has installed
the merge transfers nothing (`Placed`), so nothing rewinds it. A `StartView` sent
again later is read off the same log. For a view the leader has left nothing more
is sent. For `StableKept` a replica that installs does nothing else (`Installing`): it
opens no gap and no round, its commit point stays the base of the installation, and
its transfer brings slots that were empty when asked for. What arrives below the
commit point therefore meets empty slots only, rewinds and clears start at the base,
and a `StartView` that says otherwise there was refused.

**Schedule.** `Full(v)` is the schedule of view `v`: what its leader held last while
normal, with what its StartViews say. Everything held or said in the view is a
beginning of it (`Within`, `GoodBatch`), so two schedules of one view never
disagree; what a replica calls committed it holds (`Covered`, unless it is in
`leftover`), which gives `SlotsAgree`. Across views the argument is that of Paxos:
`Choosable(v, h)` says that a quorum may still come to hold `h` in view `v`, because
each of its members held it when it left or has not left; `Safe` says that every
StartView begins with whatever is choosable in a lower view. A merge keeps it so:
the quorum of the reports meets the quorum of `h`, the report they share tells what
its sender held in its last normal view or in a StartView after it (`GoodReport`),
and the longest report of the highest such view has it too. `Choosable` can only
become false, so old StartViews stay `Safe`. Each action is shown to `Grow` what is
held and said; `Preserve` shows once that the conjuncts about everyone else are
kept. For the refinement, any two schedules that quorums held are comparable, so
`agreed` can only be replaced by one that begins with it.

**Links.** `OneToken` alone is not inductive: `Token` adds that at most one thread is
about to signal the dialer, and none while the channel holds a token, since only who
cleared the writer signals. `Working` says that a thread that is to retire a
connection saw it fail, hence `RetiredRightly`. For `SentWhole` the holder of the lock,
and nobody else, has its started writes in the buffer (`Buffers`), so a flush
appends one whole batch to a sequence of whole batches (`AppendBatch`); a thread's
writes are on the connection it took first (`Sents`). With batches as constants the
theorems hold whatever the codec does.

**Client.** One type invariant and one small invariant per theorem. A report that
the client holds was true once (`HintInv`); accepted windows come from grants, and
the bus on its way is newer than all that were sent (`LineInv`); before the client has
started nothing is paused, and the grants that wait were given (`StartInv`); the votes of a
committed request are a quorum; `CountInv` relates waiting copies, watches and
counts, and shows that the only way to a second count is the janitor's.

**Paxos.** For an instance with one proposer `p`, `Inv` says: answers reach only
proposers (`Addressed`), so nobody but `p` acts on one; `p` keeps its command and
has promised no ballot above the one it tries, because `makeBallot` from any ballot
it has heard of gives at least that (`Reach`, `Proposers`, `Defaults`); nothing but
that command is accepted, held or executed (`OneCommand`). `Known` supplies what a
new proposer needs: an instance at or below anyone's `crtInstance` has a proposer
already. `OneBallot` is for `AnsweredStored`: as long as `p` has tried one
ballot, whoever reports an acceptance or a commit does so after another
replica holds the command. Handlers are shown to make a `Step`, which preserves the
invariant and raises ballots.

`NatFacts` and `BusLogProofs` hold the lemmas about remainders, extrema and the
operators of the log.

Checked by TLC only:

- liveness (`gap_liveness`), which is out of the prover's reach;
- `Linearizability` and `Durability` of `PaxosBus`: they are false
  outside the instances of their runs, for the reasons section 3 gives, and so are not
  theorems of the code;
- `BusSlots` and `BusExecution`: cursors, indexes, digests and replays are
  folds over sequences, and what a fold computes for every input needs induction
  over data;
- `DeliveredWhole`, `NothingStuck` and `GivesUpRightly` of `BusLink`: they are about
  what the codec of `WireFormat` returns, which is recursive.

## 5. Not modelled, and the plan

Not modelled:

- the handlers of N2Paxos, EPaxos, CURP, Fast Paxos and SwiftPaxos: their messages
  are in `BaselineMessages`, their protocols are other people's and only measured
  against; `swift.MSync` is encoded with gob and left out;
- the offsets and the index of the durable log files: records are in order there,
  and the holes the writer can leave never occur;
- time: `holdUntil`, `clientGapDue`, the request generator's pacing and the windows'
  clock at the replicas; where the code waits, the model may wait or not;
- the schedule connections of `sendSchedulePeer`, which are dialled on demand;
- configuration parsing, start-up, the master, logging and statistics, the
  experiment drivers and the scripts.

The modules stand side by side: `PaxosBus` takes the slots as given and its
schedule as fixed, `BusSchedule` leaves out the log, `BusClient` takes the replicas
as an environment. `SlotsAgree` and `SlotIsRank` are what `PaxosBus` assumes, and
`VoteAgreement` and `Durability` are what makes `CommitBacked` mean something.

Planned:

1. Theorems: `Durability` and `Linearizability` of `PaxosBus` under the conditions of
   `view_change` (no no-ops, no failed merge, one view change), for every number of
   replicas, slots and buses.
2. Liveness: a client that paused runs again; a retired connection is replaced.
3. `view_change` with a log that `BusExecution` executes.
