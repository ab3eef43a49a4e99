---------------------------- MODULE BusExecution ----------------------------
(***************************************************************************)
(* Execution at one PaxosBus replica: the requests of the filled slots are *)
(* deduplicated, numbered, written to the store and to two files; settled  *)
(* slots are pruned from memory and served from the files; a view change   *)
(* or a repair rewinds slots that are not settled.                         *)
(*                                                                         *)
(* The replica is one record, because every operation here runs under      *)
(* r.mu.  What the other replicas decide (no-ops, commit points, merged    *)
(* views) is input, as long as it leaves the commit point alone.  The pair *)
(* (haveStable, stableSlot) is the number of slots up to stableSlot, 0 if  *)
(* there is none.  A prefix hash is the sequence of states it digests.     *)
(* Sizes are counted in units: one per request, one or two per undo record.*)
(***************************************************************************)
EXTENDS Integers, FiniteSetsExt, SequencesExt

CONSTANTS
  Buses,        \* Buses[s + 1]: the requests <<client, id>> of the bus of slot s
  RetainSlots,  \* executed slots kept in memory
  RetainUnits,  \* the retainBytes, in units; 0: no limit
  MaxRewinds    \* bound: rewinds

ASSUME ExecutionAssumption ==
  /\ RetainSlots \in Nat /\ RetainUnits \in Nat /\ MaxRewinds \in Nat
  /\ Buses \in Seq(Seq(Nat \X Nat))

NumSlots == Len(Buses)
Slots == 0..(NumSlots - 1)
SlotSeq == [i \in 1..NumSlots |-> i - 1]
Requests == UNION {Range(Buses[i]) : i \in 1..NumSlots}
Keys == {q[1] : q \in Requests}
RingSize == RetainSlots + 2

None == <<>>   \* no value, no index

VARIABLES
  rep,      \* the replica
  rewinds,  \* counts rewinds
  rewound,  \* history: the lowest slot that was ever rewound
  lost,     \* history: a rewind met a slot that was pruned before any commit point
  refilled, \* history: executed slots whose entry was gone and a late bus filled again
  wrapped   \* history: a rewind took its state from a cell that a later slot had taken

vars == <<rep, rewinds, rewound, lost, refilled, wrapped>>

-----------------------------------------------------------------------------
(* The slot log *)

NoEntry == [state |-> "empty", reqs |-> <<>>, lo |-> 0, hi |-> 0, hash |-> <<>>, after |-> 0,
            undo |-> <<>>, size |-> 0]

executed(L, s) == s < L.next

\* Mutant of releaseEntryBytes: the undo records stay counted.
releaseEntryBytesRequests(L, s) ==
  [L EXCEPT !.resident = @ - Len(L.ent[s].reqs), !.ent[s].size = 0]

releaseEntryBytes(L, s) ==
  [L EXCEPT !.resident = IF L.ent[s].size > @ THEN 0 ELSE @ - L.ent[s].size,
            !.ent[s].size = 0]

deleteEntry(L, s) ==
  LET M == releaseEntryBytes(L, s) IN [M EXCEPT !.ent[s] = NoEntry]

deleteEntries(L, S) == FoldSet(LAMBDA s, M : deleteEntry(M, s), L, S)

(* claimSlotLocked and recordBusReceivedLocked.  Nothing tells a slot that was
   pruned from one that was never filled. *)
recordBus(L, s) ==
  IF L.ent[s].state # "empty" THEN L
  ELSE [L EXCEPT !.ent[s] = [NoEntry EXCEPT !.state = "received", !.reqs = Buses[s + 1],
                                            !.size = Len(Buses[s + 1])],
                 !.resident = @ + Len(Buses[s + 1])]

setNoOp(L, s) ==
  IF executed(L, s) \/ L.ent[s].state = "noop" THEN L
  ELSE LET M == releaseEntryBytes(L, s)
       IN  [M EXCEPT !.ent[s].state = "noop", !.ent[s].reqs = <<>>]

setNoOps(L, S) == FoldSet(LAMBDA s, M : setNoOp(M, s), L, S)

-----------------------------------------------------------------------------
(* The files: a line for each key from 0 on.  Keys come in order, so that no
   placeholder is ever written, except for keys a rewind takes back: apply looks
   for a placeholder to fill, finds none and drops the record.  The writers apply
   records in the order they are pushed; a reader asks them to drain, and one that
   goes on without them after two seconds finds no line.  So a record is applied
   when it is pushed here, and any read may also find nothing. *)

(* push, drain and apply *)
apply(file, key, body) == IF key < Len(file) THEN file ELSE Append(file, body)

\* Mutant of readRecord: the index is off by one line.
readRecordNext(file, key) == IF key + 1 < Len(file) THEN <<file[key + 2]>> ELSE None

(* seekToLocked and readRecords for one key *)
readRecord(file, key) == IF key < Len(file) THEN <<file[key + 1]>> ELSE None

-----------------------------------------------------------------------------
(* Execution *)

UndoSize(u) == IF u.value = None THEN 1 ELSE 2

\* Mutant of rememberWrite: the last value of the slot is kept, not the first.
rememberWriteLast(L, s, key) ==
  LET u == [key |-> key, value |-> L.store[key]]
  IN  [L EXCEPT !.ent[s].undo = SelectSeq(@, LAMBDA v : v.key # key) \o <<u>>,
                !.ent[s].size = @ + UndoSize(u), !.resident = @ + UndoSize(u)]

rememberWrite(L, s, key) ==
  LET u == [key |-> key, value |-> L.store[key]]
  IN  IF \E v \in Range(L.ent[s].undo) : v.key = key THEN L
      ELSE [L EXCEPT !.ent[s].undo = Append(@, u),
                     !.ent[s].size = @ + UndoSize(u), !.resident = @ + UndoSize(u)]

(* One request of appendBusToLogListLocked.  Every occurrence takes a log index
   and a record; only the first one is executed. *)
appendRequest(L, s, q) ==
  LET M == [L EXCEPT !.nextLog = @ + 1,
                     !.reqLog = apply(@, L.nextLog, q)]
      W == rememberWrite(M, s, q[1])
  IN  IF L.dedup[q] # None THEN M
      ELSE [W EXCEPT !.dedup[q] = <<L.nextLog>>,
                     !.store[q[1]] = q,
                     !.applied = Append(@, [slot |-> s, req |-> q, pruned |-> L.pruned])]

appendBusToLogList(L, s) ==
  IF L.ent[s].state = "noop" THEN L
  ELSE LET M == FoldLeft(LAMBDA A, q : appendRequest(A, s, q), L, L.ent[s].reqs)
       IN  [M EXCEPT !.ent[s].lo = L.nextLog, !.ent[s].hi = M.nextLog]

foldExecuted(L, s) ==
  LET hash == Append(L.hash, L.ent[s].state)
  IN  [L EXCEPT !.hash = hash,
                !.ent[s].hash = hash, !.ent[s].after = L.nextLog,
                !.ring[s % RingSize] = [hash |-> hash, idx |-> L.nextLog]]

LogIndexes(from, to) == [i \in 1..(to - from) |-> from + i - 1]

(* advanceNextExpectedOneLocked *)
advanceOne(L) ==
  LET s == L.next
      M == appendBusToLogList(L, s)
      idxs == LogIndexes(L.nextLog, M.nextLog)
      D == [M EXCEPT !.busLog = apply(@, s, [noop |-> L.ent[s].state = "noop", idxs |-> idxs]),
                     !.next = @ + 1]
  IN  foldExecuted(D, s)

advanceRun(L) ==
  FoldLeft(LAMBDA M, s : IF s = M.next /\ M.ent[s].state # "empty" THEN advanceOne(M) ELSE M,
           L, SlotSeq)

-----------------------------------------------------------------------------
(* Pruning *)

(* pruneDedupForSlotLocked: the entries first assigned in this slot *)
pruneDedup(L, s) ==
  LET here(q) == /\ q \in Range(L.ent[s].reqs) /\ L.dedup[q] # None
                 /\ L.dedup[q][1] \in L.ent[s].lo..(L.ent[s].hi - 1)
  IN  [L EXCEPT !.dedup = [q \in Requests |-> IF here(q) THEN None ELSE @[q]]]

pruneSlot(L, s) == [deleteEntry(pruneDedup(L, s), s) EXCEPT !.pruned = s + 1]

(* Without a commit point every executed slot may go. *)
pruneLimit(L) == IF L.stable = 0 THEN L.next ELSE Min({L.next, L.stable - 1})

pruneCommitted(L) ==
  LET target == Min({pruneLimit(L), Max({0, L.next - RetainSlots})})
      due(M, s) == /\ s = M.pruned
                   /\ \/ s < target
                      \/ RetainUnits > 0 /\ M.resident > RetainUnits /\ s < pruneLimit(L)
  IN  FoldLeft(LAMBDA M, s : IF due(M, s) THEN pruneSlot(M, s) ELSE M, L, SlotSeq)

(* advanceNextExpectedLocked *)
advance(L) == pruneCommitted(advanceRun(L))

-----------------------------------------------------------------------------
(* Rewinding *)

\* Mutant of ringValid: one slot too many.
ringValidFar(L, s) == s < L.next /\ s + RingSize + 1 >= L.next

(* ringValidLocked looks at nextExpected only.  A rewind lowers it, and a slot
   below counts as valid again although its cell went to a later slot. *)
ringValid(L, s) == s < L.next /\ s + RingSize >= L.next

(* prefixStateAtLocked: the hash and the log index in front of slot s *)
prefixStateKnown(L, s) ==
  s = 0 \/ ringValid(L, s - 1) \/ (s - 1 >= L.pruned /\ s <= L.next /\ L.ent[s - 1].state # "empty")

prefixStateAt(L, s) ==
  IF s = 0 THEN [hash |-> <<>>, idx |-> 0]
  ELSE IF ringValid(L, s - 1) THEN L.ring[(s - 1) % RingSize]
  ELSE [hash |-> L.ent[s - 1].hash, idx |-> L.ent[s - 1].after]

\* The cell that prefixStateAt(L, s) reads holds a slot that was rewound since.
Overwritten(L, s) ==
  s > 0 /\ ringValid(L, s - 1) /\ Len(L.ring[(s - 1) % RingSize].hash) > L.next

undoWrites(L, s) ==
  LET size == FoldSeq(LAMBDA u, n : UndoSize(u) + n, 0, L.ent[s].undo)
      old(k) == LET us == {u \in Range(L.ent[s].undo) : u.key = k}
                IN  IF us = {} THEN L.store[k] ELSE (CHOOSE u \in us : TRUE).value
  IN  [L EXCEPT !.store = [k \in Keys |-> old(k)],
                !.ent[s].undo = <<>>, !.ent[s].size = @ - size, !.resident = @ - size]

\* Mutant of forget: a request of a rewound slot is forgotten wherever it ran.
forgetAll(L, s, idx) ==
  [L EXCEPT !.dedup = [q \in Requests |-> IF q \in Range(L.ent[s].reqs) THEN None ELSE @[q]]]

(* The dedup entries that the slot added, idx being the log index in front *)
forget(L, s, idx) ==
  [L EXCEPT !.dedup = [q \in Requests |->
     IF q \in Range(L.ent[s].reqs) /\ @[q] # None /\ @[q][1] >= idx THEN None ELSE @[q]]]

(* rewindToLocked, from the last slot down; slots that are gone are skipped *)
rewindTo(L, target) ==
  LET at == prefixStateAt(L, target)
      back(M, s) == IF M.ent[s].state = "empty" THEN M ELSE forget(undoWrites(M, s), s, at.idx)
      M == FoldRight(LAMBDA s, A : IF s \in target..(L.next - 1) THEN back(A, s) ELSE A, SlotSeq, L)
  IN  [M EXCEPT !.next = target, !.hash = at.hash, !.nextLog = at.idx,
                !.applied = SelectSeq(@, LAMBDA a : a.slot < target)]

-----------------------------------------------------------------------------
(* Reading back *)

(* readRequestsFromDisk and readSlotFromDisk *)
readSlotFromDisk(L, s) ==
  LET rec == readRecord(L.busLog, s)
      reqs == [i \in DOMAIN rec[1].idxs |-> readRecord(L.reqLog, rec[1].idxs[i])]
  IN  IF rec = None THEN None
      ELSE IF rec[1].noop THEN <<[noop |-> TRUE, reqs |-> <<>>]>>
      ELSE IF None \in Range(reqs) THEN None
      ELSE <<[noop |-> FALSE, reqs |-> [i \in DOMAIN reqs |-> reqs[i][1]]]>>

(* readSlot: memory first, then the files for what is pruned and settled *)
readSlot(L, s) ==
  IF L.ent[s].state # "empty"
  THEN <<[noop |-> L.ent[s].state = "noop", reqs |-> L.ent[s].reqs]>>
  ELSE IF s < L.pruned /\ s < L.stable THEN readSlotFromDisk(L, s)
  ELSE None

-----------------------------------------------------------------------------
(* Steps *)

NewReplica ==
  [ent |-> [s \in Slots |-> NoEntry], next |-> 0, nextLog |-> 0, stable |-> 0,
   pruned |-> 0, resident |-> 0, hash |-> <<>>,
   ring |-> [i \in 0..(RingSize - 1) |-> [hash |-> <<>>, idx |-> 0]],
   dedup |-> [q \in Requests |-> None], store |-> [k \in Keys |-> None],
   applied |-> <<>>, busLog |-> <<>>, reqLog |-> <<>>]

HistoryInit ==
  /\ rewound = NumSlots
  /\ lost = FALSE
  /\ refilled = {}
  /\ wrapped = FALSE

Init == rep = NewReplica /\ rewinds = 0 /\ HistoryInit

(* handleBus, or a recovered bus: gap agreement and state transfer store it the
   same way. *)
Receive(s) ==
  /\ rep.ent[s].state = "empty"
  /\ rep' = advance(recordBus(rep, s))
  /\ refilled' = IF executed(rep, s) THEN refilled \cup {s} ELSE refilled
  /\ UNCHANGED <<rewinds, rewound, lost, wrapped>>

(* A no-op of gap agreement or of a state transfer *)
NoOp(s) ==
  /\ ~ executed(rep, s) /\ rep.ent[s].state # "noop"
  /\ rep' = advance(setNoOp(rep, s))
  /\ UNCHANGED <<rewinds, rewound, lost, refilled, wrapped>>

(* setStableLocked, at the end of a round or of a view change *)
SetStable(n) ==
  /\ n \in (rep.stable + 1)..rep.next
  /\ rep' = [rep EXCEPT !.stable = n]
  /\ UNCHANGED <<rewinds, rewound, lost, refilled, wrapped>>

(* Bookkeeping of a rewind to target *)
rewinding(target) ==
  /\ target < rep.next => rewinds < MaxRewinds
  /\ rewinds' = IF target < rep.next THEN rewinds + 1 ELSE rewinds
  /\ rewound' = IF target < rep.next THEN Min({rewound, target}) ELSE rewound
  /\ lost' = (lost \/ target < rep.pruned)
  /\ wrapped' = (wrapped \/ (target < rep.next /\ Overwritten(rep, target)))
  /\ UNCHANGED refilled

(* installCanonicalViewLocked and publishNormalViewLocked at a new leader, with
   the merged no-ops and end: what it executed beyond the end, or as a bus that
   is a no-op now, is rewound.  When the state to go back to is not known the
   rest is done all the same. *)
InstallView(noops, end) ==
  LET target == Min({rep.next, end} \cup {s \in noops : rep.ent[s].state = "received"})
      back == target < rep.next /\ prefixStateKnown(rep, target)
      M == IF back THEN rewindTo(rep, target) ELSE rep
      outside == {s \in Slots : s >= end /\ M.ent[s].state = "noop"}
  IN  /\ end >= rep.stable /\ \A s \in noops : s \in rep.stable..(end - 1)
      /\ M # rep \/ outside # {}
      /\ rewinding(IF back THEN target ELSE rep.next)
      /\ rep' = advance(setNoOps(deleteEntries(M, outside), noops))

(* prepareMergedRequestSlotLocked: the merge has a bus for a no-op slot *)
MergedRequest(s) ==
  /\ s >= rep.stable /\ rep.ent[s].state = "noop"
  /\ s < rep.next => prefixStateKnown(rep, s)
  /\ rewinding(s)
  /\ rep' = deleteEntry(IF s < rep.next THEN rewindTo(rep, s) ELSE rep, s)

(* rewindToStableAndRefetch, and an installation that retains nothing: all
   above the commit point is fetched anew. *)
Repair ==
  /\ rep.stable < rep.next
  /\ prefixStateKnown(rep, rep.stable)
  /\ rewinding(rep.stable)
  /\ rep' = deleteEntries(rewindTo(rep, rep.stable), {s \in Slots : s >= rep.stable})

Next ==
  \/ \E s \in Slots : Receive(s) \/ NoOp(s) \/ MergedRequest(s)
  \/ \E n \in 1..NumSlots : SetStable(n)
  \/ \E noops \in SUBSET Slots, end \in 0..NumSlots : InstallView(noops, end)
  \/ Repair

Spec == Init /\ [][Next]_vars

-----------------------------------------------------------------------------
(* Properties *)

LastWrite(applied, k) ==
  LET mine == SelectSeq(applied, LAMBDA a : a.req[1] = k)
  IN  IF mine = <<>> THEN None ELSE mine[Len(mine)].req

(* After any rewinds, retransmissions and changed slots the store holds what
   executing the present slots from the start would leave in it.  The exception
   is a rewind over slots that were pruned before there was a commit point:
   their undo records are gone. *)
StoreIsReplay == lost \/ \A k \in Keys : rep.store[k] = LastWrite(rep.applied, k)

(* A request is executed in one slot however often it is retransmitted, unless
   that slot had been pruned with its dedup entry when the retransmission ran. *)
ExecutedOnce ==
  \A i, j \in DOMAIN rep.applied :
    i < j /\ rep.applied[i].req = rep.applied[j].req
      => rep.applied[i].slot < rep.applied[j].pruned

RequestsBefore(s) ==
  MapThenSumSet(LAMBDA t : IF rep.hash[t + 1] = "received" THEN Len(Buses[t + 1]) ELSE 0,
                0..(s - 1))

(* Log indexes depend on the executed prefix only, and what the replica says of
   a prefix is about that prefix: replicas that executed the same slots reply
   with the same indexes whatever they rewound.  The exception is a cell of the
   ring that a later slot took before a rewind made it count again
   (ringValidLocked): what is read from it is about the later slot, and a rewind
   that relies on it leaves a wrong digest and a wrong log index for good. *)
PrefixExact ==
  \/ wrapped
  \/ /\ rep.nextLog = RequestsBefore(rep.next)
     /\ Len(rep.hash) = rep.next
     /\ \A s \in 0..rep.next : prefixStateKnown(rep, s) /\ ~ Overwritten(rep, s) =>
          prefixStateAt(rep, s) = [hash |-> SubSeq(rep.hash, 1, s), idx |-> RequestsBefore(s)]

(* The memory the pruning limits is what the slots hold, undo records included. *)
ResidentExact == rep.resident = FoldFunction(+, 0, [s \in Slots |-> rep.ent[s].size])

Executed(s) ==
  [noop |-> rep.hash[s + 1] = "noop",
   reqs |-> IF rep.hash[s + 1] = "noop" THEN <<>> ELSE Buses[s + 1]]

(* What a replica serves of an executed slot, from memory or from its files, is
   what it executed there, except in a slot at or above one that was ever
   rewound (the files keep what was executed first) and in a slot whose entry was
   gone, pruned or dropped, and that a late bus filled again. *)
ServesExecuted ==
  \A s \in Slots : s < rep.next /\ s < rewound /\ s \notin refilled
    => readSlot(rep, s) \in {None, <<Executed(s)>>}

=============================================================================
