---------------------------- MODULE BusLogProofs ----------------------------
(***************************************************************************)
(* Facts about the operations on a slot log, for every number of slots.    *)
(***************************************************************************)
EXTENDS BusLog, NatFacts, FiniteSetTheorems

\* Execution has not run over an empty slot of log L.
Filled(L) == \A s \in 0 .. L.next - 1 : L.ent[s] # Empty

\* advanceNextExpectedLocked has somewhere to stop, and passes filled slots only.
LEMMA FilledEndFacts ==
  ASSUME NEW ent \in [Slots -> SlotStates], NEW limit \in 0 .. NumSlots,
         NEW from \in 0 .. limit
  PROVE  /\ FilledEnd(ent, from, limit) \in from .. limit
         /\ \A s \in from .. FilledEnd(ent, from, limit) - 1 : ent[s] # Empty
         /\ FilledEnd(ent, from, limit) = limit \/ ent[FilledEnd(ent, from, limit)] = Empty
<1>. DEFINE T == {k \in from .. limit : k = limit \/ ent[k] = Empty}
<1>1. T \in SUBSET Nat /\ limit \in T
  BY NumSlotsAssumption
<1>2. PICK k \in T : \A y \in T : k <= y
  BY <1>1, LeastNatural
<1>3. \A s \in from .. k - 1 : ent[s] # Empty
  BY <1>2, NumSlotsAssumption
<1>. QED
  BY <1>2, <1>3 DEF FilledEnd

\* The highest slot seen stays within the log.
LEMMA TopType ==
  ASSUME NEW n \in 0 .. NumSlots, NEW S \in SUBSET Slots
  PROVE  Top(n, S) \in 0 .. NumSlots
<1>. DEFINE T == {k \in 0 .. NumSlots : k >= n /\ \A s \in S : k > s}
<1>1. T \in SUBSET Nat /\ NumSlots \in T
  BY NumSlotsAssumption DEF Slots
<1>2. PICK k \in T : \A y \in T : k <= y
  BY <1>1, LeastNatural
<1>3. CASE k = n
  BY <1>2, <1>3 DEF Top
<1>4. CASE k # n
  <2>1. k - 1 \in 0 .. NumSlots /\ k - 1 >= n /\ k - 1 \notin T
    BY <1>2, <1>4, NumSlotsAssumption
  <2>2. PICK s \in S : ~ (k - 1 > s)
    BY <2>1
  <2>3. s = k - 1
    BY <1>2, <2>2, NumSlotsAssumption DEF Slots
  <2>. QED
    BY <1>2, <2>2, <2>3 DEF Top
<1>. QED
  BY <1>3, <1>4

\* appendBusToLogListLocked: the log index of a slot depends on the slots below it.
LEMMA LogIndexSame ==
  ASSUME NEW L, NEW M, NEW s, \A t \in 0 .. s - 1 : L.ent[t] = M.ent[t]
  PROVE  LogIndex(L, s) = LogIndex(M, s)
<1>1. {t \in 0 .. s - 1 : L.ent[t] = Received} = {t \in 0 .. s - 1 : M.ent[t] = Received}
  OBVIOUS
<1>. QED
  BY <1>1, Zenon DEF LogIndex

-----------------------------------------------------------------------------
(* What each operation does to a log *)

\* A new log has executed nothing.
LEMMA EmptyLogFacts == EmptyLog \in Logs /\ Filled(EmptyLog)
BY NumSlotsAssumption DEF EmptyLog, Logs, Filled, SlotStates

\* recordBusReceivedLocked changes an empty slot only.
LEMMA RecordBusFacts ==
  ASSUME NEW L \in Logs, NEW s \in Slots
  PROVE  /\ RecordBus(L, s) \in Logs
         /\ RecordBus(L, s).next = L.next
         /\ RecordBus(L, s).stable = L.stable
         /\ \A t \in Slots : RecordBus(L, s).ent[t] =
                IF t = s /\ L.ent[t] = Empty THEN Received ELSE L.ent[t]
BY NumSlotsAssumption DEF RecordBus, Holding, Logs, Larger, Slots, SlotStates, Empty, Received, NoOp

\* setNoOpLocked changes a slot at or above the executed frontier only.
LEMMA SetNoOpFacts ==
  ASSUME NEW L \in Logs, NEW s \in Slots
  PROVE  /\ SetNoOp(L, s) \in Logs
         /\ SetNoOp(L, s).next = L.next
         /\ SetNoOp(L, s).stable = L.stable
         /\ \A t \in Slots : SetNoOp(L, s).ent[t] =
                IF t = s /\ t >= L.next THEN NoOp ELSE L.ent[t]
BY NumSlotsAssumption DEF SetNoOp, Holding, Logs, Larger, Slots, SlotStates

\* applyStateEntries takes no-ops from the transfer, and leaves the executed prefix alone.
LEMMA ApplyEntriesFacts ==
  ASSUME NEW L \in Logs, NEW D \in SUBSET Slots, NEW e \in [D -> SlotStates]
  PROVE  /\ ApplyEntries(L, e) \in Logs
         /\ ApplyEntries(L, e).next = L.next
         /\ \A t \in Slots : ApplyEntries(L, e).ent[t] = NoOp =>
                L.ent[t] = NoOp \/ (t \in D /\ e[t] = NoOp)
         /\ \A t \in Slots : t < L.next /\ L.ent[t] # Empty =>
                ApplyEntries(L, e).ent[t] = L.ent[t]
<1>. DEFINE T == {s \in D : e[s] = NoOp /\ s >= L.next}
            B == {s \in D : e[s] = Received}
            M == SetNoOps(L, {s \in D : e[s] = NoOp})
            top == Top(L.seen, T)
            E == [s \in Slots |-> IF s \in T THEN NoOp ELSE L.ent[s]]
<1>0. L.seen \in 0 .. NumSlots /\ L.next \in 0 .. NumSlots /\ L.ent \in [Slots -> SlotStates]
  BY DEF Logs
<1>1. T \in SUBSET Slots /\ B \in SUBSET Slots
  OBVIOUS
<1>2. top \in 0 .. NumSlots
  BY <1>0, <1>1, TopType
<1>3. M = Holding(L, E, top)
  <2>1. {s \in {s \in D : e[s] = NoOp} : s >= L.next} = T
    OBVIOUS
  <2>. QED
    BY <2>1 DEF SetNoOps
<1>4. M \in Logs /\ M.next = L.next /\ M.seen = top /\ M.ent = E
  BY <1>0, <1>2, <1>3 DEF Logs, SlotStates, Holding
<1>5. Top(top, B) \in 0 .. NumSlots
  BY <1>1, <1>2, TopType
<1>. DEFINE E2 == [s \in Slots |-> IF s \in B /\ E[s] = Empty THEN Received ELSE E[s]]
<1>6. ApplyEntries(L, e) = Holding(M, E2, Top(top, B))
  <2>1. DOMAIN e = D
    OBVIOUS
  <2>. QED
    BY <1>4, <2>1 DEF ApplyEntries
<1>7. /\ ApplyEntries(L, e) \in Logs
      /\ ApplyEntries(L, e).next = L.next
      /\ ApplyEntries(L, e).ent = E2
  <2>1. E2 \in [Slots -> SlotStates]
    BY <1>0 DEF SlotStates
  <2>. HIDE DEF E2
  <2>. QED
    BY <1>4, <1>5, <1>6, <2>1 DEF Logs, Holding
<1>. QED
  BY <1>0, <1>7 DEF Slots, Empty, NoOp, Received

\* applyStateEntries leaves the slots alone that the transfer does not hold.
LEMMA ApplyEntriesOutside ==
  ASSUME NEW L \in Logs, NEW e
  PROVE  /\ ApplyEntries(L, e).stable = L.stable
         /\ \A t \in Slots : t \notin DOMAIN e => ApplyEntries(L, e).ent[t] = L.ent[t]
BY DEF ApplyEntries, SetNoOps, Holding

\* advanceNextExpectedLocked moves the frontier over filled slots.
LEMMA AdvanceFacts ==
  ASSUME NEW L \in Logs
  PROVE  /\ Advance(L) \in Logs
         /\ Advance(L).ent = L.ent
         /\ Advance(L).next >= L.next
         /\ Advance(L).stable = L.stable
         /\ Filled(L) => Filled(Advance(L))
<1>. DEFINE k == FilledEnd(L.ent, L.next, NumSlots)
<1>1. L.ent \in [Slots -> SlotStates] /\ L.next \in 0 .. NumSlots /\ NumSlots \in 0 .. NumSlots
  BY NumSlotsAssumption DEF Logs
<1>2. k \in L.next .. NumSlots /\ \A s \in L.next .. k - 1 : L.ent[s] # Empty
  BY <1>1, FilledEndFacts
<1>3. /\ Advance(L) \in Logs /\ Advance(L).ent = L.ent /\ Advance(L).next = k
      /\ Advance(L).stable = L.stable
  BY <1>1, <1>2 DEF Advance, Logs
<1>. QED
  BY <1>1, <1>2, <1>3 DEF Filled

\* rewindToLocked and clearSlotsAboveLocked at the same slot: what is left is filled.
LEMMA RewindFacts ==
  ASSUME NEW L \in Logs, NEW n \in 0 .. NumSlots, Filled(L)
  PROVE  LET M == ClearAbove(RewindTo(L, n), n) IN
         /\ M \in Logs
         /\ Filled(M)
         /\ M.next <= L.next
         /\ \A t \in Slots : M.ent[t] \in {L.ent[t], Empty}
         /\ \A t \in Slots : t < M.next => M.ent[t] = L.ent[t]
<1>. DEFINE R == RewindTo(L, n)
            M == ClearAbove(R, n)
<1>1. R \in Logs /\ R.ent = L.ent /\ R.next = Smaller(L.next, n)
  BY DEF RewindTo, Logs, Smaller
<1>2. R.next <= n /\ R.next <= L.next
  BY <1>1 DEF Smaller, Logs
<1>3. M \in Logs /\ M.next = R.next
  BY <1>1 DEF ClearAbove, Logs, SlotStates
<1>4. \A t \in Slots : M.ent[t] = IF n <= t /\ t < R.seen THEN Empty ELSE R.ent[t]
  BY <1>1 DEF ClearAbove, Logs
<1>5. Filled(M)
  BY <1>1, <1>2, <1>3, <1>4, NumSlotsAssumption DEF Filled, Logs, Slots
<1>6. \A t \in Slots : t < M.next => M.ent[t] = L.ent[t]
  BY <1>1, <1>2, <1>3, <1>4, NumSlotsAssumption DEF Logs, Slots
<1>. QED
  BY <1>1, <1>2, <1>3, <1>4, <1>5, <1>6

\* setStableLocked moves the commit point only.
LEMMA SetStableFacts ==
  ASSUME NEW L \in Logs, NEW n \in 0 .. NumSlots
  PROVE  /\ SetStable(L, n) \in Logs
         /\ SetStable(L, n).ent = L.ent
         /\ SetStable(L, n).next = L.next
         /\ SetStable(L, n).stable = Larger(L.stable, Smaller(n, L.next))
BY NumSlotsAssumption DEF SetStable, Logs, Larger, Smaller

\* appendBusToLogListLocked numbers the requests below a slot: with no empty
\* slot among them, every slot is a request or a no-op.
LEMMA LogIndexFacts ==
  ASSUME NEW L \in Logs, NEW s \in Slots, \A t \in 0 .. s - 1 : L.ent[t] # Empty
  PROVE  LET Z == {t \in 0 .. s - 1 : L.ent[t] = NoOp} IN
         /\ IsFiniteSet(Z)
         /\ LogIndex(L, s) \in 0 .. NumSlots
         /\ LogIndex(L, s) + Cardinality(Z) = s
<1>. DEFINE Z == {t \in 0 .. s - 1 : L.ent[t] = NoOp}
            B == {t \in 0 .. s - 1 : L.ent[t] = Received}
<1>1. s \in Nat /\ s < NumSlots /\ 0 .. s - 1 \subseteq Slots
  BY NumSlotsAssumption DEF Slots
<1>2. IsFiniteSet(0 .. s - 1) /\ Cardinality(0 .. s - 1) = s
  BY <1>1, FS_Interval
<1>3. IsFiniteSet(Z) /\ IsFiniteSet(B) /\ Cardinality(B) <= s
  BY <1>2, FS_Subset
<1>4. Cardinality(Z) \in Nat /\ Cardinality(B) \in Nat
  BY <1>3, FS_CardinalityType
<1>5. Z \cup B = 0 .. s - 1
  BY <1>1 DEF Logs, SlotStates
<1>6. Z \cap B = {}
  BY DEF Received, NoOp
<1>7. Cardinality(Z \cup B) = Cardinality(Z) + Cardinality(B) - Cardinality(Z \cap B)
  BY <1>3, FS_Union
<1>8. Cardinality(Z \cap B) = 0
  BY <1>6, FS_EmptySet
<1>9. LogIndex(L, s) = Cardinality(B)
  BY DEF LogIndex
<1>. HIDE DEF Z, B
<1>10. s = Cardinality(Z) + Cardinality(B)
  <2>1. Cardinality(Z \cup B) = s
    BY <1>2, <1>5, Zenon
  <2>. QED
    BY <1>1, <1>4, <1>7, <1>8, <2>1
<1>11. /\ IsFiniteSet(Z)
       /\ LogIndex(L, s) \in 0 .. NumSlots
       /\ LogIndex(L, s) + Cardinality(Z) = s
  BY <1>1, <1>3, <1>4, <1>9, <1>10, NumSlotsAssumption
<1>. QED
  BY <1>11 DEF Z

\* rewindToLocked moves the frontier down and leaves the entries alone.
LEMMA RewindToFacts ==
  ASSUME NEW L \in Logs, NEW n \in 0 .. NumSlots
  PROVE  /\ RewindTo(L, n) \in Logs
         /\ RewindTo(L, n).ent = L.ent
         /\ RewindTo(L, n).next = Smaller(L.next, n)
         /\ RewindTo(L, n).stable = L.stable
         /\ Filled(L) => Filled(RewindTo(L, n))
<1>1. /\ RewindTo(L, n) \in Logs /\ RewindTo(L, n).ent = L.ent
      /\ RewindTo(L, n).next = Smaller(L.next, n) /\ RewindTo(L, n).stable = L.stable
  BY NumSlotsAssumption DEF RewindTo, Logs, Smaller
<1>. QED
  BY <1>1, NumSlotsAssumption DEF Filled, Logs, Smaller

\* clearSlotRangeLocked empties the slots it is given.
LEMMA ClearSlotsFacts ==
  ASSUME NEW L \in Logs, NEW S
  PROVE  /\ ClearSlots(L, S) \in Logs
         /\ ClearSlots(L, S).next = L.next
         /\ ClearSlots(L, S).stable = L.stable
         /\ \A t \in Slots : ClearSlots(L, S).ent[t] = IF t \in S THEN Empty ELSE L.ent[t]
BY DEF ClearSlots, Logs, SlotStates

\* recomputeMaxSlotLocked changes the highest slot seen only.
LEMMA RecomputeMaxFacts ==
  ASSUME NEW L \in Logs
  PROVE  /\ RecomputeMax(L) \in Logs
         /\ RecomputeMax(L).ent = L.ent
         /\ RecomputeMax(L).next = L.next
         /\ RecomputeMax(L).stable = L.stable
<1>1. L.next \in 0 .. NumSlots
  BY DEF Logs
<1>2. Top(L.next, {s \in Slots : L.ent[s] # Empty}) \in 0 .. NumSlots
  BY <1>1, TopType
<1>. QED
  BY <1>2 DEF RecomputeMax, Logs

\* setNoOpLocked over a set of slots: those above the frontier become no-ops.
LEMMA SetNoOpsFacts ==
  ASSUME NEW L \in Logs, NEW S \in SUBSET Slots
  PROVE  /\ SetNoOps(L, S) \in Logs
         /\ SetNoOps(L, S).next = L.next
         /\ SetNoOps(L, S).stable = L.stable
         /\ \A t \in Slots : SetNoOps(L, S).ent[t] =
                IF t \in S /\ t >= L.next THEN NoOp ELSE L.ent[t]
<1>. DEFINE T == {s \in S : s >= L.next}
<1>1. L.seen \in 0 .. NumSlots /\ T \in SUBSET Slots
  BY DEF Logs
<1>2. Top(L.seen, T) \in 0 .. NumSlots
  BY <1>1, TopType
<1>. QED
  BY <1>2 DEF SetNoOps, Holding, Logs, SlotStates

\* advanceNextExpectedThroughLocked stops at its end or at an empty slot.
LEMMA AdvanceThroughFacts ==
  ASSUME NEW L \in Logs, NEW end \in 0 .. NumSlots
  PROVE  /\ AdvanceThrough(L, end) \in Logs
         /\ AdvanceThrough(L, end).ent = L.ent
         /\ AdvanceThrough(L, end).next >= L.next
         /\ AdvanceThrough(L, end).stable = L.stable
         /\ Filled(L) => Filled(AdvanceThrough(L, end))
         /\ (\A s \in L.next .. end - 1 : L.ent[s] # Empty) => AdvanceThrough(L, end).next >= end
<1>. DEFINE X == AdvanceThrough(L, end)
            k == FilledEnd(L.ent, L.next, end)
<1>1. L.ent \in [Slots -> SlotStates] /\ L.next \in 0 .. NumSlots
  BY DEF Logs
<1>2. CASE L.next >= end
  BY <1>1, <1>2 DEF AdvanceThrough
<1>3. CASE L.next < end
  <2>0. L.next \in 0 .. end
    BY <1>1, <1>3
  <2>1. /\ k \in L.next .. end /\ \A s \in L.next .. k - 1 : L.ent[s] # Empty
        /\ k = end \/ L.ent[k] = Empty
    BY <1>1, <2>0, FilledEndFacts
  <2>2. X = [L EXCEPT !.next = k]
    BY <1>1, <1>3 DEF AdvanceThrough
  <2>3. X \in Logs /\ X.ent = L.ent /\ X.next = k /\ X.stable = L.stable
    <3>1. k \in 0 .. NumSlots
      <4>. HIDE DEF k
      <4>. QED
        BY <1>1, <2>1, NumSlotsAssumption
    <3>. HIDE DEF k, X
    <3>. QED
      BY <2>2, <3>1 DEF Logs
  <2>. HIDE DEF k, X
  <2>4. Filled(L) => Filled(X)
    BY <1>1, <2>1, <2>3 DEF Filled
  <2>. QED
    BY <1>1, <2>1, <2>3, <2>4 DEF X
<1>. QED
  BY <1>1, <1>2, <1>3

\* A log index is at most the number of slots.
LEMMA LogIndexType ==
  ASSUME NEW L, NEW s \in Slots
  PROVE  LogIndex(L, s) \in 0 .. NumSlots
<1>. DEFINE B == {t \in 0 .. s - 1 : L.ent[t] = Received}
<1>1. s \in Nat /\ s < NumSlots
  BY NumSlotsAssumption DEF Slots
<1>2. IsFiniteSet(0 .. s - 1) /\ Cardinality(0 .. s - 1) = s
  BY <1>1, FS_Interval
<1>3. IsFiniteSet(B) /\ Cardinality(B) <= s
  BY <1>2, FS_Subset
<1>4. Cardinality(B) \in Nat
  BY <1>3, FS_CardinalityType
<1>. QED
  BY <1>1, <1>3, <1>4, NumSlotsAssumption DEF LogIndex
=============================================================================
