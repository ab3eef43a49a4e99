------------------------------ MODULE BusSlots ------------------------------
(***************************************************************************)
(* The slot arithmetic of one replica.  Every client sends its buses on a  *)
(* schedule of windows, and a bus is put into the log slot given by its    *)
(* rank among the send times of all clients.  The replica computes that    *)
(* rank in closed form for a bus that arrives (computeGlobalSlot), and     *)
(* walks the schedule in the other direction with a cursor that names the  *)
(* owner of each slot (genCursorUpToLocked).  The cursor is kept while     *)
(* windows are appended, and is rebuilt above the pruned slots when a view *)
(* change replaces the end of the schedule (resetCursorLocked).            *)
(***************************************************************************)
EXTENDS Integers, Sequences, FiniteSetsExt, SequencesExt

CONSTANTS
  Clients,      \* client identifiers, compared as numbers
  Window,       \* length of a window, in units of time
  MaxWindows,   \* bound: windows of a schedule
  Intervals,    \* send intervals a client may ask for; 0 sends nothing
  MaxInstalls   \* bound: schedules installed

ASSUME SlotsAssumption ==
  /\ Clients \subseteq Nat
  /\ Window \in Nat \ {0}
  /\ MaxWindows \in Nat
  /\ Intervals \subseteq Nat
  /\ MaxInstalls \in Nat

VARIABLES
  schedule,     \* the history of windows: entries ordered by window and client
  committed,    \* how many entries this replica takes for committed
  settled,      \* how many entries every later schedule keeps
  prunedBelow,  \* slots below were pruned
  cursor,       \* the cursor: its slot, the next time of each client, the owners found
  installs      \* counts installations

vars == <<schedule, committed, settled, prunedBelow, cursor, installs>>

-----------------------------------------------------------------------------
(* Lines: the windows of one client *)

Line(sched, c) == SelectSeq(sched, LAMBDA m : m.client = c)

CountFrom(m, y, tiePrecedes) ==
  LET d == y - m.first
  IN  IF m.interval = 0 THEN 0
      ELSE (IF d > 0 THEN (d - 1) \div m.interval + 1 ELSE 0)
           + (IF tiePrecedes /\ d >= 0 /\ d % m.interval = 0 THEN 1 ELSE 0)

windowCount(m) == CountFrom(m, m.end, FALSE)

(* sort.Search for the first window that ends after y *)
EndedBefore(line, y) == {i \in DOMAIN line : line[i].end <= y}

countBefore(line, y, tiePrecedes) ==
  LET i == Cardinality(EndedBefore(line, y)) + 1
  IN  MapThenSumSet(LAMBDA j : windowCount(line[j]), EndedBefore(line, y))
      + (IF i \in DOMAIN line THEN CountFrom(line[i], y, tiePrecedes) ELSE 0)

\* Mutant of computeGlobalSlot: buses of other clients at the same time come later.
computeGlobalSlotTies(sched, c, seq) ==
  countBefore(Line(sched, c), seq, FALSE)
  + MapThenSumSet(LAMBDA d : countBefore(Line(sched, d), seq, FALSE), Clients \ {c})

computeGlobalSlot(sched, c, seq) ==
  countBefore(Line(sched, c), seq, FALSE)
  + MapThenSumSet(LAMBDA d : countBefore(Line(sched, d), seq, d < c), Clients \ {c})

validSequence(line, seq, end) ==
  LET i == Cardinality(EndedBefore(line, seq)) + 1
  IN  /\ i \in DOMAIN line
      /\ line[i].interval # 0
      /\ seq >= line[i].first
      /\ line[i].end <= end
      /\ (seq - line[i].first) % line[i].interval = 0

nextIn(m, seq) ==
  IF seq <= m.first THEN m.first
  ELSE m.first + ((seq - m.first - 1) \div m.interval + 1) * m.interval

(* 0 when the client sends nothing from seq on *)
nextSequence(line, seq) ==
  LET found == {nextIn(line[i], seq) : i \in {j \in DOMAIN line :
                  /\ line[j].end > seq
                  /\ line[j].interval # 0
                  /\ seq <= line[j].first \/ nextIn(line[j], seq) < line[j].end}}
  IN  IF found = {} THEN 0 ELSE Min(found)

-----------------------------------------------------------------------------
(* The cursor *)

emptyCursor == [slot |-> 0, next |-> [c \in Clients |-> 1], meta |-> <<>>]

candidates(sched, next) ==
  {c \in Clients : Line(sched, c) # <<>> /\ nextSequence(Line(sched, c), next[c]) # 0}

genOne(sched, cur) ==
  LET n(c) == nextSequence(Line(sched, c), cur.next[c])
      best == CHOOSE c \in candidates(sched, cur.next) :
                \A d \in candidates(sched, cur.next) : n(c) < n(d) \/ (n(c) = n(d) /\ c <= d)
  IN  IF candidates(sched, cur.next) = {} THEN cur
      ELSE [slot |-> cur.slot + 1,
            next |-> [cur.next EXCEPT ![best] = n(best) + 1],
            meta |-> (cur.slot :> [client |-> best, seq |-> n(best)]) @@ cur.meta]

genCursorUpTo(sched, cur, target) ==
  FoldLeft(LAMBDA acc, i : genOne(sched, acc), cur, [i \in 1..(target - cur.slot + 1) |-> i])

countAll(sched, y, tiePrecedes) ==
  MapThenSumSet(LAMBDA c : countBefore(Line(sched, c), y, tiePrecedes), Clients)

lastEnd(sched) == IF sched = <<>> THEN 0 ELSE sched[Len(sched)].end

(* What the binary search finds: the send time of slot p *)
timeOfSlot(sched, p) ==
  LET after == {t \in 0..(lastEnd(sched) - 1) : countAll(sched, t, TRUE) > p}
  IN  IF after = {} THEN lastEnd(sched) ELSE Min(after)

\* Mutant of resetCursor: every client starts over at the time of the first slot.
resetCursorAtTime(sched, pruned) ==
  [slot |-> pruned, next |-> [c \in Clients |-> timeOfSlot(sched, pruned)], meta |-> <<>>]

resetCursor(sched, pruned) ==
  LET low == timeOfSlot(sched, pruned)
      sendsAtLow(c) == nextSequence(Line(sched, c), low) = low
      before(c) == countAll(sched, low, FALSE)
                   + Cardinality({d \in Clients : d < c /\ sendsAtLow(d)})
  IN  IF pruned = 0 THEN emptyCursor
      ELSE [slot |-> pruned,
            next |-> [c \in Clients |->
                        IF sendsAtLow(c) /\ before(c) < pruned THEN low + 1 ELSE low],
            meta |-> <<>>]

-----------------------------------------------------------------------------
(* Operations *)

schedulePrefix(a, b) == IsPrefix(a, b)

(* Entries of a window, in the order of client identifiers *)
WindowEntries(first, lines) ==
  [i \in 1..Cardinality(DOMAIN lines) |->
     LET c == SetToSortSeq(DOMAIN lines, <)[i]
     IN  [client |-> c, first |-> first, interval |-> lines[c], end |-> first + Window]]

(* A schedule that keeps n entries, the same one with another window.  Requests
   for a window are taken until one window before it starts and the window is
   proposed later than that (schedule.go:131, 164), so no view proposes a window
   anew that this replica saw committed. *)
Extensions(n) ==
  LET kept == SubSeq(schedule, 1, n)
      from == Max({1, lastEnd(kept) \div Window, lastEnd(SubSeq(schedule, 1, committed)) \div Window})
  IN  {kept \o WindowEntries(k * Window, lines) :
         k \in from..MaxWindows,
         lines \in UNION {[S -> Intervals] : S \in SUBSET Clients \ {{}}}}

\* Mutant of installSchedule: the cursor always survives.
installScheduleKeep(new) ==
  /\ new # schedule
  /\ schedule' = new
  /\ UNCHANGED cursor

(* installScheduleLocked *)
installSchedule(new) ==
  /\ new # schedule
  /\ schedule' = new
  /\ cursor' = IF schedulePrefix(schedule, new) THEN cursor ELSE resetCursor(new, prunedBelow)

(* acceptSchedulePrepareLocked: the leader's window is appended *)
AcceptPrepare ==
  /\ installs < MaxInstalls
  /\ committed = Len(schedule)
  /\ \E new \in Extensions(Len(schedule)) : installSchedule(new)
  /\ installs' = installs + 1
  /\ UNCHANGED <<committed, settled, prunedBelow>>

(* A view change drops the windows that no quorum holds, also when this
   replica took them for committed, and commits the history it installs. *)
InstallView ==
  /\ installs < MaxInstalls
  /\ \E n \in {settled, committed, Len(schedule)} :
       \E new \in Extensions(n) \cup {SubSeq(schedule, 1, n)} :
         installSchedule(new) /\ committed' = Len(new)
  /\ installs' = installs + 1
  /\ UNCHANGED <<settled, prunedBelow>>

(* handleSchdCommit, or the leader's own commit: the prepared window counts *)
CommitWindow ==
  /\ committed < Len(schedule)
  /\ committed' = Len(schedule)
  /\ UNCHANGED <<schedule, settled, prunedBelow, cursor, installs>>

(* A quorum took the windows for committed: every later view keeps them *)
Settle ==
  /\ settled < committed
  /\ settled' = committed
  /\ UNCHANGED <<schedule, committed, prunedBelow, cursor, installs>>

NumSlots(n) == countAll(SubSeq(schedule, 1, n), lastEnd(SubSeq(schedule, 1, n)), FALSE)

(* slotOwnerLocked, and the scan of gapDetectLoop *)
SlotOwner(slot) ==
  /\ slot < NumSlots(committed)
  /\ slot >= cursor.slot
  /\ cursor' = genCursorUpTo(schedule, cursor, slot)
  /\ UNCHANGED <<schedule, committed, settled, prunedBelow, installs>>

(* pruneCommittedLocked deletes the owners of the slots it prunes *)
Prune(target) ==
  /\ prunedBelow < target
  /\ target <= NumSlots(settled)
  /\ prunedBelow' = target
  /\ cursor' = [cursor EXCEPT !.meta =
                  [s \in {x \in DOMAIN cursor.meta : x \notin prunedBelow..(target - 1)} |->
                     cursor.meta[s]]]
  /\ UNCHANGED <<schedule, committed, settled, installs>>

Init ==
  /\ schedule = <<>>
  /\ committed = 0
  /\ settled = 0
  /\ prunedBelow = 0
  /\ cursor = emptyCursor
  /\ installs = 0

Next ==
  \/ AcceptPrepare
  \/ InstallView
  \/ CommitWindow
  \/ Settle
  \/ \E slot \in 0..(NumSlots(committed) - 1) : SlotOwner(slot)
  \/ \E target \in 1..NumSlots(settled) : Prune(target)

Spec == Init /\ [][Next]_vars

-----------------------------------------------------------------------------
(* Properties *)

Sends == UNION {{[client |-> m.client, seq |-> t] :
                   t \in {x \in m.first..(m.end - 1) :
                            m.interval # 0 /\ (x - m.first) % m.interval = 0}} :
                m \in Range(schedule)}

Earlier(a, b) == a.seq < b.seq \/ (a.seq = b.seq /\ a.client < b.client)

Rank(b) == Cardinality({a \in Sends : Earlier(a, b)})

(* A replica gives a bus the slot that is its rank among all send times of
   the schedule, ties in the order of client identifiers, and it admits the
   buses at those times only: the closed form of computeGlobalSlot and
   countBefore is right at window boundaries, for equal times and for clients
   that skip a window or send nothing in it. *)
SlotIsRank ==
  \A c \in Clients, t \in 0..lastEnd(schedule) :
    LET b == [client |-> c, seq |-> t]
    IN  /\ validSequence(Line(schedule, c), t, lastEnd(schedule)) <=> b \in Sends
        /\ b \in Sends => computeGlobalSlot(schedule, c, t) = Rank(b)

(* The owner the cursor named for a slot is the bus that computeGlobalSlot
   puts there, also after windows were appended behind the cursor, after a
   view change replaced the end of the schedule and after slots were pruned:
   otherwise a gap is charged to the wrong client and the prefix hashes of
   two replicas differ at a no-op. *)
OwnerSendsThere ==
  \A s \in DOMAIN cursor.meta :
    cursor.meta[s] \in Sends /\ computeGlobalSlot(schedule, cursor.meta[s].client, cursor.meta[s].seq) = s

(* The cursor has a next owner exactly while the schedule has a slot it did
   not reach: it never skips a slot and never names one that is not there. *)
CursorInStep ==
  LET next == genOne(schedule, cursor)
  IN  IF cursor.slot < Cardinality(Sends)
      THEN /\ next.slot = cursor.slot + 1
           /\ Rank(next.meta[cursor.slot]) = cursor.slot
      ELSE next = cursor

=============================================================================
