----------------------------- MODULE BusHistory -----------------------------
(***************************************************************************)
(* What the replicas promise their clients about the schedule: one history *)
(* of windows that only grows at its end.  The slot of a bus depends on    *)
(* every window before it, so nothing that was agreed may change.          *)
(***************************************************************************)
EXTENDS Integers

VARIABLE history   \* entries [client, first, end]

Init == history = {}

(* Windows are added behind the last one. *)
Next ==
  /\ history \subseteq history' /\ history # history'
  /\ \A x \in history, y \in history' \ history : x.end <= y.first

Spec == Init /\ [][Next]_history

=============================================================================
