----------------------------- MODULE MCBusSlots -----------------------------
(* Two clients whose intervals meet the window's end and each other. *)
EXTENDS BusSlots
=============================================================================
