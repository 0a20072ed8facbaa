----------------------------- MODULE MCDetector -----------------------------
(* A small detector for TLC: two addresses, a threshold of three attempts, *)
(* a window of two ticks on a clock of six, two handlers; a line reports   *)
(* one attempt, two, or seven, which is two breaches and one attempt left. *)
EXTENDS LogEntries

MCTimes == 0 .. 5
MCSubscribers == <<"on_security_event", "audit">>
=============================================================================
