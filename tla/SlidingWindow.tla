--------------------------- MODULE SlidingWindow ---------------------------
(***************************************************************************)
(* What the threshold detector promises, without queues and pruning: it    *)
(* remembers every failed attempt of an address since the last breach of   *)
(* that address, and raises the alarm at the first attempt that makes      *)
(* Threshold of them fall into one window.                                 *)
(***************************************************************************)
EXTENDS Integers, Sequences, FiniteSets

CONSTANTS IPs, Threshold, Window, Times, NoEvent

VARIABLES
  history,  \* per address, the timestamps of all attempts since its last breach
  alarm     \* the breach being handled, or NoEvent

(* The attempts of ip that a breach at time t counts, besides the one at t *)
Recent(ip, t) == {k \in DOMAIN history[ip] : history[ip][k] >= t - Window}

Init ==
  /\ history = [ip \in IPs |-> <<>>]
  /\ alarm = NoEvent

Attempt(ip, t) ==
  /\ alarm = NoEvent
  /\ Cardinality(Recent(ip, t)) + 1 < Threshold
  /\ history' = [history EXCEPT ![ip] = Append(@, t)]
  /\ UNCHANGED alarm

Breach(ip, t) ==
  /\ alarm = NoEvent
  /\ Cardinality(Recent(ip, t)) + 1 >= Threshold
  /\ history' = [history EXCEPT ![ip] = <<>>]
  /\ alarm' = [ip |-> ip,
               attempt_count |-> Cardinality(Recent(ip, t)) + 1,
               timestamp |-> t]

Handled ==
  /\ alarm # NoEvent
  /\ alarm' = NoEvent
  /\ UNCHANGED history

Next ==
  \/ \E ip \in IPs, t \in Times : Attempt(ip, t) \/ Breach(ip, t)
  \/ Handled

Spec == Init /\ [][Next]_<<history, alarm>>
=============================================================================
