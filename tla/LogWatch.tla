------------------------------ MODULE LogWatch ------------------------------
(***************************************************************************)
(* What the worker promises about a log file, without tail, pipes, buffers *)
(* and pruned queues: it handles the lines one after another, raises the   *)
(* alarm for an address as soon as Threshold of its lines since its last   *)
(* alarm fall into one window, and forgets everything when it ends; when   *)
(* it starts again it goes back Replay lines.                              *)
(***************************************************************************)
EXTENDS Integers, FiniteSets

CONSTANTS IPs, Threshold, Window, Replay, NoEvent

VARIABLES
  origin,    \* for each line of the log, the address it reports, or none
  written,   \* lines written so far
  position,  \* the line to be handled next; 0 while no worker runs
  seen,      \* per address, its lines handled since its last alarm
  alarm      \* the alarm being handled, or NoEvent

state == <<origin, written, position, seen, alarm>>

Forgotten == [ip \in IPs |-> {}]

(* The lines that an alarm at this line counts, itself among them.         *)
Counted(ip, line) == {l \in seen[ip] : l >= line - Window} \cup {line}

Init ==
  /\ position = 0
  /\ seen = Forgotten
  /\ alarm = NoEvent

Write ==
  /\ written' = written + 1
  /\ UNCHANGED <<origin, position, seen, alarm>>

Start ==
  /\ position = 0
  /\ position' = IF written > Replay THEN written - Replay + 1 ELSE 1
  /\ UNCHANGED <<origin, written, seen, alarm>>

(* The next line has been written and no alarm is being handled.           *)
Advance ==
  /\ alarm = NoEvent
  /\ position \in 1 .. written
  /\ position' = position + 1
  /\ UNCHANGED <<origin, written>>

Ignore == Advance /\ origin[position] \notin IPs /\ UNCHANGED <<seen, alarm>>

Count(ip) ==
  /\ Advance
  /\ origin[position] = ip
  /\ seen' = [seen EXCEPT ![ip] = @ \cup {position}]
  /\ alarm' = IF Cardinality(Counted(ip, position)) < Threshold THEN NoEvent
              ELSE [ip |-> ip, timestamp |-> position,
                    attempt_count |-> Cardinality(Counted(ip, position))]

(* The alarm has been handled, well or badly.                              *)
Dismiss ==
  /\ alarm # NoEvent
  /\ seen' = [seen EXCEPT ![alarm.ip] = {}]
  /\ alarm' = NoEvent
  /\ UNCHANGED <<origin, written, position>>

End ==
  /\ position' = 0
  /\ seen' = Forgotten
  /\ alarm' = NoEvent
  /\ UNCHANGED <<origin, written>>

Next == Write \/ Start \/ Ignore \/ (\E ip \in IPs : Count(ip)) \/ Dismiss \/ End

Spec == Init /\ [][Next]_state
=============================================================================
