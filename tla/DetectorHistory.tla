-------------------------- MODULE DetectorHistory --------------------------
(***************************************************************************)
(* The detector with a history variable: every attempt of an address since *)
(* its last breach, kept although the detector prunes it.  On a log whose  *)
(* timestamps do not go back, the detector implements SlidingWindow: the   *)
(* pruning never loses an attempt that a later breach should have counted. *)
(* syslog writes such a log as long as the year that the parser adds to    *)
(* each line is the right one; SyslogYear.tla drops that assumption.       *)
(***************************************************************************)
EXTENDS ThresholdDetector

VARIABLE history

hvars == <<attempts, published, pending, heard, clock, history>>

HInit ==
  /\ Init
  /\ history = [ip \in IPs |-> <<>>]

HRecordBelow(ip, t) ==
  /\ t >= clock
  /\ RecordBelow(ip, t)
  /\ history' = [history EXCEPT ![ip] = Append(@, t)]

HRecordBreach(ip, t) ==
  /\ t >= clock
  /\ RecordBreach(ip, t)
  /\ history' = [history EXCEPT ![ip] = <<>>]

HDeliver(outcome) ==
  /\ Deliver(outcome)
  /\ UNCHANGED history

HResetCounter ==
  /\ ResetCounter
  /\ UNCHANGED history

HNext ==
  \/ \E ip \in IPs, t \in Times : HRecordBelow(ip, t) \/ HRecordBreach(ip, t)
  \/ \E outcome \in Outcomes : HDeliver(outcome)
  \/ HResetCounter

HSpec == HInit /\ [][HNext]_hvars

SW == INSTANCE SlidingWindow WITH alarm <- published

(* The detector implements the abstract sliding window: it publishes for   *)
(* exactly the attempts that complete Threshold attempts inside one window *)
(* since the last breach, and with that very count.                        *)
ImplementsSlidingWindow == SW!Spec

=============================================================================
