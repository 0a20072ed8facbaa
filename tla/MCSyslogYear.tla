---------------------------- MODULE MCSyslogYear ----------------------------
(* One address, a year of eight ticks and lines read in the first two      *)
(* years: enough for one line to be read in the year after its own.        *)
EXTENDS SyslogYear

MCTimes == 0 .. 15
MCSubscribers == <<"on_security_event">>
=============================================================================
