----------------------------- MODULE SyslogYear -----------------------------
(***************************************************************************)
(* The detector fed by the parser.  A classic syslog line carries month,   *)
(* day and time but no year; SSHAuthPlugin._extract_timestamp adds the     *)
(* year in which the line is READ.  A line that is read in a later year    *)
(* than it was written in (the ten last lines that `tail -F' replays when  *)
(* the worker starts, or a line written just before midnight of New Year)  *)
(* gets a timestamp close to one year in the future.                       *)
(***************************************************************************)
EXTENDS ThresholdDetector

CONSTANTS
  Year,     \* the length of a year, in ticks
  Horizon   \* bound: the last tick at which a line is read

VARIABLES
  written,    \* when the latest line was written
  now,        \* when it was read
  writtenAt   \* per address, the true times of the attempts in its queue

yvars == <<attempts, published, pending, heard, clock, written, now, writtenAt>>

(* _extract_timestamp: the current year and the date within the year of w. *)
Stamp(w, r) == Year * (r \div Year) + (w % Year)

(* The true times of the attempts that stay in the queue, and w.           *)
ExtendedTrueTimes(ip, t, w) ==
  LET dropped == Cardinality(StalePrefix(attempts[ip], t - Window))
  IN  Append(SubSeq(writtenAt[ip], dropped + 1, Len(writtenAt[ip])), w)

YInit ==
  /\ Init
  /\ written = 0
  /\ now = 0
  /\ writtenAt = [ip \in IPs |-> <<>>]

(* Lines are written and read in order, and read after they are written.   *)
ReadLine(ip, w, r) ==
  /\ w >= written /\ r >= now /\ w <= r
  /\ RecordBelow(ip, Stamp(w, r)) \/ RecordBreach(ip, Stamp(w, r))
  /\ writtenAt' = [writtenAt EXCEPT ![ip] = ExtendedTrueTimes(ip, Stamp(w, r), w)]
  /\ written' = w
  /\ now' = r

YNext ==
  \/ \E ip \in IPs, w, r \in 0 .. Horizon : ReadLine(ip, w, r)
  \/ \E outcome \in Outcomes : Deliver(outcome) /\ UNCHANGED <<written, now, writtenAt>>
  \/ /\ ResetCounter
     /\ writtenAt' = [writtenAt EXCEPT ![published.ip] = <<>>]
     /\ UNCHANGED <<written, now>>

YSpec == YInit /\ [][YNext]_yvars

(* The attempts behind a breach were all made within one window: README.md *)
(* 56 promises a block after N failed attempts within a 5-minute window.   *)
BreachWithinTrueWindow ==
  published # NoEvent =>
    \A k \in 1 .. Len(writtenAt[published.ip]) :
      writtenAt[published.ip][k] >= written - Window
=============================================================================
