----------------------------- MODULE LogEntries -----------------------------
(***************************************************************************)
(* From a line of the log to the attempts it stands for: parse_line of the *)
(* ssh_auth plugin and on_entry of worker.py.  One line may report several *)
(* attempts ("message repeated N times"); on_entry records them one after  *)
(* another under one timestamp, and any of them may be a breach, whose     *)
(* handlers run before the next is recorded.                               *)
(*                                                                         *)
(* A line is a record of what the patterns find in it.                     *)
(***************************************************************************)
EXTENDS DetectorHistory, FiniteSetsExt

CONSTANTS
  Garbled,   \* what stands for an address that is none
  Repeats,   \* the counts a line may give; a line that gives none gives 1
  NoEntry    \* on_entry is not running

VARIABLE entry   \* the entry on_entry is working on

lvars == <<attempts, published, pending, heard, clock, history, entry>>

Line == [failed : BOOLEAN, ip : IPs \cup {Garbled}, repeated : Repeats]

(* What on_entry works on, with what it has done: the attempts left to     *)
(* record, those the window held before it, and its breaches so far.       *)
EntryRecord ==
  [ip : IPs, timestamp : Times, count : Nat, left : Nat, held : Nat, fired : Nat]

ASSUME LogEntriesAssumption ==
  /\ Garbled \notin IPs /\ Repeats \subseteq Nat
  /\ NoEntry \notin EntryRecord

LInit == HInit /\ entry = NoEntry

(* max(1, int(...))                                                        *)
RepeatCount(line) == Max({1, line.repeated})

(* _classify_ip takes it for an IPv4 or IPv6 address.                      *)
HasAddress(line) == line.ip # Garbled

(* parse_line finds a failed login and an address: on_entry is called.     *)
(* Any other line changes nothing.                                         *)
Entry(line, t) ==
  /\ entry = NoEntry
  /\ line.failed /\ HasAddress(line)
  /\ entry' = [ip |-> line.ip, timestamp |-> t,
               count |-> RepeatCount(line), left |-> RepeatCount(line),
               held |-> Len(Prune(attempts[line.ip], t - Window)), fired |-> 0]
  /\ UNCHANGED hvars

(* Mutant of RecordOne: the loop ends with the first breach.               *)
RecordOneStopsAtBreach ==
  /\ entry # NoEntry /\ entry.left > 0
  /\ \/ /\ HRecordBelow(entry.ip, entry.timestamp)
        /\ entry' = [entry EXCEPT !.left = @ - 1]
     \/ /\ HRecordBreach(entry.ip, entry.timestamp)
        /\ entry' = [entry EXCEPT !.left = 0, !.fired = @ + 1]

(* for _ in range(repeat_count): detector.record_attempt(...)              *)
RecordOne ==
  /\ entry # NoEntry /\ entry.left > 0
  /\ \/ /\ HRecordBelow(entry.ip, entry.timestamp)
        /\ entry' = [entry EXCEPT !.left = @ - 1]
     \/ /\ HRecordBreach(entry.ip, entry.timestamp)
        /\ entry' = [entry EXCEPT !.left = @ - 1, !.fired = @ + 1]

EntryDone ==
  /\ entry # NoEntry /\ entry.left = 0
  /\ published = NoEvent
  /\ entry' = NoEntry
  /\ UNCHANGED hvars

LNext ==
  \/ \E line \in Line, t \in Times : t >= clock /\ Entry(line, t)
  \/ RecordOne
  \/ \E outcome \in Outcomes : HDeliver(outcome) /\ UNCHANGED entry
  \/ HResetCounter /\ UNCHANGED entry
  \/ EntryDone

LSpec == LInit /\ [][LNext]_lvars

----------------------------------------------------------------------------

(* Whatever breaches a repeated line raises on its way, its attempts are   *)
(* all accounted for: those recorded so far, with those the window held    *)
(* before it, make up its breaches and what is left in the queue.          *)
RepeatsAccounted ==
  entry # NoEntry /\ published = NoEvent =>
    entry.held + (entry.count - entry.left) =
      entry.fired * Threshold
        + Len(Prune(attempts[entry.ip], entry.timestamp - Window))
=============================================================================
