------------------------------ MODULE Metrics ------------------------------
(***************************************************************************)
(* core/observability/metrics.py and how its numbers reach /metrics: the   *)
(* worker's main thread counts blocks and alerts (worker.py 227-282); a    *)
(* daemon thread of the worker renders the counters into a file every ten  *)
(* seconds (worker.py 170-181); the web server, another process, answers   *)
(* with what the file holds (web.py 131-146).                              *)
(*                                                                         *)
(* Opening the file for writing empties it; what is written reaches it     *)
(* when it is closed.  The counters live in memory and start over with     *)
(* the worker, the file stays.  A report names the run of the worker that  *)
(* wrote it; the real one does not.                                        *)
(***************************************************************************)
EXTENDS Integers, Sequences

CONSTANTS
  MaxBreaches,   \* bound: the breaches handled, in all runs together
  MaxRuns,       \* bound: how often the worker is started
  Missing,       \* there is no file
  Empty          \* the file is empty

ASSUME MetricsAssumption == MaxBreaches \in Nat /\ MaxRuns \in Nat \ {0}

VARIABLES
  breaches,   \* breaches handled so far: blocked, refused or abandoned
  alerted,    \* _alert_counts
  blocked,    \* _block_counts
  refused,    \* breaches of this run whose address was not blocked
  handler,    \* where the main thread is
  flusher,    \* where the daemon thread is; "down" while no worker runs
  section,    \* the part of the report to be rendered next
  draft,      \* the report being rendered
  file,       \* metrics.prom
  answer,     \* the last report /metrics has answered with
  run         \* the number of the worker's run

counters == <<breaches, alerted, blocked, refused, handler>>
vars == <<counters, flusher, section, draft, file, answer, run>>

Report == [run : 1 .. MaxRuns, alerts : Nat, blocks : Nat]

ASSUME NoReportAssumption == Missing \notin Report /\ Empty \notin Report

Blank == [run |-> 1, alerts |-> 0, blocks |-> 0]

Init ==
  /\ breaches = 0 /\ alerted = 0 /\ blocked = 0 /\ refused = 0
  /\ handler = "waits" /\ flusher = "sleep" /\ section = 1
  /\ draft = Blank /\ answer = Blank
  /\ file = Missing
  /\ run = 1

----------------------------------------------------------------------------
(* The main thread: on_security_event, as far as it counts.                *)

(* Mutant of RecordBlock: counts the breach once more.                     *)
RecordBlockTwice ==
  /\ flusher # "down" /\ handler = "waits" /\ breaches < MaxBreaches
  /\ breaches' = breaches + 1
  /\ blocked' = blocked + 2
  /\ handler' = "alerts"
  /\ UNCHANGED <<alerted, refused, flusher, section, draft, file, answer, run>>

(* The address is blocked: record_block.                                   *)
RecordBlock ==
  /\ flusher # "down" /\ handler = "waits" /\ breaches < MaxBreaches
  /\ breaches' = breaches + 1
  /\ blocked' = blocked + 1
  /\ handler' = "alerts"
  /\ UNCHANGED <<alerted, refused, flusher, section, draft, file, answer, run>>

(* It is not: nothing is counted.                                          *)
NotBlocked ==
  /\ flusher # "down" /\ handler = "waits" /\ breaches < MaxBreaches
  /\ breaches' = breaches + 1
  /\ refused' = refused + 1
  /\ handler' = "alerts"
  /\ UNCHANGED <<alerted, blocked, flusher, section, draft, file, answer, run>>

(* upsert_breach, a statement of handle_event or mark_blocked raises, and  *)
(* publish swallows it (events.py 67): the handler is done with the breach *)
(* and has counted nothing, though the firewall may deny the address.      *)
Abandon ==
  /\ flusher # "down" /\ handler = "waits" /\ breaches < MaxBreaches
  /\ breaches' = breaches + 1
  /\ UNCHANGED <<alerted, blocked, refused, handler, flusher, section, draft, file,
                 answer, run>>

(* The channel has delivered the alert, and it is counted; or it fails.    *)
RecordAlert ==
  /\ handler = "alerts"
  /\ handler' = "waits"
  /\ alerted' \in {alerted, alerted + 1}
  /\ UNCHANGED <<breaches, blocked, refused, flusher, section, draft, file, answer, run>>

----------------------------------------------------------------------------
(* The daemon thread: _flush_metrics_loop.                                 *)

(* open(metrics_path, "w"); on an OSError it sleeps on.                    *)
OpenFile ==
  /\ flusher = "sleep"
  /\ flusher' = "render" /\ section' = 1
  /\ draft' = [run |-> run, alerts |-> 0, blocks |-> 0]
  /\ file' = Empty
  /\ UNCHANGED <<counters, answer, run>>

(* Mutant of Sections: the other order.                                    *)
SectionsSwapped == <<"blocks", "alerts">>

(* The order in which metrics.render() reads the counters.                 *)
Sections == <<"alerts", "blocks">>

Rendered(name) ==
  [draft EXCEPT ![name] = IF name = "alerts" THEN alerted ELSE blocked]

(* Mutant of Render: a counter that is reported starts over.               *)
RenderAndReset ==
  /\ flusher = "render"
  /\ draft' = Rendered(Sections[section])
  /\ section' = section + 1
  /\ flusher' = IF section = Len(Sections) THEN "close" ELSE "render"
  /\ alerted' = 0 /\ blocked' = 0
  /\ UNCHANGED <<breaches, refused, handler, file, answer, run>>

(* metrics.render() reads the next counter; the main thread may run        *)
(* between two of them.                                                    *)
Render ==
  /\ flusher = "render"
  /\ draft' = Rendered(Sections[section])
  /\ section' = section + 1
  /\ flusher' = IF section = Len(Sections) THEN "close" ELSE "render"
  /\ UNCHANGED <<counters, file, answer, run>>

(* Mutant of CloseFile: the thread does not survive the first round.       *)
CloseFileAndEnd ==
  /\ flusher = "close"
  /\ flusher' = "ended"
  /\ file' = draft
  /\ UNCHANGED <<counters, section, draft, answer, run>>

(* The buffer is written and the file closed.                              *)
CloseFile ==
  /\ flusher = "close"
  /\ flusher' = "sleep"
  /\ file' = draft
  /\ UNCHANGED <<counters, section, draft, answer, run>>

Flush == OpenFile \/ Render \/ CloseFile

----------------------------------------------------------------------------

(* GET /metrics: an empty or a missing file is no report.                  *)
Scrape ==
  /\ file \notin {Missing, Empty}
  /\ answer' = file
  /\ UNCHANGED <<counters, flusher, section, draft, file, run>>

(* The worker ends, the daemon thread wherever it is.                      *)
Exit ==
  /\ run < MaxRuns /\ flusher # "down"
  /\ flusher' = "down" /\ handler' = "waits"
  /\ alerted' = 0 /\ blocked' = 0 /\ refused' = 0
  /\ UNCHANGED <<breaches, section, draft, file, answer, run>>

(* The container starts it again.                                          *)
Start ==
  /\ flusher = "down"
  /\ flusher' = "sleep"
  /\ run' = run + 1
  /\ UNCHANGED <<counters, section, draft, file, answer>>

Handle == RecordBlock \/ NotBlocked \/ Abandon \/ RecordAlert

Next == Handle \/ Flush \/ Scrape \/ Exit \/ Start

Spec == Init /\ [][Next]_vars

(* The daemon thread runs, and finds the file writable; the container is   *)
(* restarted (docker-compose.yml, restart: unless-stopped).                *)
Fairness == WF_vars(Flush) /\ WF_vars(Start)

FairSpec == Spec /\ Fairness

----------------------------------------------------------------------------

(* Type invariant: no counter exceeds the breaches handled.                *)
TypeOK ==
  /\ breaches \in 0 .. MaxBreaches
  /\ alerted \in 0 .. breaches /\ refused \in 0 .. breaches
  /\ blocked \in 0 .. breaches
  /\ handler \in {"waits", "alerts"}
  /\ flusher \in {"down", "sleep", "render", "close"}
  /\ section \in 1 .. Len(Sections) + 1
  /\ draft \in Report /\ answer \in Report
  /\ file \in Report \cup {Missing, Empty}
  /\ run \in 1 .. MaxRuns

(* What is scraped never goes back while the worker runs, nor to a report  *)
(* of an earlier run, although the file is emptied and rewritten under the *)
(* reader.                                                                 *)
ReportsNeverGoBack ==
  [][\/ answer'.run > answer.run
     \/ /\ answer'.run = answer.run
        /\ answer'.alerts >= answer.alerts
        /\ answer'.blocks >= answer.blocks]_vars

(* A report taken while a breach is being handled never has an alert whose *)
(* block it lacks: render reads the counters in the order opposite to the  *)
(* one in which the handler raises them.                                   *)
AlertsFollowBlocks ==
  answer.run = run /\ flusher # "down" => answer.alerts <= answer.blocks + refused

(* A block that is counted gets into the file, unless the worker ends      *)
(* before: its last counts are lost, for the loop does not flush on exit.  *)
CountsGetReported ==
  \A n \in 1 .. MaxBreaches, r \in 1 .. MaxRuns :
    (blocked = n /\ run = r /\ flusher # "down") ~>
      (\/ flusher = "down" \/ run > r
       \/ file \notin {Missing, Empty} /\ file.run = r /\ file.blocks >= n)
=============================================================================
