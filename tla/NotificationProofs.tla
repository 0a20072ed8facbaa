-------------------------- MODULE NotificationProofs --------------------------
(***************************************************************************)
(* What is scraped from /metrics never goes back and never shows an alert  *)
(* without its block, for any number of breaches and runs of the worker;   *)
(* and the handler loses an alert only by a statement that raises before   *)
(* the count, or to its channel.                                           *)
(***************************************************************************)
EXTENDS Notification, TLAPS

(* The later of two reports: of a later run, or with no smaller number.    *)
Precedes(r, s) ==
  \/ r.run < s.run
  \/ r.run = s.run /\ r.alerts <= s.alerts /\ r.blocks <= s.blocks

Written == file \notin {Missing, Empty}

(* The counters: a breach is counted as a block or a refusal first, and as *)
(* an alert later.                                                         *)
CountersInv ==
  /\ breaches \in 0 .. MaxBreaches
  /\ alerted \in Nat /\ blocked \in Nat /\ refused \in Nat
  /\ blocked + refused <= breaches
  /\ handler \in {"waits", "alerts"}
  /\ alerted + (IF handler = "alerts" THEN 1 ELSE 0) <= blocked + refused

(* A report of this run is behind the counters, and consistent.            *)
Behind(r) ==
  /\ r.run <= run
  /\ r.run = run /\ flusher # "down" =>
       /\ r.alerts <= alerted /\ r.blocks <= blocked
       /\ r.alerts <= r.blocks + refused

(* The report that is being rendered: what is filled in so far is between  *)
(* the last answer and the counters.                                       *)
DraftInv ==
  /\ draft \in Report
  /\ section \in 1 .. 3
  /\ flusher \in {"render", "close"} => file = Empty
  /\ flusher = "render" =>
       /\ section \in {1, 2} /\ draft.run = run
       /\ section = 2 =>
            /\ draft.alerts <= alerted
            /\ answer.run = run => answer.alerts <= draft.alerts
  /\ flusher = "close" =>
       /\ draft.run = run /\ Behind(draft) /\ Precedes(answer, draft)

ReportsInv ==
  /\ run \in 1 .. MaxRuns
  /\ flusher \in {"down", "sleep", "render", "close"}
  /\ flusher = "down" => run < MaxRuns
  /\ answer \in Report /\ Behind(answer)
  /\ file \in Report \cup {Missing, Empty}
  /\ Written => Behind(file) /\ Precedes(answer, file)

Inv == CountersInv /\ ReportsInv /\ DraftInv

\* At first nothing is counted, rendered or scraped.
LEMMA InitInv == Init => Inv
  BY MetricsAssumption, NoReportAssumption
  DEF Init, Inv, CountersInv, ReportsInv, DraftInv, Behind, Precedes, Written, Blank, Report

\* The main thread only raises counters, a block or a refusal before its alert.
LEMMA HandleInv == Inv /\ Handle => Inv'
<1> SUFFICES ASSUME Inv, Handle PROVE Inv'
  OBVIOUS
<1>1. UNCHANGED <<flusher, section, draft, file, answer, run>>
  BY DEF Handle, RecordBlock, NotBlocked, Abandon, RecordAlert
<1>2. /\ CountersInv'
      /\ alerted <= alerted' /\ blocked <= blocked' /\ refused <= refused'
  BY MetricsAssumption
  DEF Inv, CountersInv, Handle, RecordBlock, NotBlocked, Abandon, RecordAlert
<1>3. ASSUME NEW r \in Report, Behind(r) PROVE Behind(r)'
  BY <1>1, <1>2, <1>3 DEF Inv, CountersInv, Behind, Report
<1>4. ReportsInv'
  BY <1>1, <1>3 DEF Inv, ReportsInv, Written, Precedes
<1>5. DraftInv'
  <2>1. flusher = "render" /\ section = 2 => draft.alerts <= alerted'
    BY <1>2 DEF Inv, DraftInv, CountersInv, Report
  <2>2. flusher = "close" => Behind(draft)'
    BY <1>1, <1>3 DEF Inv, DraftInv, Behind
  <2> QED
    BY <1>1, <2>1, <2>2 DEF Inv, DraftInv, Precedes
<1> QED
  BY <1>2, <1>4, <1>5 DEF Inv

\* The flushing thread renders what the counters are by then.
LEMMA FlushInv == Inv /\ Flush => Inv'
<1> SUFFICES ASSUME Inv, Flush PROVE Inv'
  OBVIOUS
<1>1. UNCHANGED <<breaches, alerted, blocked, refused, handler, answer, run>>
  BY DEF Flush, OpenFile, Render, CloseFile, counters
<1>2. flusher # "down" /\ flusher' # "down"
  BY DEF Flush, OpenFile, Render, CloseFile
<1>3. CountersInv'
  BY <1>1 DEF Inv, CountersInv
<1>4. Behind(answer)'
  BY <1>1, <1>2 DEF Inv, ReportsInv, Behind
<1>5. CASE OpenFile
  <2>1. ReportsInv'
    BY <1>1, <1>4, <1>5 DEF OpenFile, Inv, ReportsInv, Written
  <2>2. draft' = [run |-> run, alerts |-> 0, blocks |-> 0]
    BY <1>5 DEF OpenFile
  <2>3. draft' \in Report /\ draft'.run = run
    BY <2>2 DEF Inv, ReportsInv, Report
  <2>4. DraftInv'
    BY <1>1, <1>5, <2>3 DEF OpenFile, DraftInv
  <2> QED
    BY <1>3, <2>1, <2>4 DEF Inv
<1>6. CASE Render
  <2>1. ReportsInv'
    BY <1>1, <1>2, <1>4, <1>6 DEF Render, Inv, ReportsInv, Written, Behind, Precedes
  <2>2. CASE section = 1
    <3>1. draft' = [draft EXCEPT !.alerts = alerted] /\ section' = 2 /\ flusher' = "render"
      <4>1. Sections[section] = "alerts" /\ section # Len(Sections)
        BY <2>2 DEF Sections
      <4>2. Rendered("alerts") = [draft EXCEPT !.alerts = alerted]
        BY DEF Rendered
      <4> QED
        BY <1>6, <2>2, <4>1, <4>2 DEF Render
    <3>2. draft' \in Report /\ draft'.run = run /\ draft'.alerts = alerted
      BY <1>6, <3>1 DEF Render, Inv, DraftInv, CountersInv, Report
    <3>3. answer.run = run => answer.alerts <= alerted
      BY <1>2 DEF Inv, ReportsInv, Behind
    <3>4. file' = Empty
      BY <1>6 DEF Render, Inv, DraftInv
    <3> QED
      BY <1>1, <1>3, <2>1, <3>1, <3>2, <3>3, <3>4 DEF Inv, DraftInv, CountersInv
  <2>3. CASE section = 2
    <3>1. draft' = [draft EXCEPT !.blocks = blocked] /\ section' = 3 /\ flusher' = "close"
      <4>1. Sections[section] = "blocks" /\ section = Len(Sections)
        BY <2>3 DEF Sections
      <4>2. Rendered("blocks") = [draft EXCEPT !.blocks = blocked]
        BY DEF Rendered
      <4> QED
        BY <1>6, <2>3, <4>1, <4>2 DEF Render
    <3>2. /\ draft' \in Report /\ draft'.run = run
          /\ draft'.alerts = draft.alerts /\ draft'.blocks = blocked
          /\ draft.alerts <= alerted
          /\ answer.run = run => answer.alerts <= draft.alerts
      BY <1>6, <2>3, <3>1 DEF Render, Inv, DraftInv, CountersInv, Report
    <3>3. Behind(draft)'
      BY <1>1, <3>2 DEF Behind, Inv, CountersInv, ReportsInv, Report
    <3>4. Precedes(answer, draft)'
      BY <1>1, <1>2, <3>2 DEF Precedes, Behind, Inv, ReportsInv, Report
    <3>5. file' = Empty
      BY <1>6 DEF Render, Inv, DraftInv
    <3> QED
      BY <1>1, <1>3, <2>1, <3>1, <3>2, <3>3, <3>4, <3>5 DEF Inv, DraftInv
  <2> QED
    BY <1>6, <2>2, <2>3 DEF Render, Inv, DraftInv
<1>7. CASE CloseFile
  <2>1. Behind(file)' /\ Precedes(answer, file)' /\ file' \in Report
    BY <1>1, <1>2, <1>7 DEF CloseFile, Inv, DraftInv, Behind, Precedes
  <2>2. ReportsInv'
    BY <1>1, <1>4, <1>7, <2>1 DEF CloseFile, Inv, ReportsInv
  <2>3. DraftInv'
    BY <1>7 DEF CloseFile, Inv, DraftInv
  <2> QED
    BY <1>3, <2>2, <2>3 DEF Inv
<1> QED
  BY <1>5, <1>6, <1>7 DEF Flush

\* A scrape answers with the file, which the last answer precedes.
LEMMA ScrapeInv == Inv /\ Scrape => Inv'
<1> SUFFICES ASSUME Inv, Scrape PROVE Inv'
  OBVIOUS
<1>1. UNCHANGED <<counters, flusher, section, draft, file, run>>
  BY DEF Scrape
<1>2. answer' = file /\ file \in Report /\ Written
  BY DEF Scrape, Inv, ReportsInv, Written
<1>3. CountersInv'
  BY <1>1 DEF Inv, CountersInv, counters
<1>4. flusher \notin {"render", "close"}
  BY <1>2 DEF Inv, DraftInv, Written
<1>5. ReportsInv'
  BY <1>1, <1>2 DEF Inv, ReportsInv, Written, Behind, Precedes, counters, Report
<1>6. DraftInv'
  BY <1>1, <1>4 DEF Inv, DraftInv, counters
<1> QED
  BY <1>3, <1>5, <1>6 DEF Inv

\* When the worker ends, reports stay what they are; the next run comes after all of them.
LEMMA RestartInv == Inv /\ (Exit \/ Start) => Inv'
<1> SUFFICES ASSUME Inv, Exit \/ Start PROVE Inv'
  OBVIOUS
<1>1. CASE Exit
  <2>1. CountersInv'
    BY <1>1 DEF Exit, Inv, CountersInv
  <2>2. ReportsInv'
    BY <1>1 DEF Exit, Inv, ReportsInv, Written, Behind, Precedes
  <2>3. DraftInv'
    BY <1>1 DEF Exit, Inv, DraftInv
  <2> QED
    BY <2>1, <2>2, <2>3 DEF Inv
<1>2. CASE Start
  <2>1. CountersInv'
    BY <1>2 DEF Start, counters, Inv, CountersInv
  <2>2. ASSUME NEW r \in Report, Behind(r) PROVE Behind(r)'
    BY <1>2, <2>2 DEF Start, Behind, Inv, ReportsInv, Report
  <2>3. ReportsInv'
    BY <1>2, <2>2, MetricsAssumption DEF Start, counters, Inv, ReportsInv, Written, Precedes
  <2>4. DraftInv'
    BY <1>2 DEF Start, Inv, DraftInv
  <2> QED
    BY <2>1, <2>3, <2>4 DEF Inv
<1> QED
  BY <1>1, <1>2

\* A step that changes nothing keeps the invariant.
LEMMA StutterInv == Inv /\ UNCHANGED vars => Inv'
  BY DEF vars, counters, Inv, CountersInv, ReportsInv, DraftInv, Written, Behind, Precedes

\* The invariant holds in every reachable state.
LEMMA Invariant == Spec => []Inv
<1>1. Inv /\ [Next]_vars => Inv'
  BY HandleInv, FlushInv, ScrapeInv, RestartInv, StutterInv DEF Next
<1> QED
  BY InitInv, <1>1, PTL DEF Spec

(* The counters, the file and the reports keep their types, and no counter *)
(* exceeds the breaches handled.                                           *)
THEOREM MetricsTypeCorrect == Spec => []TypeOK
<1>1. Inv => TypeOK
  BY DEF Inv, CountersInv, ReportsInv, DraftInv, TypeOK, Sections
<1> QED
  BY <1>1, Invariant, PTL

(* No page that is scraped while a breach is being handled shows an alert  *)
(* without its block.                                                      *)
THEOREM ScrapedAlertsFollowBlocks == Spec => []AlertsFollowBlocks
<1>1. Inv => AlertsFollowBlocks
  BY DEF Inv, ReportsInv, Behind, AlertsFollowBlocks
<1> QED
  BY <1>1, Invariant, PTL

(* What is scraped does not go back, although the file is emptied and      *)
(* rewritten under the reader and the counters start over with the worker. *)
THEOREM ScrapesNeverGoBack == Spec => ReportsNeverGoBack
<1>1. ASSUME Inv, [Next]_vars
      PROVE  [\/ answer'.run > answer.run
              \/ /\ answer'.run = answer.run
                 /\ answer'.alerts >= answer.alerts
                 /\ answer'.blocks >= answer.blocks]_vars
  <2>1. CASE UNCHANGED vars
    BY <2>1
  <2>2. CASE Scrape
    BY <1>1, <2>2 DEF Scrape, Inv, ReportsInv, Written, Precedes, Report
  <2>3. CASE Handle \/ Flush \/ Exit \/ Start
    <3>1. answer' = answer /\ answer \in Report
      BY <1>1, <2>3 DEF Handle, RecordBlock, NotBlocked, Abandon, RecordAlert, Flush,
                  OpenFile, Render, CloseFile, Exit, Start, Inv, ReportsInv
    <3> QED
      BY <3>1 DEF Report
  <2> QED
    BY <1>1, <2>1, <2>2, <2>3 DEF Next
<1> QED
  BY <1>1, Invariant, PTL DEF Spec, ReportsNeverGoBack

----------------------------------------------------------------------------
(* The handler in detail.                                                  *)

(* Metrics sees the handler from the count on; what it has counted and     *)
(* announced by then accounts for every breach it was called for.          *)
NInv ==
  /\ alerted \in Nat /\ blocked \in Nat /\ refused \in Nat
  /\ taken \in Nat /\ broken \in Nat /\ undelivered \in Nat
  /\ stage \in {"none"} \cup Deciding \cup Announcing
  /\ handler = IF stage \in Announcing THEN "alerts" ELSE "waits"
  /\ AlertsLostOnlyBeforeTheCount

nnvars == <<vars, nvars>>

\* A step of the handler in detail is a step of Metrics or changes none of its variables.
LEMMA NStepIsStep == NNext => [Next]_vars
<1> SUFFICES ASSUME NNext PROVE [Next]_vars
  OBVIOUS
<1>1. CASE Begin \/ Persist \/ MarkBlocked
  BY <1>1 DEF Begin, Persist, MarkBlocked
<1>2. CASE HandleEvent
  BY <1>2 DEF HandleEvent, Next, Handle
<1>3. CASE CountBlock \/ BreaksOff
  BY <1>3 DEF CountBlock, BreaksOff, Next, Handle
<1>4. CASE Enrich \/ Send
  BY <1>4 DEF Enrich, Send
<1>5. CASE SendFails \/ Delivered
  BY <1>5 DEF SendFails, Delivered, Next, Handle
<1>6. CASE (Flush \/ Scrape \/ Start) /\ UNCHANGED nvars
  BY <1>6 DEF Next
<1>7. CASE NExit
  BY <1>7 DEF NExit, Next
<1> QED
  BY <1>1, <1>2, <1>3, <1>4, <1>5, <1>6, <1>7 DEF NNext, Announce

\* Hence what is proved of Metrics holds of the handler in detail.
LEMMA NotificationIsMetrics == NSpec => Spec
<1>1. NInit => Init
  BY DEF NInit
<1>2. [NNext]_nnvars => [Next]_vars
  BY NStepIsStep DEF nnvars
<1> QED
  BY <1>1, <1>2, PTL DEF NSpec, Spec, nnvars

\* Nothing has been counted and nothing is being announced.
LEMMA NInitInv == NInit => NInv
  BY DEF NInit, Init, NInv, AlertsLostOnlyBeforeTheCount, Deciding, Announcing

\* No statement can raise between the count and the alert: every step counts on both sides.
LEMMA NStepInv == NInv /\ [NNext]_nnvars => NInv'
<1> SUFFICES ASSUME NInv, [NNext]_nnvars PROVE NInv'
  OBVIOUS
<1> USE DEF NInv, AlertsLostOnlyBeforeTheCount, Deciding, Announcing
<1>1. CASE Begin
  BY <1>1 DEF Begin, vars, counters
<1>2. CASE Persist
  BY <1>2 DEF Persist, tallies, vars, counters
<1>3. CASE HandleEvent
  <2>1. CASE stage' = "mark" /\ UNCHANGED <<vars, event>>
    BY <1>3, <2>1 DEF HandleEvent, tallies, vars, counters
  <2>2. CASE NotBlocked /\ FromParsedEntry
    BY <1>3, <2>2 DEF HandleEvent, tallies, NotBlocked, FromParsedEntry
  <2> QED
    BY <1>3, <2>1, <2>2 DEF HandleEvent
<1>4. CASE MarkBlocked
  BY <1>4 DEF MarkBlocked, tallies, vars, counters
<1>5. CASE CountBlock
  BY <1>5 DEF CountBlock, tallies, RecordBlock, FromParsedEntry
<1>6. CASE BreaksOff
  BY <1>6 DEF BreaksOff, Abandon
<1>7. CASE Enrich
  BY <1>7 DEF Enrich, tallies, vars, counters
<1>8. CASE Send
  BY <1>8 DEF Send, tallies, vars, counters
<1>9. CASE SendFails
  BY <1>9 DEF SendFails, RecordAlert
<1>10. CASE Delivered
  BY <1>10 DEF Delivered, tallies, RecordAlert
<1>11. CASE (Flush \/ Scrape \/ Start) /\ UNCHANGED nvars
  BY <1>11 DEF Flush, OpenFile, Render, CloseFile, Scrape, Start, counters, nvars, tallies
<1>12. CASE NExit
  BY <1>12 DEF NExit, Exit
<1>13. CASE UNCHANGED nnvars
  BY <1>13 DEF nnvars, vars, counters, nvars, tallies
<1> QED
  BY <1>1, <1>2, <1>3, <1>4, <1>5, <1>6, <1>7, <1>8, <1>9, <1>10, <1>11, <1>12, <1>13
  DEF NNext, Announce

(* However often a statement of the handler raises, however often the      *)
(* channel fails and the worker is restarted, a breach that leaves no      *)
(* count was broken off before the count (worker.py 228-240), and one      *)
(* that is counted is announced unless the channel failed (252-282).       *)
THEOREM AlertsLostBeforeTheCountOnly == NSpec => []AlertsLostOnlyBeforeTheCount
<1>1. NInv => AlertsLostOnlyBeforeTheCount
  BY DEF NInv
<1> QED
  BY NInitInv, NStepInv, <1>1, PTL DEF NSpec, nnvars

(* What is proved of the numbers of Metrics holds with the handler in      *)
(* detail: they do not go back, and have no alert without its block        *)
(* (worker.py 219-282).                                                    *)
THEOREM AnnouncedAlertsFollowBlocks ==
  NSpec => []AlertsFollowBlocks /\ ReportsNeverGoBack
  BY NotificationIsMetrics, ScrapedAlertsFollowBlocks, ScrapesNeverGoBack, PTL
=============================================================================
