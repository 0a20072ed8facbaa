# LogSentinel in TLA+

LogSentinel watches the SSH log of a host, counts failed logins per source
address, denies an address at the firewall once it has made too many of them
inside a sliding window, and offers a web dashboard and a Telegram bot. This
directory holds TLA+ models of its core, their TLC configurations, and proofs
checked by TLAPS. `PROJECT.json` is the index: components, runs, the line
ranges every definition models, mutants, hazards, findings and theorems.

Paths below are relative to the repository; `src/` is its Python package.

## The system

Three processes (`docker-compose.yml`, all `restart: unless-stopped`) share one
SQLite file in WAL mode, the host's firewall and a metrics file.

| Component | State | Operations | Talks to |
|---|---|---|---|
| SSH log parser, `adapters/parsers/plugins/ssh_auth.py` | tail process, pipe, text buffer | `process_stream`, `parse_line` | calls `on_entry` of the worker |
| Threshold detector, `core/detector.py` | one queue of timestamps per address | `record_attempt` | publishes to the broker |
| Event broker, `core/events.py` | list of handlers | `subscribe`, `publish` (synchronous, swallows exceptions) | calls the worker's handler |
| Worker, `worker.py` | shutdown event, counters | `on_entry`, `on_security_event`, the metrics thread | repository, service, enricher, channel |
| Block service, `core/services/block_service.py` | none | `handle_event`, `block_ip`, `unblock_ip` | firewall strategy, table `blocked_ips` |
| Alert repository, `core/repositories.py` | none | `upsert_breach`, `mark_blocked`, `mark_ip_blocked`, `mark_ip_unblocked`, reads | table `alerts` |
| Firewall strategies, `adapters/firewall/` | ufw's rules | `block`, `unblock`, `is_blocked` | `ufw` |
| Web API and dashboard, `interfaces/web/app.py`, `web.py` | none; one thread per request | `/api/block`, `/api/unblock`, reads, `/metrics` | service and repository |
| Telegram bot, `adapters/telegram_worker.py` | last alert id, authorized chats | poll, broadcast, commands | table `alerts`, web API |
| Deletion script, `delete_alerts.py` | none | empties both tables | SQLite file |
| Metrics, `core/observability/metrics.py` | counters in memory | `record_*`, `render` | file `metrics.prom`, read by the web server |
| Enrichment and channel, `adapters/geoip/`, `adapters/alerting/console.py` | none | `enrich`, `send` | called by the worker's handler |
| Command handler, `interfaces/commands/`, with the command line and the first bot, `adapters/telegram.py` | none | `/status`, `/block`, `/unblock` | block service; the alerts are left alone |
| Registry, validation, older parser, demo | small or none | see "Not modelled" | |

What is hard here:

* **Interleaving.** A block takes an SQL statement, a command and another
  statement, each its own transaction; the worker and the threads of the web
  server run theirs on the same address, and `upsert_breach` writes back a row
  it has read before.
* **Failure in the middle.** ufw refuses, a statement raises (database locked,
  unique index), a process dies: what has been done stays, and the broker
  swallows the exception.
* **Order and time.** The detector trusts timestamps that the parser completes
  with the year of reading; one line may report many attempts.
* **Hidden buffers.** `select` looks at a pipe, `readline` at a buffer in front
  of it.
* **Shared mutable data across an await.** The bot iterates over the set of
  chats that its commands extend.
* **Readers without locks.** `metrics.prom` is emptied and rewritten under its
  reader; `/status` adds up two requests between which anything happens.
* **Exceptions that travel.** Of what the handler of the worker calls, only the
  channel is guarded: a statement that raises ends it, swallowed by the broker,
  with the breach neither counted nor announced. A byte that is not UTF-8 ends
  the worker; an IntegrityError ends the command line.

What makes each component correct: the detector publishes for exactly the
attempts of one window and loses none; every handler hears each event; the
firewall, `blocked_ips` and `alerts` tell the same story about an address; an
address that is denied can be undenied; lines arrive once and in order and the
worker stops when told to; no alert is ticked off before every chat was tried,
and none holds the poller up; a breach that is counted or refused is announced
unless its channel fails (one whose handling raises before that is not); scraped
counters do not go back; what a command answers agrees with the firewall. The
complete list of hazards, with the line where each bites and the properties that
cover it, is in `PROJECT.json`.

## The modules

```
ThresholdDetector          detector + broker
  DetectorHistory          + what the detector has pruned; implements SlidingWindow
    LogEntries             + parse_line and on_entry          -> run detector
  SyslogYear               + the year the parser adds         -> run syslog_year
LogTail                    process_stream                     -> run logtail_stuck
  Pipeline                 LogTail feeding ThresholdDetector on the worker's
                           main thread; implements LogWatch   -> run logtail
SharedState                firewall, tables, calls under way
  BlockService             one action per statement or command
  AlertRepository          one action per statement
    Enforcement            worker, web, faults, deletion      -> three runs
      Views                + the two requests of /status      -> run races
      Commands             + command line and first bot       -> runs faults, unblock
TelegramBot                poller and commands                -> run telegram
Metrics                    counters, file, scrapes
  Notification             + the handler's calls, each of which may raise,
                           or is known not to                 -> run metrics
```

**ThresholdDetector.** `attempts` is `_attempts`. `publish` runs handlers inside
`record_attempt`, so a breach is several steps: `RecordBreach` prunes, appends
and begins to publish, `Deliver` calls one handler (which returns or raises),
`ResetCounter` clears the queue. `RecordBelow` is the call that stays under the
threshold. `Prune` is the `while` loop, written as the length of the stale
prefix. Subscription happens once, before the first line, and is the constant
`Subscribers`.

**SlidingWindow, DetectorHistory.** The abstract detector keeps every attempt
since the last breach and counts those inside the window. `DetectorHistory`
adds that history to the real one and assumes a clock that does not go back;
`SyslogYear` drops the assumption and models what `_extract_timestamp` does.

**LogEntries.** A line is what the patterns find in it: a failed login or not,
an address or garbage, a repeat count. `RecordOne` is one pass of the loop of
`on_entry`. The runs of the detector use this specification.

**SharedState, BlockService, AlertRepository, Enforcement.** `rules` is what the
firewall has accepted, `records` the table `blocked_ips` by its unique key,
`alerts` the other table by id. `call[th]` is the call a thread is executing: a
label and what it has read so far (a record id, a whole alert row). Peewee runs
each statement in its own transaction, so a step is one statement or one ufw
command. A thread of the web server takes any request when idle; the worker's
only thread takes breaches. A record that is created twice raises
IntegrityError, which ends the call (`Create`). `Raise`, `WorkerCrash` and
`WebCrash` end calls anywhere before; `DeleteAll` is `delete_alerts.py`. SQLite
gives out the largest id plus one, so ids are reused after a deletion, and
`UpsertSave` and `MarkBlocked` may meet a row of another address. Attempts are
counted in breaches, because each event carries the same number of them
(`BreachAtThreshold`).

**Views.** `/status` of the bot is `StatusAlerts`, `StatusBlocked` and
`StatusReply`: two reads of the table through `GetRecent`, and an answer made of
both. Rows have no time in the models, so `GetRecent` returns any rows up to its
limit, which includes the most recent ones. It only reads, and the steps of
Enforcement go on around it.

**Commands.** A thread of the web server may instead run a command: `command[th]`
says for which interface and whether the firewall has said yes. `Lines` are what
an administrator types, by what the two parsers tell apart: the slashes in front,
the word and the argument. The command line takes off exactly one slash, the bot
all of them; text without a word makes the bot's parser raise, an address that
is none makes the firewall strategy raise, and an exception ends the loop of the
command line (`Escapes`). `CommandStep` runs the service actions of BlockService.

**LogTail.** Lines are numbers. `Select` sees the pipe only; `ReadLine` takes a
chunk of the pipe into the buffer and hands over its first line. tail repeats
its last lines when it starts, a full pipe blocks it, and both tail and the
worker may die.

**Pipeline, LogWatch.** Reading and detecting share one thread, so `Handle` reads a
line and records it, and nothing is read until `Settle` has cleared the queue
after the handlers. The detector is new after every `Boot`. A chunk with a byte
that is not UTF-8 makes readline raise (`ReadFails`), which ends the worker.
`LogWatch` is the promise without tail, pipe, buffer and pruned queues: a
position in the log, the lines counted for each address, and an alarm when
enough of them fall into one window; a restart forgets the counts and goes back
a few lines. Lines are stamped with their own numbers.

**TelegramBot.** Control changes hands only at an await, so a step of the poller
goes from one send to the next. The iteration of `_broadcast` over the live set
fails when the set has grown (`Grown`). The library takes one update after
another: `command` is the command under way, whose requests and replies succeed
or fail while the poller goes on.

**Metrics.** The main thread, the flushing thread and the web server; `Render`
reads one counter per step. A report carries the number of the worker's run,
which the properties need and the file does not have. A breach is counted
(`RecordBlock`), refused (`NotBlocked`) or abandoned (`Abandon`: a statement of the
handler has raised).

**Notification.** The handler call by call, with the metrics going on around it.
`stage` is the call it is about to make. `Persist`, `HandleEvent` and
`MarkBlocked` return, or one of them raises (`BreaksOff`), which skips everything
after it; Enforcement has what they do to firewall and tables. Past `CountBlock` (or
a refusal) the event is built (an address that is no IPv4 address becomes
127.0.0.1), looked up with any provider, sent by a channel that may raise within
its try (`SendFails`), and counted (`Delivered`). `taken`, `broken` and
`undelivered` are tallies for the properties; the code keeps none of them.

## The runs

| Run | Instance | Shows |
|---|---|---|
| detector | 2 addresses, threshold 3, window 2, clock 0..5, 2 handlers, lines of 1, 2 and 7 attempts | breaches at the threshold and inside the window, handlers all called, repeated lines accounted for, refinement of SlidingWindow |
| logtail | 6 lines, 2 addresses in 4 logs, threshold 2, chunks of 2, a pipe of 3, 2 failures, stop | order and completeness, a breach counts different lines of its address, stop, no blocked pipe, refinement of LogWatch |
| races | 1 address, worker and 2 web threads, 3 breaches, `/status` with lists of 1 and 2 rows, no faults | tables and firewall agree once all is quiet, no attempt lost, every breach ends in a rule, what `/status` may contradict |
| faults | 2 addresses, worker and 1 thread for requests or the command line, 2 breaches, exceptions, crashes, deletion | no record, flag or count without a rule; "Blocked" is answered only of a denied address |
| unblock | 1 address, worker and 2 threads for requests or the bot, 1 breach, block and unblock, refusals | records are created under their rule; a rule never lacks the record that unblocking it needs; "Failed" is answered only when nothing was done |
| telegram | 2 chats, 3 alerts, 2 errors, with and without a test chat, commands | no alert ticked off early, the poller gets past all, new alerts lie ahead of its mark, commands end |
| metrics | 3 breaches, 2 runs of the worker, an IPv4 and an IPv6 address, all providers | scraped counters monotone and consistent, every count written; a statement that raises loses an alert only before the count; counted and refused breaches get announced |
| syslog_year, reblock, answer, two_alerts, logtail_stuck | see "Findings" | the code contradicts its documentation |

**Why the bounds are enough.** Threshold three is the least with a proper
prefix and suffix of a queue, window two and six ticks let attempts become
stale at, before and after the strict comparison, seven attempts make two
breaches and a rest. Two web threads are the least in which requests race each
other as well as the worker; three breaches give a first one, a repeated one
and one that finds what a race left. In `unblock` a second breach of the address
adds to the attempts of its alert and otherwise takes the steps of a repeated
block request, which the threads make at any time. Two addresses in `faults` let
an id be reused by another address after a deletion. Limits of one and two rows
stand for 50 and 200: a table can fit the longer list, the shorter, or neither.
The logs of `logtail` hold a breach of adjacent lines, two addresses in turn,
lines that become stale and one that cannot be decoded; six lines are twice what
the pipe holds, so tail blocks, and chunks smaller than the pipe let the buffer
survive a read. The theorems do not depend on the bounds at all.

Deadlock is checked except in `logtail` and `syslog_year`: the worker may be
told to stop for good, and in the second the clock of the model ends.

**Fairness.** `Enforcement`, `Views`: a call that has begun goes on (the
interpreter runs it); nothing is fair about breaches, requests, refusals,
crashes or a `/status`. `LogTail`, `Pipeline`: the main thread and tail run and
the container is restarted; lines need not be written. `TelegramBot`: asyncio
wakes the poller; a send, a request or a reply ends, well or badly, since httpx
and the library give up after five seconds. `Metrics`, `Notification`: the
flushing thread runs, and can open its file; the worker is restarted; the main
thread goes on with an announcement, which looks up a place in memory or in a
local file and prints a line. Nothing is fair about the statements before it. All
fairness is weak.

## Findings

Each is a run that TLC ends with a counterexample.

* **syslog_year**, `ssh_auth.py` 213. A line without a year gets the year in
  which it is read. A December line replayed by `tail -F` in January is almost a
  year ahead, is never pruned, and a breach counts attempts far outside the
  window that README.md line 56 promises.
* **reblock**, `block_service.py` 98. Breach, unblock, breach: `handle_event`
  finds the old record, marks it blocked, answers True, and asks the firewall
  nothing. The tables say blocked, the host lets the address in.
* **answer**, `app.py` 162 and 191. The result of the service is ignored; the
  API answers "Blocked" when ufw has refused (and marks the alerts so), and
  "Unblocked" when the rule is still there.
* **two_alerts**, `repositories.py` 110. A first breach and a block request that
  overlap both insert: two rows for one address, where the tests of the
  repository expect one.
* **logtail_stuck**, `ssh_auth.py` 259. Lines that arrive in one chunk wait in
  the text buffer until yet another line is written, so the breach at the end
  of a burst may go unnoticed.

What the passing runs bring to light without contradicting a document:

* When a chat is authorized during a broadcast the alert is sent again to chats
  that already have it (`TickedOffAfterAll` holds because it is).
* A crash between rule and record leaves a rule that the API cannot remove
  (`DenialsAreUndoable` is checked and proved for calls that end).
* An unblock between another call's firewall command and its mark leaves a record
  marked blocked although the address has been let in; `RecordsCreatedUnderRule`
  says that a record is never *created* that way.
* When a statement of the handler raises (`worker.py` 228 to 240), nobody is told of
  the breach, though the firewall may deny the address by then: no count, no
  enrichment, no alert, and the detector has started counting anew.
  `AlertsLostOnlyBeforeTheCount` says that there is no other way.
* After `delete_alerts.py` ids start over below the mark of a bot that goes on
  running, and those alerts are never sent (`NewAlertsAreAhead` has to except it).
* While the worker handles a breach of an address that is being blocked from the
  web, `/status` may count an alert as blocked in one request and not in the next
  (`StatusMissesOnlyBreaches` says that there is no other way).
* After a restart lines are handled again but never counted twice in a breach,
  because the counts are gone as well (`BreachOfDistinctLines`).
* A line that is not UTF-8 ends the worker, which after its restart reads the
  same line again if it is among the last ten.

Read while modelling, and in no run: an empty line does not end the command line
(`cli.py` 46), as its docstring (line 21) and
`docs/services/05-command-handler/README.md` 83 say; `GEOIP_PROVIDER=maxmind`,
which README.md 149 offers, never finds a place, because `worker.py` 194 passes
no database; plain text sent to the first bot is taken for a command, which the
docstring of `_handle_text` denies.

## The proofs

| Module | Theorems | Assumptions beyond those of the constants |
|---|---|---|
| DetectorProofs | `DetectorTypeCorrect`, `BreachesAtThreshold`, `SubscribersAllHear` | none; timestamps in any order |
| DetectorWindowProofs | `BreachesWithinWindow`, `DetectorRefinesSlidingWindow` | the clock does not go back |
| | `RepeatsAllAccounted`, `EntriesDriveDetector` | as `LogEntries` has it, which is the same |
| PipelineProofs | `LogTailTypeCorrect`, `LinesInOrder`, and with the detector `PipelineTypeCorrect`, `PipelineLinesInOrder`, `BreachesOfDistinctLines`, `PipelineRefinesLogWatch` | none; any logs, chunks, pipes, faults and restarts |
| EnforcementProofs | `EnforcementTypeCorrect` | none; any faults, threads, addresses |
| | `RecordsUnderRule` | the tables are not deleted |
| | `DenialsUndoable` | nor do calls break off |
| | `RecordsEnforced`, `CountedBlocksEnforced` | nobody unblocks |
| | `FlagsEnforced` | nobody unblocks and the firewall does not refuse |
| CommandProofs | the last five again, of the system with commands (`...WithCommands`) | as before |
| | `SuccessesAreDenied` | nobody unblocks |
| | `FailuresHaveNoEffect` | the tables are not deleted |
| AgreementProofs | `QuiescentTablesAgree`, `StatusMissesBreachesOnly` | nobody unblocks, no faults, the tables are not deleted |
| | `AttemptsAllAccounted` | no call breaks off, the tables are not deleted |
| | `QuiescentTablesAgreeWithViews`, `AttemptsAllAccountedWithViews` | as before, of the system with `/status` |
| NotificationProofs | `MetricsTypeCorrect`, `ScrapedAlertsFollowBlocks`, `ScrapesNeverGoBack` | none |
| | `AlertsLostBeforeTheCountOnly`, `AnnouncedAlertsFollowBlocks` | none |
| TelegramProofs | `TelegramTypeCorrect`, `NewAlertsLieAhead`, `AlertsTickedOffAfterAll` | none |

The assumptions on the constants are the `ASSUME`s of the modules: a threshold
of at least one (the worker's configuration refuses less), a natural window,
integer timestamps, a worker distinct from the web threads, values such as
`NoEvent` and `NoEntry` distinct from what they say there is none of. The
assumptions in the last column are those the properties need: each is the
absence of something the code allows, and TLC finds the property violated on the
instances above as soon as any one of them is dropped.

*Detector.* `Inv` says that queues are below the threshold except the one being
published, whose length is the announced count, and that the handlers called
and still to call make up the list of subscribers. The work is in
`PruneKeepsSuffix` (what is kept is a suffix with a fresh head) and
`ExtendedProperties`. For the window the invariant must speak of order: queues
and histories are sorted up to the clock, and each queue is the part of its
history from some position on, everything before it being stale by then
(`ExtendedCountsWindow`: what the history has inside the window is exactly the
queue). The refinement follows with the history as the abstract state.

*Repeated lines.* Between two passes of the loop of `on_entry` the breaches of the
entry times the threshold, and the queue pruned for its timestamp, add up to what the
window held before and what has been recorded since. Pruning a second time with
the same cutoff drops nothing (so a breach empties the sum into exactly one
threshold), and the timestamp of an entry never lies before the clock, which makes
the calls of `on_entry` a behaviour of `DetectorHistory`.

*Stream.* Lines are numbers, so "in order, nothing lost" means that `handled`,
`buffer` and `pipe`, put one after another, count up from the first line of the run to
the next one tail reads (`Flow`). Each step moves a prefix from one part to
the next; `Consecutive` is closed under taking and adding prefixes.

*Pipeline.* The invariant instantiates that of the detector (`D!Inv`, with line
numbers as timestamps; the inductive steps of DetectorProofs are reused) and adds
`Memory`: a queue holds distinct lines of its address in increasing order, and
the handled lines it no longer holds are older than the window. Hence the lines
in the window of the latest line are exactly the queue after a call
(its `Cardinality` is the length of the queue, since a strictly increasing sequence
repeats nothing), the alarm of `LogWatch` goes off on the same line, and a
restart forgets both. Each of the actions of Pipeline is then one action of
`LogWatch` or a stutter.

*Enforcement, types.* `TypeInv` adds to `TypeOK` what the steps need: the label
of a call determines its operation and thread and that it has an address
(`GoodCall`), the tables have a largest id (which makes `Max` in
`NextId` meaningful without counting rows), and the worker's counter is below
the breaches while a breach is under way. Each service operation *frames* its thread, which
reduces the eleven of them to one lemma.

*Enforcement, safety.* `ServiceEffect` and `StepCases` say once what any step can
do to `rules` and `records`. A call between its deny and its create has its rule
(`RecordsUnderRule`: a call that is unblocking has found a record, records do
not vanish, so the address it is unblocking is never one whose record is still
to be created), a rule without a record belongs
to a call about to create one (`DenialsUndoable`). For the flags the invariant
follows a flag through every place it can be copied from: the row `upsert_breach`
holds, the result of the service, the id of an alert, which after a deletion
may belong to a row of another address; such a row was inserted by the web
server, after it had denied that address.

*Commands.* A step of `Commands` is a step of Enforcement, for commands are callers
of the same service, or a reply, which ends a call and touches no table
(`CommandCases`). So every invariant of Enforcement that survives a reply
carries over. `SuccessMeansDenied` is then part of the invariant behind
`RecordsEnforced`. "Failed" after the firewall said yes would take a record that
is gone when it is to be marked: `Known` says that the id a call holds belongs to
a record still there, `Telling` that a command told yes by the firewall is on
its way to an answer of yes. Exceptions may happen at any time, because they end
the command without an answer.

*Agreement of the tables.* `AlertCases` reduces each step to what it does to the rows.
The invariant (`Agreeing`) lists who still owes what: a row not marked yet is
the worker's, which is on its way to mark it, or of an address for which a web
request is about to mark all rows; an address on record has a row or a request
about to insert one; and if a request has created the record the worker
missed, so that the worker's own create will raise, then that request marks the
worker's row (`Overtaken`). When nobody is under way nothing is owed. For `/status`
the invariant adds that what the first request showed as blocked is still an
alert of its address (`OnRecord`) and is unmarked only in the hands of the worker
(`Asked`); that the second request sees all rows is a fact about `Cardinality` and
`Min`.

*Attempts.* The sum over the table equals the breaches written, less the one the
worker is still upserting, and while the worker is about to save a row, the
attempts it has read are still those in the table: web requests insert rows with
none and change flags only. The sum itself (`MapThenSumSet`, defined by folding
over the set with CHOOSE) needs an induction over finite sets, which the provers
cannot instantiate from the library. It is replaced by a least counterexample:
`Smallest` says that among the subsets for which a claim fails one has no smaller
neighbour, from the well-foundedness of the natural numbers; with it `SumExists`
shows that the recursive definition is satisfied, and `SumTakeOut` that any element can
be taken out first, whichever CHOOSE picks.

*Metrics.* A report of the present run is behind the counters (`Behind`), the last
answer precedes the file and the report being rendered (`Precedes`), and an alert
is counted only after its block or refusal; the file is empty while a report is
rendered, so nothing is scraped then.

*Notification.* Every step is a step of Metrics or leaves its variables alone, so
the theorems about Metrics carry over (`NotificationIsMetrics`, a lemma that
follows from how the module is built). `NInv` ties the stage of the handler to
what Metrics sees of it: a breach that is being decided is not counted yet, and one
being announced is the one by which the two sides of
`AlertsLostOnlyBeforeTheCount` differ; a step that raises moves its breach to
`broken` before either side has counted it.

*Telegram bot.* Ids are always 1 to n (`Table`), and the rows a poll has left run
from the mark on (`RowsLeft`), so the row under way is the one after the mark.
`Broadcast` says that everything but the chats left has been tried as long as the
set of chats has its old size; since the set only grows, an equal size at the
end of the iteration means the same set (`FS_AddElement`).

**Only model-checked:** all liveness (`BreachIsEnforced`, `StopIsHonoured`,
`PipeDrains`, `PollerCatchesUp`, `CommandsEnd`, `CountsGetReported`,
`DecidedBreachesAnnounced`), which is out of TLAPS's reach, and the violations
listed under "Findings". Every invariant and every safety property of a passing
run is stated by a theorem above, for the specification of that run or for one
that it implements.

## Not modelled

* The regular expressions, the layout of pages, messages and replies, and the
  rendering of numbers: pure functions or output.
* The script of the dashboard page. Its refreshes make the two requests of
  `/status` and may overlap; the page is repaired by the next one.
* The plugin registry, a dictionary filled once at start-up, and the abstract
  parser class.
* `adapters/log_tail.py` and `adapters/parsers/ssh_auth.py`, the older parser:
  no service reads them. The strict and file-path checks of `validation.py`,
  `is_blocked`, `get_by_id` and `AlertRepository.create` are called by tests only.
* `demo.py`, a script of prepared lines.
* A line whose end is not written yet, on which readline waits without looking at
  the stop event: lines reach the pipe whole.
* The stderr pipe of tail, which is never read and would block tail once full,
  and the growth of memory with lines and addresses.
* A scrape that reads the metrics file in more than one system call.
* Authentication of the web API and its rejection of malformed requests: those
  answer without touching state.

## Plan

Done: detector and broker; enforcement; log tail; Telegram bot; metrics; then
the compositions Pipeline, Views, Commands and Notification; the proofs of all
invariants and of the refinements. Next, proofs:

1. *Agreement under faults*: what is left of `QuiescentAgreement` when calls break
   off or the firewall refuses, as one-sided properties that TLC confirms first.
2. *SyslogYear*: that the window of a breach is right whenever the parser reads
   the line in the year in which it was written.
3. *Pipeline* with `LogEntries`: lines of several attempts in the stream, so that
   `BreachOfDistinctLines` becomes a statement about attempts.

## Running it

    tlc -workers 2 -config MCFaults.cfg MCCommands.tla
    tlapm EnforcementProofs.tla

A run needs at most a minute, a proof module up to about ten.
