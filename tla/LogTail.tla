------------------------------ MODULE LogTail ------------------------------
(***************************************************************************)
(* SSHAuthPlugin.process_stream (adapters/parsers/plugins/ssh_auth.py):    *)
(* how the lines of the log reach the parser.                              *)
(*                                                                         *)
(*   log file --tail -F--> OS pipe --read--> text buffer --> parse_line    *)
(*                                                                         *)
(* The loop asks select() whether the PIPE has data and then calls         *)
(* readline(), which takes a whole chunk out of the pipe, hands over its   *)
(* first line and keeps the rest in the buffer of the file object, where   *)
(* select() does not see it.                                               *)
(*                                                                         *)
(* Lines are numbered as they are written.  What parse_line and the        *)
(* callback make of a line is the business of the detector.                *)
(***************************************************************************)
EXTENDS Integers, Sequences

CONSTANTS
  MaxLines,    \* bound: the lines ever written
  ChunkLines,  \* lines that fit into one read of the pipe (8 KiB)
  PipeLines,   \* lines that fit into the pipe (64 KiB)
  Replay,      \* lines that `tail -F' repeats when it starts (ten)
  MaxFailures, \* bound: how often tail or the worker dies
  Stops        \* TRUE if the worker may be told to stop

ASSUME LogTailAssumption ==
  /\ MaxLines \in Nat /\ MaxFailures \in Nat /\ Replay \in Nat
  /\ ChunkLines \in Nat \ {0} /\ PipeLines \in Nat \ {0}
  /\ Stops \in BOOLEAN

VARIABLES
  written,   \* lines written to the log
  first,     \* the first line this tail process has read
  next,      \* the next line it will read
  tail,      \* "running" or "dead"
  pipe,      \* lines in the OS pipe
  buffer,    \* lines in the file object proc.stdout
  handled,   \* lines given to parse_line since this worker started
  pc,        \* where the loop is; "down": no process_stream is running
  stop,      \* stop_event is set
  failures   \* deaths so far

vars == <<written, first, next, tail, pipe, buffer, handled, pc, stop, failures>>
stream == <<first, next, pipe, buffer, handled>>

Lines(m, n) == [k \in 1 .. n - m + 1 |-> m + k - 1]

Init ==
  /\ written \in 0 .. MaxLines
  /\ first = 1 /\ next = 1
  /\ tail = "dead" /\ pc = "down"
  /\ pipe = <<>> /\ buffer = <<>> /\ handled = <<>>
  /\ stop = FALSE
  /\ failures = 0

----------------------------------------------------------------------------

(* sshd writes a line.                                                     *)
WriteLine ==
  /\ written < MaxLines
  /\ written' = written + 1
  /\ UNCHANGED <<stream, tail, pc, stop, failures>>

(* Mutant of Start: the position of the first line is off by one.          *)
StartOneEarlier ==
  /\ pc = "down" /\ ~stop
  /\ pc' = "check" /\ tail' = "running"
  /\ first' = (IF written >= Replay THEN written - Replay ELSE 1)
  /\ next' = first'
  /\ pipe' = <<>> /\ buffer' = <<>> /\ handled' = <<>>
  /\ UNCHANGED <<written, stop, failures>>

(* The container (re)starts the worker, process_stream starts tail.        *)
Start ==
  /\ pc = "down" /\ ~stop
  /\ pc' = "check" /\ tail' = "running"
  /\ first' = (IF written > Replay THEN written - Replay + 1 ELSE 1)
  /\ next' = first'
  /\ pipe' = <<>> /\ buffer' = <<>> /\ handled' = <<>>
  /\ UNCHANGED <<written, stop, failures>>

(* tail copies a line; a full pipe blocks it.                              *)
TailCopies ==
  /\ tail = "running"
  /\ next <= written
  /\ Len(pipe) < PipeLines
  /\ pipe' = Append(pipe, next)
  /\ next' = next + 1
  /\ UNCHANGED <<written, first, tail, buffer, handled, pc, stop, failures>>

----------------------------------------------------------------------------
(* The loop of process_stream.                                             *)

(* stop_event.is_set(), proc.poll()                                        *)
Check ==
  /\ pc = "check"
  /\ pc' = IF stop \/ tail = "dead" THEN "terminate" ELSE "select"
  /\ UNCHANGED <<written, stream, tail, stop, failures>>

(* Mutant of Select: without a timeout.                                    *)
SelectForever ==
  /\ pc = "select"
  /\ pipe # <<>> \/ tail = "dead"
  /\ pc' = "read"
  /\ UNCHANGED <<written, stream, tail, stop, failures>>

(* Mutant of Select: answers for the file object, and the wrong way.       *)
SelectOnlyIfUnbuffered ==
  /\ pc = "select"
  /\ pc' = IF buffer = <<>> /\ (pipe # <<>> \/ tail = "dead") THEN "read" ELSE "check"
  /\ UNCHANGED <<written, stream, tail, stop, failures>>

(* select([proc.stdout], [], [], 1.0): data or end of file in the pipe, or *)
(* a second passes without.                                                *)
Select ==
  /\ pc = "select"
  /\ pc' = IF pipe # <<>> \/ tail = "dead" THEN "read" ELSE "check"
  /\ UNCHANGED <<written, stream, tail, stop, failures>>

Chunk == IF Len(pipe) < ChunkLines THEN Len(pipe) ELSE ChunkLines

(* Mutant of ReadLine: the rest of the chunk is dropped.                   *)
ReadLineDropsRest ==
  /\ pc = "read"
  /\ pc' = "check"
  /\ \/ /\ buffer # <<>>
        /\ handled' = Append(handled, Head(buffer))
        /\ buffer' = Tail(buffer)
        /\ UNCHANGED pipe
     \/ /\ buffer = <<>> /\ pipe # <<>>
        /\ handled' = Append(handled, Head(pipe))
        /\ pipe' = SubSeq(pipe, Chunk + 1, Len(pipe))
        /\ UNCHANGED buffer
     \/ /\ buffer = <<>> /\ pipe = <<>>
        /\ UNCHANGED <<handled, buffer, pipe>>
  /\ UNCHANGED <<written, first, next, tail, stop, failures>>

(* proc.stdout.readline(), parse_line and the callback; end of file gives  *)
(* no line.                                                                *)
ReadLine ==
  /\ pc = "read"
  /\ pc' = "check"
  /\ \/ /\ buffer # <<>>
        /\ handled' = Append(handled, Head(buffer))
        /\ buffer' = Tail(buffer)
        /\ UNCHANGED pipe
     \/ /\ buffer = <<>> /\ pipe # <<>>
        /\ handled' = Append(handled, Head(pipe))
        /\ buffer' = SubSeq(pipe, 2, Chunk)
        /\ pipe' = SubSeq(pipe, Chunk + 1, Len(pipe))
     \/ /\ buffer = <<>> /\ pipe = <<>>
        /\ UNCHANGED <<handled, buffer, pipe>>
  /\ UNCHANGED <<written, first, next, tail, stop, failures>>

(* finally: terminate tail and wait for it; what it had copied is lost.    *)
Terminate ==
  /\ pc = "terminate"
  /\ pc' = "down" /\ tail' = "dead"
  /\ pipe' = <<>> /\ buffer' = <<>>
  /\ UNCHANGED <<written, first, next, handled, stop, failures>>

Loop == Check \/ Select \/ ReadLine \/ Terminate

----------------------------------------------------------------------------

(* SIGTERM or SIGINT sets the event.                                       *)
Stop ==
  /\ Stops /\ ~stop
  /\ stop' = TRUE
  /\ UNCHANGED <<written, stream, tail, pc, failures>>

TailDies ==
  /\ failures < MaxFailures
  /\ tail = "running"
  /\ tail' = "dead"
  /\ failures' = failures + 1
  /\ UNCHANGED <<written, stream, pc, stop>>

Crash ==
  /\ failures < MaxFailures
  /\ pc # "down"
  /\ pc' = "down" /\ tail' = "dead"
  /\ pipe' = <<>> /\ buffer' = <<>>
  /\ failures' = failures + 1
  /\ UNCHANGED <<written, first, next, handled, stop>>

Next == WriteLine \/ Start \/ TailCopies \/ Loop \/ Stop \/ TailDies \/ Crash

Spec == Init /\ [][Next]_vars

(* The loop and tail run; the container is restarted (docker-compose.yml,  *)
(* restart: unless-stopped).                                               *)
Fairness == WF_vars(Loop) /\ WF_vars(TailCopies) /\ WF_vars(Start)

FairSpec == Spec /\ Fairness

----------------------------------------------------------------------------

(* Type invariant of the stream and the loop.                              *)
TypeOK ==
  /\ written \in 0 .. MaxLines
  /\ first \in 1 .. MaxLines + 1 /\ next \in first .. written + 1
  /\ tail \in {"running", "dead"}
  /\ pc \in {"down", "check", "select", "read", "terminate"}
  /\ pipe \in Seq(1 .. written) /\ Len(pipe) <= PipeLines
  /\ buffer \in Seq(1 .. written) /\ Len(buffer) < ChunkLines
  /\ handled \in Seq(1 .. written)
  /\ stop \in BOOLEAN /\ failures \in 0 .. MaxFailures

(* Whatever sizes the chunks have and whenever tail is blocked, the lines  *)
(* of one run are handled in order, each once and none left out; those not *)
(* handled yet are in the buffer and the pipe.                             *)
NothingLostOrReordered ==
  pc # "down" => handled \o buffer \o pipe = Lines(first, next - 1)

(* A worker that is told to stop does so, even if the log is silent.       *)
StopIsHonoured == stop ~> (pc = "down")

(* tail is never blocked for good: a full pipe gets room again, although   *)
(* readline serves the buffered lines first.                               *)
PipeDrains == (Len(pipe) = PipeLines) ~> (Len(pipe) < PipeLines)

(* Every line that is written reaches the parser ("Tail a log file and     *)
(* call *callback* for each parsed entry", ssh_auth.py 228).               *)
EveryLineHandled ==
  \A line \in 1 .. MaxLines :
    (written >= line /\ pc # "down" /\ first <= line) ~>
      (\E k \in DOMAIN handled : handled[k] = line)
=============================================================================
