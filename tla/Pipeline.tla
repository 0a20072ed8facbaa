------------------------------ MODULE Pipeline ------------------------------
(***************************************************************************)
(* worker.py, Worker.run: the stream of LogTail feeds the detector of      *)
(* ThresholdDetector, both on the worker's main thread, so nothing is read *)
(* while a breach is being handled.  The detector lives in the memory of   *)
(* the process and is new after every start; tail then repeats lines that  *)
(* an earlier process has handled already.                                 *)
(*                                                                         *)
(* Every line reports one attempt or none; repeated lines are the business *)
(* of LogEntries.  A line is stamped with its own number: lines are written *)
(* in the order of time, and what is read again keeps its time.            *)
(***************************************************************************)
EXTENDS LogTail, FiniteSets

CONSTANTS
  IPs,          \* addresses in the log
  Noise,        \* what a line without a failed login reports
  Undecodable,  \* a line that is not UTF-8
  Logs,         \* what the log may hold: who is reported by each line
  Threshold,    \* BLOCK_THRESHOLD
  Window,       \* window_seconds
  Subscribers,  \* the handlers that Worker.run subscribes
  NoEvent       \* "no publication is under way"

VARIABLES
  origin,     \* who is reported by each line
  attempts, published, pending, heard, clock,   \* of ThresholdDetector
  mark        \* per address, the lines handled up to its last breach

detector == <<attempts, published, pending, heard, clock>>
pvars == <<vars, origin, detector, mark>>

Detector == INSTANCE ThresholdDetector WITH Times <- 1 .. MaxLines

ASSUME PipelineAssumption ==
  /\ Noise \notin IPs /\ Undecodable \notin IPs /\ Noise # Undecodable
  /\ Logs \subseteq [1 .. MaxLines -> IPs \cup {Noise, Undecodable}]
  /\ Threshold \in Nat \ {0} /\ Window \in Nat
  /\ Subscribers \in Seq(Detector!Handlers)
  /\ NoEvent \notin Detector!Event

(* Mutant of FreshMemory: the counts of the last process are kept.         *)
StoredMemory ==
  /\ published' = NoEvent /\ pending' = <<>> /\ heard' = <<>>
  /\ mark' = [ip \in IPs |-> 0]
  /\ UNCHANGED <<attempts, clock>>

(* A process without memory of the log.                                    *)
FreshMemory ==
  /\ attempts' = [ip \in IPs |-> <<>>]
  /\ published' = NoEvent /\ pending' = <<>> /\ heard' = <<>>
  /\ mark' = [ip \in IPs |-> 0]
  /\ UNCHANGED clock

PInit ==
  /\ Init
  /\ origin \in Logs
  /\ Detector!Init /\ clock = 1
  /\ mark = [ip \in IPs |-> 0]

----------------------------------------------------------------------------

(* Worker.run: a new detector, on_security_event subscribed to its broker, *)
(* and process_stream is called with on_entry.                             *)
Boot ==
  /\ Start
  /\ FreshMemory
  /\ UNCHANGED origin

(* on_entry: the line that was read is an attempt or is none.              *)
OnLine(line) ==
  \/ /\ origin[line] \in IPs
     /\ \/ Detector!RecordBelow(origin[line], line)
        \/ Detector!RecordBreach(origin[line], line)
  \/ origin[line] = Noise /\ UNCHANGED detector

(* readline decodes a whole chunk of the pipe, or none of it.              *)
ChunkDecodes ==
  buffer # <<>> \/ \A k \in 1 .. Chunk : origin[pipe[k]] # Undecodable

(* A line is read and handled; or readline meets the end of the file.      *)
Handle ==
  /\ ReadLine
  /\ ChunkDecodes
  /\ \/ handled' # handled /\ OnLine(handled'[Len(handled')])
     \/ handled' = handled /\ UNCHANGED detector
  /\ UNCHANGED <<origin, mark>>

(* readline raises UnicodeDecodeError: process_stream ends tail, Worker.run *)
(* logs the error and returns.  What is in the pipe goes with tail.        *)
ReadFails ==
  /\ pc = "read" /\ ~ChunkDecodes
  /\ pc' = "terminate"
  /\ UNCHANGED <<written, stream, tail, stop, failures, origin, detector, mark>>

(* The handler returns or raises: the broker does not tell the difference. *)
Publish ==
  /\ \E outcome \in Detector!Outcomes : Detector!Deliver(outcome)
  /\ UNCHANGED <<vars, origin, mark>>

(* record_attempt clears the queue and returns.                            *)
Settle ==
  /\ Detector!ResetCounter
  /\ mark' = [mark EXCEPT ![published.ip] = Len(handled)]
  /\ UNCHANGED <<vars, origin>>

(* The loop is looking at its stop event or at the pipe.                   *)
Idle ==
  /\ published = NoEvent
  /\ Check \/ Select
  /\ UNCHANGED <<origin, detector, mark>>

(* process_stream returns and so does Worker.run; or the process dies.     *)
Exit == Terminate /\ FreshMemory /\ UNCHANGED origin
Die == Crash /\ FreshMemory /\ UNCHANGED origin

Environment ==
  /\ WriteLine \/ TailCopies \/ Stop \/ TailDies
  /\ UNCHANGED <<origin, detector, mark>>

MainThread == Handle \/ ReadFails \/ Publish \/ Settle \/ Idle \/ Exit

PNext == Boot \/ MainThread \/ Die \/ Environment

PSpec == PInit /\ [][PNext]_pvars

PFairness ==
  /\ WF_pvars(MainThread)
  /\ WF_pvars(TailCopies /\ UNCHANGED <<origin, detector, mark>>)
  /\ WF_pvars(Boot)

PFairSpec == PSpec /\ PFairness

----------------------------------------------------------------------------

Watch == INSTANCE LogWatch WITH
  position <- IF pc = "down" THEN 0 ELSE first + Len(handled),
  seen <- [ip \in IPs |->
             IF pc = "down" THEN {}
             ELSE {handled[k] : k \in {j \in mark[ip] + 1 .. Len(handled) :
                                          origin[handled[j]] = ip}}],
  alarm <- published

(* tail, pipe, buffer, select and pruned queues together implement the     *)
(* plain watch over the lines of the log, through crashes of tail and of   *)
(* the worker, lines that end the worker because they cannot be decoded,   *)
(* and the lines repeated after them (docs/services/15-worker/  *)
(* README.md 98: on_entry is called synchronously per parsed line).        *)
ImplementsLogWatch == Watch!Spec

(* Whatever is replayed, a breach stands for Threshold different lines of  *)
(* the log, all of them about its address.                                 *)
BreachOfDistinctLines ==
  published # NoEvent =>
    LET counted == {attempts[published.ip][k] : k \in DOMAIN attempts[published.ip]}
    IN  /\ Cardinality(counted) = Threshold
        /\ \A line \in counted : origin[line] = published.ip
=============================================================================
