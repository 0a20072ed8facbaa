------------------------- MODULE ThresholdDetector -------------------------
(***************************************************************************)
(* core/detector.py and core/events.py: the sliding-window detector of the *)
(* worker and the broker it publishes to.                                  *)
(*                                                                         *)
(* record_attempt keeps one queue of timestamps per source address, prunes *)
(* the stale head of the queue, appends the new timestamp and, once the    *)
(* queue holds `threshold' of them, publishes one SecurityEvent and clears *)
(* the queue.  publish runs the handlers one after another inside that     *)
(* call, so the queue stays full until the last handler has returned or    *)
(* raised: the call is split into RecordBreach, one Deliver per handler    *)
(* and ResetCounter.                                                       *)
(*                                                                         *)
(* Times are the values of datetime.timestamp(); only their order and      *)
(* their distance matter.                                                  *)
(***************************************************************************)
EXTENDS Integers, Sequences, FiniteSets

CONSTANTS
  IPs,          \* source addresses that appear in the log
  Threshold,    \* BLOCK_THRESHOLD
  Window,       \* window_seconds
  Times,        \* the timestamps the parser may hand over
  Subscribers,  \* the broker's handlers, in subscription order
  NoEvent       \* "no publication is under way"

Handlers == {Subscribers[k] : k \in DOMAIN Subscribers}

(* worker.Config refuses a threshold below one (worker.py 122-126).        *)
ASSUME DetectorAssumption ==
  /\ Threshold \in Nat \ {0}
  /\ Window \in Nat
  /\ Times \subseteq Int
  /\ Subscribers \in Seq(Handlers)

VARIABLES
  attempts,   \* ThresholdDetector._attempts: a queue of timestamps per address
  published,  \* the SecurityEvent being dispatched, or NoEvent
  pending,    \* the subscribers publish has not called yet
  heard,      \* the subscribers publish has called for this event
  clock       \* the timestamp of the latest attempt, of any address

vars == <<attempts, published, pending, heard, clock>>

Event == [ip : IPs, attempt_count : Nat, timestamp : Times]

ASSUME NoEventAssumption == NoEvent \notin Event

----------------------------------------------------------------------------

(* The positions that `while queue and queue[0] < cutoff' pops.            *)
StalePrefix(queue, cutoff) ==
  {k \in 1 .. Len(queue) : \A j \in 1 .. k : queue[j] < cutoff}

(* A mutant of Prune: nothing is dropped.                                  *)
PruneNothing(queue, cutoff) == queue

(* A mutant of Prune: `<=' for `<' drops an attempt exactly Window old.    *)
PruneAtCutoff(queue, cutoff) ==
  SubSeq(queue, Cardinality(StalePrefix(queue, cutoff + 1)) + 1, Len(queue))

(* _prune: drop the stale head; an entry behind a fresher one stays.       *)
Prune(queue, cutoff) ==
  SubSeq(queue, Cardinality(StalePrefix(queue, cutoff)) + 1, Len(queue))

(* The queue of ip once record_attempt has pruned and appended.            *)
Extended(ip, t) == Append(Prune(attempts[ip], t - Window), t)

----------------------------------------------------------------------------

Init ==
  /\ attempts = [ip \in IPs |-> <<>>]
  /\ published = NoEvent
  /\ pending = <<>>
  /\ heard = <<>>
  /\ clock \in Times

(* record_attempt, the branch that stays under the threshold.              *)
RecordBelow(ip, t) ==
  /\ published = NoEvent
  /\ Len(Extended(ip, t)) < Threshold
  /\ attempts' = [attempts EXCEPT ![ip] = Extended(ip, t)]
  /\ clock' = t
  /\ UNCHANGED <<published, pending, heard>>

(* record_attempt, the branch that publishes: up to the first handler.     *)
RecordBreach(ip, t) ==
  /\ published = NoEvent
  /\ Len(Extended(ip, t)) >= Threshold
  /\ attempts' = [attempts EXCEPT ![ip] = Extended(ip, t)]
  /\ published' = [ip |-> ip,
                   attempt_count |-> Len(Extended(ip, t)),
                   timestamp |-> t]
  /\ pending' = Subscribers
  /\ heard' = <<>>
  /\ clock' = t

(* A mutant of Deliver: an exception ends the loop over the handlers.      *)
DeliverStopsOnRaise(outcome) ==
  /\ published # NoEvent
  /\ pending # <<>>
  /\ heard' = Append(heard, Head(pending))
  /\ pending' = IF outcome = "raises" THEN <<>> ELSE Tail(pending)
  /\ UNCHANGED <<attempts, published, clock>>

(* publish calls the next handler.  It returns or raises; publish catches  *)
(* what it raises and goes on with the handlers that are left.             *)
Deliver(outcome) ==
  /\ published # NoEvent
  /\ pending # <<>>
  /\ heard' = Append(heard, Head(pending))
  /\ pending' = Tail(pending)
  /\ UNCHANGED <<attempts, published, clock>>

(* A mutant of ResetCounter: the queue is not cleared.                     *)
ResetNothing ==
  /\ published # NoEvent
  /\ pending = <<>>
  /\ published' = NoEvent
  /\ heard' = <<>>
  /\ UNCHANGED <<attempts, pending, clock>>

(* publish has returned: record_attempt clears the queue of the address.   *)
ResetCounter ==
  /\ published # NoEvent
  /\ pending = <<>>
  /\ attempts' = [attempts EXCEPT ![published.ip] = <<>>]
  /\ published' = NoEvent
  /\ heard' = <<>>
  /\ UNCHANGED <<pending, clock>>

Outcomes == {"returns", "raises"}

Next ==
  \/ \E ip \in IPs, t \in Times : RecordBelow(ip, t) \/ RecordBreach(ip, t)
  \/ \E outcome \in Outcomes : Deliver(outcome)
  \/ ResetCounter

Spec == Init /\ [][Next]_vars

----------------------------------------------------------------------------

(* Type invariant: what record_attempt keeps per address, and what publish *)
(* holds while it runs; no queue ever exceeds the threshold.               *)
TypeOK ==
  /\ attempts \in [IPs -> Seq(Times)]
  /\ \A ip \in IPs : Len(attempts[ip]) <= Threshold
  /\ published \in Event \cup {NoEvent}
  /\ pending \in Seq(Handlers)
  /\ heard \in Seq(Handlers)
  /\ clock \in Times

(* Between two calls of record_attempt every queue is below the threshold, *)
(* and the queue being published holds exactly the number of attempts the  *)
(* event announces, which is the threshold itself and never more: a breach *)
(* is never reported late and never twice for the same attempts, in        *)
(* whatever order the timestamps come.                                     *)
BreachAtThreshold ==
  \A ip \in IPs :
    IF published # NoEvent /\ published.ip = ip
    THEN /\ Len(attempts[ip]) = published.attempt_count
         /\ published.attempt_count = Threshold
    ELSE Len(attempts[ip]) < Threshold

(* Every attempt counted for a published breach lies in the window that    *)
(* ends with the attempt that triggered it (detector.py 47-49: the number  *)
(* of attempts from this IP within the sliding window).                    *)
BreachWithinWindow ==
  published # NoEvent =>
    \A k \in 1 .. Len(attempts[published.ip]) :
      attempts[published.ip][k] \in
        (published.timestamp - Window) .. published.timestamp

(* When publish is about to return, each subscriber has been called once,  *)
(* in subscription order, whichever of them raised (events.py 39-41).      *)
EverySubscriberHeard ==
  published # NoEvent /\ pending = <<>> => heard = Subscribers
=============================================================================
