--------------------------- MODULE DetectorProofs ---------------------------
(***************************************************************************)
(* Proofs about the threshold detector, for every set of addresses, every  *)
(* threshold, window and set of timestamps.                                *)
(*                                                                         *)
(* PruneKeepsSuffix says what pruning does to a queue.  From it follow the *)
(* facts that need no order of the timestamps (Spec), and, with timestamps *)
(* that do not go back (HSpec), that a breach counts exactly the attempts  *)
(* of its window: the implementation of SlidingWindow.                     *)
(***************************************************************************)
EXTENDS ThresholdDetector, FiniteSetTheorems, SequenceTheorems, TLAPS

(* The popped positions are the first n of the queue, where n is how many  *)
(* there are: a set of positions that holds every smaller one is 1 .. n.   *)
LEMMA StalePrefixIsInterval ==
  ASSUME NEW queue \in Seq(Int), NEW cutoff \in Int
  PROVE  /\ Cardinality(StalePrefix(queue, cutoff)) \in 0 .. Len(queue)
         /\ StalePrefix(queue, cutoff) = 1 .. Cardinality(StalePrefix(queue, cutoff))
<1> DEFINE S == StalePrefix(queue, cutoff)
           n == Cardinality(S)
<1>1. S \in SUBSET (1 .. Len(queue)) /\ Len(queue) \in Nat
  BY DEF StalePrefix
<1>2. /\ IsFiniteSet(1 .. Len(queue))
      /\ Cardinality(1 .. Len(queue)) = Len(queue)
  <2> DEFINE L == Len(queue)
  <2>1. L \in Nat
    BY <1>1
  <2> HIDE DEF L
  <2>2. IsFiniteSet(1 .. L) /\ Cardinality(1 .. L) = L
    BY <2>1, FS_Interval
  <2> QED
    BY <2>2 DEF L
<1>3. IsFiniteSet(S) /\ n \in Nat /\ n <= Len(queue)
  BY <1>1, <1>2, FS_Subset, FS_CardinalityType
<1>4. ASSUME NEW m \in S PROVE m \in 1 .. n
  <2>1. 1 .. m \in SUBSET S /\ m \in Nat \ {0}
    BY <1>1, <1>4 DEF StalePrefix
  <2>2. Cardinality(1 .. m) = m
    BY <2>1, FS_Interval
  <2>3. m <= n
    BY <1>3, <2>1, <2>2, FS_Subset
  <2> QED
    BY <1>3, <2>1, <2>3
<1>5. S \in SUBSET (1 .. n)
  BY <1>4
<1>6. IsFiniteSet(1 .. n) /\ Cardinality(1 .. n) = n
  BY <1>3, FS_Interval
<1>7. S = 1 .. n
  BY <1>5, <1>6, FS_Subset
<1> QED
  BY <1>1, <1>3, <1>7

(* Pruning removes a prefix of stale entries and keeps the rest in order;  *)
(* the head of what is kept, if any, is not stale.                         *)
LEMMA PruneKeepsSuffix ==
  ASSUME NEW queue \in Seq(Times), NEW cutoff \in Int
  PROVE  \E n \in 0 .. Len(queue) :
           /\ Prune(queue, cutoff) \in Seq(Times)
           /\ Len(Prune(queue, cutoff)) = Len(queue) - n
           /\ \A k \in 1 .. Len(queue) - n :
                Prune(queue, cutoff)[k] = queue[n + k]
           /\ \A k \in 1 .. n : queue[k] < cutoff
           /\ n < Len(queue) => queue[n + 1] >= cutoff
<1> DEFINE n == Cardinality(StalePrefix(queue, cutoff))
<1>1. queue \in Seq(Int) /\ Len(queue) \in Nat /\ \A k \in 1 .. Len(queue) : queue[k] \in Times
  <2>1. Times \subseteq Int
    BY DetectorAssumption
  <2>2. queue \in Seq(Int)
    BY <2>1, SeqMonotonic
  <2> QED
    BY <2>2, ElementOfSeq, LenProperties
<1>2. n \in 0 .. Len(queue) /\ StalePrefix(queue, cutoff) = 1 .. n
  BY <1>1, StalePrefixIsInterval
<1>3. \A k \in 1 .. n : queue[k] < cutoff
  BY <1>1, <1>2 DEF StalePrefix
<1>4. n < Len(queue) => queue[n + 1] >= cutoff
  <2> SUFFICES ASSUME n < Len(queue), queue[n + 1] < cutoff
               PROVE  FALSE
    BY <1>1, <1>2, DetectorAssumption
  <2> HIDE DEF n
  <2>1. n + 1 \in 1 .. Len(queue) /\ \A j \in 1 .. n + 1 : queue[j] < cutoff
    BY <1>1, <1>2, <1>3
  <2>2. n + 1 \in StalePrefix(queue, cutoff)
    BY <2>1 DEF StalePrefix
  <2> QED
    BY <1>2, <2>2
<1> HIDE DEF n
<1>5. Prune(queue, cutoff) = SubSeq(queue, n + 1, Len(queue))
  BY DEF Prune, n
<1>6. /\ Prune(queue, cutoff) \in Seq(Times)
      /\ Len(Prune(queue, cutoff)) = Len(queue) - n
      /\ \A k \in 1 .. Len(queue) - n : Prune(queue, cutoff)[k] = queue[n + k]
  <2>1. \A k \in n + 1 .. Len(queue) : queue[k] \in Times
    BY <1>1, <1>2
  <2>2. /\ SubSeq(queue, n + 1, Len(queue)) \in Seq(Times)
        /\ Len(SubSeq(queue, n + 1, Len(queue))) =
             IF n + 1 <= Len(queue) THEN Len(queue) - (n + 1) + 1 ELSE 0
        /\ \A k \in 1 .. Len(queue) - (n + 1) + 1 :
             SubSeq(queue, n + 1, Len(queue))[k] = queue[(n + 1) + k - 1]
    <3>1. n + 1 \in Int /\ Len(queue) \in Int
      BY <1>1, <1>2
    <3> QED
      BY <2>1, <3>1, SubSeqProperties
  <2> QED
    BY <1>1, <1>2, <1>5, <2>2
<1> QED
  BY <1>2, <1>3, <1>4, <1>6

(* What record_attempt leaves in the queue of one address.                 *)
LEMMA ExtendedProperties ==
  ASSUME NEW ip \in IPs, NEW t \in Times, attempts[ip] \in Seq(Times)
  PROVE  \E n \in 0 .. Len(attempts[ip]) :
           /\ Extended(ip, t) \in Seq(Times)
           /\ Len(Extended(ip, t)) = Len(attempts[ip]) - n + 1
           /\ \A k \in 1 .. Len(attempts[ip]) - n :
                Extended(ip, t)[k] = attempts[ip][n + k]
           /\ Extended(ip, t)[Len(attempts[ip]) - n + 1] = t
           /\ \A k \in 1 .. n : attempts[ip][k] < t - Window
           /\ n < Len(attempts[ip]) => attempts[ip][n + 1] >= t - Window
<1> DEFINE q == attempts[ip]
           p == Prune(q, t - Window)
<1>1. t - Window \in Int
  BY DetectorAssumption
<1>2. PICK n \in 0 .. Len(q) :
        /\ p \in Seq(Times)
        /\ Len(p) = Len(q) - n
        /\ \A k \in 1 .. Len(q) - n : p[k] = q[n + k]
        /\ \A k \in 1 .. n : q[k] < t - Window
        /\ n < Len(q) => q[n + 1] >= t - Window
  BY <1>1, PruneKeepsSuffix
<1>3. Len(q) \in Nat
  OBVIOUS
<1> HIDE DEF p, q
<1>4. /\ Append(p, t) \in Seq(Times)
      /\ Len(Append(p, t)) = Len(p) + 1
      /\ \A k \in 1 .. Len(p) : Append(p, t)[k] = p[k]
      /\ Append(p, t)[Len(p) + 1] = t
  <2>1. p \in Seq(Times) /\ t \in Times
    BY <1>2
  <2>2. /\ Append(p, t) \in Seq(Times)
        /\ Len(Append(p, t)) = Len(p) + 1
    BY <2>1
  <2>3. \A k \in 1 .. Len(p) : Append(p, t)[k] = p[k]
    BY <2>1
  <2>4. Append(p, t)[Len(p) + 1] = t
    BY <2>1
  <2> QED
    BY <2>2, <2>3, <2>4
<1>5. Extended(ip, t) = Append(p, t)
  BY DEF Extended, p, q
<1>6. /\ Extended(ip, t) \in Seq(Times)
      /\ Len(Extended(ip, t)) = Len(q) - n + 1
      /\ \A k \in 1 .. Len(q) - n : Extended(ip, t)[k] = q[n + k]
      /\ Extended(ip, t)[Len(q) - n + 1] = t
  BY <1>2, <1>3, <1>4, <1>5
<1> QED
  BY <1>2, <1>6 DEF q

----------------------------------------------------------------------------

(* While an event is dispatched, the handlers called and the handlers left *)
(* make up the subscribers, in order.                                      *)
DispatchOrder == published # NoEvent => heard \o pending = Subscribers

Inv == TypeOK /\ BreachAtThreshold /\ DispatchOrder

\* Before the first attempt every queue of the detector is empty.
LEMMA InitInv == Init => Inv
<1> SUFFICES ASSUME Init PROVE Inv
  OBVIOUS
<1>1. TypeOK
  BY DetectorAssumption DEF Init, TypeOK
<1>2. BreachAtThreshold
  BY DetectorAssumption DEF Init, BreachAtThreshold
<1>3. DispatchOrder
  BY DEF Init, DispatchOrder
<1> QED
  BY <1>1, <1>2, <1>3 DEF Inv

(* A call that stays under the threshold.                                  *)
LEMMA RecordBelowInv ==
  ASSUME Inv, NEW ip \in IPs, NEW t \in Times, RecordBelow(ip, t)
  PROVE  Inv'
<1>1. attempts[ip] \in Seq(Times)
  BY DEF Inv, TypeOK
<1>2. Extended(ip, t) \in Seq(Times) /\ Len(Extended(ip, t)) < Threshold
  BY <1>1, ExtendedProperties DEF RecordBelow
<1>3. /\ attempts' = [attempts EXCEPT ![ip] = Extended(ip, t)]
      /\ published = NoEvent /\ clock' = t
      /\ published' = published /\ pending' = pending /\ heard' = heard
  BY DEF RecordBelow
<1> HIDE DEF Extended
<1>4. TypeOK'
  BY <1>2, <1>3, DetectorAssumption DEF Inv, TypeOK
<1>5. BreachAtThreshold'
  BY <1>2, <1>3 DEF Inv, TypeOK, BreachAtThreshold
<1>6. DispatchOrder'
  BY <1>3 DEF Inv, DispatchOrder
<1> QED
  BY <1>4, <1>5, <1>6 DEF Inv

(* A call that publishes: the queue was one short of the threshold.        *)
LEMMA RecordBreachInv ==
  ASSUME Inv, NEW ip \in IPs, NEW t \in Times, RecordBreach(ip, t)
  PROVE  Inv' /\ Len(Extended(ip, t)) = Threshold
<1>1. attempts[ip] \in Seq(Times) /\ Len(attempts[ip]) \in Nat
  BY DEF Inv, TypeOK
<1>2. Len(attempts[ip]) < Threshold
  BY DEF Inv, BreachAtThreshold, RecordBreach
<1>3. /\ Extended(ip, t) \in Seq(Times)
      /\ Len(Extended(ip, t)) \in Nat
      /\ Len(Extended(ip, t)) <= Len(attempts[ip]) + 1
  <2>1. PICK n \in 0 .. Len(attempts[ip]) :
          /\ Extended(ip, t) \in Seq(Times)
          /\ Len(Extended(ip, t)) = Len(attempts[ip]) - n + 1
    BY <1>1, ExtendedProperties
  <2> QED
    BY <1>1, <2>1
<1>4. Len(Extended(ip, t)) = Threshold
  BY <1>1, <1>2, <1>3, DetectorAssumption DEF RecordBreach
<1>5. /\ attempts' = [attempts EXCEPT ![ip] = Extended(ip, t)]
      /\ published' = [ip |-> ip,
                       attempt_count |-> Len(Extended(ip, t)),
                       timestamp |-> t]
      /\ pending' = Subscribers /\ heard' = <<>> /\ clock' = t
      /\ published = NoEvent
  BY DEF RecordBreach
<1>6. published' \in Event /\ published' # NoEvent
  BY <1>3, <1>5, NoEventAssumption DEF Event
<1> HIDE DEF Extended
<1>7. TypeOK'
  BY <1>3, <1>4, <1>5, <1>6, DetectorAssumption DEF Inv, TypeOK
<1>8. BreachAtThreshold'
  BY <1>3, <1>4, <1>5, <1>6 DEF Inv, TypeOK, BreachAtThreshold
<1>9. DispatchOrder'
  <2>1. <<>> \o Subscribers = Subscribers
    BY DetectorAssumption, ConcatEmptySeq
  <2> QED
    BY <1>5, <2>1 DEF DispatchOrder
<1> QED
  BY <1>4, <1>7, <1>8, <1>9 DEF Inv

(* One handler returns or raises.                                          *)
LEMMA DeliverInv ==
  ASSUME Inv, NEW outcome \in Outcomes, Deliver(outcome)
  PROVE  Inv'
<1>1. /\ published # NoEvent /\ pending # <<>>
      /\ heard' = Append(heard, Head(pending)) /\ pending' = Tail(pending)
      /\ attempts' = attempts /\ published' = published /\ clock' = clock
  BY DEF Deliver
<1>2. heard \in Seq(Handlers) /\ pending \in Seq(Handlers)
  BY DEF Inv, TypeOK
<1>3. /\ Head(pending) \in Handlers
      /\ Tail(pending) \in Seq(Handlers)
      /\ pending = <<Head(pending)>> \o Tail(pending)
  BY <1>1, <1>2
<1>4. TypeOK'
  <2>1. heard' \in Seq(Handlers)
    BY <1>1, <1>2, <1>3
  <2> QED
    BY <1>1, <1>3, <2>1 DEF Inv, TypeOK
<1>5. BreachAtThreshold'
  BY <1>1 DEF Inv, BreachAtThreshold
<1>6. DispatchOrder'
  <2>1. heard \o pending = Subscribers
    BY <1>1 DEF Inv, DispatchOrder
  <2>2. Append(heard, Head(pending)) = heard \o <<Head(pending)>>
    BY <1>2, <1>3, AppendIsConcat
  <2>3. <<Head(pending)>> \in Seq(Handlers)
    BY <1>3
  <2>4. (heard \o <<Head(pending)>>) \o Tail(pending)
          = heard \o (<<Head(pending)>> \o Tail(pending))
    BY <1>2, <1>3, <2>3, ConcatAssociative
  <2> QED
    BY <1>1, <1>3, <2>1, <2>2, <2>4 DEF DispatchOrder
<1> QED
  BY <1>4, <1>5, <1>6 DEF Inv

(* publish has returned and the queue is cleared.                          *)
LEMMA ResetCounterInv ==
  ASSUME Inv, ResetCounter
  PROVE  Inv'
<1>1. /\ published # NoEvent /\ pending = <<>>
      /\ attempts' = [attempts EXCEPT ![published.ip] = <<>>]
      /\ published' = NoEvent /\ heard' = <<>>
      /\ pending' = pending /\ clock' = clock
  BY DEF ResetCounter
<1>2. published.ip \in IPs
  BY <1>1 DEF Inv, TypeOK, Event
<1>3. TypeOK'
  BY <1>1, <1>2, DetectorAssumption DEF Inv, TypeOK
<1>4. BreachAtThreshold'
  BY <1>1, <1>2, DetectorAssumption DEF Inv, TypeOK, BreachAtThreshold
<1>5. DispatchOrder'
  BY <1>1 DEF DispatchOrder
<1> QED
  BY <1>3, <1>4, <1>5 DEF Inv

\* The invariant is inductive: one case per step of record_attempt and of the broker.
LEMMA NextInv == Inv /\ [Next]_vars => Inv'
<1> SUFFICES ASSUME Inv, [Next]_vars PROVE Inv'
  OBVIOUS
<1>1. ASSUME NEW ip \in IPs, NEW t \in Times, RecordBelow(ip, t) PROVE Inv'
  BY <1>1, RecordBelowInv
<1>2. ASSUME NEW ip \in IPs, NEW t \in Times, RecordBreach(ip, t) PROVE Inv'
  BY <1>2, RecordBreachInv
<1>3. ASSUME NEW outcome \in Outcomes, Deliver(outcome) PROVE Inv'
  BY <1>3, DeliverInv
<1>4. ASSUME ResetCounter PROVE Inv'
  BY <1>4, ResetCounterInv
<1>5. ASSUME UNCHANGED vars PROVE Inv'
  BY <1>5 DEF vars, Inv, TypeOK, BreachAtThreshold, DispatchOrder
<1> QED
  BY <1>1, <1>2, <1>3, <1>4, <1>5 DEF Next

\* The invariant holds in every reachable state.
LEMMA SpecInv == Spec => []Inv
  BY InitInv, NextInv, PTL DEF Spec

(* In whatever order timestamps arrive, the detector stays within its      *)
(* types and no queue outgrows the threshold.                              *)
THEOREM DetectorTypeCorrect == Spec => []TypeOK
<1>1. Inv => TypeOK
  BY DEF Inv
<1> QED
  BY SpecInv, <1>1, PTL

(* In whatever order timestamps arrive, a breach is published the moment   *)
(* the queue reaches the threshold, with a count equal to it.              *)
THEOREM BreachesAtThreshold == Spec => []BreachAtThreshold
<1>1. Inv => BreachAtThreshold
  BY DEF Inv
<1> QED
  BY SpecInv, <1>1, PTL

(* No handler that raises keeps a later handler from seeing the event.     *)
THEOREM SubscribersAllHear == Spec => []EverySubscriberHeard
<1>1. Inv => EverySubscriberHeard
  <2> SUFFICES ASSUME Inv, published # NoEvent, pending = <<>>
               PROVE  heard = Subscribers
    BY DEF EverySubscriberHeard
  <2>1. heard \o <<>> = Subscribers /\ heard \in Seq(Handlers)
    BY DEF Inv, TypeOK, DispatchOrder
  <2> QED
    BY <2>1, ConcatEmptySeq
<1> QED
  BY SpecInv, <1>1, PTL
=============================================================================
