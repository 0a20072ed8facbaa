------------------------ MODULE DetectorWindowProofs ------------------------
(***************************************************************************)
(* With timestamps that do not go back, a breach counts exactly the        *)
(* attempts of its window, and the detector implements SlidingWindow.      *)
(*                                                                         *)
(* The invariant behind both (HInv): the queue of an address is the tail   *)
(* of the history of its attempts, every attempt before that tail is older *)
(* than the window of the latest timestamp, and the history is sorted.  So *)
(* whatever pruning has dropped can never fall into a later window.        *)
(***************************************************************************)
EXTENDS DetectorProofs, LogEntries

Sorted(seq) == \A i, j \in 1 .. Len(seq) : i <= j => seq[i] <= seq[j]

(* How many attempts of ip the detector has pruned since its last breach.  *)
Dropped(ip) == Len(history[ip]) - Len(attempts[ip])

QueueIsTail(ip) ==
  /\ Dropped(ip) \in Nat
  /\ \A k \in 1 .. Len(attempts[ip]) :
       attempts[ip][k] = history[ip][Dropped(ip) + k]
  /\ \A k \in 1 .. Dropped(ip) : history[ip][k] < clock - Window

HistoryAt(ip) ==
  /\ Sorted(history[ip])
  /\ \A k \in 1 .. Len(history[ip]) : history[ip][k] <= clock
  /\ IF published # NoEvent /\ published.ip = ip
     THEN history[ip] = <<>>
     ELSE QueueIsTail(ip)

HistoryOK == \A ip \in IPs : HistoryAt(ip)

HInv ==
  /\ Inv
  /\ history \in [IPs -> Seq(Times)]
  /\ HistoryOK
  /\ BreachWithinWindow

----------------------------------------------------------------------------

\* With no attempt recorded, history and queues agree.
LEMMA HInitInv == HInit => HInv
<1> SUFFICES ASSUME HInit PROVE HInv
  OBVIOUS
<1>1. Inv
  BY InitInv DEF HInit
<1>2. history \in [IPs -> Seq(Times)]
  BY DEF HInit
<1>3. HistoryOK
  BY DEF HInit, Init, HistoryOK, HistoryAt, Sorted, QueueIsTail, Dropped
<1>4. BreachWithinWindow
  BY DEF HInit, Init, BreachWithinWindow
<1> QED
  BY <1>1, <1>2, <1>3, <1>4 DEF HInv

(* The heart of the argument.  When record_attempt runs at t, the attempts *)
(* of the window ending at t are the kept queue, and all of them fit.      *)
LEMMA ExtendedCountsWindow ==
  ASSUME HInv, published = NoEvent,
         NEW ip \in IPs, NEW t \in Times, t >= clock
  PROVE  /\ Extended(ip, t) \in Seq(Times)
         /\ Len(Extended(ip, t)) = Cardinality(SW!Recent(ip, t)) + 1
         /\ \A k \in 1 .. Len(Extended(ip, t)) :
              Extended(ip, t)[k] \in (t - Window) .. t
         /\ LET d == Len(history[ip]) + 1 - Len(Extended(ip, t))
            IN  /\ d \in Nat
                /\ \A k \in 1 .. d : history[ip][k] < t - Window
                /\ \A k \in 1 .. Len(Extended(ip, t)) :
                     Extended(ip, t)[k] = Append(history[ip], t)[d + k]
<1> DEFINE q == attempts[ip]
           h == history[ip]
           e == Extended(ip, t)
           b == Dropped(ip)
<1>1. /\ q \in Seq(Times) /\ Len(q) \in Nat
      /\ h \in Seq(Times) /\ Len(h) \in Nat
      /\ \A k \in 1 .. Len(h) : h[k] \in Int
  <2>1. q \in Seq(Times) /\ h \in Seq(Times)
    BY DEF HInv, Inv, TypeOK
  <2>2. \A k \in 1 .. Len(h) : h[k] \in Times
    BY <2>1
  <2>3. Times \subseteq Int
    BY DetectorAssumption
  <2>4. Len(q) \in Nat /\ Len(h) \in Nat
    BY <2>1, LenProperties
  <2> HIDE DEF q, h
  <2>5. \A k \in 1 .. Len(h) : h[k] \in Int
    BY <2>2, <2>3
  <2> QED
    BY <2>1, <2>4, <2>5
<1>2. /\ Times \subseteq Int /\ Window \in Nat
      /\ t \in Int /\ clock \in Int
  BY DetectorAssumption DEF HInv, Inv, TypeOK
<1>3. /\ \A i, j \in 1 .. Len(h) : i <= j => h[i] <= h[j]
      /\ \A k \in 1 .. Len(h) : h[k] <= clock
  BY DEF HInv, HistoryOK, HistoryAt, Sorted
<1>4. /\ b \in Nat /\ b = Len(h) - Len(q)
      /\ \A k \in 1 .. Len(q) : q[k] = h[b + k]
      /\ \A k \in 1 .. b : h[k] < clock - Window
  BY DEF HInv, HistoryOK, HistoryAt, QueueIsTail, Dropped
<1>5. PICK n \in 0 .. Len(q) :
        /\ e \in Seq(Times)
        /\ Len(e) = Len(q) - n + 1
        /\ \A k \in 1 .. Len(q) - n : e[k] = q[n + k]
        /\ e[Len(q) - n + 1] = t
        /\ \A k \in 1 .. n : q[k] < t - Window
        /\ n < Len(q) => q[n + 1] >= t - Window
  BY <1>1, ExtendedProperties
<1>6. SW!Recent(ip, t) = {k \in 1 .. Len(h) : h[k] >= t - Window}
  BY <1>1 DEF SW!Recent
<1> HIDE DEF q, h, e, b
<1> DEFINE d == b + n
<1>7. d \in Nat /\ d <= Len(h) /\ d = Len(h) + 1 - Len(e)
  BY <1>1, <1>4, <1>5
<1>8. ASSUME NEW k \in 1 .. d PROVE h[k] < t - Window
  <2>1. CASE k <= b
    <3>1. k \in 1 .. b /\ h[k] \in Int
      BY <1>1, <1>2, <1>4, <1>7, <2>1
    <3> QED
      BY <1>2, <1>4, <3>1
  <2>2. CASE k > b
    <3>1. k - b \in 1 .. n /\ k - b \in 1 .. Len(q)
      BY <1>1, <1>4, <1>5, <2>2
    <3>2. q[k - b] = h[b + (k - b)] /\ b + (k - b) = k
      BY <1>4, <3>1
    <3> QED
      BY <1>5, <3>1, <3>2
  <2> QED
    BY <1>4, <2>1, <2>2
<1>9. ASSUME NEW k \in d + 1 .. Len(h) PROVE h[k] >= t - Window
  <2>1. n < Len(q) /\ n + 1 \in 1 .. Len(q)
    BY <1>1, <1>4, <1>5
  <2>2. h[d + 1] = q[n + 1] /\ d + 1 \in 1 .. Len(h) /\ k \in 1 .. Len(h)
    BY <1>1, <1>4, <1>5, <2>1
  <2>3. h[d + 1] <= h[k] /\ h[d + 1] >= t - Window
    BY <1>3, <1>5, <1>7, <2>1, <2>2
  <2>4. h[d + 1] \in Int /\ h[k] \in Int /\ t - Window \in Int
    BY <1>1, <1>2, <2>2
  <2> QED
    BY <2>3, <2>4
<1>10. Cardinality(SW!Recent(ip, t)) + 1 = Len(e)
  <2>1. SW!Recent(ip, t) = d + 1 .. Len(h)
    <3>1. ASSUME NEW k \in 1 .. Len(h), h[k] >= t - Window
          PROVE  k \in d + 1 .. Len(h)
      <4>1. h[k] \in Int
        BY <1>1, <1>2
      <4> QED
        BY <1>2, <1>7, <1>8, <3>1, <4>1
    <3>2. d + 1 .. Len(h) \subseteq 1 .. Len(h)
      BY <1>1, <1>7
    <3> QED
      BY <1>6, <1>9, <3>1, <3>2
  <2>2. Cardinality(d + 1 .. Len(h)) = Len(h) - d
    <3>1. d + 1 \in Int /\ Len(h) \in Int
      BY <1>1, <1>7
    <3> HIDE DEF d
    <3>2. Cardinality(d + 1 .. Len(h)) =
            IF d + 1 > Len(h) THEN 0 ELSE Len(h) - (d + 1) + 1
      BY <3>1, FS_Interval
    <3> QED
      BY <1>1, <1>7, <3>2
  <2> QED
    BY <1>1, <1>5, <1>7, <2>1, <2>2
<1>11. ASSUME NEW k \in 1 .. Len(e) PROVE e[k] = Append(h, t)[d + k]
  <2>1. /\ \A j \in 1 .. Len(h) : Append(h, t)[j] = h[j]
        /\ Append(h, t)[Len(h) + 1] = t
    BY <1>1
  <2>2. CASE k = Len(e)
    <3>1. d + k = Len(h) + 1 /\ k = Len(q) - n + 1
      BY <1>1, <1>4, <1>5, <1>7, <2>2
    <3> QED
      BY <1>5, <2>1, <3>1
  <2>3. CASE k # Len(e)
    <3>1. k \in 1 .. Len(q) - n /\ n + k \in 1 .. Len(q) /\ d + k \in 1 .. Len(h)
      BY <1>1, <1>4, <1>5, <1>7, <2>3
    <3>2. e[k] = q[n + k] /\ q[n + k] = h[b + (n + k)] /\ b + (n + k) = d + k
      BY <1>4, <1>5, <3>1
    <3> QED
      BY <2>1, <3>1, <3>2
  <2> QED
    BY <2>2, <2>3
<1>12. ASSUME NEW k \in 1 .. Len(e) PROVE e[k] \in (t - Window) .. t
  <2>1. /\ \A j \in 1 .. Len(h) : Append(h, t)[j] = h[j]
        /\ Append(h, t)[Len(h) + 1] = t
    BY <1>1
  <2>2. CASE d + k = Len(h) + 1
    BY <1>2, <1>11, <2>1, <2>2
  <2>3. CASE d + k # Len(h) + 1
    <3>1. d + k \in d + 1 .. Len(h) /\ d + k \in 1 .. Len(h)
      <4>1. Len(h) \in Nat /\ Len(e) \in Nat /\ d \in Nat /\ d = Len(h) + 1 - Len(e)
        BY <1>1, <1>5, <1>7
      <4> HIDE DEF d
      <4> QED
        BY <2>3, <4>1
    <3>2. e[k] = h[d + k] /\ h[d + k] >= t - Window /\ h[d + k] <= clock
      BY <1>3, <1>9, <1>11, <2>1, <3>1
    <3>3. h[d + k] \in Int
      BY <1>1, <1>2, <3>1
    <3> QED
      BY <1>2, <3>2, <3>3
  <2> QED
    BY <2>2, <2>3
<1> QED
  BY <1>5, <1>7, <1>8, <1>10, <1>11, <1>12 DEF e, h

\* record_attempt appends, so the queue it leaves holds at least the new attempt.
LEMMA ExtendedNotEmpty ==
  ASSUME NEW ip \in IPs, NEW t \in Times, attempts[ip] \in Seq(Times)
  PROVE  Len(Extended(ip, t)) > 0
<1>1. PICK n \in 0 .. Len(attempts[ip]) :
        Len(Extended(ip, t)) = Len(attempts[ip]) - n + 1
  BY ExtendedProperties
<1> QED
  BY <1>1

(* The other addresses only see the clock move on.                         *)
LEMMA OtherAddressKept ==
  ASSUME NEW i \in IPs,
         attempts \in [IPs -> Seq(Times)], history \in [IPs -> Seq(Times)],
         clock \in Int, clock' \in Int, clock' >= clock,
         HInv, ~(published # NoEvent /\ published.ip = i),
         (~(published # NoEvent /\ published.ip = i))',
         attempts'[i] = attempts[i], history'[i] = history[i]
  PROVE  HistoryAt(i)'
<1> DEFINE la == Len(attempts[i])
           h == history[i]
           lh == Len(h)
<1>1. /\ la \in Nat /\ lh \in Nat
      /\ \A k \in 1 .. lh : h[k] \in Int
  <2>1. \A k \in 1 .. lh : h[k] \in Times
    OBVIOUS
  <2>2. Times \subseteq Int
    BY DetectorAssumption
  <2>3. la \in Nat /\ lh \in Nat
    OBVIOUS
  <2> HIDE DEF h, lh
  <2> QED
    BY <2>1, <2>2, <2>3
<1>2. /\ Sorted(h)
      /\ \A k \in 1 .. lh : h[k] <= clock
      /\ lh - la \in Nat
      /\ \A k \in 1 .. la : attempts[i][k] = h[(lh - la) + k]
      /\ \A k \in 1 .. (lh - la) : h[k] < clock - Window
  BY DEF HInv, HistoryOK, HistoryAt, QueueIsTail, Dropped
<1>3. Window \in Nat
  BY DetectorAssumption
<1>4. /\ history'[i] = h /\ Len(history'[i]) = lh
      /\ Len(attempts'[i]) = la /\ attempts'[i] = attempts[i]
  OBVIOUS
<1>5. \A k \in 1 .. lh : h[k] <= clock'
  <2> HIDE DEF h, lh
  <2> QED
    BY <1>1, <1>2
<1>6. \A k \in 1 .. (lh - la) : h[k] < clock' - Window
  <2> HIDE DEF h, lh, la
  <2> SUFFICES ASSUME NEW k \in 1 .. (lh - la) PROVE h[k] < clock' - Window
    OBVIOUS
  <2>1. k \in 1 .. lh
    BY <1>1, <1>2
  <2>2. h[k] \in Int /\ h[k] < clock - Window
    BY <1>1, <1>2, <2>1
  <2> QED
    BY <1>3, <2>2
<1> QED
  BY <1>2, <1>4, <1>5, <1>6 DEF HistoryAt, QueueIsTail, Dropped, Sorted

(* An attempt that stays under the threshold joins queue and history.      *)
LEMMA HRecordBelowInv ==
  ASSUME HInv, NEW ip \in IPs, NEW t \in Times, HRecordBelow(ip, t)
  PROVE  HInv'
<1> DEFINE e == Extended(ip, t)
           h == history[ip]
           d == Len(h) + 1 - Len(e)
<1>1. /\ attempts' = [attempts EXCEPT ![ip] = e]
      /\ history' = [history EXCEPT ![ip] = Append(h, t)]
      /\ published = NoEvent /\ published' = NoEvent
      /\ clock' = t /\ t >= clock
  BY DEF HRecordBelow, RecordBelow
<1>2. Inv'
  BY RecordBelowInv DEF HInv, HRecordBelow
<1>3. /\ e \in Seq(Times)
      /\ d \in Nat
      /\ \A k \in 1 .. d : h[k] < t - Window
      /\ \A k \in 1 .. Len(e) : e[k] = Append(h, t)[d + k]
  BY <1>1, ExtendedCountsWindow
<1>4. /\ attempts \in [IPs -> Seq(Times)]
      /\ history \in [IPs -> Seq(Times)]
      /\ Times \subseteq Int /\ Window \in Nat /\ clock \in Int /\ t \in Int
  BY DetectorAssumption DEF HInv, Inv, TypeOK
<1> HIDE DEF e
<1>5. history' \in [IPs -> Seq(Times)]
  BY <1>1, <1>4
<1>6. HistoryOK'
  <2> SUFFICES ASSUME NEW i \in IPs PROVE HistoryAt(i)'
    BY DEF HistoryOK
  <2>1. CASE i # ip
    <3>1. history'[i] = history[i] /\ attempts'[i] = attempts[i]
      BY <1>1, <1>4, <2>1
    <3> QED
      BY <1>1, <1>4, <3>1, OtherAddressKept
  <2>2. CASE i = ip
    <3>1. history'[i] = Append(h, t) /\ attempts'[i] = e
      BY <1>1, <1>4, <2>2
    <3>2. /\ h = history[ip] /\ Append(h, t) \in Seq(Times)
          /\ Len(Append(h, t)) = Len(h) + 1
          /\ \A k \in 1 .. Len(h) : Append(h, t)[k] = h[k]
          /\ Append(h, t)[Len(h) + 1] = t
      BY <1>4
    <3>2a. /\ Len(h) \in Nat
          /\ \A k \in 1 .. Len(h) : h[k] \in Int /\ h[k] <= clock
          /\ Sorted(h)
      <4>1. \A k \in 1 .. Len(h) : h[k] \in Times
        BY <1>4
      <4>2. Len(h) \in Nat
        BY <1>4
      <4> QED
        BY <1>4, <4>1, <4>2 DEF HInv, HistoryOK, HistoryAt
    <3> HIDE DEF h
    <3>3. \A k \in 1 .. Len(h) + 1 : Append(h, t)[k] <= t /\ Append(h, t)[k] \in Int
      BY <1>1, <1>4, <3>2, <3>2a
    <3>4. Sorted(Append(h, t))
      BY <1>4, <3>2, <3>3, <3>2a DEF Sorted
    <3>5. QueueIsTail(i)'
      <4>1. Dropped(i)' = d /\ Len(e) \in Nat
        BY <1>3, <3>1, <3>2, <3>2a DEF Dropped
      <4>2. d <= Len(h)
        <5>1. Len(e) > 0
          BY <1>3, ExtendedNotEmpty, <1>4 DEF e
        <5> QED
          BY <3>2a, <4>1, <5>1
      <4> HIDE DEF d
      <4>3. \A k \in 1 .. d : Append(h, t)[k] < t - Window
        BY <1>3, <3>2, <3>2a, <4>2
      <4> QED
        BY <1>1, <1>3, <3>1, <4>1, <4>3 DEF QueueIsTail
    <3> QED
      BY <1>1, <3>1, <3>2, <3>3, <3>4, <3>5 DEF HistoryAt, Sorted
  <2> QED
    BY <2>1, <2>2
<1>7. BreachWithinWindow'
  BY <1>1 DEF BreachWithinWindow
<1> QED
  BY <1>2, <1>5, <1>6, <1>7 DEF HInv

(* A breach: its queue is the window, and its history starts afresh.       *)
LEMMA HRecordBreachInv ==
  ASSUME HInv, NEW ip \in IPs, NEW t \in Times, HRecordBreach(ip, t)
  PROVE  HInv'
<1> DEFINE e == Extended(ip, t)
<1>1. /\ attempts' = [attempts EXCEPT ![ip] = e]
      /\ history' = [history EXCEPT ![ip] = <<>>]
      /\ published = NoEvent
      /\ published' = [ip |-> ip, attempt_count |-> Len(e), timestamp |-> t]
      /\ clock' = t /\ t >= clock
  BY DEF HRecordBreach, RecordBreach
<1>2. Inv'
  BY RecordBreachInv DEF HInv, HRecordBreach
<1>3. \A k \in 1 .. Len(e) : e[k] \in (t - Window) .. t
  BY <1>1, ExtendedCountsWindow
<1>4. /\ attempts \in [IPs -> Seq(Times)]
      /\ history \in [IPs -> Seq(Times)]
      /\ Times \subseteq Int /\ clock \in Int /\ t \in Int
  BY DetectorAssumption DEF HInv, Inv, TypeOK
<1>5. published'.ip = ip /\ published'.timestamp = t /\ published' # NoEvent
  BY <1>1, <1>2, NoEventAssumption DEF Inv, BreachAtThreshold, TypeOK, Event
<1> HIDE DEF e
<1>6. history' \in [IPs -> Seq(Times)]
  BY <1>1, <1>4
<1>7. HistoryOK'
  <2> SUFFICES ASSUME NEW i \in IPs PROVE HistoryAt(i)'
    BY DEF HistoryOK
  <2>1. CASE i # ip
    <3>1. history'[i] = history[i] /\ attempts'[i] = attempts[i]
      BY <1>1, <1>4, <2>1
    <3> QED
      BY <1>1, <1>4, <1>5, <2>1, <3>1, OtherAddressKept
  <2>2. CASE i = ip
    <3>1. history'[i] = <<>>
      BY <1>1, <1>4, <2>2
    <3> QED
      BY <1>5, <2>2, <3>1 DEF HistoryAt, Sorted
  <2> QED
    BY <2>1, <2>2
<1>8. BreachWithinWindow'
  <2>1. attempts'[ip] = e
    BY <1>1, <1>4
  <2> QED
    BY <1>3, <1>5, <2>1 DEF BreachWithinWindow
<1> QED
  BY <1>2, <1>6, <1>7, <1>8 DEF HInv

\* A handler neither reads nor writes the queues.
LEMMA HDeliverInv ==
  ASSUME HInv, NEW outcome \in Outcomes, HDeliver(outcome)
  PROVE  HInv'
<1>1. Inv'
  BY DeliverInv DEF HInv, HDeliver
<1> QED
  BY <1>1 DEF HInv, HDeliver, Deliver, HistoryOK, HistoryAt, QueueIsTail,
              Dropped, BreachWithinWindow

(* The queue is cleared: queue and history of the address are both empty.  *)
LEMMA HResetCounterInv ==
  ASSUME HInv, HResetCounter
  PROVE  HInv'
<1>1. Inv'
  BY ResetCounterInv DEF HInv, HResetCounter
<1>2. /\ published # NoEvent /\ published' = NoEvent
      /\ attempts' = [attempts EXCEPT ![published.ip] = <<>>]
      /\ clock' = clock /\ history' = history
  BY DEF HResetCounter, ResetCounter
<1>3. /\ attempts \in [IPs -> Seq(Times)] /\ history \in [IPs -> Seq(Times)]
      /\ clock \in Int
  BY DetectorAssumption DEF HInv, Inv, TypeOK
<1>4. HistoryOK'
  <2> SUFFICES ASSUME NEW i \in IPs PROVE HistoryAt(i)'
    BY DEF HistoryOK
  <2>1. CASE i # published.ip
    <3>1. attempts'[i] = attempts[i]
      BY <1>2, <1>3, <2>1
    <3> QED
      BY <1>2, <1>3, <2>1, <3>1, OtherAddressKept
  <2>2. CASE i = published.ip
    <3>1. attempts'[i] = <<>> /\ history[i] = <<>>
      BY <1>2, <1>3, <2>2 DEF HInv, HistoryOK, HistoryAt
    <3> QED
      BY <1>2, <3>1 DEF HistoryAt, QueueIsTail, Dropped, Sorted
  <2> QED
    BY <2>1, <2>2
<1>5. BreachWithinWindow'
  BY <1>2 DEF BreachWithinWindow
<1> QED
  BY <1>1, <1>2, <1>4, <1>5 DEF HInv

\* The agreement of queues and history is kept by every step.
LEMMA HNextInv == HInv /\ [HNext]_hvars => HInv'
<1> SUFFICES ASSUME HInv, [HNext]_hvars PROVE HInv'
  OBVIOUS
<1>1. ASSUME NEW ip \in IPs, NEW t \in Times, HRecordBelow(ip, t) PROVE HInv'
  BY <1>1, HRecordBelowInv
<1>2. ASSUME NEW ip \in IPs, NEW t \in Times, HRecordBreach(ip, t) PROVE HInv'
  BY <1>2, HRecordBreachInv
<1>3. ASSUME NEW outcome \in Outcomes, HDeliver(outcome) PROVE HInv'
  BY <1>3, HDeliverInv
<1>4. ASSUME HResetCounter PROVE HInv'
  BY <1>4, HResetCounterInv
<1>5. ASSUME UNCHANGED hvars PROVE HInv'
  BY <1>5 DEF hvars, HInv, Inv, TypeOK, BreachAtThreshold, DispatchOrder,
              HistoryOK, HistoryAt, QueueIsTail, Dropped, BreachWithinWindow
<1> QED
  BY <1>1, <1>2, <1>3, <1>4, <1>5 DEF HNext

\* Queues and history agree in every reachable state.
LEMMA HSpecInv == HSpec => []HInv
  BY HInitInv, HNextInv, PTL DEF HSpec

(* On a log whose timestamps do not go back, every attempt counted for a   *)
(* breach lies in the window that ends with the breach.                    *)
THEOREM BreachesWithinWindow == HSpec => []BreachWithinWindow
<1>1. HInv => BreachWithinWindow
  BY DEF HInv
<1> QED
  BY HSpecInv, <1>1, PTL

----------------------------------------------------------------------------

(* The instance of SlidingWindow counts with the same operator.            *)
LEMMA SameCardinality ==
  ASSUME NEW S PROVE SW!Cardinality(S) = Cardinality(S)
BY DEF SW!Cardinality, Cardinality

(* Each step of the detector is a step of the abstract sliding window, or  *)
(* changes nothing the abstract one can see.                               *)
LEMMA StepRefines == HInv /\ [HNext]_hvars => [SW!Next]_<<history, published>>
<1> SUFFICES ASSUME HInv, [HNext]_hvars
             PROVE  [SW!Next]_<<history, published>>
  OBVIOUS
<1>1. ASSUME NEW ip \in IPs, NEW t \in Times, HRecordBelow(ip, t)
      PROVE  SW!Attempt(ip, t)
  <2>1. published = NoEvent /\ t >= clock /\ Len(Extended(ip, t)) < Threshold
    BY <1>1 DEF HRecordBelow, RecordBelow
  <2>2. Len(Extended(ip, t)) = Cardinality(SW!Recent(ip, t)) + 1
    BY <2>1, ExtendedCountsWindow
  <2> QED
    BY <1>1, <2>1, <2>2, SameCardinality DEF HRecordBelow, RecordBelow, SW!Attempt
<1>2. ASSUME NEW ip \in IPs, NEW t \in Times, HRecordBreach(ip, t)
      PROVE  SW!Breach(ip, t)
  <2>1. published = NoEvent /\ t >= clock /\ Len(Extended(ip, t)) >= Threshold
    BY <1>2 DEF HRecordBreach, RecordBreach
  <2>2. Len(Extended(ip, t)) = Cardinality(SW!Recent(ip, t)) + 1
    BY <2>1, ExtendedCountsWindow
  <2> QED
    BY <1>2, <2>1, <2>2, SameCardinality DEF HRecordBreach, RecordBreach, SW!Breach
<1>3. ASSUME NEW outcome \in Outcomes, HDeliver(outcome)
      PROVE  UNCHANGED <<history, published>>
  BY <1>3 DEF HDeliver, Deliver
<1>4. ASSUME HResetCounter PROVE SW!Handled
  BY <1>4 DEF HResetCounter, ResetCounter, SW!Handled
<1>5. ASSUME UNCHANGED hvars PROVE UNCHANGED <<history, published>>
  BY <1>5 DEF hvars
<1> QED
  BY <1>1, <1>2, <1>3, <1>4, <1>5 DEF HNext, SW!Next

(* The detector with its pruned queues implements the sliding window that  *)
(* forgets nothing.                                                        *)
THEOREM DetectorRefinesSlidingWindow == HSpec => ImplementsSlidingWindow
<1>1. HInit => SW!Init
  BY DEF HInit, Init, SW!Init
<1> QED
  BY <1>1, HSpecInv, StepRefines, PTL DEF HSpec, ImplementsSlidingWindow, SW!Spec

----------------------------------------------------------------------------
(* Lines that report several attempts.                                     *)

(* Pruning a queue that was pruned at the same cutoff, and then got an     *)
(* attempt that is not stale, drops nothing.                               *)
LEMMA PruneAgainKeepsAll ==
  ASSUME NEW ip \in IPs, NEW t \in Times, attempts[ip] \in Seq(Times)
  PROVE  /\ Len(Prune(Extended(ip, t), t - Window)) = Len(Extended(ip, t))
         /\ Len(Extended(ip, t)) = Len(Prune(attempts[ip], t - Window)) + 1
         /\ Len(Prune(attempts[ip], t - Window)) \in Nat
<1> DEFINE q == attempts[ip]
           p == Prune(q, t - Window)
           e == Append(p, t)
<1>1. t \in Int /\ Window \in Nat /\ t - Window \in Int /\ Times \subseteq Int
  BY DetectorAssumption
<1>2. PICK n \in 0 .. Len(q) :
        /\ p \in Seq(Times)
        /\ Len(p) = Len(q) - n
        /\ \A k \in 1 .. Len(q) - n : p[k] = q[n + k]
        /\ n < Len(q) => q[n + 1] >= t - Window
  BY <1>1, PruneKeepsSuffix
<1>3. Len(q) \in Nat /\ Extended(ip, t) = e
  BY DEF Extended
<1> HIDE DEF q, p
<1>4. /\ e \in Seq(Times) /\ Len(e) = Len(p) + 1 /\ Len(p) \in Nat
      /\ \A k \in 1 .. Len(p) : e[k] = p[k]
      /\ e[Len(p) + 1] = t
  <2>1. p \in Seq(Times) /\ t \in Times
    BY <1>2
  <2>2. e \in Seq(Times) /\ Len(e) = Len(p) + 1 /\ Len(p) \in Nat
    BY <2>1
  <2>3. \A k \in 1 .. Len(p) : e[k] = p[k]
    BY <2>1
  <2>4. e[Len(p) + 1] = t
    BY <2>1
  <2> QED
    BY <2>2, <2>3, <2>4
<1> HIDE DEF e
<1>5. e[1] >= t - Window
  <2>1. CASE Len(p) = 0
    BY <1>1, <1>4, <2>1
  <2>2. CASE Len(p) # 0
    <3>1. /\ Len(p) \in Nat \ {0} /\ Len(q) \in Nat /\ n \in Nat
          /\ Len(p) = Len(q) - n
      BY <1>2, <1>3, <1>4, <2>2
    <3>2. 1 \in 1 .. Len(p) /\ 1 \in 1 .. Len(q) - n /\ n < Len(q)
      BY <3>1
    <3> QED
      BY <1>2, <1>4, <3>2
  <2> QED
    BY <2>1, <2>2
<1>6. PICK m \in 0 .. Len(e) :
        /\ Len(Prune(e, t - Window)) = Len(e) - m
        /\ \A k \in 1 .. m : e[k] < t - Window
  BY <1>1, <1>4, PruneKeepsSuffix
<1>7. m = 0
  <2>1. 1 \in 1 .. Len(e)
    BY <1>4
  <2>2. e[1] \in Times
    BY <1>4, <2>1, ElementOfSeq
  <2>3. SUFFICES ASSUME m # 0 PROVE FALSE
    OBVIOUS
  <2>4. 1 \in 1 .. m
    BY <1>6, <2>3
  <2>5. e[1] < t - Window
    BY <1>6, <2>4
  <2>6. e[1] \in Int /\ t - Window \in Int
    BY <1>1, <2>2
  <2> QED
    BY <1>5, <2>5, <2>6
<1> QED
  BY <1>3, <1>4, <1>6, <1>7 DEF p, q

\* A line counts at least once, and as often as it says: RepeatCount is a number.
LEMMA RepeatCountIsNumber ==
  ASSUME NEW line \in Line PROVE RepeatCount(line) \in Nat
<1> DEFINE n == line.repeated
<1>1. n \in Nat
  BY LogEntriesAssumption DEF Line
<1> HIDE DEF n
<1>2. \E x \in {1, n} : \A y \in {1, n} : x >= y
  BY <1>1
<1>3. Max({1, n}) \in {1, n}
  BY <1>2 DEF Max
<1> QED
  BY <1>1, <1>3 DEF RepeatCount, n

(* Attempts are recorded, and breaches handled, only while on_entry runs.  *)
(* While a breach that the line has raised is being handled, the attempts  *)
(* of the line so far are those of its breaches.                           *)
EntryInv ==
  /\ entry = NoEntry => published = NoEvent
  /\ entry # NoEntry => entry \in EntryRecord
  /\ RepeatsAccounted
  /\ entry # NoEntry /\ published # NoEvent =>
       /\ published.ip = entry.ip
       /\ entry.held + (entry.count - entry.left) = entry.fired * Threshold

LInv == Inv /\ EntryInv

(* A line begins: none of its attempts is recorded yet.                    *)
LEMMA EntryBeginsInv ==
  ASSUME LInv, NEW line \in Line, NEW t \in Times, Entry(line, t)
  PROVE  LInv'
<1> DEFINE p == Prune(attempts[line.ip], t - Window)
           c == RepeatCount(line)
<1>1. line.ip \in IPs
  BY DEF Entry, HasAddress, Line
<1>2. attempts[line.ip] \in Seq(Times)
  BY <1>1 DEF LInv, Inv, TypeOK
<1>3. c \in Nat /\ Len(p) \in Nat
  BY <1>1, <1>2, PruneAgainKeepsAll, RepeatCountIsNumber
<1>4. /\ attempts' = attempts /\ published' = published /\ pending' = pending
      /\ heard' = heard /\ clock' = clock /\ published = NoEvent
      /\ entry' = [ip |-> line.ip, timestamp |-> t, count |-> c, left |-> c,
                   held |-> Len(p), fired |-> 0]
  BY DEF Entry, hvars, LInv, EntryInv
<1>5. Inv'
  BY <1>4 DEF LInv, Inv, TypeOK, BreachAtThreshold, DispatchOrder
<1> HIDE DEF c
<1>6. entry' \in EntryRecord
  BY <1>1, <1>3, <1>4 DEF EntryRecord
<1>7. RepeatsAccounted'
  <2>1. /\ entry'.held = Len(p) /\ entry'.count = c /\ entry'.left = c
        /\ entry'.fired = 0 /\ entry'.ip = line.ip /\ entry'.timestamp = t
    BY <1>4
  <2>2. Len(Prune(attempts'[entry'.ip], entry'.timestamp - Window)) = Len(p)
    BY <1>4, <2>1
  <2> QED
    BY <1>3, <2>1, <2>2, DetectorAssumption DEF RepeatsAccounted
<1> QED
  BY <1>4, <1>5, <1>6, <1>7 DEF LInv, EntryInv

(* An attempt of the line that stays under the threshold joins the queue.  *)
LEMMA RepeatBelowInv ==
  ASSUME LInv, entry # NoEntry, entry.left > 0,
         RecordBelow(entry.ip, entry.timestamp),
         entry' = [entry EXCEPT !.left = @ - 1]
  PROVE  LInv'
<1> DEFINE ip == entry.ip
           t == entry.timestamp
           n == Len(Prune(attempts[ip], t - Window))
           e == Extended(ip, t)
<1>1. entry \in EntryRecord /\ ip \in IPs /\ t \in Times
  BY DEF LInv, EntryInv, EntryRecord
<1>2. attempts[ip] \in Seq(Times) /\ attempts \in [IPs -> Seq(Times)]
  BY <1>1 DEF LInv, Inv, TypeOK
<1>3. /\ n \in Nat
      /\ Len(Prune(e, t - Window)) = n + 1
  BY <1>1, <1>2, PruneAgainKeepsAll
<1>4. Inv'
  BY <1>1, RecordBelowInv DEF LInv
<1>5. /\ published = NoEvent /\ published' = NoEvent
      /\ attempts' = [attempts EXCEPT ![ip] = e]
  BY DEF RecordBelow
<1>6. entry.held + (entry.count - entry.left) = entry.fired * Threshold + n
  BY <1>5 DEF LInv, EntryInv, RepeatsAccounted
<1>7. entry' \in EntryRecord
  BY <1>1 DEF EntryRecord
<1>8. /\ entry'.ip = ip /\ entry'.timestamp = t /\ entry'.held = entry.held
      /\ entry'.count = entry.count /\ entry'.fired = entry.fired
      /\ entry'.left = entry.left - 1
  BY <1>1 DEF EntryRecord
<1>9. Len(Prune(attempts'[entry'.ip], entry'.timestamp - Window)) = n + 1
  <2>1. attempts'[ip] = e
    BY <1>1, <1>2, <1>5
  <2> QED
    BY <1>3, <1>8, <2>1
<1> HIDE DEF ip, t, n, e
<1>10. entry'.held + (entry'.count - entry'.left) = entry'.fired * Threshold + (n + 1)
  <2> DEFINE used == entry.fired * Threshold
  <2>1. /\ entry.held \in Nat /\ entry.count \in Nat /\ entry.left \in Nat
        /\ used \in Nat /\ entry'.fired * Threshold = used
    BY <1>1, <1>8, DetectorAssumption DEF EntryRecord
  <2>2. entry.held + (entry.count - entry.left) = used + n
    BY <1>6
  <2> HIDE DEF used
  <2>3. entry.held + (entry.count - (entry.left - 1)) = used + (n + 1)
    BY <1>3, <2>1, <2>2
  <2> QED
    BY <1>8, <2>1, <2>3
<1> QED
  BY <1>4, <1>5, <1>7, <1>9, <1>10 DEF LInv, EntryInv, RepeatsAccounted

(* An attempt of the line that is a breach uses up the whole queue.        *)
LEMMA RepeatBreachInv ==
  ASSUME LInv, entry # NoEntry, entry.left > 0,
         RecordBreach(entry.ip, entry.timestamp),
         entry' = [entry EXCEPT !.left = @ - 1, !.fired = @ + 1]
  PROVE  LInv'
<1> DEFINE ip == entry.ip
           t == entry.timestamp
           n == Len(Prune(attempts[ip], t - Window))
<1>1. entry \in EntryRecord /\ ip \in IPs /\ t \in Times
  BY DEF LInv, EntryInv, EntryRecord
<1>2. attempts[ip] \in Seq(Times)
  BY <1>1 DEF LInv, Inv, TypeOK
<1>3. n \in Nat /\ n + 1 = Threshold
  <2>1. Len(Extended(ip, t)) = n + 1 /\ n \in Nat
    BY <1>1, <1>2, PruneAgainKeepsAll
  <2>2. Len(Extended(ip, t)) = Threshold
    BY <1>1, RecordBreachInv DEF LInv
  <2> QED
    BY <2>1, <2>2
<1>4. Inv'
  BY <1>1, RecordBreachInv DEF LInv
<1>5. /\ published = NoEvent
      /\ published' = [ip |-> ip, attempt_count |-> Len(Extended(ip, t)),
                       timestamp |-> t]
  BY DEF RecordBreach
<1>6. published'.ip = ip /\ published' # NoEvent
  <2>1. attempts'[ip] \in Seq(Times) /\ attempts'[ip] = Extended(ip, t)
    BY <1>1, <1>4 DEF Inv, TypeOK, RecordBreach, LInv
  <2>2. published' \in Event
    BY <1>1, <1>5, <2>1 DEF Event
  <2> QED
    BY <1>5, <2>2, NoEventAssumption
<1>7. entry.held + (entry.count - entry.left) = entry.fired * Threshold + n
  BY <1>5 DEF LInv, EntryInv, RepeatsAccounted
<1>8. entry' \in EntryRecord
  <2>1. /\ entry.left \in Nat /\ entry.left - 1 \in Nat
        /\ entry.fired \in Nat /\ entry.fired + 1 \in Nat
    BY <1>1 DEF EntryRecord
  <2>2. [entry EXCEPT !.left = entry.left - 1] \in EntryRecord
    BY <1>1, <2>1 DEF EntryRecord
  <2> QED
    BY <2>1, <2>2 DEF EntryRecord
<1>9. /\ entry'.ip = ip /\ entry'.held = entry.held
      /\ entry'.count = entry.count /\ entry'.fired = entry.fired + 1
      /\ entry'.left = entry.left - 1
  BY <1>1 DEF EntryRecord
<1> HIDE DEF ip, t, n
<1>10. entry'.held + (entry'.count - entry'.left) = entry'.fired * Threshold
  <2> DEFINE used == entry.fired * Threshold
  <2>1. /\ entry.held \in Nat /\ entry.count \in Nat /\ entry.left \in Nat
        /\ entry.fired \in Nat /\ used \in Nat
    BY <1>1, DetectorAssumption DEF EntryRecord
  <2>2. entry'.fired * Threshold = used + Threshold
    BY <1>9, <2>1, DetectorAssumption
  <2>3. entry.held + (entry.count - entry.left) = used + n
    BY <1>7
  <2> HIDE DEF used
  <2>4. entry.held + (entry.count - (entry.left - 1)) = used + Threshold
    BY <1>3, <2>1, <2>3
  <2> QED
    BY <1>9, <2>2, <2>4
<1>11. EntryInv'
  <2>1. entry' # NoEntry => entry' \in EntryRecord
    BY <1>8
  <2>2. published'.ip = entry'.ip
    BY <1>6, <1>9
  <2>3. entry' # NoEntry
    BY <1>8, LogEntriesAssumption
  <2> QED
    BY <1>6, <1>10, <2>1, <2>2, <2>3 DEF EntryInv, RepeatsAccounted
<1> QED
  BY <1>4, <1>11 DEF LInv

(* The breach has been handled: the queue of the line's address is empty.  *)
LEMMA RepeatResetInv ==
  ASSUME LInv, ResetCounter, entry' = entry
  PROVE  LInv'
<1>1. /\ published # NoEvent /\ published' = NoEvent
      /\ attempts' = [attempts EXCEPT ![published.ip] = <<>>]
  BY DEF ResetCounter
<1>2. Inv'
  BY ResetCounterInv DEF LInv
<1>3. /\ entry # NoEntry /\ entry \in EntryRecord /\ published.ip = entry.ip
      /\ entry.held + (entry.count - entry.left) = entry.fired * Threshold
  BY <1>1 DEF LInv, EntryInv
<1>4. attempts'[entry.ip] = <<>>
  BY <1>1, <1>3 DEF LInv, Inv, TypeOK, EntryRecord
<1>5. /\ entry.timestamp \in Times /\ entry.timestamp - Window \in Int
      /\ entry.fired * Threshold \in Nat
  <2>1. entry.timestamp \in Times /\ entry.fired \in Nat
    BY <1>3 DEF EntryRecord
  <2>2. entry.timestamp \in Int /\ Window \in Nat /\ Threshold \in Nat
    BY <2>1, DetectorAssumption
  <2> QED
    BY <2>1, <2>2
<1>6. Len(Prune(<<>>, entry.timestamp - Window)) = 0
  <2>1. <<>> \in Seq(Times) /\ Len(<<>>) = 0
    OBVIOUS
  <2>2. PICK n \in 0 .. Len(<<>>) :
          Len(Prune(<<>>, entry.timestamp - Window)) = Len(<<>>) - n
    BY <1>5, <2>1, PruneKeepsSuffix
  <2> QED
    BY <2>1, <2>2
<1> QED
  BY <1>1, <1>2, <1>3, <1>4, <1>5, <1>6 DEF LInv, EntryInv, RepeatsAccounted

\* The accounting of a line's attempts is kept by every step.
LEMMA LNextInv == LInv /\ [LNext]_lvars => LInv'
<1> SUFFICES ASSUME LInv, [LNext]_lvars PROVE LInv'
  OBVIOUS
<1>1. ASSUME NEW line \in Line, NEW t \in Times, Entry(line, t) PROVE LInv'
  BY <1>1, EntryBeginsInv
<1>2. ASSUME RecordOne PROVE LInv'
  BY <1>2, RepeatBelowInv, RepeatBreachInv DEF RecordOne, HRecordBelow, HRecordBreach
<1>3. ASSUME NEW outcome \in Outcomes, Deliver(outcome), entry' = entry PROVE LInv'
  <2>1. Inv'
    BY <1>3, DeliverInv DEF LInv
  <2> QED
    BY <1>3, <2>1 DEF LInv, EntryInv, RepeatsAccounted, Deliver
<1>4. ASSUME ResetCounter, entry' = entry PROVE LInv'
  BY <1>4, RepeatResetInv
<1>5. ASSUME EntryDone PROVE LInv'
  BY <1>5 DEF EntryDone, hvars, LInv, EntryInv, RepeatsAccounted, Inv, TypeOK,
              BreachAtThreshold, DispatchOrder
<1>6. ASSUME UNCHANGED lvars PROVE LInv'
  BY <1>6 DEF lvars, LInv, EntryInv, RepeatsAccounted, Inv, TypeOK,
              BreachAtThreshold, DispatchOrder
<1> QED
  BY <1>1, <1>2, <1>3, <1>4, <1>5, <1>6 DEF LNext, HDeliver, HResetCounter

\* The accounting holds in every reachable state.
LEMMA LSpecInv == LSpec => []LInv
<1>1. LInit => LInv
  BY InitInv DEF LInit, HInit, Init, LInv, EntryInv, RepeatsAccounted
<1> QED
  BY <1>1, LNextInv, PTL DEF LSpec

(* However many attempts a line reports and however many breaches they     *)
(* raise, on_entry neither drops nor doubles one of them.                  *)
THEOREM RepeatsAllAccounted == LSpec => []RepeatsAccounted
<1>1. LInv => RepeatsAccounted
  BY DEF LInv, EntryInv
<1> QED
  BY LSpecInv, <1>1, PTL

(* on_entry with its repeated lines only makes calls of record_attempt     *)
(* whose timestamps do not go back: what is proved of the detector, the    *)
(* sliding window included, holds for lines that report several attempts.  *)
THEOREM EntriesDriveDetector == LSpec => HSpec
<1>1. LInit => HInit
  BY DEF LInit
<1>2. LInv /\ [LNext]_lvars => [HNext]_hvars
  <2> SUFFICES ASSUME LInv, [LNext]_lvars PROVE [HNext]_hvars
    OBVIOUS
  <2>1. CASE RecordOne
    <3>1. entry.ip \in IPs /\ entry.timestamp \in Times
      BY <2>1 DEF RecordOne, LInv, EntryInv, EntryRecord
    <3> QED
      BY <2>1, <3>1 DEF RecordOne, HNext
  <2>2. ASSUME NEW line \in Line, NEW t \in Times, Entry(line, t) PROVE UNCHANGED hvars
    BY <2>2 DEF Entry
  <2>3. CASE EntryDone
    BY <2>3 DEF EntryDone
  <2>4. CASE UNCHANGED lvars
    BY <2>4 DEF lvars, hvars
  <2> QED
    BY <2>1, <2>2, <2>3, <2>4 DEF LNext, HNext
<1> QED
  BY <1>1, <1>2, LSpecInv, PTL DEF LSpec, HSpec
=============================================================================
