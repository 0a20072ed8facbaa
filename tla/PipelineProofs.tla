--------------------------- MODULE PipelineProofs ---------------------------
(***************************************************************************)
(* From the log file to the breach, for logs, pipes, chunks, replays and   *)
(* numbers of failures of every size.                                      *)
(*                                                                         *)
(* First the stream alone: Flow says which line is where, and no line of   *)
(* one run is lost or overtaken.  Then the stream feeds the detector: the  *)
(* queue of an address holds exactly its recent lines (QueueIsRecent), so  *)
(* a breach counts different lines, and the whole implements LogWatch.     *)
(***************************************************************************)
EXTENDS Pipeline, FiniteSetTheorems, SequenceTheorems, TLAPS

(* Line numbers that follow each other.                                    *)
Consecutive(lines, from) == \A k \in 1 .. Len(lines) : lines[k] = from + k - 1

(* Where the lines of this run are: handled, then buffered, then piped.    *)
Flow ==
  /\ Consecutive(handled, first)
  /\ Consecutive(buffer, first + Len(handled))
  /\ Consecutive(pipe, first + Len(handled) + Len(buffer))
  /\ next = first + Len(handled) + Len(buffer) + Len(pipe)

TailInv ==
  /\ TypeOK
  /\ pc # "down" => Flow

\* The types, without the quantities that no step of the stream relates.
LEMMA TypeFacts ==
  ASSUME TypeOK
  PROVE  /\ written \in Nat /\ first \in Nat /\ next \in Nat
         /\ first >= 1 /\ next >= first /\ next <= written + 1
         /\ written <= MaxLines /\ first <= MaxLines + 1
         /\ pipe \in Seq(Int) /\ buffer \in Seq(Int) /\ handled \in Seq(Int)
         /\ Len(pipe) \in Nat /\ Len(buffer) \in Nat /\ Len(handled) \in Nat
<1>1. /\ written \in 0 .. MaxLines /\ first \in 1 .. MaxLines + 1 /\ next \in first .. written + 1
      /\ pipe \in Seq(1 .. written) /\ buffer \in Seq(1 .. written) /\ handled \in Seq(1 .. written)
      /\ MaxLines \in Nat
  BY LogTailAssumption DEF TypeOK
<1>2. pipe \in Seq(Int) /\ buffer \in Seq(Int) /\ handled \in Seq(Int)
  <2>1. 1 .. written \subseteq Int
    BY <1>1
  <2> QED
    BY <1>1, <2>1, SeqMonotonic
<1>3. Len(pipe) \in Nat /\ Len(buffer) \in Nat /\ Len(handled) \in Nat
  BY <1>1
<1> QED
  BY <1>1, <1>2, <1>3

\* Consecutive lines stay so when the next one is appended.
LEMMA AppendConsecutive ==
  ASSUME NEW s \in Seq(Int), NEW n \in Int, Consecutive(s, n)
  PROVE  Consecutive(Append(s, n + Len(s)), n)
<1>1. /\ Len(Append(s, n + Len(s))) = Len(s) + 1 /\ Len(s) \in Nat
      /\ \A k \in 1 .. Len(s) : Append(s, n + Len(s))[k] = s[k]
      /\ Append(s, n + Len(s))[Len(s) + 1] = n + Len(s)
  OBVIOUS
<1> SUFFICES ASSUME NEW k \in 1 .. Len(s) + 1
             PROVE  Append(s, n + Len(s))[k] = n + k - 1
  BY <1>1 DEF Consecutive
<1>2. CASE k \in 1 .. Len(s)
  BY <1>1, <1>2 DEF Consecutive
<1>3. CASE k = Len(s) + 1
  BY <1>1, <1>3
<1> QED
  BY <1>1, <1>2, <1>3

\* A part of consecutive lines is consecutive, from its own first line on.
LEMMA SubSeqConsecutive ==
  ASSUME NEW s \in Seq(Int), NEW n \in Int, Consecutive(s, n),
         NEW a \in 1 .. Len(s) + 1, NEW b \in a - 1 .. Len(s)
  PROVE  /\ SubSeq(s, a, b) \in Seq(Int)
         /\ Len(SubSeq(s, a, b)) = b - a + 1
         /\ Consecutive(SubSeq(s, a, b), n + a - 1)
<1>1. \A k \in a .. b : s[k] \in Int
  BY ElementOfSeq, LenProperties
<1>2. /\ SubSeq(s, a, b) \in Seq(Int)
      /\ Len(SubSeq(s, a, b)) = IF a <= b THEN b - a + 1 ELSE 0
      /\ \A k \in 1 .. b - a + 1 : SubSeq(s, a, b)[k] = s[a + k - 1]
  <2>1. a \in Int /\ b \in Int
    BY LenProperties
  <2> QED
    BY <1>1, <2>1, SubSeqProperties
<1>3. Len(SubSeq(s, a, b)) = b - a + 1
  BY <1>2, LenProperties
<1>4. ASSUME NEW k \in 1 .. b - a + 1 PROVE SubSeq(s, a, b)[k] = (n + a - 1) + k - 1
  <2>1. a + k - 1 \in 1 .. Len(s)
    BY LenProperties
  <2>2. s[a + k - 1] = n + (a + k - 1) - 1
    BY <2>1 DEF Consecutive
  <2> QED
    BY <1>2, <2>2
<1> QED
  BY <1>2, <1>3, <1>4 DEF Consecutive

----------------------------------------------------------------------------
(* The steps of the stream.                                                *)

\* A worker that starts has read nothing; its first line is at most the next one written.
LEMMA StartInv ==
  ASSUME TailInv, Start PROVE TailInv'
<1>1. /\ written' = written /\ stop' = stop /\ failures' = failures
      /\ pc' = "check" /\ tail' = "running"
      /\ first' = (IF written > Replay THEN written - Replay + 1 ELSE 1)
      /\ next' = first'
      /\ pipe' = <<>> /\ buffer' = <<>> /\ handled' = <<>>
  BY DEF Start
<1>2. first' \in 1 .. MaxLines + 1 /\ first' <= written + 1 /\ written \in 0 .. MaxLines
  BY <1>1, LogTailAssumption DEF TailInv, TypeOK
<1>3. TypeOK'
  BY <1>1, <1>2, LogTailAssumption DEF TailInv, TypeOK
<1>4. Flow'
  BY <1>1, <1>2 DEF Flow, Consecutive
<1> QED
  BY <1>3, <1>4 DEF TailInv

\* tail takes the next line of the log and puts it behind the others.
LEMMA TailCopiesInv ==
  ASSUME TailInv, TailCopies PROVE TailInv'
<1>1. /\ written' = written /\ first' = first /\ tail' = tail /\ buffer' = buffer
      /\ handled' = handled /\ pc' = pc /\ stop' = stop /\ failures' = failures
      /\ next <= written /\ Len(pipe) < PipeLines
      /\ pipe' = Append(pipe, next) /\ next' = next + 1
  BY DEF TailCopies
<1>2. TypeOK
  BY DEF TailInv
<1>3. next \in 1 .. written /\ next' \in first .. written + 1
  BY <1>1, <1>2, TypeFacts
<1>4. /\ Append(pipe, next) \in Seq(1 .. written)
      /\ Len(Append(pipe, next)) = Len(pipe) + 1
      /\ Len(pipe) \in Nat
  <2>1. pipe \in Seq(1 .. written)
    BY <1>2 DEF TypeOK
  <2> QED
    BY <1>3, <2>1
<1>5. TypeOK'
  BY <1>1, <1>2, <1>3, <1>4, LogTailAssumption DEF TypeOK
<1>6. ASSUME pc # "down" PROVE Flow'
  <2>1. Flow
    BY <1>6 DEF TailInv
  <2> DEFINE from == first + Len(handled) + Len(buffer)
  <2>2. from \in Int /\ next = from + Len(pipe) /\ Consecutive(pipe, from) /\ pipe \in Seq(Int)
    BY <1>2, <2>1, TypeFacts DEF Flow
  <2>3. Len(pipe') = Len(pipe) + 1
    BY <1>1, <1>4
  <2> HIDE DEF from
  <2>4. Consecutive(pipe', from)
    BY <1>1, <2>2, AppendConsecutive
  <2>5. next' = from + Len(pipe')
    BY <1>1, <1>4, <2>2, <2>3
  <2> QED
    BY <1>1, <2>1, <2>4, <2>5 DEF Flow, from
<1> QED
  BY <1>1, <1>5, <1>6 DEF TailInv

(* What readline takes: the first line not handled yet, or none.           *)
LEMMA ReadLineTakesNext ==
  ASSUME TailInv, ReadLine
  PROVE  /\ TailInv'
         /\ \/ handled' = handled
            \/ /\ handled' = Append(handled, first + Len(handled))
               /\ first + Len(handled) \in 1 .. written
<1>1. /\ pc = "read" /\ pc' = "check"
      /\ written' = written /\ first' = first /\ next' = next /\ tail' = tail
      /\ stop' = stop /\ failures' = failures
  BY DEF ReadLine
<1>2. TypeOK /\ Flow
  BY <1>1 DEF TailInv
<1> DEFINE h == first + Len(handled)
<1>3. /\ pipe \in Seq(1 .. written) /\ buffer \in Seq(1 .. written)
      /\ handled \in Seq(1 .. written)
      /\ Len(pipe) \in Nat /\ Len(buffer) \in Nat /\ Len(handled) \in Nat
      /\ Len(pipe) <= PipeLines /\ Len(buffer) < ChunkLines
      /\ PipeLines \in Nat \ {0} /\ ChunkLines \in Nat \ {0}
  BY <1>2, LogTailAssumption DEF TypeOK
<1>4. /\ pipe \in Seq(Int) /\ buffer \in Seq(Int) /\ handled \in Seq(Int)
      /\ first \in Nat /\ h \in Int
  BY <1>2, TypeFacts
<1>5. /\ Consecutive(handled, first) /\ Consecutive(buffer, h)
      /\ Consecutive(pipe, h + Len(buffer))
      /\ next = h + Len(buffer) + Len(pipe)
  BY <1>2 DEF Flow
<1>6. ASSUME h \in 1 .. written, handled' = Append(handled, h),
             buffer' \in Seq(1 .. written), pipe' \in Seq(1 .. written),
             Len(buffer') < ChunkLines, Len(pipe') <= PipeLines,
             Consecutive(buffer', h + 1), Consecutive(pipe', h + 1 + Len(buffer')),
             Len(buffer') + Len(pipe') + 1 = Len(buffer) + Len(pipe)
      PROVE  TailInv'
  <2>1. handled' \in Seq(1 .. written) /\ Len(handled') = Len(handled) + 1
    BY <1>3, <1>6
  <2>2. TypeOK'
    BY <1>1, <1>2, <1>6, <2>1 DEF TypeOK
  <2>3. Consecutive(handled', first)
    BY <1>4, <1>5, <1>6, AppendConsecutive
  <2>4. h + 1 = first + Len(handled')
    BY <1>3, <1>4, <2>1
  <2>5. Len(buffer') \in Nat /\ Len(pipe') \in Nat
    BY <1>6
  <2>6. next = h + 1 + Len(buffer') + Len(pipe')
    <3> HIDE DEF h
    <3>1. next = h + Len(buffer) + Len(pipe)
      BY <1>5
    <3>2. Len(buffer') + Len(pipe') + 1 = Len(buffer) + Len(pipe)
      BY <1>6
    <3>3. h \in Int /\ Len(buffer) \in Nat /\ Len(pipe) \in Nat
      BY <1>3, <1>4
    <3> QED
      BY <2>5, <3>1, <3>2, <3>3
  <2> HIDE DEF h
  <2>7. Flow'
    BY <1>1, <1>6, <2>3, <2>4, <2>6 DEF Flow
  <2> QED
    BY <2>2, <2>7 DEF TailInv
<1>7. CASE /\ buffer # <<>>
           /\ handled' = Append(handled, Head(buffer))
           /\ buffer' = Tail(buffer)
           /\ pipe' = pipe
  <2>1. /\ Head(buffer) \in 1 .. written
        /\ Tail(buffer) \in Seq(1 .. written) /\ Len(Tail(buffer)) = Len(buffer) - 1
        /\ Len(buffer) \in Nat \ {0} /\ Head(buffer) = buffer[1]
        /\ Tail(buffer) = SubSeq(buffer, 2, Len(buffer))
    <3>1. buffer \in Seq(1 .. written) /\ buffer # <<>>
      BY <1>3, <1>7
    <3>2. Len(buffer) \in Nat \ {0}
      BY <3>1, EmptySeq
    <3>3. /\ Head(buffer) \in 1 .. written /\ Tail(buffer) \in Seq(1 .. written)
          /\ Len(Tail(buffer)) = Len(buffer) - 1
      BY <3>1, HeadTailProperties
    <3>4. Tail(buffer) = SubSeq(buffer, 2, Len(buffer))
      BY <3>1, TailIsSubSeq
    <3>5. Head(buffer) = buffer[1]
      BY <3>1, <3>2
    <3> QED
      BY <3>2, <3>3, <3>4, <3>5
  <2>2. Head(buffer) = h
    <3>1. 1 \in 1 .. Len(buffer)
      BY <2>1
    <3>2. buffer[1] = h + 1 - 1
      BY <1>5, <3>1 DEF Consecutive
    <3> HIDE DEF h
    <3> QED
      BY <1>4, <2>1, <3>2
  <2>3. Consecutive(buffer', h + 1)
    <3>1. 2 \in 1 .. Len(buffer) + 1 /\ Len(buffer) \in 2 - 1 .. Len(buffer)
      BY <2>1
    <3>2. Consecutive(SubSeq(buffer, 2, Len(buffer)), h + 2 - 1)
      BY <1>4, <1>5, <3>1, SubSeqConsecutive
    <3>3. h + 2 - 1 = h + 1
      BY <1>4
    <3> QED
      BY <1>7, <2>1, <3>2, <3>3
  <2>4. Consecutive(pipe', h + 1 + Len(buffer'))
    <3>1. h + 1 + Len(buffer') = h + Len(buffer)
      <4> HIDE DEF h
      <4> QED
        BY <1>4, <1>7, <2>1
    <3> QED
      BY <1>5, <1>7, <3>1
  <2> HIDE DEF h
  <2>5. Len(buffer') + Len(pipe') + 1 = Len(buffer) + Len(pipe) /\ Len(buffer') < ChunkLines
    BY <1>3, <1>7, <2>1
  <2>6. TailInv'
    BY <1>3, <1>6, <1>7, <2>1, <2>2, <2>3, <2>4, <2>5
  <2> QED
    BY <1>7, <2>1, <2>2, <2>6 DEF h
<1>8. CASE /\ buffer = <<>> /\ pipe # <<>>
           /\ handled' = Append(handled, Head(pipe))
           /\ buffer' = SubSeq(pipe, 2, Chunk)
           /\ pipe' = SubSeq(pipe, Chunk + 1, Len(pipe))
  <2>1. Len(buffer) = 0 /\ Len(pipe) \in Nat \ {0} /\ Head(pipe) = pipe[1]
    <3>1. pipe \in Seq(1 .. written) /\ pipe # <<>>
      BY <1>3, <1>8
    <3>2. Len(buffer) = 0
      BY <1>8
    <3> QED
      BY <3>1, <3>2, EmptySeq
  <2>2. Chunk \in 1 .. Len(pipe) /\ Chunk <= ChunkLines
    BY <1>3, <2>1 DEF Chunk
  <2>3. h + Len(buffer) = h /\ Consecutive(pipe, h)
    <3> HIDE DEF h
    <3> QED
      BY <1>4, <1>5, <2>1
  <2>4. Head(pipe) = h /\ h \in 1 .. written
    <3>1. 1 \in 1 .. Len(pipe)
      BY <2>1
    <3>2. pipe[1] = h + 1 - 1 /\ pipe[1] \in 1 .. written
      BY <1>3, <2>3, <3>1, ElementOfSeq DEF Consecutive
    <3> HIDE DEF h
    <3> QED
      BY <1>4, <2>1, <3>2
  <2>5. /\ SubSeq(pipe, 2, Chunk) \in Seq(1 .. written)
        /\ SubSeq(pipe, Chunk + 1, Len(pipe)) \in Seq(1 .. written)
    <3>0. \A k \in 1 .. Len(pipe) : pipe[k] \in 1 .. written
      BY <1>3, ElementOfSeq
    <3> HIDE DEF Chunk
    <3>1. \A k \in 2 .. Chunk : pipe[k] \in 1 .. written
      BY <2>1, <2>2, <3>0
    <3>2. \A k \in Chunk + 1 .. Len(pipe) : pipe[k] \in 1 .. written
      BY <2>1, <2>2, <3>0
    <3>3. Chunk \in Int /\ Chunk + 1 \in Int /\ Len(pipe) \in Int
      BY <1>3, <2>2
    <3> QED
      BY <3>1, <3>2, <3>3, SubSeqProperties
  <2>6. /\ Len(buffer') = Chunk - 1 /\ Consecutive(buffer', h + 2 - 1)
        /\ Len(pipe') = Len(pipe) - Chunk /\ Consecutive(pipe', h + (Chunk + 1) - 1)
    <3>1. /\ 2 \in 1 .. Len(pipe) + 1 /\ Chunk \in 2 - 1 .. Len(pipe)
          /\ Chunk + 1 \in 1 .. Len(pipe) + 1 /\ Len(pipe) \in (Chunk + 1) - 1 .. Len(pipe)
          /\ Chunk - 2 + 1 = Chunk - 1 /\ Len(pipe) - (Chunk + 1) + 1 = Len(pipe) - Chunk
      BY <2>1, <2>2
    <3> HIDE DEF h
    <3> QED
      BY <1>4, <1>8, <2>3, <3>1, SubSeqConsecutive
  <2>7. /\ h + 2 - 1 = h + 1 /\ h + (Chunk + 1) - 1 = h + 1 + Len(buffer')
        /\ Len(buffer') + Len(pipe') + 1 = Len(buffer) + Len(pipe)
        /\ Len(buffer') < ChunkLines /\ Len(pipe') <= PipeLines
    <3> HIDE DEF h
    <3> QED
      BY <1>3, <1>4, <2>1, <2>2, <2>6
  <2> HIDE DEF h
  <2>8. TailInv'
    BY <1>6, <1>8, <2>4, <2>5, <2>6, <2>7
  <2> QED
    BY <1>8, <2>4, <2>8 DEF h
<1>9. CASE handled' = handled /\ buffer' = buffer /\ pipe' = pipe
  BY <1>1, <1>2, <1>9 DEF TailInv, TypeOK, Flow
<1> QED
  BY <1>7, <1>8, <1>9 DEF ReadLine

\* What a reader of the pipe leaves behind when the run ends.
LEMMA RunEndsInv ==
  ASSUME TailInv, Terminate \/ Crash PROVE TailInv'
<1>1. /\ pc' = "down" /\ tail' = "dead" /\ pipe' = <<>> /\ buffer' = <<>>
      /\ written' = written /\ first' = first /\ next' = next
      /\ handled' = handled /\ stop' = stop
      /\ failures' = failures \/ (failures < MaxFailures /\ failures' = failures + 1)
  BY DEF Terminate, Crash
<1>2. TypeOK'
  BY <1>1, LogTailAssumption DEF TailInv, TypeOK
<1> QED
  BY <1>1, <1>2 DEF TailInv

\* The log only grows, and the numbers in the pipe stay numbers of written lines.
LEMMA WriteLineInv ==
  ASSUME TailInv, WriteLine PROVE TailInv'
<1>1. /\ written < MaxLines /\ written' = written + 1
      /\ UNCHANGED <<first, next, pipe, buffer, handled, tail, pc, stop, failures>>
  BY DEF WriteLine, stream
<1>2. TypeOK
  BY DEF TailInv
<1>3. /\ written' \in 0 .. MaxLines /\ next \in first .. written' + 1
      /\ 1 .. written \subseteq 1 .. written'
  BY <1>1, <1>2, TypeFacts, LogTailAssumption
<1>4. /\ pipe \in Seq(1 .. written') /\ buffer \in Seq(1 .. written')
      /\ handled \in Seq(1 .. written')
  BY <1>2, <1>3, SeqMonotonic DEF TypeOK
<1>5. TypeOK'
  BY <1>1, <1>2, <1>3, <1>4 DEF TypeOK
<1> QED
  BY <1>1, <1>5 DEF TailInv, Flow

\* The steps that move no line.
LEMMA NoLineMovesInv ==
  ASSUME TailInv,
         Check \/ Select \/ Stop \/ TailDies \/ UNCHANGED vars
           \/ (pc = "read" /\ pc' = "terminate"
                 /\ UNCHANGED <<written, stream, tail, stop, failures>>)
  PROVE  TailInv'
<1>1. /\ UNCHANGED <<written, first, next, pipe, buffer, handled>>
      /\ pc' = pc \/ (pc # "down" /\ pc' \in {"check", "select", "read", "terminate"})
      /\ tail' = tail \/ tail' = "dead"
      /\ stop' = stop \/ stop' = TRUE
      /\ failures' = failures \/ (failures < MaxFailures /\ failures' = failures + 1)
  BY DEF Check, Select, Stop, TailDies, vars, stream
<1>2. TypeOK'
  <2>1. stop' \in BOOLEAN
    BY <1>1 DEF TailInv, TypeOK
  <2>2. failures' \in 0 .. MaxFailures
    BY <1>1, LogTailAssumption DEF TailInv, TypeOK
  <2>3. /\ pc' \in {"down", "check", "select", "read", "terminate"}
        /\ tail' \in {"running", "dead"}
    BY <1>1 DEF TailInv, TypeOK
  <2> QED
    BY <1>1, <2>1, <2>2, <2>3 DEF TailInv, TypeOK
<1> QED
  BY <1>1, <1>2 DEF TailInv, Flow

\* Every step of the stream keeps the lines in their places.
LEMMA TailNextInv == TailInv /\ [Next]_vars => TailInv'
<1> SUFFICES ASSUME TailInv, [Next]_vars PROVE TailInv'
  OBVIOUS
<1>1. CASE WriteLine
  BY <1>1, WriteLineInv
<1>2. CASE Start
  BY <1>2, StartInv
<1>3. CASE TailCopies
  BY <1>3, TailCopiesInv
<1>4. CASE ReadLine
  BY <1>4, ReadLineTakesNext
<1>5. CASE Terminate \/ Crash
  BY <1>5, RunEndsInv
<1>6. CASE Check \/ Select \/ Stop \/ TailDies \/ UNCHANGED vars
  BY <1>6, NoLineMovesInv
<1> QED
  BY <1>1, <1>2, <1>3, <1>4, <1>5, <1>6 DEF Next, Loop

\* Before the first start nothing runs and nothing is read.
LEMMA TailInitInv == Init => TailInv
<1> SUFFICES ASSUME Init PROVE TailInv
  OBVIOUS
<1>1. stop \in BOOLEAN
  BY DEF Init
<1>2. /\ written \in 0 .. MaxLines /\ first = 1 /\ next = 1
      /\ tail = "dead" /\ pc = "down" /\ pipe = <<>> /\ buffer = <<>> /\ handled = <<>>
      /\ failures = 0
  BY DEF Init
<1>3. TypeOK
  BY <1>1, <1>2, LogTailAssumption DEF TypeOK
<1> QED
  BY <1>2, <1>3 DEF TailInv

(* Flow says of each place what NothingLostOrReordered says of them all.   *)
LEMMA FlowGivesOrder == TailInv => NothingLostOrReordered
<1> SUFFICES ASSUME TailInv, pc # "down"
             PROVE  handled \o buffer \o pipe = Lines(first, next - 1)
  BY DEF NothingLostOrReordered
<1> DEFINE lh == Len(handled)
           lb == Len(buffer)
           lp == Len(pipe)
           hb == handled \o buffer
           hbp == hb \o pipe
           ll == Lines(first, next - 1)
           n == lh + lb + lp
<1>1. TypeOK /\ Flow
  BY DEF TailInv
<1>2. /\ handled \in Seq(Int) /\ buffer \in Seq(Int) /\ pipe \in Seq(Int)
      /\ lh \in Nat /\ lb \in Nat /\ lp \in Nat /\ first \in Nat
  BY <1>1, TypeFacts
<1>3. /\ \A k \in 1 .. lh : handled[k] = first + k - 1
      /\ \A k \in 1 .. lb : buffer[k] = first + lh + k - 1
      /\ \A k \in 1 .. lp : pipe[k] = first + lh + lb + k - 1
      /\ next = first + lh + lb + lp
  BY <1>1 DEF Flow, Consecutive
<1>4. /\ hb \in Seq(Int) /\ Len(hb) = lh + lb
      /\ \A k \in 1 .. lh + lb : hb[k] = IF k <= lh THEN handled[k] ELSE buffer[k - lh]
  BY <1>2, ConcatProperties
<1>5. /\ hbp \in Seq(Int) /\ Len(hbp) = Len(hb) + lp
      /\ \A k \in 1 .. Len(hb) + lp :
           hbp[k] = IF k <= Len(hb) THEN hb[k] ELSE pipe[k - Len(hb)]
  <2>1. hb \in Seq(Int) /\ pipe \in Seq(Int)
    BY <1>2, <1>4
  <2> HIDE DEF hb
  <2> QED
    BY <2>1, ConcatProperties
<1> HIDE DEF lh, lb, lp, hb, hbp
<1>6. n \in Nat /\ (next - 1) - first + 1 = n
  BY <1>2, <1>3
<1>7. ll = [k \in 1 .. n |-> first + k - 1]
  BY <1>6 DEF Lines
<1> HIDE DEF n, ll
<1>8. ll \in Seq(Int) /\ Len(ll) = n /\ \A k \in 1 .. n : ll[k] = first + k - 1
  <2>1. \A k \in 1 .. n : first + k - 1 \in Int
    BY <1>2, <1>6
  <2> QED
    BY <1>6, <1>7, <2>1
<1>9. ASSUME NEW k \in 1 .. n PROVE hbp[k] = first + k - 1
  <2>1. Len(hb) = lh + lb /\ n = lh + lb + lp
    BY <1>4 DEF n
  <2>2. CASE k \in 1 .. lh
    <3>1. k \in 1 .. lh + lb /\ k \in 1 .. Len(hb) + lp /\ k <= lh /\ k <= Len(hb)
      BY <1>2, <2>1, <2>2
    <3>2. hbp[k] = hb[k] /\ hb[k] = handled[k]
      BY <1>4, <1>5, <3>1
    <3> QED
      BY <1>3, <2>2, <3>2
  <2>3. CASE k \in lh + 1 .. lh + lb
    <3>0. /\ k \in 1 .. lh + lb /\ k \in 1 .. Len(hb) + lp
          /\ ~(k <= lh) /\ k <= Len(hb) /\ k - lh \in 1 .. lb
      BY <1>2, <2>1, <2>3
    <3>1. k - lh \in 1 .. lb /\ hb[k] = buffer[k - lh] /\ hbp[k] = hb[k]
      BY <1>4, <1>5, <3>0
    <3>2. buffer[k - lh] = first + lh + (k - lh) - 1
      BY <1>3, <3>1
    <3> QED
      BY <1>2, <3>1, <3>2
  <2>4. CASE k \in lh + lb + 1 .. n
    <3>1. k - (lh + lb) \in 1 .. lp /\ hbp[k] = pipe[k - (lh + lb)]
      BY <1>2, <1>4, <1>5, <2>1, <2>4
    <3>2. pipe[k - (lh + lb)] = first + lh + lb + (k - (lh + lb)) - 1
      BY <1>3, <3>1
    <3> QED
      BY <1>2, <3>1, <3>2
  <2> QED
    BY <1>2, <2>1, <2>2, <2>3, <2>4
<1>10. hbp = ll
  <2>1. Len(hbp) = n
    BY <1>4, <1>5 DEF n
  <2> QED
    BY <1>5, <1>8, <1>9, <2>1, SeqEqual
<1> QED
  BY <1>10 DEF hbp, hb, ll

(* However large chunks and pipes are and whenever tail is blocked, dies   *)
(* or the worker is restarted, the stream stays within its types.          *)
THEOREM LogTailTypeCorrect == Spec => []TypeOK
<1>1. TailInv => TypeOK
  BY DEF TailInv
<1> QED
  BY TailInitInv, TailNextInv, <1>1, PTL DEF Spec

(* However large chunks and pipes are and whenever tail is blocked, no     *)
(* line of one run is lost, repeated or overtaken on its way to the parser. *)
THEOREM LinesInOrder == Spec => []NothingLostOrReordered
BY TailInitInv, TailNextInv, FlowGivesOrder, PTL DEF Spec

----------------------------------------------------------------------------
(* The detector behind the stream.  D is the detector with the lines of    *)
(* the log as its timestamps, and what DetectorProofs proves of it.        *)

D == INSTANCE DetectorProofs WITH Times <- 1 .. MaxLines

\* The assumptions that DetectorProofs makes hold in the pipeline.
LEMMA DetectorGiven ==
  /\ NoEvent \notin D!Event
  /\ Threshold \in Nat \ {0}
  /\ Window \in Nat
  /\ 1 .. MaxLines \subseteq Int
  /\ Subscribers \in Seq(D!Handlers)
BY PipelineAssumption, LogTailAssumption
   DEF Detector!Event, D!Event, Detector!Handlers, D!Handlers

\* The operators of the two instances are the same.
LEMMA SameDetector ==
  ASSUME NEW ip, NEW t, NEW outcome
  PROVE  /\ Detector!Init <=> D!Init
         /\ Detector!RecordBelow(ip, t) <=> D!RecordBelow(ip, t)
         /\ Detector!RecordBreach(ip, t) <=> D!RecordBreach(ip, t)
         /\ Detector!Deliver(outcome) <=> D!Deliver(outcome)
         /\ Detector!ResetCounter <=> D!ResetCounter
         /\ Detector!Outcomes = D!Outcomes
<1>1. Detector!Extended(ip, t) = D!Extended(ip, t)
  BY DEF Detector!Extended, D!Extended, Detector!Prune, D!Prune,
         Detector!StalePrefix, D!StalePrefix, Detector!Cardinality, D!Cardinality
<1>2. Detector!RecordBelow(ip, t) <=> D!RecordBelow(ip, t)
  BY <1>1 DEF Detector!RecordBelow, D!RecordBelow
<1>3. Detector!RecordBreach(ip, t) <=> D!RecordBreach(ip, t)
  BY <1>1 DEF Detector!RecordBreach, D!RecordBreach
<1>4. Detector!Init <=> D!Init
  BY DEF Detector!Init, D!Init
<1>5. Detector!Deliver(outcome) <=> D!Deliver(outcome)
  BY DEF Detector!Deliver, D!Deliver
<1>6. Detector!ResetCounter <=> D!ResetCounter
  BY DEF Detector!ResetCounter, D!ResetCounter
<1>7. Detector!Outcomes = D!Outcomes
  BY DEF Detector!Outcomes, D!Outcomes
<1> QED
  BY <1>2, <1>3, <1>4, <1>5, <1>6, <1>7

Elements(queue) == {queue[k] : k \in 1 .. Len(queue)}

Increasing(queue) == \A j, k \in 1 .. Len(queue) : j < k => queue[j] < queue[k]

\* An increasing queue has as many different elements as entries.
LEMMA IncreasingCounts ==
  ASSUME NEW queue \in Seq(Int), Increasing(queue)
  PROVE  IsFiniteSet(Elements(queue)) /\ Cardinality(Elements(queue)) = Len(queue)
<1> DEFINE S == 1 .. Len(queue)
           T == Elements(queue)
           f == [k \in S |-> queue[k]]
<1>1. Len(queue) \in Nat /\ \A k \in S : queue[k] \in Int
  BY ElementOfSeq, LenProperties
<1>2. f \in Bijection(S, T)
  <2>1. f \in Injection(S, T)
    <3>1. f \in [S -> T]
      BY DEF Elements
    <3>2. ASSUME NEW j \in S, NEW k \in S, f[j] = f[k] PROVE j = k
      <4>1. queue[j] = queue[k] /\ queue[j] \in Int
        BY <1>1, <3>2
      <4>2. ~(j < k) /\ ~(k < j)
        BY <4>1 DEF Increasing
      <4> QED
        BY <1>1, <4>2
    <3> QED
      BY <3>1, <3>2 DEF Injection, IsInjective
  <2>2. f \in Surjection(S, T)
    BY DEF Surjection, Elements
  <2> QED
    BY <2>1, <2>2 DEF Bijection
<1>3. ExistsBijection(S, T)
  BY <1>2 DEF ExistsBijection
<1>4. IsFiniteSet(S) /\ Cardinality(S) = Len(queue)
  <2> DEFINE n == Len(queue)
  <2>1. n \in Nat
    BY <1>1
  <2> HIDE DEF n
  <2>2. IsFiniteSet(1 .. n) /\ Cardinality(1 .. n) = n
    BY <2>1, FS_Interval
  <2> QED
    BY <2>2 DEF n
<1> HIDE DEF S, T
<1>5. IsFiniteSet(T) /\ Cardinality(T) = Cardinality(S)
  BY <1>3, <1>4, FS_Bijection
<1> QED
  BY <1>4, <1>5 DEF T

----------------------------------------------------------------------------
(* What the queues hold.                                                   *)

(* The lines of ip handled since its last breach.                          *)
SeenLines(ip) ==
  {line \in first + mark[ip] .. first + Len(handled) - 1 : origin[line] = ip}

(* The queue of ip holds lines of ip, each once and in order; the lines of *)
(* ip it does not hold any more are older than the window of the latest    *)
(* line.                                                                   *)
QueueIsRecent(ip) ==
  /\ mark[ip] <= Len(handled)
  /\ Increasing(attempts[ip])
  /\ Elements(attempts[ip]) \subseteq SeenLines(ip)
  /\ \A line \in SeenLines(ip) \ Elements(attempts[ip]) :
       line < first + Len(handled) - 1 - Window

(* A worker that is down remembers nothing.  While a breach is handled the *)
(* loop does not move on, and the breach is about the latest line.         *)
Memory ==
  /\ origin \in Logs
  /\ mark \in [IPs -> Nat]
  /\ published # NoEvent =>
       pc = "check" /\ published.timestamp = first + Len(handled) - 1
  /\ IF pc = "down"
     THEN /\ published = NoEvent
          /\ attempts = [ip \in IPs |-> <<>>]
     ELSE \A ip \in IPs : QueueIsRecent(ip)

PipeInv == TailInv /\ D!Inv /\ Memory

\* The facts about numbers and sequences that the proofs below use.
LEMMA PipeFacts ==
  ASSUME PipeInv
  PROVE  /\ first \in Nat /\ first >= 1 /\ Len(handled) \in Nat /\ written \in Nat
         /\ written <= MaxLines /\ MaxLines \in Nat /\ Window \in Nat /\ Threshold \in Nat \ {0}
         /\ mark \in [IPs -> Nat]
         /\ attempts \in [IPs -> Seq(1 .. MaxLines)]
         /\ \A ip \in IPs : /\ attempts[ip] \in Seq(1 .. MaxLines)
                            /\ attempts[ip] \in Seq(Int)
                            /\ Len(attempts[ip]) \in Nat
<1>1. TypeOK
  BY DEF PipeInv, TailInv
<1>2. attempts \in [IPs -> Seq(1 .. MaxLines)] /\ mark \in [IPs -> Nat]
  BY DEF PipeInv, D!Inv, D!TypeOK, Memory
<1>3. ASSUME NEW ip \in IPs
      PROVE  /\ attempts[ip] \in Seq(1 .. MaxLines) /\ attempts[ip] \in Seq(Int)
             /\ Len(attempts[ip]) \in Nat
  <2>1. attempts[ip] \in Seq(1 .. MaxLines)
    BY <1>2
  <2>2. 1 .. MaxLines \subseteq Int
    BY DetectorGiven
  <2> QED
    BY <2>1, <2>2, SeqMonotonic, LenProperties
<1> QED
  BY <1>1, <1>2, <1>3, TypeFacts, PipelineAssumption, LogTailAssumption

(* The heart of the argument.  When the line t of ip is recorded, the      *)
(* queue that is left holds t and the lines of ip, since its last breach,  *)
(* in the window that ends with t: no more and no fewer, each once.        *)
LEMMA ExtendedIsWindow ==
  ASSUME PipeInv, pc # "down", NEW ip \in IPs, NEW t \in 1 .. written,
         t = first + Len(handled)
  PROVE  /\ D!Extended(ip, t) \in Seq(Int)
         /\ Increasing(D!Extended(ip, t))
         /\ Elements(D!Extended(ip, t)) = {line \in SeenLines(ip) : line >= t - Window} \cup {t}
<1> DEFINE q == attempts[ip]
           e == D!Extended(ip, t)
           seen == SeenLines(ip)
<1>1. /\ q \in Seq(1 .. MaxLines) /\ q \in Seq(Int) /\ Len(q) \in Nat
      /\ Window \in Nat /\ t \in 1 .. MaxLines /\ t \in Int /\ t - Window \in Int
      /\ first \in Nat /\ Len(handled) \in Nat
  BY PipeFacts
<1>2. PICK n \in 0 .. Len(q) :
        /\ e \in Seq(1 .. MaxLines)
        /\ Len(e) = Len(q) - n + 1
        /\ \A k \in 1 .. Len(q) - n : e[k] = q[n + k]
        /\ e[Len(q) - n + 1] = t
        /\ \A k \in 1 .. n : q[k] < t - Window
        /\ n < Len(q) => q[n + 1] >= t - Window
  BY <1>1, DetectorGiven, D!ExtendedProperties
<1>3. /\ Increasing(q)
      /\ Elements(q) \subseteq seen
      /\ \A line \in seen \ Elements(q) : line < t - 1 - Window
  <2>1. QueueIsRecent(ip)
    BY DEF PipeInv, Memory
  <2>2. first + Len(handled) - 1 - Window = t - 1 - Window
    BY <1>1
  <2> QED
    BY <2>1, <2>2 DEF QueueIsRecent
<1>4. \A line \in seen : line \in Int /\ line < t
  <2>1. mark[ip] \in Nat
    BY PipeFacts
  <2> QED
    BY <1>1, <2>1 DEF SeenLines
<1>5. \A k \in 1 .. Len(q) : q[k] \in seen /\ q[k] \in Int /\ q[k] < t
  BY <1>3, <1>4 DEF Elements
<1>6. \A j, k \in 1 .. Len(q) : j < k => q[j] < q[k]
  BY <1>3 DEF Increasing
<1> HIDE DEF q, e, seen
<1>2a. n \in Nat /\ n <= Len(q) /\ Len(e) = Len(q) - n + 1
  BY <1>1, <1>2
<1>7. e \in Seq(Int)
  <2>1. 1 .. MaxLines \subseteq Int
    BY DetectorGiven
  <2> QED
    BY <1>2, <2>1, SeqMonotonic
<1>8. Increasing(e)
  <2> SUFFICES ASSUME NEW j \in 1 .. Len(e), NEW k \in 1 .. Len(e), j < k
               PROVE  e[j] < e[k]
    BY DEF Increasing
  <2>1. j \in 1 .. Len(q) - n /\ n + j \in 1 .. Len(q) /\ e[j] = q[n + j]
    BY <1>1, <1>2
  <2>2. CASE k = Len(q) - n + 1
    BY <1>2, <1>5, <2>1, <2>2
  <2>3. CASE k # Len(q) - n + 1
    <3>0. k \in 1 .. Len(q) - n /\ n + k \in 1 .. Len(q) /\ n + j < n + k
      BY <1>1, <1>2a, <2>3
    <3>1. e[k] = q[n + k]
      BY <1>2, <3>0
    <3> QED
      BY <1>6, <2>1, <3>0, <3>1
  <2> QED
    BY <2>2, <2>3
<1>9. ASSUME NEW k \in 1 .. Len(e) PROVE e[k] = t \/ (e[k] \in seen /\ e[k] >= t - Window)
  <2>1. CASE k = Len(q) - n + 1
    BY <1>2, <2>1
  <2>2. CASE k # Len(q) - n + 1
    <3>1. k \in 1 .. Len(q) - n /\ n + k \in 1 .. Len(q) /\ n < Len(q) /\ n + 1 \in 1 .. Len(q)
      BY <1>1, <1>2a, <2>2
    <3>2. e[k] = q[n + k] /\ e[k] \in seen /\ q[n + 1] >= t - Window
      BY <1>2, <1>5, <3>1
    <3>3. q[n + 1] = q[n + k] \/ q[n + 1] < q[n + k]
      BY <1>6, <3>1
    <3>4. q[n + 1] \in Int /\ q[n + k] \in Int
      BY <1>5, <3>1
    <3>5. t - Window \in Int
      BY <1>1
    <3>6. q[n + k] >= t - Window
      <4> DEFINE bound == t - Window
                 head == q[n + 1]
                 line == q[n + k]
      <4>1. bound \in Int /\ head \in Int /\ line \in Int /\ head >= bound
            /\ (head = line \/ head < line)
        BY <3>2, <3>3, <3>4, <3>5
      <4> HIDE DEF bound, head, line
      <4>2. line >= bound
        BY <4>1
      <4> QED
        BY <4>2 DEF bound, line
    <3> QED
      BY <3>2, <3>6
  <2> QED
    BY <2>1, <2>2
<1>10. ASSUME NEW line \in seen, line >= t - Window PROVE line \in Elements(e)
  <2>1. line \in Elements(q)
    <3>1. line \in Int
      BY <1>4
    <3> QED
      BY <1>1, <1>3, <1>10, <3>1
  <2>2. PICK j \in 1 .. Len(q) : line = q[j]
    BY <2>1 DEF Elements
  <2>3. j > n
    <3>1. ~(j \in 1 .. n)
      <4> SUFFICES ASSUME j \in 1 .. n PROVE FALSE
        OBVIOUS
      <4>1. line < t - Window
        BY <1>2, <2>2
      <4>2. line \in Int
        BY <1>4
      <4>3. t - Window \in Int
        BY <1>1
      <4> DEFINE bound == t - Window
      <4>4. line < bound /\ line >= bound /\ bound \in Int
        BY <1>10, <4>1, <4>3
      <4> HIDE DEF bound
      <4> QED
        BY <4>2, <4>4
    <3> QED
      BY <1>1, <1>2, <3>1
  <2>4. j - n \in 1 .. Len(q) - n /\ j - n \in 1 .. Len(e) /\ n + (j - n) = j
    BY <1>1, <1>2, <2>3
  <2>5. e[j - n] = line
    BY <1>2, <2>2, <2>4
  <2> QED
    BY <2>4, <2>5 DEF Elements
<1>11. t \in Elements(e)
  <2>1. Len(q) - n + 1 \in 1 .. Len(e)
    BY <1>1, <1>2
  <2> QED
    BY <1>2, <2>1 DEF Elements
<1>12. Elements(e) = {line \in seen : line >= t - Window} \cup {t}
  BY <1>9, <1>10, <1>11 DEF Elements
<1> QED
  BY <1>7, <1>8, <1>12 DEF e, seen

----------------------------------------------------------------------------
(* The steps of the pipeline.                                              *)

\* A step that leaves the memory of the process alone, and neither starts nor ends it.
LEMMA MemoryFramed ==
  ASSUME PipeInv, UNCHANGED <<first, handled, origin, detector, mark>>,
         pc' = pc \/ (pc # "down" /\ pc' # "down" /\ published = NoEvent)
  PROVE  D!Inv' /\ Memory'
<1>1. UNCHANGED <<first, handled, origin, mark, attempts, published, pending, heard, clock>>
  BY DEF detector
<1>2. D!Inv'
  BY <1>1 DEF PipeInv, D!Inv, D!TypeOK, D!BreachAtThreshold, D!DispatchOrder
<1>3. \A ip \in IPs : QueueIsRecent(ip)' <=> QueueIsRecent(ip)
  BY <1>1 DEF QueueIsRecent, SeenLines
<1>4. Memory'
  BY <1>1, <1>3 DEF PipeInv, Memory
<1> QED
  BY <1>2, <1>4

\* The detector of a new process has seen nothing.
LEMMA FreshDetector ==
  ASSUME PipeInv, FreshMemory PROVE D!Inv'
<1>1. /\ attempts' = [ip \in IPs |-> <<>>]
      /\ published' = NoEvent /\ pending' = <<>> /\ heard' = <<>> /\ clock' = clock
  BY DEF FreshMemory
<1>2. D!TypeOK'
  BY <1>1, DetectorGiven DEF PipeInv, D!Inv, D!TypeOK
<1>3. D!BreachAtThreshold'
  BY <1>1, DetectorGiven DEF D!BreachAtThreshold
<1>4. D!DispatchOrder'
  BY <1>1 DEF D!DispatchOrder
<1> QED
  BY <1>2, <1>3, <1>4 DEF D!Inv

\* A worker starts or ends: it remembers nothing.
LEMMA FreshMemoryInv ==
  ASSUME PipeInv, FreshMemory, origin' = origin, Start \/ Terminate \/ Crash
  PROVE  PipeInv'
<1>1. TailInv'
  BY StartInv, RunEndsInv DEF PipeInv
<1>2. D!Inv'
  BY FreshDetector
<1>3. /\ attempts' = [ip \in IPs |-> <<>>] /\ published' = NoEvent
      /\ mark' = [ip \in IPs |-> 0]
  BY DEF FreshMemory
<1>4. CASE pc' = "down"
  <2>1. Memory'
    BY <1>3, <1>4 DEF PipeInv, Memory
  <2> QED
    BY <1>1, <1>2, <2>1 DEF PipeInv
<1>5. CASE pc' # "down"
  <2>1. Start /\ handled' = <<>>
    BY <1>5 DEF Start, Terminate, Crash
  <2>2. first' \in Nat
    BY <1>1, TypeFacts, <2>1, LogTailAssumption DEF TailInv, TypeOK
  <2>3. ASSUME NEW ip \in IPs PROVE QueueIsRecent(ip)'
    <3>1. attempts'[ip] = <<>> /\ mark'[ip] = 0 /\ Len(handled') = 0
      BY <1>3, <2>1
    <3>2. SeenLines(ip)' = {}
      BY <2>2, <3>1 DEF SeenLines
    <3>3. Elements(attempts[ip])' = {} /\ Increasing(attempts[ip])'
      BY <3>1 DEF Elements, Increasing
    <3> QED
      BY <3>1, <3>2, <3>3 DEF QueueIsRecent
  <2>4. Memory'
    BY <1>3, <1>5, <2>3 DEF PipeInv, Memory
  <2> QED
    BY <1>1, <1>2, <2>4 DEF PipeInv
<1> QED
  BY <1>4, <1>5

\* A handler is called: the queues stay as they are.
LEMMA PublishInv ==
  ASSUME PipeInv, Publish PROVE PipeInv'
<1>1. PICK outcome \in Detector!Outcomes : Detector!Deliver(outcome)
  BY DEF Publish
<1>2. outcome \in D!Outcomes /\ D!Deliver(outcome)
  BY <1>1, SameDetector
<1>3. D!Inv'
  BY <1>2, DetectorGiven, D!DeliverInv DEF PipeInv
<1>4. UNCHANGED <<written, first, next, tail, pipe, buffer, handled, pc, stop, failures>>
  BY DEF Publish, vars
<1>5. UNCHANGED <<origin, mark, attempts, published>>
  BY <1>2 DEF D!Deliver, Publish
<1>6. TailInv'
  BY <1>4, NoLineMovesInv DEF PipeInv, vars
<1>7. \A ip \in IPs : QueueIsRecent(ip)' <=> QueueIsRecent(ip)
  BY <1>4, <1>5 DEF QueueIsRecent, SeenLines
<1>8. Memory'
  BY <1>4, <1>5, <1>7 DEF PipeInv, Memory
<1> QED
  BY <1>3, <1>6, <1>8 DEF PipeInv

\* The queue of the breach is cleared, and its lines are behind the mark.
LEMMA SettleInv ==
  ASSUME PipeInv, Settle PROVE PipeInv'
<1>1. D!ResetCounter
  BY SameDetector DEF Settle
<1>2. D!Inv'
  BY <1>1, DetectorGiven, D!ResetCounterInv DEF PipeInv
<1>3. UNCHANGED <<written, first, next, tail, pipe, buffer, handled, pc, stop, failures, origin>>
  BY DEF Settle, vars
<1>4. /\ published # NoEvent /\ published' = NoEvent
      /\ attempts' = [attempts EXCEPT ![published.ip] = <<>>]
      /\ mark' = [mark EXCEPT ![published.ip] = Len(handled)]
  BY <1>1 DEF D!ResetCounter, Settle
<1>5. TailInv'
  BY <1>3, NoLineMovesInv DEF PipeInv, vars
<1>6. /\ pc = "check" /\ mark' \in [IPs -> Nat]
      /\ \A ip \in IPs : QueueIsRecent(ip)
  BY <1>4, PipeFacts DEF PipeInv, Memory
<1>7. ASSUME NEW ip \in IPs PROVE QueueIsRecent(ip)'
  <2>1. CASE ip = published.ip
    <3>1. attempts'[ip] = <<>> /\ mark'[ip] = Len(handled)
      BY <1>4, <2>1, PipeFacts
    <3>2. SeenLines(ip)' = {}
      BY <1>3, <3>1, PipeFacts DEF SeenLines
    <3>3. Elements(attempts[ip])' = {} /\ Increasing(attempts[ip])'
      BY <3>1 DEF Elements, Increasing
    <3>4. mark'[ip] <= Len(handled')
      BY <1>3, <3>1, PipeFacts
    <3> QED
      BY <3>2, <3>3, <3>4 DEF QueueIsRecent
  <2>2. CASE ip # published.ip
    <3>1. attempts'[ip] = attempts[ip] /\ mark'[ip] = mark[ip]
      BY <1>4, <2>2, PipeFacts
    <3> QED
      BY <1>3, <1>6, <3>1 DEF QueueIsRecent, SeenLines
  <2> QED
    BY <2>1, <2>2
<1>8. Memory'
  BY <1>3, <1>4, <1>6, <1>7 DEF PipeInv, Memory
<1> QED
  BY <1>2, <1>5, <1>8 DEF PipeInv

(* A line is handled: it is the next one, and no breach is under way.      *)
LEMMA LineFacts ==
  ASSUME PipeInv, Handle, handled' # handled
  PROVE  LET t == first + Len(handled)
         IN  /\ t \in 1 .. written /\ t \in 1 .. MaxLines
             /\ handled' = Append(handled, t) /\ Len(handled') = Len(handled) + 1
             /\ OnLine(t)
             /\ UNCHANGED <<written, first, origin, mark>>
             /\ pc = "read" /\ pc' = "check" /\ published = NoEvent
             /\ t = first' + Len(handled') - 1
             /\ TailInv'
<1> DEFINE t == first + Len(handled)
<1>1. ReadLine /\ TailInv
  BY DEF Handle, PipeInv
<1>2. TailInv' /\ handled' = Append(handled, t) /\ t \in 1 .. written
  BY <1>1, ReadLineTakesNext
<1>3. /\ UNCHANGED <<written, first, origin, mark>>
      /\ pc = "read" /\ pc' = "check"
  BY <1>1 DEF ReadLine, Handle
<1>4. published = NoEvent
  BY <1>3 DEF PipeInv, Memory
<1>5. t \in 1 .. MaxLines /\ Len(handled) \in Nat /\ first \in Nat
  BY <1>2, PipeFacts
<1>6. /\ Len(Append(handled, t)) = Len(handled) + 1
      /\ Append(handled, t)[Len(handled) + 1] = t
  <2>1. handled \in Seq(Int) /\ t \in Int
    BY <1>1, <1>5, TypeFacts DEF TailInv
  <2> HIDE DEF t
  <2> QED
    BY <2>1
<1>7. OnLine(t)
  BY <1>2, <1>6 DEF Handle
<1>8. Len(handled') = Len(handled) + 1 /\ t = first' + Len(handled') - 1
  BY <1>2, <1>3, <1>5, <1>6
<1> HIDE DEF t
<1>9. /\ t \in 1 .. written /\ t \in 1 .. MaxLines
      /\ handled' = Append(handled, t) /\ Len(handled') = Len(handled) + 1
      /\ OnLine(t)
      /\ UNCHANGED <<written, first, origin, mark>>
      /\ pc = "read" /\ pc' = "check" /\ published = NoEvent
      /\ t = first' + Len(handled') - 1
      /\ TailInv'
  BY <1>2, <1>3, <1>4, <1>5, <1>7, <1>8
<1> QED
  BY <1>9 DEF t

\* The lines seen of an address are one more if the line is about it.
LEMMA SeenGrows ==
  ASSUME PipeInv, Handle, handled' # handled, NEW ip \in IPs
  PROVE  LET t == first + Len(handled)
         IN  SeenLines(ip)' = SeenLines(ip) \cup {line \in {t} : origin[t] = ip}
<1> DEFINE t == first + Len(handled)
<1>1. /\ Len(handled') = Len(handled) + 1 /\ first' = first /\ origin' = origin
      /\ mark' = mark
  BY LineFacts
<1>2. pc = "read"
  BY LineFacts
<1>3. mark[ip] \in Nat /\ first \in Nat /\ Len(handled) \in Nat /\ mark[ip] <= Len(handled)
  BY <1>2, PipeFacts DEF PipeInv, Memory, QueueIsRecent
<1>4. /\ first' + Len(handled') - 1 = t
      /\ first + mark[ip] .. t = (first + mark[ip] .. first + Len(handled) - 1) \cup {t}
  BY <1>1, <1>3
<1>5. SeenLines(ip)' = {line \in first + mark[ip] .. t : origin[line] = ip}
  BY <1>1, <1>4 DEF SeenLines
<1> HIDE DEF t
<1>6. SeenLines(ip)' = SeenLines(ip) \cup {line \in {t} : origin[t] = ip}
  BY <1>4, <1>5 DEF SeenLines
<1> QED
  BY <1>6 DEF t

\* The queues of the addresses the line is not about stay recent.
LEMMA OtherQueueKept ==
  ASSUME PipeInv, Handle, handled' # handled, NEW ip \in IPs,
         origin[first + Len(handled)] # ip, attempts'[ip] = attempts[ip]
  PROVE  QueueIsRecent(ip)'
<1>1. SeenLines(ip)' = SeenLines(ip)
  BY SeenGrows
<1>2. /\ Len(handled') = Len(handled) + 1 /\ first' = first /\ mark' = mark /\ pc = "read"
  BY LineFacts
<1>3. /\ mark[ip] \in Nat /\ first \in Nat /\ Len(handled) \in Nat /\ Window \in Nat
  BY PipeFacts
<1>4. QueueIsRecent(ip)
  BY <1>2 DEF PipeInv, Memory
<1>5. mark'[ip] <= Len(handled')
  BY <1>2, <1>3, <1>4 DEF QueueIsRecent
<1>6. ASSUME NEW line \in SeenLines(ip) \ Elements(attempts[ip])
      PROVE  line < first' + Len(handled') - 1 - Window
  <2>1. line < first + Len(handled) - 1 - Window
    BY <1>4 DEF QueueIsRecent
  <2>2. line \in Int
    BY <1>3 DEF SeenLines
  <2> QED
    BY <1>2, <1>3, <2>1, <2>2
<1> QED
  BY <1>1, <1>4, <1>5, <1>6 DEF QueueIsRecent

\* The queue of the address the line is about is the window that ends with the line.
LEMMA OwnQueueKept ==
  ASSUME PipeInv, Handle, handled' # handled, NEW ip \in IPs,
         origin[first + Len(handled)] = ip,
         attempts'[ip] = D!Extended(ip, first + Len(handled))
  PROVE  QueueIsRecent(ip)'
<1> DEFINE t == first + Len(handled)
<1>1. /\ t \in 1 .. written /\ Len(handled') = Len(handled) + 1 /\ first' = first
      /\ mark' = mark /\ pc = "read" /\ t = first' + Len(handled') - 1
  BY LineFacts
<1>2. SeenLines(ip)' = SeenLines(ip) \cup {t}
  BY SeenGrows
<1>3. /\ Increasing(attempts'[ip])
      /\ Elements(attempts'[ip]) = {line \in SeenLines(ip) : line >= t - Window} \cup {t}
  BY <1>1, ExtendedIsWindow
<1>4. /\ mark[ip] \in Nat /\ first \in Nat /\ Len(handled) \in Nat /\ Window \in Nat
      /\ mark[ip] <= Len(handled)
  BY <1>1, PipeFacts DEF PipeInv, Memory, QueueIsRecent
<1>5. mark'[ip] <= Len(handled')
  BY <1>1, <1>4
<1>6. ASSUME NEW line \in SeenLines(ip)', line \notin Elements(attempts'[ip])
      PROVE  line < first' + Len(handled') - 1 - Window
  <2>1. line \in SeenLines(ip) /\ ~(line >= t - Window)
    BY <1>2, <1>3, <1>6
  <2>2. line \in Int /\ t - Window \in Int /\ first' + Len(handled') - 1 - Window = t - Window
    BY <1>1, <1>4, <2>1 DEF SeenLines
  <2> QED
    BY <2>1, <2>2
<1>7. Elements(attempts'[ip]) \subseteq SeenLines(ip)'
  BY <1>2, <1>3
<1> QED
  BY <1>3, <1>5, <1>6, <1>7 DEF QueueIsRecent

\* A line is read and handled, or the end of the file is met.
LEMMA HandleInv ==
  ASSUME PipeInv, Handle PROVE PipeInv'
<1> DEFINE t == first + Len(handled)
<1>1. CASE handled' = handled
  <2>1. /\ ReadLine /\ UNCHANGED <<origin, detector, mark>>
    BY <1>1 DEF Handle
  <2>2. TailInv'
    BY <2>1, ReadLineTakesNext DEF PipeInv
  <2>3. first' = first /\ pc = "read" /\ pc' = "check"
    BY <2>1 DEF ReadLine
  <2>4. published = NoEvent
    BY <2>3 DEF PipeInv, Memory
  <2>5. D!Inv' /\ Memory'
    BY <1>1, <2>1, <2>3, <2>4, MemoryFramed
  <2> QED
    BY <2>2, <2>5 DEF PipeInv
<1>2. CASE handled' # handled
  <2>1. /\ t \in 1 .. MaxLines /\ OnLine(t) /\ origin' = origin /\ mark' = mark
        /\ pc' = "check" /\ published = NoEvent
        /\ t = first' + Len(handled') - 1 /\ TailInv'
    BY <1>2, LineFacts
  <2>2. origin \in Logs /\ mark \in [IPs -> Nat] /\ D!Inv
    BY DEF PipeInv, Memory
  <2>3. CASE origin[t] = Noise /\ UNCHANGED detector
    <3>1. D!Inv'
      BY <2>2, <2>3 DEF detector, D!Inv, D!TypeOK, D!BreachAtThreshold, D!DispatchOrder
    <3>2. ASSUME NEW ip \in IPs PROVE QueueIsRecent(ip)'
      <4>1. origin[t] # ip /\ attempts'[ip] = attempts[ip]
        BY <2>3, PipelineAssumption DEF detector
      <4> QED
        BY <1>2, <4>1, OtherQueueKept
    <3>3. Memory'
      BY <2>1, <2>2, <2>3, <3>2 DEF Memory, detector
    <3> QED
      BY <2>1, <3>1, <3>3 DEF PipeInv
  <2>4. ASSUME NEW ip \in IPs, ip = origin[t],
               D!RecordBelow(ip, t) \/ D!RecordBreach(ip, t)
        PROVE  PipeInv'
    <3>1. D!Inv'
      BY <2>1, <2>2, <2>4, DetectorGiven, D!RecordBelowInv, D!RecordBreachInv
    <3>2. /\ attempts' = [attempts EXCEPT ![ip] = D!Extended(ip, t)]
          /\ published' = published \/ published'.timestamp = t
      BY <2>4 DEF D!RecordBelow, D!RecordBreach
    <3>3. ASSUME NEW other \in IPs PROVE QueueIsRecent(other)'
      <4>1. CASE other = ip
        <5>1. attempts'[ip] = D!Extended(ip, t)
          BY <3>2, PipeFacts
        <5> QED
          BY <1>2, <2>4, <4>1, <5>1, OwnQueueKept
      <4>2. CASE other # ip
        <5>1. attempts'[other] = attempts[other]
          BY <3>2, <4>2, PipeFacts
        <5> QED
          BY <1>2, <2>4, <4>2, <5>1, OtherQueueKept
      <4> QED
        BY <4>1, <4>2
    <3>4. Memory'
      BY <2>1, <2>2, <3>2, <3>3 DEF Memory
    <3> QED
      BY <2>1, <3>1, <3>4 DEF PipeInv
  <2> QED
    BY <2>1, <2>3, <2>4, SameDetector DEF OnLine
<1> QED
  BY <1>1, <1>2

\* The invariant of the pipeline is kept by every step.
LEMMA PNextInv == PipeInv /\ [PNext]_pvars => PipeInv'
<1> SUFFICES ASSUME PipeInv, [PNext]_pvars PROVE PipeInv'
  OBVIOUS
<1>1. CASE Boot \/ Exit \/ Die
  BY <1>1, FreshMemoryInv DEF Boot, Exit, Die
<1>2. CASE Handle
  BY <1>2, HandleInv
<1>3. CASE Publish
  BY <1>3, PublishInv
<1>4. CASE Settle
  BY <1>4, SettleInv
<1>5. CASE ReadFails \/ Idle
  <2>1. TailInv'
    BY <1>5, NoLineMovesInv DEF ReadFails, Idle, PipeInv
  <2>2. /\ UNCHANGED <<first, handled, origin, detector, mark>>
        /\ pc # "down" /\ pc' # "down"
    BY <1>5 DEF ReadFails, Idle, Check, Select, stream
  <2>3. published = NoEvent
    BY <1>5 DEF ReadFails, Idle, PipeInv, Memory
  <2>4. D!Inv' /\ Memory'
    BY <2>2, <2>3, MemoryFramed
  <2> QED
    BY <2>1, <2>4 DEF PipeInv
<1>6. CASE Environment \/ UNCHANGED pvars
  <2>1. TailInv'
    BY <1>6, TailNextInv DEF Environment, pvars, PipeInv, Next
  <2>2. UNCHANGED <<first, handled, origin, detector, mark, pc>>
    BY <1>6 DEF Environment, pvars, vars, WriteLine, TailCopies, Stop, TailDies, stream
  <2>3. D!Inv' /\ Memory'
    BY <2>2, MemoryFramed
  <2> QED
    BY <2>1, <2>3 DEF PipeInv
<1> QED
  BY <1>1, <1>2, <1>3, <1>4, <1>5, <1>6 DEF PNext, MainThread

\* Before the first start the pipeline is empty.
LEMMA PInitInv == PInit => PipeInv
<1> SUFFICES ASSUME PInit PROVE PipeInv
  OBVIOUS
<1>1. TailInv
  BY TailInitInv DEF PInit
<1>2. D!Init
  BY SameDetector DEF PInit
<1>3. D!Inv
  BY <1>2, DetectorGiven, D!InitInv
<1>4. pc = "down" /\ origin \in Logs /\ mark = [ip \in IPs |-> 0]
  BY DEF PInit, Init
<1>5. Memory
  BY <1>2, <1>4 DEF Memory, D!Init
<1> QED
  BY <1>1, <1>3, <1>5 DEF PipeInv

\* The invariant of the pipeline holds in every reachable state.
LEMMA PSpecInv == PSpec => []PipeInv
BY PInitInv, PNextInv, PTL DEF PSpec

(* With the detector behind it, with restarts and with lines that cannot   *)
(* be decoded, the stream still stays within its types.                    *)
THEOREM PipelineTypeCorrect == PSpec => []TypeOK
<1>1. PipeInv => TypeOK
  BY DEF PipeInv, TailInv
<1> QED
  BY PSpecInv, <1>1, PTL

(* With the detector behind it, no line of one run is lost, repeated or    *)
(* overtaken on its way to the parser.                                     *)
THEOREM PipelineLinesInOrder == PSpec => []NothingLostOrReordered
<1>1. PipeInv => TailInv
  BY DEF PipeInv
<1> QED
  BY PSpecInv, <1>1, FlowGivesOrder, PTL

(* Whatever tail replays after a restart, a breach counts as many          *)
(* different lines of its address as the threshold says.                   *)
THEOREM BreachesOfDistinctLines == PSpec => []BreachOfDistinctLines
<1>1. PipeInv => BreachOfDistinctLines
  <2> SUFFICES ASSUME PipeInv, published # NoEvent PROVE BreachOfDistinctLines
    BY DEF BreachOfDistinctLines
  <2> DEFINE q == attempts[published.ip]
             counted == {q[k] : k \in DOMAIN q}
  <2>1. published.ip \in IPs
    BY DEF PipeInv, D!Inv, D!TypeOK, D!Event
  <2>2. q \in Seq(Int) /\ DOMAIN q = 1 .. Len(q)
    BY <2>1, PipeFacts, LenProperties
  <2>3. Len(q) = Threshold
    BY <2>1 DEF PipeInv, D!Inv, D!BreachAtThreshold
  <2>4. QueueIsRecent(published.ip)
    BY <2>1 DEF PipeInv, Memory
  <2>5. counted = Elements(q)
    BY <2>2 DEF Elements
  <2>6. Cardinality(Elements(q)) = Len(q)
    BY <2>2, <2>4, IncreasingCounts DEF QueueIsRecent
  <2>7. \A line \in Elements(q) : origin[line] = published.ip
    BY <2>4 DEF QueueIsRecent, SeenLines
  <2> QED
    BY <2>3, <2>5, <2>6, <2>7 DEF BreachOfDistinctLines
<1> QED
  BY PSpecInv, <1>1, PTL

----------------------------------------------------------------------------
(* The pipeline implements the plain watch of LogWatch.                    *)

(* What Watch takes for its position and for the lines seen.               *)
Position == IF pc = "down" THEN 0 ELSE first + Len(handled)

SeenLog ==
  [ip \in IPs |->
     IF pc = "down" THEN {}
     ELSE {handled[k] : k \in {j \in mark[ip] + 1 .. Len(handled) : origin[handled[j]] = ip}}]

\* The lines seen are read off the stream: line first + k - 1 was handled as the k-th.
LEMMA SeenLogIsSeenLines ==
  PipeInv => SeenLog = [ip \in IPs |-> IF pc = "down" THEN {} ELSE SeenLines(ip)]
<1> SUFFICES ASSUME PipeInv, pc # "down", NEW ip \in IPs
             PROVE  {handled[k] : k \in {j \in mark[ip] + 1 .. Len(handled) :
                                           origin[handled[j]] = ip}} = SeenLines(ip)
  BY DEF SeenLog
<1>1. /\ first \in Nat /\ Len(handled) \in Nat /\ mark[ip] \in Nat
      /\ \A k \in 1 .. Len(handled) : handled[k] = first + k - 1
  BY PipeFacts DEF PipeInv, TailInv, Flow, Consecutive
<1>2. ASSUME NEW k \in mark[ip] + 1 .. Len(handled), origin[handled[k]] = ip
      PROVE  handled[k] \in SeenLines(ip)
  <2>1. k \in 1 .. Len(handled)
    BY <1>1
  <2>2. handled[k] = first + k - 1 /\ first + k - 1 \in first + mark[ip] .. first + Len(handled) - 1
    BY <1>1, <2>1
  <2> QED
    BY <1>2, <2>2 DEF SeenLines
<1>3. ASSUME NEW line \in SeenLines(ip)
      PROVE  \E k \in mark[ip] + 1 .. Len(handled) : origin[handled[k]] = ip /\ line = handled[k]
  <2>1. line \in first + mark[ip] .. first + Len(handled) - 1 /\ origin[line] = ip
    BY DEF SeenLines
  <2> DEFINE k == line - first + 1
  <2>2. k \in mark[ip] + 1 .. Len(handled) /\ k \in 1 .. Len(handled) /\ first + k - 1 = line
    BY <1>1, <2>1
  <2>3. handled[k] = line
    BY <1>1, <2>2
  <2> QED
    BY <2>1, <2>2, <2>3
<1> QED
  BY <1>2, <1>3

\* The instance of LogWatch, in the words of this module.
LEMMA WatchUnfolded ==
  ASSUME NEW ip
  PROVE  /\ Watch!state = <<origin, written, Position, SeenLog, published>>
         /\ Watch!Init <=> Position = 0 /\ SeenLog = [i \in IPs |-> {}] /\ published = NoEvent
         /\ Watch!Write <=> written' = written + 1 /\ UNCHANGED <<origin, Position, SeenLog, published>>
         /\ Watch!Start <=>
              /\ Position = 0
              /\ Position' = (IF written > Replay THEN written - Replay + 1 ELSE 1)
              /\ UNCHANGED <<origin, written, SeenLog, published>>
         /\ Watch!Advance <=>
              /\ published = NoEvent /\ Position \in 1 .. written
              /\ Position' = Position + 1
              /\ UNCHANGED <<origin, written>>
         /\ Watch!Ignore <=>
              Watch!Advance /\ origin[Position] \notin IPs /\ UNCHANGED <<SeenLog, published>>
         /\ Watch!Dismiss <=>
              /\ published # NoEvent
              /\ SeenLog' = [SeenLog EXCEPT ![published.ip] = {}]
              /\ published' = NoEvent
              /\ UNCHANGED <<origin, written, Position>>
         /\ Watch!End <=>
              /\ Position' = 0 /\ SeenLog' = [i \in IPs |-> {}] /\ published' = NoEvent
              /\ UNCHANGED <<origin, written>>
         /\ Watch!Count(ip) <=>
              LET counted == {line \in SeenLog[ip] : line >= Position - Window} \cup {Position}
              IN  /\ Watch!Advance
                  /\ origin[Position] = ip
                  /\ SeenLog' = [SeenLog EXCEPT ![ip] = @ \cup {Position}]
                  /\ published' = IF Cardinality(counted) < Threshold THEN NoEvent
                                  ELSE [ip |-> ip, timestamp |-> Position,
                                        attempt_count |-> Cardinality(counted)]
<1>1. ASSUME NEW S PROVE Watch!Cardinality(S) = Cardinality(S)
  BY DEF Watch!Cardinality, Cardinality
<1>2. Watch!state = <<origin, written, Position, SeenLog, published>>
  BY DEF Watch!state, Position, SeenLog
<1>3. Watch!Init <=> Position = 0 /\ SeenLog = [i \in IPs |-> {}] /\ published = NoEvent
  BY DEF Watch!Init, Watch!Forgotten, Position, SeenLog
<1>4. Watch!Write <=> written' = written + 1 /\ UNCHANGED <<origin, Position, SeenLog, published>>
  BY DEF Watch!Write, Position, SeenLog
<1>5. Watch!Start <=>
        /\ Position = 0
        /\ Position' = (IF written > Replay THEN written - Replay + 1 ELSE 1)
        /\ UNCHANGED <<origin, written, SeenLog, published>>
  BY DEF Watch!Start, Position, SeenLog
<1>6. Watch!Advance <=>
        /\ published = NoEvent /\ Position \in 1 .. written
        /\ Position' = Position + 1
        /\ UNCHANGED <<origin, written>>
  BY DEF Watch!Advance, Position
<1>7. Watch!Ignore <=>
        Watch!Advance /\ origin[Position] \notin IPs /\ UNCHANGED <<SeenLog, published>>
  BY DEF Watch!Ignore, Position, SeenLog
<1>8. Watch!Dismiss <=>
        /\ published # NoEvent
        /\ SeenLog' = [SeenLog EXCEPT ![published.ip] = {}]
        /\ published' = NoEvent
        /\ UNCHANGED <<origin, written, Position>>
  BY DEF Watch!Dismiss, Position, SeenLog
<1>9. Watch!End <=>
        /\ Position' = 0 /\ SeenLog' = [i \in IPs |-> {}] /\ published' = NoEvent
        /\ UNCHANGED <<origin, written>>
  BY DEF Watch!End, Watch!Forgotten, Position, SeenLog
<1>10. Watch!Count(ip) <=>
         LET counted == {line \in SeenLog[ip] : line >= Position - Window} \cup {Position}
         IN  /\ Watch!Advance
             /\ origin[Position] = ip
             /\ SeenLog' = [SeenLog EXCEPT ![ip] = @ \cup {Position}]
             /\ published' = IF Cardinality(counted) < Threshold THEN NoEvent
                             ELSE [ip |-> ip, timestamp |-> Position,
                                   attempt_count |-> Cardinality(counted)]
  BY <1>1 DEF Watch!Count, Watch!Counted, Position, SeenLog
<1> QED
  BY <1>2, <1>3, <1>4, <1>5, <1>6, <1>7, <1>8, <1>9, <1>10

\* The watch counts a line: what has to be shown of the line being handled.
LEMMA WatchCounts ==
  ASSUME NEW ip \in IPs, NEW counted,
         counted = {line \in SeenLog[ip] : line >= Position - Window} \cup {Position},
         Watch!Advance, origin[Position] = ip,
         SeenLog' = [SeenLog EXCEPT ![ip] = @ \cup {Position}],
         published' = IF Cardinality(counted) < Threshold THEN NoEvent
                      ELSE [ip |-> ip, timestamp |-> Position,
                            attempt_count |-> Cardinality(counted)]
  PROVE  Watch!Count(ip)
<1>1. Watch!Cardinality(counted) = Cardinality(counted)
  BY DEF Watch!Cardinality, Cardinality
<1>2. Watch!Counted(ip, Position) = counted
  BY DEF Watch!Counted, Position, SeenLog
<1>3. Watch!Count(ip) <=>
        /\ Watch!Advance
        /\ origin[Position] = ip
        /\ SeenLog' = [SeenLog EXCEPT ![ip] = @ \cup {Position}]
        /\ published' = IF Watch!Cardinality(Watch!Counted(ip, Position)) < Threshold THEN NoEvent
                        ELSE [ip |-> ip, timestamp |-> Position,
                              attempt_count |-> Watch!Cardinality(Watch!Counted(ip, Position))]
  BY DEF Watch!Count, Position, SeenLog
<1> QED
  BY <1>1, <1>2, <1>3

\* Worker starts and ends, as the watch sees them.
LEMMA StartAndEndRefine ==
  ASSUME PipeInv, PipeInv', SeenLog = [ip \in IPs |-> IF pc = "down" THEN {} ELSE SeenLines(ip)],
         SeenLog' = [ip \in IPs |-> IF pc' = "down" THEN {} ELSE SeenLines(ip)'],
         Boot \/ Exit \/ Die
  PROVE  Watch!Next
<1>1. CASE Boot
  <2>1. /\ pc = "down" /\ pc' = "check" /\ handled' = <<>> /\ written' = written
        /\ first' = (IF written > Replay THEN written - Replay + 1 ELSE 1)
        /\ origin' = origin /\ published' = NoEvent /\ mark' = [ip \in IPs |-> 0]
    BY <1>1 DEF Boot, Start, FreshMemory
  <2>2. published = NoEvent
    BY <2>1 DEF PipeInv, Memory
  <2>3. first' \in Nat
    BY <2>1, PipeFacts, LogTailAssumption
  <2>4. Position = 0 /\ Position' = first'
    BY <2>1, <2>3 DEF Position
  <2>5. ASSUME NEW ip \in IPs PROVE SeenLines(ip)' = {}
    BY <2>1, <2>3 DEF SeenLines
  <2>6. SeenLog' = SeenLog
    BY <2>1, <2>5
  <2>7. Watch!Start
    BY <2>1, <2>2, <2>4, <2>6, WatchUnfolded
  <2> QED
    BY <2>7 DEF Watch!Next
<1>2. CASE Exit \/ Die
  <2>1. pc' = "down" /\ written' = written /\ origin' = origin /\ published' = NoEvent
    BY <1>2 DEF Exit, Die, Terminate, Crash, FreshMemory
  <2>2. Position' = 0 /\ SeenLog' = [ip \in IPs |-> {}]
    BY <2>1 DEF Position
  <2>3. Watch!End
    BY <2>1, <2>2, WatchUnfolded
  <2> QED
    BY <2>3 DEF Watch!Next
<1> QED
  BY <1>1, <1>2

\* A breach that has been handled is dismissed.
LEMMA SettleRefines ==
  ASSUME PipeInv, PipeInv', SeenLog = [ip \in IPs |-> IF pc = "down" THEN {} ELSE SeenLines(ip)],
         SeenLog' = [ip \in IPs |-> IF pc' = "down" THEN {} ELSE SeenLines(ip)'],
         Settle
  PROVE  Watch!Next
<1>1. UNCHANGED <<written, first, handled, pc, origin>>
  BY DEF Settle, vars
<1>2. /\ published # NoEvent /\ published' = NoEvent
      /\ mark' = [mark EXCEPT ![published.ip] = Len(handled)]
  <2>1. D!ResetCounter
    BY SameDetector DEF Settle
  <2> QED
    BY <2>1 DEF D!ResetCounter, Settle
<1>3. pc = "check"
  BY <1>2 DEF PipeInv, Memory
<1>4. ASSUME NEW ip \in IPs
      PROVE  SeenLines(ip)' = IF ip = published.ip THEN {} ELSE SeenLines(ip)
  <2>1. CASE ip = published.ip
    <3>1. mark'[ip] = Len(handled)
      BY <1>2, <2>1, PipeFacts
    <3> QED
      BY <1>1, <2>1, <3>1, PipeFacts DEF SeenLines
  <2>2. CASE ip # published.ip
    <3>1. mark'[ip] = mark[ip]
      BY <1>2, <2>2, PipeFacts
    <3> QED
      BY <1>1, <2>2, <3>1 DEF SeenLines
  <2> QED
    BY <2>1, <2>2
<1>5. SeenLog' = [SeenLog EXCEPT ![published.ip] = {}]
  BY <1>1, <1>3, <1>4
<1>6. Position' = Position
  BY <1>1 DEF Position
<1>7. Watch!Dismiss
  BY <1>1, <1>2, <1>5, <1>6, WatchUnfolded
<1> QED
  BY <1>7 DEF Watch!Next

(* A line that is handled is ignored or counted by the watch, and the      *)
(* alarm is raised exactly when the watch raises it.                       *)
LEMMA LineRefines ==
  ASSUME PipeInv, PipeInv', SeenLog = [ip \in IPs |-> IF pc = "down" THEN {} ELSE SeenLines(ip)],
         SeenLog' = [ip \in IPs |-> IF pc' = "down" THEN {} ELSE SeenLines(ip)'],
         Handle, handled' # handled
  PROVE  Watch!Next
<1> DEFINE t == first + Len(handled)
<1>1. /\ t \in 1 .. written /\ t \in 1 .. MaxLines /\ OnLine(t)
      /\ UNCHANGED <<written, first, origin, mark>>
      /\ pc = "read" /\ pc' = "check" /\ published = NoEvent
      /\ Len(handled') = Len(handled) + 1
  BY LineFacts
<1>2. Position = t /\ Position' = t + 1
  BY <1>1, PipeFacts DEF Position
<1>3. Watch!Advance
  BY <1>1, <1>2, WatchUnfolded
<1>4. \A ip \in IPs : SeenLines(ip)' = SeenLines(ip) \cup {line \in {t} : origin[t] = ip}
  BY SeenGrows
<1> HIDE DEF t
<1>5. CASE origin[t] = Noise /\ UNCHANGED detector
  <2>1. origin[t] \notin IPs /\ published' = published
    BY <1>5, PipelineAssumption DEF detector
  <2>2. ASSUME NEW ip \in IPs PROVE SeenLines(ip)' = SeenLines(ip)
    <3>1. {line \in {t} : origin[t] = ip} = {}
      BY <2>1
    <3> QED
      BY <1>4, <3>1
  <2>3. SeenLog' = SeenLog
    BY <1>1, <2>2
  <2>4. Watch!Ignore
    BY <1>2, <1>3, <2>1, <2>3, WatchUnfolded
  <2> QED
    BY <2>4 DEF Watch!Next
<1>6. ASSUME NEW ip \in IPs, origin[t] = ip, D!RecordBelow(ip, t) \/ D!RecordBreach(ip, t)
      PROVE  Watch!Next
  <2> DEFINE e == D!Extended(ip, t)
             counted == {line \in SeenLog[ip] : line >= t - Window} \cup {t}
  <2>1. /\ e \in Seq(Int) /\ Increasing(e)
        /\ Elements(e) = {line \in SeenLines(ip) : line >= t - Window} \cup {t}
    BY <1>1, <1>6, ExtendedIsWindow DEF t
  <2>2. SeenLog[ip] = SeenLines(ip)
    BY <1>1
  <2>3. Cardinality(counted) = Len(e)
    <3>1. counted = Elements(e)
      BY <2>1, <2>2
    <3> HIDE DEF counted, e
    <3> QED
      BY <2>1, <3>1, IncreasingCounts
  <2>4. SeenLog' = [SeenLog EXCEPT ![ip] = @ \cup {t}]
    <3>1. ASSUME NEW i \in IPs
          PROVE  SeenLines(i)' = IF i = ip THEN SeenLines(i) \cup {t} ELSE SeenLines(i)
      <4>1. {line \in {t} : origin[t] = i} = IF i = ip THEN {t} ELSE {}
        BY <1>6
      <4> QED
        BY <1>4, <4>1
    <3> QED
      BY <1>1, <3>1
  <2>5. published' = IF Len(e) < Threshold THEN NoEvent
                     ELSE [ip |-> ip, timestamp |-> t, attempt_count |-> Len(e)]
    <3>1. Len(e) \in Nat /\ Threshold \in Nat
      BY <2>1, PipelineAssumption, LenProperties
    <3>2. CASE D!RecordBelow(ip, t)
      <4>1. Len(e) < Threshold /\ published' = published
        BY <3>2 DEF D!RecordBelow
      <4> QED
        BY <1>1, <4>1
    <3>3. CASE D!RecordBreach(ip, t)
      <4>1. Len(e) >= Threshold
            /\ published' = [ip |-> ip, attempt_count |-> Len(e), timestamp |-> t]
        BY <3>3 DEF D!RecordBreach
      <4> HIDE DEF e
      <4>2. ~(Len(e) < Threshold)
        BY <3>1, <4>1
      <4> QED
        BY <4>1, <4>2
    <3> QED
      BY <1>6, <3>2, <3>3
  <2> HIDE DEF e, counted
  <2>6. published' = IF Cardinality(counted) < Threshold THEN NoEvent
                     ELSE [ip |-> ip, timestamp |-> t, attempt_count |-> Cardinality(counted)]
    BY <2>3, <2>5
  <2>7. Watch!Count(ip)
    <3>1. origin[Position] = ip /\ SeenLog' = [SeenLog EXCEPT ![ip] = @ \cup {Position}]
      BY <1>2, <1>6, <2>4
    <3>2. counted = {line \in SeenLog[ip] : line >= Position - Window} \cup {Position}
      BY <1>2 DEF counted
    <3>3. published' = IF Cardinality(counted) < Threshold THEN NoEvent
                       ELSE [ip |-> ip, timestamp |-> Position,
                             attempt_count |-> Cardinality(counted)]
      BY <1>2, <2>6
    <3> QED
      BY <1>3, <3>1, <3>2, <3>3, WatchCounts
  <2> QED
    BY <2>7 DEF Watch!Next
<1> QED
  BY <1>1, <1>5, <1>6, SameDetector DEF OnLine

\* Every step of the pipeline is a step of the watch, or changes nothing the watch can see.
LEMMA PStepRefines ==
  ASSUME PipeInv, PipeInv', [PNext]_pvars,
         SeenLog = [ip \in IPs |-> IF pc = "down" THEN {} ELSE SeenLines(ip)],
         SeenLog' = [ip \in IPs |-> IF pc' = "down" THEN {} ELSE SeenLines(ip)']
  PROVE  [Watch!Next]_(Watch!state)
<1>1. CASE Boot \/ Exit \/ Die
  BY <1>1, StartAndEndRefine
<1>2. CASE Settle
  BY <1>2, SettleRefines
<1>3. CASE Handle /\ handled' # handled
  BY <1>3, LineRefines
<1>4. ASSUME UNCHANGED <<written, origin, first, handled, published, mark>>,
             pc' = pc \/ (pc # "down" /\ pc' # "down")
      PROVE  UNCHANGED Watch!state
  <2>1. Position' = Position
    BY <1>4 DEF Position
  <2>2. SeenLog' = SeenLog
    BY <1>4 DEF SeenLog
  <2> QED
    BY <1>4, <2>1, <2>2 DEF Watch!state, Position, SeenLog
<1>5. CASE Handle /\ handled' = handled
  BY <1>4, <1>5 DEF Handle, ReadLine, detector
<1>6. CASE Publish
  <2>1. PICK outcome : Detector!Deliver(outcome)
    BY <1>6 DEF Publish
  <2>2. published' = published
    BY <2>1 DEF Detector!Deliver
  <2> QED
    BY <1>4, <1>6, <2>2 DEF Publish, vars
<1>7. CASE ReadFails \/ Idle
  BY <1>4, <1>7 DEF ReadFails, Idle, Check, Select, stream, detector
<1>8. CASE TailCopies /\ UNCHANGED <<origin, detector, mark>>
  BY <1>4, <1>8 DEF TailCopies, detector
<1>9. CASE (Stop \/ TailDies) /\ UNCHANGED <<origin, detector, mark>>
  BY <1>4, <1>9 DEF Stop, TailDies, stream, detector
<1>10. CASE WriteLine /\ UNCHANGED <<origin, detector, mark>>
  <2>1. /\ written' = written + 1
        /\ UNCHANGED <<first, handled, pc, origin, published, mark>>
    BY <1>10 DEF WriteLine, stream, detector
  <2>2. UNCHANGED <<Position, SeenLog>>
    BY <2>1 DEF Position, SeenLog
  <2>3. Watch!Write
    BY <2>1, <2>2, WatchUnfolded
  <2> QED
    BY <2>3 DEF Watch!Next
<1>11. CASE UNCHANGED pvars
  BY <1>4, <1>11 DEF pvars, vars, detector
<1> QED
  BY <1>1, <1>2, <1>3, <1>5, <1>6, <1>7, <1>8, <1>9, <1>10, <1>11
     DEF PNext, MainThread, Environment

(* For every log and every way the run may go, the stream, the detector    *)
(* and the restarts together implement the plain watch over the log.       *)
THEOREM PipelineRefinesLogWatch == PSpec => ImplementsLogWatch
<1>1. PInit => Watch!Init
  <2> SUFFICES ASSUME PInit PROVE Watch!Init
    OBVIOUS
  <2>1. pc = "down" /\ published = NoEvent
    BY DEF PInit, Init, Detector!Init
  <2>2. Position = 0 /\ SeenLog = [ip \in IPs |-> {}]
    BY <2>1 DEF Position, SeenLog
  <2> QED
    BY <2>1, <2>2, WatchUnfolded
<1>2. PipeInv /\ PipeInv' /\ [PNext]_pvars => [Watch!Next]_(Watch!state)
  <2> SUFFICES ASSUME PipeInv, PipeInv', [PNext]_pvars PROVE [Watch!Next]_(Watch!state)
    OBVIOUS
  <2>1. SeenLog = [ip \in IPs |-> IF pc = "down" THEN {} ELSE SeenLines(ip)]
    BY SeenLogIsSeenLines
  <2>2. (PipeInv => SeenLog = [ip \in IPs |-> IF pc = "down" THEN {} ELSE SeenLines(ip)])'
    BY SeenLogIsSeenLines, PTL
  <2>3. SeenLog' = [ip \in IPs |-> IF pc' = "down" THEN {} ELSE SeenLines(ip)']
    BY <2>2
  <2> QED
    BY <2>1, <2>3, PStepRefines
<1> QED
  BY <1>1, <1>2, PSpecInv, PTL DEF PSpec, ImplementsLogWatch, Watch!Spec
=============================================================================
