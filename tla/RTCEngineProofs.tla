---------------------------- MODULE RTCEngineProofs ----------------------------
(***************************************************************************)
(* Proofs about RTCEngine, for every chunk length, threshold, latency,     *)
(* number of warmup inferences, of errors and of eras.                     *)
(*                                                                         *)
(* Everything is said of LeftOver, the actions not consumed yet; the first *)
(* lemmas tell what clear(), the two ways to merge and get() do to it.     *)
(* Eras stay in order because there is one inference thread: what it works *)
(* on is no older than what is queued and no newer than what was observed  *)
(* (Latest).  Backpressure works because the main loop only shortens the   *)
(* queue between the look at its size and the merge (RoomForChunk).        *)
(***************************************************************************)
EXTENDS RTCEngine, SequenceTheorems, TLAPS

(* The thread is between taking an observation and merging its chunk.       *)
Working == rtc \in {"size", "infer", "merge"}

GivenUp == rtc \in {"error", "halt", "failed"}

Latest == IF Working THEN job ELSE obs

(* The eras of q rise, from lo to hi.                                       *)
Rising(q, lo, hi) ==
  /\ lo <= hi
  /\ \A i \in 1..Len(q) : lo <= q[i].era /\ q[i].era <= hi
  /\ \A i, j \in 1..Len(q) : i < j => q[i].era <= q[j].era

RoomForChunk == rtc \in {"infer", "merge"} => Len(LeftOver) <= Threshold

IInv ==
  /\ TypeOK
  /\ Working => job >= 1
  /\ ~GivenUp => errors < MaxErrors
  /\ Rising(LeftOver, performed.era, Latest)
  /\ RoomForChunk
  /\ QueueBounded

-----------------------------------------------------------------------------
(* What is left over is a sequence of actions, of the length qsize() tells. *)
LEMMA LeftOverType ==
  ASSUME TypeOK
  PROVE  /\ LeftOver \in Seq(Action)
         /\ Len(LeftOver) = Len(queue) - lastIndex
         /\ \A i \in 1..Len(LeftOver) : LeftOver[i] = queue[lastIndex + i]
<1>1. /\ queue \in Seq(Action)
      /\ lastIndex \in Nat
      /\ lastIndex <= Len(queue)
      /\ Len(queue) \in Nat
  BY LenProperties DEF TypeOK
<1>2. \A i \in (lastIndex + 1)..Len(queue) : queue[i] \in Action
  BY <1>1, ElementOfSeq
<1>3. QED
  BY <1>1, <1>2, SubSeqProperties DEF LeftOver

(* clear() leaves nothing.                                                  *)
LEMMA ClearLeavesNothing ==
  ASSUME Clear
  PROVE  LeftOver' = <<>> /\ Len(LeftOver') = 0
<1>1. LeftOver' = SubSeq(<<>>, 1, 0)
  BY DEF Clear, LeftOver
<1>2. QED
  BY <1>1, SubSeqEmpty

(* A chunk is a sequence of actions of one era.                             *)
LEMMA ChunkType ==
  ASSUME NEW e \in 0..MaxEra
  PROVE  /\ Chunk(e) \in Seq(Action)
         /\ Len(Chunk(e)) = ChunkLen
         /\ \A i \in 1..ChunkLen : Chunk(e)[i].era = e
BY ChunkLenAssumption, EraAssumption DEF Chunk, Action

(* In RTC mode the end of the chunk is what is left over.                   *)
LEMMA ReplaceLeavesSuffix ==
  ASSUME NEW e \in 0..MaxEra, NEW delay \in 1..MaxDelay,
         queue' = SubSeq(Chunk(e), delay + 1, ChunkLen), lastIndex' = 0
  PROVE  /\ queue' \in Seq(Action)
         /\ LeftOver' = queue'
         /\ Len(queue') = IF delay < ChunkLen THEN ChunkLen - delay ELSE 0
         /\ \A i \in 1..Len(queue') : queue'[i].era = e
<1>1. /\ delay \in Nat
      /\ ChunkLen \in Nat
      /\ \A i \in (delay + 1)..ChunkLen : Chunk(e)[i] \in Action
      /\ \A i \in 1..ChunkLen : Chunk(e)[i].era = e
  BY ChunkType, ElementOfSeq, ChunkLenAssumption, DelayAssumption
<1>2. /\ queue' \in Seq(Action)
      /\ Len(queue') = IF delay < ChunkLen THEN ChunkLen - delay ELSE 0
      /\ \A i \in 1..(ChunkLen - delay) : queue'[i] = Chunk(e)[delay + i]
  BY <1>1, SubSeqProperties
<1>3. LeftOver' = queue'
  BY <1>2, SubSeqFull DEF LeftOver
<1>4. \A i \in 1..Len(queue') : queue'[i].era = e
  BY <1>1, <1>2
<1>5. QED
  BY <1>2, <1>3, <1>4

(* Without RTC the chunk follows what was left over.                        *)
LEMMA ExtendAppends ==
  ASSUME TypeOK, NEW e \in 0..MaxEra, Extend(Chunk(e))
  PROVE  /\ queue' \in Seq(Action)
         /\ lastIndex' = 0
         /\ LeftOver' = queue'
         /\ Len(queue') = Len(LeftOver) + ChunkLen
         /\ \A i \in 1..Len(queue') :
              \/ i <= Len(LeftOver) /\ queue'[i] = LeftOver[i]
              \/ i > Len(LeftOver) /\ queue'[i].era = e
<1>1. /\ LeftOver \in Seq(Action)
      /\ Len(LeftOver) \in Nat
      /\ Chunk(e) \in Seq(Action)
      /\ Len(Chunk(e)) = ChunkLen
      /\ \A i \in 1..ChunkLen : Chunk(e)[i].era = e
  BY LeftOverType, ChunkType, LenProperties
<1> DEFINE new == LeftOver \o Chunk(e)
<1>2. queue' = new /\ lastIndex' = 0
  BY DEF Extend
<1>3. /\ new \in Seq(Action)
      /\ Len(new) = Len(LeftOver) + ChunkLen
      /\ \A i \in 1..(Len(LeftOver) + ChunkLen) :
           new[i] = IF i <= Len(LeftOver) THEN LeftOver[i]
                    ELSE Chunk(e)[i - Len(LeftOver)]
  BY <1>1, ConcatProperties
<1>4. LeftOver' = new
  <2>1. LeftOver' = SubSeq(queue', lastIndex' + 1, Len(queue'))
    BY DEF LeftOver
  <2>2. SubSeq(new, 1, Len(new)) = new
    BY <1>3, SubSeqFull
  <2>3. QED
    BY <1>2, <2>1, <2>2
<1>5. \A i \in 1..Len(new) :
        \/ i <= Len(LeftOver) /\ new[i] = LeftOver[i]
        \/ i > Len(LeftOver) /\ new[i].era = e
  BY <1>1, <1>3, ChunkLenAssumption
<1> HIDE DEF new
<1>6. QED
  BY <1>2, <1>3, <1>4, <1>5

(* get() takes the first action left over.                                  *)
LEMMA GetTakesHead ==
  ASSUME TypeOK, GetAction
  PROVE  /\ LeftOver # <<>>
         /\ performed' = Head(LeftOver)
         /\ LeftOver' = Tail(LeftOver)
         /\ performed' = LeftOver[1]
         /\ Len(LeftOver') = Len(LeftOver) - 1
         /\ \A i \in 1..Len(LeftOver') : LeftOver'[i] = LeftOver[i + 1]
<1>1. /\ queue \in Seq(Action)
      /\ lastIndex \in Nat
      /\ Len(queue) \in Nat
      /\ lastIndex < Len(queue)
      /\ queue' = queue
      /\ lastIndex' = lastIndex + 1
      /\ performed' = queue[lastIndex + 1]
  BY LenProperties DEF TypeOK, GetAction
<1>2. /\ LeftOver \in Seq(Action)
      /\ Len(LeftOver) = Len(queue) - lastIndex
      /\ \A i \in 1..Len(LeftOver) : LeftOver[i] = queue[lastIndex + i]
  BY LeftOverType
<1>3. LeftOver # <<>>
  BY <1>1, <1>2, EmptySeq
<1>4. /\ Head(LeftOver) = queue[lastIndex + 1]
      /\ Tail(LeftOver) = SubSeq(queue, lastIndex + 2, Len(queue))
  BY <1>1, HeadTailOfSubSeq DEF LeftOver
<1>5. LeftOver' = SubSeq(queue, lastIndex + 2, Len(queue))
  BY <1>1 DEF LeftOver
<1>6. \A i \in (lastIndex + 2)..Len(queue) : queue[i] \in Action
  BY <1>1, ElementOfSeq
<1>7. /\ Len(LeftOver') = Len(queue) - lastIndex - 1
      /\ \A i \in 1..(Len(queue) - lastIndex - 1) : LeftOver'[i] = queue[lastIndex + 1 + i]
  BY <1>1, <1>5, <1>6, SubSeqProperties
<1>8. /\ performed' = Head(LeftOver)
      /\ LeftOver' = Tail(LeftOver)
  BY <1>1, <1>4, <1>5
<1>9. performed' = LeftOver[1] /\ Len(LeftOver') = Len(LeftOver) - 1
  BY <1>1, <1>2, <1>7
<1>10. \A i \in 1..Len(LeftOver') : LeftOver'[i] = LeftOver[i + 1]
  <2> DEFINE rest == LeftOver'
  <2>1. /\ Len(rest) = Len(queue) - lastIndex - 1
        /\ \A i \in 1..(Len(queue) - lastIndex - 1) : rest[i] = queue[lastIndex + 1 + i]
    BY <1>7
  <2> HIDE DEF rest
  <2>2. \A i \in 1..Len(rest) : rest[i] = LeftOver[i + 1]
    <3>1. TAKE i \in 1..Len(rest)
    <3>2. i \in 1..(Len(queue) - lastIndex - 1) /\ i + 1 \in 1..Len(LeftOver)
      BY <1>1, <1>2, <2>1, <3>1
    <3>3. lastIndex + 1 + i = lastIndex + (i + 1)
      BY <1>1, <3>2
    <3>4. QED
      BY <1>2, <2>1, <3>2, <3>3
  <2>3. QED
    BY <2>2 DEF rest
<1>11. QED
  BY <1>3, <1>8, <1>9, <1>10

-----------------------------------------------------------------------------
LEMMA InitEstablishes == Init => IInv
<1> SUFFICES ASSUME Init PROVE IInv
  OBVIOUS
<1> USE ChunkLenAssumption, ThresholdAssumption, WarmupAssumption,
        ErrorsAssumption, EraAssumption
<1>1. TypeOK
  <2>1. queue \in Seq(Action) /\ Len(queue) = 0
    BY EmptySeq DEF Init
  <2>2. performed \in Action
    BY DEF Init, Action
  <2>3. enabled \in BOOLEAN /\ ready \in BOOLEAN
    BY Zenon DEF Init
  <2>4. /\ lastIndex = 0 /\ obs = 0 /\ job = 0 /\ inferences = 0 /\ errors = 0 /\ era = 1
        /\ rtc = "check" /\ main = "top"
        /\ active = TRUE /\ shutdown = FALSE /\ global = FALSE
        /\ paused = FALSE /\ flushed = FALSE
    BY Zenon DEF Init
  <2>5. QED
    <3>1. lastIndex \in 0..Len(queue) /\ obs \in 0..era /\ job \in 0..obs
      BY <2>1, <2>4
    <3>2. inferences \in 0..(Warmup + 1) /\ errors \in 0..MaxErrors /\ era \in 1..MaxEra
      BY <2>4
    <3>3. QED
      BY <2>1, <2>2, <2>3, <2>4, <3>1, <3>2, Zenon DEF TypeOK
<1>2. LeftOver = <<>> /\ Len(LeftOver) = 0
  BY SubSeqEmpty DEF Init, LeftOver
<1>3. Rising(LeftOver, performed.era, Latest)
  BY <1>2 DEF Init, Rising, Latest, Working
<1>4. QED
  BY <1>1, <1>2, <1>3 DEF Init, IInv, Working, GivenUp, RoomForChunk, QueueBounded

LEMMA ErasAreNumbers ==
  ASSUME NEW q \in Seq(Action), NEW i \in 1..Len(q)
  PROVE  q[i].era \in Nat
<1>1. q[i] \in Action
  BY ElementOfSeq
<1>2. QED
  BY <1>1, EraAssumption DEF Action

(* A step that leaves the queue and the robot alone preserves IInv, if what *)
(* the thread works on or would work on does not get older and the way to a *)
(* merge leads past the look at the queue's size.                           *)
LEMMA QuietStep ==
  ASSUME IInv, TypeOK',
         UNCHANGED <<enabled, queue, lastIndex, performed>>,
         Working' => job' >= 1,
         ~GivenUp' => errors' < MaxErrors,
         Latest <= Latest',
         rtc' \in {"infer", "merge"} =>
           rtc \in {"infer", "merge"} \/ Len(LeftOver) <= Threshold
  PROVE  IInv'
<1>1. LeftOver' = LeftOver
  BY DEF LeftOver
<1>2. /\ performed.era \in Nat
      /\ Latest \in Nat
      /\ Latest' \in Nat
      /\ LeftOver \in Seq(Action)
  BY LeftOverType, EraAssumption DEF IInv, TypeOK, Action, Latest
<1>3. \A i \in 1..Len(LeftOver) : LeftOver[i].era \in Nat
  BY <1>2, ErasAreNumbers
<1>4. Rising(LeftOver, performed.era, Latest')
  BY <1>2, <1>3 DEF IInv, Rising
<1>5. Rising(LeftOver, performed.era, Latest)'
  BY <1>1, <1>4
<1>6. RoomForChunk' /\ QueueBounded'
  BY <1>1 DEF IInv, RoomForChunk, QueueBounded
<1>7. QED
  BY <1>5, <1>6 DEF IInv

(* A merge preserves IInv: of the queue it leaves, the first actions were   *)
(* left over and the others are of the chunk.                               *)
LEMMA MergePreserves ==
  ASSUME IInv, Merge,
         queue' \in Seq(Action), lastIndex' = 0, LeftOver' = queue',
         QueueBounded',
         NEW old \in 0..Len(LeftOver),
         \A i \in 1..Len(queue') :
           \/ i <= old /\ queue'[i] = LeftOver[i]
           \/ i > old /\ queue'[i].era = job
  PROVE  IInv'
<1> USE ChunkLenAssumption, ThresholdAssumption, WarmupAssumption,
        ErrorsAssumption, EraAssumption
<1>1. TypeOK'
  <2>1. Len(queue') \in Nat
    BY LenProperties
  <2>2. QED
    BY <2>1 DEF IInv, TypeOK, Merge, events, rtcVars, mainVars
<1>2. /\ performed.era \in Nat
      /\ job \in Nat
      /\ obs \in Nat
      /\ job <= obs
      /\ LeftOver \in Seq(Action)
      /\ Len(LeftOver) \in Nat
  BY LeftOverType, LenProperties DEF IInv, TypeOK, Action
<1>3. Rising(LeftOver, performed.era, job)
  BY DEF IInv, Merge, Latest, Working
<1>4. \A i \in 1..Len(LeftOver) : LeftOver[i].era \in Nat
  BY <1>2, ErasAreNumbers
<1>5. Rising(queue', performed.era, obs)
  <2> DEFINE new == queue'
  <2>1. /\ Len(new) \in Nat
        /\ \A i \in 1..Len(new) :
             \/ i <= old /\ new[i] = LeftOver[i]
             \/ i > old /\ new[i].era = job
    BY LenProperties
  <2> HIDE DEF new
  <2>2. \A i \in 1..Len(new) : /\ new[i].era \in Nat
                                /\ performed.era <= new[i].era
                                /\ new[i].era <= job
    BY <1>2, <1>3, <1>4, <2>1 DEF Rising
  <2>3. \A i, j \in 1..Len(new) : i < j => new[i].era <= new[j].era
    <3>1. TAKE i, j \in 1..Len(new)
    <3>2. HAVE i < j
    <3>3. CASE j <= old
      BY <1>2, <1>3, <2>1, <3>1, <3>2, <3>3 DEF Rising
    <3>4. CASE j > old
      BY <2>1, <2>2, <3>1, <3>4
    <3>5. QED
      BY <2>1, <3>3, <3>4
  <2>4. Rising(new, performed.era, obs)
    BY <1>2, <1>3, <2>2, <2>3 DEF Rising
  <2>5. QED
    BY <2>4 DEF new
<1>6. Rising(LeftOver, performed.era, Latest)'
  BY <1>5 DEF Merge, Latest, Working, rtcVars, mainVars
<1>7. QED
  BY <1>1, <1>6 DEF IInv, Merge, Working, GivenUp, RoomForChunk, rtcVars

LEMMA RTCLoopPreserves ==
  ASSUME IInv, RTCLoop
  PROVE  IInv'
<1> USE ChunkLenAssumption, ThresholdAssumption, WarmupAssumption,
        ErrorsAssumption, EraAssumption
<1> USE DEF queueVars, events, rtcVars, mainVars
<1>1. CASE LeaveRTCLoop
  <2>1. TypeOK' /\ Latest <= Latest'
    BY <1>1 DEF IInv, TypeOK, LeaveRTCLoop, Latest, Working
  <2>2. /\ Working' => job' >= 1
        /\ ~GivenUp' => errors' < MaxErrors
    BY <1>1 DEF IInv, TypeOK, LeaveRTCLoop, Working, GivenUp
  <2>3. QED
    BY <1>1, <2>1, <2>2, QuietStep DEF LeaveRTCLoop
<1>2. CASE TakeObservation
  <2>1. TypeOK' /\ Latest <= Latest'
    BY <1>2 DEF IInv, TypeOK, TakeObservation, Latest, Working
  <2>2. /\ Working' => job' >= 1
        /\ ~GivenUp' => errors' < MaxErrors
    BY <1>2 DEF IInv, TypeOK, TakeObservation, Working, GivenUp
  <2>3. QED
    BY <1>2, <2>1, <2>2, QuietStep DEF TakeObservation
<1>3. CASE QueueLow
  <2>1. TypeOK' /\ Latest <= Latest'
    BY <1>3 DEF IInv, TypeOK, QueueLow, Latest, Working
  <2>2. /\ Working' => job' >= 1
        /\ ~GivenUp' => errors' < MaxErrors
    BY <1>3 DEF IInv, TypeOK, QueueLow, Working, GivenUp
  <2>3. Len(LeftOver) <= Threshold
    BY <1>3, LeftOverType DEF IInv, QueueLow
  <2>4. QED
    BY <1>3, <2>1, <2>2, <2>3, QuietStep DEF QueueLow
<1>4. CASE QueueFull
  <2>1. TypeOK' /\ Latest <= Latest'
    BY <1>4 DEF IInv, TypeOK, QueueFull, Latest, Working
  <2>2. /\ Working' => job' >= 1
        /\ ~GivenUp' => errors' < MaxErrors
    BY <1>4 DEF IInv, TypeOK, QueueFull, Working, GivenUp
  <2>3. QED
    BY <1>4, <2>1, <2>2, QuietStep DEF QueueFull
<1>5. CASE Infer
  <2>1. TypeOK' /\ Latest <= Latest'
    BY <1>5 DEF IInv, TypeOK, Infer, Latest, Working
  <2>2. /\ Working' => job' >= 1
        /\ ~GivenUp' => errors' < MaxErrors
    BY <1>5 DEF IInv, TypeOK, Infer, Working, GivenUp
  <2>3. QED
    BY <1>5, <2>1, <2>2, QuietStep DEF Infer
<1>6. CASE InferenceFails
  <2>1. TypeOK' /\ Latest <= Latest'
    BY <1>6 DEF IInv, TypeOK, InferenceFails, Latest, Working, GivenUp
  <2>2. /\ Working' => job' >= 1
        /\ ~GivenUp' => errors' < MaxErrors
    BY <1>6 DEF IInv, TypeOK, InferenceFails, Working, GivenUp
  <2>3. QED
    BY <1>6, <2>1, <2>2, QuietStep DEF InferenceFails
<1>7. CASE WarmupDone
  <2>1. TypeOK' /\ Latest <= Latest'
    BY <1>7 DEF IInv, TypeOK, WarmupDone, Latest, Working
  <2>2. /\ Working' => job' >= 1
        /\ ~GivenUp' => errors' < MaxErrors
    BY <1>7 DEF IInv, TypeOK, WarmupDone, Working, GivenUp
  <2>3. QED
    BY <1>7, <2>1, <2>2, QuietStep DEF WarmupDone
<1>8. CASE UnblockWarmup
  <2>1. TypeOK' /\ Latest <= Latest'
    BY <1>8 DEF IInv, TypeOK, UnblockWarmup, Latest, Working
  <2>2. /\ Working' => job' >= 1
        /\ ~GivenUp' => errors' < MaxErrors
    BY <1>8 DEF IInv, TypeOK, UnblockWarmup, Working, GivenUp
  <2>3. QED
    BY <1>8, <2>1, <2>2, QuietStep DEF UnblockWarmup
<1>9. CASE GlobalShutdown
  <2>1. TypeOK' /\ Latest <= Latest'
    BY <1>9 DEF IInv, TypeOK, GlobalShutdown, Latest, Working
  <2>2. /\ Working' => job' >= 1
        /\ ~GivenUp' => errors' < MaxErrors
    BY <1>9 DEF IInv, TypeOK, GlobalShutdown, Working, GivenUp
  <2>3. QED
    BY <1>9, <2>1, <2>2, QuietStep DEF GlobalShutdown
<1>10. CASE Merge
  <2>1. job \in 0..MaxEra /\ job >= 1 /\ job <= obs
    BY <1>10 DEF IInv, TypeOK, Merge, Working
  <2>5. Len(LeftOver) \in Nat
    BY LeftOverType, LenProperties DEF IInv
  <2>2. CASE enabled
    <3>1. PICK delay \in 1..MaxDelay :
            queue' = SubSeq(Chunk(job), delay + 1, ChunkLen) /\ lastIndex' = 0
      BY <1>10, <2>2 DEF Merge, Replace
    <3>2. /\ queue' \in Seq(Action)
          /\ LeftOver' = queue'
          /\ Len(queue') = IF delay < ChunkLen THEN ChunkLen - delay ELSE 0
          /\ \A i \in 1..Len(queue') : queue'[i].era = job
      BY <2>1, <3>1, ReplaceLeavesSuffix
    <3>3. Len(queue') \in 0..(ChunkLen - 1)
      BY <3>2, DelayAssumption
    <3>4. QueueBounded'
      BY <1>10, <2>2, <3>2, <3>3 DEF Merge, QueueBounded
    <3>5. /\ 0 \in 0..Len(LeftOver)
          /\ \A i \in 1..Len(queue') : i > 0 /\ queue'[i].era = job
      BY <2>5, <3>2, <3>3
    <3>6. QED
      BY <1>10, <3>1, <3>2, <3>4, <3>5, MergePreserves
  <2>3. CASE ~enabled
    <3>1. Extend(Chunk(job))
      BY <1>10, <2>3 DEF Merge
    <3>2. /\ queue' \in Seq(Action)
          /\ lastIndex' = 0
          /\ LeftOver' = queue'
          /\ Len(queue') = Len(LeftOver) + ChunkLen
          /\ \A i \in 1..Len(queue') :
               \/ i <= Len(LeftOver) /\ queue'[i] = LeftOver[i]
               \/ i > Len(LeftOver) /\ queue'[i].era = job
      BY <2>1, <3>1, ExtendAppends DEF IInv
    <3>3. Len(LeftOver) \in Nat /\ Len(LeftOver) <= Threshold
      BY <1>10, <2>5 DEF IInv, Merge, RoomForChunk
    <3>4. QueueBounded'
      BY <1>10, <2>3, <3>2, <3>3 DEF Merge, QueueBounded
    <3>5. QED
      BY <1>10, <3>2, <3>3, <3>4, MergePreserves
  <2>4. QED
    BY <2>2, <2>3
<1>11. QED
  BY <1>1, <1>2, <1>3, <1>4, <1>5, <1>6, <1>7, <1>8, <1>9, <1>10 DEF RTCLoop

(* A step that clears the queue and leaves the rest to itself preserves     *)
(* IInv.                                                                    *)
LEMMA ClearPreserves ==
  ASSUME IInv, TypeOK', Clear,
         UNCHANGED <<enabled, performed, rtc, job, obs, errors>>
  PROVE  IInv'
<1>1. LeftOver' = <<>> /\ Len(LeftOver') = 0
  BY ClearLeavesNothing
<1>2. Latest' = Latest /\ performed.era <= Latest
  BY DEF IInv, Latest, Working, Rising
<1>3. Rising(LeftOver, performed.era, Latest)'
  BY <1>1, <1>2 DEF Rising
<1>4. RoomForChunk' /\ QueueBounded'
  BY <1>1, ChunkLenAssumption, ThresholdAssumption DEF RoomForChunk, QueueBounded
<1>5. QED
  BY <1>3, <1>4 DEF IInv, Working, GivenUp

LEMMA GetActionPreserves ==
  ASSUME IInv, GetAction
  PROVE  IInv'
<1>1. TypeOK
  BY DEF IInv
<1>2. /\ performed' = LeftOver[1]
      /\ Len(LeftOver') = Len(LeftOver) - 1
      /\ \A i \in 1..Len(LeftOver') : LeftOver'[i] = LeftOver[i + 1]
      /\ LeftOver # <<>>
  BY <1>1, GetTakesHead
<1>3. LeftOver \in Seq(Action) /\ Len(LeftOver) \in Nat /\ Len(LeftOver) >= 1
  BY <1>1, <1>2, LeftOverType, EmptySeq, LenProperties
<1>4. performed' \in Action
  BY <1>2, <1>3, ElementOfSeq
<1>5. TypeOK'
  <2>1. Len(queue) \in Nat /\ lastIndex' \in 0..Len(queue)
    BY <1>1, LenProperties DEF TypeOK, GetAction
  <2>2. QED
    BY <1>1, <1>4, <2>1 DEF TypeOK, GetAction, events, rtcVars
<1>6. Latest' = Latest
  BY DEF GetAction, Latest, Working, rtcVars
<1>7. Rising(LeftOver, performed.era, Latest)'
  <2> DEFINE rest == LeftOver'
  <2>1. /\ Len(rest) = Len(LeftOver) - 1
        /\ \A i \in 1..Len(rest) : rest[i] = LeftOver[i + 1]
    BY <1>2
  <2> HIDE DEF rest
  <2>2. /\ \A i \in 1..Len(LeftOver) : LeftOver[i].era <= Latest
        /\ \A i, j \in 1..Len(LeftOver) : i < j => LeftOver[i].era <= LeftOver[j].era
    BY DEF IInv, Rising
  <2>3. 1 \in 1..Len(LeftOver) /\ Len(rest) \in Nat
    BY <1>3, <2>1
  <2>4. \A i \in 1..Len(rest) : i + 1 \in 1..Len(LeftOver) /\ 1 < i + 1
    BY <1>3, <2>1
  <2>5. \A i \in 1..Len(rest) : LeftOver[1].era <= rest[i].era /\ rest[i].era <= Latest
    BY <2>1, <2>2, <2>3, <2>4
  <2>6. \A i, j \in 1..Len(rest) : i < j => rest[i].era <= rest[j].era
    <3>1. TAKE i, j \in 1..Len(rest)
    <3>2. HAVE i < j
    <3>3. i + 1 < j + 1
      BY <2>3, <3>1, <3>2
    <3>4. QED
      BY <2>1, <2>2, <2>4, <3>1, <3>3
  <2>7. Rising(rest, LeftOver[1].era, Latest)
    BY <2>2, <2>3, <2>5, <2>6 DEF Rising
  <2>8. QED
    BY <1>2, <1>6, <2>7 DEF rest, Rising
<1>8. RoomForChunk' /\ QueueBounded'
  BY <1>2, <1>3, ChunkLenAssumption, ThresholdAssumption
     DEF IInv, GetAction, RoomForChunk, QueueBounded, rtcVars
<1>9. QED
  BY <1>5, <1>7, <1>8 DEF IInv, GetAction, Working, GivenUp, rtcVars

LEMMA MainPreserves ==
  ASSUME IInv, ControlLoop \/ Operator
  PROVE  IInv'
<1> USE ChunkLenAssumption, ThresholdAssumption, WarmupAssumption,
        ErrorsAssumption, EraAssumption
<1> USE DEF queueVars, events, rtcVars
<1>1. CASE LeaveOnShutdown
  <2>1. TypeOK'
    BY <1>1 DEF IInv, TypeOK, LeaveOnShutdown
  <2>2. Latest <= Latest'
    BY <1>1 DEF IInv, TypeOK, LeaveOnShutdown, Latest, Working
  <2>3. QED
    BY <1>1, <2>1, <2>2, QuietStep DEF IInv, LeaveOnShutdown, Working, GivenUp
<1>2. CASE Resume
  <2>1. TypeOK'
    BY <1>2 DEF IInv, TypeOK, Resume
  <2>2. Latest <= Latest'
    BY <1>2 DEF IInv, TypeOK, Resume, Latest, Working
  <2>3. QED
    BY <1>2, <2>1, <2>2, QuietStep DEF IInv, Resume, Working, GivenUp
<1>3. CASE Notify
  <2>1. TypeOK' /\ Latest <= Latest'
    BY <1>3 DEF IInv, TypeOK, Notify, Latest, Working
  <2>2. QED
    BY <1>3, <2>1, QuietStep DEF IInv, Notify, Working, GivenUp
<1>4. CASE WaitForWarmup
  <2>1. TypeOK' /\ Latest <= Latest'
    BY <1>4 DEF IInv, TypeOK, WaitForWarmup, Latest, Working
  <2>2. QED
    BY <1>4, <2>1, QuietStep DEF IInv, WaitForWarmup, Working, GivenUp
<1>5. CASE FlushWarmup
  <2>1. TypeOK'
    BY <1>5, EmptySeq DEF IInv, TypeOK, FlushWarmup, Clear
  <2>2. QED
    BY <1>5, <2>1, ClearPreserves DEF FlushWarmup
<1>6. CASE ResumeFlushed
  <2>1. TypeOK' /\ Latest <= Latest'
    BY <1>6 DEF IInv, TypeOK, ResumeFlushed, Latest, Working
  <2>2. QED
    BY <1>6, <2>1, QuietStep DEF IInv, ResumeFlushed, Working, GivenUp
<1>7. CASE GetAction
  BY <1>7, GetActionPreserves
<1>8. CASE GetNothing
  <2>1. TypeOK' /\ Latest <= Latest'
    BY <1>8 DEF IInv, TypeOK, GetNothing, Latest, Working
  <2>2. QED
    BY <1>8, <2>1, QuietStep DEF IInv, GetNothing, Working, GivenUp
<1>9. CASE StopEngine
  <2>1. TypeOK'
    BY <1>9 DEF IInv, TypeOK, StopEngine
  <2>2. Latest <= Latest'
    BY <1>9 DEF IInv, TypeOK, StopEngine, Latest, Working
  <2>3. QED
    BY <1>9, <2>1, <2>2, QuietStep DEF IInv, StopEngine, Working, GivenUp
<1>10. CASE JoinReturns
  <2>1. TypeOK' /\ Latest <= Latest'
    BY <1>10 DEF IInv, TypeOK, JoinReturns, Latest, Working
  <2>2. QED
    BY <1>10, <2>1, QuietStep DEF IInv, JoinReturns, Working, GivenUp
<1>11. CASE LeaveLoop
  <2>1. TypeOK'
    BY <1>11 DEF IInv, TypeOK, LeaveLoop
  <2>2. Latest <= Latest'
    BY <1>11 DEF IInv, TypeOK, LeaveLoop, Latest, Working
  <2>3. QED
    BY <1>11, <2>1, <2>2, QuietStep DEF IInv, LeaveLoop, Working, GivenUp
<1>12. CASE Pause
  <2>1. TypeOK'
    BY <1>12 DEF IInv, TypeOK, Pause
  <2>2. Latest <= Latest'
    BY <1>12 DEF IInv, TypeOK, Pause, Latest, Working
  <2>3. QED
    BY <1>12, <2>1, <2>2, QuietStep DEF IInv, Pause, Working, GivenUp
<1>13. CASE ResetEngine
  <2>1. TypeOK'
    BY <1>13, EmptySeq DEF IInv, TypeOK, ResetEngine, Clear
  <2>2. QED
    BY <1>13, <2>1, ClearPreserves DEF ResetEngine
<1>14. QED
  BY <1>1, <1>2, <1>3, <1>4, <1>5, <1>6, <1>7, <1>8, <1>9, <1>10, <1>11, <1>12, <1>13 DEF ControlLoop, Operator

LEMMA NextPreserves == IInv /\ [Next]_vars => IInv'
<1> SUFFICES ASSUME IInv, [Next]_vars PROVE IInv'
  OBVIOUS
<1>1. CASE RTCLoop
  BY <1>1, RTCLoopPreserves
<1>2. CASE ControlLoop \/ Operator
  BY <1>2, MainPreserves
<1>3. CASE Terminated \/ UNCHANGED vars
  <2>1. UNCHANGED vars
    BY <1>3 DEF Terminated
  <2>2. TypeOK'
    BY <2>1 DEF IInv, TypeOK, vars, queueVars, events, rtcVars, mainVars
  <2>3. Latest' = Latest /\ Latest \in Int
    BY <2>1, EraAssumption DEF IInv, TypeOK, Latest, Working, vars, rtcVars
  <2>4. QED
    BY <2>1, <2>2, <2>3, QuietStep
       DEF IInv, Working, GivenUp, vars, queueVars, rtcVars, mainVars
<1>4. QED
  BY <1>1, <1>2, <1>3 DEF Next

-----------------------------------------------------------------------------
THEOREM Invariance == Spec => []IInv
BY InitEstablishes, NextPreserves, PTL DEF Spec

(* Every variable of the engine and the main loop keeps its type.           *)
THEOREM EngineTypeCorrect == Spec => []TypeOK
<1>1. IInv => TypeOK
  BY DEF IInv
<1>2. QED
  BY <1>1, Invariance, PTL

(* Backpressure bounds the queue although size, inference and merge are     *)
(* separate steps (rtc.py:270 and 324).                                     *)
THEOREM QueueStaysBounded == Spec => []QueueBounded
<1>1. IInv => QueueBounded
  BY DEF IInv
<1>2. QED
  BY <1>1, Invariance, PTL

(* Only get() moves the robot, and it takes the oldest action left over.    *)
LEMMA OnlyGetActionPerforms ==
  ASSUME IInv, [Next]_vars
  PROVE  performed' # performed => performed'.era >= performed.era
<1>1. CASE GetAction
  <2>1. /\ performed' = LeftOver[1]
        /\ LeftOver \in Seq(Action)
        /\ Len(LeftOver) \in Nat
        /\ LeftOver # <<>>
    BY <1>1, GetTakesHead, LeftOverType, LenProperties DEF IInv
  <2>2. 1 \in 1..Len(LeftOver)
    BY <2>1, EmptySeq
  <2>3. QED
    BY <2>1, <2>2 DEF IInv, Rising
<1>2. CASE ~GetAction
  BY <1>2 DEF Next, RTCLoop, ControlLoop, Operator, Terminated, vars, mainVars,
     LeaveRTCLoop, TakeObservation, QueueLow, QueueFull, Infer, InferenceFails, Merge,
     WarmupDone, UnblockWarmup, GlobalShutdown, LeaveOnShutdown, Resume, Notify,
     WaitForWarmup, FlushWarmup, ResumeFlushed, GetNothing, StopEngine, JoinReturns,
     LeaveLoop, Pause, ResetEngine
<1>3. QED
  BY <1>1, <1>2

(* The robot never falls back to an action predicted before one it has      *)
(* performed, however pauses, resets and inferences interleave.             *)
THEOREM ErasStayInOrder == Spec => ErasInOrder
<1>1. IInv /\ [Next]_vars => [performed' # performed => performed'.era >= performed.era]_vars
  BY OnlyGetActionPerforms
<1>2. QED
  BY <1>1, Invariance, PTL DEF Spec, ErasInOrder

-----------------------------------------------------------------------------
(* A merge replaces or extends the buffer.                                  *)
LEMMA MergeImplements ==
  ASSUME IInv, Merge
  PROVE  Buffer!Next
<1>1. job \in 0..MaxEra /\ job \in 1..MaxEra /\ performed' = performed
  BY EraAssumption DEF IInv, TypeOK, Merge, Working, mainVars
<1>2. Buffer!Chunk(job) = Chunk(job)
  BY DEF Chunk, Buffer!Chunk
<1>3. CASE enabled
  <2>1. PICK delay \in 1..MaxDelay :
          queue' = SubSeq(Chunk(job), delay + 1, ChunkLen) /\ lastIndex' = 0
    BY <1>3 DEF Merge, Replace
  <2>2. LeftOver' = SubSeq(Chunk(job), delay + 1, ChunkLen)
    BY <1>1, <2>1, ReplaceLeavesSuffix
  <2>3. PICK d \in 1..ChunkLen :
          LeftOver' = SubSeq(Chunk(job), d + 1, ChunkLen)
    <3>1. CASE delay <= ChunkLen
      BY <2>2, <3>1, ChunkLenAssumption, DelayAssumption
    <3>2. CASE delay > ChunkLen
      <4>1. SubSeq(Chunk(job), delay + 1, ChunkLen) = <<>>
        BY <3>2, SubSeqEmpty, ChunkLenAssumption, DelayAssumption
      <4>2. SubSeq(Chunk(job), ChunkLen + 1, ChunkLen) = <<>>
        BY SubSeqEmpty, ChunkLenAssumption
      <4>3. QED
        BY <2>2, <4>1, <4>2, ChunkLenAssumption
    <3>3. QED
      BY <3>1, <3>2, ChunkLenAssumption, DelayAssumption
  <2>4. Buffer!Replace
    BY <1>1, <1>2, <2>3 DEF Buffer!Replace
  <2>5. QED
    BY <2>4 DEF Buffer!Next
<1>4. CASE ~enabled
  <2>1. Extend(Chunk(job))
    BY <1>4 DEF Merge
  <2>2. LeftOver' = LeftOver \o Chunk(job)
    <3>1. LeftOver' = queue'
      BY <1>1, <2>1, ExtendAppends DEF IInv
    <3>2. QED
      BY <2>1, <3>1 DEF Extend
  <2>3. Buffer!Extend
    BY <1>1, <1>2, <2>2 DEF Buffer!Extend
  <2>4. QED
    BY <2>3 DEF Buffer!Next
<1>5. QED
  BY <1>3, <1>4

LEMMA StepImplements ==
  ASSUME IInv, [Next]_vars
  PROVE  [Buffer!Next]_(Buffer!vars)
<1>1. CASE Merge
  BY <1>1, MergeImplements
<1>2. CASE GetAction
  <2>1. Buffer!Perform
    BY <1>2, GetTakesHead DEF IInv, Buffer!Perform
  <2>2. QED
    BY <2>1 DEF Buffer!Next
<1>3. CASE FlushWarmup \/ ResetEngine
  <2>1. Clear /\ performed' = performed
    BY <1>3 DEF FlushWarmup, ResetEngine
  <2>2. LeftOver' = <<>>
    BY <2>1, ClearLeavesNothing
  <2>3. Buffer!Empty
    BY <2>1, <2>2 DEF Buffer!Empty
  <2>4. QED
    BY <2>3 DEF Buffer!Next
<1>4. CASE ~(Merge \/ GetAction \/ FlushWarmup \/ ResetEngine)
  <2>1. UNCHANGED <<queue, lastIndex, performed>>
    BY <1>4 DEF Next, RTCLoop, ControlLoop, Operator, Terminated, vars, mainVars,
       queueVars, LeaveRTCLoop, TakeObservation, QueueLow, QueueFull, Infer,
       InferenceFails, WarmupDone, UnblockWarmup, GlobalShutdown, LeaveOnShutdown,
       Resume, Notify, WaitForWarmup, ResumeFlushed, GetNothing, StopEngine,
       JoinReturns, LeaveLoop, Pause
  <2>2. LeftOver' = LeftOver
    BY <2>1 DEF LeftOver
  <2>3. QED
    BY <2>1, <2>2 DEF Buffer!vars
<1>5. QED
  BY <1>1, <1>2, <1>3, <1>4

(* The queue with its consumption index, two ways to merge, a clear() from  *)
(* another thread and a get() by the main loop is a plain buffer: no action *)
(* of a chunk is performed twice and none is jumped over.                   *)
THEOREM EngineImplementsBuffer == Spec => ImplementsActionBuffer
<1>1. Init => Buffer!Init
  <2> SUFFICES ASSUME Init PROVE Buffer!Init
    OBVIOUS
  <2>1. LeftOver = <<>>
    BY SubSeqEmpty DEF Init, LeftOver
  <2>2. QED
    BY <2>1 DEF Init, Buffer!Init
<1>2. IInv /\ [Next]_vars => [Buffer!Next]_(Buffer!vars)
  BY StepImplements
<1>3. QED
  BY <1>1, <1>2, Invariance, PTL DEF Spec, ImplementsActionBuffer, Buffer!Spec

-----------------------------------------------------------------------------
(* When the thread gives up, it says so, and the main loop, wherever it is,  *)
(* ends.                                                                     *)
FailureSeen == rtc = "failed" => global

LEMMA FailureIsSeen == Spec => []FailureSeen
<1>1. Init => FailureSeen
  BY DEF Init, FailureSeen
<1>2. FailureSeen /\ [Next]_vars => FailureSeen'
  BY DEF FailureSeen, Next, RTCLoop, ControlLoop, Operator, vars, events, rtcVars, mainVars,
         LeaveRTCLoop, TakeObservation, QueueLow, QueueFull, Infer, InferenceFails, Merge,
         WarmupDone, UnblockWarmup, GlobalShutdown, LeaveOnShutdown, Resume, Notify,
         WaitForWarmup, FlushWarmup, ResumeFlushed, GetAction, GetNothing, StopEngine,
         JoinReturns, LeaveLoop, Pause, ResetEngine, Terminated
<1>3. QED
  BY <1>1, <1>2, PTL DEF Spec

(* The thread's places after a fatal error.                                 *)
LEMMA ThreadEnds ==
  ASSUME rtc \in {"error", "halt"}, [Next]_vars
  PROVE  /\ rtc' = rtc \/ (rtc = "error" /\ rtc' = "halt") \/ (rtc = "halt" /\ global')
         /\ RTCLoop => rtc' # rtc
BY DEF Next, RTCLoop, ControlLoop, Operator, vars, events, rtcVars, mainVars,
       LeaveRTCLoop, TakeObservation, QueueLow, QueueFull, Infer, InferenceFails, Merge,
       WarmupDone, UnblockWarmup, GlobalShutdown, LeaveOnShutdown, Resume, Notify,
       WaitForWarmup, FlushWarmup, ResumeFlushed, GetAction, GetNothing, StopEngine,
       JoinReturns, LeaveLoop, Pause, ResetEngine, Terminated

(* The places the main loop goes through once the event is set.             *)
Onward(p, q) ==
  \/ p = "resume" /\ q = "notify"
  \/ p = "notify" /\ q = "get"
  \/ p = "get" /\ q \in {"top", "flush"}
  \/ p = "flush" /\ q = "get"
  \/ p = "top" /\ q = "stop"
  \/ p = "stop" /\ q = "join"
  \/ p = "join" /\ q = "done"

LEMMA LoopEnds ==
  ASSUME global, [Next]_vars
  PROVE  /\ global'
         /\ (main' = main /\ flushed' = flushed) \/ Onward(main, main')
         /\ flushed => flushed'
         /\ main = "get" /\ main' = "flush" => ~flushed /\ flushed'
         /\ ControlLoop => main' # main
<1> DEFINE Same == global' /\ main' = main /\ flushed' = flushed
           Goes == global' /\ Onward(main, main') /\ flushed' = flushed /\ main' # main
                   /\ ~(main = "get" /\ main' = "flush")
<1>1. RTCLoop \/ Terminated \/ UNCHANGED vars => Same
  BY DEF RTCLoop, Terminated, vars, events, mainVars, LeaveRTCLoop, TakeObservation, QueueLow,
         QueueFull, Infer, InferenceFails, Merge, WarmupDone, UnblockWarmup, GlobalShutdown
<1>2. ~Operator
  BY DEF Operator, LeaveLoop, Pause, ResetEngine
<1>3. LeaveOnShutdown \/ Resume \/ Notify \/ WaitForWarmup => Goes
  BY DEF Onward, LeaveOnShutdown, Resume, Notify, WaitForWarmup, events, mainVars
<1>4. ResumeFlushed \/ GetAction \/ GetNothing \/ StopEngine \/ JoinReturns => Goes
  BY DEF Onward, ResumeFlushed, GetAction, GetNothing, StopEngine, JoinReturns, MayGetAction,
         events, mainVars
<1>5. FlushWarmup =>
        /\ global' /\ Onward(main, main') /\ main' # main
        /\ ~flushed /\ flushed'
  BY DEF Onward, FlushWarmup, events
<1>6. ControlLoop =>
        Goes \/ (global' /\ Onward(main, main') /\ main' # main /\ ~flushed /\ flushed')
  BY <1>3, <1>4, <1>5 DEF ControlLoop
<1>7. ControlLoop \/ Same
  BY <1>1, <1>2 DEF Next
<1> HIDE DEF Same
<1>8. CASE ControlLoop
  BY <1>6, <1>8
<1>9. CASE Same /\ ~ControlLoop
  BY <1>9 DEF Same
<1>10. QED
  BY <1>7, <1>8, <1>9

(* The thread having failed, the event gets set.                            *)
LEMMA FailureSpreads ==
  FairSpec /\ []GoesOn => (GivenUp ~> global)
<1>1. rtc = "error" /\ [Next]_vars => (rtc = "error")' \/ (rtc = "halt")'
  BY ThreadEnds
<1>2. rtc = "error" /\ <<RTCLoop>>_vars /\ [Next]_vars => (rtc = "halt")'
  BY ThreadEnds
<1>3. rtc = "halt" /\ [Next]_vars => (rtc = "halt")' \/ global'
  BY ThreadEnds
<1>4. rtc = "halt" /\ <<RTCLoop>>_vars /\ [Next]_vars => global'
  BY ThreadEnds
<1>5. GoesOn /\ (rtc = "error" \/ rtc = "halt") => ENABLED <<RTCLoop>>_vars
  BY DEF GoesOn
<1>6. GivenUp /\ FailureSeen => rtc = "error" \/ rtc = "halt" \/ global
  BY DEF GivenUp, FailureSeen
<1>7. QED
  BY <1>1, <1>2, <1>3, <1>4, <1>5, <1>6, FailureIsSeen, PTL DEF FairSpec, Spec

(* The event being set, the main loop ends: from each place it can only stay *)
(* or go on, and it flushes at most once.                                    *)
LEMMA LoopLeaves ==
  FairSpec /\ []GoesOn => (global /\ main # "done" ~> main = "done")
<1> DEFINE P(p) == global /\ main = p
           Flush == P("flush") /\ flushed
           Get == P("get") /\ flushed
<1>1. P("resume") /\ [Next]_vars => (P("resume")' /\ ~ControlLoop) \/ P("notify")'
  BY LoopEnds DEF Onward
<1>2. P("notify") /\ [Next]_vars => (P("notify")' /\ ~ControlLoop) \/ P("get")'
  BY LoopEnds DEF Onward
<1>3. P("flush") /\ [Next]_vars => (P("flush")' /\ ~ControlLoop) \/ P("get")'
  BY LoopEnds DEF Onward
<1>4. P("get") /\ [Next]_vars => (P("get")' /\ ~ControlLoop) \/ P("top")' \/ Flush'
  BY LoopEnds DEF Onward
<1>5. Flush /\ [Next]_vars => (Flush' /\ ~ControlLoop) \/ Get'
  BY LoopEnds DEF Onward
<1>6. Get /\ [Next]_vars => (Get' /\ ~ControlLoop) \/ P("top")'
  BY LoopEnds DEF Onward
<1>7. P("top") /\ [Next]_vars => (P("top")' /\ ~ControlLoop) \/ P("stop")'
  BY LoopEnds DEF Onward
<1>8. P("stop") /\ [Next]_vars => (P("stop")' /\ ~ControlLoop) \/ P("join")'
  BY LoopEnds DEF Onward
<1>9. P("join") /\ [Next]_vars => (P("join")' /\ ~ControlLoop) \/ P("done")'
  BY LoopEnds DEF Onward
<1>10. TypeOK /\ global /\ main # "done" =>
         \/ P("resume") \/ P("notify") \/ P("flush") \/ P("get") \/ P("top")
         \/ P("stop") \/ P("join")
  BY DEF TypeOK
<1> DEFINE Fair == FairSpec /\ []GoesOn
<1>11. Fair => (P("resume") ~> P("notify"))
  <2>1. GoesOn /\ P("resume") => ENABLED <<ControlLoop>>_vars
    BY DEF GoesOn
  <2>2. QED
    BY <1>1, <2>1, PTL DEF FairSpec, Spec
<1>12. Fair => (P("notify") ~> P("get"))
  <2>1. GoesOn /\ P("notify") => ENABLED <<ControlLoop>>_vars
    BY DEF GoesOn
  <2>2. QED
    BY <1>2, <2>1, PTL DEF FairSpec, Spec
<1>13. Fair => (P("flush") ~> P("get"))
  <2>1. GoesOn /\ P("flush") => ENABLED <<ControlLoop>>_vars
    BY DEF GoesOn
  <2>2. QED
    BY <1>3, <2>1, PTL DEF FairSpec, Spec
<1>14. Fair => (P("get") ~> (P("top") \/ Flush))
  <2>1. GoesOn /\ P("get") => ENABLED <<ControlLoop>>_vars
    BY DEF GoesOn
  <2>2. QED
    BY <1>4, <2>1, PTL DEF FairSpec, Spec
<1>15. Fair => (Flush ~> Get)
  <2>1. GoesOn /\ Flush => ENABLED <<ControlLoop>>_vars
    BY DEF GoesOn
  <2>2. QED
    BY <1>5, <2>1, PTL DEF FairSpec, Spec
<1>16. Fair => (Get ~> P("top"))
  <2>1. GoesOn /\ Get => ENABLED <<ControlLoop>>_vars
    BY DEF GoesOn
  <2>2. QED
    BY <1>6, <2>1, PTL DEF FairSpec, Spec
<1>17. Fair => (P("top") ~> P("stop"))
  <2>1. GoesOn /\ P("top") => ENABLED <<ControlLoop>>_vars
    BY DEF GoesOn
  <2>2. QED
    BY <1>7, <2>1, PTL DEF FairSpec, Spec
<1>18. Fair => (P("stop") ~> P("join"))
  <2>1. GoesOn /\ P("stop") => ENABLED <<ControlLoop>>_vars
    BY DEF GoesOn
  <2>2. QED
    BY <1>8, <2>1, PTL DEF FairSpec, Spec
<1>19. Fair => (P("join") ~> P("done"))
  <2>1. GoesOn /\ P("join") => ENABLED <<ControlLoop>>_vars
    BY DEF GoesOn
  <2>2. QED
    BY <1>9, <2>1, PTL DEF FairSpec, Spec
<1>20. P("done") => main = "done"
  OBVIOUS
<1>21. QED
  BY <1>10, <1>11, <1>12, <1>13, <1>14, <1>15, <1>16, <1>17, <1>18, <1>19, <1>20,
     EngineTypeCorrect, PTL DEF FairSpec

(* rtc.py:358: a thread that has failed too often in a row, or died, ends    *)
(* the rollout, wherever the main loop is and whatever the operator does. So *)
(* it is if both threads go on where they can (GoesOn), which TLC finds on   *)
(* small instances; the provers know nothing of ENABLED.                     *)
THEOREM FailureEnds == FairSpec /\ []GoesOn => FailureEndsRollout
<1>1. global => (global /\ main # "done") \/ main = "done"
  OBVIOUS
<1>2. rtc \in {"error", "halt", "failed"} => GivenUp
  BY DEF GivenUp
<1>3. QED
  BY <1>1, <1>2, FailureSpreads, LoopLeaves, PTL DEF FailureEndsRollout
===============================================================================
