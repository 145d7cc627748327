--------------------------- MODULE RobotClientProofs ---------------------------
(***************************************************************************)
(* Proofs about RobotClient, for every chunk length, threshold and bound.  *)
(*                                                                         *)
(* What makes the queue right is that the server can only answer           *)
(* observations the client has sent, and that an observation is stamped    *)
(* with latest_action, which never exceeds the highest timestep performed  *)
(* although it may go back.  A chunk therefore starts at a timestep the    *)
(* robot has performed (or at 0), and an incoming action that is skipped   *)
(* has been performed.  IInv says so, for the chunk under the merge too.   *)
(***************************************************************************)
EXTENDS RobotClient, SequenceTheorems, TLAPS

(* Increasing(q) and Connected(q, h) are the queue's two invariants, of any *)
(* sequence q of timesteps when the robot has performed up to h.            *)
Increasing(q) == \A i, j \in 1 .. Len(q) : i < j => q[i] < q[j]

Connected(q, h) ==
  \A i \in 1 .. Len(q) : q[i] <= h + 1 \/ (i > 1 /\ q[i - 1] = q[i] - 1)

(* Nothing the threads have read or sent is ahead of the robot.             *)
NotAhead ==
  /\ latestAction <= highest
  /\ popped <= highest
  /\ obs.ts <= Larger(highest, 0)
  /\ \A t \in sent : t <= Larger(highest, 0)
  /\ chunk.base <= Larger(highest, 0)

(* The control loop performs an action only within the bounds.              *)
WithinBounds == ctl = "pop" => highest < MaxStep /\ repeats <= MaxRepeats

(* The merge has looked at idx actions of the chunk and queued some of them.*)
Merging ==
  /\ idx <= chunk.len
  /\ chunk.len <= Larger(chunkSize, 0)
  /\ rcv # "merge" => idx = 0 /\ future = <<>>
  /\ Len(future) <= idx

(* The last action the merge has looked at is the last one queued, or has   *)
(* been performed.                                                          *)
MergeFrontier ==
  /\ future # <<>> => future[Len(future)] < chunk.base + idx
  /\ idx > 0 =>
       \/ chunk.base + idx - 1 <= highest
       \/ future # <<>> /\ future[Len(future)] = chunk.base + idx - 1

FutureOK == Increasing(future) /\ Connected(future, highest)

QueueOK ==
  /\ Increasing(actionQueue)
  /\ Connected(actionQueue, highest)
  /\ QueueBounded

IInv ==
  /\ TypeOK
  /\ NotAhead
  /\ WithinBounds
  /\ Merging
  /\ MergeFrontier
  /\ FutureOK
  /\ QueueOK

-------------------------------------------------------------------------------
(* Performing the first action keeps both invariants, the robot's highest   *)
(* timestep moving with it.                                                 *)
LEMMA TailInvariants ==
  ASSUME NEW q \in Seq(Int), NEW h \in Int, q # <<>>,
         Increasing(q), Connected(q, h)
  PROVE  /\ Increasing(Tail(q))
         /\ Connected(Tail(q), Larger(h, Head(q)))
         /\ Head(q) <= h + 1
<1> DEFINE t == Tail(q)
           m == Larger(h, Head(q))
<1>1. /\ Len(q) \in Nat \ {0}
      /\ Len(t) = Len(q) - 1
      /\ \A i \in 1 .. Len(t) : t[i] = q[i + 1]
      /\ Head(q) = q[1]
      /\ \A i \in 1 .. Len(q) : q[i] \in Int
  OBVIOUS
<1>2. Increasing(t)
  BY <1>1 DEF Increasing
<1>3. m \in Int /\ h <= m /\ q[1] <= m
  BY <1>1 DEF Larger
<1>4. Connected(t, m)
  <2> SUFFICES ASSUME NEW i \in 1 .. Len(t)
               PROVE  t[i] <= m + 1 \/ (i > 1 /\ t[i - 1] = t[i] - 1)
    BY DEF Connected
  <2>1. t[i] = q[i + 1] /\ i + 1 \in 1 .. Len(q)
    BY <1>1
  <2>2. q[i + 1] <= h + 1 \/ q[i] = q[i + 1] - 1
    BY <2>1, <1>1 DEF Connected
  <2>3. CASE i = 1
    BY <2>1, <2>2, <2>3, <1>1, <1>3
  <2>4. CASE i > 1
    <3>1. t[i - 1] = q[i]
      BY <2>4, <1>1
    <3> QED
      BY <3>1, <2>1, <2>2, <2>4, <1>1, <1>3
  <2> QED
    BY <2>3, <2>4
<1>5. Head(q) <= h + 1
  BY <1>1 DEF Connected
<1> QED
  BY <1>2, <1>4, <1>5

(* Queueing one more action keeps both invariants if it is later than the   *)
(* last one and is due next, or follows it at once.                         *)
LEMMA AppendInvariants ==
  ASSUME NEW q \in Seq(Int), NEW h \in Int, NEW a \in Int,
         Increasing(q), Connected(q, h),
         q # <<>> => q[Len(q)] < a,
         a <= h + 1 \/ (q # <<>> /\ q[Len(q)] = a - 1)
  PROVE  Increasing(Append(q, a)) /\ Connected(Append(q, a), h)
<1> DEFINE r == Append(q, a)
           n == Len(q)
<1>1. /\ n \in Nat
      /\ Len(r) = n + 1
      /\ r[n + 1] = a
      /\ \A i \in 1 .. n : r[i] = q[i]
      /\ \A i \in 1 .. n : q[i] \in Int
      /\ q # <<>> <=> n > 0
  OBVIOUS
<1>2. \A i \in 1 .. n : q[i] < a
  BY <1>1 DEF Increasing
<1>3. Increasing(r)
  BY <1>1, <1>2 DEF Increasing
<1>4. Connected(r, h)
  <2> SUFFICES ASSUME NEW i \in 1 .. Len(r)
               PROVE  r[i] <= h + 1 \/ (i > 1 /\ r[i - 1] = r[i] - 1)
    BY DEF Connected
  <2>1. CASE i \in 1 .. n
    BY <2>1, <1>1 DEF Connected
  <2>2. CASE i = n + 1
    BY <2>2, <1>1
  <2> QED
    BY <2>1, <2>2, <1>1
<1> QED
  BY <1>3, <1>4

(* Both invariants hold of the empty queue, and the robot moving on cannot  *)
(* break the second.                                                        *)
LEMMA EmptyInvariants ==
  ASSUME NEW h \in Int
  PROVE  Increasing(<<>>) /\ Connected(<<>>, h)
BY DEF Increasing, Connected

LEMMA ConnectedHigher ==
  ASSUME NEW q \in Seq(Int), NEW h \in Int, NEW k \in Int, h <= k,
         Connected(q, h)
  PROVE  Connected(q, k)
<1>1. \A i \in 1 .. Len(q) : q[i] \in Int
  OBVIOUS
<1> QED
  BY <1>1 DEF Connected

-------------------------------------------------------------------------------
USE ChunkAssumption, BoundAssumption DEF ChunkAssumption, BoundAssumption

(* IInv holds of a client that has just connected.                          *)
LEMMA InitIInv == Init => IInv
<1> SUFFICES ASSUME Init PROVE IInv
  OBVIOUS
<1>1. TypeOK
  <2>1. actionQueue \in Seq(Timesteps) /\ future \in Seq(Timesteps)
    BY EmptySeq DEF Init
  <2>2. obs \in [ts : 0 .. MaxStep, mustGo : BOOLEAN]
    BY DEF Init, NoObs
  <2>3. chunk \in [base : 0 .. MaxStep, len : 0 .. ActionsPerChunk]
    BY DEF Init, NoChunk
  <2>4. /\ running \in BOOLEAN /\ mustGo \in BOOLEAN /\ dirty \in BOOLEAN
        /\ ctl = "loop" /\ rcv = "loop"
    BY DEF Init
  <2>5. /\ latestAction = -1 /\ popped = -1 /\ highest = -1 /\ chunkSize = -1
        /\ idx \in 0 .. ActionsPerChunk
        /\ repeats \in 0 .. MaxRepeats + 1
        /\ sent \subseteq 0 .. MaxStep
    BY DEF Init
  <2> QED
    BY <2>1, <2>2, <2>3, <2>4, <2>5 DEF TypeOK
<1>2. NotAhead /\ WithinBounds
  BY DEF Init, NotAhead, WithinBounds, Larger, NoObs, NoChunk
<1>3. Merging /\ MergeFrontier
  BY DEF Init, Merging, MergeFrontier, Larger, NoChunk
<1>4. FutureOK /\ QueueOK
  BY EmptyInvariants DEF Init, FutureOK, QueueOK, QueueBounded, Larger
<1> QED
  BY <1>1, <1>2, <1>3, <1>4 DEF IInv

(* The queues are sequences of integers.                                    *)
LEMMA QueueTypes ==
  ASSUME TypeOK
  PROVE  /\ actionQueue \in Seq(Int)
         /\ future \in Seq(Int)
         /\ highest \in Int
         /\ latestAction \in Int
         /\ chunkSize \in Int
         /\ chunk.base \in 0 .. MaxStep
         /\ chunk.len \in 0 .. ActionsPerChunk
         /\ obs.ts \in 0 .. MaxStep
<1>1. Timesteps \subseteq Int
  BY DEF Timesteps
<1>2. ASSUME NEW q \in Seq(Timesteps) PROVE q \in Seq(Int)
  BY <1>1, SeqMonotonic
<1> QED
  BY <1>2 DEF TypeOK, Timesteps

(* The steps that touch neither the queues, nor the merge, nor any of the   *)
(* timesteps: only the places of the two threads change, and the event.     *)
LEMMA PlaceSteps ==
  ASSUME IInv,
         \/ CheckAvailable
         \/ LeaveControlLoop
         \/ PopFromEmpty
         \/ CheckReady
         \/ CaptureFails
         \/ RequestActions
         \/ LeaveReceiver
         \/ ReceiveNothing
         \/ IterationBroken
         \/ IterationDone
         \/ SetMustGo
         \/ Stop
         \/ UNCHANGED vars
  PROVE  IInv'
<1> USE DEF shared, ctlVars, rcvVars, history, vars
<1> DEFINE same == <<latestAction, chunkSize, actionQueue, popped, obs, chunk,
                     dirty, idx, future, sent, highest, repeats>>
<1>1. UNCHANGED same
  BY DEF CheckAvailable, LeaveControlLoop, PopFromEmpty, CheckReady, CaptureFails,
         RequestActions, LeaveReceiver, ReceiveNothing, IterationBroken,
         IterationDone, SetMustGo, Stop
<1>2. TypeOK'
  <2>1. running' \in BOOLEAN /\ mustGo' \in BOOLEAN
    BY DEF IInv, TypeOK, CheckAvailable, LeaveControlLoop, PopFromEmpty,
           CheckReady, CaptureFails, RequestActions, LeaveReceiver,
           ReceiveNothing, IterationBroken, IterationDone, SetMustGo, Stop
  <2>2. ctl' \in {"loop", "pop", "ready", "observe", "done", "crashed", ctl}
    BY DEF CheckAvailable, LeaveControlLoop, PopFromEmpty, CheckReady,
           CaptureFails, RequestActions, LeaveReceiver, ReceiveNothing,
           IterationBroken, IterationDone, SetMustGo, Stop
  <2>3. rcv' \in {"wait", "done", "loop", "dead", "merge", rcv}
    BY DEF CheckAvailable, LeaveControlLoop, PopFromEmpty, CheckReady,
           CaptureFails, RequestActions, LeaveReceiver, ReceiveNothing,
           IterationBroken, IterationDone, SetMustGo, Stop
  <2> QED
    BY <1>1, <2>1, <2>2, <2>3 DEF IInv, TypeOK
<1>3. WithinBounds'
  BY DEF IInv, WithinBounds, CheckAvailable, LeaveControlLoop, PopFromEmpty,
         CheckReady, CaptureFails, RequestActions, LeaveReceiver, ReceiveNothing,
         IterationBroken, IterationDone, SetMustGo, Stop
<1>4. rcv' # "merge" => rcv # "merge"
  BY DEF CheckAvailable, LeaveControlLoop, PopFromEmpty, CheckReady, CaptureFails,
         RequestActions, LeaveReceiver, ReceiveNothing, IterationBroken,
         IterationDone, SetMustGo, Stop
<1>5. NotAhead' /\ MergeFrontier'
  BY <1>1 DEF IInv, NotAhead, MergeFrontier, Larger
<1>6. Merging'
  BY <1>1, <1>4 DEF IInv, Merging, Larger
<1>7. FutureOK' /\ QueueOK'
  BY <1>1 DEF IInv, FutureOK, QueueOK, QueueBounded, Larger, Increasing, Connected
<1> QED
  BY <1>2, <1>3, <1>5, <1>6, <1>7 DEF IInv

(* The control loop's steps that move a timestep.                           *)
LEMMA PerformActionStep == IInv /\ PerformAction => IInv'
<1> SUFFICES ASSUME IInv, PerformAction PROVE IInv'
  OBVIOUS
<1> USE DEF IInv, PerformAction
<1> DEFINE a == Head(actionQueue)
<1>1. /\ Increasing(Tail(actionQueue))
      /\ Connected(Tail(actionQueue), Larger(highest, a))
      /\ a <= highest + 1
  BY QueueTypes, TailInvariants DEF QueueOK
<1>2. /\ a \in Timesteps
      /\ Tail(actionQueue) \in Seq(Timesteps)
      /\ Len(Tail(actionQueue)) = Len(actionQueue) - 1
      /\ Len(actionQueue) \in Nat
  BY HeadTailProperties DEF TypeOK
<1>3. highest < MaxStep /\ repeats <= MaxRepeats
  BY DEF WithinBounds
<1>4. /\ highest' \in (0 .. MaxStep) \cup {-1}
      /\ highest' >= highest
      /\ highest' >= a
      /\ repeats' \in 0 .. MaxRepeats + 1
  BY <1>1, <1>2, <1>3 DEF TypeOK, Timesteps, Larger
<1>5. TypeOK'
  <2>1. popped' \in Timesteps \cup {-1} /\ actionQueue' \in Seq(Timesteps)
    BY <1>2
  <2>2. dirty' \in BOOLEAN
    BY DEF TypeOK
  <2> QED
    BY <1>4, <2>1, <2>2 DEF TypeOK
<1>6. NotAhead'
  BY <1>2, <1>4, QueueTypes DEF NotAhead, Larger, TypeOK, Timesteps
<1>7. WithinBounds' /\ Merging'
  BY DEF WithinBounds, Merging, Larger
<1>8. MergeFrontier'
  BY <1>4, QueueTypes DEF MergeFrontier, TypeOK
<1>9. FutureOK'
  <2>1. Connected(future, highest')
    BY <1>4, QueueTypes, ConnectedHigher DEF FutureOK
  <2> QED
    BY <2>1 DEF FutureOK
<1>10. QueueOK'
  BY <1>1, <1>2, QueueTypes DEF QueueOK, QueueBounded, Larger
<1> QED
  BY <1>5, <1>6, <1>7, <1>8, <1>9, <1>10

(* These steps leave the queues and the merge alone.                        *)
LEMMA ObservationSteps ==
  ASSUME IInv,
         MarkLatest \/ CaptureObservation \/ SendObservation \/ SendOnStopped
           \/ SendReturns
  PROVE  IInv'
<1> USE DEF IInv, shared, rcvVars, history
<1> DEFINE same == <<chunkSize, actionQueue, rcv, chunk, dirty, idx, future,
                     highest, repeats, running>>
<1>1. UNCHANGED same
  BY DEF MarkLatest, CaptureObservation, SendObservation, SendOnStopped,
         SendReturns
<1>2. /\ latestAction' \in Timesteps \cup {-1} /\ latestAction' <= highest
      /\ popped' \in Timesteps \cup {-1} /\ popped' <= highest
  <2>1. /\ latestAction' \in {latestAction, popped}
        /\ popped' \in {popped, -1}
    BY DEF MarkLatest, CaptureObservation, SendObservation, SendOnStopped,
           SendReturns
  <2>2. -1 <= highest
    BY DEF TypeOK
  <2> QED
    BY <2>1, <2>2 DEF TypeOK, NotAhead
<1>3. /\ obs' \in [ts : 0 .. MaxStep, mustGo : BOOLEAN]
      /\ obs'.ts <= Larger(highest, 0)
  <2>1. CASE MarkLatest \/ SendOnStopped \/ SendReturns
    <3>1. obs' \in {obs, NoObs}
      BY <2>1 DEF MarkLatest, SendOnStopped, SendReturns
    <3>2. NoObs.ts <= Larger(highest, 0)
      BY QueueTypes DEF NoObs, Larger
    <3>3. NoObs \in [ts : 0 .. MaxStep, mustGo : BOOLEAN]
      BY DEF NoObs
    <3> QED
      BY <3>1, <3>2, <3>3 DEF TypeOK, NotAhead
  <2>2. CASE CaptureObservation
    <3>1. Larger(latestAction, 0) \in 0 .. MaxStep
      BY DEF TypeOK, NotAhead, Larger, Timesteps
    <3>2. Larger(latestAction, 0) <= Larger(highest, 0)
      BY DEF TypeOK, NotAhead, Larger, Timesteps
    <3> QED
      BY <2>2, <3>1, <3>2 DEF CaptureObservation
  <2>3. CASE SendObservation
    <3>1. (mustGo /\ actionQueue = <<>>) \in BOOLEAN
      BY DEF TypeOK
    <3>2. obs'.ts = obs.ts /\ obs' \in [ts : 0 .. MaxStep, mustGo : BOOLEAN]
      BY <2>3, <3>1 DEF TypeOK, SendObservation
    <3> QED
      BY <3>2 DEF NotAhead
  <2> QED
    BY <2>1, <2>2, <2>3
<1>4. sent' \subseteq 0 .. MaxStep /\ \A t \in sent' : t <= Larger(highest, 0)
  <2>1. sent' = sent \/ sent' = sent \cup {obs.ts}
    BY DEF MarkLatest, CaptureObservation, SendObservation, SendOnStopped,
           SendReturns
  <2>2. obs.ts \in 0 .. MaxStep /\ obs.ts <= Larger(highest, 0)
    BY QueueTypes DEF NotAhead
  <2>3. sent \subseteq 0 .. MaxStep /\ \A t \in sent : t <= Larger(highest, 0)
    BY DEF TypeOK, NotAhead
  <2> QED
    BY <2>1, <2>2, <2>3
<1>5. /\ mustGo' \in BOOLEAN
      /\ ctl' \in {"ready", "flag", "sending", "loop"}
  <2>1. (mustGo /\ ~obs.mustGo) \in BOOLEAN
    BY DEF TypeOK
  <2>2. mustGo' = mustGo \/ mustGo' = (mustGo /\ ~obs.mustGo)
    BY DEF MarkLatest, CaptureObservation, SendObservation, SendOnStopped,
           SendReturns
  <2>3. ctl' \in {"ready", "flag", "sending", "loop"}
    BY DEF MarkLatest, CaptureObservation, SendObservation, SendOnStopped,
           SendReturns
  <2> QED
    BY <2>1, <2>2, <2>3 DEF TypeOK
<1>6. TypeOK'
  BY <1>1, <1>2, <1>3, <1>4, <1>5 DEF TypeOK
<1>7. NotAhead'
  BY <1>1, <1>2, <1>3, <1>4 DEF NotAhead, Larger
<1>8. WithinBounds'
  BY <1>5 DEF WithinBounds
<1>9. Merging' /\ MergeFrontier'
  BY <1>1 DEF Merging, MergeFrontier, Larger
<1>10. FutureOK' /\ QueueOK'
  BY <1>1 DEF FutureOK, QueueOK, QueueBounded, Larger, Increasing, Connected
<1> QED
  BY <1>6, <1>7, <1>8, <1>9, <1>10

(* A chunk arrives: it starts at a timestep that was sent.                  *)
LEMMA ReceiveChunkStep ==
  ASSUME IInv, NEW t \in sent, NEW n \in 1 .. ActionsPerChunk, ReceiveChunk(t, n)
  PROVE  IInv'
<1> USE DEF IInv, ReceiveChunk, ctlVars, history
<1>1. /\ chunk' = [base |-> t, len |-> n]
      /\ t \in 0 .. MaxStep /\ t <= Larger(highest, 0)
      /\ idx = 0 /\ future = <<>>
  BY DEF TypeOK, NotAhead, Merging
<1>2. /\ chunkSize' \in (1 .. ActionsPerChunk) \cup {-1}
      /\ n <= chunkSize' /\ chunkSize <= chunkSize'
  BY DEF TypeOK, Larger
<1>3. TypeOK'
  <2>1. chunk' \in [base : 0 .. MaxStep, len : 0 .. ActionsPerChunk]
    BY <1>1
  <2> QED
    BY <1>2, <2>1 DEF TypeOK
<1>4. NotAhead' /\ WithinBounds'
  <2>1. chunk'.base <= Larger(highest, 0)
    BY <1>1
  <2> QED
    BY <2>1 DEF NotAhead, WithinBounds, Larger
<1>5. Merging' /\ MergeFrontier'
  BY <1>1, <1>2 DEF Merging, MergeFrontier, Larger
<1>6. FutureOK'
  BY DEF FutureOK
<1>7. QueueOK'
  <2>1. Larger(chunkSize, 0) <= Larger(chunkSize', 0)
    BY <1>2, QueueTypes DEF Larger
  <2>2. Len(actionQueue) \in Nat
    BY DEF TypeOK
  <2>3. Larger(chunkSize, 0) \in Int /\ Larger(chunkSize', 0) \in Int
    BY <1>2, QueueTypes DEF Larger
  <2> QED
    BY <2>1, <2>2, <2>3 DEF QueueOK, QueueBounded
<1> QED
  BY <1>3, <1>4, <1>5, <1>6, <1>7

(* An action that is skipped has been performed; one that is queued follows *)
(* the one looked at before it, which was performed or queued last.         *)
LEMMA MergeActionStep == IInv /\ MergeAction => IInv'
<1> SUFFICES ASSUME IInv, MergeAction PROVE IInv'
  OBVIOUS
<1> USE DEF IInv, MergeAction, shared, ctlVars, history
<1> DEFINE a == chunk.base + idx
<1>1. /\ a \in Timesteps /\ a \in Int /\ idx \in Nat
      /\ idx' = idx + 1 /\ idx' \in 0 .. ActionsPerChunk
      /\ idx' <= chunk.len
  BY QueueTypes DEF TypeOK, Timesteps
<1>2. /\ future \in Seq(Int) /\ highest \in Int
      /\ Increasing(future) /\ Connected(future, highest)
      /\ future # <<>> => future[Len(future)] < a
      /\ idx > 0 => \/ a - 1 <= highest
                    \/ future # <<>> /\ future[Len(future)] = a - 1
  <2>1. future \in Seq(Int) /\ highest \in Int
    BY QueueTypes
  <2>2. Increasing(future) /\ Connected(future, highest)
    BY DEF FutureOK
  <2>3. future # <<>> => future[Len(future)] < a
    BY DEF MergeFrontier
  <2>4. idx > 0 => \/ a - 1 <= highest
                   \/ future # <<>> /\ future[Len(future)] = a - 1
    <3>1. chunk.base \in Int
      BY QueueTypes
    <3> QED
      BY <1>1, <2>1, <3>1 DEF MergeFrontier
  <2> QED
    BY <2>1, <2>2, <2>3, <2>4
<1>3. a <= highest + 1 \/ (future # <<>> /\ future[Len(future)] = a - 1)
  <2>1. CASE idx = 0
    <3>1. a <= Larger(highest, 0) /\ highest >= -1
      BY <2>1, QueueTypes DEF NotAhead, TypeOK
    <3> QED
      BY <3>1, <1>1, <1>2 DEF Larger
  <2>2. CASE idx > 0
    BY <2>2, <1>1, <1>2
  <2> QED
    BY <2>1, <2>2, <1>1
<1>4. CASE a <= latestAction
  <2>1. future' = future /\ a <= highest
    BY <1>4, <1>1, QueueTypes DEF NotAhead
  <2>2. TypeOK'
    BY <1>1, <2>1 DEF TypeOK
  <2>3. NotAhead' /\ WithinBounds' /\ FutureOK' /\ QueueOK'
    BY <2>1 DEF NotAhead, WithinBounds, FutureOK, QueueOK, QueueBounded, Larger
  <2>4. Len(future) \in Nat
    BY <1>2
  <2>5. Merging'
    BY <1>1, <2>1, <2>4 DEF Merging, Larger
  <2>6. MergeFrontier'
    <3>1. future # <<>> => future[Len(future)] \in Int
      BY <1>2
    <3>2. chunk'.base + idx' = a + 1 /\ chunk.base \in Int
      BY <1>1, QueueTypes
    <3> QED
      BY <1>1, <1>2, <2>1, <3>1, <3>2 DEF MergeFrontier
  <2> QED
    BY <2>2, <2>3, <2>5, <2>6
<1>5. CASE ~(a <= latestAction)
  <2>1. future' = Append(future, a)
    BY <1>5
  <2>2. /\ future' \in Seq(Timesteps)
        /\ Len(future') = Len(future) + 1
        /\ Len(future) \in Nat
        /\ future'[Len(future')] = a
        /\ future' # <<>>
    BY <2>1, <1>1, AppendProperties DEF TypeOK
  <2>3. FutureOK'
    BY <1>1, <1>2, <1>3, <2>1, AppendInvariants DEF FutureOK
  <2>4. TypeOK'
    BY <1>1, <2>2 DEF TypeOK
  <2>5. NotAhead' /\ WithinBounds' /\ QueueOK'
    BY DEF NotAhead, WithinBounds, QueueOK, QueueBounded, Larger
  <2>6. Merging'
    BY <1>1, <2>2 DEF Merging, Larger
  <2>7. MergeFrontier'
    <3>1. chunk'.base + idx' = a + 1 /\ chunk.base \in Int
      BY <1>1, QueueTypes
    <3>2. future'[Len(future')] < chunk'.base + idx'
      BY <1>1, <2>2, <3>1
    <3>3. future'[Len(future')] = chunk'.base + idx' - 1
      BY <1>1, <2>2, <3>1
    <3> QED
      BY <2>2, <3>2, <3>3 DEF MergeFrontier
  <2> QED
    BY <2>3, <2>4, <2>5, <2>6, <2>7
<1> QED
  BY <1>4, <1>5

(* The merged queue takes the place of the old one.                         *)
LEMMA ReplaceQueueStep == IInv /\ ReplaceQueue => IInv'
<1> SUFFICES ASSUME IInv, ReplaceQueue PROVE IInv'
  OBVIOUS
<1> USE DEF IInv, ReplaceQueue, ctlVars, history
<1>1. chunk' \in [base : 0 .. MaxStep, len : 0 .. ActionsPerChunk]
      /\ chunk'.base = 0 /\ chunk'.len = 0
  BY DEF NoChunk
<1>2. <<>> \in Seq(Timesteps)
  BY EmptySeq
<1>3. TypeOK'
  BY <1>1, <1>2 DEF TypeOK
<1>4. NotAhead' /\ WithinBounds'
  BY <1>1, QueueTypes DEF NotAhead, WithinBounds, Larger
<1>5. Merging' /\ MergeFrontier'
  BY <1>1, QueueTypes DEF Merging, MergeFrontier, Larger
<1>6. FutureOK'
  BY EmptyInvariants, QueueTypes DEF FutureOK
<1>7. Len(future) <= Larger(chunkSize, 0)
  <2>1. Len(future) \in Nat
    BY DEF TypeOK
  <2>2. Larger(chunkSize, 0) \in Int
    BY QueueTypes DEF Larger
  <2> QED
    BY <2>1, <2>2, QueueTypes DEF Merging
<1>8. QueueOK'
  BY <1>7 DEF FutureOK, QueueOK, QueueBounded
<1> QED
  BY <1>3, <1>4, <1>5, <1>6, <1>8

-------------------------------------------------------------------------------
(* Every step of the client keeps IInv.                                     *)
LEMMA NextIInv == IInv /\ [Next]_vars => IInv'
<1> SUFFICES ASSUME IInv, [Next]_vars PROVE IInv'
  OBVIOUS
<1>1. CASE ControlLoop
  <2>1. CASE PerformAction
    BY <2>1, PerformActionStep
  <2>2. CASE MarkLatest \/ CaptureObservation \/ SendObservation
               \/ SendOnStopped \/ SendReturns
    BY <2>2, ObservationSteps
  <2>3. CASE CheckAvailable \/ LeaveControlLoop \/ PopFromEmpty \/ CheckReady
               \/ CaptureFails
    BY <2>3, PlaceSteps
  <2> QED
    BY <1>1, <2>1, <2>2, <2>3 DEF ControlLoop
<1>2. CASE Receiver
  <2>1. CASE \E t \in sent, n \in 1 .. ActionsPerChunk : ReceiveChunk(t, n)
    BY <2>1, ReceiveChunkStep
  <2>2. CASE MergeAction
    BY <2>2, MergeActionStep
  <2>3. CASE ReplaceQueue
    BY <2>3, ReplaceQueueStep
  <2>4. CASE RequestActions \/ LeaveReceiver \/ ReceiveNothing
               \/ IterationBroken \/ IterationDone \/ SetMustGo
    BY <2>4, PlaceSteps
  <2> QED
    BY <1>2, <2>1, <2>2, <2>3, <2>4 DEF Receiver
<1>3. CASE Stop
  BY <1>3, PlaceSteps
<1>4. CASE Terminated \/ UNCHANGED vars
  <2>1. UNCHANGED vars
    BY <1>4 DEF Terminated
  <2> QED
    BY <2>1, PlaceSteps
<1> QED
  BY <1>1, <1>2, <1>3, <1>4 DEF Next

LEMMA Invariance == Spec => []IInv
BY InitIInv, NextIInv, PTL DEF Spec

(* The types and the bounds of the client's state hold in every run: no     *)
(* thread ever computes a timestep, a chunk or a queue outside of them.     *)
THEOREM TypeCorrect == Spec => []TypeOK
<1>1. IInv => TypeOK
  BY DEF IInv
<1> QED
  BY <1>1, Invariance, PTL

(* The queue is strictly increasing, however latest_action moves while      *)
(* _aggregate_action_queues reads it, and whatever chunks arrive.           *)
THEOREM QueueIsIncreasing == Spec => []QueueIncreasing
<1>1. IInv => QueueIncreasing
  <2>1. IInv => DOMAIN actionQueue = 1 .. Len(actionQueue)
    BY LenProperties DEF IInv, TypeOK
  <2> QED
    BY <2>1 DEF IInv, QueueOK, Increasing, QueueIncreasing
<1> QED
  BY <1>1, Invariance, PTL

(* Replacing the queue by a merged one never leaves a gap before an action  *)
(* that waits.                                                              *)
THEOREM QueueSkipsNothing == Spec => []NothingSkipped
<1>1. IInv => NothingSkipped
  <2>1. IInv => DOMAIN actionQueue = 1 .. Len(actionQueue)
    BY LenProperties DEF IInv, TypeOK
  <2> QED
    BY <2>1 DEF IInv, QueueOK, Connected, NothingSkipped
<1> QED
  BY <1>1, Invariance, PTL

(* The queue is never longer than the largest chunk received.               *)
THEOREM QueueIsBounded == Spec => []QueueBounded
<1>1. IInv => QueueBounded
  BY DEF IInv, QueueOK
<1> QED
  BY <1>1, Invariance, PTL

(* The client implements the abstract action stream: the robot never jumps  *)
(* over an action it has not performed.                                     *)
THEOREM ClientImplementsStream == Spec => ImplementsActionStream
<1>1. Init => Stream!Init
  BY DEF Init, Stream!Init
<1>2. IInv /\ [Next]_vars => [Stream!Perform]_highest
  <2> SUFFICES ASSUME IInv, [Next]_vars, highest' # highest
               PROVE  highest' = highest + 1
    BY DEF Stream!Perform
  <2>1. PerformAction
    BY DEF Next, ControlLoop, Receiver, CheckAvailable, LeaveControlLoop,
           PopFromEmpty, MarkLatest, CheckReady, CaptureObservation, CaptureFails,
           SendObservation, SendOnStopped, SendReturns, RequestActions,
           LeaveReceiver, ReceiveNothing, ReceiveChunk, IterationBroken,
           IterationDone, MergeAction, ReplaceQueue, SetMustGo, Stop, Terminated,
           vars, shared, ctlVars, rcvVars, history
  <2>2. Head(actionQueue) <= highest + 1
    BY <2>1, QueueTypes, TailInvariants DEF IInv, QueueOK, PerformAction
  <2>3. highest \in Int /\ Head(actionQueue) \in Int
    BY <2>1, QueueTypes, HeadTailProperties DEF IInv, PerformAction
  <2> QED
    BY <2>1, <2>2, <2>3 DEF PerformAction, Larger
<1> QED
  BY <1>1, <1>2, Invariance, PTL DEF Spec, ImplementsActionStream, Stream!Spec
===============================================================================
