-------------------------- MODULE AsyncInferenceProofs -------------------------
(* Proofs about AsyncInference, for every chunk length, threshold, number of *)
(* pool threads and of faults.                                               *)
(*                                                                           *)
(* The client's invariant IInv is kept by every step of RobotClient's Next.  *)
(* What has to be shown is that a joint step is such a step, or none: that   *)
(* the server only answers observations that the client has sent.            *)
EXTENDS AsyncInference, RobotClientProofs

-------------------------------------------------------------------------------
(* What is aboard the server.                                               *)

Sending    == {"filter", "room", "evict", "put", "blocked"}
Predicting == {"add", "prepare", "infer", "chunk"}
Serving    == Predicting \cup {"get", "nothing"}

Observation == Server!Observation

(* A handler that has an observation has one that the client has sent.      *)
HandlerOK(j) ==
  /\ j \in Server!Job
  /\ j.pc \in Sending \cup Predicting => j.obs \in Observation /\ j.obs.ts \in sent

ServerOK ==
  /\ session = 1 /\ policy = 1
  /\ obsQueue \in Seq(Observation) /\ Len(obsQueue) <= 1
  /\ obsQueue # <<>> => Head(obsQueue).ts \in sent
  /\ predicted \subseteq 0 .. MaxStep
  /\ lastProcessed \in Observation \cup {None}
  /\ job = [w \in Workers |-> job[w]]
  /\ \A w \in Workers : HandlerOK(job[w])

CallsOK ==
  /\ pose \in Poses
  /\ ctlCall \in Workers \cup {None}
  /\ rcvCall \in Workers \cup {None}
  /\ faults \in 0 .. MaxFaults

(* The caller's handler serves the kind of call it has made.                *)
CallersOK ==
  /\ ctlCall # None => job[ctlCall].pc \in Sending \cup {"ack", "error"}
  /\ rcvCall # None => job[rcvCall].pc \in Serving

JointInv == IInv /\ ServerOK /\ CallsOK /\ CallersOK

(* What a handler may do to the observations aboard, j being its new state:  *)
(* keep its own, put it in the queue, take one from there, keep the one      *)
(* taken, or have none.                                                      *)
Keeps(w, j) ==
  /\ job[w].pc \in Sending
  /\ j.pc \in Sending
  /\ j.obs = job[w].obs
  /\ obsQueue' \in {obsQueue, <<>>}
  /\ j.pc = "put" => obsQueue' = <<>>
  /\ j.pc = "blocked" => job[w].pc = "put" /\ obsQueue # <<>>

Puts(w, j) ==
  /\ job[w].pc \in Sending
  /\ j.pc = "ack"
  /\ obsQueue' = <<job[w].obs>>

Takes(w, j) ==
  /\ job[w].pc = "get"
  /\ obsQueue # <<>>
  /\ j.pc = "add"
  /\ j.obs = Head(obsQueue)
  /\ obsQueue' = <<>>

Works(w, j) ==
  /\ job[w].pc \in Predicting
  /\ j.pc \in Predicting
  /\ j.obs = job[w].obs
  /\ obsQueue' = obsQueue

Ends(w, j) ==
  /\ \/ j.pc \in {"ack", "error"} /\ job[w].pc \in Sending
     \/ j.pc = "nothing" /\ job[w].pc \in Serving
     \/ j.pc = "idle" /\ job[w].pc \in {"ack", "error", "chunk", "nothing"}
  /\ obsQueue' = obsQueue

HandlerMoves(w, j) == Keeps(w, j) \/ Puts(w, j) \/ Takes(w, j) \/ Works(w, j) \/ Ends(w, j)

ServerFrame ==
  /\ session' = session /\ policy' = policy
  /\ predicted' \subseteq 0 .. MaxStep
  /\ lastProcessed' \in Observation \cup {None}

LEMMA JobTypes ==
  /\ Server!Job = [pc : {"filter", "room", "evict", "put", "blocked", "get", "add", "prepare",
                               "infer", "ack", "error", "chunk", "nothing", "idle"},
                         obs : Observation \cup {None}, queue : 0 .. 1]
  /\ Observation = [ts : 0 .. MaxStep, mustGo : BOOLEAN, pose : Poses, session : 1 .. 1]
  /\ Server!Idle \in Server!Job /\ Server!Idle.pc = "idle"
BY DEF Server!Job, Observation, Server!Observation, Server!Running,
       Server!Finished, Server!Idle, MaxSession

LEMMA QueueOfOne ==
  ASSUME ServerOK, obsQueue # <<>>
  PROVE  Head(obsQueue) \in Observation /\ Tail(obsQueue) = <<>>
<1>1. obsQueue \in Seq(Observation) /\ Len(obsQueue) <= 1
  BY DEF ServerOK
<1>2. Len(obsQueue) \in Nat /\ Len(obsQueue) # 0
  BY <1>1, EmptySeq
<1>3. Head(obsQueue) \in Observation /\ Tail(obsQueue) \in Seq(Observation)
      /\ Len(Tail(obsQueue)) = Len(obsQueue) - 1
  BY <1>1, HeadTailProperties
<1>4. Tail(obsQueue) = <<>>
  BY <1>1, <1>2, <1>3, EmptySeq
<1> QED
  BY <1>3, <1>4

LEMMA EndKind ==
  ASSUME ServerOK, NEW w \in Workers, NEW from, NEW outcome \in {"ack", "error", "nothing"},
         Server!End(w, from, outcome), obsQueue' = obsQueue,
         job[w].pc \in IF outcome = "nothing" THEN Serving ELSE Sending
  PROVE  \E j \in Server!Job : job' = [job EXCEPT ![w] = j] /\ HandlerMoves(w, j)
<1> DEFINE j == [Server!Idle EXCEPT !.pc = outcome]
<1>1. j \in Server!Job /\ j.pc = outcome
  BY JobTypes DEF Server!Idle
<1>2. job' = [job EXCEPT ![w] = j]
  BY DEF Server!End
<1>3. Ends(w, j)
  BY <1>1 DEF Ends
<1> QED
  BY <1>1, <1>2, <1>3 DEF HandlerMoves

LEMMA StepKind ==
  ASSUME ServerOK, NEW w \in Workers, NEW from, NEW to, Server!Step(w, from, to),
         \/ /\ from \in Sending /\ to \in Sending \ {"blocked"}
            /\ obsQueue' \in {obsQueue, <<>>} /\ (to = "put" => obsQueue' = <<>>)
         \/ from \in Predicting /\ to \in Predicting /\ obsQueue' = obsQueue
  PROVE  \E j \in Server!Job : job' = [job EXCEPT ![w] = j] /\ HandlerMoves(w, j)
<1> DEFINE j == [job[w] EXCEPT !.pc = to]
<1>1. job[w] \in Server!Job /\ job[w].pc = from
  BY DEF ServerOK, HandlerOK, Server!Step
<1>2. j \in Server!Job /\ j.pc = to /\ j.obs = job[w].obs
  BY <1>1, JobTypes DEF Sending, Predicting
<1>3. job' = [job EXCEPT ![w] = j]
  BY DEF Server!Step
<1>4. Keeps(w, j) \/ Works(w, j)
  BY <1>1, <1>2 DEF Keeps, Works
<1> QED
  BY <1>2, <1>3, <1>4 DEF HandlerMoves

LEMMA HandlerKinds ==
  ASSUME ServerOK, NEW w \in Workers,
         Server!Handle(w) \/ Server!PredictionFails(w) \/ Server!Return(w)
  PROVE  /\ ServerFrame
         /\ \E j \in Server!Job : job' = [job EXCEPT ![w] = j] /\ HandlerMoves(w, j)
<1> DEFINE Goal == /\ ServerFrame
                   /\ \E j \in Server!Job : job' = [job EXCEPT ![w] = j] /\ HandlerMoves(w, j)
<1>1. HandlerOK(job[w])
  BY DEF ServerOK
<1>2. ASSUME UNCHANGED <<session, policy, predicted, lastProcessed>> PROVE ServerFrame
  BY <1>2 DEF ServerFrame, ServerOK
<1>3. CASE Server!Accept(w)
  BY <1>2, <1>3, StepKind DEF Server!Accept, Sending
<1>4. CASE Server!FilterOut(w)
  <2>1. job[w].pc \in Sending
    BY <1>4 DEF Server!FilterOut, Server!End, Sending
  <2> QED
    BY <1>2, <1>4, <2>1, EndKind DEF Server!FilterOut
<1>5. CASE Server!LookForRoom(w)
  BY <1>2, <1>5, StepKind DEF Server!LookForRoom, Sending
<1>6. CASE Server!EvictOldest(w)
  BY <1>2, <1>6, StepKind DEF Server!EvictOldest, Sending
<1>7. CASE Server!EvictNothing(w)
  <2>1. job[w].pc \in Sending
    BY <1>7 DEF Server!EvictNothing, Server!End, Sending
  <2> QED
    BY <1>2, <1>7, <2>1, EndKind DEF Server!EvictNothing
<1>8. CASE Server!Put(w) \/ Server!PutUnblocked(w)
  <2> DEFINE j == [Server!Idle EXCEPT !.pc = "ack"]
  <2>1. j \in Server!Job /\ j.pc = "ack"
    BY JobTypes DEF Server!Idle
  <2>2. job' = [job EXCEPT ![w] = j] /\ job[w].pc \in Sending /\ obsQueue' = <<job[w].obs>>
    BY <1>8 DEF Server!Put, Server!PutUnblocked, Server!End, Sending
  <2>3. ServerFrame
    BY <1>2, <1>8 DEF Server!Put, Server!PutUnblocked
  <2> QED
    BY <2>1, <2>2, <2>3 DEF Puts, HandlerMoves
<1>9. CASE Server!PutBlocks(w)
  <2> DEFINE j == [job[w] EXCEPT !.pc = "blocked", !.queue = session]
  <2>1. j \in Server!Job /\ j.pc = "blocked" /\ j.obs = job[w].obs
    <3>1. job[w] \in Server!Job /\ session \in 0 .. 1
      BY <1>1 DEF HandlerOK, ServerOK
    <3> QED
      BY <3>1, JobTypes
  <2>2. /\ job' = [job EXCEPT ![w] = j] /\ job[w].pc = "put" /\ obsQueue # <<>>
        /\ obsQueue' = obsQueue
    BY <1>9 DEF Server!PutBlocks
  <2>3. ServerFrame
    BY <1>2, <1>9 DEF Server!PutBlocks
  <2> QED
    BY <2>1, <2>2, <2>3 DEF Keeps, HandlerMoves, Sending
<1>10. CASE Server!Take(w)
  <2> DEFINE j == [job[w] EXCEPT !.pc = "add", !.obs = Head(obsQueue)]
  <2>1. Head(obsQueue) \in Observation /\ obsQueue' = <<>> /\ obsQueue # <<>> /\ job[w].pc = "get"
    BY <1>10, QueueOfOne DEF Server!Take
  <2>2. j \in Server!Job /\ j.pc = "add" /\ j.obs = Head(obsQueue)
    BY <1>1, <2>1, JobTypes DEF HandlerOK
  <2>3. job' = [job EXCEPT ![w] = j]
    BY <1>10 DEF Server!Take
  <2>4. ServerFrame
    BY <1>2, <1>10 DEF Server!Take
  <2> QED
    BY <2>1, <2>2, <2>3, <2>4 DEF Takes, HandlerMoves
<1>11. CASE Server!Timeout(w)
  <2>1. job[w].pc \in Serving
    BY <1>11 DEF Server!Timeout, Server!End, Serving
  <2> QED
    BY <1>2, <1>11, <2>1, EndKind DEF Server!Timeout
<1>12. CASE Server!AddPredicted(w)
  <2>1. job[w].obs.ts \in 0 .. MaxStep
    BY <1>1, <1>12, JobTypes DEF HandlerOK, Server!AddPredicted, Server!Step, Predicting
  <2>2. ServerFrame
    BY <1>12, <2>1 DEF ServerFrame, ServerOK, Server!AddPredicted
  <2> QED
    BY <1>12, <2>2, StepKind DEF Server!AddPredicted, Predicting
<1>13. CASE Server!Prepare(w)
  <2>1. job[w].obs \in Observation
    BY <1>1, <1>13 DEF HandlerOK, Server!Prepare, Server!Step, Predicting
  <2>2. ServerFrame
    BY <1>13, <2>1 DEF ServerFrame, ServerOK, Server!Prepare
  <2> QED
    BY <1>13, <2>2, StepKind DEF Server!Prepare, Predicting
<1>14. CASE Server!Infer(w)
  BY <1>2, <1>14, StepKind DEF Server!Infer, Predicting
<1>15. CASE Server!PredictionFails(w)
  <2>1. PICK from \in {"prepare", "infer"} : Server!End(w, from, "nothing")
    BY <1>15 DEF Server!PredictionFails
  <2>2. job[w].pc \in Serving
    BY <2>1 DEF Server!End, Serving, Predicting
  <2> QED
    BY <1>2, <1>15, <2>1, <2>2, EndKind DEF Server!PredictionFails
<1>16. CASE Server!Return(w)
  <2>1. /\ job' = [job EXCEPT ![w] = Server!Idle] /\ obsQueue' = obsQueue
        /\ job[w].pc \in {"ack", "error", "chunk", "nothing"}
    BY <1>16 DEF Server!Return, Server!Finished
  <2>2. Ends(w, Server!Idle)
    BY <2>1, JobTypes DEF Ends
  <2> QED
    BY <1>2, <1>16, <2>1, <2>2, JobTypes DEF Server!Return, HandlerMoves
<1> QED
  BY <1>3, <1>4, <1>5, <1>6, <1>7, <1>8, <1>9, <1>10, <1>11, <1>12, <1>13, <1>14, <1>15, <1>16
  DEF Server!Handle

-------------------------------------------------------------------------------
(* Every step of AsyncInference is one of RobotClient, or none, and keeps    *)
(* what is aboard the server right.                                          *)

LEMMA SentGrows == [Next]_vars => sent \subseteq sent'
BY DEF Next, ControlLoop, Receiver, vars, history, CheckAvailable, LeaveControlLoop, PerformAction,
       PopFromEmpty, MarkLatest, CheckReady, CaptureObservation, CaptureFails, SendObservation,
       SendOnStopped, SendReturns, RequestActions, LeaveReceiver, ReceiveNothing, ReceiveChunk,
       IterationBroken, IterationDone, MergeAction, ReplaceQueue, SetMustGo, Stop, Terminated

(* One handler has a new state, the queue is empty or what it was.          *)
LEMMA OneHandlerMoves ==
  ASSUME ServerOK, NEW w \in Workers, NEW j \in Server!Job, job' = [job EXCEPT ![w] = j],
         j.pc \in Sending \cup Predicting => j.obs \in Observation /\ j.obs.ts \in sent',
         ServerFrame, sent \subseteq sent', obsQueue' \in {obsQueue, <<>>}
  PROVE  ServerOK'
<1>1. obsQueue' \in Seq(Observation) /\ Len(obsQueue') <= 1
      /\ (obsQueue' # <<>> => Head(obsQueue').ts \in sent')
  <2>1. CASE obsQueue' = obsQueue
    BY <2>1 DEF ServerOK
  <2>2. CASE obsQueue' = <<>>
    BY <2>2
  <2> QED
    BY <2>1, <2>2
<1>2. job' = [v \in Workers |-> job'[v]]
  BY DEF ServerOK
<1>3. ASSUME NEW v \in Workers PROVE HandlerOK(job[v])'
  BY DEF ServerOK, HandlerOK
<1> QED
  BY <1>1, <1>2, <1>3 DEF ServerOK, ServerFrame

LEMMA ServerMoves ==
  ASSUME ServerOK, NEW w \in Workers, sent \subseteq sent',
         Server!Handle(w) \/ Server!PredictionFails(w) \/ Server!Return(w)
  PROVE  ServerOK'
<1>1. PICK j \in Server!Job : job' = [job EXCEPT ![w] = j] /\ HandlerMoves(w, j)
  BY HandlerKinds
<1>2. ServerFrame
  BY HandlerKinds
<1>3. HandlerOK(job[w])
  BY DEF ServerOK
<1>4. CASE Puts(w, j)
  <2>1. j.pc \notin Sending \cup Predicting
    BY <1>4 DEF Puts, Sending, Predicting
  <2>2. job[w].obs \in Observation /\ job[w].obs.ts \in sent'
    BY <1>3, <1>4 DEF Puts, HandlerOK
  <2>3. /\ <<job[w].obs>> \in Seq(Observation) /\ Len(<<job[w].obs>>) = 1
        /\ Head(<<job[w].obs>>) = job[w].obs
    BY <2>2
  <2>4. obsQueue' = <<job[w].obs>>
    BY <1>4 DEF Puts
  <2>5. job' = [v \in Workers |-> job'[v]]
    BY <1>1 DEF ServerOK
  <2>6. ASSUME NEW v \in Workers PROVE HandlerOK(job[v])'
    BY <1>1, <2>1 DEF ServerOK, HandlerOK
  <2> QED
    BY <1>2, <2>2, <2>3, <2>4, <2>5, <2>6 DEF ServerOK, ServerFrame
<1>5. CASE Takes(w, j)
  <2>1. Head(obsQueue) \in Observation /\ Head(obsQueue).ts \in sent'
    BY <1>5, QueueOfOne DEF Takes, ServerOK
  <2> QED
    BY <1>1, <1>2, <1>5, <2>1, OneHandlerMoves DEF Takes
<1>6. CASE Keeps(w, j) \/ Works(w, j)
  BY <1>1, <1>2, <1>3, <1>6, OneHandlerMoves DEF Keeps, Works, HandlerOK
<1>7. CASE Ends(w, j)
  <2>1. j.pc \notin Sending \cup Predicting
    BY <1>7 DEF Ends, Sending, Predicting
  <2> QED
    BY <1>1, <1>2, <1>7, <2>1, OneHandlerMoves DEF Ends
<1> QED
  BY <1>1, <1>4, <1>5, <1>6, <1>7 DEF HandlerMoves

LEMMA SameServer ==
  ASSUME ServerOK, UNCHANGED serverVars, sent \subseteq sent'
  PROVE  ServerOK'
BY DEF ServerOK, HandlerOK, serverVars

LEMMA CallBegins ==
  ASSUME ServerOK, NEW w \in Workers, sent \subseteq sent',
         \/ Server!GetActions(w)
         \/ \E o \in Observation : o.ts \in sent' /\ Server!SendObservations(w, o)
  PROVE  ServerOK'
<1>1. ServerFrame /\ obsQueue' = obsQueue
  BY DEF ServerFrame, ServerOK, Server!GetActions, Server!SendObservations
<1>2. CASE Server!GetActions(w)
  <2> DEFINE j == [pc |-> "get", obs |-> None, queue |-> session]
  <2>1. j \in Server!Job
    BY JobTypes DEF ServerOK
  <2>2. job' = [job EXCEPT ![w] = j] /\ j.pc \notin Sending \cup Predicting
    BY <1>2 DEF Server!GetActions, Sending, Predicting
  <2> QED
    BY <1>1, <2>1, <2>2, OneHandlerMoves
<1>3. ASSUME NEW o \in Observation, o.ts \in sent', Server!SendObservations(w, o)
      PROVE  ServerOK'
  <2> DEFINE j == [pc |-> "filter", obs |-> o, queue |-> 0]
  <2>1. j \in Server!Job
    BY JobTypes
  <2>2. job' = [job EXCEPT ![w] = j] /\ j.obs = o
    BY <1>3 DEF Server!SendObservations
  <2> QED
    BY <1>1, <1>3, <2>1, <2>2, OneHandlerMoves
<1> QED
  BY <1>2, <1>3

(* A handler at work, or one that ends and is not waited for any more.      *)
LEMMA CallersMove ==
  ASSUME ServerOK, CallsOK, CallersOK, NEW w \in Workers,
         ctlCall' \in {ctlCall, None}, rcvCall' \in {rcvCall, None},
         \/ Server!Handle(w) \/ Server!PredictionFails(w)
         \/ Server!Return(w) /\ w \notin {ctlCall', rcvCall'}
  PROVE  CallersOK'
<1>1. PICK j \in Server!Job : job' = [job EXCEPT ![w] = j] /\ HandlerMoves(w, j)
  BY HandlerKinds
<1>2. w \in {ctlCall', rcvCall'} => job[w].pc \notin {"ack", "error", "chunk", "nothing"}
  BY DEF Server!Handle, Server!PredictionFails, Server!End, Server!Step,
         Server!Accept, Server!FilterOut, Server!LookForRoom,
         Server!EvictOldest, Server!EvictNothing, Server!Put,
         Server!PutBlocks, Server!PutUnblocked, Server!Take,
         Server!Timeout, Server!AddPredicted, Server!Prepare, Server!Infer
<1>3. w \in {ctlCall', rcvCall'} => /\ job[w].pc \in Sending => j.pc \in Sending \cup {"ack", "error"}
                                    /\ job[w].pc \in Serving => j.pc \in Serving
  BY <1>1, <1>2 DEF HandlerMoves, Keeps, Puts, Takes, Works, Ends, Sending, Serving, Predicting
<1>4. job'[w] = j /\ \A v \in Workers \ {w} : job'[v] = job[v]
  BY <1>1 DEF ServerOK
<1> QED
  BY <1>2, <1>3, <1>4 DEF CallersOK, CallsOK, Serving, Predicting

LEMMA CallersBegin ==
  ASSUME ServerOK, CallsOK, CallersOK, NEW w \in Workers,
         \/ /\ Server!GetActions(w)
            /\ ctlCall' = ctlCall /\ rcvCall' = w
         \/ /\ \E o : Server!SendObservations(w, o)
            /\ ctlCall' = w /\ rcvCall' = rcvCall
  PROVE  CallersOK'
<1>1. job[w].pc = "idle"
  BY DEF Server!GetActions, Server!SendObservations
<1>2. (w # ctlCall /\ w # rcvCall) \/ w = None
  BY <1>1 DEF CallersOK, Sending, Serving, Predicting
<1>3. CASE Server!GetActions(w) /\ ctlCall' = ctlCall /\ rcvCall' = w
  <2>1. job'[w].pc = "get" /\ \A v \in Workers \ {w} : job'[v] = job[v]
    BY <1>3 DEF Server!GetActions, ServerOK
  <2> QED
    BY <1>2, <1>3, <2>1 DEF CallersOK, CallsOK, Serving
<1>4. CASE (\E o : Server!SendObservations(w, o)) /\ ctlCall' = w /\ rcvCall' = rcvCall
  <2>1. job'[w].pc = "filter" /\ \A v \in Workers \ {w} : job'[v] = job[v]
    BY <1>4 DEF Server!SendObservations, ServerOK
  <2> QED
    BY <1>2, <1>4, <2>1 DEF CallersOK, CallsOK, Sending
<1> QED
  BY <1>3, <1>4

LEMMA CallersSame ==
  ASSUME CallersOK, UNCHANGED job, ctlCall' \in {ctlCall, None}, rcvCall' \in {rcvCall, None}
  PROVE  CallersOK'
BY DEF CallersOK

LEMMA JointInitial == JointInit => JointInv
<1> SUFFICES ASSUME JointInit PROVE JointInv
  OBVIOUS
<1>1. IInv
  BY InitIInv DEF JointInit
<1>2. ASSUME NEW w \in Workers PROVE HandlerOK(job[w])
  BY JobTypes DEF JointInit, HandlerOK, Sending, Predicting
<1>3. obsQueue = <<>> /\ obsQueue \in Seq(Observation) /\ Len(obsQueue) <= 1
  BY DEF JointInit
<1>4. ServerOK
  BY <1>2, <1>3 DEF JointInit, ServerOK
<1>5. CallsOK
  BY MovesAssumption, FaultsAssumption
  DEF JointInit, CallsOK, MovesAssumption, FaultsAssumption
<1> QED
  BY <1>1, <1>4, <1>5 DEF JointInv, CallersOK, JointInit

LEMMA FaultCounted ==
  ASSUME CallsOK, Fault \/ UNCHANGED faults
  PROVE  faults' \in 0 .. MaxFaults
BY FaultsAssumption DEF FaultsAssumption, CallsOK, Fault

(* The steps of the client that leave the server alone, and those with which *)
(* calls begin and end.                                                      *)
ClientStep ==
  \/ MoveRobot \/ CaptureRaises \/ ControlStep \/ ReceiverStep \/ StopClient
  \/ LoseObservation \/ EndLostSend \/ SendFails \/ RequestFails

CallStep ==
  \/ BeginSend \/ RetryObservation \/ EndSend
  \/ BeginRequest \/ RetryRequest \/ DeliverChunk \/ DeliverNothing

LEMMA ClientAlone ==
  ASSUME JointInv,
         ClientStep
  PROVE  Next /\ UNCHANGED serverVars /\ CallsOK' /\ CallersOK'
<1> USE DEF JointInv
<1> SUFFICES Next /\ UNCHANGED serverVars /\ CallsOK'
                  /\ ctlCall' \in {ctlCall, None} /\ rcvCall' \in {rcvCall, None}
  BY CallersSame DEF serverVars
<1>1. CASE MoveRobot
  <2>1. pose' \in Poses
    BY <1>1, MovesAssumption DEF MoveRobot, CallsOK, MovesAssumption
  <2> QED
    BY <1>1, <2>1 DEF MoveRobot, Next, ControlLoop, CallsOK
<1>2. CASE CaptureRaises \/ LoseObservation
  BY <1>2, FaultCounted
  DEF CaptureRaises, LoseObservation, Next, ControlLoop, CallsOK
<1>3. CASE ControlStep
  BY <1>3 DEF ControlStep, Next, ControlLoop, CallsOK
<1>4. CASE ReceiverStep
  BY <1>4 DEF ReceiverStep, Next, Receiver, CallsOK
<1>5. CASE StopClient \/ EndLostSend
  BY <1>5 DEF StopClient, EndLostSend, Next, ControlLoop, CallsOK
<1>6. CASE SendFails
  BY <1>6, FaultCounted
  DEF SendFails, CallFails, Next, ControlLoop, CallsOK
<1>7. CASE RequestFails
  BY <1>7, FaultCounted
  DEF RequestFails, CallFails, Next, Receiver, CallsOK
<1> QED
  BY <1>1, <1>2, <1>3, <1>4, <1>5, <1>6, <1>7 DEF ClientStep

LEMMA CallSteps ==
  ASSUME JointInv,
         CallStep
  PROVE  [Next]_vars /\ ServerOK' /\ CallsOK' /\ CallersOK'
<1> USE DEF JointInv
<1>1. CASE BeginSend
  <2>1. SendObservation
    BY <1>1 DEF BeginSend
  <2>2. Next
    BY <2>1 DEF Next, ControlLoop
  <2>3. /\ obs \in [ts : 0 .. MaxStep, mustGo : BOOLEAN]
        /\ obs' = [obs EXCEPT !.mustGo = mustGo /\ actionQueue = <<>>]
        /\ mustGo \in BOOLEAN /\ sent' = sent \cup {obs.ts}
    BY <2>1 DEF SendObservation, IInv, TypeOK
  <2>4. obs'.ts = obs.ts /\ obs'.mustGo \in BOOLEAN /\ obs.ts \in 0 .. MaxStep
    BY <2>3
  <2>5. Sent \in Observation /\ Sent.ts \in sent'
    BY <2>3, <2>4, JobTypes DEF Sent, CallsOK, ServerOK
  <2>6. PICK w \in Workers : Server!SendObservations(w, Sent) /\ ctlCall' = w
    BY <1>1 DEF BeginSend
  <2>7. ServerOK'
    BY <2>2, <2>5, <2>6, SentGrows, CallBegins
  <2>8. CallsOK'
    BY <1>1, <2>6 DEF BeginSend, CallsOK
  <2>9. CallersOK'
    BY <1>1, <2>6, CallersBegin DEF BeginSend
  <2> QED
    BY <2>2, <2>7, <2>8, <2>9
<1>2. CASE RetryObservation
  <2>1. UNCHANGED vars
    BY <1>2 DEF RetryObservation
  <2>2. PICK w \in Workers : Server!SendObservations(w, job[ctlCall].obs) /\ ctlCall' = w
    BY <1>2 DEF RetryObservation
  <2>3. ctlCall \in Workers /\ job[ctlCall].pc \in Sending
    BY <1>2 DEF RetryObservation, CallsOK, CallersOK, Server!Running
  <2>4. job[ctlCall].obs \in Observation /\ job[ctlCall].obs.ts \in sent'
    BY <2>1, <2>3 DEF ServerOK, HandlerOK, vars, history
  <2>5. ServerOK'
    BY <2>1, <2>2, <2>4, SentGrows, CallBegins
  <2>6. CallsOK'
    BY <1>2, <2>2, FaultCounted DEF RetryObservation, CallsOK
  <2>7. CallersOK'
    BY <1>2, <2>2, CallersBegin DEF RetryObservation
  <2> QED
    BY <2>1, <2>5, <2>6, <2>7
<1>3. CASE EndSend
  <2>1. Next
    BY <1>3 DEF EndSend, Next, ControlLoop
  <2>2. ctlCall \in Workers /\ Server!Return(ctlCall)
    BY <1>3 DEF EndSend, CallsOK
  <2>3. ServerOK'
    BY <2>1, <2>2, SentGrows, ServerMoves
  <2>4. CallersOK'
    BY <1>3, <2>2, CallersMove, NoneAssumption
    DEF EndSend, CallsOK, CallersOK, NoneAssumption, Serving, Sending, Predicting
  <2> QED
    BY <1>3, <2>1, <2>3, <2>4 DEF EndSend, CallsOK
<1>4. CASE BeginRequest
  <2>1. Next
    BY <1>4 DEF BeginRequest, Next, Receiver
  <2>2. PICK w \in Workers : Server!GetActions(w) /\ rcvCall' = w
    BY <1>4 DEF BeginRequest
  <2>3. ServerOK'
    BY <2>1, <2>2, SentGrows, CallBegins
  <2>4. CallersOK'
    BY <1>4, <2>2, CallersBegin DEF BeginRequest
  <2> QED
    BY <1>4, <2>1, <2>2, <2>3, <2>4 DEF BeginRequest, CallsOK
<1>5. CASE RetryRequest
  <2>1. UNCHANGED vars
    BY <1>5 DEF RetryRequest
  <2>2. PICK w \in Workers : Server!GetActions(w) /\ rcvCall' = w
    BY <1>5 DEF RetryRequest
  <2>3. ServerOK'
    BY <2>1, <2>2, SentGrows, CallBegins
  <2>4. CallersOK'
    BY <1>5, <2>2, CallersBegin DEF RetryRequest
  <2> QED
    BY <1>5, <2>1, <2>2, <2>3, <2>4, FaultCounted DEF RetryRequest, CallsOK
<1>6. CASE DeliverChunk
  <2>1. rcvCall \in Workers /\ Server!Return(rcvCall) /\ job[rcvCall].pc = "chunk"
    BY <1>6 DEF DeliverChunk, CallsOK
  <2>2. job[rcvCall].obs.ts \in sent
    BY <2>1 DEF ServerOK, HandlerOK, Predicting
  <2>3. ReceiveChunk(job[rcvCall].obs.ts, ActionsPerChunk)
    BY <1>6 DEF DeliverChunk
  <2>4. Next
    BY <2>2, <2>3, ChunkAssumption DEF Next, Receiver, ChunkAssumption
  <2>5. ServerOK'
    BY <2>1, <2>4, SentGrows, ServerMoves
  <2>6. CallersOK'
    BY <1>6, <2>1, CallersMove, NoneAssumption
    DEF DeliverChunk, CallsOK, CallersOK, NoneAssumption, Serving, Sending, Predicting
  <2> QED
    BY <1>6, <2>4, <2>5, <2>6 DEF DeliverChunk, CallsOK
<1>7. CASE DeliverNothing
  <2>1. Next
    BY <1>7 DEF DeliverNothing, Next, Receiver
  <2>2. rcvCall \in Workers /\ Server!Return(rcvCall)
    BY <1>7 DEF DeliverNothing, CallsOK
  <2>3. ServerOK'
    BY <2>1, <2>2, SentGrows, ServerMoves
  <2>4. CallersOK'
    BY <1>7, <2>2, CallersMove, NoneAssumption
    DEF DeliverNothing, CallsOK, CallersOK, NoneAssumption, Serving, Sending, Predicting
  <2> QED
    BY <1>7, <2>1, <2>3, <2>4 DEF DeliverNothing, CallsOK
<1> QED
  BY <1>1, <1>2, <1>3, <1>4, <1>5, <1>6, <1>7 DEF CallStep

LEMMA JointStep ==
  ASSUME JointInv, [JointNext]_jointVars
  PROVE  [Next]_vars /\ JointInv'
<1> SUFFICES [Next]_vars /\ ServerOK' /\ CallsOK' /\ CallersOK'
  BY NextIInv DEF JointInv
<1>1. CASE ClientStep
  <2>1. Next /\ UNCHANGED serverVars /\ CallsOK' /\ CallersOK'
    BY <1>1, ClientAlone
  <2>2. ServerOK'
    BY <2>1, SentGrows, SameServer DEF JointInv
  <2> QED
    BY <2>1, <2>2
<1>2. CASE CallStep
  BY <1>2, CallSteps
<1>3. ASSUME NEW w \in Workers, Pool(w) \/ PredictionFails(w)
      PROVE  [Next]_vars /\ ServerOK' /\ CallsOK' /\ CallersOK'
  <2>1. /\ UNCHANGED <<vars, pose, ctlCall, rcvCall>>
        /\ Fault \/ UNCHANGED faults
        /\ \/ Server!Handle(w) \/ Server!PredictionFails(w)
           \/ Server!Return(w) /\ w \notin {ctlCall, rcvCall}
    BY <1>3 DEF Pool, Handle, ReturnToNobody, PredictionFails
  <2>2. UNCHANGED vars
    BY <2>1
  <2>3. ServerOK'
    BY <2>1, <2>2, SentGrows, ServerMoves DEF JointInv
  <2>4. CallersOK'
    BY <2>1, CallersMove DEF JointInv
  <2>5. CallsOK'
    BY <2>1, FaultCounted DEF JointInv, CallsOK
  <2> QED
    BY <2>2, <2>3, <2>4, <2>5
<1>4. CASE UNCHANGED jointVars
  <2>1. UNCHANGED vars /\ UNCHANGED serverVars /\ UNCHANGED <<pose, ctlCall, rcvCall, faults>>
    BY <1>4 DEF jointVars
  <2>2. ServerOK'
    BY <2>1, SentGrows, SameServer DEF JointInv
  <2>3. CallersOK'
    BY <2>1, CallersSame DEF JointInv, serverVars
  <2> QED
    BY <2>1, <2>2, <2>3 DEF JointInv, CallsOK
<1> QED
  BY <1>1, <1>2, <1>3, <1>4
  DEF JointNext, ControlThread, ReceiverThread, Ended, ClientStep, CallStep

(* The invariant holds in every run: the server never has an observation    *)
(* aboard that the client has not sent, and a call is handled as what it is. *)
THEOREM JointInvariance == JointSpec => []JointInv
<1>0. JointInit => JointInv
  BY JointInitial
<1>1. JointInv /\ [JointNext]_jointVars => JointInv'
  BY JointStep
<1> QED
  BY <1>0, <1>1, PTL DEF JointSpec

(* The types of the whole system hold in every run: the chunk lengths,      *)
(* timesteps and observations the two processes exchange are in range.      *)
THEOREM JointTypeCorrect == JointSpec => []JointTypeOK
<1>1. ASSUME JointInv PROVE JointTypeOK
  <2>1. TypeOK
    BY <1>1 DEF JointInv, IInv
  <2>2. Server!TypeOK
    <3>1. job \in [Workers -> Server!Job]
      BY <1>1 DEF JointInv, ServerOK, HandlerOK
    <3> QED
      BY <1>1, <3>1 DEF JointInv, ServerOK, Server!TypeOK, Observation, MaxSession
  <2> QED
    BY <1>1, <2>1, <2>2 DEF JointInv, CallsOK, JointTypeOK
<1> QED
  BY <1>1, JointInvariance, PTL

(* With the network and the server in it, the client meets nothing that     *)
(* RobotClient does not allow: whatever calls are lost, retried or answered *)
(* late, every chunk it gets is for an observation it has sent.  What is    *)
(* proved of RobotClient thus holds of the client in the whole system.      *)
THEOREM JointImplementsClient == JointSpec => ImplementsClient
<1>1. JointInit => Init
  BY DEF JointInit
<1>2. JointInv /\ [JointNext]_jointVars => [Next]_vars
  BY JointStep
<1> QED
  BY <1>1, <1>2, JointInvariance, PTL
  DEF JointSpec, ImplementsClient, Spec

(* From end to end: whatever calls are lost, retried or answered late, the   *)
(* robot performs the actions without a jump.                               *)
THEOREM RobotNeverJumps == JointSpec => ImplementsActionStream
BY JointImplementsClient, ClientImplementsStream, PTL DEF ImplementsClient

-------------------------------------------------------------------------------
(* What the joint steps are to the server.                                   *)

LEMMA ServerStep ==
  ASSUME JointInv, [JointNext]_jointVars
  PROVE  [Server!Next]_serverVars
<1> USE DEF JointInv
<1>1. CASE ClientStep
  BY <1>1, ClientAlone
<1>2. CASE BeginSend
  <2>1. SendObservation
    BY <1>2 DEF BeginSend
  <2>2. /\ obs \in [ts : 0 .. MaxStep, mustGo : BOOLEAN]
        /\ obs' = [obs EXCEPT !.mustGo = mustGo /\ actionQueue = <<>>]
        /\ mustGo \in BOOLEAN
    BY <2>1 DEF SendObservation, IInv, TypeOK
  <2>3. Sent \in Observation /\ Sent.session = session
    BY <2>2, JobTypes DEF Sent, CallsOK, ServerOK
  <2>4. \E w \in Workers : Server!SendObservations(w, Sent)
    BY <1>2 DEF BeginSend
  <2>5. QED
    BY <2>3, <2>4 DEF Server!Next, Observation
<1>3. CASE RetryObservation
  <2>1. job[ctlCall].obs \in Observation /\ job[ctlCall].obs.session = session
    BY <1>3, JobTypes DEF RetryObservation, CallsOK, CallersOK, ServerOK, HandlerOK, Server!Running
  <2>2. \E w \in Workers : Server!SendObservations(w, job[ctlCall].obs)
    BY <1>3 DEF RetryObservation
  <2>3. QED
    BY <2>1, <2>2 DEF Server!Next, Observation
<1>4. CASE EndSend
  BY <1>4 DEF EndSend, CallsOK, Server!Next
<1>5. CASE BeginRequest \/ RetryRequest
  BY <1>5 DEF BeginRequest, RetryRequest, Server!Next
<1>6. CASE DeliverChunk \/ DeliverNothing
  BY <1>6 DEF DeliverChunk, DeliverNothing, CallsOK, Server!Next
<1>7. ASSUME NEW w \in Workers, Pool(w) \/ PredictionFails(w)
      PROVE  Server!Next
  BY <1>7 DEF Pool, Handle, ReturnToNobody, PredictionFails, Server!Next
<1>8. CASE UNCHANGED jointVars
  BY <1>8 DEF jointVars
<1> QED
  BY <1>1, <1>2, <1>3, <1>4, <1>5, <1>6, <1>7, <1>8
  DEF JointNext, ControlThread, ReceiverThread, Ended, ClientStep

(* With the network and the client in it, the server meets nothing that      *)
(* PolicyServer does not allow: handlers that lost their caller, retried     *)
(* calls and the two calls of the client at once are behaviours of its open  *)
(* environment.  The composition thus leaves out no case of either side.     *)
THEOREM JointImplementsServer == JointSpec => ImplementsServer
<1>1. JointInv /\ [JointNext]_jointVars => [Server!Next]_serverVars
  BY ServerStep
<1> QED
  BY <1>1, JointInvariance, PTL DEF JointSpec, ImplementsServer

(* What has been processed, or is about to be remembered, is predicted.      *)
KnownInv ==
  /\ lastProcessed # None => lastProcessed.ts \in predicted
  /\ \A w \in Workers : job[w].pc = "prepare" => job[w].obs.ts \in predicted

LEMMA KnownStep ==
  ASSUME JointInv, KnownInv, [JointNext]_jointVars
  PROVE  KnownInv'
<1>1. [Server!Next]_serverVars
  BY ServerStep
<1>2. session = 1 /\ \A w \in Workers : job[w] \in Server!Job
  BY DEF JointInv, ServerOK, HandlerOK
<1>3. CASE Server!SendPolicyInstructions \/ UNCHANGED serverVars
  BY <1>3 DEF Server!SendPolicyInstructions, serverVars, KnownInv
<1>4. ~Server!Ready
  BY <1>2 DEF Server!Ready, MaxSession
<1>5. ASSUME NEW w \in Workers,
             \/ \E o \in Observation : Server!SendObservations(w, o)
             \/ Server!GetActions(w)
             \/ Server!Handle(w)
             \/ Server!PredictionFails(w)
             \/ Server!Return(w)
      PROVE  KnownInv'
  <2>1. CASE Server!AddPredicted(w)
    <3>1. /\ lastProcessed' = lastProcessed /\ predicted' = predicted \cup {job[w].obs.ts}
          /\ job' = [job EXCEPT ![w] = [job[w] EXCEPT !.pc = "prepare"]]
      BY <2>1 DEF Server!AddPredicted, Server!Step
    <3>2. \A v \in Workers : v # w => job'[v] = job[v]
      BY <3>1, <1>2 DEF JointInv, ServerOK
    <3>3. job'[w].obs = job[w].obs
      BY <3>1, <1>2, JobTypes DEF JointInv, ServerOK
    <3> QED
      BY <3>1, <3>2, <3>3 DEF KnownInv
  <2>2. CASE Server!Prepare(w)
    <3>1. /\ lastProcessed' = job[w].obs /\ predicted' = predicted /\ job[w].pc = "prepare"
          /\ job' = [job EXCEPT ![w] = [job[w] EXCEPT !.pc = "infer"]]
      BY <2>2 DEF Server!Prepare, Server!Step
    <3>2. \A v \in Workers : job'[v].pc = "prepare" => job'[v] = job[v]
      BY <3>1, <1>2, JobTypes DEF JointInv, ServerOK
    <3> QED
      BY <3>1, <3>2 DEF KnownInv
  <2>3. CASE ~Server!AddPredicted(w) /\ ~Server!Prepare(w)
    <3>1. /\ lastProcessed' = lastProcessed /\ predicted' = predicted
          /\ \E j : job' = [job EXCEPT ![w] = j] /\ j.pc # "prepare"
      <4>1. ASSUME NEW from, NEW to \in {"room", "put", "evict", "chunk"},
                   Server!Step(w, from, to)
            PROVE  \E j : job' = [job EXCEPT ![w] = j] /\ j.pc # "prepare"
        <5>1. [job[w] EXCEPT !.pc = to].pc # "prepare"
          BY <1>2, JobTypes
        <5>2. job' = [job EXCEPT ![w] = [job[w] EXCEPT !.pc = to]]
          BY <4>1 DEF Server!Step
        <5> QED
          BY <5>1, <5>2
      <4>2. ASSUME NEW from, NEW outcome \in {"ack", "error", "nothing"},
                   Server!End(w, from, outcome)
            PROVE  \E j : job' = [job EXCEPT ![w] = j] /\ j.pc # "prepare"
        <5>1. [Server!Idle EXCEPT !.pc = outcome].pc # "prepare"
          BY JobTypes
        <5>2. job' = [job EXCEPT ![w] = [Server!Idle EXCEPT !.pc = outcome]]
          BY <4>2 DEF Server!End
        <5> QED
          BY <5>1, <5>2
      <4> DEFINE Same == lastProcessed' = lastProcessed /\ predicted' = predicted
                 Other == \E j : job' = [job EXCEPT ![w] = j] /\ j.pc # "prepare"
      <4> HIDE DEF Other
      <4>3. Server!Accept(w) \/ Server!LookForRoom(w) \/ Server!EvictOldest(w) => Same /\ Other
        BY <4>1 DEF Other, Server!Accept, Server!LookForRoom, Server!EvictOldest
      <4>4. Server!FilterOut(w) \/ Server!EvictNothing(w) \/ Server!Timeout(w) => Same /\ Other
        BY <4>2 DEF Other, Server!FilterOut, Server!EvictNothing, Server!Timeout
      <4>5. Server!Put(w) \/ Server!PutUnblocked(w) => Same /\ Other
        BY <4>2 DEF Other, Server!Put, Server!PutUnblocked
      <4>6. Server!Infer(w) \/ Server!PredictionFails(w) => Same /\ Other
        BY <4>1, <4>2 DEF Other, Server!Infer, Server!PredictionFails
      <4>7. Server!PutBlocks(w) => Same /\ Other
        <5>1. [job[w] EXCEPT !.pc = "blocked", !.queue = session].pc # "prepare"
          BY <1>2, JobTypes
        <5> QED
          BY <5>1 DEF Other, Server!PutBlocks
      <4>8. Server!Take(w) => Same /\ Other
        <5>1. [job[w] EXCEPT !.pc = "add", !.obs = Head(obsQueue)].pc # "prepare"
          BY <1>2, JobTypes
        <5> QED
          BY <5>1 DEF Other, Server!Take
      <4>9. Server!Return(w) => Same /\ Other
        BY JobTypes DEF Other, Server!Return
      <4>10. Server!GetActions(w) => Same /\ Other
        <5>1. [pc |-> "get", obs |-> None, queue |-> session].pc # "prepare"
          OBVIOUS
        <5> QED
          BY <5>1 DEF Other, Server!GetActions
      <4>11. ASSUME NEW o \in Observation, Server!SendObservations(w, o) PROVE Same /\ Other
        <5>1. [pc |-> "filter", obs |-> o, queue |-> 0].pc # "prepare"
          OBVIOUS
        <5> QED
          BY <4>11, <5>1 DEF Other, Server!SendObservations
      <4> QED
        BY <1>5, <2>3, <4>3, <4>4, <4>5, <4>6, <4>7, <4>8, <4>9, <4>10, <4>11
        DEF Server!Handle, Other
    <3>2. \A v \in Workers : job'[v].pc = "prepare" => job'[v] = job[v]
      BY <3>1 DEF JointInv, ServerOK
    <3> QED
      BY <3>1, <3>2 DEF KnownInv
  <2> QED
    BY <2>1, <2>2, <2>3
<1> QED
  BY <1>1, <1>3, <1>4, <1>5 DEF Server!Next, Observation

(* policy_server.py:228, 352: in the whole system too, the observation the server *)
(* compares a new one with is one whose timestep it knows as predicted,      *)
(* although handlers of retried and abandoned calls predict side by side.    *)
THEOREM JointProcessedKnown == JointSpec => []Server!ProcessedIsPredicted
<1>1. JointInit => KnownInv
  BY DEF JointInit, KnownInv, Server!Idle
<1>2. JointInv /\ JointInv' /\ KnownInv /\ [JointNext]_jointVars => KnownInv'
  BY KnownStep
<1>3. KnownInv => Server!ProcessedIsPredicted
  BY DEF KnownInv, Server!ProcessedIsPredicted
<1> QED
  BY <1>1, <1>2, <1>3, JointInvariance, PTL DEF JointSpec

-------------------------------------------------------------------------------
(* As long as no call has failed, the server handles one observation at a    *)
(* time, and one request for actions.                                        *)

(* At most one handler receives an observation; while the client runs, the   *)
(* control loop waits for it.                                                *)
OneSender ==
  /\ \A v, w \in Workers : job[v].pc \in Sending /\ job[w].pc \in Sending => v = w
  /\ \A w \in Workers :
       job[w].pc \in Sending /\ running => ctl = "sending" /\ ctlCall = w

(* A handler that answers is the one the receiver waits for, unless the      *)
(* client has stopped and given up its call.                                 *)
OneServer ==
  \A w \in Workers : job[w].pc \in Serving =>
    \/ rcv = "wait" /\ rcvCall = w
    \/ ~running /\ rcv \in {"loop", "done"}

(* The queue that a handler found or made empty is empty when it puts.       *)
RoomToPut ==
  \A w \in Workers : job[w].pc # "blocked" /\ (job[w].pc = "put" => obsQueue = <<>>)

QuietInv == OneSender /\ OneServer /\ RoomToPut

(* A step of the client that does not begin a call.                          *)
LEMMA QuietClient ==
  ASSUME JointInv, QuietInv, faults' = 0,
         ClientStep
  PROVE  QuietInv'
<1>1. job' = job /\ obsQueue' = obsQueue
  BY ClientAlone DEF serverVars
<1>2. ~Fault
  BY FaultsAssumption DEF Fault, JointInv, CallsOK, FaultsAssumption
<1>3. /\ running' => running
      /\ running' /\ ctl = "sending" => (ctl' = "sending" /\ ctlCall' = ctlCall) \/ ctlCall = None
      /\ rcv = "wait" => \/ rcv' = "wait" /\ rcvCall' = rcvCall
                         \/ ~running' /\ rcv' = "loop"
      /\ ~running /\ rcv \in {"loop", "done"} => rcv' \in {"loop", "done"}
  <2>1. CASE \/ MoveRobot \/ CaptureRaises \/ StopClient \/ LoseObservation
             \/ EndLostSend
    BY <1>2, <2>1
    DEF MoveRobot, CaptureRaises, StopClient, LoseObservation,
        EndLostSend, PerformAction, Stop, SendReturns, rcvVars, ctlVars
  <2>2. CASE ControlStep
    BY <2>2
    DEF ControlStep, CheckAvailable, LeaveControlLoop, PopFromEmpty, MarkLatest, CheckReady,
        CaptureObservation, SendOnStopped, shared, rcvVars
  <2>3. CASE ReceiverStep
    BY <2>3
    DEF ReceiverStep, LeaveReceiver, IterationBroken, IterationDone, MergeAction,
        ReplaceQueue, SetMustGo, shared, ctlVars
  <2>4. CASE SendFails
    BY <1>2, <2>4 DEF SendFails, CallFails, SendReturns, rcvVars
  <2>5. CASE RequestFails
    BY <1>2, <2>5
    DEF RequestFails, CallFails, ReceiveNothing, shared, ctlVars
  <2> QED
    BY <2>1, <2>2, <2>3, <2>4, <2>5 DEF ClientStep
<1>4. OneSender'
  BY <1>1, <1>3, NoneAssumption DEF QuietInv, OneSender, NoneAssumption
<1>5. OneServer'
  BY <1>1, <1>3 DEF QuietInv, OneServer
<1>6. RoomToPut'
  BY <1>1 DEF QuietInv, RoomToPut
<1> QED
  BY <1>4, <1>5, <1>6 DEF QuietInv

LEMMA QuietHandler ==
  ASSUME JointInv, QuietInv, NEW w \in Workers,
         UNCHANGED <<running, ctl, rcv, ctlCall, rcvCall>>,
         Server!Handle(w) \/ Server!PredictionFails(w) \/ Server!Return(w)
  PROVE  QuietInv'
<1>1. PICK j \in Server!Job : job' = [job EXCEPT ![w] = j] /\ HandlerMoves(w, j)
  BY HandlerKinds DEF JointInv
<1>2. job'[w] = j /\ \A v \in Workers \ {w} : job'[v] = job[v]
  BY <1>1 DEF JointInv, ServerOK
<1>3. /\ j.pc \in Sending => job[w].pc \in Sending
      /\ j.pc \in Serving => job[w].pc \in Serving
  BY <1>1 DEF HandlerMoves, Keeps, Puts, Takes, Works, Ends, Sending, Serving, Predicting
<1>4. OneSender'
  BY <1>2, <1>3 DEF QuietInv, OneSender
<1>5. OneServer'
  BY <1>2, <1>3 DEF QuietInv, OneServer
<1>6. ASSUME NEW v \in Workers \ {w}
      PROVE  job'[v].pc # "blocked" /\ (job'[v].pc = "put" => obsQueue' = <<>>)
  BY <1>1, <1>2 DEF QuietInv, OneSender, RoomToPut, HandlerMoves, Keeps, Puts, Takes, Works, Ends,
    Sending
<1>7. j.pc # "blocked" /\ (j.pc = "put" => obsQueue' = <<>>)
  BY <1>1 DEF QuietInv, RoomToPut, HandlerMoves, Keeps, Puts, Takes, Works, Ends, Predicting
<1>8. RoomToPut'
  BY <1>2, <1>6, <1>7 DEF RoomToPut
<1> QED
  BY <1>4, <1>5, <1>8 DEF QuietInv

LEMMA QuietCall ==
  ASSUME JointInv, QuietInv, faults' = 0,
         CallStep
  PROVE  QuietInv'
<1> USE DEF JointInv
<1>1. ~Fault
  BY FaultsAssumption DEF Fault, CallsOK, FaultsAssumption
<1>2. CASE BeginSend
  <2>1. /\ ctl = "flag" /\ running /\ ctl' = "sending"
        /\ running' = running /\ rcv' = rcv /\ rcvCall' = rcvCall
    BY <1>2 DEF BeginSend, SendObservation, shared, rcvVars
  <2>2. PICK w \in Workers : Server!SendObservations(w, Sent) /\ ctlCall' = w
    BY <1>2 DEF BeginSend
  <2>3. /\ job'[w].pc = "filter" /\ \A v \in Workers \ {w} : job'[v] = job[v]
        /\ obsQueue' = obsQueue
    BY <2>2 DEF Server!SendObservations, ServerOK
  <2>4. \A v \in Workers : job[v].pc \notin Sending
    BY <2>1 DEF QuietInv, OneSender
  <2> QED
    BY <2>1, <2>2, <2>3, <2>4
    DEF QuietInv, OneSender, OneServer, RoomToPut, Sending, Serving, Predicting
<1>3. CASE EndSend
  <2>1. /\ ctl = "sending" /\ ctl' = "loop" /\ ctlCall \in Workers
        /\ running' = running /\ rcv' = rcv /\ rcvCall' = rcvCall
    BY <1>3 DEF EndSend, SendReturns, rcvVars, CallsOK
  <2>2. /\ job[ctlCall].pc \notin Sending /\ job'[ctlCall].pc = "idle"
        /\ \A v \in Workers \ {ctlCall} : job'[v] = job[v]
        /\ obsQueue' = obsQueue
    BY <1>3, <2>1, JobTypes
    DEF EndSend, Server!Return, Server!Finished, ServerOK, Sending
  <2> QED
    BY <2>1, <2>2 DEF QuietInv, OneSender, OneServer, RoomToPut, Sending, Serving, Predicting
<1>4. CASE BeginRequest
  <2>1. /\ rcv = "loop" /\ running /\ rcv' = "wait"
        /\ running' = running /\ ctl' = ctl /\ ctlCall' = ctlCall
    BY <1>4 DEF BeginRequest, RequestActions, shared, ctlVars
  <2>2. PICK w \in Workers : Server!GetActions(w) /\ rcvCall' = w
    BY <1>4 DEF BeginRequest
  <2>3. /\ job'[w].pc = "get" /\ \A v \in Workers \ {w} : job'[v] = job[v]
        /\ obsQueue' = obsQueue
    BY <2>2 DEF Server!GetActions, ServerOK
  <2> QED
    BY <2>1, <2>2, <2>3 DEF QuietInv, OneSender, OneServer, RoomToPut, Sending, Serving, Predicting
<1>5. CASE DeliverChunk \/ DeliverNothing
  <2>1. /\ rcv = "wait" /\ rcvCall \in Workers
        /\ running' = running /\ ctl' = ctl /\ ctlCall' = ctlCall
    BY <1>5
    DEF DeliverChunk, DeliverNothing, ReceiveChunk, ReceiveNothing, shared, ctlVars,
        CallsOK
  <2>2. /\ job'[rcvCall].pc = "idle"
        /\ \A v \in Workers \ {rcvCall} : job'[v] = job[v]
        /\ obsQueue' = obsQueue
    BY <1>5, <2>1, JobTypes
    DEF DeliverChunk, DeliverNothing, Server!Return, ServerOK
  <2> QED
    BY <2>1, <2>2 DEF QuietInv, OneSender, OneServer, RoomToPut, Sending, Serving, Predicting
<1>6. CASE RetryObservation \/ RetryRequest
  BY <1>1, <1>6 DEF RetryObservation, RetryRequest
<1> QED
  BY <1>2, <1>3, <1>4, <1>5, <1>6 DEF CallStep

LEMMA FaultKept ==
  ASSUME JointInv, [JointNext]_jointVars, faults' = 0
  PROVE  ~Fault /\ faults = 0
<1>1. ~Fault
  BY FaultsAssumption DEF Fault, JointInv, CallsOK, FaultsAssumption
<1>2. Fault \/ UNCHANGED faults
  BY DEF JointNext, ControlThread, ReceiverThread, Pool, Ended, jointVars,
    MoveRobot, ControlStep, BeginSend, EndSend,
    EndLostSend, ReceiverStep, BeginRequest, DeliverChunk,
    DeliverNothing, Handle, ReturnToNobody, PredictionFails,
    CaptureRaises, LoseObservation, SendFails, CallFails,
    RetryObservation, RetryRequest, RequestFails, StopClient
<1> QED
  BY <1>1, <1>2

LEMMA QuietInit == JointInit => QuietInv
BY DEF JointInit, Server!Idle, QuietInv, OneSender, OneServer, RoomToPut, Sending,
  Serving, Predicting

LEMMA QuietStep ==
  ASSUME JointInv, faults = 0 => QuietInv, [JointNext]_jointVars
  PROVE  (faults = 0 => QuietInv)'
<1> SUFFICES ASSUME faults' = 0 PROVE QuietInv'
  OBVIOUS
<1>1. QuietInv
  BY FaultKept
<1>2. CASE ClientStep
  BY <1>1, <1>2, QuietClient
<1>3. CASE CallStep
  BY <1>1, <1>3, QuietCall
<1>4. ASSUME NEW w \in Workers, Pool(w) \/ PredictionFails(w)
      PROVE  QuietInv'
  <2>1. UNCHANGED <<running, ctl, rcv, ctlCall, rcvCall>>
    BY <1>4 DEF Pool, Handle, ReturnToNobody, PredictionFails, vars, shared, ctlVars, rcvVars
  <2>2. Server!Handle(w) \/ Server!PredictionFails(w) \/ Server!Return(w)
    BY <1>4 DEF Pool, Handle, ReturnToNobody, PredictionFails
  <2> QED
    BY <1>1, <2>1, <2>2, QuietHandler
<1>5. CASE UNCHANGED jointVars
  BY <1>1, <1>5
  DEF jointVars, vars, shared, ctlVars, rcvVars, serverVars, QuietInv, OneSender, OneServer,
      RoomToPut
<1> QED
  BY <1>2, <1>3, <1>4, <1>5
  DEF JointNext, ControlThread, ReceiverThread, Ended, ClientStep, CallStep

(* What policy_server.py:306 says of _enqueue_observation, "never blocks as  *)
(* queue is non-full here", is so as long as no call has failed: the client  *)
(* sends one observation at a time, so that nobody fills the queue between   *)
(* the look at it and the put.                                               *)
THEOREM JointPutNeverBlocks == JointSpec => []PutNeverBlocks
<1>1. JointInit => (faults = 0 => QuietInv)
  BY QuietInit
<1>2. JointInv /\ (faults = 0 => QuietInv) /\ [JointNext]_jointVars => (faults = 0 => QuietInv)'
  BY QuietStep
<1>3. (faults = 0 => QuietInv) => PutNeverBlocks
  BY DEF QuietInv, RoomToPut, PutNeverBlocks
<1> QED
  BY <1>1, <1>2, <1>3, JointInvariance, PTL DEF JointSpec

-------------------------------------------------------------------------------
(* As long as no call has failed and no action was repeated, no action is    *)
(* lost.  Observations go one way: captured by the control loop, on their    *)
(* way to the queue, in the queue, taken from there to be predicted and      *)
(* merged.  None overtakes another, so that the chunk that is merged starts  *)
(* no later than any observation behind it, and the queued actions reach no  *)
(* further than a chunk from any of those on.                                *)

(* The timesteps of the observations on their way.                          *)
Taken ==
  {job[w].obs.ts : w \in {v \in Workers : job[v].pc \in Predicting}}
    \cup {t \in {chunk.base} : rcv \in {"iterate", "merge"}}

Queued == {obsQueue[i].ts : i \in DOMAIN obsQueue}

Arriving == {job[w].obs.ts : w \in {v \in Workers : job[v].pc \in Sending}}

Captured == {t \in {obs.ts} : ctl = "flag"}

(* The timestep of the next observation.                                    *)
Newest == Larger(latestAction, 0)

ToPerform == {actionQueue[i] : i \in DOMAIN actionQueue}

InOrder(older, newer) == \A t \in older, u \in newer : t <= u

Ordered ==
  /\ InOrder(Taken, Queued \cup Arriving \cup Captured \cup {Newest})
  /\ InOrder(Queued, Arriving \cup Captured \cup {Newest})
  /\ InOrder(Arriving, Captured \cup {Newest})
  /\ InOrder(Captured, {Newest})

Reaching ==
  \A t \in Taken \cup Queued \cup Arriving \cup Captured \cup {Newest} :
    \A a \in ToPerform : a < t + ActionsPerChunk

(* Between an action and its bookkeeping, latest_action lags behind.        *)
Marked ==
  /\ ctl = "mark" => popped = highest
  /\ ctl # "mark" => latestAction = highest

(* The server sends whole chunks.                                           *)
WholeChunk == rcv \in {"iterate", "merge"} => chunk.len = ActionsPerChunk

(* What the merge has looked at and the robot has not performed is queued.  *)
Merged ==
  rcv = "merge" =>
    \A t \in chunk.base .. (chunk.base + idx - 1) :
      t > highest => \E j \in DOMAIN future : future[j] = t

OrderInv == Ordered /\ Reaching /\ Marked /\ WholeChunk /\ Merged

(* An observation moves on by one stage, if at all, and the stage behind it  *)
(* is then empty.                                                            *)
Advances ==
  /\ Taken' \subseteq Taken \cup Queued /\ (Taken' \subseteq Taken \/ Queued' = {})
  /\ Queued' \subseteq Queued \cup Arriving /\ (Queued' \subseteq Queued \/ Arriving' = {})
  /\ Arriving' \subseteq Arriving \cup Captured /\ (Arriving' \subseteq Arriving \/ Captured' = {})
  /\ Captured' \subseteq Captured \cup {Newest}
  /\ Newest <= Newest'
  /\ ToPerform' \subseteq ToPerform

LEMMA StageTypes ==
  ASSUME JointInv
  PROVE  /\ Taken \in SUBSET Int /\ Queued \in SUBSET Int /\ Arriving \in SUBSET Int
         /\ Captured \in SUBSET Int /\ Newest \in Int /\ ToPerform \in SUBSET Int
         /\ latestAction \in Int /\ highest \in Int /\ repeats \in Nat
<1>1. /\ latestAction \in Int /\ highest \in Int /\ repeats \in Nat
      /\ chunk.base \in Int /\ obs.ts \in Int
  BY BoundAssumption, ChunkAssumption
  DEF JointInv, IInv, TypeOK, Timesteps, BoundAssumption, ChunkAssumption
<1>2. Newest \in Int /\ Captured \in SUBSET Int
  BY <1>1 DEF Newest, Larger, Captured
<1>3. \A o \in Observation : o.ts \in Int
  BY JobTypes
<1>4. Queued \in SUBSET Int
  <2>1. ASSUME NEW i \in DOMAIN obsQueue PROVE obsQueue[i] \in Observation
    BY <2>1, ElementOfSeq DEF JointInv, ServerOK
  <2> QED
    BY <1>3, <2>1 DEF Queued
<1>5. Arriving \in SUBSET Int /\ Taken \in SUBSET Int
  BY <1>1, <1>3 DEF Arriving, Taken, JointInv, ServerOK, HandlerOK
<1>6. ToPerform \in SUBSET Int
  BY QueueTypes DEF ToPerform, JointInv, IInv
<1> QED
  BY <1>1, <1>2, <1>4, <1>5, <1>6

LEMMA AdvanceOrder ==
  ASSUME JointInv, JointInv', Ordered, Reaching, Advances
  PROVE  Ordered' /\ Reaching'
<1>1. /\ Taken \in SUBSET Int /\ Queued \in SUBSET Int /\ Arriving \in SUBSET Int
      /\ Captured \in SUBSET Int /\ Newest \in Int /\ ToPerform \in SUBSET Int
      /\ Newest' \in Int /\ ActionsPerChunk \in Int
  <2>1. latestAction' \in Int
    BY BoundAssumption, ChunkAssumption
    DEF JointInv, IInv, TypeOK, Timesteps, BoundAssumption, ChunkAssumption
  <2> QED
    BY <2>1, StageTypes, ChunkAssumption DEF ChunkAssumption, Newest, Larger
<1>2. InOrder(Taken, Queued \cup Arriving \cup Captured \cup {Newest})'
  BY <1>1 DEF Ordered, InOrder, Advances
<1>3. InOrder(Queued, Arriving \cup Captured \cup {Newest})'
  BY <1>1 DEF Ordered, InOrder, Advances
<1>4. InOrder(Arriving, Captured \cup {Newest})'
  BY <1>1 DEF Ordered, InOrder, Advances
<1>5. InOrder(Captured, {Newest})'
  BY <1>1 DEF Ordered, InOrder, Advances
<1>6. Reaching'
  BY <1>1 DEF Reaching, Advances
<1> QED
  BY <1>2, <1>3, <1>4, <1>5, <1>6 DEF Ordered

LEMMA RepeatsKept ==
  ASSUME JointInv, [Next]_vars, repeats' = 0
  PROVE  repeats = 0
<1>1. repeats \in Nat
  BY StageTypes
<1>2. CASE PerformAction
  BY <1>1, <1>2 DEF PerformAction
<1>3. CASE ~PerformAction
  BY <1>3 DEF Next, ControlLoop, Receiver, CheckAvailable, LeaveControlLoop, PopFromEmpty,
    MarkLatest, CheckReady, CaptureObservation, CaptureFails, SendObservation, SendOnStopped,
    SendReturns, RequestActions, LeaveReceiver, ReceiveNothing, ReceiveChunk, IterationBroken,
    IterationDone, MergeAction, ReplaceQueue, SetMustGo, Stop, Terminated, vars, history
<1> QED
  BY <1>2, <1>3

LEMMA MarkedStep ==
  ASSUME JointInv, Marked, [Next]_vars, repeats' = 0
  PROVE  Marked' /\ Newest <= Newest'
<1>1. /\ latestAction \in Int /\ highest \in Int /\ repeats \in Nat /\ latestAction <= highest
  BY StageTypes DEF JointInv, IInv, NotAhead
<1>2. CASE PerformAction
  <2>1. Head(actionQueue) \in Int
    BY <1>2, QueueTypes, HeadTailProperties DEF JointInv, IInv, PerformAction
  <2> QED
    BY <1>1, <1>2, <2>1 DEF PerformAction, Marked, Larger, Newest
<1>3. CASE MarkLatest
  BY <1>1, <1>3 DEF MarkLatest, Marked, Larger, Newest, history
<1>4. CASE Receiver \/ Stop \/ Terminated \/ UNCHANGED vars
  <2>1. UNCHANGED <<latestAction, highest, repeats, ctl, popped>>
    BY <1>4 DEF Receiver, RequestActions, LeaveReceiver, ReceiveNothing, ReceiveChunk,
      IterationBroken, IterationDone, MergeAction, ReplaceQueue, SetMustGo, Stop, Terminated, vars,
      shared, ctlVars, history
  <2> QED
    BY <1>1, <2>1 DEF Marked, Newest, Larger
<1>5. CASE \/ CheckAvailable \/ LeaveControlLoop \/ PopFromEmpty \/ CheckReady \/ CaptureObservation
           \/ CaptureFails \/ SendObservation \/ SendOnStopped \/ SendReturns
  <2>1. UNCHANGED <<latestAction, highest, repeats>> /\ ctl # "mark" /\ ctl' # "mark"
    BY <1>5 DEF CheckAvailable, LeaveControlLoop, PopFromEmpty, CheckReady, CaptureObservation,
      CaptureFails, SendObservation, SendOnStopped, SendReturns, shared, history
  <2> QED
    BY <1>1, <2>1 DEF Marked, Newest, Larger
<1> QED
  BY <1>2, <1>3, <1>4, <1>5 DEF Next, ControlLoop

LEMMA MergedStep ==
  ASSUME JointInv, Merged, [Next]_vars
  PROVE  Merged'
<1> USE DEF JointInv
<1>1. /\ highest \in Int /\ latestAction <= highest /\ latestAction \in Int
      /\ chunk.base \in Int /\ idx \in Nat /\ future \in Seq(Int)
  BY QueueTypes, ChunkAssumption DEF IInv, NotAhead, TypeOK, ChunkAssumption
<1>2. CASE MergeAction
  <2>1. rcv = "merge" /\ idx' = idx + 1 /\ chunk' = chunk /\ highest' = highest
    BY <1>2 DEF MergeAction, history
  <2>2. CASE chunk.base + idx <= latestAction
    <3>1. future' = future
      BY <1>2, <2>2 DEF MergeAction
    <3> QED
      BY <1>1, <2>1, <2>2, <3>1 DEF Merged
  <2>3. CASE ~(chunk.base + idx <= latestAction)
    <3>1. future' = Append(future, chunk.base + idx)
      BY <1>2, <2>3 DEF MergeAction
    <3>2. /\ \A i \in DOMAIN future : i \in DOMAIN future' /\ future'[i] = future[i]
          /\ Len(future) + 1 \in DOMAIN future' /\ future'[Len(future) + 1] = chunk.base + idx
      BY <1>1, <3>1, AppendProperties
    <3>3. ASSUME NEW t \in chunk.base .. (chunk.base + idx), t > highest
          PROVE  \E j \in DOMAIN future' : future'[j] = t
      <4>1. CASE t = chunk.base + idx
        BY <3>2, <4>1
      <4>2. CASE t # chunk.base + idx
        <5>1. t \in chunk.base .. (chunk.base + idx - 1)
          BY <1>1, <4>2
        <5> QED
          BY <2>1, <3>2, <3>3, <5>1 DEF Merged
      <4> QED
        BY <4>1, <4>2
    <3>4. chunk'.base .. (chunk'.base + idx' - 1) = chunk.base .. (chunk.base + idx)
      BY <1>1, <2>1
    <3> QED
      BY <2>1, <3>3, <3>4 DEF Merged
  <2> QED
    BY <2>2, <2>3
<1>3. CASE IterationDone
  <2>1. idx' = 0 /\ chunk' = chunk
    BY <1>3 DEF IterationDone, IInv, Merging
  <2> QED
    BY <1>1, <2>1 DEF Merged
<1>4. CASE ControlLoop
  <2>1. /\ UNCHANGED <<rcv, future, idx, chunk>>
        /\ highest' \in Int /\ highest' >= highest
    <3>1. CASE PerformAction
      <4>1. Head(actionQueue) \in Int
        BY <3>1, QueueTypes, HeadTailProperties DEF IInv, PerformAction
      <4> QED
        BY <1>1, <3>1, <4>1 DEF PerformAction, Larger
    <3>2. CASE ~PerformAction
      BY <1>1, <1>4, <3>2 DEF ControlLoop, CheckAvailable, LeaveControlLoop, PopFromEmpty,
        MarkLatest, CheckReady, CaptureObservation, CaptureFails, SendObservation, SendOnStopped,
        SendReturns, rcvVars, history
    <3> QED
      BY <3>1, <3>2
  <2> QED
    BY <1>1, <2>1 DEF Merged
<1>5. CASE \/ RequestActions \/ LeaveReceiver \/ ReceiveNothing \/ IterationBroken \/ ReplaceQueue
           \/ SetMustGo \/ \E t \in sent, n \in 1 .. ActionsPerChunk : ReceiveChunk(t, n)
  BY <1>5 DEF RequestActions, LeaveReceiver, ReceiveNothing, IterationBroken, ReplaceQueue,
    SetMustGo, ReceiveChunk, Merged
<1>6. CASE Stop \/ Terminated \/ UNCHANGED vars
  BY <1>6 DEF Stop, Terminated, vars, rcvVars, history, Merged
<1> QED
  BY <1>2, <1>3, <1>4, <1>5, <1>6 DEF Next, Receiver

(* The queue takes over what was merged: it reaches to the end of a chunk    *)
(* that starts no later than anything on its way.                            *)
LEMMA OrderReplace ==
  ASSUME JointInv, QuietInv, OrderInv, ReplaceQueue, UNCHANGED serverVars
  PROVE  Ordered' /\ Reaching' /\ WholeChunk'
<1> USE DEF JointInv
<1>1. /\ rcv = "merge" /\ idx = chunk.len /\ actionQueue' = future /\ rcv' = "setgo"
      /\ UNCHANGED <<latestAction, ctl, obs, obsQueue, job>>
  BY DEF ReplaceQueue, serverVars, ctlVars
<1>2. chunk.len = ActionsPerChunk /\ chunk.base \in Taken
  BY <1>1 DEF OrderInv, WholeChunk, Taken
<1>3. Taken' = {}
  BY <1>1 DEF Taken, QuietInv, OneServer, Serving
<1>4. /\ Queued' = Queued /\ Arriving' = Arriving /\ Captured' = Captured /\ Newest' = Newest
  BY <1>1 DEF Queued, Arriving, Captured, Newest
<1>5. Ordered'
  BY <1>3, <1>4 DEF OrderInv, Ordered, InOrder
<1>6. \A i \in DOMAIN future : future[i] \in Int /\ future[i] < chunk.base + ActionsPerChunk
  <2>1. /\ future \in Seq(Int) /\ chunk.base \in Int /\ ActionsPerChunk \in Int /\ idx = ActionsPerChunk
        /\ Increasing(future) /\ (future # <<>> => future[Len(future)] < chunk.base + idx)
    BY <1>1, <1>2, QueueTypes, ChunkAssumption
    DEF IInv, FutureOK, MergeFrontier, ChunkAssumption
  <2> SUFFICES ASSUME NEW i \in DOMAIN future
               PROVE  future[i] \in Int /\ future[i] < chunk.base + ActionsPerChunk
    OBVIOUS
  <2>2. i \in 1 .. Len(future) /\ Len(future) \in Nat /\ future # <<>> /\ Len(future) \in 1 .. Len(future)
    BY <2>1, LenProperties, EmptySeq
  <2>3. future[i] \in Int /\ future[Len(future)] \in Int
    BY <2>1, <2>2, ElementOfSeq
  <2>4. i = Len(future) \/ future[i] < future[Len(future)]
    BY <2>1, <2>2 DEF Increasing
  <2> QED
    BY <2>1, <2>2, <2>3, <2>4
<1>7. Reaching'
  <2>1. \A t \in Queued \cup Arriving \cup Captured \cup {Newest} : t \in Int /\ chunk.base <= t
    BY <1>2, StageTypes DEF OrderInv, Ordered, InOrder
  <2>2. \A a \in ToPerform' : a \in Int /\ a < chunk.base + ActionsPerChunk
    BY <1>1, <1>6 DEF ToPerform
  <2>3. chunk.base \in Int /\ ActionsPerChunk \in Int
    BY <1>2, StageTypes, ChunkAssumption DEF ChunkAssumption
  <2> QED
    BY <1>3, <1>4, <2>1, <2>2, <2>3 DEF Reaching
<1>8. WholeChunk'
  BY <1>1 DEF WholeChunk
<1> QED
  BY <1>5, <1>7, <1>8

LEMMA OrderClient ==
  ASSUME JointInv, OrderInv, faults' = 0, repeats' = 0, ~ReplaceQueue,
         ClientStep
  PROVE  Advances /\ WholeChunk'
<1>1. Next /\ job' = job /\ obsQueue' = obsQueue
  BY ClientAlone DEF serverVars
<1>2. ~Fault
  BY FaultsAssumption DEF Fault, JointInv, CallsOK, FaultsAssumption
<1>3. /\ rcv' \in {"iterate", "merge"} => rcv \in {"iterate", "merge"} /\ chunk' = chunk
      /\ ctl' = "flag" => obs'.ts = Newest \/ (ctl = "flag" /\ obs' = obs)
      /\ actionQueue' = actionQueue \/ (actionQueue # <<>> /\ actionQueue' = Tail(actionQueue))
  <2>1. CASE \/ MoveRobot \/ CaptureRaises \/ StopClient \/ LoseObservation
             \/ EndLostSend
    BY <1>2, <2>1
    DEF MoveRobot, CaptureRaises, StopClient, LoseObservation,
        EndLostSend, PerformAction, Stop, SendReturns, rcvVars, ctlVars
  <2>2. CASE ControlStep
    BY <2>2
    DEF ControlStep, CheckAvailable, LeaveControlLoop, PopFromEmpty, MarkLatest, CheckReady,
        CaptureObservation, SendOnStopped, shared, rcvVars, Newest
  <2>3. CASE ReceiverStep
    BY <2>3
    DEF ReceiverStep, LeaveReceiver, IterationBroken, IterationDone, MergeAction,
        SetMustGo, shared, ctlVars
  <2>4. CASE SendFails
    BY <1>2, <2>4 DEF SendFails, CallFails, SendReturns, rcvVars
  <2>5. CASE RequestFails
    BY <1>2, <2>5
    DEF RequestFails, CallFails, ReceiveNothing, shared, ctlVars
  <2> QED
    BY <2>1, <2>2, <2>3, <2>4, <2>5 DEF ClientStep
<1>4. Newest <= Newest'
  BY <1>1, MarkedStep DEF OrderInv
<1>5. ToPerform' \subseteq ToPerform
  <2>1. CASE actionQueue' = actionQueue
    BY <2>1 DEF ToPerform
  <2>2. CASE actionQueue # <<>> /\ actionQueue' = Tail(actionQueue)
    <3>1. \A i \in DOMAIN actionQueue' : i + 1 \in DOMAIN actionQueue /\ actionQueue'[i] = actionQueue[i + 1]
      BY <2>2, QueueTypes, HeadTailProperties DEF JointInv, IInv
    <3> QED
      BY <3>1 DEF ToPerform
  <2> QED
    BY <1>3, <2>1, <2>2
<1>6. Taken' \subseteq Taken /\ Queued' = Queued /\ Arriving' = Arriving
  BY <1>1, <1>3 DEF Taken, Queued, Arriving
<1>7. Captured' \subseteq Captured \cup {Newest}
  BY <1>3 DEF Captured
<1>8. WholeChunk'
  BY <1>3 DEF OrderInv, WholeChunk
<1> QED
  BY <1>4, <1>5, <1>6, <1>7, <1>8 DEF Advances

LEMMA OrderHandler ==
  ASSUME JointInv, QuietInv, OrderInv, NEW w \in Workers, UNCHANGED vars,
         Server!Handle(w) \/ Server!PredictionFails(w) \/ Server!Return(w)
  PROVE  Advances /\ WholeChunk'
<1>1. PICK j \in Server!Job : job' = [job EXCEPT ![w] = j] /\ HandlerMoves(w, j)
  BY HandlerKinds DEF JointInv
<1>2. job'[w] = j /\ \A v \in Workers \ {w} : job'[v] = job[v]
  BY <1>1 DEF JointInv, ServerOK
<1>3. /\ UNCHANGED <<rcv, chunk, ctl, obs, latestAction, actionQueue>>
  BY DEF vars, shared, ctlVars, rcvVars
<1>4. Captured' = Captured /\ ToPerform' = ToPerform /\ Newest' = Newest /\ Newest \in Int
  BY <1>3, StageTypes DEF Captured, ToPerform, Newest
<1>5. WholeChunk'
  BY <1>3 DEF OrderInv, WholeChunk
<1>6. CASE Puts(w, j)
  <2>1. j.pc \notin Sending \cup Predicting
    BY <1>6 DEF Puts, Sending, Predicting
  <2>2. Taken' \subseteq Taken
    BY <1>2, <1>3, <2>1 DEF Taken
  <2>3. Arriving' = {}
    BY <1>2, <1>6, <2>1 DEF Arriving, Puts, QuietInv, OneSender
  <2>4. Queued' \subseteq Arriving
    <3>1. \A i \in DOMAIN obsQueue' : obsQueue'[i] = job[w].obs
      BY <1>6 DEF Puts
    <3> QED
      BY <1>6, <3>1 DEF Queued, Arriving, Puts
  <2> QED
    BY <1>4, <1>5, <2>2, <2>3, <2>4 DEF Advances
<1>7. CASE Takes(w, j)
  <2>1. obsQueue' = <<>> /\ 1 \in DOMAIN obsQueue /\ j.obs = obsQueue[1]
    <3>1. obsQueue \in Seq(Observation) /\ obsQueue # <<>>
      BY <1>7 DEF Takes, JointInv, ServerOK
    <3> QED
      BY <1>7, <3>1, LenProperties, EmptySeq DEF Takes
  <2>2. Queued' = {}
    BY <2>1 DEF Queued
  <2>3. Taken' \subseteq Taken \cup Queued
    BY <1>2, <1>3, <2>1 DEF Taken, Queued
  <2>4. Arriving' \subseteq Arriving
    BY <1>2, <1>7 DEF Arriving, Takes, Sending
  <2> QED
    BY <1>4, <1>5, <2>2, <2>3, <2>4 DEF Advances
<1>8. CASE Keeps(w, j) \/ Works(w, j) \/ Ends(w, j)
  <2>1. /\ j.pc \in Sending => job[w].pc \in Sending /\ j.obs = job[w].obs
        /\ j.pc \in Predicting => job[w].pc \in Predicting /\ j.obs = job[w].obs
        /\ obsQueue' \in {obsQueue, <<>>}
    BY <1>8 DEF Keeps, Works, Ends, Sending, Predicting
  <2>2. Taken' \subseteq Taken /\ Arriving' \subseteq Arriving
    BY <1>2, <1>3, <2>1 DEF Taken, Arriving
  <2>3. Queued' \subseteq Queued
    BY <2>1 DEF Queued
  <2> QED
    BY <1>4, <1>5, <2>2, <2>3 DEF Advances
<1> QED
  BY <1>1, <1>6, <1>7, <1>8 DEF HandlerMoves

LEMMA OrderCall ==
  ASSUME JointInv, OrderInv, faults' = 0, repeats' = 0,
         CallStep
  PROVE  Advances /\ WholeChunk'
<1> USE DEF JointInv
<1>1. ~Fault
  BY FaultsAssumption DEF Fault, CallsOK, FaultsAssumption
<1>2. Newest <= Newest'
  BY CallSteps, MarkedStep DEF OrderInv
<1>3. CASE BeginSend
  <2>1. /\ ctl = "flag" /\ ctl' = "sending"
        /\ obs' = [obs EXCEPT !.mustGo = mustGo /\ actionQueue = <<>>]
        /\ UNCHANGED <<rcv, chunk, actionQueue>>
    BY <1>3 DEF BeginSend, SendObservation, shared, rcvVars
  <2>2. obs'.ts = obs.ts
    BY <2>1 DEF IInv, TypeOK
  <2>3. PICK w \in Workers : Server!SendObservations(w, Sent)
    BY <1>3 DEF BeginSend
  <2>4. /\ job'[w].pc = "filter" /\ job'[w].obs.ts = obs.ts
        /\ \A v \in Workers \ {w} : job'[v] = job[v]
        /\ obsQueue' = obsQueue
    BY <2>2, <2>3 DEF Server!SendObservations, Sent, ServerOK
  <2>5. Taken' \subseteq Taken
    BY <2>1, <2>4 DEF Taken, Predicting
  <2>6. Arriving' \subseteq Arriving \cup Captured /\ Captured' = {}
    BY <2>1, <2>4 DEF Arriving, Captured
  <2>7. Queued' = Queued /\ ToPerform' = ToPerform /\ WholeChunk'
    BY <2>1, <2>4 DEF Queued, ToPerform, OrderInv, WholeChunk
  <2> QED
    BY <1>2, <2>5, <2>6, <2>7 DEF Advances
<1>4. ASSUME NEW w \in Workers, job'[w].pc \in {"get", "idle"},
             \A v \in Workers \ {w} : job'[v] = job[v],
             obsQueue' = obsQueue, actionQueue' = actionQueue,
             ctl' = "flag" => ctl = "flag" /\ obs' = obs
      PROVE  /\ Queued' = Queued /\ ToPerform' = ToPerform
             /\ Arriving' \subseteq Arriving /\ Captured' \subseteq Captured
             /\ \A v \in Workers : job'[v].pc \in Predicting =>
                  job[v].pc \in Predicting /\ job'[v].obs = job[v].obs
  BY <1>4 DEF Queued, ToPerform, Arriving, Captured, Sending, Predicting
<1>5. CASE EndSend
  <2>1. /\ ctl' = "loop" /\ ctlCall \in Workers
        /\ UNCHANGED <<rcv, chunk, actionQueue>>
    BY <1>5 DEF EndSend, SendReturns, rcvVars, CallsOK
  <2>2. /\ job'[ctlCall].pc = "idle"
        /\ \A v \in Workers \ {ctlCall} : job'[v] = job[v]
        /\ obsQueue' = obsQueue
    BY <1>5, <2>1, JobTypes DEF EndSend, Server!Return, ServerOK
  <2>3. Taken' \subseteq Taken /\ WholeChunk'
    BY <1>4, <2>1, <2>2 DEF Taken, OrderInv, WholeChunk
  <2> QED
    BY <1>2, <1>4, <2>1, <2>2, <2>3 DEF Advances
<1>6. CASE BeginRequest
  <2>1. rcv' = "wait" /\ UNCHANGED <<ctl, obs, chunk, actionQueue>>
    BY <1>6 DEF BeginRequest, RequestActions, shared, ctlVars
  <2>2. PICK w \in Workers : Server!GetActions(w)
    BY <1>6 DEF BeginRequest
  <2>3. /\ job'[w].pc = "get" /\ \A v \in Workers \ {w} : job'[v] = job[v]
        /\ obsQueue' = obsQueue
    BY <2>2 DEF Server!GetActions, ServerOK
  <2>4. Taken' \subseteq Taken /\ WholeChunk'
    BY <1>4, <2>1, <2>3 DEF Taken, OrderInv, WholeChunk
  <2> QED
    BY <1>2, <1>4, <2>1, <2>3, <2>4 DEF Advances
<1>7. CASE DeliverChunk \/ DeliverNothing
  <2>1. /\ rcvCall \in Workers /\ job'[rcvCall].pc = "idle"
        /\ \A v \in Workers \ {rcvCall} : job'[v] = job[v]
        /\ obsQueue' = obsQueue
    BY <1>7, JobTypes
    DEF DeliverChunk, DeliverNothing, Server!Return, ServerOK, CallsOK
  <2>2. UNCHANGED <<ctl, obs, actionQueue>>
    BY <1>7
    DEF DeliverChunk, DeliverNothing, ReceiveChunk, ReceiveNothing, shared, ctlVars
  <2>3. \/ rcv' = "loop"
        \/ /\ chunk' = [base |-> job[rcvCall].obs.ts, len |-> ActionsPerChunk]
           /\ job[rcvCall].pc = "chunk"
    BY <1>7
    DEF DeliverChunk, DeliverNothing, ReceiveChunk, ReceiveNothing
  <2>4. Taken' \subseteq Taken
    BY <1>4, <2>1, <2>2, <2>3 DEF Taken, Predicting
  <2>5. WholeChunk'
    BY <2>3 DEF WholeChunk
  <2> QED
    BY <1>2, <1>4, <2>1, <2>2, <2>4, <2>5 DEF Advances
<1>8. CASE RetryObservation \/ RetryRequest
  BY <1>1, <1>8 DEF RetryObservation, RetryRequest
<1> QED
  BY <1>3, <1>5, <1>6, <1>7, <1>8 DEF CallStep

LEMMA OrderStep ==
  ASSUME JointInv, faults = 0 => QuietInv,
         faults = 0 /\ repeats = 0 => OrderInv, [JointNext]_jointVars
  PROVE  (faults = 0 /\ repeats = 0 => OrderInv)'
<1> SUFFICES ASSUME faults' = 0, repeats' = 0 PROVE OrderInv'
  OBVIOUS
<1>1. [Next]_vars /\ JointInv'
  BY JointStep
<1>2. faults = 0
  BY FaultKept
<1>3. QuietInv /\ OrderInv
  <2>1. repeats = 0
    BY <1>1, RepeatsKept
  <2> QED
    BY <1>2, <2>1
<1>4. Marked' /\ Merged'
  BY <1>1, <1>3, MarkedStep, MergedStep DEF OrderInv
<1>5. ASSUME Advances, WholeChunk' PROVE OrderInv'
  BY <1>1, <1>3, <1>4, <1>5, AdvanceOrder DEF OrderInv
<1>6. CASE ClientStep
  <2>1. CASE ReplaceQueue
    <3>1. UNCHANGED serverVars
      BY <1>6, ClientAlone
    <3> QED
      BY <1>3, <1>4, <2>1, <3>1, OrderReplace DEF OrderInv
  <2>2. CASE ~ReplaceQueue
    BY <1>3, <1>5, <1>6, <2>2, OrderClient
  <2> QED
    BY <2>1, <2>2
<1>7. CASE CallStep
  BY <1>3, <1>5, <1>7, OrderCall
<1>8. ASSUME NEW w \in Workers, Pool(w) \/ PredictionFails(w)
      PROVE  OrderInv'
  <2>1. UNCHANGED vars
    BY <1>8 DEF Pool, Handle, ReturnToNobody, PredictionFails
  <2>2. Server!Handle(w) \/ Server!PredictionFails(w) \/ Server!Return(w)
    BY <1>8 DEF Pool, Handle, ReturnToNobody, PredictionFails
  <2> QED
    BY <1>3, <1>5, <2>1, <2>2, OrderHandler
<1>9. CASE UNCHANGED jointVars
  <2>1. UNCHANGED vars /\ UNCHANGED <<job, obsQueue>>
    BY <1>9 DEF jointVars, serverVars
  <2>2. UNCHANGED <<rcv, chunk, ctl, obs, latestAction, actionQueue>>
    BY <2>1 DEF vars, shared, ctlVars, rcvVars
  <2>3. /\ Taken' = Taken /\ Queued' = Queued /\ Arriving' = Arriving /\ Captured' = Captured
        /\ Newest' = Newest /\ Newest \in Int /\ ToPerform' = ToPerform
    BY <2>1, <2>2, StageTypes DEF Taken, Queued, Arriving, Captured, Newest, ToPerform
  <2>4. WholeChunk'
    BY <1>3, <2>2 DEF OrderInv, WholeChunk
  <2> QED
    BY <1>5, <2>3, <2>4 DEF Advances
<1> QED
  BY <1>6, <1>7, <1>8, <1>9
  DEF JointNext, ControlThread, ReceiverThread, Ended, ClientStep, CallStep

(* As long as no call has failed and no action was repeated, merging a      *)
(* chunk loses no action the robot has yet to perform: the queue that        *)
(* _aggregate_action_queues puts in place reaches as far as the old one.     *)
THEOREM JointNothingLost == JointSpec => NothingLost
<1> DEFINE Quiet == faults = 0 => QuietInv
           Order == faults = 0 /\ repeats = 0 => OrderInv
<1>1. JointInit => Quiet /\ Order
  <2>1. ASSUME JointInit PROVE OrderInv
    <3>1. /\ rcv = "loop" /\ ctl = "loop" /\ actionQueue = <<>> /\ latestAction = -1 /\ highest = -1
          /\ obsQueue = <<>> /\ \A w \in Workers : job[w].pc = "idle"
      BY <2>1 DEF JointInit, Init, Server!Idle
    <3>2. /\ Taken = {} /\ Queued = {} /\ Arriving = {} /\ Captured = {} /\ ToPerform = {}
      BY <3>1 DEF Taken, Queued, Arriving, Captured, ToPerform, Sending, Predicting
    <3> QED
      BY <3>1, <3>2 DEF OrderInv, Ordered, InOrder, Reaching, Marked, WholeChunk, Merged
  <2> QED
    BY <2>1, QuietInit
<1>2. JointInv /\ Quiet /\ Order /\ [JointNext]_jointVars => Quiet' /\ Order'
  BY QuietStep, OrderStep
<1>3. JointInv /\ Quiet /\ Order =>
        (faults = 0 /\ repeats = 0 /\ ReplaceQueue =>
           \A i \in DOMAIN actionQueue :
             actionQueue[i] > highest => \E j \in DOMAIN future : future[j] = actionQueue[i])
  <2> SUFFICES ASSUME JointInv, OrderInv, ReplaceQueue,
                      NEW i \in DOMAIN actionQueue, actionQueue[i] > highest
               PROVE  \E j \in DOMAIN future : future[j] = actionQueue[i]
    OBVIOUS
  <2>1. /\ rcv = "merge" /\ idx = ActionsPerChunk /\ ActionsPerChunk \in Int
        /\ chunk.base \in Taken
    BY ChunkAssumption DEF ReplaceQueue, OrderInv, WholeChunk, Taken, ChunkAssumption
  <2>2. /\ actionQueue[i] \in ToPerform /\ actionQueue[i] \in Int /\ chunk.base \in Int
        /\ highest \in Int /\ actionQueue[i] \in Timesteps
    <3>1. actionQueue[i] \in ToPerform
      BY DEF ToPerform
    <3>2. actionQueue[i] \in Timesteps
      BY ElementOfSeq DEF JointInv, IInv, TypeOK
    <3> QED
      BY <2>1, <3>1, <3>2, StageTypes
  <2>3. actionQueue[i] < chunk.base + idx
    BY <2>1, <2>2 DEF OrderInv, Reaching
  <2>4. chunk.base <= actionQueue[i]
    BY <2>2 DEF JointInv, IInv, NotAhead, Larger, Timesteps
  <2>5. idx \in Int
    BY <2>1
  <2>6. actionQueue[i] \in chunk.base .. (chunk.base + idx - 1)
    BY <2>2, <2>3, <2>4, <2>5
  <2> QED
    BY <2>1, <2>6 DEF OrderInv, Merged
<1>4. JointSpec => []Quiet /\ []Order
  BY <1>1, <1>2, JointInvariance, PTL DEF JointSpec
<1> QED
  BY <1>3, <1>4, JointInvariance, PTL DEF JointSpec, NothingLost
===============================================================================
