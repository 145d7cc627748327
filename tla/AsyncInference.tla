---------------------------- MODULE AsyncInference -----------------------------
(***************************************************************************)
(* One robot client and one policy server, connected by gRPC.              *)
(*                                                                         *)
(* The client's two threads make one blocking call each: the control loop  *)
(* SendObservations, the receiver GetActions.  A call occupies a thread of *)
(* the server's pool.  A call may fail before it reaches the server, fail  *)
(* while its handler goes on without a caller, or be retried by the        *)
(* channel (grpc_channel_options) while the first attempt still runs; the  *)
(* prediction may raise and the robot may fail to deliver an observation.  *)
(* `faults` counts all of these and bounds them.                           *)
(*                                                                         *)
(* The handshake (Ready, SendPolicyInstructions) has succeeded initially.  *)
(*                                                                         *)
(* The module extends RobotClient: vars, Init, Next and Spec are the       *)
(* client's, and an action of it is what the client does in a joint step.  *)
(***************************************************************************)
EXTENDS RobotClient

CONSTANTS
  Workers, Poses, None,
  StartPose,  (* where the robot stands when the client starts               *)
  Moves,      (* Moves[p]: the poses an action may take the robot to from p  *)
  MaxFaults   (* bound on the faults                                         *)

ASSUME MovesAssumption == StartPose \in Poses /\ Moves \in [Poses -> SUBSET Poses]

ASSUME FaultsAssumption == MaxFaults \in Nat

ASSUME NoneAssumption == None \notin Workers

VARIABLES
  session, policy, obsQueue, predicted, lastProcessed, job,
  pose,      (* the robot's joint state                                      *)
  ctlCall,   (* the pool thread that handles the control loop's call         *)
  rcvCall,   (* the pool thread that handles the receiver's call             *)
  faults     (* how many faults have happened                                *)

MaxSession == 1

Server == INSTANCE PolicyServer

serverVars == <<session, policy, obsQueue, predicted, lastProcessed, job>>
jointVars  == <<vars, serverVars, pose, ctlCall, rcvCall, faults>>

JointTypeOK ==
  /\ TypeOK
  /\ Server!TypeOK
  /\ pose \in Poses
  /\ ctlCall \in Workers \cup {None}
  /\ rcvCall \in Workers \cup {None}
  /\ faults \in 0 .. MaxFaults

JointInit ==
  /\ Init
  /\ session = 1
  /\ policy = 1
  /\ obsQueue = <<>>
  /\ predicted = {}
  /\ lastProcessed = None
  /\ job = [w \in Workers |-> Server!Idle]
  /\ pose = StartPose
  /\ ctlCall = None
  /\ rcvCall = None
  /\ faults = 0

Fault == faults < MaxFaults /\ faults' = faults + 1

(* A pending call fails: the connection broke, or stop() closed the channel.*)
CallFails ==
  \/ running /\ Fault
  \/ ~running /\ UNCHANGED faults

-------------------------------------------------------------------------------
(* The client on its own.                                                   *)

MoveRobot ==
  /\ PerformAction
  /\ pose' \in Moves[pose]
  /\ UNCHANGED <<serverVars, ctlCall, rcvCall, faults>>

CaptureRaises ==
  /\ CaptureFails
  /\ Fault
  /\ UNCHANGED <<serverVars, pose, ctlCall, rcvCall>>

(* The control loop's steps that involve neither the robot nor the server.  *)
ControlStep ==
  /\ \/ CheckAvailable
     \/ LeaveControlLoop
     \/ PopFromEmpty
     \/ MarkLatest
     \/ CheckReady
     \/ CaptureObservation
     \/ SendOnStopped
  /\ UNCHANGED <<serverVars, pose, ctlCall, rcvCall, faults>>

ReceiverStep ==
  /\ \/ LeaveReceiver
     \/ IterationBroken
     \/ IterationDone
     \/ MergeAction
     \/ ReplaceQueue
     \/ SetMustGo
  /\ UNCHANGED <<serverVars, pose, ctlCall, rcvCall, faults>>

StopClient ==
  /\ Stop
  /\ UNCHANGED <<serverVars, pose, ctlCall, rcvCall, faults>>

-------------------------------------------------------------------------------
(* SendObservations.                                                        *)

(* What the server is sent: the observation as it leaves the client.        *)
Sent == [ts |-> obs'.ts, mustGo |-> obs'.mustGo, pose |-> pose,
         session |-> session]

BeginSend ==
  /\ SendObservation
  /\ \E w \in Workers : Server!SendObservations(w, Sent) /\ ctlCall' = w
  /\ UNCHANGED <<pose, rcvCall, faults>>

(* The request never reaches the server.                                    *)
LoseObservation ==
  /\ SendObservation
  /\ Fault
  /\ UNCHANGED <<serverVars, pose, ctlCall, rcvCall>>

(* The channel retries a call whose first attempt goes on.                  *)
RetryObservation ==
  /\ ctlCall # None
  /\ job[ctlCall].pc \in Server!Running
  /\ \E w \in Workers :
       /\ Server!SendObservations(w, job[ctlCall].obs)
       /\ ctlCall' = w
  /\ Fault
  /\ UNCHANGED <<vars, pose, rcvCall>>

(* The handler has returned or raised.                                      *)
EndSend ==
  /\ SendReturns
  /\ ctlCall # None
  /\ Server!Return(ctlCall)
  /\ ctlCall' = None
  /\ UNCHANGED <<pose, rcvCall, faults>>

(* RpcError after the request was lost.                                     *)
EndLostSend ==
  /\ SendReturns
  /\ ctlCall = None
  /\ UNCHANGED <<serverVars, pose, ctlCall, rcvCall, faults>>

(* RpcError while the handler goes on without a caller.                     *)
SendFails ==
  /\ SendReturns
  /\ ctlCall # None
  /\ CallFails
  /\ ctlCall' = None
  /\ UNCHANGED <<serverVars, pose, rcvCall>>

-------------------------------------------------------------------------------
(* GetActions.                                                              *)

BeginRequest ==
  /\ RequestActions
  /\ \E w \in Workers : Server!GetActions(w) /\ rcvCall' = w
  /\ UNCHANGED <<pose, ctlCall, faults>>

RetryRequest ==
  /\ rcvCall # None
  /\ job[rcvCall].pc \in Server!Running
  /\ \E w \in Workers : Server!GetActions(w) /\ rcvCall' = w
  /\ Fault
  /\ UNCHANGED <<vars, pose, ctlCall>>

(* Mutant: the server stamps the actions from the next timestep on.         *)
DeliverLater ==
  /\ rcvCall # None
  /\ job[rcvCall].pc = "chunk"
  /\ ReceiveChunk(job[rcvCall].obs.ts + 1, ActionsPerChunk)
  /\ Server!Return(rcvCall)
  /\ rcvCall' = None
  /\ UNCHANGED <<pose, ctlCall, faults>>

(* _time_action_chunk stamps the actions from the observation's timestep on.*)
DeliverChunk ==
  /\ rcvCall # None
  /\ job[rcvCall].pc = "chunk"
  /\ ReceiveChunk(job[rcvCall].obs.ts, ActionsPerChunk)
  /\ Server!Return(rcvCall)
  /\ rcvCall' = None
  /\ UNCHANGED <<pose, ctlCall, faults>>

DeliverNothing ==
  /\ rcvCall # None
  /\ job[rcvCall].pc = "nothing"
  /\ ReceiveNothing
  /\ Server!Return(rcvCall)
  /\ rcvCall' = None
  /\ UNCHANGED <<pose, ctlCall, faults>>

(* RpcError: the answer is lost, or the handler goes on without a caller.   *)
RequestFails ==
  /\ ReceiveNothing
  /\ rcvCall # None
  /\ CallFails
  /\ rcvCall' = None
  /\ UNCHANGED <<serverVars, pose, ctlCall>>

-------------------------------------------------------------------------------
(* The server on its own.                                                   *)

Handle(w) ==
  /\ Server!Handle(w)
  /\ UNCHANGED <<vars, pose, ctlCall, rcvCall, faults>>

PredictionFails(w) ==
  /\ Server!PredictionFails(w)
  /\ Fault
  /\ UNCHANGED <<vars, pose, ctlCall, rcvCall>>

(* A handler nobody waits for ends.                                         *)
ReturnToNobody(w) ==
  /\ w \notin {ctlCall, rcvCall}
  /\ Server!Return(w)
  /\ UNCHANGED <<vars, pose, ctlCall, rcvCall, faults>>

(* The client has ended and the server is idle.                             *)
Ended ==
  /\ Terminated
  /\ UNCHANGED jointVars

-------------------------------------------------------------------------------
ControlThread ==
  MoveRobot \/ ControlStep \/ BeginSend \/ EndSend \/ EndLostSend

ReceiverThread == ReceiverStep \/ BeginRequest \/ DeliverChunk \/ DeliverNothing

Pool(w) == Handle(w) \/ ReturnToNobody(w)

JointNext ==
  \/ ControlThread
  \/ ReceiverThread
  \/ \E w \in Workers : Pool(w) \/ PredictionFails(w)
  \/ CaptureRaises
  \/ LoseObservation
  \/ SendFails
  \/ RetryObservation
  \/ RetryRequest
  \/ RequestFails
  \/ StopClient
  \/ Ended

(* Take and Put of the server, for the fairness below.                      *)
TakeStep(w) ==
  Server!Take(w) /\ UNCHANGED <<vars, pose, ctlCall, rcvCall, faults>>

PutToWaiting(w) ==
  /\ \E v \in Workers : job[v].pc = "get"
  /\ Server!Put(w) \/ Server!PutUnblocked(w)
  /\ UNCHANGED <<vars, pose, ctlCall, rcvCall, faults>>

(* The threads keep running; faults and the operator are never forced.  The *)
(* rest is about time.  GetActions waits for obs_queue_timeout, two seconds *)
(* by default, while a handler that has evicted an observation puts its own *)
(* at once: the deadline does not fall between the two every time.  And a   *)
(* waiting thread is woken by the put, while the next observation, which    *)
(* alone can take the item away again, comes a control period later: it is  *)
(* not passed over for ever.                                                *)
Fairness ==
  /\ WF_jointVars(ControlThread)
  /\ WF_jointVars(ReceiverThread)
  /\ \A w \in Workers :
       WF_jointVars(Pool(w)) /\ SF_jointVars(TakeStep(w)) /\ SF_jointVars(PutToWaiting(w))

JointSpec == JointInit /\ [][JointNext]_jointVars /\ Fairness

-------------------------------------------------------------------------------
(* The client only ever meets a server that RobotClient allows: every chunk *)
(* it gets is for an observation it has sent.                               *)
ImplementsClient == Spec

(* The server, after the handshake, only ever meets a client that           *)
(* PolicyServer allows.                                                     *)
ImplementsServer == [][Server!Next]_serverVars

(* policy_server.py:306, "never blocks as queue is non-full here": as long  *)
(* as no call has failed, put() finds room.                                 *)
PutNeverBlocks ==
  faults = 0 => \A w \in Workers : job[w].pc # "blocked"

(* As long as no call has failed and no action was repeated, merging a     *)
(* chunk loses no action the robot has yet to perform: the new chunk        *)
(* reaches at least as far as the queue it replaces.                        *)
NothingLost ==
  [][faults = 0 /\ repeats = 0 /\ ReplaceQueue =>
       \A i \in DOMAIN actionQueue :
         actionQueue[i] > highest => \E j \in DOMAIN future : future[j] = actionQueue[i]]_jointVars
===============================================================================
