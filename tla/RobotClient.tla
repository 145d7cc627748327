------------------------------ MODULE RobotClient ------------------------------
(***************************************************************************)
(* The robot side of asynchronous inference (robot_client.py): a control   *)
(* loop that performs queued actions and streams observations, and a       *)
(* receiver thread that asks the policy server for action chunks and       *)
(* merges them into the queue.  The threads share the action queue, the    *)
(* timestep of the latest action, the largest chunk size seen and the      *)
(* must-go event; every action below is what one thread does between two   *)
(* points at which the other can run.                                      *)
(*                                                                         *)
(* The server is left open: a GetActions call may return nothing, fail, or *)
(* return a chunk for any observation this client ever sent, in any order  *)
(* and any number of times.  AsyncInference closes the module with the     *)
(* real server.                                                            *)
(*                                                                         *)
(* An action is represented by its timestep.  The tensors only meet in the *)
(* aggregation function, and both branches of the aggregation (line 250    *)
(* and line 256) queue one action with the incoming timestep.              *)
(***************************************************************************)
EXTENDS Integers, Sequences

CONSTANTS
  ActionsPerChunk,  (* actions_per_chunk: longest chunk the server returns   *)
  ThresholdNum,     (* chunk_size_threshold is ThresholdNum / ThresholdDen   *)
  ThresholdDen,
  MaxStep,          (* bound: the operator stops the client at this timestep *)
  MaxRepeats        (* bound: or after more repeated actions than this       *)

ASSUME ChunkAssumption == ActionsPerChunk \in Nat \ {0}

ASSUME ThresholdAssumption ==
  /\ ThresholdNum \in Nat
  /\ ThresholdDen \in Nat \ {0}
  /\ ThresholdNum <= ThresholdDen

ASSUME BoundAssumption == MaxStep \in Nat /\ MaxRepeats \in Nat

VARIABLES
  running,       (* ~shutdown_event.is_set()                                 *)
  latestAction,  (* self.latest_action                                       *)
  chunkSize,     (* self.action_chunk_size                                   *)
  actionQueue,   (* self.action_queue, as the sequence of its timesteps      *)
  mustGo,        (* self.must_go.is_set()                                    *)
  ctl,           (* where the control loop is                                *)
  popped,        (* the control loop's timed_action                          *)
  obs,           (* the control loop's observation                           *)
  rcv,           (* where the receiver thread is                             *)
  chunk,         (* the receiver's timed_actions: first timestep and length  *)
  dirty,         (* the deque under iteration has been popped                *)
  idx,           (* how many incoming actions have been merged               *)
  future,        (* future_action_queue                                      *)
  sent,          (* history: the timesteps of the observations sent          *)
  highest,       (* history: the highest timestep performed                  *)
  repeats        (* history: how many actions were not later than all before *)

ctlVars == <<ctl, popped, obs>>
rcvVars == <<rcv, chunk, dirty, idx, future>>
shared  == <<running, latestAction, chunkSize, actionQueue, mustGo>>
history == <<sent, highest, repeats>>
vars    == <<shared, ctlVars, rcvVars, history>>

Timesteps == 0 .. (MaxStep + ActionsPerChunk)

(* max(a, b) of the code.                                                   *)
Larger(a, b) == IF a >= b THEN a ELSE b

TypeOK ==
  /\ running \in BOOLEAN
  /\ latestAction \in Timesteps \cup {-1}
  /\ chunkSize \in (1 .. ActionsPerChunk) \cup {-1}
  /\ actionQueue \in Seq(Timesteps)
  /\ mustGo \in BOOLEAN
  /\ ctl \in {"loop", "pop", "mark", "ready", "observe", "flag", "sending",
              "done", "crashed"}
  /\ popped \in Timesteps \cup {-1}
  /\ obs \in [ts : 0 .. MaxStep, mustGo : BOOLEAN]
  /\ rcv \in {"loop", "wait", "iterate", "merge", "setgo", "done", "dead"}
  /\ chunk \in [base : 0 .. MaxStep, len : 0 .. ActionsPerChunk]
  /\ dirty \in BOOLEAN
  /\ idx \in 0 .. ActionsPerChunk
  /\ future \in Seq(Timesteps)
  /\ sent \subseteq 0 .. MaxStep
  /\ highest \in (0 .. MaxStep) \cup {-1}
  /\ repeats \in 0 .. MaxRepeats + 1

-------------------------------------------------------------------------------
(* A local variable that is not in use has its initial value.               *)
NoObs   == [ts |-> 0, mustGo |-> FALSE]
NoChunk == [base |-> 0, len |-> 0]

(* A client that has connected: both threads are past the start barrier.    *)
Init ==
  /\ running = TRUE
  /\ latestAction = -1
  /\ chunkSize = -1
  /\ actionQueue = <<>>
  /\ mustGo = TRUE
  /\ ctl = "loop"
  /\ popped = -1
  /\ obs = NoObs
  /\ rcv = "loop"
  /\ chunk = NoChunk
  /\ dirty = FALSE
  /\ idx = 0
  /\ future = <<>>
  /\ sent = {}
  /\ highest = -1
  /\ repeats = 0

-------------------------------------------------------------------------------
(* The control loop.                                                        *)

(* `while self.running`, then actions_available() under the queue's lock.   *)
(* The loop goes on within the bounds only.                                 *)
CheckAvailable ==
  /\ ctl = "loop"
  /\ running
  /\ highest < MaxStep
  /\ repeats <= MaxRepeats
  /\ ctl' = IF actionQueue # <<>> THEN "pop" ELSE "ready"
  /\ UNCHANGED <<shared, popped, obs, rcvVars, history>>

LeaveControlLoop ==
  /\ ctl = "loop"
  /\ ~running
  /\ ctl' = "done"
  /\ UNCHANGED <<shared, popped, obs, rcvVars, history>>

(* Mutant: a LIFO queue.                                                    *)
PerformLast ==
  /\ ctl = "pop"
  /\ actionQueue # <<>>
  /\ popped' = actionQueue[Len(actionQueue)]
  /\ actionQueue' = SubSeq(actionQueue, 1, Len(actionQueue) - 1)
  /\ highest' = Larger(highest, popped')
  /\ repeats' = IF popped' <= highest THEN repeats + 1 ELSE repeats
  /\ dirty' = (dirty \/ rcv = "iterate")
  /\ ctl' = "mark"
  /\ UNCHANGED <<running, latestAction, chunkSize, mustGo, obs, rcv, chunk,
                 idx, future, sent>>

(* get_nowait() under the queue's lock, then robot.send_action().  The      *)
(* action is performed before latest_action says so.                        *)
PerformAction ==
  /\ ctl = "pop"
  /\ actionQueue # <<>>
  /\ popped' = Head(actionQueue)
  /\ actionQueue' = Tail(actionQueue)
  /\ highest' = Larger(highest, Head(actionQueue))
  /\ repeats' = IF Head(actionQueue) <= highest THEN repeats + 1 ELSE repeats
  /\ dirty' = (dirty \/ rcv = "iterate")
  /\ ctl' = "mark"
  /\ UNCHANGED <<running, latestAction, chunkSize, mustGo, obs, rcv, chunk,
                 idx, future, sent>>

(* get_nowait() on a queue the receiver has emptied since actions_available *)
(* raises queue.Empty; nothing catches it and async_client stops the client.*)
PopFromEmpty ==
  /\ ctl = "pop"
  /\ actionQueue = <<>>
  /\ ctl' = "crashed"
  /\ running' = FALSE
  /\ UNCHANGED <<latestAction, chunkSize, actionQueue, mustGo, popped, obs,
                 rcvVars, history>>

MarkLatest ==
  /\ ctl = "mark"
  /\ latestAction' = popped
  /\ popped' = -1
  /\ ctl' = "ready"
  /\ UNCHANGED <<running, chunkSize, actionQueue, mustGo, obs, rcvVars, history>>

(* qsize / action_chunk_size <= threshold.  Before the first chunk the      *)
(* quotient is -qsize, which no threshold is below.                         *)
ReadyToSend ==
  \/ chunkSize = -1
  \/ Len(actionQueue) * ThresholdDen <= ThresholdNum * chunkSize

CheckReady ==
  /\ ctl = "ready"
  /\ ctl' = IF ReadyToSend THEN "observe" ELSE "loop"
  /\ UNCHANGED <<shared, popped, obs, rcvVars, history>>

(* Mutant: the timestep of the first observations is not raised to 0.       *)
CaptureUnclamped ==
  /\ ctl = "observe"
  /\ obs' = [ts |-> latestAction, mustGo |-> FALSE]
  /\ ctl' = "flag"
  /\ UNCHANGED <<shared, popped, rcvVars, history>>

(* robot.get_observation(), then latest_action under its lock.              *)
CaptureObservation ==
  /\ ctl = "observe"
  /\ obs' = [ts |-> Larger(latestAction, 0), mustGo |-> FALSE]
  /\ ctl' = "flag"
  /\ UNCHANGED <<shared, popped, rcvVars, history>>

(* robot.get_observation() raises: caught and logged, the loop goes on.     *)
CaptureFails ==
  /\ ctl = "observe"
  /\ ctl' = "loop"
  /\ UNCHANGED <<shared, popped, obs, rcvVars, history>>

(* The must-go flag is read under the queue's lock, then send_observation() *)
(* starts the call.                                                         *)
SendObservation ==
  /\ ctl = "flag"
  /\ running
  /\ obs' = [obs EXCEPT !.mustGo = mustGo /\ actionQueue = <<>>]
  /\ sent' = sent \cup {obs.ts}
  /\ ctl' = "sending"
  /\ UNCHANGED <<shared, popped, rcvVars, highest, repeats>>

(* send_observation() raises RuntimeError on a stopped client: caught.      *)
SendOnStopped ==
  /\ ctl = "flag"
  /\ ~running
  /\ obs' = NoObs
  /\ ctl' = "loop"
  /\ UNCHANGED <<shared, popped, rcvVars, history>>

(* The call returns, or fails with an RpcError that only its return value   *)
(* tells and nobody reads; a must-go observation clears the event.          *)
SendReturns ==
  /\ ctl = "sending"
  /\ mustGo' = (mustGo /\ ~obs.mustGo)
  /\ obs' = NoObs
  /\ ctl' = "loop"
  /\ UNCHANGED <<running, latestAction, chunkSize, actionQueue, popped, rcvVars,
                 history>>

-------------------------------------------------------------------------------
(* The receiver thread.                                                     *)

RequestActions ==
  /\ rcv = "loop"
  /\ running
  /\ rcv' = "wait"
  /\ UNCHANGED <<shared, ctlVars, chunk, dirty, idx, future, history>>

LeaveReceiver ==
  /\ rcv = "loop"
  /\ ~running
  /\ rcv' = "done"
  /\ UNCHANGED <<shared, ctlVars, chunk, dirty, idx, future, history>>

(* Mutant: an empty answer ends the receiver instead of the iteration.      *)
ReceiveNothingLeaves ==
  /\ rcv = "wait"
  /\ rcv' = "done"
  /\ UNCHANGED <<shared, ctlVars, chunk, dirty, idx, future, history>>

(* GetActions returns an empty message or fails with an RpcError.           *)
ReceiveNothing ==
  /\ rcv = "wait"
  /\ rcv' = "loop"
  /\ UNCHANGED <<shared, ctlVars, chunk, dirty, idx, future, history>>

(* Mutant: the chunk size is that of the last chunk, not of the largest.    *)
ReceiveLastSize(t, n) ==
  /\ rcv = "wait"
  /\ chunk' = [base |-> t, len |-> n]
  /\ chunkSize' = n
  /\ rcv' = "iterate"
  /\ UNCHANGED <<running, latestAction, actionQueue, mustGo, ctlVars, dirty, idx,
                 future, history>>

(* GetActions returns a chunk of n actions from timestep t on.  The         *)
(* receiver takes the deque under the lock and starts to iterate over it    *)
(* after releasing the lock.                                                *)
ReceiveChunk(t, n) ==
  /\ rcv = "wait"
  /\ chunk' = [base |-> t, len |-> n]
  /\ chunkSize' = Larger(chunkSize, n)
  /\ rcv' = "iterate"
  /\ UNCHANGED <<running, latestAction, actionQueue, mustGo, ctlVars, dirty, idx,
                 future, history>>

(* A deque popped under its iterator raises RuntimeError, which is not the  *)
(* RpcError that receive_actions catches: the thread dies.                  *)
IterationBroken ==
  /\ rcv = "iterate"
  /\ dirty
  /\ rcv' = "dead"
  /\ UNCHANGED <<shared, ctlVars, chunk, dirty, idx, future, history>>

IterationDone ==
  /\ rcv = "iterate"
  /\ ~dirty
  /\ rcv' = "merge"
  /\ UNCHANGED <<shared, ctlVars, chunk, dirty, idx, future, history>>

(* Mutant: the action after the latest one is skipped too.                  *)
MergeSkipsNext ==
  /\ rcv = "merge"
  /\ idx < chunk.len
  /\ future' = IF chunk.base + idx <= latestAction + 1
               THEN future
               ELSE Append(future, chunk.base + idx)
  /\ idx' = idx + 1
  /\ UNCHANGED <<shared, ctlVars, rcv, chunk, dirty, history>>

(* Mutant: an incoming action that is queued already is aggregated with the *)
(* old one but not queued again.                                            *)
MergeForgetsOverlap ==
  /\ rcv = "merge"
  /\ idx < chunk.len
  /\ LET t == chunk.base + idx
     IN  future' = IF t <= latestAction \/ \E i \in DOMAIN actionQueue : actionQueue[i] = t
                   THEN future
                   ELSE Append(future, t)
  /\ idx' = idx + 1
  /\ UNCHANGED <<shared, ctlVars, rcv, chunk, dirty, history>>

(* One incoming action: latest_action is read anew, an action that is not   *)
(* later is skipped, any other one is queued.                               *)
MergeAction ==
  /\ rcv = "merge"
  /\ idx < chunk.len
  /\ future' = IF chunk.base + idx <= latestAction
               THEN future
               ELSE Append(future, chunk.base + idx)
  /\ idx' = idx + 1
  /\ UNCHANGED <<shared, ctlVars, rcv, chunk, dirty, history>>

(* Mutant: the merged actions are added to the queue they were merged with. *)
ExtendQueue ==
  /\ rcv = "merge"
  /\ idx = chunk.len
  /\ actionQueue' = actionQueue \o future
  /\ future' = <<>>
  /\ idx' = 0
  /\ chunk' = NoChunk
  /\ rcv' = "setgo"
  /\ UNCHANGED <<running, latestAction, chunkSize, mustGo, ctlVars, dirty,
                 history>>

(* self.action_queue = future_action_queue, under the lock.                 *)
ReplaceQueue ==
  /\ rcv = "merge"
  /\ idx = chunk.len
  /\ actionQueue' = future
  /\ future' = <<>>
  /\ idx' = 0
  /\ chunk' = NoChunk
  /\ rcv' = "setgo"
  /\ UNCHANGED <<running, latestAction, chunkSize, mustGo, ctlVars, dirty,
                 history>>

SetMustGo ==
  /\ rcv = "setgo"
  /\ mustGo' = TRUE
  /\ rcv' = "loop"
  /\ UNCHANGED <<running, latestAction, chunkSize, actionQueue, ctlVars, chunk,
                 dirty, idx, future, history>>

-------------------------------------------------------------------------------
(* stop() sets the shutdown event; the threads notice at their loop heads.  *)
Stop ==
  /\ running
  /\ running' = FALSE
  /\ UNCHANGED <<latestAction, chunkSize, actionQueue, mustGo, ctlVars,
                 rcvVars, history>>

(* Both threads have ended: nothing happens any more.                       *)
Terminated ==
  /\ ctl \in {"done", "crashed"}
  /\ rcv \in {"done", "dead"}
  /\ UNCHANGED vars

ControlLoop ==
  \/ CheckAvailable
  \/ LeaveControlLoop
  \/ PerformAction
  \/ PopFromEmpty
  \/ MarkLatest
  \/ CheckReady
  \/ CaptureObservation
  \/ CaptureFails
  \/ SendObservation
  \/ SendOnStopped
  \/ SendReturns

Receiver ==
  \/ RequestActions
  \/ LeaveReceiver
  \/ ReceiveNothing
  \/ \E t \in sent, n \in 1 .. ActionsPerChunk : ReceiveChunk(t, n)
  \/ IterationBroken
  \/ IterationDone
  \/ MergeAction
  \/ ReplaceQueue
  \/ SetMustGo

Next == ControlLoop \/ Receiver \/ Stop \/ Terminated

Spec == Init /\ [][Next]_vars

-------------------------------------------------------------------------------
(* Timesteps are merged in order: the queue never holds the same timestep   *)
(* twice nor an earlier one behind a later one, although latest_action      *)
(* moves, back as well as forth, while _aggregate_action_queues reads it.   *)
QueueIncreasing ==
  \A i, j \in DOMAIN actionQueue : i < j => actionQueue[i] < actionQueue[j]

(* Replacing the queue leaves no gap: an action that waits in the queue is  *)
(* at most one ahead of what the robot has performed, or the action just    *)
(* before it waits ahead of it.                                             *)
NothingSkipped ==
  \A i \in DOMAIN actionQueue :
    \/ actionQueue[i] <= highest + 1
    \/ i > 1 /\ actionQueue[i - 1] = actionQueue[i] - 1

(* The queue never grows beyond the largest chunk received, so that the     *)
(* fill level which _ready_to_send_observation compares is at most one.     *)
QueueBounded == Len(actionQueue) <= Larger(chunkSize, 0)

Stream == INSTANCE ActionStream

(* The client implements the abstract action stream: whatever chunks come,  *)
(* in whatever order, the robot never jumps over an action.                 *)
ImplementsActionStream == Stream!Spec
===============================================================================
