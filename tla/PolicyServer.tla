----------------------------- MODULE PolicyServer ------------------------------
(***************************************************************************)
(* The policy side of asynchronous inference (policy_server.py).  A gRPC   *)
(* thread pool runs the handlers, so that every handler interleaves with   *)
(* every other one; they share a queue of one observation, the set of      *)
(* predicted timesteps and the last processed observation.                 *)
(*                                                                         *)
(* A client announces itself with Ready, which replaces the queue object   *)
(* and the set of predicted timesteps but stops no handler: a handler of   *)
(* an earlier client goes on, and a GetActions of it that waits on the     *)
(* replaced queue waits there until its timeout.  `session` counts the     *)
(* Ready calls and so names the queue object; an observation carries the   *)
(* session of the client that sent it, which the code does not know.       *)
(***************************************************************************)
EXTENDS Integers, Sequences

CONSTANTS
  Workers,     (* the threads of the pool                                    *)
  Poses,       (* joint states, one for each class of similar observations   *)
  None,        (* last_processed_obs before the first one                    *)
  MaxStep,     (* bound on the timesteps of observations                     *)
  MaxSession   (* bound on the Ready calls                                   *)

ASSUME WorkersAssumption == None \notin Workers

ASSUME BoundAssumption == MaxStep \in Nat /\ MaxSession \in Nat \ {0}

Observation ==
  [ts : 0 .. MaxStep, mustGo : BOOLEAN, pose : Poses, session : 1 .. MaxSession]

ASSUME NoneAssumption == None \notin Observation

VARIABLES
  session,        (* how many clients have called Ready                      *)
  policy,         (* the session whose policy is loaded, 0 before the first  *)
  obsQueue,       (* self.observation_queue, at most one observation         *)
  predicted,      (* self._predicted_timesteps                               *)
  lastProcessed,  (* self.last_processed_obs                                 *)
  job             (* what each thread of the pool is doing                   *)

vars == <<session, policy, obsQueue, predicted, lastProcessed, job>>

(* Where a handler is.  SendObservations: filter, room, evict, put and      *)
(* maybe blocked in it, then ack or error.  GetActions: get, add, prepare,  *)
(* infer, then chunk or nothing.                                            *)
Running  == {"filter", "room", "evict", "put", "blocked",
             "get", "add", "prepare", "infer"}
Finished == {"ack", "error", "chunk", "nothing"}

(* `queue` is the queue object a handler waits on or has taken from.        *)
Job == [pc : Running \cup Finished \cup {"idle"},
        obs : Observation \cup {None},
        queue : 0 .. MaxSession]

Idle == [pc |-> "idle", obs |-> None, queue |-> 0]

TypeOK ==
  /\ session \in 0 .. MaxSession
  /\ policy \in 0 .. MaxSession
  /\ obsQueue \in Seq(Observation)
  /\ Len(obsQueue) <= 1
  /\ predicted \subseteq 0 .. MaxStep
  /\ lastProcessed \in Observation \cup {None}
  /\ job \in [Workers -> Job]

Init ==
  /\ session = 0
  /\ policy = 0
  /\ obsQueue = <<>>
  /\ predicted = {}
  /\ lastProcessed = None
  /\ job = [w \in Workers |-> Idle]

(* Handler w moves from one place to another, or ends with an outcome other *)
(* than a chunk.                                                            *)
Step(w, from, to) ==
  /\ job[w].pc = from
  /\ job' = [job EXCEPT ![w].pc = to]

End(w, from, outcome) ==
  /\ job[w].pc = from
  /\ job' = [job EXCEPT ![w] = [Idle EXCEPT !.pc = outcome]]

-------------------------------------------------------------------------------
(* Ready: _reset_server() flushes the queue and the predicted timesteps.    *)
(* last_processed_obs stays.                                                *)
Ready ==
  /\ session < MaxSession
  /\ session' = session + 1
  /\ obsQueue' = <<>>
  /\ predicted' = {}
  /\ UNCHANGED <<policy, lastProcessed, job>>

SendPolicyInstructions ==
  /\ session > 0
  /\ policy' = session
  /\ UNCHANGED <<session, obsQueue, predicted, lastProcessed, job>>

-------------------------------------------------------------------------------
(* SendObservations: the handler has received observation o.                *)
SendObservations(w, o) ==
  /\ job[w].pc = "idle"
  /\ job' = [job EXCEPT ![w] = [pc |-> "filter", obs |-> o, queue |-> 0]]
  /\ UNCHANGED <<session, policy, obsQueue, predicted, lastProcessed>>

(* observations_similar: the joint states are close.  Similar observations  *)
(* have the same pose here.                                                 *)
ObservationsSimilar(o, p) == o.pose = p.pose

ObsSanityChecks(o, previous) ==
  /\ o.ts \notin predicted
  /\ ~ObservationsSimilar(o, previous)

(* The condition of _enqueue_observation, in one step: it reads             *)
(* last_processed_obs before the predicted timesteps, which only grow in a  *)
(* session, so the outcome is that of one of the two moments.               *)
MustEnqueue(o) ==
  o.mustGo \/ (lastProcessed # None => ObsSanityChecks(o, lastProcessed))

Accept(w) ==
  /\ Step(w, "filter", "room")
  /\ MustEnqueue(job[w].obs)
  /\ UNCHANGED <<session, policy, obsQueue, predicted, lastProcessed>>

FilterOut(w) ==
  /\ End(w, "filter", "ack")
  /\ ~MustEnqueue(job[w].obs)
  /\ UNCHANGED <<session, policy, obsQueue, predicted, lastProcessed>>

(* Mutant: the queue is not looked at before the put.                       *)
LookNot(w) ==
  /\ Step(w, "room", "put")
  /\ UNCHANGED <<session, policy, obsQueue, predicted, lastProcessed>>

(* observation_queue.full().                                                *)
LookForRoom(w) ==
  /\ Step(w, "room", IF obsQueue = <<>> THEN "put" ELSE "evict")
  /\ UNCHANGED <<session, policy, obsQueue, predicted, lastProcessed>>

EvictOldest(w) ==
  /\ Step(w, "evict", "put")
  /\ obsQueue # <<>>
  /\ obsQueue' = <<>>
  /\ UNCHANGED <<session, policy, predicted, lastProcessed>>

(* get_nowait() on a queue that another handler has emptied since full():   *)
(* the Empty exception ends the handler and the observation is lost.        *)
EvictNothing(w) ==
  /\ End(w, "evict", "error")
  /\ obsQueue = <<>>
  /\ UNCHANGED <<session, policy, obsQueue, predicted, lastProcessed>>

(* Mutant: the queue has no maxsize.                                        *)
PutUnbounded(w) ==
  /\ End(w, "put", "ack")
  /\ obsQueue' = Append(obsQueue, job[w].obs)
  /\ UNCHANGED <<session, policy, predicted, lastProcessed>>

Put(w) ==
  /\ End(w, "put", "ack")
  /\ obsQueue = <<>>
  /\ obsQueue' = <<job[w].obs>>
  /\ UNCHANGED <<session, policy, predicted, lastProcessed>>

(* put() on a queue that another handler has filled since full() blocks,    *)
(* for ever once Ready has replaced the queue.                              *)
PutBlocks(w) ==
  /\ job[w].pc = "put"
  /\ obsQueue # <<>>
  /\ job' = [job EXCEPT ![w].pc = "blocked", ![w].queue = session]
  /\ UNCHANGED <<session, policy, obsQueue, predicted, lastProcessed>>

PutUnblocked(w) ==
  /\ End(w, "blocked", "ack")
  /\ job[w].queue = session
  /\ obsQueue = <<>>
  /\ obsQueue' = <<job[w].obs>>
  /\ UNCHANGED <<session, policy, predicted, lastProcessed>>

-------------------------------------------------------------------------------
(* GetActions: wait for an observation, predict, answer.                    *)
GetActions(w) ==
  /\ job[w].pc = "idle"
  /\ job' = [job EXCEPT ![w] = [pc |-> "get", obs |-> None, queue |-> session]]
  /\ UNCHANGED <<session, policy, obsQueue, predicted, lastProcessed>>

(* Mutant: Ready empties the queue object instead of replacing it.          *)
TakeAnySession(w) ==
  /\ job[w].pc = "get"
  /\ obsQueue # <<>>
  /\ job' = [job EXCEPT ![w].pc = "add", ![w].obs = Head(obsQueue)]
  /\ obsQueue' = Tail(obsQueue)
  /\ UNCHANGED <<session, policy, predicted, lastProcessed>>

(* observation_queue.get() on the queue object the handler began with.      *)
Take(w) ==
  /\ job[w].pc = "get"
  /\ job[w].queue = session
  /\ obsQueue # <<>>
  /\ job' = [job EXCEPT ![w].pc = "add", ![w].obs = Head(obsQueue)]
  /\ obsQueue' = Tail(obsQueue)
  /\ UNCHANGED <<session, policy, predicted, lastProcessed>>

(* obs_queue_timeout has passed on a queue that holds nothing, or on one    *)
(* that Ready has replaced: Empty.                                          *)
Timeout(w) ==
  /\ End(w, "get", "nothing")
  /\ obsQueue = <<>> \/ job[w].queue # session
  /\ UNCHANGED <<session, policy, obsQueue, predicted, lastProcessed>>

(* Mutant: only the last predicted timestep is kept.                        *)
SetPredicted(w) ==
  /\ Step(w, "add", "prepare")
  /\ predicted' = {job[w].obs.ts}
  /\ UNCHANGED <<session, policy, obsQueue, lastProcessed>>

(* _predicted_timesteps.add(), under its lock.                              *)
AddPredicted(w) ==
  /\ Step(w, "add", "prepare")
  /\ predicted' = predicted \cup {job[w].obs.ts}
  /\ UNCHANGED <<session, policy, obsQueue, lastProcessed>>

(* The observation is converted and preprocessed, then remembered.          *)
Prepare(w) ==
  /\ Step(w, "prepare", "infer")
  /\ policy # 0
  /\ lastProcessed' = job[w].obs
  /\ UNCHANGED <<session, policy, obsQueue, predicted>>

(* The conversion, the preprocessor, the policy or the postprocessor        *)
(* raises: logged, and the answer is empty.                                 *)
PredictionFails(w) ==
  /\ \/ End(w, "prepare", "nothing")
     \/ End(w, "infer", "nothing")
  /\ UNCHANGED <<session, policy, obsQueue, predicted, lastProcessed>>

(* The answer is the chunk that starts at the observation's timestep.       *)
Infer(w) ==
  /\ Step(w, "infer", "chunk")
  /\ UNCHANGED <<session, policy, obsQueue, predicted, lastProcessed>>

(* The answer is on its way and the thread is free.                         *)
Return(w) ==
  /\ job[w].pc \in Finished
  /\ job' = [job EXCEPT ![w] = Idle]
  /\ UNCHANGED <<session, policy, obsQueue, predicted, lastProcessed>>

-------------------------------------------------------------------------------
(* What a handler does once it has begun.                                   *)
Handle(w) ==
  \/ Accept(w)
  \/ FilterOut(w)
  \/ LookForRoom(w)
  \/ EvictOldest(w)
  \/ EvictNothing(w)
  \/ Put(w)
  \/ PutBlocks(w)
  \/ PutUnblocked(w)
  \/ Take(w)
  \/ Timeout(w)
  \/ AddPredicted(w)
  \/ Prepare(w)
  \/ Infer(w)

(* Any client of the current session may call at any time.                  *)
Next ==
  \/ Ready
  \/ SendPolicyInstructions
  \/ \E w \in Workers :
       \/ \E o \in Observation : o.session = session /\ SendObservations(w, o)
       \/ GetActions(w)
       \/ Handle(w)
       \/ PredictionFails(w)
       \/ Return(w)

Spec == Init /\ [][Next]_vars

-------------------------------------------------------------------------------
(* What has been processed for the current client is known as predicted,    *)
(* although the timestep is added, and the observation remembered, in two   *)
(* steps that a Ready call may separate.                                    *)
ProcessedIsPredicted ==
  lastProcessed # None /\ lastProcessed.session = session
    => lastProcessed.ts \in predicted

(* A GetActions call that a vanished client left behind never takes an      *)
(* observation of the client that came after it: it waits on a queue object *)
(* that _reset_server has replaced.                                         *)
NoLateSteal ==
  \A w \in Workers :
    job[w].queue # 0 /\ job[w].obs # None => job[w].obs.session <= job[w].queue
===============================================================================
