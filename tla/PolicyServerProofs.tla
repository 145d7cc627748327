-------------------------- MODULE PolicyServerProofs ---------------------------
(***************************************************************************)
(* Proofs about PolicyServer, for every number of pool threads, poses and  *)
(* sessions.                                                               *)
(*                                                                         *)
(* Handlers outlive the client they serve.  What keeps them apart is that  *)
(* no observation is of a session to come, and that a handler holds an     *)
(* observation only from the queue object of its own session or an earlier *)
(* one: ServerInv says so, with what each place of a handler implies.      *)
(***************************************************************************)
EXTENDS PolicyServer, SequenceTheorems, TLAPS

USE WorkersAssumption, BoundAssumption, NoneAssumption
  DEF WorkersAssumption, BoundAssumption, NoneAssumption

Handling == {"filter", "room", "evict", "put"}
Holding  == Handling \cup {"blocked"}
Taken    == {"add", "prepare", "infer", "chunk"}

(* An observation that exists is of a session that has begun, s being the   *)
(* current one.                                                             *)
Begun(o, s) == o # None => o.session <= s

(* A handler that has reached a place with an observation holds one; it     *)
(* took it from a queue object of that observation's session or a later     *)
(* one; and before it remembers it as processed, its timestep is known as   *)
(* predicted, p being the set of those, unless Ready has come in between.   *)
JobOK(j, s, p) ==
  /\ j \in Job
  /\ j.pc \in Holding \cup Taken <=> j.obs # None
  /\ j.pc \in Handling => j.queue = 0
  /\ j.queue <= s
  /\ Begun(j.obs, s)
  /\ j.queue # 0 /\ j.obs # None => j.obs.session <= j.queue
  /\ j.pc = "prepare" /\ j.obs.session = s => j.obs.ts \in p

SharedOK ==
  /\ session \in 0 .. MaxSession
  /\ policy \in 0 .. session
  /\ obsQueue \in Seq(Observation)
  /\ Len(obsQueue) <= 1
  /\ obsQueue # <<>> => Begun(Head(obsQueue), session)
  /\ predicted \subseteq 0 .. MaxStep
  /\ lastProcessed \in Observation \cup {None}
  /\ Begun(lastProcessed, session)
  /\ ProcessedIsPredicted

ServerInv ==
  /\ SharedOK
  /\ job = [w \in Workers |-> job[w]]
  /\ \A w \in Workers : JobOK(job[w], session, predicted)

(* ServerInv contains what the runs check.                                  *)
LEMMA ServerInvImplies == ServerInv => TypeOK /\ ProcessedIsPredicted /\ NoLateSteal
<1> SUFFICES ASSUME ServerInv PROVE TypeOK /\ ProcessedIsPredicted /\ NoLateSteal
  OBVIOUS
<1>1. job \in [Workers -> Job]
  BY DEF ServerInv, JobOK
<1>2. policy \in 0 .. MaxSession
  BY DEF ServerInv, SharedOK
<1>3. TypeOK
  BY <1>1, <1>2 DEF ServerInv, SharedOK, TypeOK
<1> QED
  BY <1>3 DEF ServerInv, SharedOK, JobOK, NoLateSteal

(* Initially nothing has happened.                                          *)
LEMMA InitServerInv == Init => ServerInv
<1> SUFFICES ASSUME Init PROVE ServerInv
  OBVIOUS
<1>1. Idle \in Job /\ Idle.pc = "idle" /\ Idle.obs = None /\ Idle.queue = 0
  BY DEF Idle, Job
<1>2. session = 0
  BY DEF Init
<1>3. JobOK(Idle, session, predicted)
  BY <1>1, <1>2 DEF JobOK, Begun, Holding, Handling, Taken
<1>4. obsQueue \in Seq(Observation) /\ Len(obsQueue) <= 1 /\ obsQueue = <<>>
  BY EmptySeq DEF Init
<1>5. SharedOK
  BY <1>4 DEF Init, SharedOK, Begun, ProcessedIsPredicted
<1>6. job = [w \in Workers |-> job[w]] /\ \A w \in Workers : job[w] = Idle
  BY DEF Init
<1> QED
  BY <1>3, <1>5, <1>6 DEF ServerInv

(* A handler that moves on, in the same session and with no timestep        *)
(* forgotten, leaves the others as they were.                               *)
LEMMA OneHandler ==
  ASSUME ServerInv, NEW w \in Workers, NEW j,
         job' = [job EXCEPT ![w] = j],
         session' = session,
         predicted \subseteq predicted',
         JobOK(j, session', predicted'),
         SharedOK'
  PROVE  ServerInv'
<1>1. job' = [v \in Workers |-> job'[v]]
  BY DEF ServerInv
<1>2. ASSUME NEW v \in Workers PROVE JobOK(job'[v], session', predicted')
  <2>1. CASE v = w
    BY <2>1 DEF ServerInv
  <2>2. CASE v # w
    BY <2>2 DEF ServerInv, JobOK, Begun
  <2> QED
    BY <2>1, <2>2
<1> QED
  BY <1>1, <1>2 DEF ServerInv

-------------------------------------------------------------------------------
(* A handler that has ended holds nothing.                                  *)
LEMMA EndedOK ==
  ASSUME ServerInv, NEW outcome \in {"ack", "error", "nothing", "idle"},
         NEW p
  PROVE  JobOK([Idle EXCEPT !.pc = outcome], session, p)
<1> DEFINE j == [Idle EXCEPT !.pc = outcome]
<1>1. /\ j.pc = outcome /\ j.obs = None /\ j.queue = 0
      /\ j \in Job
  BY DEF Idle, Job, Finished
<1>2. session >= 0
  BY DEF ServerInv, SharedOK
<1> QED
  BY <1>1, <1>2 DEF JobOK, Begun, Holding, Handling, Taken

LEMMA EndStep ==
  ASSUME ServerInv, NEW w \in Workers, NEW from,
         NEW outcome \in {"ack", "error", "nothing"},
         End(w, from, outcome), session' = session, predicted' = predicted, SharedOK'
  PROVE  ServerInv'
BY EndedOK, OneHandler DEF End

(* A handler that goes on to a place of the same kind keeps what it holds.  *)
LEMMA MoveStep ==
  ASSUME ServerInv, NEW w \in Workers, NEW from, NEW to, Step(w, from, to),
         \/ from \in Handling /\ to \in Handling
         \/ from \in Taken /\ to \in Taken,
         session' = session, predicted \subseteq predicted', SharedOK',
         to = "prepare" => job[w].obs.ts \in predicted'
  PROVE  ServerInv'
<1> DEFINE j == [job[w] EXCEPT !.pc = to]
<1>1. job' = [job EXCEPT ![w] = j]
  BY DEF Step
<1>2. JobOK(job[w], session, predicted) /\ job[w].pc = from
  BY DEF ServerInv, Step
<1>3. job[w] \in Job
  BY <1>2 DEF JobOK
<1>4. to \in Running \cup Finished
  BY DEF Handling, Taken, Running, Finished
<1>5. /\ j \in Job
      /\ j.pc = to /\ j.obs = job[w].obs /\ j.queue = job[w].queue
  BY <1>3, <1>4 DEF Job
<1>6. JobOK(j, session', predicted')
  BY <1>2, <1>5 DEF JobOK, Begun, Holding, Handling, Taken
<1> QED
  BY <1>1, <1>6, OneHandler

-------------------------------------------------------------------------------
(* A new session: whatever is there is of an earlier one.                   *)
LEMMA ReadyStep == ServerInv /\ Ready => ServerInv'
<1> SUFFICES ASSUME ServerInv, Ready PROVE ServerInv'
  OBVIOUS
<1>1. /\ session \in Nat /\ session' = session + 1 /\ session' \in 0 .. MaxSession
      /\ policy' = policy /\ lastProcessed' = lastProcessed /\ job' = job
  BY DEF Ready, ServerInv, SharedOK
<1>2. /\ lastProcessed # None => /\ lastProcessed.session \in Nat
                                 /\ lastProcessed.session <= session
  BY DEF ServerInv, SharedOK, Begun, Observation
<1>3. SharedOK'
  <2>1. obsQueue' = <<>> /\ obsQueue' \in Seq(Observation) /\ Len(obsQueue') <= 1
    BY EmptySeq DEF Ready
  <2>2. predicted' \subseteq 0 .. MaxStep
    BY DEF Ready
  <2>3. policy' \in 0 .. session'
    BY <1>1 DEF ServerInv, SharedOK
  <2>4. Begun(lastProcessed', session') /\ ProcessedIsPredicted'
    BY <1>1, <1>2 DEF Begun, ProcessedIsPredicted
  <2> QED
    BY <1>1, <2>1, <2>2, <2>3, <2>4 DEF ServerInv, SharedOK
<1>4. ASSUME NEW w \in Workers PROVE JobOK(job'[w], session', predicted')
  <2>1. JobOK(job[w], session, predicted)
    BY DEF ServerInv
  <2>2. job[w].obs # None => job[w].obs.session \in Nat
    BY <2>1 DEF JobOK, Job, Observation
  <2>3. job[w].queue \in Nat
    BY <2>1 DEF JobOK, Job
  <2>4. job[w].pc = "prepare" => job[w].obs.session # session'
    BY <1>1, <2>1, <2>2 DEF JobOK, Begun, Holding, Handling, Taken
  <2> QED
    BY <1>1, <2>1, <2>2, <2>3, <2>4 DEF JobOK, Begun
<1> QED
  BY <1>1, <1>3, <1>4 DEF ServerInv

LEMMA SendPolicyInstructionsStep == ServerInv /\ SendPolicyInstructions => ServerInv'
<1> SUFFICES ASSUME ServerInv, SendPolicyInstructions PROVE ServerInv'
  OBVIOUS
<1>1. SharedOK'
  BY DEF SendPolicyInstructions, ServerInv, SharedOK, ProcessedIsPredicted
<1> QED
  BY <1>1 DEF SendPolicyInstructions, ServerInv

(* A call of the current session begins.                                    *)
LEMMA SendObservationsStep ==
  ASSUME ServerInv, NEW w \in Workers, NEW o \in Observation,
         o.session = session, SendObservations(w, o)
  PROVE  ServerInv'
<1> DEFINE j == [pc |-> "filter", obs |-> o, queue |-> 0]
<1>1. job' = [job EXCEPT ![w] = j]
      /\ session' = session /\ predicted' = predicted
  BY DEF SendObservations
<1>2. j \in Job /\ o # None /\ session \in Nat
  BY DEF Job, Running, ServerInv, SharedOK
<1>3. JobOK(j, session', predicted')
  BY <1>1, <1>2 DEF JobOK, Begun, Holding, Handling, Taken
<1>4. SharedOK'
  BY DEF SendObservations, ServerInv, SharedOK, ProcessedIsPredicted
<1> QED
  BY <1>1, <1>3, <1>4, OneHandler

LEMMA GetActionsStep == ASSUME ServerInv, NEW w \in Workers, GetActions(w) PROVE ServerInv'
<1> DEFINE j == [pc |-> "get", obs |-> None, queue |-> session]
<1>1. job' = [job EXCEPT ![w] = j]
      /\ session' = session /\ predicted' = predicted
  BY DEF GetActions
<1>2. j \in Job /\ session \in Nat
  BY DEF Job, Running, ServerInv, SharedOK
<1>3. JobOK(j, session', predicted')
  BY <1>1, <1>2 DEF JobOK, Begun, Holding, Handling, Taken
<1>4. SharedOK'
  BY DEF GetActions, ServerInv, SharedOK, ProcessedIsPredicted
<1> QED
  BY <1>1, <1>3, <1>4, OneHandler

(* The waiting handler takes an observation from the current queue object.  *)
LEMMA TakeStep == ASSUME ServerInv, NEW w \in Workers, Take(w) PROVE ServerInv'
<1> DEFINE o == Head(obsQueue)
           j == [job[w] EXCEPT !.pc = "add", !.obs = o]
<1>1. JobOK(job[w], session, predicted) /\ job[w] \in Job
  BY DEF ServerInv, JobOK
<1>2. o \in Observation /\ o # None /\ o.session <= session
  <2>1. obsQueue \in Seq(Observation) /\ obsQueue # <<>> /\ Begun(o, session)
    BY DEF Take, ServerInv, SharedOK
  <2> QED
    BY <2>1, HeadTailProperties DEF Begun
<1>3. job' = [job EXCEPT ![w] = j]
      /\ session' = session /\ predicted' = predicted /\ job[w].queue = session
  BY DEF Take
<1>4. j \in Job /\ j.pc = "add" /\ j.obs = o /\ j.queue = session
  BY <1>1, <1>2, <1>3 DEF Job, Running
<1>5. JobOK(j, session', predicted')
  BY <1>2, <1>3, <1>4 DEF JobOK, Begun, Holding, Handling, Taken, ServerInv, SharedOK
<1>6. SharedOK'
  <2>1. Tail(obsQueue) \in Seq(Observation) /\ Len(Tail(obsQueue)) = 0
    <3>1. obsQueue \in Seq(Observation) /\ obsQueue # <<>> /\ Len(obsQueue) <= 1
      BY DEF Take, ServerInv, SharedOK
    <3>2. Len(obsQueue) \in Nat /\ Len(Tail(obsQueue)) = Len(obsQueue) - 1
      BY <3>1, HeadTailProperties
    <3>3. Len(obsQueue) # 0
      BY <3>1, EmptySeq
    <3> QED
      BY <3>1, <3>2, <3>3, HeadTailProperties
  <2>2. Tail(obsQueue) = <<>>
    BY <2>1, EmptySeq
  <2>3. /\ obsQueue' = <<>>
        /\ UNCHANGED <<session, policy, predicted, lastProcessed>>
    BY <2>2 DEF Take
  <2> QED
    BY <2>1, <2>2, <2>3 DEF ServerInv, SharedOK, ProcessedIsPredicted
<1> QED
  BY <1>3, <1>5, <1>6, OneHandler

(* The steps of a running handler, one by one.                              *)
LEMMA HandleStep ==
  ASSUME ServerInv, NEW w \in Workers, Handle(w)
  PROVE  ServerInv'
<1> DEFINE o == job[w].obs
<1>1. JobOK(job[w], session, predicted)
  BY DEF ServerInv
<1>2. job[w].pc \in Holding \cup Taken =>
        o \in Observation /\ o # None /\ o.session <= session
  BY <1>1 DEF JobOK, Job, Begun
<1>3. ASSUME UNCHANGED <<session, policy, obsQueue, predicted, lastProcessed>>
      PROVE  SharedOK'
  BY <1>3 DEF ServerInv, SharedOK, ProcessedIsPredicted
<1>4. CASE Accept(w)
  <2>1. SharedOK'
    BY <1>3, <1>4 DEF Accept
  <2> QED
    BY <1>4, <2>1, MoveStep DEF Accept, Handling
<1>5. CASE FilterOut(w)
  <2>1. SharedOK'
    BY <1>3, <1>5 DEF FilterOut
  <2> QED
    BY <1>5, <2>1, EndStep DEF FilterOut
<1>6. CASE LookForRoom(w)
  <2>1. SharedOK'
    BY <1>3, <1>6 DEF LookForRoom
  <2>2. PICK to \in {"put", "evict"} : Step(w, "room", to)
    BY <1>6 DEF LookForRoom
  <2> QED
    BY <1>6, <2>1, <2>2, MoveStep DEF LookForRoom, Handling
<1>7. CASE EvictOldest(w)
  <2>1. SharedOK'
    BY <1>7, EmptySeq DEF EvictOldest, ServerInv, SharedOK, ProcessedIsPredicted
  <2> QED
    BY <1>7, <2>1, MoveStep DEF EvictOldest, Handling
<1>8. CASE EvictNothing(w)
  <2>1. SharedOK'
    BY <1>3, <1>8 DEF EvictNothing
  <2> QED
    BY <1>8, <2>1, EndStep DEF EvictNothing
<1>9. CASE Put(w)
  <2>1. o \in Observation /\ Begun(o, session)
    BY <1>2, <1>9 DEF Put, End, Holding, Handling, Begun
  <2>2. <<o>> \in Seq(Observation) /\ Len(<<o>>) = 1 /\ Head(<<o>>) = o
    BY <2>1
  <2>3. /\ obsQueue' = <<o>>
        /\ UNCHANGED <<session, policy, predicted, lastProcessed>>
    BY <1>9 DEF Put
  <2>4. SharedOK'
    BY <2>1, <2>2, <2>3 DEF ServerInv, SharedOK, ProcessedIsPredicted
  <2> QED
    BY <1>9, <2>4, EndStep DEF Put
<1>10. CASE PutBlocks(w)
  <2> DEFINE j == [job[w] EXCEPT !.pc = "blocked", !.queue = session]
  <2>1. SharedOK'
    BY <1>3, <1>10 DEF PutBlocks
  <2>2. /\ job' = [job EXCEPT ![w] = j]
        /\ session' = session /\ predicted' = predicted /\ job[w].pc = "put"
    BY <1>10 DEF PutBlocks
  <2>3. o \in Observation /\ o # None /\ o.session <= session /\ session \in Nat
    BY <1>2, <2>2 DEF Holding, Handling, ServerInv, SharedOK
  <2>4. j \in Job /\ j.pc = "blocked" /\ j.obs = o /\ j.queue = session
    BY <1>1 DEF JobOK, Job, Running, ServerInv, SharedOK
  <2>5. JobOK(j, session', predicted')
    BY <2>2, <2>3, <2>4 DEF JobOK, Begun, Holding, Handling, Taken
  <2> QED
    BY <2>1, <2>2, <2>5, OneHandler
<1>11. CASE PutUnblocked(w)
  <2>1. o \in Observation /\ Begun(o, session)
    BY <1>2, <1>11 DEF PutUnblocked, End, Holding, Begun
  <2>2. <<o>> \in Seq(Observation) /\ Len(<<o>>) = 1 /\ Head(<<o>>) = o
    BY <2>1
  <2>3. /\ obsQueue' = <<o>>
        /\ UNCHANGED <<session, policy, predicted, lastProcessed>>
    BY <1>11 DEF PutUnblocked
  <2>4. SharedOK'
    BY <2>1, <2>2, <2>3 DEF ServerInv, SharedOK, ProcessedIsPredicted
  <2> QED
    BY <1>11, <2>4, EndStep DEF PutUnblocked
<1>12. CASE Take(w)
  BY <1>12, TakeStep
<1>13. CASE Timeout(w)
  <2>1. SharedOK'
    BY <1>3, <1>13 DEF Timeout
  <2> QED
    BY <1>13, <2>1, EndStep DEF Timeout
<1>14. CASE AddPredicted(w)
  <2>1. o.ts \in 0 .. MaxStep
    BY <1>2, <1>14 DEF AddPredicted, Step, Taken, Observation
  <2>2. SharedOK'
    BY <2>1, <1>14 DEF AddPredicted, ServerInv, SharedOK, ProcessedIsPredicted
  <2>3. predicted \subseteq predicted' /\ o.ts \in predicted'
    BY <1>14 DEF AddPredicted
  <2> QED
    BY <1>14, <2>2, <2>3, MoveStep DEF AddPredicted, Taken
<1>15. CASE Prepare(w)
  <2>1. /\ o \in Observation /\ Begun(o, session)
        /\ o.session = session => o.ts \in predicted
    BY <1>1, <1>2, <1>15 DEF Prepare, Step, Taken, JobOK
  <2>2. SharedOK'
    BY <2>1, <1>15 DEF Prepare, ServerInv, SharedOK, ProcessedIsPredicted
  <2> QED
    BY <1>15, <2>2, MoveStep DEF Prepare, Taken
<1>16. CASE Infer(w)
  <2>1. SharedOK'
    BY <1>3, <1>16 DEF Infer
  <2> QED
    BY <1>16, <2>1, MoveStep DEF Infer, Taken
<1> QED
  BY <1>4, <1>5, <1>6, <1>7, <1>8, <1>9, <1>10, <1>11, <1>12, <1>13, <1>14,
     <1>15, <1>16 DEF Handle

LEMMA EndingSteps ==
  ASSUME ServerInv, NEW w \in Workers, PredictionFails(w) \/ Return(w)
  PROVE  ServerInv'
<1>1. UNCHANGED <<session, policy, obsQueue, predicted, lastProcessed>>
  BY DEF PredictionFails, Return
<1>2. SharedOK'
  BY <1>1 DEF ServerInv, SharedOK, ProcessedIsPredicted
<1>3. CASE PredictionFails(w)
  <2>1. PICK from : End(w, from, "nothing")
    BY <1>3 DEF PredictionFails
  <2> QED
    BY <1>1, <1>2, <2>1, EndStep
<1>4. CASE Return(w)
  <2>1. job' = [job EXCEPT ![w] = [Idle EXCEPT !.pc = "idle"]]
    BY <1>4 DEF Return, Idle
  <2> QED
    BY <1>1, <1>2, <2>1, EndedOK, OneHandler
<1> QED
  BY <1>3, <1>4

-------------------------------------------------------------------------------
LEMMA NextServerInv == ServerInv /\ [Next]_vars => ServerInv'
<1> SUFFICES ASSUME ServerInv, [Next]_vars PROVE ServerInv'
  OBVIOUS
<1>1. CASE Ready
  BY <1>1, ReadyStep
<1>2. CASE SendPolicyInstructions
  BY <1>2, SendPolicyInstructionsStep
<1>3. ASSUME NEW w \in Workers, NEW o \in Observation,
             o.session = session, SendObservations(w, o)
      PROVE  ServerInv'
  BY <1>3, SendObservationsStep
<1>4. ASSUME NEW w \in Workers, GetActions(w) PROVE ServerInv'
  BY <1>4, GetActionsStep
<1>5. ASSUME NEW w \in Workers, Handle(w) PROVE ServerInv'
  BY <1>5, HandleStep
<1>6. ASSUME NEW w \in Workers, PredictionFails(w) \/ Return(w) PROVE ServerInv'
  BY <1>6, EndingSteps
<1>7. CASE UNCHANGED vars
  BY <1>7 DEF vars, ServerInv, SharedOK, ProcessedIsPredicted
<1> QED
  BY <1>1, <1>2, <1>3, <1>4, <1>5, <1>6, <1>7 DEF Next

LEMMA ServerInvariance == Spec => []ServerInv
BY InitServerInv, NextServerInv, PTL DEF Spec

(* The types hold in every run; in particular the observation queue never   *)
(* holds two observations.                                                  *)
THEOREM ServerTypeCorrect == Spec => []TypeOK
BY ServerInvariance, ServerInvImplies, PTL

(* What _obs_sanity_checks compares an observation with and what it looks   *)
(* it up in agree: the last observation processed for the current client is *)
(* among its predicted timesteps, however Ready calls fall between the two  *)
(* updates of a GetActions handler.                                         *)
THEOREM ProcessedAreKnown == Spec => []ProcessedIsPredicted
BY ServerInvariance, ServerInvImplies, PTL

(* A handler of an earlier client never takes a later client's observation. *)
THEOREM NothingStolen == Spec => []NoLateSteal
BY ServerInvariance, ServerInvImplies, PTL
===============================================================================
