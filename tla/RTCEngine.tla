------------------------------- MODULE RTCEngine -------------------------------
(* Real-time chunking: the main loop of a rollout performs the actions of an *)
(* ActionQueue that the background thread of RTCInferenceEngine refills, and *)
(* pauses, resets and resumes that thread when the operator takes over.      *)
(* (policies/rtc/action_queue.py, rollout/inference/rtc.py,                  *)
(* rollout/strategies/core.py and the loop of dagger.py.)                    *)
(*                                                                           *)
(* Time is divided into eras, the stretches in which the policy drives: a    *)
(* new one begins when the operator gives control back. An observation is    *)
(* the era it was made in, an action is a step of the chunk predicted from   *)
(* an observation.                                                           *)
EXTENDS Naturals, Sequences

CONSTANTS
  ChunkLen,   \* actions the policy predicts from one observation
  Threshold,  \* rtc_queue_threshold
  MaxDelay,   \* the longest inference, in control ticks
  Warmup,     \* compile_warmup_inferences, 0 without torch.compile
  MaxErrors,  \* _RTC_MAX_CONSECUTIVE_ERRORS
  MaxEra      \* bound: the operator gives control back MaxEra - 1 times

ASSUME ChunkLenAssumption == ChunkLen \in Nat \ {0}
ASSUME ThresholdAssumption == Threshold \in Nat
ASSUME DelayAssumption == MaxDelay \in Nat \ {0}
ASSUME WarmupAssumption == Warmup \in Nat
ASSUME ErrorsAssumption == MaxErrors \in Nat \ {0}
ASSUME EraAssumption == MaxEra \in Nat \ {0}

VARIABLES
  enabled,    \* rtc_config.enabled: chunks replace the queue, else extend it
  queue,      \* ActionQueue.queue; original_queue has the same length
  lastIndex,  \* ActionQueue.last_index
  obs,        \* _obs_holder["obs"], 0 for None
  active,     \* _policy_active
  shutdown,   \* _shutdown_event
  ready,      \* _compile_warmup_done
  global,     \* the rollout's shutdown event
  rtc,        \* where the inference thread is
  job,        \* the observation it works on
  inferences, \* inference_count, up to one more than Warmup
  errors,     \* consecutive_errors
  main,       \* where the main loop is
  paused,     \* the operator has control
  flushed,    \* _warmup_flushed
  era,        \* history: the current era
  performed   \* history: the last action sent to the robot

queueVars == <<queue, lastIndex>>
events == <<active, shutdown, ready, global>>
rtcVars == <<rtc, job, inferences, errors>>
mainVars == <<main, paused, flushed, era, performed>>
vars == <<enabled, queueVars, obs, events, rtcVars, mainVars>>

Action == [era : 0..MaxEra, step : 0..ChunkLen]

TypeOK ==
  /\ enabled \in BOOLEAN
  /\ queue \in Seq(Action)
  /\ lastIndex \in 0..Len(queue)
  /\ obs \in 0..era
  /\ active \in BOOLEAN
  /\ shutdown \in BOOLEAN
  /\ ready \in BOOLEAN
  /\ global \in BOOLEAN
  /\ rtc \in {"check", "size", "infer", "merge", "warmed", "error", "halt", "failed", "ended"}
  /\ job \in 0..obs
  /\ inferences \in 0..(Warmup + 1)
  /\ errors \in 0..MaxErrors
  /\ main \in {"top", "resume", "notify", "get", "flush", "stop", "join", "done"}
  /\ paused \in BOOLEAN
  /\ flushed \in BOOLEAN
  /\ era \in 1..MaxEra
  /\ performed \in Action

(* The rollout has started the engine and resumed it.                       *)
Init ==
  /\ enabled \in BOOLEAN
  /\ queue = <<>>
  /\ lastIndex = 0
  /\ obs = 0
  /\ active = TRUE
  /\ shutdown = FALSE
  /\ ready = (Warmup = 0)
  /\ global = FALSE
  /\ rtc = "check"
  /\ job = 0
  /\ inferences = 0
  /\ errors = 0
  /\ main = "top"
  /\ paused = FALSE
  /\ flushed = FALSE
  /\ era = 1
  /\ performed = [era |-> 0, step |-> 0]

-------------------------------------------------------------------------------
(* The queue. The actions not consumed yet, and clear(): None and a queue    *)
(* without actions are not told apart.                                       *)
LeftOver == SubSeq(queue, lastIndex + 1, Len(queue))

(* Mutant: clear() forgets the index.                                       *)
ClearKeepsIndex == queue' = <<>> /\ UNCHANGED lastIndex

Clear == queue' = <<>> /\ lastIndex' = 0

Chunk(e) == [k \in 1..ChunkLen |-> [era |-> e, step |-> k]]

(* RTC mode: the first actions of the chunk are for the time the inference  *)
(* took; the delay is measured with a clock and rounded up.                  *)
Replace(chunk) ==
  \E delay \in 1..MaxDelay :
    /\ queue' = SubSeq(chunk, delay + 1, ChunkLen)
    /\ lastIndex' = 0

(* Mutant: the consumed actions stay in the queue.                          *)
ExtendKeepsConsumed(chunk) ==
  /\ queue' = queue \o chunk
  /\ lastIndex' = 0

(* Mutant: the new chunk comes first.                                       *)
ExtendInFront(chunk) ==
  /\ queue' = chunk \o LeftOver
  /\ lastIndex' = 0

(* Without RTC: the chunk follows what is not consumed.                     *)
Extend(chunk) ==
  /\ queue' = LeftOver \o chunk
  /\ lastIndex' = 0

-------------------------------------------------------------------------------
(* _rtc_loop.                                                                *)
LeaveRTCLoop ==
  /\ rtc = "check"
  /\ shutdown
  /\ rtc' = "ended"
  /\ UNCHANGED <<enabled, queueVars, obs, events, job, inferences, errors, mainVars>>

(* The thread takes the latest observation. Paused, or without one, it      *)
(* sleeps and looks again.                                                   *)
TakeObservation ==
  /\ rtc = "check"
  /\ ~shutdown
  /\ active
  /\ obs # 0
  /\ job' = obs
  /\ rtc' = "size"
  /\ UNCHANGED <<enabled, queueVars, obs, events, inferences, errors, mainVars>>

(* Mutant: no backpressure.                                                 *)
QueueLooksLow ==
  /\ rtc = "size"
  /\ rtc' = "infer"
  /\ UNCHANGED <<enabled, queueVars, obs, events, job, inferences, errors, mainVars>>

QueueLow ==
  /\ rtc = "size"
  /\ Len(queue) - lastIndex <= Threshold
  /\ rtc' = "infer"
  /\ UNCHANGED <<enabled, queueVars, obs, events, job, inferences, errors, mainVars>>

QueueFull ==
  /\ rtc = "size"
  /\ Len(queue) - lastIndex > Threshold
  /\ rtc' = "check"
  /\ UNCHANGED <<enabled, queueVars, obs, events, job, inferences, errors, mainVars>>

Infer ==
  /\ rtc = "infer"
  /\ inferences' = IF inferences <= Warmup THEN inferences + 1 ELSE inferences
  /\ errors' = 0
  /\ rtc' = "merge"
  /\ UNCHANGED <<enabled, queueVars, obs, events, job, mainVars>>

InferenceFails ==
  /\ rtc = "infer"
  /\ errors' = errors + 1
  /\ rtc' = IF errors' >= MaxErrors THEN "error" ELSE "check"
  /\ UNCHANGED <<enabled, queueVars, obs, events, job, inferences, mainVars>>

Merge ==
  /\ rtc = "merge"
  /\ IF enabled THEN Replace(Chunk(job)) ELSE Extend(Chunk(job))
  /\ rtc' = IF inferences = Warmup /\ ~ready THEN "warmed" ELSE "check"
  /\ UNCHANGED <<enabled, obs, events, job, inferences, errors, mainVars>>

WarmupDone ==
  /\ rtc = "warmed"
  /\ ready' = TRUE
  /\ rtc' = "check"
  /\ UNCHANGED <<enabled, queueVars, obs, active, shutdown, global, job, inferences,
                 errors, mainVars>>

(* A fatal error unblocks those who wait for the warmup, then shuts the     *)
(* rollout down.                                                             *)
UnblockWarmup ==
  /\ rtc = "error"
  /\ ready' = TRUE
  /\ rtc' = "halt"
  /\ UNCHANGED <<enabled, queueVars, obs, active, shutdown, global, job, inferences,
                 errors, mainVars>>

(* Mutant: the thread dies without a word.                                  *)
FailQuietly ==
  /\ rtc = "halt"
  /\ rtc' = "failed"
  /\ UNCHANGED <<enabled, queueVars, obs, events, job, inferences, errors, mainVars>>

GlobalShutdown ==
  /\ rtc = "halt"
  /\ global' = TRUE
  /\ rtc' = "failed"
  /\ UNCHANGED <<enabled, queueVars, obs, active, shutdown, ready, job, inferences,
                 errors, mainVars>>

-------------------------------------------------------------------------------
(* The main loop. An iteration begins with the shutdown event and the       *)
(* operator's requests.                                                      *)
LeaveOnShutdown ==
  /\ main = "top"
  /\ global
  /\ active' = FALSE
  /\ main' = "stop"
  /\ UNCHANGED <<enabled, queueVars, obs, shutdown, ready, global, rtcVars, paused,
                 flushed, era, performed>>

(* The operator ends the rollout, or its time is over.                      *)
LeaveLoop ==
  /\ main = "top"
  /\ ~global
  /\ active' = FALSE
  /\ main' = "stop"
  /\ UNCHANGED <<enabled, queueVars, obs, shutdown, ready, global, rtcVars, paused,
                 flushed, era, performed>>

Pause ==
  /\ main = "top"
  /\ ~global
  /\ ~paused
  /\ active' = FALSE
  /\ paused' = TRUE
  /\ UNCHANGED <<enabled, queueVars, obs, shutdown, ready, global, rtcVars, main,
                 flushed, era, performed>>

(* The operator gives control back: reset, then resume.                     *)
ResetEngine ==
  /\ main = "top"
  /\ ~global
  /\ paused
  /\ era < MaxEra
  /\ Clear
  /\ era' = era + 1
  /\ main' = "resume"
  /\ UNCHANGED <<enabled, obs, events, rtcVars, paused, flushed, performed>>

(* Mutant: the event is not set again.                                      *)
ResumeForgotten ==
  /\ main = "resume"
  /\ paused' = FALSE
  /\ main' = "notify"
  /\ UNCHANGED <<enabled, queueVars, obs, events, rtcVars, flushed, era, performed>>

Resume ==
  /\ main = "resume"
  /\ active' = TRUE
  /\ paused' = FALSE
  /\ main' = "notify"
  /\ UNCHANGED <<enabled, queueVars, obs, shutdown, ready, global, rtcVars, flushed,
                 era, performed>>

(* A control tick of the policy: the robot is observed and the observation  *)
(* published. Paused, the loop does not touch the engine.                    *)
Notify ==
  /\ main = "notify" \/ (main = "top" /\ ~global /\ ~paused)
  /\ obs' = era
  /\ main' = "get"
  /\ UNCHANGED <<enabled, queueVars, events, rtcVars, paused, flushed, era, performed>>

WaitForWarmup ==
  /\ main = "get"
  /\ ~ready
  /\ main' = "top"
  /\ UNCHANGED <<enabled, queueVars, obs, events, rtcVars, paused, flushed, era, performed>>

(* The first tick after the warmup resets the engine and resumes it.        *)
FlushWarmup ==
  /\ main = "get"
  /\ ready
  /\ Warmup > 0
  /\ ~flushed
  /\ Clear
  /\ flushed' = TRUE
  /\ main' = "flush"
  /\ UNCHANGED <<enabled, obs, events, rtcVars, paused, era, performed>>

ResumeFlushed ==
  /\ main = "flush"
  /\ active' = TRUE
  /\ main' = "get"
  /\ UNCHANGED <<enabled, queueVars, obs, shutdown, ready, global, rtcVars, paused,
                 flushed, era, performed>>

MayGetAction == main = "get" /\ ready /\ (Warmup > 0 => flushed)

GetAction ==
  /\ MayGetAction
  /\ lastIndex < Len(queue)
  /\ performed' = queue[lastIndex + 1]
  /\ lastIndex' = lastIndex + 1
  /\ main' = "top"
  /\ UNCHANGED <<enabled, queue, obs, events, rtcVars, paused, flushed, era>>

GetNothing ==
  /\ MayGetAction
  /\ lastIndex >= Len(queue)
  /\ main' = "top"
  /\ UNCHANGED <<enabled, queueVars, obs, events, rtcVars, paused, flushed, era, performed>>

StopEngine ==
  /\ main = "stop"
  /\ shutdown' = TRUE
  /\ active' = FALSE
  /\ main' = "join"
  /\ UNCHANGED <<enabled, queueVars, obs, ready, global, rtcVars, paused, flushed, era,
                 performed>>

(* The thread has ended, or the join times out and leaves it behind.        *)
JoinReturns ==
  /\ main = "join"
  /\ main' = "done"
  /\ UNCHANGED <<enabled, queueVars, obs, events, rtcVars, paused, flushed, era, performed>>

Terminated ==
  /\ main = "done"
  /\ rtc \in {"failed", "ended"}
  /\ UNCHANGED vars

-------------------------------------------------------------------------------
RTCLoop ==
  \/ LeaveRTCLoop
  \/ TakeObservation
  \/ QueueLow
  \/ QueueFull
  \/ Infer
  \/ InferenceFails
  \/ Merge
  \/ WarmupDone
  \/ UnblockWarmup
  \/ GlobalShutdown

ControlLoop ==
  \/ LeaveOnShutdown
  \/ Resume
  \/ Notify
  \/ WaitForWarmup
  \/ FlushWarmup
  \/ ResumeFlushed
  \/ GetAction
  \/ GetNothing
  \/ StopEngine
  \/ JoinReturns

Operator == LeaveLoop \/ Pause \/ ResetEngine

Next == RTCLoop \/ ControlLoop \/ Operator \/ Terminated

Spec == Init /\ [][Next]_vars

(* Both threads run; nothing makes the operator do anything.                *)
FairSpec == Spec /\ WF_vars(RTCLoop) /\ WF_vars(ControlLoop)

-------------------------------------------------------------------------------
(* Backpressure works: the thread looks at the queue's size before an       *)
(* inference and adds a chunk after it, and whatever the main loop does in  *)
(* between, the queue holds no more than a chunk above the threshold.        *)
QueueBounded ==
  Len(LeftOver) <= IF enabled THEN ChunkLen - 1 ELSE Threshold + ChunkLen

(* Once the robot has performed an action that was predicted from what it   *)
(* saw in an era, it never falls back to one from an earlier era, although  *)
(* pauses and resets find inferences under way and chunks half consumed.    *)
ErasInOrder == [][performed' # performed => performed'.era >= performed.era]_vars

(* rtc.py:358: when the inference thread gives up, the rollout ends.        *)
FailureEndsRollout == rtc \in {"error", "halt", "failed"} ~> main = "done"

(* What FairSpec needs for that: a thread at one of these places can go on. *)
GoesOn ==
  /\ rtc \in {"error", "halt"} => ENABLED <<RTCLoop>>_vars
  /\ global /\ main # "done" => ENABLED <<ControlLoop>>_vars

(* The queue with its index is a plain buffer.                              *)
Buffer == INSTANCE ActionBuffer WITH pending <- LeftOver, Eras <- 1..MaxEra

ImplementsActionBuffer == Buffer!Spec
===============================================================================
