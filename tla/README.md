# Verification of LeRobot's concurrent core in TLA+

The modules in this directory model the parts of the repository in which
threads, processes and messages meet, check them on small instances with TLC and
prove their main safety properties with TLAPS.  Line numbers refer to
`src/src/lerobot/` unless a path says otherwise.

## 1. Inventory

LeRobot is a large library; most of it is numeric (policies, processors, rewards)
or drives hardware (motors, cameras, teleoperators).  What is hard to get right and
hard to test is in these parts.

| Part | State | Operations | Hard behaviour | What makes it correct | Here |
|---|---|---|---|---|---|
| Async inference, robot client (`async_inference/robot_client.py`) | action queue, latest performed timestep, chunk size, must-go event, shutdown event | perform action, observe and send, receive and merge a chunk, start, stop | two threads, four locks and events, every check and use in separate lock sections | queue ordered, gapless and bounded; no action jumped over; no starvation | `RobotClient` |
| Async inference, policy server (`async_inference/policy_server.py`) | queue of one observation, predicted timesteps, last processed observation, policy | Ready, SendPolicyInstructions, SendObservations, GetActions | pool of handler threads, handlers outliving their client, blocking queue operations | bookkeeping consistent, no observation of one client served to another's handler, no deadlock | `PolicyServer` |
| gRPC transport (`transport/`) | none | chunked byte streams, channel options | retries of calls that still run, lost answers | at-least-once delivery does no harm | in `AsyncInference` |
| RTC engine (`rollout/inference/rtc.py`, `policies/rtc/`, `rollout/strategies/core.py`) | chunk queue with a read index, latest observation, active, warmup, shutdown and error events | start, stop, pause, resume, reset, get_action, notify_observation, inference loop | inference in flight across pause, reset and resume; warmup; backpressure checked before an inference and relied on after it | queue bounded; no action twice or jumped over; no fall-back to older predictions; everyone leaves when the thread dies | `RTCEngine` |
| Rollout strategies (`rollout/strategies/`: base, sentry, highlight, DAgger) | phase, noted transition, keys, recorded frames, uploads submitted, needs-push event, episode lock | key and pedal events, transitions, record, rotate, save, background upload, teardown | events arrive between checks; the upload thread works beside saves and recording; saves and uploads fail | a recorded frame is in exactly one episode; a correction is one episode; what the Hub lacks stays due; a stopped session releases the robot | `Rollout`, `EpisodePush` |
| Ring buffer (`rollout/ring_buffer.py`) | bounded deque of frames with a byte account | append, drain, clear | two limits, and an account that forgets frames | holds the latest frames, as many as both limits allow | `RingBuffer` |
| Dataset writer and metadata (`datasets/dataset_writer.py`, `dataset_metadata.py`) | episode buffer, open parquet file, file indices, buffered metadata, info.json | add_frame, save_episode, clear_episode_buffer, finalize, resume | crash or failure between rows, videos, metadata and counts | saved episodes stay, and rows, videos and metadata of each agree | `DatasetWriter` |
| Streaming video encoder (`datasets/video_utils.py`) | bounded frame queue and thread per camera | start, feed, finish, cancel, close | full queue drops frames, blocking put of the end mark, a dead or slow encoder thread | finish returns; a video shows its episode, in order, complete unless the loss was counted | `StreamingEncoder` |
| Actor and learner (`rl/`) | queues between threads or processes, gRPC thread pool, replay buffer | streams of transitions, interactions, parameters; training; sampling | restarts, broken and retried calls, handlers without a caller, a full pool, a ring that wraps | transitions in order, true next states, training starts, parameters arrive, the actor can leave | `ActorLearner`, `ReplayBuffer` |
| Processors, policies, rewards, models | tensors | pure transformations | none | numeric | no |
| Robots, motors, cameras, teleoperators | devices | bus and socket I/O | device timing | hardware | no |
| Dataset reading and editing, scripts, environments | files | sequential | none | data | no |

**How the modelled parts interact.**  The client's main thread runs the control
loop; a daemon thread receives actions.  Both make blocking gRPC calls on one
channel.  The server runs each call on one of four pool threads
(`policy_server.py:426`).  `SendObservations` filters an observation and puts it in
a queue of size one, evicting an older one; `GetActions` waits on that queue for at
most `obs_queue_timeout`, predicts, and returns a chunk that starts at the
observation's timestep.  The client stamps an observation with the timestep of
the last action it performed, drops incoming actions up to that timestep and
replaces its queue by the rest.  An observation taken with an empty queue and
the must-go event set bypasses the server's filter; the event is cleared after
the call and set again when a chunk has been merged.

In a rollout with real-time chunking (RTC) the main loop publishes an observation
and pops one action in each control tick.  A background thread takes the latest
observation while at most `rtc_queue_threshold` actions are left, predicts a chunk
and merges it: in RTC mode the chunk replaces the queue, less the actions whose time
passed during the inference; otherwise it is appended.  The DAgger strategy pauses
the engine when the operator takes over and resets and resumes it when the operator
gives control back.  No event stops an inference that has begun.

The recording strategies put frames into the dataset's episode buffer and save
episodes under a lock, which one background thread holds for the whole of an upload;
the event `_needs_push` tells the teardown whether a last upload is due.  Keys and
pedals are read by listener threads, which set flags and, in DAgger, note a transition
for the loop to take.  Frames go on through `add_frame` to the writer's episode
buffer and to one encoder thread for each camera; `save_episode` writes the rows, ends
the encoders, moves their files, and appends metadata and counts, in this order.

In distributed reinforcement learning the actor makes three streaming calls to the
learner, each from a thread or process that shares a queue with the actor's loop.  The
learner serves them on a pool of three threads, and shares queues with its handlers.

## 2. Modules

| Module | Content |
|---|---|
| `ActionStream` | what asynchronous inference promises to the robot: timesteps are performed without a jump |
| `RobotClient` | the client's two threads in an open environment; its invariants and the refinement of `ActionStream` |
| `PolicyServer` | the server's handlers on a pool of threads, across several sessions; its invariants |
| `AsyncInference` | `RobotClient` and `PolicyServer` joined by gRPC calls with faults; fairness |
| `ActionBuffer` | what a rollout may count on from real-time chunking: a buffer, performed in order, which others may empty, replace or extend |
| `RTCEngine` | the main loop of a rollout and the inference thread, with pause, reset, resume and warmup; the refinement of `ActionBuffer` |
| `EpisodeLog` | what a recorded rollout promises: episodes whole, in time order, and a Hub copy of a whole number of them |
| `RingBuffer` | the highlight strategy's ring buffer, as operators |
| `EpisodePush` | episode buffer, episode lock and upload thread, shared by the recording strategies |
| `Rollout` | the loops of all strategies over `RingBuffer` and `EpisodePush`, with operator and teardown; the refinement of `EpisodeLog` |
| `EpisodeStore` | what a dataset on disk promises: saved episodes stay, and a crash takes only those not yet finalized |
| `StreamingEncoder` | queues and threads of the streaming encoder |
| `DatasetWriter` | writer and metadata over `StreamingEncoder`, through sessions and crashes; the refinement of `EpisodeStore` |
| `ReplayBuffer` | the memory-optimised ring of transitions |
| `ActorLearner` | actor, learner, their calls and the learner's thread pool over `ReplayBuffer` |
| `MCRobotClient`, `MCPolicyServer`, `MCAsyncInference`, `MCRTCEngine`, `MCRollout`, `MCDatasetWriter`, `MCActorLearner` | instances, symmetry, and properties that only runs use |
| `RobotClientProofs`, `PolicyServerProofs`, `AsyncInferenceProofs`, `RTCEngineProofs`, `RolloutProofs`, `DatasetWriterProofs`, `DatasetReadProofs`, `ActorLearnerProofs` | inductive invariants and theorems |

Operators marked *Mutant* in a comment are not part of a specification: each is a
plausible bug which a property is known to detect.

### RobotClient

One action is what a thread does between two points at which the other thread can
matter, that is, between two lock sections or accesses of a shared attribute.
Control loop: `CheckAvailable` (`actions_available`), `PerformAction` or
`PopFromEmpty` (`get_nowait`, `send_action`), `MarkLatest`, `CheckReady`,
`CaptureObservation`, `SendObservation` (must-go read, call begun), `SendReturns`
(event cleared).  Receiver: `RequestActions`, `ReceiveChunk` or `ReceiveNothing`,
`IterationDone` or `IterationBroken` (the dict comprehension over the live deque at
line 239), one `MergeAction` for each incoming action, `ReplaceQueue`, `SetMustGo`.
`dirty` records that the deque has been popped while the receiver iterates; CPython
then raises `RuntimeError`.  An action is represented by its timestep: both branches
of the aggregation queue one action with the incoming timestep, whatever the
aggregation function makes of the tensors.  `sent`, `highest` and `repeats` are
history variables.  The server is open: it answers any observation ever sent, any
number of times, in any order, with a chunk of any length up to
`ActionsPerChunk`.  `Stop` may happen at any time; an interrupted control loop is
a control loop that takes no further step.  Errors of the robot while it performs
an action end the process and are not modelled.

### PolicyServer

`job[w]` is the place of pool thread `w` in its handler and the handler's local
variables.  `session` counts `Ready` calls and thereby names the queue object that
`_reset_server` creates; a `GetActions` waits on the object it began with
(`queue`).  `Ready` is one step although it replaces the queue and the set one after
the other: no handler reads both in one step, so a handler in between behaves as if
it had come before or after.  `MustEnqueue` reads two attributes in one step for
the reason given at its definition.  Observations with close joint states
(`observations_similar`) have the same `pose`.  A call that its client began before
vanishing, but that no pool thread has started, is not modelled: a client has two
calls outstanding and the pool has four threads.

### AsyncInference

The module extends `RobotClient` and instantiates `PolicyServer`; each joint action is
an action of the client, of the server, or of both (`MoveRobot` is `PerformAction` and
where the robot goes, `BeginSend` and `EndSend` are `SendObservation` and `SendReturns`
with the handler, `DeliverChunk` is `ReceiveChunk` with the server's answer).  A call
occupies a pool thread (`ctlCall`, `rcvCall`).
Faults, counted by `faults`: the request is lost, the call fails while its handler
goes on, the channel retries it while the first attempt still runs
(`transport/utils.py:163`), a prediction raises, a capture raises.  After `Stop`
pending calls fail freely, since the channel is closed.

### RTCEngine

One step per lock section of `ActionQueue` or access of a shared event or of the held
observation.  Inference thread: `TakeObservation`, `QueueLow` or `QueueFull`
(backpressure), `Infer` or `InferenceFails`, `Merge`, `WarmupDone`; after too many
errors `UnblockWarmup` and `GlobalShutdown`.  Main loop: the shutdown check
(`LeaveOnShutdown`), `Notify`, the warmup (`WaitForWarmup`, `FlushWarmup`,
`ResumeFlushed`), `GetAction` or `GetNothing`, `StopEngine`, `JoinReturns`.  The
operator: `Pause`, `ResetEngine` followed by `Resume`, `LeaveLoop`.

An action is a step of a chunk and the era of the observation it was predicted from;
`era` counts how often control went to the policy, and `performed` is the last action
sent: both are history variables.  An inference takes from one to `MaxDelay` ticks,
measured and rounded up by the thread itself.  Left out, because no property or step
depends on it: the queue index before the inference (`action_queue.py` compares it
with the measured delay only to log a warning, and uses the measured delay), the
prefix of left-over actions that guides the policy, the difference between a queue
that is `None` and one without actions, control ticks in which the interpolator needs
no new action, and ticks of a paused loop.  `reset()` resets the policy and its
processors while the thread may be using them; what that can do to a prediction is
one of the reasons for which any inference may fail.

### Rollout, EpisodePush, RingBuffer

`strategy` is what `create_strategy` made; DAgger counts as two, `continuous` and
`corrections`, since its two loops record and save differently.  `main` is the place of
the main thread in its turn: `StartTurn`, or for DAgger `TakeTransition` and
`NoTransition` (`consume_transition`, `_apply_transition`); `CheckUpload`; the frame
(`RecordFrame`, `NoFrame`; in highlight `StartLive`, `EndLive`, `SameLive`, then
`KeepFrame`); the timer (`Due`, `NotDue`); `Save`, and what each strategy does after it
(`SavedRotation`, `SavedCorrection`, `SavedHighlight`).  `LeaveLoop` stands for all
ways out: the stop event, the duration, or an exception in robot, teleoperator or
policy.  Teardown: `FinalSave`, `FinalizeDataset`, `JoinPushes` (executor shutdown),
`FinalPush`, `ReleaseRobot`.  The operator's four actions happen at any time.  The
timer may be due in any turn: it counts seconds.  The push thread
takes the lock (`PushBegins`), reads the files, commits, clears the event and gives
the lock back, or fails; `closed` says whether the files have their footers.

`tick`, `correction` (which correction a frame belongs to) and `snapshot` are history;
`recordTick` counts ticks modulo the interpolation multiplier.  All frames of a
dataset have the same shapes, so bytes are counted in frames.  The calls of the engine
are `RTCEngine`'s; smooth handovers and the return to the initial position are motion.

### StreamingEncoder and DatasetWriter

A frame is its number in the episode, a temporary video the numbers encoded into it.
Thread of camera `c`: `TakeFrame`, `Encode`, `Flush`, `EncoderRaises`.  The recording
thread: `AddFrame` (`StartEpisode` or `FeedFrame`, which drops at a full queue and
raises at a dead thread), `ClearEpisodeBuffer`, and a save in the code's order:
`WriteRows` (same file, next file, or the first of a session), `SendSentinel` for each
camera, `Collect` (join, which may time out), `CleanUp`, `MoveVideo` for each camera,
`BufferMeta`, `WriteInfo`.  An exception anywhere, Ctrl-C included, ends the session through
`finalize` (`EndSession`, `EncoderFailed`, `VideoMissing`, `SaveFails`, then
`CloseMeta`); `Crash` is the end of the process without it.  A parquet file without its
footer reads as nothing, and the metadata file likewise: if a crash comes after the
metadata buffer was flushed once in the session, the dataset cannot be loaded again
(`lost`).  A session may begin with an empty or a resumed dataset, and `Resume` begins
the next one.

`take` numbers the episode buffers, `session` the sessions, and `spoilt` notes after
which episode a failure has left rows, or counts in info.json, that no episode has:
history variables.  `complete` in the metadata is history as well; the code only logs
that frames were dropped.  Left out: PNG files with `AsyncImageWriter` and batched
encoding (another way to the same videos, chosen per dataset), the roll-over of
metadata files, statistics and tasks.

### ActorLearner and ReplayBuffer

Actor: `StartActor`, `ConnectFails`, `Ready`, then `Step` and `LastStep`, with which
the episode's transitions go into `outbox` and waiting parameters are loaded;
`LeaveLoop`, `Leave` (the joins), `Signal`, `Crash`.  Its three calls are in `call`:
`pending` until a thread of the learner's pool takes them (`Accept`).
`SendEpisode`, `SendParameters` and `SendToNobody` are the handlers' work, `Break` and `Retry` the
channel's, `StreamEnds` and `StreamRaises` the senders' ends.  Learner: `TakeEpisode`,
`AddTransition`, `SkipTransition` (NaN), `Train`, `LearnerEnds`.

A message in flight stays in `outbox`; one sent is in the learner's queue at once.
`params` is the last item of the actor's queue, since the reader throws the others
away.  The interactions carry nothing the model needs, but occupy a thread.  The calls
issued after Ready come in any order.  `processes` is chosen when the loop is left,
for it makes no difference before.  `Train` needs an empty queue: a message arriving
after the learner's check can as well arrive after the training.  `leaked` counts
threads in `StreamParameters` whose caller is gone: such a handler looks at its caller
only when it next sends.  In `ReplayBuffer` a state is named by life, episode and step;
`added`, `skipped`, `collected`, `made` and `retried` are history.

## 3. Runs

| Run | Instance | Shows |
|---|---|---|
| `client` | chunks of 1 to 3, threshold 1/2, 5 timesteps, 3 repetitions | types, `QueueIncreasing`, `NothingSkipped`, `QueueBounded`; `RobotClient` implements `ActionStream` |
| `server` | 2 threads, 2 poses, 2 timesteps, 2 sessions, symmetric | types, `ProcessedIsPredicted`, `NoLateSteal` |
| `async_live` | chunks of 2, 3 timesteps, a robot that moves, no faults | `NothingLost`; liveness `WaitingEnds` |
| `async_faults` | chunks of 2, 2 timesteps, 1 fault | types, `PutNeverBlocks`; the composition implements `RobotClient` |
| `receiver` | as `client` | violation: the receiver thread dies |
| `starve` | as `async_live`, a robot at rest | violation: the robot waits for ever |
| `rtc` | chunks of 4, threshold 1, inferences of 1 to 3 ticks, 1 warmup inference, 3 errors, 3 eras, both modes | types, `QueueBounded`, `ErasInOrder`, the engine implements `ActionBuffer`; liveness `StaleReplaced`, `FailureEndsRollout` |
| `rtc_warmup` | chunks of 3, threshold 1, 2 warmup inferences | violation: the warmup does not end |
| `rollout` | all five strategies; 2 frames or 3 by bytes in the ring, stride 2, 4 recorded frames, 2 corrections, 1 upload waiting | types, `NothingLost`, `CorrectionsWhole`, `PendingValid`, `RingKeepsNewest`, `PushDue`, `AllPushed`; implements `EpisodeLog`; liveness `StopReleasesRobot` |
| `hub` | as `rollout`, stride 1, 2 frames | violation: the session leaves an unreadable copy on the Hub |
| `recording` | 2 cameras, queues of 1, metadata buffer of 2, episodes of 2 frames, 2 episode buffers, 3 sessions | types, `ReadsBack`, `VideosMatch`; implements `EpisodeStore`; liveness `SaveEnds` |
| `training` | ring of 3, pool of 3, training from 2 transitions, lives of 2 and 1 episodes of up to 2 steps, 1 fault | types, `EpisodesInOrder`, `HoldsLatest`, `NextStateTrue`; liveness `LearnerStarts`, `ActorLeaves`, `ParametersArrive` |

**Bounds.**  `MaxStep` bounds the timestep at which the operator stops; three chunk
lengths are enough for chunks that overlap the queue partly, wholly and not at all,
and five timesteps for a second merge on top of a merged queue.  `MaxRepeats` bounds
how often the robot repeats an action, since latest_action may go back each time.
Two pool threads are one for each of a client's blocking calls, so in `server` every
pair of handlers overlaps, and two sessions let one handler outlive one client.  One
fault in `async_faults` is each single fault at each moment; it needs the second
thread for the retried call.  Four poses in a circle make any two observations that
are at most three actions apart differ.

In the `rtc` runs a chunk of 4 over a threshold of 1 leaves room for a queue that is
full, low, at the threshold and empty.  Inferences are shorter than a chunk: with
longer ones every chunk arrives expired, and `StaleReplaced` does not hold (the code
cannot do better on a machine that slow).  Three eras let an inference of the first
one be merged while a second pause is under way.  `inferences` stops counting
above `Warmup`, where the code only compares it.

In `rollout` the limit in frames is below that in bytes, where the account goes wrong;
four frames fill the ring, evict, and leave some for a recording.  Two corrections and
a stride of two give a correction that ends between two recorded ticks and one whose
save is due while the push thread works.  In `recording` a queue of one is full after
any frame, two cameras let one fail where the other does not, two episode buffers over
three sessions, one of which may find a dataset (462,316 states), give every
order of save, failed save, crash and resume with an episode before and after it; with
a metadata buffer of two, metadata are flushed by the second episode or by finalize.
In `training` three threads are what the code has; the first life is long enough for
the ring to wrap, the second for a leaked handler to compete with live calls, and one
fault is a second life, a broken, a retried call or a skipped transition at each moment
(557,258 states).

**Fairness.**  In `RTCEngine` both threads are weakly fair and the operator is not
forced to anything.  In `Rollout` the main thread and the push thread are weakly fair: an
upload ends, with or without success.  In `DatasetWriter` each encoder thread and the
steps of a save are; add_frame and save_episode are never forced.  In `ActorLearner`
the steps of every thread that has something to do are; signals, crashes, faults and
the end of an episode are not.  In `AsyncInference` the two client threads and the pool threads are weakly fair: the
operating system runs them.  Faults, `Stop` and a clock are never forced.  Two
strong fairness conditions are about time: `TakeStep`, a waiting `GetActions` is not
passed over for ever when observations keep arriving, a control period apart; and
`PutToWaiting`, a handler that puts its observation right after evicting another is
not for ever overtaken by the two-second timeout of a waiting `GetActions`.

## 4. What the violations show

* `receiver`: the deque is read outside the lock (239); the pop in the control loop
  makes the iterator raise, only `grpc.RpcError` is caught (358), the thread ends.
* `starve`: `must_go.clear()` (437) after the call can undo the `must_go.set()`
  (337) of the chunk for that same observation.  From then on a robot at rest sends
  observations that the server filters as similar.  `WaitingEnds` shows that this
  needs a robot whose observations look alike: one that moves is served.
* `rtc_warmup`: during the warmup the main loop consumes nothing (`core.py:106`) while
  the thread infers only with a low queue (`rtc.py:270`), so a chunk that leaves more
  than the threshold ends the inferences before the warmup is complete.  With the
  defaults (chunk of 50, threshold 30, 30 frames a second) this is any warmup
  inference but the last that takes less than about two thirds of a second: with the
  default of two, the first one if the compiled model is cached; from three on, the
  second one, which no longer compiles.
* `hub`: the upload thread works between two saves, when the open parquet file has no
  footer and metadata are still buffered, and then clears the event.  If nothing is
  saved afterwards, the teardown finds no push due and the copy on the Hub stays
  unreadable; `sentry.py:126` says that it only ever touches finalised artifacts.

Other facts that the models contain, and that the properties have to except:

*Asynchronous inference.*  The pop (378), the action (381) and the update of
`latest_action` (385) are three steps; a merge in between finds the popped timestep
neither old (246) nor queued (250) and queues it again, so an action can be performed
twice.  The first action of every chunk but the first has been performed already, so
with `actions_per_chunk=1` every later chunk is dropped whole and the robot waits for
ever.  The control loop ends with `queue.Empty` when a merge empties the queue between
`actions_available` and `get_nowait` (`PopFromEmpty`).  `last_processed_obs` survives
`_reset_server`, so a new client's observations are first compared with an old client's.

*Real-time chunking.*  An inference under way and the held observation survive pause
and reset (`rtc.py:324`), so a chunk predicted from before a correction is merged and
performed after it.  `ErasInOrder` and `StaleReplaced` say what remains true: the robot
does not fall back once it has performed a current action, and it gets to one.

*Rollouts.*  The rotation timer runs on while the operator has paused: a second rotation
saves an empty episode, which raises and ends the session (`dagger.py:539`); so does a
correction shorter than the stride, because `record_tick` is not reset (674).
A push submitted before a correction runs during it, although the comment at
`dagger.py:805` excludes that.  When the final upload fails, the hardware teardown is
skipped.  Background uploads take no account of `push_to_hub`.

*Recording.*  The end mark is put without a time-out (`video_utils.py:858`): if an encoder thread has
died with its queue full, `save_episode` never returns (`Stuck`).  A save that fails
after its rows were written leaves them in a file with saved episodes, and moves the
positions of all later episodes; `info.json` is ahead of the metadata after a crash, so
that the next episode gets a number that leaves a gap (`spoilt`).  After a crash with a
metadata file open the dataset cannot be resumed (`lost`).

*Reinforcement learning.*  Handlers in `StreamParameters` outlive their callers; with
the pool full of them and too few transitions for training nobody is served
(`Starved`).  The actor's receiver meets the shutdown event only when parameters arrive,
and as processes the actor waits for a signal after its last step.  A retried stream
of transitions is collected twice; a broken one is not opened again.  The next state a
sample takes is another's at the newest slot of a full ring, after a truncated episode
and after a skipped transition (`buffer.py:256`).

## 5. Proofs

Assumptions: the named ASSUMEs of the modules (a chunk has at least one action, the
threshold is a fraction, the bounds are naturals, the sentinel `None` is nothing
else).  All theorems are about the whole specification, `Spec => ...`, the liveness ones about
the specification with its fairness.

**Liveness.**  Temporal steps are proved by LS4, which does not look into `ENABLED`, and
no prover here knows anything of it.  So that an action is enabled where fairness is
used is a premise of the theorem, named in the component's module: `GoesOn`
(`RTCEngine`), `MainGoesOn`, `PusherGoesOn` (`Rollout`), `SaveGoesOn`, `EncoderGoesOn`
(`DatasetWriter`), `ParametersGoOn` (`ActorLearner`).  Each holds in every reachable state
of the instance in `rtc.cfg`, `rollout.cfg`, `recording.cfg` or `training.cfg`, as TLC finds
when it is added to the INVARIANTS there (`EncoderGoesOn` for each camera).  Induction over the naturals in temporal logic
is out of reach too: a number of steps that depends on a constant or on the state
cannot be counted down.  Where a property needs such a count, the theorem proves one
step of it for every number (`OneFewer`, `PlaceLeft`), or has what follows from the count
as a premise (`UploadsRunOut`, `LearnerCatchesUp`); TLC finds both of these to hold when
they are added to the PROPERTIES of `rollout.cfg` and `training.cfg`.  No theorem of this
kind holds without the fairness it names.

**RobotClientProofs.**  `QueueIncreasing` and `NothingSkipped` are not inductive: they
say nothing of the chunk being merged.  `IInv` adds that nothing a thread has read,
sent or received is ahead of the highest timestep performed (`NotAhead`), although
`latest_action` itself may go back, and that the last incoming action looked at was
queued last or has been performed (`MergeFrontier`).  Lemmas `TailInvariants` and
`AppendInvariants` are about sequences; one lemma per action follows, and from
`Invariance` the theorems `TypeCorrect`, `QueueIsIncreasing`, `QueueSkipsNothing`,
`QueueIsBounded` and the refinement `ClientImplementsStream`.

**PolicyServerProofs.**  `ServerInv` says what a handler holds at each place
(`JobOK`): no observation is of a session to come, and an observation about to be
remembered has its timestep among the predicted ones unless `Ready` came in between.
`OneHandler` reduces each step to the one handler that moves.  Theorems:
`ServerTypeCorrect`, `ProcessedAreKnown`, `NothingStolen`.

**AsyncInferenceProofs.**  The client's `IInv` is kept by every step of `RobotClient`'s
`Next`, so what is shown is that each joint step is one of those or leaves the client
alone.  `JointInv` adds that every observation aboard the server, in a handler or in the
queue, is one the client has sent, and that the handler a caller waits for serves that
call; hence `JointTypeCorrect`, the refinement `JointImplementsClient`, by which all that
is proved of `RobotClient` holds in the whole system, and `RobotNeverJumps`.
`JointPutNeverBlocks` rests on `QuietInv`: without failed calls at most one handler
receives an observation, while the control loop waits for it, so the queue found or made
empty stays so.  `JointNothingLost` rests on `OrderInv`: without failed calls and repeated
actions observations pass through the stages captured, arriving, queued, taken without
overtaking (`Ordered`), and the queued actions reach less than a chunk beyond each of them
(`Reaching`).  `Advances` says how a step moves observations between stages; only
`ReplaceQueue` changes what they reach.  `JointImplementsServer` is the same for the
server's side: each joint step is a step of `PolicyServer`, `ServerStep` says which, or
leaves the server's variables alone; `JointProcessedKnown` carries `ProcessedIsPredicted`
over to the whole system.

**RTCEngineProofs.**  All is said of `LeftOver`, the actions not yet consumed; the
first lemmas tell what clearing, merging and getting do to it.  `ErasInOrder` rests on
the eras of the queue rising from that of the last action performed to that of what
the thread works on or would take next (`Rising`, `Latest`).  `QueueBounded` rests
on `RoomForChunk`: after its look at the size, the thread finds the queue no longer
than it was, for only the thread lengthens it.  `QuietStep` covers the steps that leave queue
and observations alone, one lemma each the others.  Theorems: `EngineTypeCorrect`,
`QueueStaysBounded`, `ErasStayInOrder` and the refinement `EngineImplementsBuffer`.
`FailureEnds` proves `FailureEndsRollout`: a thread that fails can only go on to set the
event (`FailureSpreads`; `FailureSeen` is the invariant that one that has failed has set
it), and with the event set each place of the main loop can only be stayed at or left
for one nearer to the end (`LoopEnds`), the flush after the warmup at most once.

**RolloutProofs.**  `PushInv`: what the push thread has read is all there is, since
nothing is saved under its lock, so clearing the event is right; with it `PushDue`
and `AllPushed`.  `LostInv` adds to `NothingLost` where the frames are in each place of a turn
(`PlaceInv`) and, for highlight, that ring and recording exclude each other and that
the byte account exceeds the content only where the number of frames is at its limit
(`Accounted`, `HighlightInv`); `PutKeepsNewest` is the lemma about the ring.  `CorrInv`:
the corrections in the episodes, the buffer and the phase follow each other
(`Begun`, `InOnePlace`, `OneEach`).  `PendingValid` is inductive with the types.  The
refinement `RolloutImplementsLog` follows from `LostInv` and `PushInv`.
`StopEndsSession` counts the places that are left to the end of a session (`Remaining`,
12 at most; each strategy takes the places of a turn in an order of its own): once the
session is to stop, no other turn begins, every step of the main thread lowers the count
(`MainEnds`) and no other thread touches it (`OthersWait`).  At three places the main
thread waits for uploads, that they run out is the premise `UploadsRunOut`;
`FewerUploads` proves that n uploads become fewer, since none is submitted meanwhile
(`NoneSubmitted`) and a failed one gives the lock back as well.

**DatasetWriterProofs.**  `StoreInv` has four parts: the counts (what is on disk is what
the session began with), the save (after `rows` the rows of the episode are in the open
file), the files (the metadata name files in their order, and the open file holds no
episode of an earlier session, so a crash that empties it touches none of those) and the
takes (an episode buffer has a number of its own, so rows appended later are not an
earlier episode's).  `RecordingImplementsStore` maps `BufferMeta` to Save, `CloseMeta`
to Finalize, `Crash` to Crash and all else to stuttering.

**DatasetReadProofs.**  `ReadsBack` speaks of a table that `FlattenSeq` recurs over the
files to build, and no prover unfolds that for a number of files it does not know.  The
first lemmas show by least counterexample (`LeastNumber`, `UpToAll`) that the table of n
files is the table of n - 1 with the rows of the n-th behind it (`RowsTo`).  `ReadsBack` is
not inductive: `EpisodesPlaced` says it of the files up to an episode's own, so that later
files do not matter; `GoesOn` says that the next rows go where the last episode ends, with
the count of frames that `info.json` has, at each place of a save; `Recovers` says the same
of what a crash would leave.  The last two are claimed only where no failure has left rows
or counts (`Unspoilt`).  `TableInv` is the three, and gives `EpisodesReadBack`.
`EncoderInv`: for each camera the frames in the file followed by those in the queue
increase, the end mark is last, and as long as none was dropped and no thread failed they
are all there.  `VideoInv`: the clips of saved episodes are right and lie before the end of
their files, and the clip being added begins where its file ended.  Together
`VideosShowEpisodes`.
`SavePlacesLeft` proves `PlaceLeft` for each place and camera: where the queue has room it
keeps it until the end mark is in (`RoomStays`), where it is full the thread takes a
frame, after the one in its hands (`EncoderMakesRoom`): by `EncoderInv` the frame in front
is not the end mark, so the thread does not end instead.  A thread that has died with its
queue full is the one exception (`Stuck`).

**ActorLearnerProofs.**  `PoolInv` counts the threads.  `EpisodesStayInOrder` rests on
`StreamInv`: it is said of `collected` followed by the queue, and the episodes
sent and waiting to be sent are numbered through.  `HoldsLatest` is inductive.
`SamplesHoldNextState` rests on `BatchInv`: transitions come to the buffer in a row,
except after a last or a skipped one.
`ListenersGetParameters` proves `ParametersArrive`: the last parameters that wait are those
pushed last (`QueueLatest`), and a handler that is the only one sends those; where nothing
waits, the learner trains and pushes, once it has added what it was sent.  The proof needs
`LearnAfter > 1`: from a ring that holds one transition and has room no sample can be
drawn (`buffer.py:241`), so a learner told to train from one would push nothing more; the
default is 100.
**Only model-checked:** `WaitingEnds` and `StaleReplaced` (how long a robot waits or
performs stale actions depends on the length of a queue and on a chain through both
sides), `SaveEnds` beyond `SavePlacesLeft`, `LearnerStarts` and `ActorLeaves` (they wait
for a pool whose size is a constant), the two premises `UploadsRunOut` and
`LearnerCatchesUp`, and the `ENABLED` premises named above.  The runs that end with a
violation are of course TLC's alone.

## 6. Not modelled, and plan

The modelled parts are those in which several actors, messages or failures meet.  They
are a small share of the repository's lines.  Most of the rest is neural networks
(`policies/`, `rewards/`), tensor transformations (`processor/`), conversions and
statistics over files that no other actor touches (`datasets/` but the writer), drivers
(`robots/`, `motors/`, `cameras/`, `teleoperators/`), simulators, configuration and
command lines: their correctness is numeric or that of a device, and they have no
control state for a model to explore.

What is left that could be modelled, in this order:

1. `AsyncImageWriter` with batched encoding, as a second way from `AddFrame` to
   `MoveVideo`.  Batched encoding raises whenever it is used (`dataset_writer.py:335`
   looks for the new episodes in the metadata loaded when the session began).
2. The learner's checkpoints and its resumption.  The checkpoint's interaction step is 0
   unless a message arrived in the iteration that saves (`learner.py:698`); its
   prefetching iterator leaves the consumer waiting if its producer fails
   (`buffer.py:372`).
3. The background readers of cameras, which share one frame and an event with
   their callers.
