-------------------------------- MODULE Rollout -------------------------------
(* The control loops of the rollout strategies, with what they record: base  *)
(* records nothing, sentry everything, highlight what the operator asks for, *)
(* a ring buffer of earlier frames included, DAgger everything or only the   *)
(* operator's corrections. (rollout/strategies/, scripts/lerobot_rollout.py.)*)
(* One strategy runs per session; the others' variables stay as they are.    *)
EXTENDS RingBuffer, EpisodePush

CONSTANTS
  PushToHub,      \* cfg.dataset.push_to_hub
  Stride,         \* interpolation_multiplier: control ticks for each recorded one
  UploadEvery,    \* upload_every_n_episodes
  NumEpisodes,    \* num_episodes, the corrections DAgger asks for
  MaxTicks,       \* bound: duration of the session, in recorded frames
  MaxCorrections, \* bound: how often the operator takes over
  MaxQueued       \* bound: the operator asks for no upload while so many wait

ASSUME PushAssumption == PushToHub \in BOOLEAN
ASSUME StrideAssumption == Stride \in Nat \ {0}
ASSUME UploadAssumption == UploadEvery \in Nat \ {0}
ASSUME EpisodesAssumption == NumEpisodes \in Nat
ASSUME BoundsAssumption == MaxTicks \in Nat /\ MaxCorrections \in Nat /\ MaxQueued \in Nat

VARIABLES
  strategy,   \* what create_strategy made, DAgger in one of its two modes
  main,       \* where the main thread is
  stop,       \* shutdown_event or stop_recording
  tick,       \* history: frames so far
  sincePush,  \* episodes_since_push
  upload,     \* _push_requested (highlight), upload_requested (DAgger)
  toggle,     \* _save_requested
  live,       \* _recording_live
  ring,       \* _ring
  phase,      \* DAggerEvents._phase
  pending,    \* DAggerEvents._pending_transition
  correction, \* history: corrections begun
  recordTick, \* record_tick, modulo the stride
  recorded    \* corrections saved

counters == <<tick, sincePush, recordTick, recorded>>
keyVars == <<stop, upload, toggle, pending>>
highlightVars == <<live, ring>>
phaseVars == <<phase, correction>>
rest == <<counters, keyVars, dataVars, needsPush, pushVars, highlightVars, phaseVars>>
vars == <<strategy, main, rest>>
others == <<dataVars, needsPush, pushVars, strategy, main, counters, highlightVars, phaseVars>>

Strategies == {"base", "sentry", "highlight", "continuous", "corrections"}
Rotating == {"sentry", "continuous"}
DAgger == {"continuous", "corrections"}

Phases == {"autonomous", "paused", "correcting"}
Events == {"pause_resume", "correction"}

(* Valid (phase, event) -> phase.                                           *)
Transition ==
  [k \in {<<"autonomous", "pause_resume">>, <<"paused", "pause_resume">>,
          <<"paused", "correction">>, <<"correcting", "correction">>} |->
     CASE k = <<"paused", "pause_resume">> -> "autonomous"
       [] k = <<"paused", "correction">> -> "correcting"
       [] OTHER -> "paused"]

Valid(p, e) == <<p, e>> \in DOMAIN Transition

Loop == {"top", "upload", "frame", "record", "rotate", "save", "saved"}
Places == Loop \cup {"final", "finalSaved", "finalize", "join", "push", "hardware", "done", "raised"}

Frames == [tick : Nat, correction : Nat]
Copies == [rows : Nat, closed : BOOLEAN]

TypeOK ==
  /\ buffer \in Seq(Frames)
  /\ usable \in BOOLEAN
  /\ episodes \in Seq(Seq(Frames))
  /\ closed \in BOOLEAN
  /\ needsPush \in BOOLEAN
  /\ lock = (IF pusher = "idle" THEN "free" ELSE "push")
  /\ queued \in Nat
  /\ pusher \in {"idle", "read", "commit", "clear"}
  /\ snapshot \in Copies
  /\ hub \in Copies
  /\ strategy \in Strategies
  /\ main \in Places
  /\ stop \in BOOLEAN
  /\ tick \in Nat
  /\ sincePush \in Nat
  /\ upload \in BOOLEAN
  /\ toggle \in BOOLEAN
  /\ live \in BOOLEAN
  /\ ring \in [frames : Seq(Frames), bytes : Nat]
  /\ phase \in Phases
  /\ pending \in Events \cup {"none"}
  /\ correction \in Nat
  /\ recordTick \in 0..(Stride - 1)
  /\ recorded \in Nat

(* The strategy is set up, its loop entered.                                *)
Init ==
  /\ PushInit
  /\ strategy \in Strategies
  /\ main = "top"
  /\ stop = FALSE
  /\ tick = 0
  /\ sincePush = 0
  /\ upload = FALSE
  /\ toggle = FALSE
  /\ live = FALSE
  /\ ring = Empty
  /\ phase = "autonomous"
  /\ pending = "none"
  /\ correction = 0
  /\ recordTick = 0
  /\ recorded = 0

-------------------------------------------------------------------------------
(* The operator and the signal handler, in their own threads, while the loop *)
(* runs. After it their flags are not read any more.                         *)
Running == main \in Loop

(* SIGINT, or ESC, which in highlight also withdraws a save request.        *)
RequestStop ==
  /\ Running
  /\ stop' = TRUE
  /\ \/ UNCHANGED toggle
     \/ strategy = "highlight" /\ toggle' = FALSE
  /\ UNCHANGED <<upload, pending, others>>

RequestUpload ==
  /\ Running
  /\ strategy \in {"highlight"} \cup DAgger
  /\ queued < MaxQueued
  /\ upload' = TRUE
  /\ UNCHANGED <<stop, toggle, pending, others>>

RequestSave ==
  /\ Running
  /\ strategy = "highlight"
  /\ toggle' = TRUE
  /\ UNCHANGED <<stop, upload, pending, others>>

(* Mutant: the key is noted whatever the phase.                             *)
RequestAny ==
  /\ Running
  /\ strategy \in DAgger
  /\ \E e \in Events : pending' = e
  /\ UNCHANGED <<stop, upload, toggle, others>>

(* request_transition: only a transition valid now is noted.                *)
RequestTransition ==
  /\ Running
  /\ strategy \in DAgger
  /\ \E e \in Events :
       /\ Valid(phase, e)
       /\ phase = "paused" /\ e = "correction" => correction < MaxCorrections
       /\ pending' = e
  /\ UNCHANGED <<stop, upload, toggle, others>>

-------------------------------------------------------------------------------
(* The loop of the main thread. One turn: what the operator asked for, an    *)
(* observation and an action, the frame recorded of them, the timer of the   *)
(* episode. A robot, a teleoperator or a policy may raise anywhere.          *)
Frame(n) == [tick |-> n, correction |-> IF phase = "correcting" THEN correction ELSE 0]

GoOn ==
  /\ main = "top"
  /\ ~stop
  /\ tick < MaxTicks
  /\ strategy = "corrections" => recorded < NumEpisodes

LeaveLoop ==
  /\ main \in {"top", "upload", "frame", "record", "rotate"}
  /\ main' = IF strategy = "base" THEN "hardware" ELSE "final"
  /\ UNCHANGED rest

StartTurn ==
  /\ GoOn
  /\ strategy \in {"sentry", "highlight"}
  /\ main' = "frame"
  /\ UNCHANGED rest

(* Place after the transitions.                                             *)
Onward == IF strategy = "corrections" THEN "upload" ELSE "frame"

(* consume_transition and _apply_transition. A correction that ends is saved *)
(* if only corrections are recorded.                                         *)
TakeTransition ==
  /\ GoOn
  /\ strategy \in DAgger
  /\ Valid(phase, pending)
  /\ phase' = Transition[<<phase, pending>>]
  /\ pending' = "none"
  /\ correction' = IF phase' = "correcting" THEN correction + 1 ELSE correction
  /\ main' = IF strategy = "corrections" /\ phase = "correcting" THEN "save" ELSE Onward
  /\ UNCHANGED <<counters, stop, upload, toggle, dataVars, needsPush,
                 pushVars, highlightVars>>

NoTransition ==
  /\ GoOn
  /\ strategy \in DAgger
  /\ ~Valid(phase, pending)
  /\ pending' = "none"
  /\ main' = Onward
  /\ UNCHANGED <<counters, stop, upload, toggle, dataVars, needsPush,
                 pushVars, highlightVars, phaseVars>>

(* On-demand upload; _background_push of DAgger refuses it in a correction. *)
CheckUpload ==
  /\ main = "upload"
  /\ upload' = FALSE
  /\ IF upload /\ phase # "correcting" THEN SubmitPush ELSE UNCHANGED pushVars
  /\ main' = IF strategy = "highlight" THEN "record" ELSE "frame"
  /\ UNCHANGED <<counters, stop, toggle, pending, dataVars, needsPush,
                 highlightVars, phaseVars>>

(* The policy's or the operator's action is recorded, in DAgger only one in *)
(* each Stride.                                                              *)
Recording ==
  CASE strategy = "sentry" -> TRUE
    [] strategy = "continuous" -> phase # "paused"
    [] strategy = "corrections" -> phase = "correcting"
    [] OTHER -> FALSE

AfterFrame == IF strategy \in Rotating THEN "rotate" ELSE "top"

RecordFrame ==
  /\ main = "frame"
  /\ Recording
  /\ IF recordTick = 0
       THEN /\ buffer' = Append(buffer, Frame(tick + 1))
            /\ tick' = tick + 1
       ELSE UNCHANGED <<buffer, tick>>
  /\ recordTick' = IF strategy \in DAgger THEN (recordTick + 1) % Stride ELSE 0
  /\ main' = AfterFrame
  /\ UNCHANGED <<sincePush, recorded, keyVars, usable, episodes, closed, needsPush, pushVars,
                 highlightVars, phaseVars>>

(* No action is due, or the loop is paused or not recording; the operator   *)
(* who corrects always acts.                                                 *)
NoFrame ==
  /\ main = "frame"
  /\ strategy \in DAgger => phase # "correcting"
  /\ main' = AfterFrame
  /\ UNCHANGED rest

(* Mutant: the frames are copied and not taken out of the ring buffer.      *)
StartLiveKeepsRing ==
  /\ main = "frame"
  /\ strategy = "highlight"
  /\ toggle /\ ~live
  /\ tick' = tick + 1
  /\ toggle' = FALSE
  /\ buffer' = buffer \o ring.frames
  /\ live' = TRUE
  /\ main' = "upload"
  /\ UNCHANGED <<sincePush, recordTick, recorded, stop, upload, pending, usable, episodes, closed,
                 needsPush, pushVars, phaseVars, ring>>

(* Highlight. A frame, with which recording begins: the ring buffer comes    *)
(* first.                                                                     *)
StartLive ==
  /\ main = "frame"
  /\ strategy = "highlight"
  /\ toggle /\ ~live
  /\ tick' = tick + 1
  /\ toggle' = FALSE
  /\ buffer' = buffer \o ring.frames
  /\ ring' = Empty
  /\ live' = TRUE
  /\ main' = "upload"
  /\ UNCHANGED <<sincePush, recordTick, recorded, stop, upload, pending, usable, episodes, closed,
                 needsPush, pushVars, phaseVars>>

(* ... with which it ends ...                                               *)
EndLive ==
  /\ main = "frame"
  /\ strategy = "highlight"
  /\ toggle /\ live
  /\ tick' = tick + 1
  /\ toggle' = FALSE
  /\ buffer' = Append(buffer, Frame(tick + 1))
  /\ main' = "save"
  /\ UNCHANGED <<sincePush, recordTick, recorded, stop, upload, pending, usable, episodes, closed,
                 needsPush, pushVars, highlightVars, phaseVars>>

(* ... or with which nothing changes.                                       *)
SameLive ==
  /\ main = "frame"
  /\ strategy = "highlight"
  /\ ~toggle
  /\ tick' = tick + 1
  /\ main' = "upload"
  /\ UNCHANGED <<sincePush, recordTick, recorded, keyVars, dataVars, needsPush, pushVars,
                 highlightVars, phaseVars>>

KeepFrame ==
  /\ main = "record"
  /\ IF live
       THEN buffer' = Append(buffer, Frame(tick)) /\ UNCHANGED ring
       ELSE ring' = Put(ring, Frame(tick)) /\ UNCHANGED buffer
  /\ main' = "top"
  /\ UNCHANGED <<counters, keyVars, usable, episodes, closed, needsPush,
                 pushVars, live, phaseVars>>

-------------------------------------------------------------------------------
(* Mutant: it does.                                                         *)
DueAlways ==
  /\ main = "rotate"
  /\ main' = "save"
  /\ UNCHANGED rest

(* Saving an episode, on the timer, after a correction, or on request. The  *)
(* timer does not interrupt a correction.                                    *)
Due ==
  /\ main = "rotate"
  /\ phase # "correcting"
  /\ main' = "save"
  /\ UNCHANGED rest

NotDue ==
  /\ main = "rotate"
  /\ main' = "top"
  /\ UNCHANGED rest

Save ==
  /\ main = "save"
  /\ SaveEpisode
  /\ main' = "saved"
  /\ UNCHANGED <<counters, keyVars, needsPush, pushVars, highlightVars,
                 phaseVars>>

SaveFails ==
  /\ main = "save"
  /\ SaveRaises
  /\ main' = "final"
  /\ UNCHANGED <<counters, keyVars, needsPush, pushVars, highlightVars,
                 phaseVars>>

SavedRotation ==
  /\ main = "saved"
  /\ strategy \in Rotating
  /\ needsPush' = TRUE
  /\ IF sincePush + 1 >= UploadEvery
       THEN SubmitPush /\ sincePush' = 0
       ELSE UNCHANGED pushVars /\ sincePush' = sincePush + 1
  /\ main' = "top"
  /\ UNCHANGED <<tick, recordTick, recorded, keyVars, dataVars, highlightVars, phaseVars>>

SavedCorrection ==
  /\ main = "saved"
  /\ strategy = "corrections"
  /\ needsPush' = TRUE
  /\ recorded' = recorded + 1
  /\ main' = "upload"
  /\ UNCHANGED <<tick, sincePush, recordTick, keyVars, dataVars, pushVars, highlightVars, phaseVars>>

SavedHighlight ==
  /\ main = "saved"
  /\ strategy = "highlight"
  /\ live' = FALSE
  /\ main' = "top"
  /\ UNCHANGED <<counters, keyVars, dataVars, needsPush, pushVars, ring,
                 phaseVars>>

-------------------------------------------------------------------------------
(* After the loop: the last episode is saved, a failure to do so suppressed; *)
(* the dataset is finalized, without the lock; queued uploads are awaited;   *)
(* the dataset is uploaded once more if something was saved since the last   *)
(* upload, in highlight always; the robot is released.                       *)
FinalSave ==
  /\ main = "final"
  /\ strategy = "highlight" => live
  /\ SaveEpisode
  /\ main' = IF strategy = "highlight" THEN "finalize" ELSE "finalSaved"
  /\ UNCHANGED <<counters, keyVars, needsPush, pushVars, highlightVars,
                 phaseVars>>

FinalSaveFails ==
  /\ main = "final"
  /\ strategy = "highlight" => live
  /\ SaveRaises
  /\ main' = "finalize"
  /\ UNCHANGED <<counters, keyVars, needsPush, pushVars, highlightVars,
                 phaseVars>>

NothingLive ==
  /\ main = "final"
  /\ strategy = "highlight" /\ ~live
  /\ main' = "finalize"
  /\ UNCHANGED rest

FinalSaved ==
  /\ main = "finalSaved"
  /\ needsPush' = TRUE
  /\ main' = "finalize"
  /\ UNCHANGED <<counters, keyVars, dataVars, pushVars, highlightVars,
                 phaseVars>>

FinalizeDataset ==
  /\ main = "finalize"
  /\ Finalize
  /\ main' = "join"
  /\ UNCHANGED <<counters, keyVars, needsPush, pushVars, highlightVars,
                 phaseVars>>

JoinPushes ==
  /\ main = "join"
  /\ queued = 0 /\ pusher = "idle"
  /\ main' = "push"
  /\ UNCHANGED rest

PushWanted == PushToHub /\ (strategy = "highlight" \/ needsPush) /\ episodes # <<>>

FinalPush ==
  /\ main = "push"
  /\ IF PushWanted THEN hub' = Copy ELSE UNCHANGED hub
  /\ main' = "hardware"
  /\ UNCHANGED <<lock, queued, pusher, snapshot, counters, keyVars,
                 dataVars, needsPush, highlightVars, phaseVars>>

FinalPushFails ==
  /\ main = "push"
  /\ PushWanted
  /\ main' = "raised"
  /\ UNCHANGED rest

ReleaseRobot ==
  /\ main = "hardware"
  /\ main' = "done"
  /\ UNCHANGED rest

-------------------------------------------------------------------------------
Operator == RequestStop \/ RequestUpload \/ RequestSave \/ RequestTransition

Pusher ==
  PushThread /\ UNCHANGED <<dataVars, strategy, main, counters, keyVars, highlightVars, phaseVars>>

Turn ==
  \/ LeaveLoop \/ StartTurn \/ TakeTransition \/ NoTransition \/ CheckUpload
  \/ RecordFrame \/ NoFrame \/ StartLive \/ EndLive \/ SameLive \/ KeepFrame
  \/ Due \/ NotDue \/ Save \/ SaveFails \/ SavedRotation \/ SavedCorrection \/ SavedHighlight

Teardown ==
  \/ FinalSave \/ FinalSaveFails \/ NothingLive \/ FinalSaved \/ FinalizeDataset
  \/ JoinPushes \/ FinalPush \/ FinalPushFails \/ ReleaseRobot

Main == (Turn \/ Teardown) /\ UNCHANGED strategy

Next == Operator \/ Pusher \/ Main

Spec == Init /\ [][Next]_vars

(* The threads run, and an upload ends, with or without success.            *)
FairSpec == Spec /\ WF_vars(Main) /\ WF_vars(Pusher)

-------------------------------------------------------------------------------
(* What can go wrong.                                                       *)

Contiguous(e) == \A k \in DOMAIN e : e[k].tick = e[1].tick + k - 1

(* The tick of the last frame saved before episode i, and of all.           *)
SavedBefore(i) == IF i = 1 THEN 0 ELSE episodes[i - 1][Len(episodes[i - 1])].tick

SavedUpTo == SavedBefore(Len(episodes) + 1)

(* The frames of e come after those up to tick n: immediately after, unless *)
(* frames in between have left the ring buffer unrecorded.                   *)
Follows(e, n) ==
  e # <<>> => Contiguous(e) /\ IF strategy = "highlight" THEN e[1].tick > n ELSE e[1].tick = n + 1

AfterSession == Places \ (Loop \cup {"final"})

(* An empty save ends the session (dagger.py:539, 674), and the operator may *)
(* end it anywhere; still no frame recorded is in two episodes, out of order *)
(* or lost: episodes and buffer hold all of them, and after the session the  *)
(* episodes do, unless the disk or an encoder failed.                         *)
NothingLost ==
  /\ \A i \in DOMAIN episodes :
       episodes[i] # <<>> /\ Follows(episodes[i], SavedBefore(i))
  /\ Follows(buffer, SavedUpTo)
  /\ strategy # "highlight" => tick = SavedUpTo + Len(buffer)
  /\ usable /\ main \in AfterSession => buffer = <<>>

(* dagger.py:535, 579: a correction is never split over two episodes, by    *)
(* whatever keys and timers; recording only corrections, each episode is one.*)
CorrectionsWhole ==
  /\ \A i, j \in DOMAIN episodes : \A k \in DOMAIN episodes[i] : \A l \in DOMAIN episodes[j] :
       i # j /\ episodes[i][k].correction = episodes[j][l].correction => episodes[i][k].correction = 0
  /\ strategy = "corrections" =>
       \A i \in DOMAIN episodes : \A k \in DOMAIN episodes[i] : episodes[i][k].correction = i

(* dagger.py:145: a transition noted is still valid when the loop takes it, *)
(* so no key the operator pressed in time is dropped.                        *)
PendingValid == pending = "none" \/ Valid(phase, pending)

(* ring_buffer.py:69: a frame that falls out of the deque stays in the byte *)
(* account, yet while nothing is recorded the ring buffer holds the latest   *)
(* frames, as many as both limits allow.                                     *)
RingKeepsNewest ==
  strategy = "highlight" /\ main = "top" /\ ~live =>
    /\ Len(ring.frames) = Smaller(tick - SavedUpTo, Smaller(MaxFrames, MaxBytes))
    /\ \A k \in DOMAIN ring.frames : ring.frames[k].tick = tick - Len(ring.frames) + k

(* sentry.py:145, 225, dagger.py:826: whatever the push thread does between *)
(* a save and the note of it, an episode the Hub lacks keeps a push due.     *)
PushDue ==
  strategy # "highlight" /\ Len(episodes) > hub.rows => needsPush \/ main \in {"saved", "finalSaved"}

(* A session that ends well leaves every episode on the Hub.                *)
AllPushed == main = "done" /\ PushToHub => hub.rows = Len(episodes)

Log == INSTANCE EpisodeLog WITH hub <- hub.rows

(* Rollout implements EpisodeLog: what an upload that runs beside the loop  *)
(* takes to the Hub is the episodes saved, a correction in progress          *)
(* (dagger.py:805) or not.                                                   *)
ImplementsEpisodeLog == Log!Spec

(* sentry.py:175: a session that is told to stop ends, and the robot is     *)
(* released, unless the last upload fails; the uploads that still wait do    *)
(* not hold it up for ever.                                                  *)
StopReleasesRobot == (stop \/ main = "final") ~> main \in {"done", "raised"}

(* So it is because uploads run out where the main thread waits for the lock *)
(* or for them: where it waits, no more are submitted.                       *)
Blocked == main \in {"save", "final", "join"}

NoUpload == queued = 0 /\ pusher = "idle"

UploadsRunOut == Blocked ~> (~Blocked \/ NoUpload)

(* Of n that wait there are fewer in the end, or the last one has ended.    *)
OneFewer(n) == (Blocked /\ queued = n) ~> (~Blocked \/ queued < n \/ NoUpload)

(* What FairSpec needs for both: the threads go on where nothing holds them. *)
MainGoesOn ==
  main \notin {"done", "raised"} /\ (Blocked => NoUpload) => ENABLED <<Main>>_vars

PusherGoesOn == ~NoUpload => ENABLED <<Pusher>>_vars
===============================================================================
