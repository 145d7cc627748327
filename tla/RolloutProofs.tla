----------------------------- MODULE RolloutProofs -----------------------------
(* What the rollout strategies record and upload, proved for every ring      *)
(* buffer, stride, number of episodes and length of the session.             *)
EXTENDS Rollout, SequenceTheorems, TLAPS

USE FramesAssumption, BytesAssumption, PushAssumption, StrideAssumption, UploadAssumption,
    EpisodesAssumption, BoundsAssumption

-------------------------------------------------------------------------------
(* Types.                                                                   *)

LEMMA TransitionType ==
  ASSUME NEW p \in Phases, NEW e \in Events \cup {"none"}, Valid(p, e)
  PROVE  Transition[<<p, e>>] \in Phases
BY DEF Valid, Transition, Phases, Events

LEMMA PutType ==
  ASSUME NEW r \in [frames : Seq(Frames), bytes : Nat], NEW f \in Frames
  PROVE  Put(r, f) \in [frames : Seq(Frames), bytes : Nat]
<1> DEFINE n == Evicted(r)
<1>1. n \in Nat /\ n <= Len(r.frames) /\ n <= r.bytes
  BY DEF Evicted, Smaller
<1>2. Drop(r.frames, n) \in Seq(Frames)
  BY <1>1 DEF Drop
<1>3. Push(Drop(r.frames, n), f) \in Seq(Frames)
  BY <1>2 DEF Push
<1>4. r.bytes - n + 1 \in Nat
  BY <1>1
<1> QED
  BY <1>3, <1>4 DEF Put

LEMMA FrameType ==
  ASSUME TypeOK, NEW n \in Nat
  PROVE  Frame(n) \in Frames
BY DEF Frame, Frames, TypeOK

LEMMA TypeInit == Init => TypeOK
<1> SUFFICES ASSUME Init PROVE TypeOK
  OBVIOUS
<1>1. /\ usable \in BOOLEAN /\ closed \in BOOLEAN /\ needsPush \in BOOLEAN /\ stop \in BOOLEAN
      /\ upload \in BOOLEAN /\ toggle \in BOOLEAN /\ live \in BOOLEAN
  BY DEF Init, PushInit
<1>2. snapshot \in Copies /\ hub \in Copies
  BY DEF Init, PushInit, Nothing, Copies
<1>3. buffer \in Seq(Frames) /\ episodes \in Seq(Seq(Frames))
  BY DEF Init, PushInit
<1>4. ring \in [frames : Seq(Frames), bytes : Nat]
  BY DEF Init, Empty
<1> QED
  BY <1>1, <1>2, <1>3, <1>4 DEF Init, PushInit, TypeOK, Places, Loop, Phases, Events

LEMMA TypeNext == TypeOK /\ [Next]_vars => TypeOK'
<1> SUFFICES ASSUME TypeOK, [Next]_vars PROVE TypeOK'
  OBVIOUS
<1> USE DEF rest, others, dataVars, pushVars, counters, keyVars, highlightVars, phaseVars
<1>1. CASE UNCHANGED vars
  BY <1>1 DEF TypeOK, vars
<1>2. CASE Operator
  <2>1. CASE RequestStop
    BY <2>1 DEF RequestStop, TypeOK
  <2>2. CASE RequestUpload
    BY <2>2 DEF RequestUpload, TypeOK
  <2>3. CASE RequestSave
    BY <2>3 DEF RequestSave, TypeOK
  <2>4. CASE RequestTransition
    BY <2>4 DEF RequestTransition, TypeOK
  <2> QED
    BY <1>2, <2>1, <2>2, <2>3, <2>4 DEF Operator
<1>3. CASE Pusher
  <2> USE DEF Pusher
  <2>1. CASE PushBegins
    BY <1>3, <2>1 DEF PushBegins, TypeOK
  <2>2. CASE PushSkipped
    BY <1>3, <2>2 DEF PushSkipped, TypeOK
  <2>3. CASE PushReads
    BY <1>3, <2>3 DEF PushReads, TypeOK, Copy, Copies
  <2>4. CASE PushCommits
    BY <1>3, <2>4 DEF PushCommits, TypeOK, Nothing, Copies
  <2>5. CASE PushDone
    BY <1>3, <2>5 DEF PushDone, TypeOK
  <2>6. CASE PushFails
    BY <1>3, <2>6 DEF PushFails, TypeOK, Nothing, Copies
  <2> QED
    BY <1>3, <2>1, <2>2, <2>3, <2>4, <2>5, <2>6 DEF PushThread
<1>4. CASE Turn /\ UNCHANGED strategy
  <2> USE <1>4 DEF Places, Loop
  <2>1. CASE LeaveLoop
    BY <2>1 DEF LeaveLoop, TypeOK
  <2>2. CASE StartTurn
    BY <2>2 DEF StartTurn, TypeOK
  <2>3. CASE TakeTransition
    BY <2>3, TransitionType DEF TakeTransition, Onward, TypeOK
  <2>4. CASE NoTransition
    BY <2>4 DEF NoTransition, Onward, TypeOK
  <2>5. CASE CheckUpload
    <3>1. upload' \in BOOLEAN
      BY <2>5 DEF CheckUpload
    <3>2. CASE strategy = "highlight"
      BY <2>5, <3>1, <3>2 DEF CheckUpload, SubmitPush, TypeOK
    <3>3. CASE strategy # "highlight"
      BY <2>5, <3>1, <3>3 DEF CheckUpload, SubmitPush, TypeOK
    <3> QED
      BY <3>2, <3>3
  <2>6. CASE RecordFrame
    <3>1. Frame(tick + 1) \in Frames
      BY FrameType DEF TypeOK
    <3>2. recordTick' \in 0..(Stride - 1)
      BY <2>6 DEF RecordFrame, TypeOK
    <3>3. CASE recordTick = 0
      <4>1. buffer' = Append(buffer, Frame(tick + 1)) /\ tick' = tick + 1
        BY <2>6, <3>3 DEF RecordFrame
      <4>2. buffer' \in Seq(Frames) /\ tick' \in Nat
        BY <3>1, <4>1 DEF TypeOK
      <4> QED
        BY <2>6, <3>2, <4>2 DEF RecordFrame, AfterFrame, TypeOK
    <3>4. CASE recordTick # 0
      BY <2>6, <3>2, <3>4 DEF RecordFrame, AfterFrame, TypeOK
    <3> QED
      BY <3>3, <3>4
  <2>7. CASE NoFrame
    BY <2>7 DEF NoFrame, AfterFrame, TypeOK
  <2>8. CASE StartLive
    <3>1. toggle' \in BOOLEAN /\ live' \in BOOLEAN
      BY <2>8 DEF StartLive
    <3>2. ring' \in [frames : Seq(Frames), bytes : Nat]
      BY <2>8 DEF StartLive, Empty
    <3>3. buffer' \in Seq(Frames)
      BY <2>8 DEF StartLive, TypeOK
    <3> QED
      BY <2>8, <3>1, <3>2, <3>3 DEF StartLive, TypeOK
  <2>9. CASE EndLive
    <3>1. Frame(tick + 1) \in Frames
      BY FrameType DEF TypeOK
    <3>2. toggle' \in BOOLEAN
      BY <2>9 DEF EndLive
    <3> QED
      BY <2>9, <3>1, <3>2 DEF EndLive, TypeOK
  <2>10. CASE SameLive
    BY <2>10 DEF SameLive, TypeOK
  <2>11. CASE KeepFrame
    <3>1. Frame(tick) \in Frames
      BY FrameType DEF TypeOK
    <3>2. Put(ring, Frame(tick)) \in [frames : Seq(Frames), bytes : Nat]
      BY <3>1, PutType DEF TypeOK
    <3>3. CASE live
      <4>1. buffer' = Append(buffer, Frame(tick)) /\ ring' = ring
        BY <2>11, <3>3 DEF KeepFrame
      <4>2. buffer' \in Seq(Frames)
        BY <3>1, <4>1 DEF TypeOK
      <4> QED
        BY <2>11, <4>1, <4>2 DEF KeepFrame, TypeOK
    <3>4. CASE ~live
      BY <2>11, <3>2, <3>4 DEF KeepFrame, TypeOK
    <3> QED
      BY <3>3, <3>4
  <2>12. CASE Due \/ NotDue
    BY <2>12 DEF Due, NotDue, TypeOK
  <2>13. CASE Save
    BY <2>13 DEF Save, SaveEpisode, TypeOK
  <2>14. CASE SaveFails
    BY <2>14 DEF SaveFails, SaveRaises, TypeOK
  <2>15. CASE SavedRotation
    BY <2>15 DEF SavedRotation, SubmitPush, TypeOK
  <2>16. CASE SavedCorrection
    BY <2>16 DEF SavedCorrection, TypeOK
  <2>17. CASE SavedHighlight
    <3>1. live' \in BOOLEAN
      BY <2>17 DEF SavedHighlight
    <3> QED
      BY <2>17, <3>1 DEF SavedHighlight, TypeOK
  <2> QED
    BY <2>1, <2>2, <2>3, <2>4, <2>5, <2>6, <2>7, <2>8, <2>9, <2>10, <2>11, <2>12, <2>13, <2>14,
       <2>15, <2>16, <2>17 DEF Turn
<1>5. CASE Teardown /\ UNCHANGED strategy
  <2> USE <1>5 DEF Places, Loop
  <2>1. CASE FinalSave
    BY <2>1 DEF FinalSave, SaveEpisode, TypeOK
  <2>2. CASE FinalSaveFails
    BY <2>2 DEF FinalSaveFails, SaveRaises, TypeOK
  <2>3. CASE NothingLive \/ JoinPushes \/ FinalPushFails \/ ReleaseRobot
    BY <2>3 DEF NothingLive, JoinPushes, FinalPushFails, ReleaseRobot, TypeOK
  <2>4. CASE FinalizeDataset
    BY <2>4 DEF FinalizeDataset, Finalize, TypeOK
  <2>5. CASE FinalPush
    BY <2>5 DEF FinalPush, Copy, Copies, TypeOK
  <2>6. CASE FinalSaved
    BY <2>6 DEF FinalSaved, TypeOK
  <2> QED
    BY <2>1, <2>2, <2>3, <2>4, <2>5, <2>6 DEF Teardown
<1> QED
  BY <1>1, <1>2, <1>3, <1>4, <1>5 DEF Next, Main

(* Every variable keeps its type, and the lock is held exactly while an     *)
(* upload runs (sentry.py:219).                                              *)
THEOREM RolloutTypeCorrect == Spec => []TypeOK
<1>1. Init => TypeOK
  BY TypeInit
<1>2. TypeOK /\ [Next]_vars => TypeOK'
  BY TypeNext
<1> QED
  BY <1>1, <1>2, PTL DEF Spec

-------------------------------------------------------------------------------
(* Transitions of DAgger.                                                   *)

LEMMA PendingNext == TypeOK /\ PendingValid /\ [Next]_vars => PendingValid'
<1> SUFFICES ASSUME TypeOK, PendingValid, [Next]_vars PROVE PendingValid'
  OBVIOUS
<1> USE DEF rest, others, dataVars, pushVars, counters, keyVars, highlightVars, phaseVars
<1>1. CASE UNCHANGED <<phase, pending>>
  BY <1>1 DEF PendingValid, Valid
<1>2. CASE RequestTransition
  BY <1>2 DEF RequestTransition, PendingValid, Valid
<1>3. CASE TakeTransition \/ NoTransition
  BY <1>3 DEF TakeTransition, NoTransition, PendingValid
<1>4. CASE RequestStop \/ RequestUpload \/ RequestSave
  BY <1>1, <1>4 DEF RequestStop, RequestUpload, RequestSave
<1>5. CASE Pusher
  BY <1>1, <1>5 DEF Pusher
<1>6. CASE \/ LeaveLoop \/ StartTurn \/ CheckUpload \/ RecordFrame \/ NoFrame
           \/ StartLive \/ EndLive \/ SameLive \/ KeepFrame
  BY <1>1, <1>6 DEF LeaveLoop, StartTurn, CheckUpload, RecordFrame, NoFrame, StartLive, EndLive,
                    SameLive, KeepFrame
<1>7. CASE Due \/ NotDue \/ Save \/ SaveFails \/ SavedRotation \/ SavedCorrection \/ SavedHighlight
  BY <1>1, <1>7 DEF Due, NotDue, Save, SaveFails, SavedRotation, SavedCorrection, SavedHighlight
<1>8. CASE Teardown
  BY <1>1, <1>8 DEF Teardown, FinalSave, FinalSaveFails, NothingLive, FinalSaved, FinalizeDataset,
                    JoinPushes, FinalPush, FinalPushFails, ReleaseRobot
<1>9. CASE UNCHANGED vars
  BY <1>1, <1>9 DEF vars
<1> QED
  BY <1>2, <1>3, <1>4, <1>5, <1>6, <1>7, <1>8, <1>9 DEF Next, Operator, Main, Turn

(* A transition noted by the listener is valid when the loop takes it:       *)
(* request_transition and consume_transition agree (dagger.py:142, 152).     *)
THEOREM PendingStaysValid == Spec => []PendingValid
<1>1. Init => PendingValid
  BY DEF Init, PendingValid
<1> QED
  BY <1>1, PendingNext, RolloutTypeCorrect, PTL DEF Spec

-------------------------------------------------------------------------------
(* Uploads. While the push thread holds the lock nothing is saved, so what   *)
(* it has read is all there is when it clears needs_push.                    *)

BaseInv ==
  strategy = "base" =>
    /\ main \in {"top", "hardware", "done"}
    /\ queued = 0 /\ pusher = "idle"
    /\ episodes = <<>> /\ buffer = <<>>

PushInv ==
  /\ hub.rows <= Len(episodes)
  /\ pusher = "commit" => snapshot.rows = Len(episodes)
  /\ pusher = "clear" => hub.rows = Len(episodes)
  /\ PushDue
  /\ main \in {"push", "hardware", "done"} => queued = 0 /\ pusher = "idle"
  /\ main \in {"hardware", "done"} /\ PushToHub => hub.rows = Len(episodes)
  /\ BaseInv

LEMMA PushInit1 == Init => PushInv
BY DEF Init, PushInit, PushInv, PushDue, BaseInv, Nothing

LEMMA PushNext == TypeOK /\ PushInv /\ [Next]_vars => PushInv'
<1> SUFFICES ASSUME TypeOK, PushInv, [Next]_vars PROVE PushInv'
  OBVIOUS
<1> USE DEF rest, others, dataVars, pushVars, counters, keyVars, highlightVars, phaseVars
<1>1. CASE UNCHANGED vars
  BY <1>1 DEF PushInv, PushDue, BaseInv, vars
<1>2. CASE Operator
  BY <1>2 DEF Operator, RequestStop, RequestUpload, RequestSave, RequestTransition, PushInv, PushDue,
              BaseInv
<1>3. CASE Pusher
  <2> USE DEF Pusher, PushInv, PushDue, BaseInv
  <2>1. CASE PushBegins
    BY <1>3, <2>1 DEF PushBegins, TypeOK
  <2>2. CASE PushSkipped
    BY <1>3, <2>2 DEF PushSkipped, TypeOK
  <2>3. CASE PushReads
    BY <1>3, <2>3 DEF PushReads, TypeOK, Copy
  <2>4. CASE PushCommits
    BY <1>3, <2>4 DEF PushCommits, TypeOK
  <2>5. CASE PushDone
    BY <1>3, <2>5 DEF PushDone, TypeOK
  <2>6. CASE PushFails
    BY <1>3, <2>6 DEF PushFails, TypeOK
  <2> QED
    BY <1>3, <2>1, <2>2, <2>3, <2>4, <2>5, <2>6 DEF PushThread
<1>4. CASE Turn /\ UNCHANGED strategy
  <2> USE <1>4 DEF PushInv, PushDue, BaseInv
  <2>1. CASE LeaveLoop
    BY <2>1 DEF LeaveLoop, TypeOK, Copies
  <2>2. CASE StartTurn \/ TakeTransition \/ NoTransition
    <3>1. /\ main = "top" /\ main' \in {"upload", "frame", "save"}
          /\ strategy # "base"
          /\ UNCHANGED <<hub, episodes, pusher, snapshot, queued, needsPush>>
      BY <2>2 DEF StartTurn, TakeTransition, NoTransition, GoOn, DAgger, Onward
    <3> QED
      BY <3>1
  <2>3. CASE CheckUpload
    BY <2>3 DEF CheckUpload, SubmitPush
  <2>4. CASE RecordFrame \/ NoFrame
    BY <2>4 DEF RecordFrame, NoFrame, AfterFrame
  <2>5. CASE StartLive \/ EndLive \/ SameLive
    BY <2>5 DEF StartLive, EndLive, SameLive
  <2>6. CASE KeepFrame
    BY <2>6 DEF KeepFrame
  <2>7. CASE Due \/ NotDue
    BY <2>7 DEF Due, NotDue
  <2>8. CASE Save
    <3>1. Len(episodes') = Len(episodes) + 1 /\ pusher = "idle"
      BY <2>8 DEF Save, SaveEpisode, TypeOK
    <3>2. /\ main = "save" /\ main' = "saved"
          /\ UNCHANGED <<hub, pusher, snapshot, queued, needsPush>>
      BY <2>8 DEF Save
    <3> QED
      BY <3>1, <3>2 DEF TypeOK, Copies
  <2>9. CASE SaveFails
    BY <2>9 DEF SaveFails, SaveRaises
  <2>10. CASE SavedRotation
    BY <2>10 DEF SavedRotation, SubmitPush, Rotating
  <2>11. CASE SavedCorrection \/ SavedHighlight
    BY <2>11 DEF SavedCorrection, SavedHighlight
  <2> QED
    BY <2>1, <2>2, <2>3, <2>4, <2>5, <2>6, <2>7, <2>8, <2>9, <2>10, <2>11 DEF Turn
<1>5. CASE Teardown /\ UNCHANGED strategy
  <2> USE <1>5 DEF PushInv, PushDue, BaseInv
  <2>1. CASE FinalSave
    <3>1. Len(episodes') = Len(episodes) + 1 /\ pusher = "idle"
      BY <2>1 DEF FinalSave, SaveEpisode, TypeOK
    <3>2. /\ main = "final" /\ main' = (IF strategy = "highlight" THEN "finalize" ELSE "finalSaved")
          /\ UNCHANGED <<hub, pusher, snapshot, queued, needsPush>>
      BY <2>1 DEF FinalSave
    <3> QED
      BY <3>1, <3>2 DEF TypeOK, Copies
  <2>2. CASE FinalSaveFails
    BY <2>2 DEF FinalSaveFails, SaveRaises
  <2>3. CASE NothingLive \/ FinalSaved \/ JoinPushes \/ FinalPushFails \/ ReleaseRobot
    BY <2>3 DEF NothingLive, FinalSaved, JoinPushes, FinalPushFails, ReleaseRobot
  <2>4. CASE FinalizeDataset
    BY <2>4 DEF FinalizeDataset, Finalize
  <2>5. CASE FinalPush
    <3>1. CASE PushWanted
      BY <2>5, <3>1 DEF FinalPush, Copy, TypeOK
    <3>2. CASE ~PushWanted
      BY <2>5, <3>2 DEF FinalPush, PushWanted, TypeOK, Copies
    <3> QED
      BY <3>1, <3>2
  <2> QED
    BY <2>1, <2>2, <2>3, <2>4, <2>5 DEF Teardown
<1> QED
  BY <1>1, <1>2, <1>3, <1>4, <1>5 DEF Next, Main

LEMMA PushInvariant == Spec => []PushInv
BY PushInit1, PushNext, RolloutTypeCorrect, PTL DEF Spec

(* An episode that is not on the Hub keeps a push due, or is about to        *)
(* (sentry.py:145, dagger.py:541, 826).                                      *)
THEOREM PushStaysDue == Spec => []PushDue
<1>1. PushInv => PushDue
  BY DEF PushInv
<1> QED
  BY <1>1, PushInvariant, PTL

(* A session that ends well with push_to_hub set leaves every episode on the *)
(* Hub, whatever uploads failed on the way (sentry.py:189).                  *)
THEOREM EverythingPushed == Spec => []AllPushed
<1>1. PushInv => AllPushed
  BY DEF PushInv, AllPushed
<1> QED
  BY <1>1, PushInvariant, PTL

-------------------------------------------------------------------------------
(* Frames. In highlight everything is said of the frames dealt with so far.  *)

SoFar == IF main \in {"upload", "record"} THEN tick - 1 ELSE tick

PlaceInv ==
  /\ main = "record" => strategy = "highlight"
  /\ main = "upload" => strategy \in {"highlight", "corrections"}
  /\ main = "rotate" => strategy \in Rotating

(* The account never falls short of the content, and exceeds it only where   *)
(* the number of frames is at its limit.                                     *)
Accounted(r) ==
  /\ Len(r.frames) <= MaxFrames
  /\ Len(r.frames) <= r.bytes
  /\ r.bytes <= MaxBytes
  /\ r.bytes > Len(r.frames) => Len(r.frames) = MaxFrames

HighlightInv ==
  strategy = "highlight" =>
    /\ ~live => buffer = <<>>
    /\ live => ring = Empty
    /\ main \in {"save", "saved"} => live
    /\ main = "saved" => buffer = <<>> /\ SavedUpTo = tick
    /\ Accounted(ring)
    /\ main \in Loop =>
         /\ SavedUpTo + Len(buffer) <= SoFar
         /\ \A k \in DOMAIN buffer : buffer[k].tick = SoFar - Len(buffer) + k
    /\ main \in Loop /\ ~live =>
         /\ Len(ring.frames) = Smaller(SoFar - SavedUpTo, Smaller(MaxFrames, MaxBytes))
         /\ \A k \in DOMAIN ring.frames : ring.frames[k].tick = SoFar - Len(ring.frames) + k

(* Appending to the ring buffer: it grows by a frame up to the lower limit,  *)
(* and then loses the oldest.                                                *)
LEMMA PutKeepsNewest ==
  ASSUME NEW r \in [frames : Seq(Frames), bytes : Nat], NEW f \in Frames, Accounted(r)
  PROVE  LET n == Len(r.frames)
             m == Len(Put(r, f).frames)
         IN  /\ Accounted(Put(r, f))
             /\ m = Smaller(n + 1, Smaller(MaxFrames, MaxBytes))
             /\ \A k \in 1..m : Put(r, f).frames[k] = IF k = m THEN f ELSE r.frames[k + (n + 1 - m)]
<1> DEFINE n == Len(r.frames)
<1>1. n \in Nat /\ r.bytes \in Nat /\ r.frames \in Seq(Frames)
  OBVIOUS
<1>2. CASE r.bytes = MaxBytes
  <2>1. n >= 1
    BY <1>1, <1>2 DEF Accounted
  <2>2. Evicted(r) = 1
    <3>1. r.bytes + 1 > MaxBytes /\ r.bytes + 1 - MaxBytes = 1
      BY <1>1, <1>2
    <3>2. \A x \in Nat : x >= 1 => Smaller(1, x) = 1
      BY DEF Smaller
    <3> QED
      BY <1>1, <2>1, <3>1, <3>2 DEF Evicted
  <2>3. /\ Drop(r.frames, 1) \in Seq(Frames)
        /\ Len(Drop(r.frames, 1)) = n - 1
        /\ \A k \in 1..(n - 1) : Drop(r.frames, 1)[k] = r.frames[k + 1]
    <3>1. \A k \in (1 + 1)..n : r.frames[k] \in Frames
      BY <1>1
    <3>2. /\ SubSeq(r.frames, 1 + 1, n) \in Seq(Frames)
          /\ Len(SubSeq(r.frames, 1 + 1, n)) = (IF 1 + 1 <= n THEN n - (1 + 1) + 1 ELSE 0)
          /\ \A k \in 1..(n - (1 + 1) + 1) : SubSeq(r.frames, 1 + 1, n)[k] = r.frames[1 + 1 + k - 1]
      BY <1>1, <3>1, SubSeqProperties
    <3>0. n \in Nat
      BY <1>1
    <3>3. Len(SubSeq(r.frames, 1 + 1, n)) = n - 1
      <4> HIDE DEF n
      <4> QED
        BY <3>0, <2>1, <3>2
    <3>4. \A k \in 1..(n - 1) : 1 + 1 + k - 1 = k + 1 /\ n - (1 + 1) + 1 = n - 1
      BY <1>1
    <3> QED
      BY <3>2, <3>3, <3>4 DEF Drop
  <2>4. Put(r, f) = [frames |-> Append(Drop(r.frames, 1), f), bytes |-> r.bytes - 1 + 1]
    <3>1. Len(Drop(r.frames, 1)) # MaxFrames
      BY <1>1, <2>1, <2>3 DEF Accounted
    <3> QED
      BY <2>2, <3>1 DEF Put, Push
  <2>5. Len(Put(r, f).frames) = n /\ Put(r, f).bytes = MaxBytes
    BY <1>1, <1>2, <2>3, <2>4
  <2>6. n = Smaller(n + 1, Smaller(MaxFrames, MaxBytes))
    BY <1>1, <1>2, <2>1 DEF Accounted, Smaller
  <2>7. \A k \in 1..n : Put(r, f).frames[k] = IF k = n THEN f ELSE r.frames[k + 1]
    BY <1>1, <2>1, <2>3, <2>4
  <2> QED
    BY <1>1, <1>2, <2>5, <2>6, <2>7 DEF Accounted
<1>3. CASE r.bytes # MaxBytes /\ n = MaxFrames
  <2>1. Evicted(r) = 0 /\ Drop(r.frames, 0) = r.frames
    BY <1>1, <1>3 DEF Evicted, Drop, Accounted
  <2>2. Put(r, f) = [frames |-> Append(Tail(r.frames), f), bytes |-> r.bytes - 0 + 1]
    BY <1>3, <2>1 DEF Put, Push
  <2>3. /\ Tail(r.frames) \in Seq(Frames)
        /\ Len(Tail(r.frames)) = n - 1
        /\ \A k \in 1..(n - 1) : Tail(r.frames)[k] = r.frames[k + 1]
    BY <1>1, <1>3
  <2>4. Len(Put(r, f).frames) = n /\ Put(r, f).bytes = r.bytes + 1
    BY <1>1, <2>2, <2>3
  <2>5. n = Smaller(n + 1, Smaller(MaxFrames, MaxBytes))
    BY <1>1, <1>3 DEF Accounted, Smaller
  <2>6. \A k \in 1..n : Put(r, f).frames[k] = IF k = n THEN f ELSE r.frames[k + 1]
    BY <1>1, <1>3, <2>2, <2>3
  <2>7. Accounted(Put(r, f))
    BY <1>1, <1>3, <2>4 DEF Accounted
  <2> QED
    BY <1>1, <2>4, <2>5, <2>6, <2>7
<1>4. CASE r.bytes # MaxBytes /\ n # MaxFrames
  <2>1. Evicted(r) = 0 /\ Drop(r.frames, 0) = r.frames /\ r.bytes = n /\ n < MaxFrames /\ n < MaxBytes
    BY <1>1, <1>4 DEF Evicted, Drop, Accounted
  <2>2. Put(r, f) = [frames |-> Append(r.frames, f), bytes |-> r.bytes - 0 + 1]
    BY <1>4, <2>1 DEF Put, Push
  <2>3. Len(Put(r, f).frames) = n + 1 /\ Put(r, f).bytes = n + 1
    BY <1>1, <2>1, <2>2
  <2>4. n + 1 = Smaller(n + 1, Smaller(MaxFrames, MaxBytes))
    BY <1>1, <2>1 DEF Smaller
  <2>5. \A k \in 1..(n + 1) : Put(r, f).frames[k] = IF k = n + 1 THEN f ELSE r.frames[k + 0]
    BY <1>1, <2>2
  <2> QED
    BY <1>1, <2>1, <2>3, <2>4, <2>5 DEF Accounted
<1> QED
  BY <1>2, <1>3, <1>4

(* What has been saved keeps its place, what is saved comes last.           *)
LEMMA SaveFacts ==
  ASSUME TypeOK, SaveEpisode
  PROVE  /\ Len(episodes') = Len(episodes) + 1
         /\ \A i \in 1..Len(episodes) : episodes'[i] = episodes[i]
         /\ episodes'[Len(episodes) + 1] = buffer
         /\ \A i \in 1..(Len(episodes) + 1) : SavedBefore(i)' = SavedBefore(i)
         /\ SavedUpTo' = buffer[Len(buffer)].tick
         /\ buffer' = <<>> /\ buffer # <<>>
<1>1. /\ Len(episodes') = Len(episodes) + 1
      /\ \A i \in 1..Len(episodes) : episodes'[i] = episodes[i]
      /\ episodes'[Len(episodes) + 1] = buffer
      /\ Len(episodes) \in Nat
  BY DEF SaveEpisode, TypeOK
<1>2. \A i \in 1..(Len(episodes) + 1) : SavedBefore(i)' = SavedBefore(i)
  BY <1>1 DEF SavedBefore
<1>3. SavedUpTo' = buffer[Len(buffer)].tick
  BY <1>1 DEF SavedUpTo, SavedBefore
<1> QED
  BY <1>1, <1>2, <1>3 DEF SaveEpisode

LEMMA SavedType ==
  ASSUME TypeOK, NothingLost
  PROVE  SavedUpTo \in Nat
<1>1. CASE Len(episodes) = 0
  BY <1>1 DEF SavedUpTo, SavedBefore
<1>2. CASE Len(episodes) # 0
  <2> DEFINE e == episodes[Len(episodes)]
  <2>1. Len(episodes) \in DOMAIN episodes /\ e \in Seq(Frames)
    BY <1>2 DEF TypeOK
  <2>2. e # <<>>
    BY <2>1 DEF NothingLost
  <2>3. e[Len(e)] \in Frames
    BY <2>1, <2>2
  <2> QED
    BY <1>2, <2>1, <2>3 DEF SavedUpTo, SavedBefore, Frames, TypeOK
<1> QED
  BY <1>1, <1>2

LEMMA FollowsAppend ==
  ASSUME NEW e \in Seq(Frames), NEW f \in Frames, NEW n \in Nat, Follows(e, n),
         IF e = <<>> THEN f.tick = n + 1 \/ (strategy = "highlight" /\ f.tick > n)
                     ELSE f.tick = e[1].tick + Len(e)
  PROVE  Follows(Append(e, f), n)
<1>1. CASE e = <<>>
  <2>1. Append(e, f) = <<f>>
    BY <1>1
  <2> QED
    BY <1>1, <2>1 DEF Follows, Contiguous, Frames
<1>2. CASE e # <<>>
  <2>1. /\ Len(Append(e, f)) = Len(e) + 1
        /\ \A k \in 1..Len(e) : Append(e, f)[k] = e[k]
        /\ Append(e, f)[Len(e) + 1] = f
        /\ Len(e) >= 1
    BY <1>2
  <2>2. \A k \in DOMAIN Append(e, f) : Append(e, f)[k].tick = Append(e, f)[1].tick + k - 1
    BY <1>2, <2>1 DEF Follows, Contiguous, Frames
  <2> QED
    BY <1>2, <2>1, <2>2 DEF Follows, Contiguous
<1> QED
  BY <1>1, <1>2

LostInv == NothingLost /\ HighlightInv /\ PlaceInv

LEMMA LostInit == Init => LostInv
<1> SUFFICES ASSUME Init PROVE LostInv
  OBVIOUS
<1>1. episodes = <<>> /\ buffer = <<>> /\ tick = 0 /\ main = "top" /\ ring = Empty /\ live = FALSE
  BY DEF Init, PushInit
<1>2. SavedUpTo = 0
  BY <1>1 DEF SavedUpTo, SavedBefore
<1>3. NothingLost
  BY <1>1, <1>2 DEF NothingLost, Follows, AfterSession
<1>4. HighlightInv
  BY <1>1, <1>2 DEF HighlightInv, Accounted, Empty, SoFar, Smaller, Loop
<1> QED
  BY <1>1, <1>3, <1>4 DEF LostInv, PlaceInv

(* A step which moves no frame. In the loop it must leave the frames dealt   *)
(* with as they are; it leaves highlight's recording alone, and after the    *)
(* session the buffer has been saved.                                        *)
LEMMA QuietStep ==
  ASSUME LostInv, UNCHANGED <<episodes, buffer, strategy, ring, live>>,
         tick' = tick \/ (strategy = "highlight" /\ main' = "upload"),
         strategy = "highlight" /\ main' \in Loop => main \in Loop /\ SoFar' = SoFar,
         main' \in {"save", "saved"} => main' = main \/ strategy # "highlight",
         usable' /\ main' \in AfterSession => buffer = <<>>,
         PlaceInv'
  PROVE  LostInv'
<1>1. SavedUpTo' = SavedUpTo /\ \A i : SavedBefore(i)' = SavedBefore(i)
  BY DEF SavedUpTo, SavedBefore
<1>2. \A e, n : Follows(e, n)' <=> Follows(e, n)
  BY DEF Follows, Contiguous
<1>3. NothingLost'
  BY <1>1, <1>2 DEF LostInv, NothingLost, Follows, Contiguous, AfterSession
<1>4. HighlightInv'
  BY <1>1 DEF LostInv, HighlightInv, Accounted
<1> QED
  BY <1>3, <1>4 DEF LostInv

LEMMA QuietSteps ==
  ASSUME TypeOK, LostInv, BaseInv,
         \/ Operator \/ Pusher \/ UNCHANGED vars
         \/ /\ UNCHANGED strategy
            /\ \/ LeaveLoop \/ StartTurn \/ TakeTransition \/ NoTransition \/ CheckUpload \/ NoFrame
               \/ Due \/ NotDue \/ SaveFails \/ SavedRotation \/ SavedCorrection
               \/ FinalSaveFails \/ NothingLive \/ FinalSaved \/ FinalizeDataset
               \/ JoinPushes \/ FinalPush \/ FinalPushFails \/ ReleaseRobot
  PROVE  LostInv'
<1> DEFINE Still == UNCHANGED <<episodes, buffer, strategy, ring, live>>
           SameTick == tick' = tick \/ (strategy = "highlight" /\ main' = "upload")
           SameLoop == strategy = "highlight" /\ main' \in Loop => main \in Loop /\ SoFar' = SoFar
           SameSave == main' \in {"save", "saved"} => main' = main \/ strategy # "highlight"
           SavedAll == usable' /\ main' \in AfterSession => buffer = <<>>
<1> SUFFICES Still /\ tick' = tick /\ SameLoop /\ SameSave /\ SavedAll /\ PlaceInv'
  <2>1. SameTick
    BY Zenon
  <2> QED
    BY <2>1, QuietStep
<1>a. PlaceInv /\ NothingLost /\ HighlightInv
  BY DEF LostInv
<1> USE DEF rest, others, dataVars, pushVars, counters, keyVars, highlightVars, phaseVars
<1>1. CASE Operator \/ Pusher \/ UNCHANGED vars
  <2>1. Still /\ UNCHANGED <<tick, usable, main>>
    BY <1>1 DEF Operator, RequestStop, RequestUpload, RequestSave, RequestTransition, Pusher, vars
  <2> QED
    BY <1>a, <2>1 DEF NothingLost, PlaceInv, SoFar
<1>2. CASE UNCHANGED strategy /\ (LeaveLoop \/ StartTurn \/ NoFrame \/ Due \/ NotDue)
  <2>1. Still /\ UNCHANGED <<tick, usable>>
    BY <1>2 DEF LeaveLoop, StartTurn, NoFrame, Due, NotDue
  <2>2. CASE LeaveLoop
    BY <1>a, <2>1, <2>2 DEF LeaveLoop, BaseInv, PlaceInv, Loop, AfterSession
  <2>3. CASE StartTurn \/ NoFrame
    BY <1>a, <2>1, <2>3 DEF StartTurn, GoOn, NoFrame, AfterFrame, PlaceInv, Loop, AfterSession, SoFar
  <2>4. CASE Due \/ NotDue
    BY <1>a, <2>1, <2>4 DEF Due, NotDue, PlaceInv, Loop, AfterSession, SoFar, Rotating
  <2> QED
    BY <1>2, <2>2, <2>3, <2>4
<1>3. CASE UNCHANGED strategy /\ (TakeTransition \/ NoTransition)
  <2>1. Still /\ UNCHANGED <<tick, usable>>
    BY <1>3 DEF TakeTransition, NoTransition
  <2>2. strategy # "highlight" /\ main' \in {"save", "upload", "frame"} /\ (main' = "upload" => strategy = "corrections")
    BY <1>3 DEF TakeTransition, NoTransition, DAgger, Onward
  <2> QED
    BY <2>1, <2>2 DEF PlaceInv, AfterSession, Loop
<1>4. CASE UNCHANGED strategy /\ CheckUpload
  <2>1. Still /\ UNCHANGED <<tick, usable>>
    BY <1>4 DEF CheckUpload
  <2>2. main = "upload" /\ main' = (IF strategy = "highlight" THEN "record" ELSE "frame")
    BY <1>4 DEF CheckUpload
  <2> QED
    BY <2>1, <2>2 DEF PlaceInv, AfterSession, Loop, SoFar
<1>5. CASE UNCHANGED strategy /\ (SavedRotation \/ SavedCorrection)
  <2>1. Still /\ UNCHANGED <<tick, usable>>
    BY <1>5 DEF SavedRotation, SavedCorrection
  <2>2. strategy # "highlight" /\ main' \in {"top", "upload"} /\ (main' = "upload" => strategy = "corrections")
    BY <1>5 DEF SavedRotation, SavedCorrection, Rotating
  <2> QED
    BY <2>1, <2>2 DEF PlaceInv, AfterSession, Loop
<1>6. CASE UNCHANGED strategy /\ (SaveFails \/ FinalSaveFails)
  <2>1. Still /\ UNCHANGED tick
    BY <1>6 DEF SaveFails, FinalSaveFails, SaveRaises
  <2>2. usable' => buffer = <<>>
    BY <1>6 DEF SaveFails, FinalSaveFails, SaveRaises
  <2>3. main' \in {"final", "finalize"}
    BY <1>6 DEF SaveFails, FinalSaveFails
  <2> QED
    BY <2>1, <2>2, <2>3 DEF PlaceInv, Loop
<1>7. CASE UNCHANGED strategy /\ NothingLive
  BY <1>a, <1>7 DEF NothingLive, HighlightInv, PlaceInv, Loop
<1>8. CASE UNCHANGED strategy /\ \/ FinalSaved \/ FinalizeDataset \/ JoinPushes \/ FinalPush
                                 \/ FinalPushFails \/ ReleaseRobot
  <2>1. Still /\ UNCHANGED <<tick, usable>>
    BY <1>8 DEF FinalSaved, FinalizeDataset, Finalize, JoinPushes, FinalPush, FinalPushFails, ReleaseRobot
  <2>2. /\ main \in {"finalSaved", "finalize", "join", "push", "hardware"}
        /\ main' \in {"finalize", "join", "push", "hardware", "raised", "done"}
    BY <1>8 DEF FinalSaved, FinalizeDataset, JoinPushes, FinalPush, FinalPushFails, ReleaseRobot
  <2> QED
    BY <1>a, <2>1, <2>2 DEF NothingLost, PlaceInv, Loop, AfterSession, Places
<1> QED
  BY <1>1, <1>2, <1>3, <1>4, <1>5, <1>6, <1>7, <1>8

LEMMA RecordSteps ==
  ASSUME TypeOK, LostInv, UNCHANGED strategy, RecordFrame
  PROVE  LostInv'
<1>a. PlaceInv /\ NothingLost
  BY DEF LostInv
<1>b. /\ main = "frame" /\ strategy # "highlight" /\ main' \in {"rotate", "top"}
      /\ main' = "rotate" => strategy \in Rotating
      /\ UNCHANGED <<episodes, ring, live, usable>>
  BY DEF RecordFrame, Recording, AfterFrame, highlightVars
<1>1. CASE recordTick = 0
  <2> DEFINE f == Frame(tick + 1)
  <2>1. buffer' = Append(buffer, f) /\ tick' = tick + 1
    BY <1>1 DEF RecordFrame
  <2>2. f \in Frames /\ f.tick = tick + 1
    <3>1. tick + 1 \in Nat
      BY DEF TypeOK
    <3> QED
      BY <3>1, FrameType DEF Frame
  <2>3. SavedUpTo \in Nat /\ buffer \in Seq(Frames) /\ tick \in Nat
    BY <1>a, SavedType DEF TypeOK
  <2>4. SavedUpTo' = SavedUpTo /\ \A i : SavedBefore(i)' = SavedBefore(i)
    BY <1>b DEF SavedUpTo, SavedBefore
  <2>5. Follows(Append(buffer, f), SavedUpTo)
    <3>1. Follows(buffer, SavedUpTo) /\ tick = SavedUpTo + Len(buffer)
      BY <1>a, <1>b DEF NothingLost
    <3>2. buffer = <<>> => f.tick = SavedUpTo + 1
      BY <2>2, <2>3, <3>1
    <3>3. buffer # <<>> => buffer[1].tick = SavedUpTo + 1
      BY <1>b, <3>1 DEF Follows
    <3>4. buffer # <<>> => f.tick = buffer[1].tick + Len(buffer)
      BY <2>2, <2>3, <3>1, <3>3
    <3> HIDE DEF f
    <3> QED
      BY <2>2, <2>3, <3>1, <3>2, <3>4, FollowsAppend
  <2>6. NothingLost'
    <3>1. Follows(buffer, SavedUpTo)'
      BY <1>b, <2>1, <2>4, <2>5 DEF Follows, Contiguous
    <3>2. tick' = SavedUpTo' + Len(buffer')
      BY <1>a, <1>b, <2>1, <2>3, <2>4 DEF NothingLost
    <3>3. \A i \in DOMAIN episodes' : episodes'[i] # <<>> /\ Follows(episodes[i], SavedBefore(i))'
      BY <1>a, <1>b, <2>4 DEF NothingLost, Follows, Contiguous
    <3> QED
      BY <1>b, <3>1, <3>2, <3>3 DEF NothingLost, AfterSession, Loop
  <2> QED
    BY <1>b, <2>6 DEF LostInv, HighlightInv, PlaceInv
<1>2. CASE recordTick # 0
  <2>1. UNCHANGED <<episodes, buffer, strategy, ring, live>> /\ UNCHANGED tick
    BY <1>2, <1>b DEF RecordFrame
  <2>2. PlaceInv' /\ main' \notin AfterSession /\ main' \notin {"save", "saved"}
    BY <1>b DEF PlaceInv, AfterSession, Loop
  <2>3. /\ tick' = tick \/ (strategy = "highlight" /\ main' = "upload")
        /\ strategy = "highlight" /\ main' \in Loop => main \in Loop /\ SoFar' = SoFar
        /\ main' \in {"save", "saved"} => main' = main \/ strategy # "highlight"
    BY <1>b, <2>1, <2>2
  <2>4. usable' /\ main' \in AfterSession => buffer = <<>>
    BY <2>2, Zenon
  <2> QED
    BY <2>1, <2>2, <2>3, <2>4, QuietStep
<1> QED
  BY <1>1, <1>2

(* A step of highlight on frames: what it must show of the frames kept.     *)
LEMMA HighlightStep ==
  ASSUME NothingLost, UNCHANGED <<episodes, strategy>>, strategy = "highlight",
         main' \in Loop, PlaceInv', HighlightInv', Follows(buffer', SavedUpTo)
  PROVE  LostInv'
<1>1. SavedUpTo' = SavedUpTo /\ \A i : SavedBefore(i)' = SavedBefore(i)
  BY DEF SavedUpTo, SavedBefore
<1>2. NothingLost'
  BY <1>1 DEF NothingLost, Follows, Contiguous, AfterSession
<1> QED
  BY <1>2 DEF LostInv

LEMMA LiveSteps ==
  ASSUME TypeOK, LostInv, UNCHANGED strategy, StartLive \/ EndLive \/ SameLive \/ KeepFrame \/ SavedHighlight
  PROVE  LostInv'
<1>a. PlaceInv /\ NothingLost /\ HighlightInv /\ strategy = "highlight"
  BY DEF LostInv, PlaceInv, StartLive, EndLive, SameLive, KeepFrame, SavedHighlight
<1>b. /\ SavedUpTo \in Nat /\ buffer \in Seq(Frames) /\ tick \in Nat /\ Len(buffer) \in Nat
      /\ ring \in [frames : Seq(Frames), bytes : Nat] /\ ring.frames \in Seq(Frames)
      /\ Len(ring.frames) \in Nat /\ live \in BOOLEAN
  BY <1>a, SavedType DEF TypeOK
<1>c. UNCHANGED episodes => SavedUpTo' = SavedUpTo
  BY DEF SavedUpTo, SavedBefore
<1> USE DEF dataVars, highlightVars
<1>1. CASE StartLive
  <2>1. /\ main = "frame" /\ main' = "upload" /\ ~live /\ live' = TRUE /\ tick' = tick + 1
        /\ buffer' = buffer \o ring.frames /\ ring' = Empty
        /\ UNCHANGED <<episodes, strategy>>
    BY <1>1 DEF StartLive
  <2>2. buffer = <<>> /\ SoFar = tick
    BY <1>a, <2>1 DEF HighlightInv, SoFar
  <2>3. buffer' = ring.frames
    BY <1>b, <2>1, <2>2
  <2>4. SoFar' = tick
    BY <1>b, <2>1 DEF SoFar
  <2>5. /\ Len(ring.frames) = Smaller(tick - SavedUpTo, Smaller(MaxFrames, MaxBytes))
        /\ \A k \in DOMAIN ring.frames : ring.frames[k].tick = tick - Len(ring.frames) + k
        /\ SavedUpTo <= tick
    BY <1>a, <1>b, <2>1, <2>2 DEF HighlightInv, Loop
  <2>6. SavedUpTo + Len(ring.frames) <= tick
    BY <1>b, <2>5 DEF Smaller
  <2>7. Follows(buffer', SavedUpTo)
    <3>1. CASE ring.frames = <<>>
      BY <2>3, <3>1 DEF Follows
    <3>2. CASE ring.frames # <<>>
      <4>1. 1 \in DOMAIN ring.frames
        BY <1>b, <3>2
      <4>2. ring.frames[1].tick = tick - Len(ring.frames) + 1
        BY <2>5, <4>1
      <4>3. \A k \in DOMAIN ring.frames : ring.frames[k].tick = ring.frames[1].tick + k - 1
        BY <1>b, <2>5, <4>2
      <4> QED
        BY <1>a, <1>b, <2>3, <2>6, <4>2, <4>3 DEF Follows, Contiguous
    <3> QED
      BY <3>1, <3>2
  <2>8. HighlightInv'
    BY <1>c, <2>1, <2>3, <2>4, <2>5, <2>6 DEF HighlightInv, Accounted, Empty
  <2> QED
    BY <1>a, <2>1, <2>7, <2>8, HighlightStep DEF Loop, PlaceInv
<1>2. CASE EndLive
  <2> DEFINE f == Frame(tick + 1)
  <2>1. /\ main = "frame" /\ main' = "save" /\ live /\ live' = live /\ tick' = tick + 1
        /\ buffer' = Append(buffer, f) /\ ring' = ring
        /\ UNCHANGED <<episodes, strategy>>
    BY <1>2 DEF EndLive
  <2>2. SoFar = tick /\ SoFar' = tick + 1
    BY <2>1 DEF SoFar
  <2>3. f \in Frames /\ f.tick = tick + 1
    <3>1. tick + 1 \in Nat
      BY DEF TypeOK
    <3> QED
      BY <3>1, FrameType DEF Frame
  <2>4. SavedUpTo + Len(buffer) <= tick /\ \A k \in DOMAIN buffer : buffer[k].tick = tick - Len(buffer) + k
    BY <1>a, <2>1, <2>2 DEF HighlightInv, Loop
  <2>5. Follows(buffer', SavedUpTo)
    <3>1. Follows(buffer, SavedUpTo)
      BY <1>a DEF NothingLost
    <3>2. buffer = <<>> => f.tick > SavedUpTo
      BY <1>b, <2>3, <2>4
    <3>3. buffer # <<>> => f.tick = buffer[1].tick + Len(buffer)
      BY <1>b, <2>3, <2>4
    <3> HIDE DEF f
    <3> QED
      BY <1>a, <1>b, <2>1, <2>3, <3>1, <3>2, <3>3, FollowsAppend
  <2>6. \A k \in DOMAIN buffer' : buffer'[k].tick = tick + 1 - Len(buffer') + k
    <3>1. f \in Frames /\ f.tick = tick + 1 /\ buffer' = Append(buffer, f)
      BY <2>1, <2>3
    <3> HIDE DEF f
    <3>2. /\ Len(buffer') = Len(buffer) + 1 /\ DOMAIN buffer' = 1..(Len(buffer) + 1)
          /\ \A k \in 1..Len(buffer) : buffer'[k] = buffer[k]
          /\ buffer'[Len(buffer) + 1] = f
      BY <1>b, <3>1
    <3>3. \A k \in 1..Len(buffer) : buffer[k].tick = tick - Len(buffer) + k
      BY <1>b, <2>4
    <3> QED
      BY <1>b, <3>1, <3>2, <3>3
  <2>7. HighlightInv'
    <3>1. Len(buffer') = Len(buffer) + 1
      BY <1>b, <2>1
    <3> QED
      BY <1>a, <1>b, <1>c, <2>1, <2>2, <2>4, <2>6, <3>1 DEF HighlightInv, Accounted
  <2> QED
    BY <1>a, <2>1, <2>5, <2>7, HighlightStep DEF Loop, PlaceInv
<1>3. CASE SameLive
  <2>1. /\ main = "frame" /\ main' = "upload" /\ tick' = tick + 1
        /\ UNCHANGED <<episodes, buffer, strategy, ring, live>>
    BY <1>3 DEF SameLive
  <2> QED
    BY <1>a, <1>b, <2>1, QuietStep DEF SoFar, Loop, AfterSession, PlaceInv
<1>4. CASE KeepFrame
  <2> DEFINE f == Frame(tick)
  <2>1. /\ main = "record" /\ main' = "top" /\ live' = live /\ tick' = tick
        /\ UNCHANGED <<episodes, strategy>>
    BY <1>4 DEF KeepFrame, counters
  <2>2. SoFar = tick - 1 /\ SoFar' = tick
    BY <2>1 DEF SoFar
  <2>3. f \in Frames /\ f.tick = tick
    BY FrameType DEF Frame, TypeOK
  <2>4. /\ SavedUpTo + Len(buffer) <= tick - 1
        /\ \A k \in DOMAIN buffer : buffer[k].tick = tick - 1 - Len(buffer) + k
    BY <1>a, <2>1, <2>2 DEF HighlightInv, Loop
  <2>5. CASE live
    <3>0. buffer' = Append(buffer, f) /\ ring' = ring
      BY <1>4, <2>5 DEF KeepFrame
    <3>1. Follows(buffer', SavedUpTo)
      <4>1. Follows(buffer, SavedUpTo)
        BY <1>a DEF NothingLost
      <4>2. buffer = <<>> => f.tick > SavedUpTo
        BY <1>b, <2>3, <2>4
      <4>3. buffer # <<>> => f.tick = buffer[1].tick + Len(buffer)
        BY <1>b, <2>3, <2>4
      <4> HIDE DEF f
      <4> QED
        BY <1>a, <1>b, <2>3, <3>0, <4>1, <4>2, <4>3, FollowsAppend
    <3>2. \A k \in DOMAIN buffer' : buffer'[k].tick = tick - Len(buffer') + k
      <4>1. f \in Frames /\ f.tick = tick /\ buffer' = Append(buffer, f)
        BY <2>3, <3>0
      <4> HIDE DEF f
      <4>2. /\ Len(buffer') = Len(buffer) + 1 /\ DOMAIN buffer' = 1..(Len(buffer) + 1)
            /\ \A k \in 1..Len(buffer) : buffer'[k] = buffer[k]
            /\ buffer'[Len(buffer) + 1] = f
        BY <1>b, <4>1
      <4>3. \A k \in 1..Len(buffer) : buffer[k].tick = tick - 1 - Len(buffer) + k
        BY <1>b, <2>4
      <4> QED
        BY <1>b, <4>1, <4>2, <4>3
    <3>3. HighlightInv'
      <4>1. Len(buffer') = Len(buffer) + 1
        BY <1>b, <3>0
      <4> QED
        BY <1>a, <1>b, <1>c, <2>1, <2>2, <2>4, <2>5, <3>0, <3>2, <4>1 DEF HighlightInv, Accounted
    <3> QED
      BY <1>a, <2>1, <3>1, <3>3, HighlightStep DEF Loop, PlaceInv
  <2>6. CASE ~live
    <3>0. ring' = Put(ring, f) /\ buffer' = buffer /\ buffer = <<>>
      BY <1>a, <1>4, <2>6 DEF KeepFrame, HighlightInv
    <3> DEFINE n == Len(ring.frames)
               m == Len(ring'.frames)
    <3>1. Accounted(ring)
      BY <1>a DEF HighlightInv
    <3>2. /\ Accounted(ring')
          /\ m = Smaller(n + 1, Smaller(MaxFrames, MaxBytes))
          /\ \A k \in 1..m : ring'.frames[k] = IF k = m THEN f ELSE ring.frames[k + (n + 1 - m)]
      <4> HIDE DEF f
      <4> QED
        BY <1>b, <2>3, <3>0, <3>1, PutKeepsNewest
    <3>3. /\ n = Smaller(tick - 1 - SavedUpTo, Smaller(MaxFrames, MaxBytes))
          /\ \A k \in DOMAIN ring.frames : ring.frames[k].tick = tick - 1 - n + k
          /\ SavedUpTo <= tick - 1
      BY <1>a, <1>b, <2>1, <2>2, <2>4, <2>6 DEF HighlightInv, Loop
    <3>4. m = Smaller(tick - SavedUpTo, Smaller(MaxFrames, MaxBytes))
      <4> HIDE DEF n, m
      <4> QED
        BY <1>b, <3>2, <3>3 DEF Smaller
    <3>5. ring' \in [frames : Seq(Frames), bytes : Nat]
      BY <1>b, <2>3, <3>0, PutType
    <3>6. ring'.frames \in Seq(Frames) /\ m \in Nat /\ DOMAIN ring'.frames = 1..m
      BY <3>5
    <3>7. \A k \in DOMAIN ring'.frames : ring'.frames[k].tick = tick - m + k
      <4>1. n \in Nat /\ m <= n + 1 /\ n <= m
        BY <1>b, <3>2, <3>3, <3>4 DEF Smaller
      <4> SUFFICES ASSUME NEW k \in 1..m PROVE ring'.frames[k].tick = tick - m + k
        BY <3>6
      <4>2. CASE k = m
        <5>1. ring'.frames[k] = f
          BY <3>2, <4>2
        <5>2. tick - m + k = tick /\ f.tick = tick
          BY <1>b, <2>3, <3>6, <4>2
        <5> QED
          BY <5>1, <5>2
      <4>3. CASE k # m
        <5>1. k + (n + 1 - m) \in 1..n
          <6>1. m \in Nat /\ n \in Nat /\ m <= n + 1 /\ n <= m /\ k \in 1..m /\ k # m
            BY <3>6, <4>1, <4>3
          <6> HIDE DEF n, m
          <6> QED
            BY <6>1
        <5>2. ring'.frames[k] = ring.frames[k + (n + 1 - m)]
          BY <3>2, <4>3
        <5>3. ring.frames[k + (n + 1 - m)].tick = tick - 1 - n + (k + (n + 1 - m))
          BY <1>b, <3>3, <5>1
        <5>4. tick - 1 - n + (k + (n + 1 - m)) = tick - m + k
          BY <1>b, <3>6, <4>1
        <5> QED
          BY <5>2, <5>3, <5>4
      <4> QED
        BY <4>2, <4>3
    <3>8. HighlightInv'
      BY <1>a, <1>b, <1>c, <2>1, <2>2, <2>4, <2>6, <3>0, <3>2, <3>4, <3>7 DEF HighlightInv
    <3>9. Follows(buffer', SavedUpTo)
      BY <3>0 DEF Follows
    <3> QED
      BY <1>a, <2>1, <3>8, <3>9, HighlightStep DEF Loop, PlaceInv
  <2> QED
    BY <2>5, <2>6
<1>5. CASE SavedHighlight
  <2>1. /\ main = "saved" /\ main' = "top" /\ live' = FALSE
        /\ UNCHANGED <<episodes, buffer, ring, tick, strategy>>
    BY <1>5 DEF SavedHighlight, counters
  <2>2. buffer = <<>> /\ SavedUpTo = tick /\ ring = Empty
    BY <1>a, <2>1 DEF HighlightInv
  <2>3. HighlightInv'
    BY <1>b, <1>c, <2>1, <2>2 DEF HighlightInv, Accounted, Empty, SoFar, Smaller
  <2>4. Follows(buffer', SavedUpTo)
    BY <2>1, <2>2 DEF Follows
  <2> QED
    BY <1>a, <2>1, <2>3, <2>4, HighlightStep DEF Loop, PlaceInv
<1> QED
  BY <1>1, <1>2, <1>3, <1>4, <1>5

LEMMA SaveSteps ==
  ASSUME TypeOK, LostInv, UNCHANGED strategy, Save \/ FinalSave
  PROVE  LostInv'
<1>a. PlaceInv /\ NothingLost /\ HighlightInv /\ SaveEpisode
  BY DEF LostInv, Save, FinalSave
<1>b. /\ UNCHANGED <<tick, ring, live, strategy>>
      /\ (main = "save" /\ main' = "saved") \/ (main = "final" /\ main' \in {"finalize", "finalSaved"})
      /\ strategy = "highlight" => live
  <2>1. CASE Save
    <3>1. strategy = "highlight" => live
      BY <1>a, <2>1 DEF Save, HighlightInv
    <3>2. UNCHANGED <<tick, ring, live, strategy>>
      BY <2>1 DEF Save, counters, highlightVars
    <3>3. main = "save" /\ main' = "saved"
      BY <2>1 DEF Save
    <3> QED
      BY <3>1, <3>2, <3>3, Zenon
  <2>2. CASE FinalSave
    BY <1>a, <2>2 DEF FinalSave, counters, highlightVars
  <2> QED
    BY <2>1, <2>2
<1>c. /\ SavedUpTo \in Nat /\ buffer \in Seq(Frames) /\ tick \in Nat /\ Len(buffer) \in Nat
      /\ Len(episodes) \in Nat /\ DOMAIN episodes = 1..Len(episodes) /\ episodes' \in Seq(Seq(Frames))
  <2>1. TypeOK'
    BY TypeNext DEF Next, Main, Turn, Teardown
  <2> QED
    BY <1>a, <2>1, SavedType DEF TypeOK
<1>d. /\ Len(episodes') = Len(episodes) + 1
      /\ \A i \in 1..Len(episodes) : episodes'[i] = episodes[i]
      /\ episodes'[Len(episodes) + 1] = buffer
      /\ \A i \in 1..(Len(episodes) + 1) : SavedBefore(i)' = SavedBefore(i)
      /\ SavedUpTo' = buffer[Len(buffer)].tick
      /\ buffer' = <<>> /\ buffer # <<>>
  BY <1>a, SaveFacts
<1>1. \A i \in DOMAIN episodes' : episodes'[i] # <<>> /\ Follows(episodes[i], SavedBefore(i))'
  <2> SUFFICES ASSUME NEW i \in DOMAIN episodes'
               PROVE  episodes'[i] # <<>> /\ Follows(episodes[i], SavedBefore(i))'
    OBVIOUS
  <2>1. i \in 1..(Len(episodes) + 1)
    BY <1>c, <1>d
  <2>2. CASE i = Len(episodes) + 1
    BY <1>a, <1>b, <1>d, <2>1, <2>2 DEF NothingLost, SavedUpTo, Follows, Contiguous
  <2>3. CASE i \in 1..Len(episodes)
    <3>1. episodes[i] # <<>> /\ Follows(episodes[i], SavedBefore(i))
      BY <1>a, <1>c, <2>3 DEF NothingLost
    <3>2. episodes'[i] = episodes[i] /\ SavedBefore(i)' = SavedBefore(i) /\ strategy' = strategy
      BY <1>b, <1>d, <2>1, <2>3
    <3> QED
      BY <3>1, <3>2 DEF Follows, Contiguous
  <2> QED
    BY <1>c, <2>1, <2>2, <2>3
<1>2. strategy # "highlight" => tick = SavedUpTo'
  <2> SUFFICES ASSUME strategy # "highlight" PROVE tick = SavedUpTo'
    OBVIOUS
  <2>1. Follows(buffer, SavedUpTo) /\ tick = SavedUpTo + Len(buffer)
    BY <1>a DEF NothingLost
  <2>2. buffer[1].tick = SavedUpTo + 1 /\ Len(buffer) \in DOMAIN buffer
    BY <1>c, <1>d, <2>1 DEF Follows
  <2>3. buffer[Len(buffer)].tick = buffer[1].tick + Len(buffer) - 1
    BY <1>d, <2>1, <2>2 DEF Follows, Contiguous
  <2> QED
    BY <1>c, <1>d, <2>1, <2>2, <2>3
<1>3. NothingLost'
  BY <1>b, <1>c, <1>d, <1>1, <1>2 DEF NothingLost, Follows
<1>4. HighlightInv'
  <2>1. CASE main = "save" /\ strategy = "highlight"
    <3>1. /\ \A k \in DOMAIN buffer : buffer[k].tick = tick - Len(buffer) + k
          /\ SavedUpTo + Len(buffer) <= tick
      BY <1>a, <2>1 DEF HighlightInv, Loop, SoFar
    <3>2. Len(buffer) \in DOMAIN buffer
      BY <1>c, <1>d
    <3>3. SavedUpTo' = tick
      BY <1>c, <1>d, <3>1, <3>2
    <3>4. SoFar' = tick
      BY <1>b, <2>1 DEF SoFar
    <3> QED
      BY <1>a, <1>b, <1>c, <1>d, <2>1, <3>3, <3>4 DEF HighlightInv, Accounted
  <2>2. CASE main = "final"
    BY <1>a, <1>b, <1>d, <2>2 DEF HighlightInv, Accounted, Loop
  <2> QED
    BY <1>b, <2>1, <2>2 DEF HighlightInv
<1> QED
  BY <1>b, <1>3, <1>4 DEF LostInv, PlaceInv

LEMMA LostInvariant == Spec => []LostInv
<1>1. TypeOK /\ BaseInv /\ LostInv /\ [Next]_vars => LostInv'
  BY QuietSteps, RecordSteps, LiveSteps, SaveSteps DEF Next, Main, Turn, Teardown
<1>2. PushInv => BaseInv
  BY DEF PushInv
<1> QED
  BY <1>1, <1>2, LostInit, PushInvariant, RolloutTypeCorrect, PTL DEF Spec

(* Nothing recorded is lost or saved twice, whatever the operator, the timer *)
(* and the uploads do, short of a failing disk or encoder.                   *)
THEOREM NothingIsLost == Spec => []NothingLost
<1>1. LostInv => NothingLost
  BY DEF LostInv
<1> QED
  BY <1>1, LostInvariant, PTL

(* The ring buffer holds the latest frames, as many as its two limits allow, *)
(* whatever their sizes, though its account of bytes is wrong.               *)
THEOREM RingIsNewest == Spec => []RingKeepsNewest
<1>1. LostInv => RingKeepsNewest
  BY DEF LostInv, HighlightInv, RingKeepsNewest, SoFar, Loop
<1> QED
  BY <1>1, LostInvariant, PTL

-------------------------------------------------------------------------------
(* The abstract log of episodes.                                            *)

LEMMA SaveLogged ==
  ASSUME TypeOK, NothingLost, SaveEpisode, UNCHANGED hub
  PROVE  Log!Save
<1>a. /\ Len(episodes') = Len(episodes) + 1
      /\ \A i \in 1..Len(episodes) : episodes'[i] = episodes[i]
      /\ episodes'[Len(episodes) + 1] = buffer
      /\ buffer # <<>>
  BY SaveFacts
<1>b. /\ episodes \in Seq(Seq(Frames)) /\ Len(episodes) \in Nat /\ buffer \in Seq(Frames)
      /\ episodes' = Append(episodes, buffer)
  BY DEF TypeOK, SaveEpisode
<1>1. SubSeq(episodes', 1, Len(episodes)) = episodes
  <2>1. episodes' = episodes \o <<buffer>> /\ <<buffer>> \in Seq(Seq(Frames)) /\ episodes' \in Seq(Seq(Frames))
    BY <1>b, AppendIsConcat
  <2>2. CASE Len(episodes) = 0
    BY <1>b, <2>1, <2>2, SubSeqEmpty
  <2>3. CASE Len(episodes) # 0
    <3>1. 1 \in 1..Len(episodes) /\ Len(episodes) \in 1..Len(episodes)
      BY <1>b, <2>3
    <3>2. SubSeq(episodes \o <<buffer>>, 1, Len(episodes)) = SubSeq(episodes, 1, Len(episodes))
      BY <1>b, <2>1, <3>1, SubSeqOfConcat1
    <3>3. SubSeq(episodes, 1, Len(episodes)) = episodes
      BY <1>b, SubSeqFull
    <3> QED
      BY <2>1, <3>2, <3>3
  <2> QED
    BY <2>2, <2>3
<1>2. Follows(buffer, SavedUpTo)
  BY DEF NothingLost
<1>3. SavedUpTo = Log!SavedUpTo(episodes)
  <2>1. CASE episodes = <<>>
    BY <2>1 DEF SavedUpTo, SavedBefore, Log!SavedUpTo
  <2>2. CASE episodes # <<>>
    <3>1. Len(episodes) + 1 # 1 /\ Len(episodes) + 1 - 1 = Len(episodes)
      BY <1>b, <2>2
    <3> QED
      BY <2>2, <3>1 DEF SavedUpTo, SavedBefore, Log!SavedUpTo
  <2> QED
    BY <2>1, <2>2
<1>4. buffer[1].tick > Log!SavedUpTo(episodes)
  <2>1. SavedUpTo \in Nat
    BY SavedType
  <2> QED
    BY <1>a, <1>2, <1>3, <2>1 DEF Follows
<1>5. Log!Contiguous(buffer)
  BY <1>a, <1>2 DEF Follows, Contiguous, Log!Contiguous
<1>6. episodes' # episodes
  BY <1>a, <1>b
<1> QED
  BY <1>a, <1>1, <1>4, <1>5, <1>6 DEF Log!Save

LEMMA LogNext == TypeOK /\ NothingLost /\ PushInv /\ [Next]_vars => [Log!Next]_<<episodes, hub.rows>>
<1> SUFFICES ASSUME TypeOK, NothingLost, PushInv, [Next]_vars
             PROVE  [Log!Next]_<<episodes, hub.rows>>
  OBVIOUS
<1> USE DEF rest, others, dataVars, pushVars, counters, keyVars, highlightVars, phaseVars
<1>1. CASE UNCHANGED <<episodes, hub>>
  BY <1>1
<1>2. CASE UNCHANGED vars \/ Operator
  BY <1>1, <1>2 DEF vars, Operator, RequestStop, RequestUpload, RequestSave, RequestTransition
<1>3. CASE Pusher
  <2>1. UNCHANGED episodes
    BY <1>3 DEF Pusher
  <2>2. CASE PushCommits
    BY <2>1, <2>2 DEF PushCommits, PushInv, Log!Next, Log!Upload
  <2>3. CASE PushBegins \/ PushSkipped \/ PushReads \/ PushDone \/ PushFails
    BY <1>1, <2>1, <2>3 DEF PushBegins, PushSkipped, PushReads, PushDone, PushFails
  <2> QED
    BY <1>3, <2>2, <2>3 DEF Pusher, PushThread
<1>4. CASE \/ LeaveLoop \/ StartTurn \/ TakeTransition \/ NoTransition \/ CheckUpload
           \/ RecordFrame \/ NoFrame \/ StartLive \/ EndLive \/ SameLive \/ KeepFrame
  BY <1>1, <1>4 DEF LeaveLoop, StartTurn, TakeTransition, NoTransition, CheckUpload, SubmitPush,
       RecordFrame, NoFrame, StartLive, EndLive, SameLive, KeepFrame
<1>5. CASE \/ Due \/ NotDue \/ SaveFails \/ SavedRotation \/ SavedCorrection \/ SavedHighlight
           \/ FinalSaveFails \/ NothingLive \/ FinalSaved \/ FinalizeDataset
           \/ JoinPushes \/ FinalPushFails \/ ReleaseRobot
  BY <1>1, <1>5 DEF Due, NotDue, SaveFails, SaveRaises, SavedRotation, SavedCorrection, SubmitPush,
       SavedHighlight, FinalSaveFails, NothingLive, FinalSaved, FinalizeDataset, Finalize,
       JoinPushes, FinalPushFails, ReleaseRobot
<1>6. CASE Save \/ FinalSave
  <2>1. SaveEpisode /\ UNCHANGED hub
    BY <1>6 DEF Save, FinalSave
  <2> QED
    BY <2>1, SaveLogged DEF Log!Next
<1>7. CASE FinalPush
  BY <1>1, <1>7 DEF FinalPush, Copy, Log!Next, Log!Upload
<1> QED
  BY <1>2, <1>3, <1>4, <1>5, <1>6, <1>7 DEF Next, Main, Turn, Teardown

(* A rollout is a log of whole episodes in the order they were recorded, of  *)
(* which each upload, beside the loop or after it, takes all that are saved. *)
THEOREM RolloutImplementsLog == Spec => ImplementsEpisodeLog
<1>1. Init => Log!Init
  BY DEF Init, PushInit, Nothing, Log!Init
<1> QED
  BY <1>1, LogNext, RolloutTypeCorrect, NothingIsLost, PushInvariant, PTL
     DEF Spec, ImplementsEpisodeLog, Log!Spec

-------------------------------------------------------------------------------
(* Corrections. Those in the buffer and in the episodes have begun, and the  *)
(* one going on is in no episode: no timer interrupts it, and the episode    *)
(* that the end of the session cuts short is the last.                       *)
Begun ==
  /\ \A k \in DOMAIN ring.frames : ring.frames[k].correction = 0
  /\ \A k \in DOMAIN buffer : buffer[k].correction <= correction
  /\ \A i \in DOMAIN episodes : \A k \in DOMAIN episodes[i] :
       /\ episodes[i][k].correction <= correction
       /\ main \in Loop /\ phase = "correcting" => episodes[i][k].correction < correction

InOnePlace ==
  \A i \in DOMAIN episodes : \A k \in DOMAIN episodes[i] : \A l \in DOMAIN buffer :
    episodes[i][k].correction = buffer[l].correction => buffer[l].correction = 0

OneEach ==
  strategy = "corrections" =>
    /\ \A k \in DOMAIN buffer : buffer[k].correction = Len(episodes) + 1
    /\ main \in Loop =>
         correction = IF phase = "correcting" \/ main = "save" THEN Len(episodes) + 1 ELSE Len(episodes)

CorrInv ==
  /\ strategy \notin DAgger => phase = "autonomous"
  /\ main = "save" => phase # "correcting"
  /\ Begun
  /\ InOnePlace
  /\ OneEach
  /\ CorrectionsWhole

LEMMA CorrInit == Init => CorrInv
BY DEF Init, PushInit, CorrInv, Begun, InOnePlace, OneEach, CorrectionsWhole, Empty

(* A step which neither records nor saves, nor moves a correction on.       *)
LEMMA CorrQuietStep ==
  ASSUME CorrInv, UNCHANGED <<episodes, buffer, ring, correction, phase, strategy>>,
         main' \in Loop => main \in Loop,
         main' = "save" => phase # "correcting",
         strategy = "corrections" /\ main' \in Loop => (main' = "save" <=> main = "save")
  PROVE  CorrInv'
BY DEF CorrInv, Begun, InOnePlace, OneEach, CorrectionsWhole

LEMMA CorrQuietSteps ==
  ASSUME CorrInv, PlaceInv,
         \/ Operator \/ Pusher \/ UNCHANGED vars
         \/ /\ UNCHANGED strategy
            /\ \/ LeaveLoop \/ StartTurn \/ NoTransition \/ CheckUpload \/ NoFrame \/ SameLive
               \/ Due \/ NotDue \/ SaveFails \/ SavedRotation \/ SavedCorrection \/ SavedHighlight
               \/ FinalSaveFails \/ NothingLive \/ FinalSaved \/ FinalizeDataset
               \/ JoinPushes \/ FinalPush \/ FinalPushFails \/ ReleaseRobot
  PROVE  CorrInv'
<1> DEFINE Still == UNCHANGED <<episodes, buffer, ring, correction, phase, strategy>>
           SameSave == strategy = "corrections" /\ main' \in Loop => (main' = "save" <=> main = "save")
<1> SUFFICES /\ Still /\ SameSave
             /\ main' \in Loop => main \in Loop
             /\ main' = "save" => phase # "correcting"
  BY CorrQuietStep
<1> USE DEF rest, others, dataVars, pushVars, counters, keyVars, highlightVars, phaseVars
<1>1. CASE Operator \/ Pusher \/ UNCHANGED vars
  <2>1. Still /\ main' = main
    BY <1>1 DEF Operator, RequestStop, RequestUpload, RequestSave, RequestTransition, Pusher, vars
  <2> QED
    BY <2>1 DEF CorrInv
<1>2. CASE /\ UNCHANGED strategy
           /\ LeaveLoop \/ StartTurn \/ NoTransition \/ CheckUpload \/ NoFrame \/ SameLive
  <2>1. Still
    BY <1>2 DEF LeaveLoop, StartTurn, NoTransition, CheckUpload, NoFrame, SameLive
  <2>2. main \in Loop \ {"save"} /\ main' # "save"
    BY <1>2 DEF LeaveLoop, StartTurn, GoOn, NoTransition, Onward, CheckUpload, NoFrame, AfterFrame,
                SameLive, Loop
  <2> QED
    BY <2>1, <2>2
<1>3. CASE UNCHANGED strategy /\ (Due \/ NotDue)
  BY <1>3 DEF Due, NotDue, PlaceInv, Rotating, Loop
<1>4. CASE UNCHANGED strategy /\ (SaveFails \/ FinalSaveFails)
  BY <1>4 DEF SaveFails, FinalSaveFails, SaveRaises, Loop
<1>5. CASE UNCHANGED strategy /\ (SavedRotation \/ SavedCorrection \/ SavedHighlight)
  <2>1. Still
    BY <1>5 DEF SavedRotation, SavedCorrection, SavedHighlight
  <2>2. main = "saved" /\ main' \in {"top", "upload"}
    BY <1>5 DEF SavedRotation, SavedCorrection, SavedHighlight
  <2> QED
    BY <2>1, <2>2 DEF Loop
<1>6. CASE /\ UNCHANGED strategy
           /\ \/ NothingLive \/ FinalSaved \/ FinalizeDataset \/ JoinPushes \/ FinalPush
              \/ FinalPushFails \/ ReleaseRobot
  <2>1. Still
    BY <1>6 DEF NothingLive, FinalSaved, FinalizeDataset, Finalize, JoinPushes, FinalPush,
                FinalPushFails, ReleaseRobot
  <2>2. main' \notin Loop
    BY <1>6 DEF NothingLive, FinalSaved, FinalizeDataset, JoinPushes, FinalPush, FinalPushFails,
                ReleaseRobot, Loop
  <2> QED
    BY <2>1, <2>2 DEF Loop
<1> QED
  BY <1>1, <1>2, <1>3, <1>4, <1>5, <1>6

LEMMA CorrType ==
  ASSUME TypeOK
  PROVE  \A i \in DOMAIN episodes : \A k \in DOMAIN episodes[i] : episodes[i][k].correction \in Nat
<1> SUFFICES ASSUME NEW i \in DOMAIN episodes, NEW k \in DOMAIN episodes[i]
             PROVE  episodes[i][k].correction \in Nat
  OBVIOUS
<1>1. episodes[i] \in Seq(Frames)
  BY DEF TypeOK
<1>2. episodes[i][k] \in Frames
  BY <1>1
<1> QED
  BY <1>2 DEF Frames

LEMMA CorrTransition ==
  ASSUME TypeOK, CorrInv, UNCHANGED strategy, TakeTransition
  PROVE  CorrInv'
<1>1. /\ main = "top" /\ strategy \in DAgger /\ UNCHANGED <<episodes, buffer, ring>>
      /\ Valid(phase, pending) /\ phase' = Transition[<<phase, pending>>]
      /\ correction' = IF phase' = "correcting" THEN correction + 1 ELSE correction
      /\ main' = IF strategy = "corrections" /\ phase = "correcting" THEN "save" ELSE Onward
  BY DEF TakeTransition, GoOn, dataVars, highlightVars
<1>2. phase = "correcting" => phase' # "correcting"
  BY <1>1 DEF Valid, Transition
<1>3. /\ correction \in Nat /\ Len(episodes) \in Nat
      /\ \A i \in DOMAIN episodes : \A k \in DOMAIN episodes[i] : episodes[i][k].correction \in Nat
      /\ \A k \in DOMAIN buffer : buffer[k].correction \in Nat
  <2>1. correction \in Nat /\ Len(episodes) \in Nat /\ \A k \in DOMAIN buffer : buffer[k] \in Frames
    BY DEF TypeOK
  <2> QED
    BY <2>1, CorrType DEF Frames
<1>4. Begun'
  BY <1>1, <1>3 DEF CorrInv, Begun, Loop
<1>5. main' \in Loop /\ (main' = "save" <=> strategy = "corrections" /\ phase = "correcting")
  BY <1>1 DEF Onward, Loop
<1>6. OneEach'
  BY <1>1, <1>2, <1>3, <1>5 DEF CorrInv, OneEach, Loop
<1> QED
  BY <1>1, <1>2, <1>4, <1>5, <1>6 DEF CorrInv, InOnePlace, CorrectionsWhole

(* Frames added to the buffer: none of a correction, or of the one going on. *)
LEMMA CorrAppend ==
  ASSUME TypeOK, CorrInv, UNCHANGED <<episodes, ring, correction, phase, strategy>>,
         NEW f \in Frames, f.correction = IF phase = "correcting" THEN correction ELSE 0,
         buffer' = Append(buffer, f), main \in Loop \ {"save"}, main' \in Loop,
         strategy = "corrections" => phase = "correcting" /\ main' # "save",
         main' = "save" => phase # "correcting"
  PROVE  CorrInv'
<1>1. /\ correction \in Nat /\ Len(episodes) \in Nat /\ buffer \in Seq(Frames)
      /\ \A i \in DOMAIN episodes : \A k \in DOMAIN episodes[i] : episodes[i][k].correction \in Nat
  BY CorrType DEF TypeOK
<1>2. \A k \in DOMAIN buffer' : buffer'[k] = f \/ \E l \in DOMAIN buffer : buffer'[k] = buffer[l]
  BY <1>1
<1>3. Begun'
  BY <1>1, <1>2 DEF CorrInv, Begun
<1>4. InOnePlace'
  BY <1>1, <1>2 DEF CorrInv, Begun, InOnePlace
<1>5. OneEach'
  BY <1>1, <1>2 DEF CorrInv, OneEach
<1> QED
  BY <1>3, <1>4, <1>5 DEF CorrInv, CorrectionsWhole

LEMMA CorrRecord ==
  ASSUME TypeOK, CorrInv, PlaceInv, UNCHANGED strategy, RecordFrame
  PROVE  CorrInv'
<1>1. /\ UNCHANGED <<episodes, ring, correction, phase, strategy>>
      /\ main = "frame" /\ main' \in {"rotate", "top"}
      /\ strategy = "corrections" => phase = "correcting"
  BY DEF RecordFrame, AfterFrame, Recording, highlightVars, phaseVars
<1>2. CASE recordTick = 0
  <2>1. Frame(tick + 1) \in Frames
    BY FrameType DEF TypeOK
  <2>2. Frame(tick + 1).correction = IF phase = "correcting" THEN correction ELSE 0
    BY DEF Frame
  <2>3. buffer' = Append(buffer, Frame(tick + 1))
    BY <1>2 DEF RecordFrame
  <2>4. main \in Loop \ {"save"} /\ main' \in Loop /\ main' # "save"
    BY <1>1 DEF Loop
  <2> QED
    BY <1>1, <2>1, <2>2, <2>3, <2>4, CorrAppend
<1>3. CASE recordTick # 0
  <2>1. UNCHANGED buffer
    BY <1>3 DEF RecordFrame
  <2> QED
    BY <1>1, <2>1, CorrQuietStep DEF Loop
<1> QED
  BY <1>2, <1>3

LEMMA CorrLive ==
  ASSUME TypeOK, CorrInv, HighlightInv, PlaceInv, UNCHANGED strategy, StartLive \/ EndLive \/ KeepFrame
  PROVE  CorrInv'
<1>1. strategy = "highlight" /\ phase = "autonomous" /\ UNCHANGED <<episodes, correction, phase, strategy>>
  BY DEF StartLive, EndLive, KeepFrame, PlaceInv, CorrInv, DAgger, phaseVars
<1>2. /\ buffer \in Seq(Frames) /\ ring \in [frames : Seq(Frames), bytes : Nat] /\ tick \in Nat
      /\ ring.frames \in Seq(Frames) /\ correction \in Nat
  BY DEF TypeOK
<1>3. \A n \in Nat : Frame(n) \in Frames /\ Frame(n).correction = IF phase = "correcting" THEN correction ELSE 0
  BY FrameType DEF Frame
<1>4. CASE StartLive
  <2>1. /\ buffer' = ring.frames /\ ring' = Empty /\ main' = "upload"
        /\ \A k \in DOMAIN ring.frames : ring.frames[k].correction = 0
    BY <1>1, <1>2, <1>4 DEF StartLive, HighlightInv, CorrInv, Begun
  <2>2. Begun' /\ InOnePlace' /\ OneEach'
    BY <1>1, <1>2, <2>1 DEF CorrInv, Begun, InOnePlace, OneEach, Empty
  <2> QED
    BY <1>1, <2>1, <2>2 DEF CorrInv, CorrectionsWhole
<1>5. CASE EndLive
  <2>1. buffer' = Append(buffer, Frame(tick + 1)) /\ ring' = ring /\ main = "frame" /\ main' = "save"
    BY <1>5 DEF EndLive, highlightVars
  <2>2. tick + 1 \in Nat /\ main \in Loop \ {"save"} /\ main' \in Loop
    BY <1>2, <2>1 DEF Loop
  <2> QED
    BY <1>1, <1>3, <2>1, <2>2, CorrAppend
<1>6. CASE KeepFrame
  <2>1. main = "record" /\ main' = "top"
    BY <1>6 DEF KeepFrame
  <2>2. main \in Loop \ {"save"} /\ main' \in Loop /\ main' # "save"
    BY <2>1 DEF Loop
  <2>3. CASE live
    <3>1. buffer' = Append(buffer, Frame(tick)) /\ ring' = ring
      BY <1>6, <2>3 DEF KeepFrame
    <3> QED
      BY <1>1, <1>2, <1>3, <2>2, <3>1, CorrAppend
  <2>4. CASE ~live
    <3> DEFINE f == Frame(tick)
               n == Len(ring.frames)
               m == Len(ring'.frames)
    <3>1. ring' = Put(ring, f) /\ buffer' = buffer /\ Accounted(ring)
      BY <1>1, <1>6, <2>4 DEF KeepFrame, HighlightInv
    <3>2. f \in Frames /\ f.correction = 0
      BY <1>1, <1>2, <1>3
    <3>3. /\ m = Smaller(n + 1, Smaller(MaxFrames, MaxBytes))
          /\ \A k \in 1..m : ring'.frames[k] = IF k = m THEN f ELSE ring.frames[k + (n + 1 - m)]
      <4>1. ring \in [frames : Seq(Frames), bytes : Nat] /\ Accounted(ring) /\ f \in Frames
        BY <1>2, <3>1, <3>2
      <4> HIDE DEF f
      <4> QED
        BY <3>1, <4>1, PutKeepsNewest
    <3>4. n \in Nat /\ DOMAIN ring.frames = 1..n /\ m \in Nat /\ DOMAIN ring'.frames = 1..m
      <4>1. ring' \in [frames : Seq(Frames), bytes : Nat]
        BY <1>2, <3>1, <3>2, PutType
      <4> QED
        BY <1>2, <4>1
    <3>5. \A k \in DOMAIN ring'.frames : ring'.frames[k].correction = 0
      <4>1. m <= n + 1
        <5> HIDE DEF m, n
        <5> QED
          BY <3>3, <3>4 DEF Smaller
      <4>2. \A k \in DOMAIN ring.frames : ring.frames[k].correction = 0
        BY DEF CorrInv, Begun
      <4> SUFFICES ASSUME NEW k \in 1..m PROVE ring'.frames[k].correction = 0
        BY <3>4
      <4>3. k # m => k + (n + 1 - m) \in 1..n
        <5> HIDE DEF m, n
        <5> QED
          BY <3>4, <4>1
      <4> QED
        BY <3>2, <3>3, <3>4, <4>2, <4>3
    <3>6. Begun'
      BY <1>1, <3>1, <3>5 DEF CorrInv, Begun
    <3> QED
      BY <1>1, <2>1, <3>1, <3>6 DEF CorrInv, InOnePlace, OneEach, CorrectionsWhole
  <2> QED
    BY <2>3, <2>4
<1> QED
  BY <1>4, <1>5, <1>6

LEMMA CorrSave ==
  ASSUME TypeOK, CorrInv, UNCHANGED strategy, Save \/ FinalSave
  PROVE  CorrInv'
<1>a. /\ SaveEpisode /\ UNCHANGED <<ring, correction, phase, strategy>>
      /\ (main = "save" /\ main' = "saved") \/ (main = "final" /\ main' \in {"finalize", "finalSaved"})
  BY DEF Save, FinalSave, highlightVars, phaseVars
<1>b. /\ Len(episodes') = Len(episodes) + 1
      /\ \A i \in 1..Len(episodes) : episodes'[i] = episodes[i]
      /\ episodes'[Len(episodes) + 1] = buffer
      /\ buffer' = <<>>
  BY <1>a, SaveFacts
<1>c. /\ Len(episodes) \in Nat /\ DOMAIN episodes = 1..Len(episodes) /\ correction \in Nat
      /\ episodes' \in Seq(Seq(Frames))
  BY <1>a DEF TypeOK, SaveEpisode
<1>d. \A i \in DOMAIN episodes' :
        \/ i \in DOMAIN episodes /\ episodes'[i] = episodes[i]
        \/ i = Len(episodes) + 1 /\ episodes'[i] = buffer
  BY <1>b, <1>c
<1>1. Begun'
  BY <1>a, <1>b, <1>d DEF CorrInv, Begun, Loop
<1>2. InOnePlace'
  BY <1>b DEF InOnePlace
<1>3. OneEach'
  <2>1. CASE main = "save" /\ strategy = "corrections"
    <3>1. main' = "saved" /\ phase # "correcting" /\ correction = Len(episodes) + 1
      BY <1>a, <2>1 DEF CorrInv, OneEach, Loop
    <3> QED
      BY <1>a, <1>b, <1>c, <2>1, <3>1 DEF OneEach
  <2>2. CASE main = "final" \/ strategy # "corrections"
    BY <1>a, <1>b, <2>2 DEF OneEach, Loop
  <2> QED
    BY <1>a, <2>1, <2>2
<1>4. CorrectionsWhole'
  <2>1. \A i, j \in DOMAIN episodes' : \A k \in DOMAIN episodes'[i] : \A l \in DOMAIN episodes'[j] :
          i # j /\ episodes'[i][k].correction = episodes'[j][l].correction => episodes'[i][k].correction = 0
    <3> SUFFICES ASSUME NEW i \in DOMAIN episodes', NEW j \in DOMAIN episodes',
                        NEW k \in DOMAIN episodes'[i], NEW l \in DOMAIN episodes'[j],
                        i # j, episodes'[i][k].correction = episodes'[j][l].correction
                 PROVE  episodes'[i][k].correction = 0
      OBVIOUS
    <3>1. CASE i \in DOMAIN episodes /\ j \in DOMAIN episodes
      <4>1. episodes'[i] = episodes[i] /\ episodes'[j] = episodes[j]
        BY <1>b, <1>c, <3>1
      <4> QED
        BY <3>1, <4>1 DEF CorrInv, CorrectionsWhole
    <3>2. CASE i = Len(episodes) + 1
      <4>1. j \in DOMAIN episodes /\ episodes'[j] = episodes[j] /\ episodes'[i] = buffer
        BY <1>b, <1>d, <3>2
      <4> QED
        BY <4>1 DEF CorrInv, InOnePlace
    <3>3. CASE j = Len(episodes) + 1
      <4>1. i \in DOMAIN episodes /\ episodes'[i] = episodes[i] /\ episodes'[j] = buffer
        BY <1>b, <1>d, <3>3
      <4> QED
        BY <4>1 DEF CorrInv, InOnePlace
    <3> QED
      BY <1>d, <3>1, <3>2, <3>3
  <2>2. strategy = "corrections" =>
          \A i \in DOMAIN episodes' : \A k \in DOMAIN episodes'[i] : episodes'[i][k].correction = i
    BY <1>d DEF CorrInv, OneEach, CorrectionsWhole
  <2> QED
    BY <1>a, <2>1, <2>2 DEF CorrectionsWhole
<1> QED
  BY <1>a, <1>1, <1>2, <1>3, <1>4 DEF CorrInv

(* A correction is in one episode only, and recording only corrections, each *)
(* episode is one (dagger.py:535, 579).                                      *)
THEOREM CorrectionsStayWhole == Spec => []CorrectionsWhole
<1>1. TypeOK /\ LostInv /\ CorrInv /\ [Next]_vars => CorrInv'
  BY CorrQuietSteps, CorrTransition, CorrRecord, CorrLive, CorrSave
     DEF LostInv, Next, Main, Turn, Teardown
<1>2. CorrInv => CorrectionsWhole
  BY DEF CorrInv
<1> QED
  BY <1>1, <1>2, CorrInit, LostInvariant, RolloutTypeCorrect, PTL DEF Spec

-------------------------------------------------------------------------------
(* A session that is told to stop ends: how far it is from its end, counted *)
(* in places of the main thread. A strategy takes the places of a turn in an *)
(* order of its own.                                                         *)

InTurn ==
  CASE strategy = "highlight" ->
         [top |-> 7, record |-> 8, saved |-> 8, upload |-> 9, save |-> 9, rotate |-> 10, frame |-> 10]
    [] strategy \in Rotating ->
         [top |-> 7, record |-> 8, saved |-> 8, save |-> 9, rotate |-> 10, frame |-> 11, upload |-> 12]
    [] OTHER ->
         [top |-> 7, record |-> 8, frame |-> 8, upload |-> 9, saved |-> 10, save |-> 11, rotate |-> 12]

AfterTurn ==
  [done |-> 0, raised |-> 0, hardware |-> 1, push |-> 2, join |-> 3, finalize |-> 4,
   finalSaved |-> 5, final |-> 6]

Remaining == IF main \in Loop THEN InTurn[main] ELSE AfterTurn[main]

(* No other turn begins.                                                    *)
Ending == stop \/ main \notin Loop

At(n) == Ending /\ Remaining = n

Below(n) == Ending /\ Remaining < n

Passes == Blocked => NoUpload

LEMMA RemainingType ==
  ASSUME TypeOK
  PROVE  Remaining \in 0..12 /\ (Remaining = 0 <=> main \in {"done", "raised"})
<1>1. CASE main \in Loop
  BY <1>1 DEF Remaining, InTurn, Loop, Rotating
<1>2. CASE main \notin Loop
  BY <1>2 DEF Remaining, AfterTurn, Loop, TypeOK, Places
<1> QED
  BY <1>1, <1>2

(* A step of the main thread brings the end nearer, that of another thread   *)
(* does not touch it.                                                        *)
LEMMA MainEnds ==
  ASSUME TypeOK, Ending, Main
  PROVE  Ending' /\ Remaining' < Remaining
<1>1. strategy' = strategy
  BY DEF Main
<1>2. CASE Teardown
  BY <1>2 DEF Teardown, FinalSave, FinalSaveFails, NothingLive, FinalSaved, FinalizeDataset,
     JoinPushes, FinalPush, FinalPushFails, ReleaseRobot, Ending, Remaining, AfterTurn, Loop
<1>3. ASSUME main \in Loop, stop, stop' = stop,
             main' \notin Loop, main' \in Places
      PROVE  Ending' /\ Remaining' < Remaining
  <2>1. Remaining' <= 6 /\ Remaining' \in Nat
    BY <1>3 DEF Remaining, AfterTurn, Loop, Places
  <2>2. Remaining >= 7 /\ Remaining \in Nat
    BY <1>3 DEF Remaining, InTurn, Loop
  <2> QED
    BY <1>3, <2>1, <2>2 DEF Ending
<1>4. CASE LeaveLoop \/ SaveFails
  <2>1. /\ main \in Loop /\ stop' = stop /\ main' \notin Loop /\ main' \in Places
    BY <1>4 DEF LeaveLoop, SaveFails, Loop, Places, rest, keyVars
  <2> QED
    BY <1>3, <2>1 DEF Ending
<1>5. ~(main = "top" /\ GoOn) \/ ~stop
  BY DEF GoOn
<1>6. ASSUME main \in Loop, stop, stop' = stop, main' \in Loop, InTurn[main'] < InTurn[main]
      PROVE  Ending' /\ Remaining' < Remaining
  <2>1. InTurn' = InTurn
    BY <1>1 DEF InTurn
  <2> QED
    BY <1>6, <2>1 DEF Ending, Remaining
<1>7. CASE StartTurn \/ TakeTransition \/ NoTransition
  BY <1>7 DEF StartTurn, TakeTransition, NoTransition, GoOn, Ending, Loop
<1>8. CASE CheckUpload
  BY <1>6, <1>8 DEF CheckUpload, Ending, Loop, InTurn, Rotating
<1>9. CASE RecordFrame \/ NoFrame
  BY <1>6, <1>9 DEF RecordFrame, NoFrame, AfterFrame, Ending, Loop, InTurn, Rotating, keyVars, rest,
     Recording
<1>10. CASE StartLive \/ EndLive \/ SameLive
  <2>1. /\ strategy = "highlight" /\ main = "frame" /\ main' \in {"upload", "save"}
        /\ stop' = stop
    BY <1>10 DEF StartLive, EndLive, SameLive, keyVars
  <2>2. InTurn[main'] < InTurn[main]
    <3>1. InTurn["frame"] = 10 /\ InTurn["upload"] = 9 /\ InTurn["save"] = 9
      BY <2>1 DEF InTurn, Rotating
    <3> QED
      BY <2>1, <3>1
  <2> QED
    BY <1>6, <2>1, <2>2 DEF Ending, Loop
<1>11. CASE KeepFrame
  BY <1>6, <1>11 DEF KeepFrame, Ending, Loop, InTurn, keyVars
<1>12. CASE Due \/ NotDue
  BY <1>6, <1>12 DEF Due, NotDue, Ending, Loop, InTurn, keyVars, rest
<1>13. CASE Save
  BY <1>6, <1>13 DEF Save, Ending, Loop, InTurn, keyVars
<1>14. CASE SavedRotation \/ SavedCorrection \/ SavedHighlight
  BY <1>6, <1>14 DEF SavedRotation, SavedCorrection, SavedHighlight, Ending, Loop, InTurn, keyVars,
     Rotating
<1> QED
  BY <1>2, <1>4, <1>7, <1>8, <1>9, <1>10, <1>11, <1>12, <1>13, <1>14 DEF Main, Turn

LEMMA OthersWait ==
  ASSUME TypeOK, Ending, [Next]_vars, ~Main
  PROVE  Ending' /\ Remaining' = Remaining /\ main' = main /\ (Passes => Passes')
<1>1. main' = main /\ strategy' = strategy /\ (stop => stop')
  BY DEF Next, vars, rest, keyVars, Operator, Pusher, RequestStop, RequestUpload, RequestSave,
     RequestTransition, others
<1>2. NoUpload => NoUpload'
  BY DEF Next, vars, rest, Operator, Pusher, PushThread, PushBegins, PushSkipped, PushReads,
     PushCommits, PushDone, PushFails, RequestStop, RequestUpload, RequestSave,
     RequestTransition, others, NoUpload, pushVars, TypeOK
<1> QED
  BY <1>1, <1>2 DEF Ending, Remaining, InTurn, Passes, Blocked

LEMMA EndNears ==
  ASSUME TypeOK, [Next]_vars, NEW n \in 1..12, At(n)
  PROVE  /\ At(n)' \/ Below(n)'
         /\ Passes => (At(n)' /\ Passes' /\ ~Main) \/ Below(n)'
BY MainEnds, OthersWait DEF At, Below

LEMMA MainMay ==
  ASSUME TypeOK, NEW n \in 1..12, At(n), Passes, MainGoesOn
  PROVE  ENABLED <<Main>>_vars
BY RemainingType DEF At, Passes, MainGoesOn

LEMMA MayPass == Passes <=> ~Blocked \/ NoUpload
BY DEF Passes

LEMMA StopEnds ==
  FairSpec /\ []MainGoesOn /\ UploadsRunOut => (Ending ~> main \in {"done", "raised"})
<1> DEFINE Fair == FairSpec /\ []MainGoesOn /\ UploadsRunOut
<1>0. TypeOK /\ Ending => Below(13)
  BY RemainingType DEF Below
<1>1. Fair => (At(1) ~> Below(1))
  <2>1. TypeOK /\ [Next]_vars /\ At(1) =>
          /\ At(1)' \/ Below(1)'
          /\ Passes => (At(1)' /\ Passes' /\ ~Main) \/ Below(1)'
    BY EndNears
  <2>2. TypeOK /\ At(1) /\ Passes /\ MainGoesOn => ENABLED <<Main>>_vars
    BY MainMay
  <2>3. QED
    BY <2>1, <2>2, MayPass, RolloutTypeCorrect, PTL DEF FairSpec, Spec, UploadsRunOut
<1>2. Fair => (At(2) ~> Below(2))
  <2>1. TypeOK /\ [Next]_vars /\ At(2) =>
          /\ At(2)' \/ Below(2)'
          /\ Passes => (At(2)' /\ Passes' /\ ~Main) \/ Below(2)'
    BY EndNears
  <2>2. TypeOK /\ At(2) /\ Passes /\ MainGoesOn => ENABLED <<Main>>_vars
    BY MainMay
  <2>3. QED
    BY <2>1, <2>2, MayPass, RolloutTypeCorrect, PTL DEF FairSpec, Spec, UploadsRunOut
<1>3. Fair => (At(3) ~> Below(3))
  <2>1. TypeOK /\ [Next]_vars /\ At(3) =>
          /\ At(3)' \/ Below(3)'
          /\ Passes => (At(3)' /\ Passes' /\ ~Main) \/ Below(3)'
    BY EndNears
  <2>2. TypeOK /\ At(3) /\ Passes /\ MainGoesOn => ENABLED <<Main>>_vars
    BY MainMay
  <2>3. QED
    BY <2>1, <2>2, MayPass, RolloutTypeCorrect, PTL DEF FairSpec, Spec, UploadsRunOut
<1>4. Fair => (At(4) ~> Below(4))
  <2>1. TypeOK /\ [Next]_vars /\ At(4) =>
          /\ At(4)' \/ Below(4)'
          /\ Passes => (At(4)' /\ Passes' /\ ~Main) \/ Below(4)'
    BY EndNears
  <2>2. TypeOK /\ At(4) /\ Passes /\ MainGoesOn => ENABLED <<Main>>_vars
    BY MainMay
  <2>3. QED
    BY <2>1, <2>2, MayPass, RolloutTypeCorrect, PTL DEF FairSpec, Spec, UploadsRunOut
<1>5. Fair => (At(5) ~> Below(5))
  <2>1. TypeOK /\ [Next]_vars /\ At(5) =>
          /\ At(5)' \/ Below(5)'
          /\ Passes => (At(5)' /\ Passes' /\ ~Main) \/ Below(5)'
    BY EndNears
  <2>2. TypeOK /\ At(5) /\ Passes /\ MainGoesOn => ENABLED <<Main>>_vars
    BY MainMay
  <2>3. QED
    BY <2>1, <2>2, MayPass, RolloutTypeCorrect, PTL DEF FairSpec, Spec, UploadsRunOut
<1>6. Fair => (At(6) ~> Below(6))
  <2>1. TypeOK /\ [Next]_vars /\ At(6) =>
          /\ At(6)' \/ Below(6)'
          /\ Passes => (At(6)' /\ Passes' /\ ~Main) \/ Below(6)'
    BY EndNears
  <2>2. TypeOK /\ At(6) /\ Passes /\ MainGoesOn => ENABLED <<Main>>_vars
    BY MainMay
  <2>3. QED
    BY <2>1, <2>2, MayPass, RolloutTypeCorrect, PTL DEF FairSpec, Spec, UploadsRunOut
<1>7. Fair => (At(7) ~> Below(7))
  <2>1. TypeOK /\ [Next]_vars /\ At(7) =>
          /\ At(7)' \/ Below(7)'
          /\ Passes => (At(7)' /\ Passes' /\ ~Main) \/ Below(7)'
    BY EndNears
  <2>2. TypeOK /\ At(7) /\ Passes /\ MainGoesOn => ENABLED <<Main>>_vars
    BY MainMay
  <2>3. QED
    BY <2>1, <2>2, MayPass, RolloutTypeCorrect, PTL DEF FairSpec, Spec, UploadsRunOut
<1>8. Fair => (At(8) ~> Below(8))
  <2>1. TypeOK /\ [Next]_vars /\ At(8) =>
          /\ At(8)' \/ Below(8)'
          /\ Passes => (At(8)' /\ Passes' /\ ~Main) \/ Below(8)'
    BY EndNears
  <2>2. TypeOK /\ At(8) /\ Passes /\ MainGoesOn => ENABLED <<Main>>_vars
    BY MainMay
  <2>3. QED
    BY <2>1, <2>2, MayPass, RolloutTypeCorrect, PTL DEF FairSpec, Spec, UploadsRunOut
<1>9. Fair => (At(9) ~> Below(9))
  <2>1. TypeOK /\ [Next]_vars /\ At(9) =>
          /\ At(9)' \/ Below(9)'
          /\ Passes => (At(9)' /\ Passes' /\ ~Main) \/ Below(9)'
    BY EndNears
  <2>2. TypeOK /\ At(9) /\ Passes /\ MainGoesOn => ENABLED <<Main>>_vars
    BY MainMay
  <2>3. QED
    BY <2>1, <2>2, MayPass, RolloutTypeCorrect, PTL DEF FairSpec, Spec, UploadsRunOut
<1>10. Fair => (At(10) ~> Below(10))
  <2>1. TypeOK /\ [Next]_vars /\ At(10) =>
          /\ At(10)' \/ Below(10)'
          /\ Passes => (At(10)' /\ Passes' /\ ~Main) \/ Below(10)'
    BY EndNears
  <2>2. TypeOK /\ At(10) /\ Passes /\ MainGoesOn => ENABLED <<Main>>_vars
    BY MainMay
  <2>3. QED
    BY <2>1, <2>2, MayPass, RolloutTypeCorrect, PTL DEF FairSpec, Spec, UploadsRunOut
<1>11. Fair => (At(11) ~> Below(11))
  <2>1. TypeOK /\ [Next]_vars /\ At(11) =>
          /\ At(11)' \/ Below(11)'
          /\ Passes => (At(11)' /\ Passes' /\ ~Main) \/ Below(11)'
    BY EndNears
  <2>2. TypeOK /\ At(11) /\ Passes /\ MainGoesOn => ENABLED <<Main>>_vars
    BY MainMay
  <2>3. QED
    BY <2>1, <2>2, MayPass, RolloutTypeCorrect, PTL DEF FairSpec, Spec, UploadsRunOut
<1>12. Fair => (At(12) ~> Below(12))
  <2>1. TypeOK /\ [Next]_vars /\ At(12) =>
          /\ At(12)' \/ Below(12)'
          /\ Passes => (At(12)' /\ Passes' /\ ~Main) \/ Below(12)'
    BY EndNears
  <2>2. TypeOK /\ At(12) /\ Passes /\ MainGoesOn => ENABLED <<Main>>_vars
    BY MainMay
  <2>3. QED
    BY <2>1, <2>2, MayPass, RolloutTypeCorrect, PTL DEF FairSpec, Spec, UploadsRunOut
<1>13. TypeOK =>
         /\ Below(2) => At(1) \/ Below(1)
         /\ Below(3) => At(2) \/ Below(2)
         /\ Below(4) => At(3) \/ Below(3)
         /\ Below(5) => At(4) \/ Below(4)
         /\ Below(6) => At(5) \/ Below(5)
         /\ Below(7) => At(6) \/ Below(6)
         /\ Below(8) => At(7) \/ Below(7)
         /\ Below(9) => At(8) \/ Below(8)
         /\ Below(10) => At(9) \/ Below(9)
         /\ Below(11) => At(10) \/ Below(10)
         /\ Below(12) => At(11) \/ Below(11)
         /\ Below(13) => At(12) \/ Below(12)
         /\ Below(1) => main \in {"done", "raised"}
  BY RemainingType DEF At, Below
<1>14. QED
  BY <1>0, <1>1, <1>2, <1>3, <1>4, <1>5, <1>6, <1>7, <1>8, <1>9, <1>10, <1>11, <1>12, <1>13,
     RolloutTypeCorrect, PTL DEF FairSpec

(* A session that is told to stop ends, from any place of the loop and of   *)
(* the teardown, with every strategy, whatever uploads wait: if uploads run  *)
(* out where the main thread waits for them (FewerUploads), and the main     *)
(* thread goes on where nothing holds it, as TLC finds on a small instance.  *)
THEOREM StopEndsSession ==
  FairSpec /\ []MainGoesOn /\ UploadsRunOut => StopReleasesRobot
<1>1. stop \/ main = "final" => Ending
  BY DEF Ending, Loop
<1> QED
  BY <1>1, StopEnds, PTL DEF StopReleasesRobot

(* Where the main thread waits, no uploads are submitted.                   *)
LEMMA NoneSubmitted ==
  ASSUME TypeOK, Blocked, [Next]_vars, Blocked', ~Pusher
  PROVE  UNCHANGED <<queued, pusher>>
<1>1. CASE Main
  <2>1. CASE Turn
    BY <2>1 DEF Blocked, Turn, LeaveLoop, StartTurn, TakeTransition, NoTransition, CheckUpload,
       RecordFrame, NoFrame, StartLive, EndLive, SameLive, KeepFrame, Due, NotDue, Save, SaveFails,
       SavedRotation, SavedCorrection, SavedHighlight, GoOn, pushVars, rest
  <2>2. CASE Teardown
    BY <2>2 DEF Blocked, Teardown, FinalSave, FinalSaveFails, NothingLive, FinalSaved,
       FinalizeDataset, JoinPushes, FinalPush, FinalPushFails, ReleaseRobot, pushVars, rest
  <2> QED
    BY <1>1, <2>1, <2>2 DEF Main
<1>2. CASE Operator \/ UNCHANGED vars
  BY <1>2 DEF Operator, RequestStop, RequestUpload, RequestSave, RequestTransition, others, pushVars,
     vars, rest
<1> QED
  BY <1>1, <1>2 DEF Next

(* What the push thread does: it goes through an upload and then begins the  *)
(* next.                                                                     *)
LEMMA PusherProceeds ==
  ASSUME TypeOK, Pusher
  PROVE  /\ queued' \in {queued, queued - 1}
         /\ pusher = "read" => queued' = queued /\ pusher' \in {"commit", "idle"}
         /\ pusher = "commit" => queued' = queued /\ pusher' \in {"clear", "idle"}
         /\ pusher = "clear" => queued' = queued /\ pusher' = "idle"
         /\ pusher = "idle" => queued' = queued - 1
BY DEF Pusher, PushThread, PushBegins, PushSkipped, PushReads, PushCommits, PushDone, PushFails, TypeOK

(* Where the main thread waits, n uploads become fewer: the one under way    *)
(* ends, with or without success, and the next is taken. That n uploads run  *)
(* out (UploadsRunOut) follows by induction on n.                            *)
THEOREM FewerUploads ==
  ASSUME NEW n \in Nat
  PROVE  FairSpec /\ []PusherGoesOn => OneFewer(n)
<1> DEFINE Some == Blocked /\ queued = n
           Fewer == ~Blocked \/ queued < n \/ NoUpload
           In(p) == Some /\ pusher = p
           Free == Some /\ pusher = "idle" /\ ~NoUpload
<1>1. TypeOK /\ In("read") /\ [Next]_vars =>
        (In("read")' /\ ~Pusher) \/ In("commit")' \/ Free' \/ Fewer'
  BY NoneSubmitted, PusherProceeds
<1>2. TypeOK /\ In("commit") /\ [Next]_vars =>
        (In("commit")' /\ ~Pusher) \/ In("clear")' \/ Free' \/ Fewer'
  BY NoneSubmitted, PusherProceeds
<1>3. TypeOK /\ In("clear") /\ [Next]_vars => (In("clear")' /\ ~Pusher) \/ Free' \/ Fewer'
  BY NoneSubmitted, PusherProceeds
<1>4. TypeOK /\ Free /\ [Next]_vars => (Free' /\ ~Pusher) \/ Fewer'
  <2> SUFFICES ASSUME TypeOK, Free, [Next]_vars PROVE (Free' /\ ~Pusher) \/ Fewer'
    OBVIOUS
  <2>1. Pusher => queued' < n
    BY PusherProceeds DEF TypeOK
  <2>2. ~Pusher /\ Blocked' => queued' = queued /\ pusher' = pusher
    BY NoneSubmitted
  <2> QED
    BY <2>1, <2>2 DEF NoUpload
<1>5. \A p \in {"read", "commit", "clear"} : In(p) /\ PusherGoesOn => ENABLED <<Pusher>>_vars
  BY DEF PusherGoesOn, NoUpload
<1>6. Free /\ PusherGoesOn => ENABLED <<Pusher>>_vars
  BY DEF PusherGoesOn
<1>7. TypeOK /\ Some => In("read") \/ In("commit") \/ In("clear") \/ Free \/ NoUpload
  BY DEF TypeOK
<1> DEFINE Fair == FairSpec /\ []PusherGoesOn
<1>8. Fair => (In("read") ~> In("commit") \/ Free \/ Fewer)
  <2>1. In("read") /\ PusherGoesOn => ENABLED <<Pusher>>_vars
    BY <1>5
  <2> QED
    BY <1>1, <2>1, RolloutTypeCorrect, PTL DEF FairSpec, Spec
<1>9. Fair => (In("commit") ~> In("clear") \/ Free \/ Fewer)
  <2>1. In("commit") /\ PusherGoesOn => ENABLED <<Pusher>>_vars
    BY <1>5
  <2> QED
    BY <1>2, <2>1, RolloutTypeCorrect, PTL DEF FairSpec, Spec
<1>10. Fair => (In("clear") ~> Free \/ Fewer)
  <2>1. In("clear") /\ PusherGoesOn => ENABLED <<Pusher>>_vars
    BY <1>5
  <2> QED
    BY <1>3, <2>1, RolloutTypeCorrect, PTL DEF FairSpec, Spec
<1>11. Fair => (Free ~> Fewer)
  BY <1>4, <1>6, RolloutTypeCorrect, PTL DEF FairSpec, Spec
<1>12. NoUpload => Fewer
  OBVIOUS
<1>13. Fair => (Some ~> Fewer)
  BY <1>7, <1>8, <1>9, <1>10, <1>11, <1>12, RolloutTypeCorrect, PTL DEF FairSpec
<1> QED
  BY <1>13, PTL DEF OneFewer
===============================================================================
