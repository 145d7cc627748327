----------------------------- MODULE DatasetWriter ----------------------------
(* DatasetWriter and LeRobotDatasetMetadata recording with streaming video:  *)
(* an episode's rows go to the open parquet file, its videos to the latest   *)
(* file of each camera, its metadata to a buffer; sessions end in finalize or*)
(* in a crash and the dataset is resumed. (datasets/dataset_writer.py,       *)
(* dataset_metadata.py, lerobot_dataset.py, scripts/lerobot_record.py.)      *)
EXTENDS StreamingEncoder

CONSTANTS
  MetaBuffer,  \* metadata_buffer_size
  MaxFrames,   \* bound: frames of an episode
  MaxTakes,    \* bound: episodes begun, saved or not
  MaxSessions  \* bound: sessions

ASSUME MetaBufferAssumption == MetaBuffer \in Nat \ {0}
ASSUME BoundsAssumption == MaxFrames \in Nat /\ MaxTakes \in Nat /\ MaxSessions \in Nat

VARIABLES
  main,    \* where the recording thread is
  at,      \* the camera it deals with
  size,    \* frames in the episode buffer
  take,    \* history: number of the episode buffer
  session, \* history: number of the session
  data,    \* the parquet files, in the order of their chunk and file indices
  open,    \* the file of _pq_writer and _latest_episode, 0 for none
  videos,  \* the video files of each camera
  clips,   \* ep_metadata: where the videos of the episode being saved are
  meta,    \* the metadata of the saved episodes, those in memory included
  written, \* how many of them are in a parquet file
  durable, \* how many in one that is closed
  loaded,  \* how many were there when the session began (meta.episodes)
  info,    \* info.json
  spoilt   \* history: the numbers of episodes after which a failure has left rows
           \* or counts that no episode has

diskVars == <<data, open, videos>>
metaVars == <<meta, written, durable, info>>
sessionVars == <<session, loaded, spoilt>>
vars == <<encoderVars, main, at, size, take, diskVars, clips, metaVars, sessionVars>>

Saving == {"rows", "sentinel", "collect", "cleanup", "video", "meta", "info"}
Session == Saving \cup {"idle", "closing"}

Last(s) == s[Len(s)]

(* A row knows its place in the whole dataset (index).                      *)
Row == [take : Nat, frame : Nat, index : Nat]
Clip == [file : Nat, from : Nat, to : Nat]
NoClip == [file |-> 0, from |-> 0, to |-> 0]
Episode == [take : Nat, length : Nat, from : Nat, to : Nat, index : Nat, file : Nat,
            video : [Cameras -> Clip], complete : [Cameras -> BOOLEAN]]

TypeOK ==
  /\ active \in BOOLEAN
  /\ queue \in [Cameras -> Seq(Nat)]
  /\ thread \in [Cameras -> {"none", "waiting", "encoding", "done"}]
  /\ file \in [Cameras -> Seq(Nat)]
  /\ result \in [Cameras -> {"none", "ok", "error"}]
  /\ stopEvent \in [Cameras -> BOOLEAN]
  /\ dropped \in [Cameras -> Nat]
  /\ main \in Session \cup {"none", "lost"}
  /\ at \in Cameras
  /\ size \in Nat
  /\ take \in Nat
  /\ session \in Nat
  /\ data \in Seq([rows : Seq(Row), closed : BOOLEAN])
  /\ open \in 0..Len(data)
  /\ videos \in [Cameras -> Seq(Seq([take : Nat, frame : Nat]))]
  /\ clips \in [Cameras -> Clip]
  /\ meta \in Seq(Episode)
  /\ durable \in Nat /\ written \in durable..Len(meta)
  /\ loaded \in 0..Len(meta)
  /\ info \in [episodes : Nat, frames : Nat]
  /\ spoilt \in SUBSET Nat
  /\ size = 0 => ~active

Unclosed(rows) == [rows |-> rows, closed |-> FALSE]

(* After create.                                                            *)
Created ==
  /\ data = <<>>
  /\ videos = All(<<>>)
  /\ meta = <<>>
  /\ info = [episodes |-> 0, frames |-> 0]

(* After resume of a dataset with one episode of one frame.                 *)
Loaded ==
  /\ data = <<[rows |-> <<[take |-> 0, frame |-> 1, index |-> 0]>>, closed |-> TRUE]>>
  /\ videos = All(<<<<[take |-> 0, frame |-> 1]>>>>)
  /\ meta = <<[take |-> 0, length |-> 1, from |-> 0, to |-> 1, index |-> 0, file |-> 1,
               video |-> All([file |-> 1, from |-> 0, to |-> 1]), complete |-> All(TRUE)]>>
  /\ info = [episodes |-> 1, frames |-> 1]

Init ==
  /\ EncoderInit
  /\ Created \/ Loaded
  /\ main = "idle"
  /\ at = 1
  /\ size = 0
  /\ take = 1
  /\ session = 1
  /\ open = 0
  /\ clips = All(NoClip)
  /\ written = Len(meta)
  /\ durable = Len(meta)
  /\ loaded = Len(meta)
  /\ spoilt = {}

-------------------------------------------------------------------------------
(* Between the calls that save.                                             *)

AddFrame ==
  /\ main = "idle"
  /\ size < MaxFrames
  /\ take <= MaxTakes
  /\ IF size = 0 THEN StartEpisode ELSE FeedFrame(size + 1)
  /\ size' = size + 1
  /\ UNCHANGED <<main, at, take, diskVars, clips, metaVars, sessionVars>>

(* Mutant: the encoder goes on.                                             *)
ClearKeepsEncoder ==
  /\ main = "idle"
  /\ size > 0
  /\ UNCHANGED encoderVars
  /\ size' = 0
  /\ take' = take + 1
  /\ UNCHANGED <<main, at, diskVars, clips, metaVars, sessionVars>>

(* clear_episode_buffer: the episode is to be recorded again.               *)
ClearEpisodeBuffer ==
  /\ main = "idle"
  /\ size > 0
  /\ CancelEpisode
  /\ size' = 0
  /\ take' = take + 1
  /\ UNCHANGED <<main, at, diskVars, clips, metaVars, sessionVars>>

-------------------------------------------------------------------------------
(* save_episode.                                                            *)
SaveEpisode ==
  /\ main = "idle"
  /\ size > 0
  /\ main' = "rows"
  /\ UNCHANGED <<encoderVars, at, size, take, diskVars, clips, metaVars, sessionVars>>

EpisodeRows == [k \in 1..size |-> [take |-> take, frame |-> k, index |-> info.frames + k - 1]]

PutAt(s, i, x) == IF i = Len(s) + 1 THEN Append(s, x) ELSE [s EXCEPT ![i] = x]

(* Mutant: a resumed dataset goes on in its last file.                      *)
LastFile == IF meta = <<>> THEN 1 ELSE Last(meta).file

(* The first file of a session comes after that of the last episode.        *)
FirstFile == IF meta = <<>> THEN 1 ELSE Last(meta).file + 1

(* _save_episode_data: a new file in a new session, and when the last one   *)
(* is large enough, else the open one.                                       *)
WriteRows ==
  /\ main = "rows"
  /\ \/ /\ open = 0
        /\ data' = PutAt(data, FirstFile, Unclosed(EpisodeRows))
        /\ open' = FirstFile
     \/ /\ open # 0
        /\ data' = [data EXCEPT ![open].rows = @ \o EpisodeRows]
        /\ UNCHANGED open
     \/ /\ open # 0
        /\ data' = PutAt([data EXCEPT ![open].closed = TRUE], open + 1, Unclosed(EpisodeRows))
        /\ open' = open + 1
  /\ main' = "sentinel"
  /\ at' = 1
  /\ UNCHANGED <<encoderVars, size, take, videos, clips, metaVars, sessionVars>>

NextCamera(after) ==
  IF at < NumCameras THEN at' = at + 1 /\ UNCHANGED main ELSE at' = 1 /\ main' = after

SendSentinel ==
  /\ main = "sentinel"
  /\ PutSentinel(at)
  /\ NextCamera("collect")
  /\ UNCHANGED <<size, take, diskVars, clips, metaVars, sessionVars>>

(* The threads are joined one after the other.                              *)
Collect ==
  /\ main = "collect"
  /\ \/ Finished(at) /\ UNCHANGED encoderVars
     \/ JoinTimesOut(at)
  /\ NextCamera("cleanup")
  /\ UNCHANGED <<size, take, diskVars, clips, metaVars, sessionVars>>

CleanUp ==
  /\ main = "cleanup"
  /\ Cleanup
  /\ main' = "video"
  /\ UNCHANGED <<at, size, take, diskVars, clips, metaVars, sessionVars>>

LatestClip(c) == IF meta = <<>> THEN NoClip ELSE Last(meta).video[c]

Frames(c) == [i \in 1..Len(file[c]) |-> [take |-> take, frame |-> file[c][i]]]

ClipAt(f, from) == [file |-> f, from |-> from, to |-> from + Len(file[at])]

(* _save_episode_video: into a new file when the session begins and when the *)
(* latest one is large enough, else at the end of that.                      *)
MoveVideo ==
  /\ main = "video"
  /\ thread[at] = "done"
  /\ file[at] # <<>>
  /\ LET latest == LatestClip(at) IN
     \/ /\ videos' = [videos EXCEPT ![at] = PutAt(@, latest.file + 1, Frames(at))]
        /\ clips' = [clips EXCEPT ![at] = ClipAt(latest.file + 1, 0)]
     \/ /\ Len(meta) > loaded
        /\ videos' = [videos EXCEPT ![at][latest.file] = @ \o Frames(at)]
        /\ clips' = [clips EXCEPT ![at] = ClipAt(latest.file, latest.to)]
  /\ NextCamera("meta")
  /\ UNCHANGED <<encoderVars, size, take, data, open, metaVars, sessionVars>>

(* Mutant: positions start anew in a session.                               *)
StartOfSession == IF Len(meta) = loaded THEN 0 ELSE Last(meta).to

Start == IF meta = <<>> THEN 0 ELSE Last(meta).to

SavedEpisode ==
  [take |-> take, length |-> size, from |-> Start, to |-> Start + size,
   index |-> info.episodes, file |-> open, video |-> clips,
   complete |-> [c \in Cameras |-> dropped[c] = 0 /\ ~stopEvent[c]]]

(* _save_episode_metadata: the buffer is written when it is full.           *)
BufferMeta ==
  /\ main = "meta"
  /\ meta' = Append(meta, SavedEpisode)
  /\ written' = IF Len(meta) + 1 - written >= MetaBuffer THEN Len(meta) + 1 ELSE written
  /\ main' = "info"
  /\ UNCHANGED <<encoderVars, at, size, take, diskVars, clips, durable, info, sessionVars>>

(* The end of the save clears the episode buffer as well.                   *)
WriteInfo ==
  /\ main = "info"
  /\ CancelEpisode
  /\ info' = [episodes |-> info.episodes + 1, frames |-> info.frames + size]
  /\ size' = 0
  /\ take' = take + 1
  /\ main' = "idle"
  /\ clips' = All(NoClip)
  /\ UNCHANGED <<at, diskVars, meta, written, durable, sessionVars>>

-------------------------------------------------------------------------------
(* finalize, on every way out of the session: the encoder and the data file.*)
CloseData ==
  /\ CancelEpisode
  /\ data' = IF open = 0 THEN data ELSE [data EXCEPT ![open].closed = TRUE]
  /\ open' = 0
  /\ size' = 0
  /\ at' = 1
  /\ clips' = All(NoClip)
  /\ take' = IF size > 0 THEN take + 1 ELSE take
  /\ main' = "closing"
  /\ UNCHANGED <<videos, metaVars, session, loaded>>

(* The last episode is saved, or the loop or add_frame raises: the robot, a *)
(* camera, an encoder that has died.                                         *)
EndSession ==
  /\ main = "idle"
  /\ CloseData
  /\ UNCHANGED spoilt

(* The rows are in a file that holds saved episodes.                        *)
RowsLeft == main # "rows" /\ meta # <<>> /\ Last(meta).file = open

(* Whatever fails in save_episode, the operator's interrupt included, ends  *)
(* the session too.                                                          *)
FailedCall ==
  /\ CloseData
  /\ spoilt' = IF RowsLeft THEN spoilt \cup {Len(meta)} ELSE spoilt

EncoderFailed ==
  /\ main = "collect"
  /\ Failed(at)
  /\ FailedCall

VideoMissing ==
  /\ main = "video"
  /\ thread[at] # "done" \/ file[at] = <<>>
  /\ FailedCall

SaveFails ==
  /\ main \in Saving
  /\ FailedCall

(* The metadata.                                                            *)
CloseMeta ==
  /\ main = "closing"
  /\ written' = Len(meta)
  /\ durable' = Len(meta)
  /\ main' = "none"
  /\ UNCHANGED <<encoderVars, at, size, take, diskVars, clips, meta, info, sessionVars>>

(* A parquet file has its footer, without which nothing of it can be read,  *)
(* only once it is closed.                                                   *)
Crash ==
  /\ main \in Session
  /\ CancelEpisode
  /\ data' = IF open = 0 THEN data ELSE [data EXCEPT ![open] = Unclosed(<<>>)]
  /\ open' = 0
  /\ size' = 0
  /\ at' = 1
  /\ clips' = All(NoClip)
  /\ meta' = SubSeq(meta, 1, durable)
  /\ written' = durable
  /\ spoilt' = IF info.episodes > durable THEN spoilt \cup {durable} ELSE spoilt
  /\ main' = IF written > durable THEN "lost" ELSE "none"
  /\ take' = IF size > 0 THEN take + 1 ELSE take
  /\ UNCHANGED <<videos, durable, info, session, loaded>>

(* The dataset is loaded, which it cannot be without an episode, or with a  *)
(* metadata file that has no footer ("lost").                                *)
Resume ==
  /\ main = "none"
  /\ durable > 0
  /\ session < MaxSessions
  /\ loaded' = Len(meta)
  /\ session' = session + 1
  /\ main' = "idle"
  /\ UNCHANGED <<encoderVars, at, size, take, diskVars, clips, metaVars, spoilt>>

EncoderThread(c) ==
  /\ TakeFrame(c) \/ Encode(c) \/ Flush(c) \/ EncoderRaises(c)
  /\ UNCHANGED <<main, at, size, take, diskVars, clips, metaVars, sessionVars>>

SaveStep ==
  WriteRows \/ SendSentinel \/ Collect \/ CleanUp \/ MoveVideo \/ BufferMeta \/ WriteInfo

Next ==
  \/ AddFrame \/ ClearEpisodeBuffer \/ SaveEpisode
  \/ SaveStep \/ EncoderFailed \/ VideoMissing \/ SaveFails
  \/ EndSession \/ CloseMeta \/ Crash \/ Resume
  \/ \E c \in Cameras : EncoderThread(c)

SaveMoves == SaveStep \/ EncoderFailed \/ VideoMissing

EncoderMoves(c) == (TakeFrame(c) \/ Encode(c) \/ Flush(c)) /\ EncoderThread(c)

(* The encoders go on while there is something to encode, the save does what*)
(* it can do next: both are plain threads.                                   *)
Fairness ==
  /\ \A c \in Cameras : WF_vars(EncoderMoves(c))
  /\ WF_vars(SaveMoves)

Spec == Init /\ [][Next]_vars

FairSpec == Spec /\ Fairness

-------------------------------------------------------------------------------
(* A clip in the video file of a camera.                                    *)
ClipFrames(c, clip) == SubSeq(videos[c][clip.file], clip.from + 1, clip.to)

Increasing(s) == \A i \in 1..Len(s), j \in 1..Len(s) : i < j => s[i].frame < s[j].frame

(* Where the metadata says that an episode's video is, there are frames of  *)
(* this episode only, in their order, and all of them unless a full queue or *)
(* a time-out has cost some (_save_episode_video, feed_frame,                *)
(* finish_episode).                                                          *)
VideosMatch ==
  \A i \in 1..Len(meta), c \in Cameras :
    LET clip == ClipFrames(c, meta[i].video[c]) IN
    /\ \A j \in 1..Len(clip) : clip[j].take = meta[i].take
    /\ Increasing(clip)
    /\ clip # <<>>
    /\ meta[i].complete[c] => Len(clip) = meta[i].length

(* A thread has died with its queue full: the put of the sentinel waits for *)
(* ever (finish_episode).                                                    *)
Stuck == main = "sentinel" /\ thread[at] = "done" /\ Full(at)

(* Every save ends, if a thread that has died has left room in its queue.    *)
SaveEnds == main \in Saving ~> (main \notin Saving \/ Stuck)

(* So it does because every place of a save is left, at every camera: a save*)
(* only goes forward, through as many places as there are cameras.           *)
PlaceLeft(p, c) == (main = p /\ at = c) ~> (~(main = p /\ at = c) \/ Stuck)

(* What FairSpec needs for that: the save goes on unless the queue is full, *)
(* an encoder while it has something to encode.                             *)
SaveGoesOn ==
  main \in Saving /\ (main = "sentinel" => ~Full(at)) =>
    ENABLED <<SaveMoves>>_vars

EncoderGoesOn(c) ==
  thread[c] = "encoding" \/ (thread[c] = "waiting" /\ queue[c] # <<>>) =>
    ENABLED <<EncoderMoves(c)>>_vars

(* The rows of an episode in the file its metadata names.                   *)
EpisodeRowsOf(e) == {r \in {data[e.file].rows[i] : i \in 1..Len(data[e.file].rows)} : r.take = e.take}

Store == INSTANCE EpisodeStore
  WITH episodes <- [i \in 1..Len(meta) |-> EpisodeRowsOf(meta[i])], durable <- durable

(* Saved episodes stay what they were through later saves, failed saves,    *)
(* sessions and crashes, and only a crash takes any, those of its session.   *)
ImplementsEpisodeStore == Store!Spec

Seqs == INSTANCE SequencesExt

(* The table of the dataset: the rows of all files (load_nested_dataset).   *)
Table == Seqs!FlattenSeq([f \in 1..Len(data) |-> data[f].rows])

(* No failure before the i-th episode was saved has left rows or counts.    *)
Unspoilt(i) == \A n \in spoilt : i <= n

(* An episode is where its metadata says, by its number and by the index of *)
(* its rows: sessions, interrupted saves and crashes leave no gap and no     *)
(* stray row before it, but for failures that leave rows or counts behind,   *)
(* and these touch only episodes saved later. A reader finds this once every *)
(* file is closed; it holds of what is written at any time                   *)
(* (_save_episode_data, _save_episode_metadata; DatasetReader).              *)
ReadsBack ==
  \A i \in 1..Len(meta) : Unspoilt(i) =>
    LET e == meta[i] IN
    /\ e.index = i - 1
    /\ e.to = e.from + e.length
    /\ e.to <= Len(Table)
    /\ \A k \in 1..e.length :
         Table[e.from + k] = [take |-> e.take, frame |-> k, index |-> e.from + k - 1]
===============================================================================
