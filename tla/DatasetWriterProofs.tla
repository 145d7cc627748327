-------------------------- MODULE DatasetWriterProofs --------------------------
(* What recording leaves on disk, proved for every number of cameras, size of *)
(* the queues and of the metadata buffer, and every sequence of sessions,     *)
(* failures and crashes.                                                     *)
EXTENDS DatasetWriter, SequenceTheorems, TLAPS

USE CamerasAssumption, QueueAssumption, MetaBufferAssumption, BoundsAssumption

-------------------------------------------------------------------------------
(* The inductive invariant.                                                 *)

(* What is on disk was there when the session began.                        *)
CountsOK ==
  /\ loaded <= durable
  /\ main \in Session => durable = loaded
  /\ main \in {"none", "lost"} => durable = Len(meta)
  /\ main \in {"closing", "none", "lost"} => open = 0

(* How far the save has got.                                                *)
SavingOK ==
  /\ main \in Saving => size > 0
  /\ main \in Saving \ {"rows"} =>
       open # 0 /\ \E k \in 1..Len(data[open].rows) : data[open].rows[k].take = take
  /\ main = "cleanup" => at = 1
  /\ main = "video" => \A c \in 1..(at - 1) : clips[c].file \in 1..Len(videos[c])
  /\ main = "meta" => \A c \in Cameras : clips[c].file \in 1..Len(videos[c])

(* The metadata names files that are there, in their order; the open one     *)
(* holds none of the episodes that the session found.                        *)
FilesOK ==
  \A i \in 1..Len(meta) :
    /\ meta[i].file \in 1..Len(data)
    /\ \A c \in Cameras : meta[i].video[c].file \in 1..Len(videos[c])
    /\ \A j \in 1..i : meta[j].file <= meta[i].file
    /\ open # 0 => meta[i].file <= open /\ (i <= loaded => meta[i].file < open)

(* The episode buffer has a number of its own.                              *)
TakesOK ==
  \A i \in 1..Len(meta) : meta[i].take <= take /\ (main # "info" => meta[i].take < take)

StoreInv == CountsOK /\ SavingOK /\ FilesOK /\ TakesOK

-------------------------------------------------------------------------------
(* Sequences.                                                               *)

LEMMA LastIn ==
  ASSUME NEW S, NEW s \in Seq(S), s # <<>>
  PROVE  Len(s) \in 1..Len(s) /\ Last(s) = s[Len(s)] /\ Last(s) \in S
BY DEF Last

-------------------------------------------------------------------------------
(* Types.                                                                   *)

EncoderType ==
  /\ active \in BOOLEAN
  /\ queue \in [Cameras -> Seq(Nat)]
  /\ thread \in [Cameras -> {"none", "waiting", "encoding", "done"}]
  /\ file \in [Cameras -> Seq(Nat)]
  /\ result \in [Cameras -> {"none", "ok", "error"}]
  /\ stopEvent \in [Cameras -> BOOLEAN]
  /\ dropped \in [Cameras -> Nat]

DataFile == [rows : Seq(Row), closed : BOOLEAN]
VideoFrame == [take : Nat, frame : Nat]

DiskType ==
  /\ data \in Seq(DataFile)
  /\ open \in 0..Len(data)
  /\ videos \in [Cameras -> Seq(Seq(VideoFrame))]

MetaType ==
  /\ meta \in Seq(Episode)
  /\ durable \in Nat /\ written \in durable..Len(meta)
  /\ loaded \in 0..Len(meta)
  /\ info \in [episodes : Nat, frames : Nat]
  /\ spoilt \in SUBSET Nat

CallType ==
  /\ main \in Session \cup {"none", "lost"}
  /\ at \in Cameras
  /\ size \in Nat
  /\ take \in Nat
  /\ session \in Nat
  /\ clips \in [Cameras -> Clip]

LEMMA TypeParts ==
  TypeOK <=> EncoderType /\ DiskType /\ MetaType /\ CallType /\ (size = 0 => ~active)
BY DEF TypeOK, EncoderType, DiskType, MetaType, CallType, DataFile, VideoFrame

LEMMA TypePartsNext ==
  TypeOK' <=> EncoderType' /\ DiskType' /\ MetaType' /\ CallType' /\ (size' = 0 => ~active')
BY DEF TypeOK, EncoderType, DiskType, MetaType, CallType, DataFile, VideoFrame

LEMMA AllType ==
  ASSUME NEW S, NEW x \in S
  PROVE  All(x) \in [Cameras -> S] /\ \A c \in Cameras : All(x)[c] = x
BY DEF All

LEMMA NoClipType == NoClip \in Clip
BY DEF NoClip, Clip

LEMMA AllTypes ==
  /\ All(<<>>) \in [Cameras -> Seq(Nat)]
  /\ All("none") \in [Cameras -> {"none", "waiting", "encoding", "done"}]
  /\ All("none") \in [Cameras -> {"none", "ok", "error"}]
  /\ All("waiting") \in [Cameras -> {"none", "waiting", "encoding", "done"}]
  /\ All(<<1>>) \in [Cameras -> Seq(Nat)]
  /\ All(FALSE) \in [Cameras -> BOOLEAN]
  /\ All(0) \in [Cameras -> Nat]
  /\ All(NoClip) \in [Cameras -> Clip]
<1>1. <<>> \in Seq(Nat) /\ <<1>> \in Seq(Nat)
  OBVIOUS
<1> QED
  BY <1>1, NoClipType DEF All

LEMMA CancelType == CancelEpisode => EncoderType' /\ ~active'
BY AllTypes DEF CancelEpisode, EncoderType

LEMMA EncoderInitType == EncoderInit => EncoderType /\ ~active
BY AllTypes DEF EncoderInit, EncoderType

LEMMA ThreadType ==
  ASSUME EncoderType, NEW c \in Cameras, EncoderThread(c)
  PROVE  EncoderType' /\ active' = active
<1>1. CASE TakeFrame(c)
  <2>1. Head(queue[c]) \in Nat /\ Tail(queue[c]) \in Seq(Nat)
    BY <1>1 DEF TakeFrame, EncoderType
  <2>2. Append(file[c], Head(queue[c])) \in Seq(Nat)
    BY <2>1 DEF EncoderType
  <2> QED
    BY <1>1, <2>1, <2>2 DEF TakeFrame, EncoderType
<1>2. CASE Encode(c)
  BY <1>2 DEF Encode, EncoderType
<1>3. CASE Flush(c)
  BY <1>3 DEF Flush, EncoderType
<1>4. CASE EncoderRaises(c)
  <2>1. SubSeq(file[c], 1, Len(file[c]) - 1) \in Seq(Nat)
    <3>1. file[c] \in Seq(Nat)
      BY DEF EncoderType
    <3> QED
      BY <3>1
  <2>2. file' \in [Cameras -> Seq(Nat)]
    BY <1>4, <2>1 DEF EncoderRaises, EncoderType
  <2> QED
    BY <1>4, <2>2 DEF EncoderRaises, EncoderType
<1> QED
  BY <1>1, <1>2, <1>3, <1>4 DEF EncoderThread

LEMMA TypeInit == Init => TypeOK
<1> SUFFICES ASSUME Init PROVE TypeOK
  OBVIOUS
<1>1. EncoderType /\ ~active
  BY EncoderInitType DEF Init
<1>2. CallType
  BY NoClipType, AllType DEF Init, CallType, Session, Saving, Cameras
<1>3. CASE Created
  <2>1. DiskType
    <3>1. <<>> \in Seq(DataFile) /\ <<>> \in Seq(Seq(VideoFrame))
      OBVIOUS
    <3>2. videos \in [Cameras -> Seq(Seq(VideoFrame))]
      BY <1>3, <3>1, AllType DEF Created
    <3> QED
      BY <1>3, <3>1, <3>2 DEF Init, Created, DiskType
  <2>2. MetaType
    BY <1>3 DEF Init, Created, MetaType
  <2> QED
    BY <1>1, <1>2, <2>1, <2>2, TypeParts
<1>4. CASE Loaded
  <2>1. DiskType
    <3>1. [take |-> 0, frame |-> 1, index |-> 0] \in Row
      BY DEF Row
    <3>2. <<[take |-> 0, frame |-> 1, index |-> 0]>> \in Seq(Row)
      BY <3>1
    <3>3. data \in Seq(DataFile)
      BY <1>4, <3>2 DEF Loaded, DataFile
    <3>4. <<<<[take |-> 0, frame |-> 1]>>>> \in Seq(Seq(VideoFrame))
      BY DEF VideoFrame
    <3>5. videos \in [Cameras -> Seq(Seq(VideoFrame))]
      BY <1>4, <3>4, AllType DEF Loaded
    <3> QED
      BY <3>3, <3>5 DEF Init, DiskType
  <2>2. MetaType
    <3>1. All([file |-> 1, from |-> 0, to |-> 1]) \in [Cameras -> Clip]
      BY AllType DEF Clip
    <3>2. All(TRUE) \in [Cameras -> BOOLEAN]
      BY AllType
    <3> DEFINE v == All([file |-> 1, from |-> 0, to |-> 1])
               b == All(TRUE)
    <3> HIDE DEF v, b
    <3>3. [take |-> 0, length |-> 1, from |-> 0, to |-> 1, index |-> 0, file |-> 1,
           video |-> v, complete |-> b] \in Episode
      BY <3>1, <3>2 DEF Episode, v, b
    <3>4. meta \in Seq(Episode)
      BY <1>4, <3>3 DEF Loaded, v, b
    <3> QED
      BY <1>4, <3>4 DEF Init, Loaded, MetaType
  <2> QED
    BY <1>1, <1>2, <2>1, <2>2, TypeParts
<1> QED
  BY <1>3, <1>4 DEF Init

-------------------------------------------------------------------------------
(* The operators of a save.                                                 *)

(* The last episode is where files and positions go on.                     *)
LEMMA LastEpisode ==
  ASSUME TypeOK, FilesOK
  PROVE  /\ meta # <<>> => /\ Len(meta) \in 1..Len(meta)
                           /\ Last(meta) = meta[Len(meta)] /\ Last(meta) \in Episode
                           /\ Last(meta).file \in 1..Len(data)
         /\ \A i \in 1..Len(meta) : meta # <<>> /\ meta[i] \in Episode
         /\ FirstFile \in 1..(Len(data) + 1)
         /\ \A i \in 1..Len(meta) : meta[i].file < FirstFile
         /\ \A c \in Cameras : /\ LatestClip(c) \in Clip
                               /\ LatestClip(c).file \in 0..Len(videos[c])
                               /\ meta # <<>> => LatestClip(c) = meta[Len(meta)].video[c]
         /\ Start \in Nat
<1>1. MetaType /\ DiskType
  BY TypeParts
<1>2. \A i \in 1..Len(meta) : meta # <<>> /\ meta[i] \in Episode
  BY <1>1 DEF MetaType
<1>3. CASE meta = <<>>
  <2>1. LatestClip(1) = NoClip /\ \A c \in Cameras : LatestClip(c) = NoClip
    BY <1>3 DEF LatestClip
  <2>2. NoClip.file = 0
    BY DEF NoClip
  <2>3. \A c \in Cameras : Len(videos[c]) \in Nat
    BY <1>1 DEF DiskType
  <2>4. Len(data) \in Nat
    BY <1>1 DEF DiskType
  <2> QED
    BY <1>3, <2>1, <2>2, <2>3, <2>4, NoClipType DEF FirstFile, Start
<1>4. CASE meta # <<>>
  <2>1. Len(meta) \in 1..Len(meta) /\ Last(meta) = meta[Len(meta)] /\ Last(meta) \in Episode
    BY <1>1, <1>4, LastIn DEF MetaType
  <2>2. /\ meta[Len(meta)].file \in 1..Len(data)
        /\ \A c \in Cameras : meta[Len(meta)].video[c].file \in 1..Len(videos[c])
        /\ \A j \in 1..Len(meta) : meta[j].file <= meta[Len(meta)].file
    BY <2>1 DEF FilesOK
  <2>3. Last(meta).to \in Nat /\ Last(meta).video \in [Cameras -> Clip]
    BY <2>1 DEF Episode
  <2>4. FirstFile = meta[Len(meta)].file + 1 /\ Start = Last(meta).to
    BY <1>4, <2>1 DEF FirstFile, Start
  <2>5. \A c \in Cameras : LatestClip(c) = Last(meta).video[c]
    BY <1>4 DEF LatestClip
  <2>6. \A i \in 1..Len(meta) : meta[i].file \in Nat
    BY <1>2 DEF Episode
  <2>7. Len(data) \in Nat
    BY <1>1 DEF DiskType
  <2>8. \A c \in Cameras : /\ LatestClip(c) \in Clip
                           /\ LatestClip(c).file \in 0..Len(videos[c])
                           /\ LatestClip(c) = meta[Len(meta)].video[c]
    BY <2>1, <2>2, <2>3, <2>5
  <2>9. \A i \in 1..Len(meta) : meta[i].file < FirstFile
    BY <2>2, <2>4, <2>6
  <2> QED
    BY <1>2, <2>1, <2>2, <2>3, <2>4, <2>7, <2>8, <2>9
<1> QED
  BY <1>3, <1>4

LEMMA RowsType ==
  ASSUME TypeOK
  PROVE  /\ EpisodeRows \in Seq(Row) /\ Len(EpisodeRows) = size
         /\ \A k \in 1..size : EpisodeRows[k].take = take
<1>1. size \in Nat /\ take \in Nat /\ info.frames \in Nat
  BY DEF TypeOK
<1>2. \A k \in 1..size : [take |-> take, frame |-> k, index |-> info.frames + k - 1] \in Row
  BY <1>1 DEF Row
<1> DEFINE R(k) == [take |-> take, frame |-> k, index |-> info.frames + k - 1]
<1>3. \A k \in 1..size : R(k) \in Row /\ R(k).take = take
  BY <1>2
<1> HIDE DEF R
<1>4. [k \in 1..size |-> R(k)] \in Seq(Row) /\ Len([k \in 1..size |-> R(k)]) = size
  BY <1>1, <1>3
<1>5. EpisodeRows = [k \in 1..size |-> R(k)]
  BY DEF EpisodeRows, R
<1> QED
  BY <1>3, <1>4, <1>5

(* A file put after the last one, or in the place of one.                   *)
LEMMA FilePut ==
  ASSUME NEW s \in Seq(DataFile), NEW i \in 1..(Len(s) + 1), NEW x \in DataFile
  PROVE  /\ PutAt(s, i, x) \in Seq(DataFile)
         /\ Len(PutAt(s, i, x)) >= Len(s) /\ i \in 1..Len(PutAt(s, i, x))
         /\ PutAt(s, i, x)[i] = x
         /\ \A k \in 1..Len(s) : k # i => PutAt(s, i, x)[k] = s[k]
<1>1. CASE i = Len(s) + 1
  BY <1>1 DEF PutAt
<1>2. CASE i # Len(s) + 1
  <2>1. i \in 1..Len(s)
    BY <1>2
  <2>2. [s EXCEPT ![i] = x] \in Seq(DataFile) /\ Len([s EXCEPT ![i] = x]) = Len(s)
    BY <2>1
  <2> QED
    BY <1>2, <2>1, <2>2 DEF PutAt
<1> QED
  BY <1>1, <1>2


LEMMA VideoPut ==
  ASSUME NEW s \in Seq(Seq(VideoFrame)), NEW i \in 1..(Len(s) + 1), NEW x \in Seq(VideoFrame)
  PROVE  /\ PutAt(s, i, x) \in Seq(Seq(VideoFrame))
         /\ Len(PutAt(s, i, x)) >= Len(s) /\ i \in 1..Len(PutAt(s, i, x))
         /\ PutAt(s, i, x)[i] = x
         /\ \A k \in 1..Len(s) : k # i => PutAt(s, i, x)[k] = s[k]
<1>1. CASE i = Len(s) + 1
  BY <1>1 DEF PutAt
<1>2. CASE i # Len(s) + 1
  <2>1. i \in 1..Len(s)
    BY <1>2
  <2>2. [s EXCEPT ![i] = x] \in Seq(Seq(VideoFrame)) /\ Len([s EXCEPT ![i] = x]) = Len(s)
    BY <2>1
  <2> QED
    BY <1>2, <2>1, <2>2 DEF PutAt
<1> QED
  BY <1>1, <1>2

(* Rows go to one file, which is new or was open.                           *)
LEMMA RowsWritten ==
  ASSUME TypeOK, FilesOK, WriteRows
  PROVE  /\ data' \in Seq(DataFile)
         /\ Len(data') >= Len(data) /\ open' \in 1..Len(data')
         /\ open # 0 => open <= open'
         /\ \A k \in 1..Len(data) : k # open' => data'[k].rows = data[k].rows
         /\ \/ open' = open /\ data'[open'].rows = data[open].rows \o EpisodeRows
            \/ /\ open' # open /\ open' = IF open = 0 THEN FirstFile ELSE open + 1
               /\ data'[open'].rows = EpisodeRows
<1>1. data \in Seq(DataFile) /\ open \in 0..Len(data) /\ Len(data) \in Nat
  BY TypeParts DEF DiskType
<1>2. EpisodeRows \in Seq(Row)
  BY RowsType
<1> DEFINE new == Unclosed(EpisodeRows)
<1>3. new \in DataFile /\ new.rows = EpisodeRows
  BY <1>2 DEF Unclosed, DataFile
<1>4. FirstFile \in 1..(Len(data) + 1)
  BY LastEpisode
<1> HIDE DEF new
<1>5. CASE open = 0 /\ data' = PutAt(data, FirstFile, new) /\ open' = FirstFile
  <2> DEFINE d == PutAt(data, FirstFile, new)
  <2>1. /\ d \in Seq(DataFile)
        /\ Len(d) >= Len(data) /\ FirstFile \in 1..Len(d)
        /\ d[FirstFile] = new
        /\ \A k \in 1..Len(data) : k # FirstFile => d[k] = data[k]
    BY <1>1, <1>3, <1>4, FilePut
  <2>2. data' = d
    BY <1>5
  <2> HIDE DEF d
  <2> QED
    BY <1>3, <1>4, <1>5, <2>1, <2>2
<1>6. CASE open # 0 /\ data' = [data EXCEPT ![open].rows = @ \o EpisodeRows] /\ open' = open
  <2>1. open \in 1..Len(data)
    BY <1>1, <1>6
  <2>2. data[open] \in DataFile
    BY <1>1, <2>1
  <2>3. data[open].rows \o EpisodeRows \in Seq(Row)
    BY <1>2, <2>2 DEF DataFile
  <2> DEFINE d == [data[open] EXCEPT !.rows = @ \o EpisodeRows]
  <2>4. d \in DataFile /\ d.rows = data[open].rows \o EpisodeRows
    BY <2>2, <2>3 DEF DataFile
  <2>5. data' = [data EXCEPT ![open] = d]
    BY <1>6
  <2> HIDE DEF d
  <2>6. /\ data' \in Seq(DataFile) /\ Len(data') = Len(data)
        /\ data'[open] = d /\ \A k \in 1..Len(data) : k # open => data'[k] = data[k]
    BY <1>1, <2>1, <2>4, <2>5
  <2> QED
    BY <1>1, <1>6, <2>1, <2>4, <2>6
<1>7. CASE /\ open # 0
           /\ data' = PutAt([data EXCEPT ![open].closed = TRUE], open + 1, new)
           /\ open' = open + 1
  <2>1. open \in 1..Len(data)
    BY <1>1, <1>7
  <2>2. data[open] \in DataFile
    BY <1>1, <2>1
  <2> DEFINE d == [data[open] EXCEPT !.closed = TRUE]
             closed == [data EXCEPT ![open] = d]
  <2>3. d \in DataFile /\ d.rows = data[open].rows
    BY <2>2 DEF DataFile
  <2>4. data' = PutAt(closed, open + 1, new)
    BY <1>7
  <2> HIDE DEF d
  <2>5. /\ closed \in Seq(DataFile) /\ Len(closed) = Len(data)
        /\ \A k \in 1..Len(data) : closed[k].rows = data[k].rows
    BY <1>1, <2>1, <2>3
  <2> HIDE DEF closed
  <2> DEFINE more == PutAt(closed, open + 1, new)
  <2>6. /\ more \in Seq(DataFile)
        /\ Len(more) >= Len(closed) /\ open + 1 \in 1..Len(more)
        /\ more[open + 1] = new
        /\ \A k \in 1..Len(closed) : k # open + 1 => more[k] = closed[k]
    <3>1. open + 1 \in 1..(Len(closed) + 1)
      BY <2>1, <2>5
    <3> QED
      <4>1. closed \in Seq(DataFile) /\ new \in DataFile
        BY <1>3, <2>5
      <4> QED
        BY <3>1, <4>1, FilePut
  <2>7. data' = more
    BY <2>4
  <2> HIDE DEF more
  <2>8. \A k \in 1..Len(data) : k # open' => data'[k].rows = data[k].rows
    BY <1>7, <2>5, <2>6, <2>7
  <2>9. open' # open /\ open <= open'
    BY <1>7, <2>1
  <2> QED
    BY <1>3, <1>7, <2>5, <2>6, <2>7, <2>8, <2>9
<1> QED
  BY <1>5, <1>6, <1>7 DEF WriteRows, new

LEMMA FramesType ==
  ASSUME TypeOK, NEW c \in Cameras
  PROVE  /\ Frames(c) \in Seq(VideoFrame) /\ Len(Frames(c)) = Len(file[c])
         /\ \A i \in 1..Len(file[c]) : Frames(c)[i] = [take |-> take, frame |-> file[c][i]]
<1>1. file[c] \in Seq(Nat) /\ take \in Nat
  BY DEF TypeOK
<1> DEFINE F(i) == [take |-> take, frame |-> file[c][i]]
           n == Len(file[c])
<1>2. n \in Nat /\ \A i \in 1..n : F(i) \in VideoFrame
  BY <1>1 DEF VideoFrame
<1>3. Frames(c) = [i \in 1..n |-> F(i)]
  BY DEF Frames
<1> HIDE DEF F, n
<1>4. Frames(c) \in Seq(VideoFrame) /\ Len(Frames(c)) = n
  BY <1>2, <1>3
<1> QED
  BY <1>3, <1>4 DEF F, n

(* A clip goes to one file of its camera, the latest one or the next.       *)
LEMMA VideoMoved ==
  ASSUME TypeOK, FilesOK, MoveVideo
  PROVE  /\ videos' \in [Cameras -> Seq(Seq(VideoFrame))]
         /\ clips' \in [Cameras -> Clip]
         /\ \A c \in Cameras : Len(videos'[c]) >= Len(videos[c])
         /\ \A c \in Cameras : c # at => videos'[c] = videos[c] /\ clips'[c] = clips[c]
         /\ clips'[at].file \in 1..Len(videos'[at])
         /\ \A k \in 1..Len(videos[at]) :
              k # clips'[at].file => videos'[at][k] = videos[at][k]
         /\ \/ /\ clips'[at] = ClipAt(LatestClip(at).file + 1, 0)
               /\ videos'[at][clips'[at].file] = Frames(at)
            \/ /\ Len(meta) > loaded
               /\ clips'[at] = ClipAt(LatestClip(at).file, LatestClip(at).to)
               /\ LatestClip(at).file \in 1..Len(videos[at])
               /\ videos'[at][clips'[at].file] = videos[at][LatestClip(at).file] \o Frames(at)
<1> DEFINE latest == LatestClip(at)
<1>1. /\ at \in Cameras /\ videos \in [Cameras -> Seq(Seq(VideoFrame))]
      /\ clips \in [Cameras -> Clip] /\ file[at] \in Seq(Nat)
      /\ Len(meta) \in Nat /\ loaded \in Nat
  BY TypeParts DEF DiskType, CallType, EncoderType, MetaType
<1>2. videos[at] \in Seq(Seq(VideoFrame)) /\ Len(videos[at]) \in Nat /\ Len(file[at]) \in Nat
  BY <1>1
<1>3. latest \in Clip /\ latest.file \in 0..Len(videos[at]) /\ latest.to \in Nat
  BY <1>1, LastEpisode DEF Clip
<1>4. Frames(at) \in Seq(VideoFrame)
  BY <1>1, FramesType
<1>5. \A f \in Nat, from \in Nat : ClipAt(f, from) \in Clip /\ ClipAt(f, from).file = f
  BY <1>2 DEF ClipAt, Clip
<1>6. Len(meta) > loaded => latest.file \in 1..Len(videos[at])
  <2>1. SUFFICES ASSUME Len(meta) > loaded PROVE latest.file \in 1..Len(videos[at])
    OBVIOUS
  <2>2. meta # <<>> /\ Len(meta) \in 1..Len(meta)
    BY <1>1, <2>1
  <2> QED
    BY <1>1, <2>2, LastEpisode DEF FilesOK
<1> HIDE DEF latest
<1>7. CASE /\ videos' = [videos EXCEPT ![at] = PutAt(@, latest.file + 1, Frames(at))]
           /\ clips' = [clips EXCEPT ![at] = ClipAt(latest.file + 1, 0)]
  <2> DEFINE v == PutAt(videos[at], latest.file + 1, Frames(at))
  <2>1. latest.file + 1 \in 1..(Len(videos[at]) + 1)
    BY <1>2, <1>3
  <2>2. /\ v \in Seq(Seq(VideoFrame)) /\ Len(v) >= Len(videos[at])
        /\ latest.file + 1 \in 1..Len(v) /\ v[latest.file + 1] = Frames(at)
        /\ \A k \in 1..Len(videos[at]) : k # latest.file + 1 => v[k] = videos[at][k]
    <3> DEFINE w == videos[at]
               f == latest.file + 1
               x == Frames(at)
    <3>1. w \in Seq(Seq(VideoFrame)) /\ f \in 1..(Len(w) + 1) /\ x \in Seq(VideoFrame)
      BY <1>2, <1>4, <2>1
    <3> HIDE DEF w, f, x
    <3>2. /\ PutAt(w, f, x) \in Seq(Seq(VideoFrame)) /\ Len(PutAt(w, f, x)) >= Len(w)
          /\ f \in 1..Len(PutAt(w, f, x)) /\ PutAt(w, f, x)[f] = x
          /\ \A k \in 1..Len(w) : k # f => PutAt(w, f, x)[k] = w[k]
      BY <3>1, VideoPut
    <3> QED
      BY <3>2 DEF w, f, x
  <2>3. videos' = [videos EXCEPT ![at] = v]
    BY <1>7
  <2> HIDE DEF v
  <2>4. ClipAt(latest.file + 1, 0) \in Clip /\ ClipAt(latest.file + 1, 0).file = latest.file + 1
    BY <1>3, <1>5
  <2>5. /\ videos' \in [Cameras -> Seq(Seq(VideoFrame))] /\ videos'[at] = v
        /\ \A c \in Cameras : c # at => videos'[c] = videos[c]
    BY <1>1, <2>2, <2>3
  <2>6. /\ clips' \in [Cameras -> Clip] /\ clips'[at] = ClipAt(latest.file + 1, 0)
        /\ \A c \in Cameras : c # at => clips'[c] = clips[c]
    BY <1>1, <1>7, <2>4
  <2>7. \A c \in Cameras : Len(videos'[c]) >= Len(videos[c])
    <3>1. \A c \in Cameras : Len(videos[c]) \in Nat
      BY <1>1
    <3>2. TAKE c \in Cameras
    <3>3. CASE c = at
      BY <2>2, <2>5, <3>1, <3>3
    <3>4. CASE c # at
      BY <2>2, <2>5, <3>1, <3>4
    <3> QED
      BY <3>3, <3>4
  <2> QED
    BY <2>2, <2>4, <2>5, <2>6, <2>7 DEF latest
<1>8. CASE /\ Len(meta) > loaded
           /\ videos' = [videos EXCEPT ![at][latest.file] = @ \o Frames(at)]
           /\ clips' = [clips EXCEPT ![at] = ClipAt(latest.file, latest.to)]
  <2> DEFINE x == videos[at][latest.file] \o Frames(at)
             v == [videos[at] EXCEPT ![latest.file] = x]
  <2>1. latest.file \in 1..Len(videos[at])
    BY <1>6, <1>8
  <2>2. videos[at][latest.file] \in Seq(VideoFrame)
    BY <1>2, <2>1
  <2>3. x \in Seq(VideoFrame)
    BY <1>4, <2>2
  <2>4. videos' = [videos EXCEPT ![at] = v]
    BY <1>8
  <2> HIDE DEF x
  <2>5. /\ v \in Seq(Seq(VideoFrame)) /\ Len(v) = Len(videos[at])
        /\ v[latest.file] = x
        /\ \A k \in 1..Len(videos[at]) : k # latest.file => v[k] = videos[at][k]
    BY <1>2, <2>1, <2>3
  <2> HIDE DEF v
  <2>6. ClipAt(latest.file, latest.to) \in Clip /\ ClipAt(latest.file, latest.to).file = latest.file
    BY <1>3, <1>5
  <2>7. /\ videos' \in [Cameras -> Seq(Seq(VideoFrame))] /\ videos'[at] = v
        /\ \A c \in Cameras : c # at => videos'[c] = videos[c]
    BY <1>1, <2>4, <2>5
  <2>8. /\ clips' \in [Cameras -> Clip] /\ clips'[at] = ClipAt(latest.file, latest.to)
        /\ \A c \in Cameras : c # at => clips'[c] = clips[c]
    BY <1>1, <1>8, <2>6
  <2>9. \A c \in Cameras : Len(videos'[c]) >= Len(videos[c])
    <3>1. \A c \in Cameras : Len(videos[c]) \in Nat
      BY <1>1
    <3>2. TAKE c \in Cameras
    <3>3. CASE c = at
      BY <2>5, <2>7, <3>1, <3>3
    <3>4. CASE c # at
      BY <2>5, <2>7, <3>1, <3>4
    <3> QED
      BY <3>3, <3>4
  <2> QED
    BY <1>8, <2>1, <2>5, <2>6, <2>7, <2>8, <2>9 DEF latest, x
<1> QED
  BY <1>7, <1>8 DEF MoveVideo, latest

-------------------------------------------------------------------------------
(* Type correctness.                                                        *)

LEMMA FeedType ==
  ASSUME TypeOK, AddFrame
  PROVE  EncoderType'
<1>1. EncoderType
  BY TypeParts
<1>2. CASE StartEpisode
  BY <1>2, AllTypes DEF StartEpisode, EncoderType
<1>3. CASE FeedFrame(size + 1)
  <2>1. size + 1 \in Nat
    BY DEF TypeOK
  <2>2. queue' \in [Cameras -> Seq(Nat)]
    BY <1>1, <1>3, <2>1 DEF FeedFrame, EncoderType
  <2>3. dropped' \in [Cameras -> Nat]
    BY <1>1, <1>3 DEF FeedFrame, EncoderType
  <2> QED
    BY <1>1, <1>3, <2>2, <2>3 DEF FeedFrame, EncoderType
<1> QED
  BY <1>2, <1>3 DEF AddFrame

LEMMA NextCameraType ==
  ASSUME at \in Cameras, NEW after, NextCamera(after)
  PROVE  /\ at' \in Cameras /\ main' \in {main, after}
         /\ \/ main' = main /\ at' = at + 1
            \/ main' = after /\ at' = 1 /\ at = NumCameras
BY DEF NextCamera, Cameras

(* Closing the open file leaves its rows.                                   *)
LEMMA FileClosed ==
  ASSUME TypeOK, data' = IF open = 0 THEN data ELSE [data EXCEPT ![open].closed = TRUE]
  PROVE  /\ data' \in Seq(DataFile) /\ Len(data') = Len(data)
         /\ \A k \in 1..Len(data) : data'[k].rows = data[k].rows
<1>1. data \in Seq(DataFile) /\ open \in 0..Len(data)
  BY TypeParts DEF DiskType
<1>2. CASE open = 0
  BY <1>1, <1>2
<1>3. CASE open # 0
  <2>1. open \in 1..Len(data) /\ data[open] \in DataFile
    BY <1>1, <1>3
  <2> DEFINE d == [data[open] EXCEPT !.closed = TRUE]
  <2>2. d \in DataFile /\ d.rows = data[open].rows
    BY <2>1 DEF DataFile
  <2>3. data' = [data EXCEPT ![open] = d]
    BY <1>3
  <2> HIDE DEF d
  <2>4. [data EXCEPT ![open] = d] \in Seq(DataFile) /\ Len([data EXCEPT ![open] = d]) = Len(data)
    BY <1>1, <2>1, <2>2
  <2>5. data'[open] = d /\ \A k \in 1..Len(data) : k # open => data'[k] = data[k]
    BY <1>1, <2>1, <2>3
  <2> QED
    BY <2>2, <2>3, <2>4, <2>5
<1> QED
  BY <1>2, <1>3

(* A crash takes the rows of the open file.                                 *)
LEMMA FileTorn ==
  ASSUME TypeOK, data' = IF open = 0 THEN data ELSE [data EXCEPT ![open] = Unclosed(<<>>)]
  PROVE  /\ data' \in Seq(DataFile) /\ Len(data') = Len(data)
         /\ \A k \in 1..Len(data) : k # open => data'[k].rows = data[k].rows
<1>1. data \in Seq(DataFile) /\ open \in 0..Len(data)
  BY TypeParts DEF DiskType
<1>2. Unclosed(<<>>) \in DataFile
  <2>1. <<>> \in Seq(Row)
    OBVIOUS
  <2> QED
    BY <2>1 DEF Unclosed, DataFile
<1> QED
  BY <1>1, <1>2

LEMMA SavedType ==
  ASSUME TypeOK, FilesOK
  PROVE  /\ SavedEpisode \in Episode
         /\ SavedEpisode.take = take /\ SavedEpisode.file = open
         /\ SavedEpisode.video = clips /\ SavedEpisode.length = size
<1>1. /\ take \in Nat /\ size \in Nat /\ Start \in Nat /\ info.episodes \in Nat
      /\ open \in Nat /\ clips \in [Cameras -> Clip]
  BY LastEpisode, TypeParts DEF CallType, MetaType, DiskType
<1> DEFINE whole == [c \in Cameras |-> dropped[c] = 0 /\ ~stopEvent[c]]
<1>2. whole \in [Cameras -> BOOLEAN]
  OBVIOUS
<1> HIDE DEF whole
<1> DEFINE from == Start
           number == info.episodes
<1>3. from \in Nat /\ from + size \in Nat /\ number \in Nat
  BY <1>1
<1> HIDE DEF from, number
<1>4. SavedEpisode = [take |-> take, length |-> size, from |-> from, to |-> from + size,
                      index |-> number, file |-> open, video |-> clips, complete |-> whole]
  BY DEF SavedEpisode, from, number, whole
<1> QED
  BY <1>1, <1>2, <1>3, <1>4 DEF Episode

LEMMA CutMeta ==
  ASSUME TypeOK
  PROVE  /\ SubSeq(meta, 1, durable) \in Seq(Episode)
         /\ Len(SubSeq(meta, 1, durable)) = durable
         /\ \A i \in 1..durable : SubSeq(meta, 1, durable)[i] = meta[i]
<1>1. meta \in Seq(Episode) /\ durable \in 0..Len(meta)
  BY TypeParts DEF MetaType
<1> QED
  BY <1>1

LEMMA CloseDataType ==
  ASSUME TypeOK, CloseData, spoilt' \in SUBSET Nat
  PROVE  TypeOK'
<1>1. EncoderType' /\ ~active'
  BY CancelType DEF CloseData
<1>2. DiskType'
  <2>1. data' \in Seq(DataFile) /\ Len(data') \in Nat
    BY FileClosed DEF CloseData
  <2> QED
    BY <2>1, TypeParts DEF CloseData, DiskType
<1>3. MetaType'
  BY TypeParts DEF CloseData, MetaType, metaVars
<1>4. CallType'
  <2>1. clips' \in [Cameras -> Clip]
    BY AllTypes DEF CloseData
  <2>2. at' \in Cameras
    BY DEF CloseData, Cameras
  <2> QED
    BY <2>1, <2>2, TypeParts DEF CloseData, CallType, Session
<1> QED
  BY <1>1, <1>2, <1>3, <1>4, TypePartsNext

LEMMA FailedCallType ==
  ASSUME TypeOK, FailedCall
  PROVE  TypeOK'
<1>1. Len(meta) \in Nat /\ spoilt \in SUBSET Nat
  BY DEF TypeOK
<1> QED
  BY <1>1, CloseDataType DEF FailedCall

LEMMA CrashType ==
  ASSUME TypeOK, CountsOK, Crash
  PROVE  TypeOK'
<1>1. EncoderType' /\ ~active'
  BY CancelType DEF Crash
<1>2. DiskType'
  <2>1. data' \in Seq(DataFile) /\ Len(data') \in Nat
    BY FileTorn DEF Crash
  <2> QED
    BY <2>1, TypeParts DEF Crash, DiskType
<1>3. MetaType'
  <2>1. meta' \in Seq(Episode) /\ Len(meta') = durable
    BY CutMeta DEF Crash
  <2> QED
    BY <2>1, TypeParts DEF Crash, MetaType, CountsOK
<1>4. CallType'
  <2>1. clips' \in [Cameras -> Clip]
    BY AllTypes DEF Crash
  <2>2. at' \in Cameras
    BY DEF Crash, Cameras
  <2> QED
    BY <2>1, <2>2, TypeParts DEF Crash, CallType
<1> QED
  BY <1>1, <1>2, <1>3, <1>4, TypePartsNext

LEMMA SaveStepType ==
  ASSUME TypeOK, StoreInv, SaveStep
  PROVE  TypeOK'
<1>1. EncoderType /\ DiskType /\ MetaType /\ CallType /\ (size = 0 => ~active)
  BY TypeParts
<1>2. CASE WriteRows
  <2>1. DiskType'
    BY <1>1, <1>2, RowsWritten DEF StoreInv, WriteRows, DiskType
  <2>2. EncoderType' /\ MetaType' /\ (size' = 0 => ~active')
    BY <1>1, <1>2 DEF WriteRows, EncoderType, MetaType, encoderVars, metaVars, sessionVars
  <2>3. CallType'
    BY <1>1, <1>2 DEF WriteRows, CallType, sessionVars, Session, Saving, Cameras
  <2> QED
    BY <2>1, <2>2, <2>3, TypePartsNext
<1>3. CASE SendSentinel
  <2>1. EncoderType'
    <3>1. Append(queue[at], Sentinel) \in Seq(Nat)
      BY <1>1 DEF EncoderType, CallType, Sentinel
    <3>2. queue' \in [Cameras -> Seq(Nat)]
      BY <1>1, <1>3, <3>1 DEF SendSentinel, PutSentinel, EncoderType
    <3> QED
      BY <1>1, <1>3, <3>2 DEF SendSentinel, PutSentinel, EncoderType
  <2>2. DiskType' /\ MetaType'
    BY <1>1, <1>3 DEF SendSentinel, diskVars, metaVars, sessionVars, DiskType, MetaType
  <2>3. CallType' /\ (size' = 0 => ~active')
    BY <1>1, <1>3, NextCameraType
    DEF SendSentinel, PutSentinel, sessionVars, CallType, Session, Saving
  <2> QED
    BY <2>1, <2>2, <2>3, TypePartsNext
<1>4. CASE Collect
  <2>1. EncoderType' /\ active' = active
    BY <1>1, <1>4 DEF Collect, JoinTimesOut, EncoderType, encoderVars
  <2>2. DiskType' /\ MetaType'
    BY <1>1, <1>4 DEF Collect, diskVars, metaVars, sessionVars, DiskType, MetaType
  <2>3. CallType' /\ (size' = 0 => ~active')
    BY <1>1, <1>4, <2>1, NextCameraType DEF Collect, sessionVars, CallType, Session, Saving
  <2> QED
    BY <2>1, <2>2, <2>3, TypePartsNext
<1>5. CASE CleanUp
  <2>1. EncoderType' /\ ~active'
    BY <1>1, <1>5, AllTypes DEF CleanUp, Cleanup, EncoderType
  <2>2. DiskType' /\ MetaType' /\ CallType'
    BY <1>1, <1>5
    DEF CleanUp, diskVars, metaVars, sessionVars, DiskType, MetaType, CallType, Session, Saving
  <2> QED
    BY <2>1, <2>2, TypePartsNext
<1>6. CASE MoveVideo
  <2>1. videos' \in [Cameras -> Seq(Seq(VideoFrame))] /\ clips' \in [Cameras -> Clip]
    BY <1>6, VideoMoved DEF StoreInv
  <2>2. DiskType'
    BY <1>1, <1>6, <2>1 DEF MoveVideo, DiskType
  <2>3. EncoderType' /\ MetaType'
    BY <1>1, <1>6 DEF MoveVideo, EncoderType, MetaType, encoderVars, metaVars, sessionVars
  <2>4. CallType' /\ (size' = 0 => ~active')
    BY <1>1, <1>6, <2>1, NextCameraType
    DEF MoveVideo, encoderVars, sessionVars, CallType, Session, Saving
  <2> QED
    BY <2>2, <2>3, <2>4, TypePartsNext
<1>7. CASE BufferMeta
  <2>1. meta' \in Seq(Episode) /\ Len(meta') = Len(meta) + 1
    BY <1>1, <1>7, SavedType DEF StoreInv, BufferMeta, MetaType
  <2>2. written' \in durable..(Len(meta) + 1)
    BY <1>1, <1>7 DEF BufferMeta, MetaType
  <2>3. MetaType'
    BY <1>1, <1>7, <2>1, <2>2 DEF BufferMeta, MetaType, sessionVars
  <2>4. EncoderType' /\ DiskType' /\ CallType' /\ (size' = 0 => ~active')
    BY <1>1, <1>7
    DEF BufferMeta, encoderVars, diskVars, sessionVars, EncoderType, DiskType, CallType,
        Session, Saving
  <2> QED
    BY <2>3, <2>4, TypePartsNext
<1>8. CASE WriteInfo
  <2>1. EncoderType' /\ ~active'
    BY <1>8, CancelType DEF WriteInfo
  <2>2. info' \in [episodes : Nat, frames : Nat]
    BY <1>1, <1>8 DEF WriteInfo, MetaType, CallType
  <2>3. DiskType' /\ MetaType'
    BY <1>1, <1>8, <2>2 DEF WriteInfo, diskVars, sessionVars, DiskType, MetaType
  <2>4. CallType'
    BY <1>1, <1>8, AllTypes DEF WriteInfo, sessionVars, CallType, Session
  <2> QED
    BY <2>1, <2>3, <2>4, TypePartsNext
<1> QED
  BY <1>2, <1>3, <1>4, <1>5, <1>6, <1>7, <1>8 DEF SaveStep

LEMMA TypeNext == TypeOK /\ StoreInv /\ [Next]_vars => TypeOK'
<1> SUFFICES ASSUME TypeOK, StoreInv, [Next]_vars PROVE TypeOK'
  OBVIOUS
<1>1. EncoderType /\ DiskType /\ MetaType /\ CallType /\ (size = 0 => ~active)
  BY TypeParts
<1>2. CASE AddFrame
  <2>1. EncoderType'
    BY <1>2, FeedType
  <2>2. DiskType' /\ MetaType' /\ CallType' /\ size' # 0
    BY <1>1, <1>2
    DEF AddFrame, diskVars, metaVars, sessionVars, DiskType, MetaType, CallType, Session
  <2> QED
    BY <2>1, <2>2, TypePartsNext
<1>3. CASE ClearEpisodeBuffer
  <2>1. EncoderType' /\ ~active'
    BY <1>3, CancelType DEF ClearEpisodeBuffer
  <2>2. DiskType' /\ MetaType' /\ CallType'
    BY <1>1, <1>3
    DEF ClearEpisodeBuffer, diskVars, metaVars, sessionVars, DiskType, MetaType, CallType
  <2> QED
    BY <2>1, <2>2, TypePartsNext
<1>4. CASE SaveEpisode
  <2>1. EncoderType' /\ DiskType' /\ MetaType'
    BY <1>1, <1>4
    DEF SaveEpisode, encoderVars, diskVars, metaVars, sessionVars, EncoderType, DiskType, MetaType
  <2>2. CallType' /\ (size' = 0 => ~active')
    BY <1>1, <1>4 DEF SaveEpisode, encoderVars, sessionVars, CallType, Session, Saving
  <2> QED
    BY <2>1, <2>2, TypePartsNext
<1>5. CASE SaveStep
  BY <1>5, SaveStepType
<1>6. CASE EncoderFailed \/ VideoMissing \/ SaveFails
  BY <1>6, FailedCallType DEF EncoderFailed, VideoMissing, SaveFails
<1>7. CASE EndSession
  BY <1>1, <1>7, CloseDataType DEF EndSession, MetaType
<1>8. CASE CloseMeta
  <2>1. MetaType'
    BY <1>1, <1>8 DEF CloseMeta, MetaType, sessionVars
  <2>2. EncoderType' /\ DiskType' /\ CallType' /\ (size' = 0 => ~active')
    BY <1>1, <1>8
    DEF CloseMeta, encoderVars, diskVars, sessionVars, EncoderType, DiskType, CallType
  <2> QED
    BY <2>1, <2>2, TypePartsNext
<1>9. CASE Crash
  BY <1>9, CrashType DEF StoreInv
<1>10. CASE Resume
  <2>1. MetaType'
    BY <1>1, <1>10 DEF Resume, MetaType, metaVars
  <2>2. EncoderType' /\ DiskType' /\ CallType' /\ (size' = 0 => ~active')
    BY <1>1, <1>10
    DEF Resume, encoderVars, diskVars, EncoderType, DiskType, CallType, Session
  <2> QED
    BY <2>1, <2>2, TypePartsNext
<1>11. CASE \E c \in Cameras : EncoderThread(c)
  <2>1. EncoderType' /\ active' = active
    BY <1>1, <1>11, ThreadType
  <2>2. DiskType' /\ MetaType' /\ CallType' /\ size' = size
    BY <1>1, <1>11
    DEF EncoderThread, diskVars, metaVars, sessionVars, DiskType, MetaType, CallType
  <2> QED
    BY <1>1, <2>1, <2>2, TypePartsNext
<1>12. CASE UNCHANGED vars
  <2>1. EncoderType' /\ DiskType' /\ MetaType' /\ CallType' /\ (size' = 0 => ~active')
    BY <1>1, <1>12
    DEF vars, encoderVars, diskVars, metaVars, sessionVars, EncoderType, DiskType, MetaType,
        CallType
  <2> QED
    BY <2>1, TypePartsNext
<1> QED
  BY <1>2, <1>3, <1>4, <1>5, <1>6, <1>7, <1>8, <1>9, <1>10, <1>11, <1>12 DEF Next

-------------------------------------------------------------------------------
(* The invariant is kept.                                                   *)

LEMMA FilesKept ==
  ASSUME TypeOK, FilesOK, UNCHANGED <<meta, loaded>>, open' \in {0, open},
         Len(data') \in Nat, Len(data') >= Len(data),
         \A c \in Cameras : Len(videos'[c]) \in Nat /\ Len(videos'[c]) >= Len(videos[c])
  PROVE  FilesOK'
<1>1. Len(data) \in Nat /\ \A c \in Cameras : Len(videos[c]) \in Nat
  BY TypeParts DEF DiskType
<1> SUFFICES ASSUME NEW i \in 1..Len(meta)
             PROVE  /\ meta[i].file \in 1..Len(data')
                    /\ \A c \in Cameras : meta[i].video[c].file \in 1..Len(videos'[c])
                    /\ \A j \in 1..i : meta[j].file <= meta[i].file
                    /\ open' # 0 => meta[i].file <= open' /\ (i <= loaded => meta[i].file < open')
  BY DEF FilesOK
<1>2. meta[i].file \in 1..Len(data')
  BY <1>1 DEF FilesOK
<1>3. \A c \in Cameras : meta[i].video[c].file \in 1..Len(videos'[c])
  BY <1>1 DEF FilesOK
<1>4. \A j \in 1..i : meta[j].file <= meta[i].file
  BY DEF FilesOK
<1> QED
  BY <1>2, <1>3, <1>4 DEF FilesOK

LEMMA DiskKept ==
  ASSUME TypeOK, FilesOK, UNCHANGED <<meta, loaded>>, UNCHANGED <<data, open, videos>>
  PROVE  FilesOK'
<1>1. Len(data) \in Nat /\ \A c \in Cameras : Len(videos[c]) \in Nat
  BY TypeParts DEF DiskType
<1> QED
  BY <1>1, FilesKept

LEMMA TakesKept ==
  ASSUME TypeOK, TakesOK, UNCHANGED meta, take' \in {take, take + 1},
         main' # "info" => main # "info" \/ take' = take + 1
  PROVE  TakesOK'
<1>1. take \in Nat /\ \A i \in 1..Len(meta) : meta[i].take \in Nat
  <2>1. \A i \in 1..Len(meta) : meta[i] \in Episode
    BY TypeParts DEF MetaType
  <2> QED
    BY <2>1, TypeParts DEF Episode, CallType
<1> QED
  BY <1>1 DEF TakesOK

(* Steps that leave the disk, the metadata and the counts alone.            *)
LEMMA QuietKeeps ==
  ASSUME TypeOK, StoreInv, UNCHANGED <<data, open, videos>>, UNCHANGED metaVars,
         UNCHANGED loaded, take' \in {take, take + 1},
         \/ main' = main /\ main \notin Saving
         \/ main = "idle" /\ main' = "rows" /\ size' > 0
         \/ /\ main' = main /\ main \in Saving
            /\ UNCHANGED <<size, take, at, clips>>
  PROVE  StoreInv'
<1>1. CountsOK'
  BY DEF StoreInv, CountsOK, metaVars, Session, Saving
<1>2. SavingOK'
  BY DEF StoreInv, SavingOK, Saving
<1>3. FilesOK'
  BY DiskKept DEF StoreInv, metaVars
<1>4. TakesOK'
  BY TakesKept DEF StoreInv, metaVars, Saving
<1> QED
  BY <1>1, <1>2, <1>3, <1>4 DEF StoreInv

LEMMA WriteRowsKeeps ==
  ASSUME TypeOK, StoreInv, WriteRows
  PROVE  StoreInv'
<1>1. /\ data' \in Seq(DataFile) /\ Len(data') \in Nat /\ Len(data') >= Len(data)
      /\ open' \in 1..Len(data')
      /\ open # 0 => open <= open'
  BY RowsWritten DEF StoreInv
<1>2. CountsOK'
  BY DEF WriteRows, StoreInv, CountsOK, metaVars, sessionVars, Session, Saving
<1>3. SavingOK'
  <2>1. size \in Nat /\ size > 0
    BY DEF WriteRows, StoreInv, SavingOK, Saving, TypeOK
  <2>2. \E k \in 1..Len(data'[open'].rows) : data'[open'].rows[k].take = take
    <3>1. EpisodeRows \in Seq(Row) /\ Len(EpisodeRows) = size /\ EpisodeRows[1].take = take
      BY <2>1, RowsType
    <3>2. CASE open' # open /\ data'[open'].rows = EpisodeRows
      BY <2>1, <3>1, <3>2
    <3>3. CASE open' = open /\ data'[open'].rows = data[open].rows \o EpisodeRows
      <4>1. open \in 1..Len(data)
        BY <1>1, <3>3, TypeParts DEF DiskType
      <4>2. data[open].rows \in Seq(Row)
        <5>1. data[open] \in DataFile
          BY <4>1, TypeParts DEF DiskType
        <5> QED
          BY <5>1 DEF DataFile
      <4> DEFINE r == data[open].rows
                 k == Len(r) + 1
      <4>3. r \in Seq(Row)
        BY <4>2
      <4> HIDE DEF r
      <4>4. k \in 1..Len(r \o EpisodeRows) /\ (r \o EpisodeRows)[k] = EpisodeRows[1]
        BY <2>1, <3>1, <4>3
      <4> QED
        BY <3>1, <3>3, <4>4 DEF r
    <3> QED
      BY <3>2, <3>3, RowsWritten DEF StoreInv
  <2> QED
    BY <1>1, <2>1, <2>2 DEF WriteRows, SavingOK, Saving
<1>4. FilesOK'
  <2>0. /\ meta' = meta /\ loaded' = loaded /\ videos' = videos
        /\ Len(data) \in Nat /\ open \in Nat /\ loaded \in Nat
    BY TypeParts DEF WriteRows, metaVars, sessionVars, DiskType, MetaType
  <2> SUFFICES ASSUME NEW i \in 1..Len(meta)
               PROVE  /\ meta[i].file \in 1..Len(data')
                      /\ \A c \in Cameras : meta[i].video[c].file \in 1..Len(videos[c])
                      /\ \A j \in 1..i : meta[j].file <= meta[i].file
                      /\ meta[i].file <= open' /\ (i <= loaded => meta[i].file < open')
    BY <2>0 DEF FilesOK
  <2>1. meta[i].file \in 1..Len(data')
    BY <1>1, <2>0 DEF StoreInv, FilesOK
  <2>2. /\ \A c \in Cameras : meta[i].video[c].file \in 1..Len(videos[c])
        /\ \A j \in 1..i : meta[j].file <= meta[i].file
        /\ open # 0 => meta[i].file <= open /\ (i <= loaded => meta[i].file < open)
    BY DEF StoreInv, FilesOK
  <2>3. meta[i].file <= open' /\ (i <= loaded => meta[i].file < open')
    <3>1. CASE open # 0
      BY <1>1, <2>0, <2>1, <2>2, <3>1
    <3>2. CASE open = 0
      <4>1. open' = FirstFile
        BY <1>1, <3>2, RowsWritten DEF StoreInv
      <4>2. meta[i].file < FirstFile /\ FirstFile \in Nat
        BY LastEpisode DEF StoreInv
      <4> QED
        BY <2>1, <4>1, <4>2
    <3> QED
      BY <3>1, <3>2
  <2> QED
    BY <2>1, <2>2, <2>3
<1>5. TakesOK'
  BY TakesKept DEF StoreInv, WriteRows, metaVars
<1> QED
  BY <1>2, <1>3, <1>4, <1>5 DEF StoreInv

LEMMA MoveVideoKeeps ==
  ASSUME TypeOK, StoreInv, MoveVideo
  PROVE  StoreInv'
<1>1. /\ \A c \in Cameras : Len(videos[c]) \in Nat /\ Len(videos'[c]) \in Nat
      /\ \A c \in Cameras : Len(videos'[c]) >= Len(videos[c])
      /\ \A c \in Cameras : c # at => clips'[c] = clips[c]
      /\ clips'[at].file \in 1..Len(videos'[at])
  <2>1. /\ videos \in [Cameras -> Seq(Seq(VideoFrame))]
        /\ videos' \in [Cameras -> Seq(Seq(VideoFrame))]
    BY VideoMoved, TypeParts DEF StoreInv, DiskType
  <2>2. \A c \in Cameras : Len(videos[c]) \in Nat /\ Len(videos'[c]) \in Nat
    BY <2>1
  <2> QED
    BY <2>2, VideoMoved DEF StoreInv
<1>2. /\ main = "video" /\ at \in Cameras
      /\ \/ main' = "video" /\ at' = at + 1
         \/ main' = "meta" /\ at' = 1 /\ at = NumCameras
  BY NextCameraType, TypeParts DEF MoveVideo, CallType, NextCamera
<1>3. CountsOK'
  BY <1>2 DEF MoveVideo, StoreInv, CountsOK, metaVars, sessionVars, Session, Saving
<1>4. SavingOK'
  <2>1. \A c \in 1..at : clips'[c].file \in 1..Len(videos'[c])
    <3> TAKE c \in 1..at
    <3>1. c \in Cameras
      BY <1>2 DEF Cameras
    <3>2. CASE c = at
      BY <1>1, <3>2
    <3>3. CASE c # at
      <4>1. c \in 1..(at - 1)
        BY <1>2, <3>3 DEF Cameras
      <4>2. clips[c].file \in 1..Len(videos[c])
        BY <1>2, <4>1 DEF StoreInv, SavingOK
      <4> QED
        BY <1>1, <3>1, <3>3, <4>2
    <3> QED
      BY <3>2, <3>3
  <2>2. /\ size' = size /\ size > 0 /\ open' = open /\ data' = data /\ take' = take
        /\ open # 0 /\ \E k \in 1..Len(data[open].rows) : data[open].rows[k].take = take
    BY <1>2 DEF MoveVideo, StoreInv, SavingOK, Saving
  <2>3. main' = "video" => \A c \in 1..(at' - 1) : clips'[c].file \in 1..Len(videos'[c])
    BY <1>2, <2>1 DEF Cameras
  <2>4. main' = "meta" => \A c \in Cameras : clips'[c].file \in 1..Len(videos'[c])
    BY <1>2, <2>1 DEF Cameras
  <2> QED
    BY <1>2, <2>2, <2>3, <2>4 DEF SavingOK, Saving
<1>5. FilesOK'
  <2>1. Len(data) \in Nat
    BY TypeParts DEF DiskType
  <2> QED
    BY <1>1, <2>1, FilesKept DEF MoveVideo, StoreInv, metaVars, sessionVars
<1>6. TakesOK'
  BY <1>2, TakesKept DEF StoreInv, MoveVideo, metaVars
<1> QED
  BY <1>3, <1>4, <1>5, <1>6 DEF StoreInv

LEMMA BufferMetaKeeps ==
  ASSUME TypeOK, StoreInv, BufferMeta
  PROVE  StoreInv'
<1> DEFINE n == Len(meta)
<1>1. /\ meta' \in Seq(Episode) /\ Len(meta') = n + 1 /\ n \in Nat
      /\ \A i \in 1..n : meta'[i] = meta[i] /\ meta[i] \in Episode
      /\ meta'[n + 1] = SavedEpisode
  <2>1. meta \in Seq(Episode) /\ SavedEpisode \in Episode
    BY SavedType, TypeParts DEF StoreInv, MetaType
  <2> DEFINE e == SavedEpisode
  <2>2. e \in Episode /\ meta' = Append(meta, e)
    BY <2>1 DEF BufferMeta
  <2> HIDE DEF e
  <2> QED
    BY <2>1, <2>2 DEF e
<1>2. SavedEpisode.take = take /\ SavedEpisode.file = open /\ SavedEpisode.video = clips
  BY SavedType DEF StoreInv
<1>3. /\ main = "meta" /\ main' = "info"
      /\ UNCHANGED <<size, take, at, data, open, videos, clips, durable, loaded>>
  BY DEF BufferMeta, diskVars, sessionVars
<1>4. open \in 1..Len(data) /\ Len(data) \in Nat /\ loaded \in 0..n /\ take \in Nat
  BY <1>3, TypeParts DEF StoreInv, SavingOK, Saving, DiskType, MetaType, CallType
<1>5. CountsOK'
  BY <1>3 DEF StoreInv, CountsOK, Session, Saving
<1>6. SavingOK'
  BY <1>3 DEF StoreInv, SavingOK, Saving
<1> HIDE DEF n
<1>7. FilesOK'
  <2> SUFFICES ASSUME NEW i \in 1..(n + 1)
               PROVE  /\ meta'[i].file \in 1..Len(data)
                      /\ \A c \in Cameras : meta'[i].video[c].file \in 1..Len(videos[c])
                      /\ \A j \in 1..i : meta'[j].file <= meta'[i].file
                      /\ meta'[i].file <= open /\ (i <= loaded => meta'[i].file < open)
    BY <1>1, <1>3 DEF FilesOK
  <2>1. \A j \in 1..n : /\ meta'[j].file \in 1..Len(data)
                        /\ \A c \in Cameras : meta'[j].video[c].file \in 1..Len(videos[c])
                        /\ meta'[j].file <= open /\ (j <= loaded => meta'[j].file < open)
    <3>1. open # 0 /\ \A j \in 1..n : meta'[j] = meta[j]
      BY <1>1, <1>4
    <3>2. \A j \in 1..n : /\ meta[j].file \in 1..Len(data)
                          /\ \A c \in Cameras : meta[j].video[c].file \in 1..Len(videos[c])
                          /\ meta[j].file <= open /\ (j <= loaded => meta[j].file < open)
      BY <3>1 DEF StoreInv, FilesOK, n
    <3> QED
      BY <3>1, <3>2
  <2>2. CASE i \in 1..n
    <3>1. \A j \in 1..i : meta[j].file <= meta[i].file
      BY <2>2 DEF StoreInv, FilesOK, n
    <3>2. \A j \in 1..i : j \in 1..n
      BY <1>1, <2>2
    <3>3. \A j \in 1..i : meta'[j].file <= meta'[i].file
      BY <1>1, <2>2, <3>1, <3>2
    <3> QED
      BY <2>1, <2>2, <3>3
  <2>3. CASE i = n + 1
    <3>1. /\ meta'[i].file = open /\ meta'[i].video = clips
          /\ \A c \in Cameras : clips[c].file \in 1..Len(videos[c])
      BY <1>1, <1>2, <1>3, <2>3 DEF StoreInv, SavingOK
    <3>2. \A j \in 1..i : meta'[j].file <= meta'[i].file
      <4> TAKE j \in 1..i
      <4>1. j \in 1..n \/ j = n + 1
        BY <1>1, <2>3
      <4> QED
        BY <1>4, <2>1, <2>3, <3>1, <4>1
    <3> QED
      BY <1>1, <1>4, <2>3, <3>1, <3>2
  <2> QED
    BY <1>1, <2>2, <2>3
<1>8. TakesOK'
  <2>1. \A i \in 1..n : meta'[i].take <= take
    BY <1>1 DEF StoreInv, TakesOK, n
  <2>2. meta'[n + 1].take <= take
    BY <1>1, <1>2, <1>4
  <2>3. \A i \in 1..(n + 1) : i \in 1..n \/ i = n + 1
    BY <1>1
  <2> QED
    BY <1>1, <1>3, <2>1, <2>2, <2>3 DEF TakesOK
<1> QED
  BY <1>5, <1>6, <1>7, <1>8 DEF StoreInv

(* The other steps of a save, between rows and metadata and at the end.     *)
LEMMA SaveStepKeeps ==
  ASSUME TypeOK, StoreInv, SaveStep
  PROVE  StoreInv'
<1>1. CASE WriteRows
  BY <1>1, WriteRowsKeeps
<1>2. CASE MoveVideo
  BY <1>2, MoveVideoKeeps
<1>3. CASE BufferMeta
  BY <1>3, BufferMetaKeeps
<1>4. CASE SendSentinel \/ Collect
  <2>1. /\ UNCHANGED <<data, open, videos>> /\ UNCHANGED metaVars /\ UNCHANGED loaded
        /\ UNCHANGED <<size, take, clips>>
    BY <1>4 DEF SendSentinel, Collect, diskVars, sessionVars
  <2>2. /\ main \in {"sentinel", "collect"} /\ main' \in {"sentinel", "collect", "cleanup"}
        /\ main' = "cleanup" => at' = 1
    <3>1. at \in Cameras
      BY TypeParts DEF CallType
    <3> QED
      BY <1>4, <3>1, NextCameraType DEF SendSentinel, Collect, NextCamera
  <2>3. CountsOK'
    BY <2>1, <2>2 DEF StoreInv, CountsOK, metaVars, Session, Saving
  <2>4. SavingOK'
    BY <2>1, <2>2 DEF StoreInv, SavingOK, Saving
  <2>5. FilesOK'
    BY <2>1, DiskKept DEF StoreInv, metaVars
  <2>6. TakesOK'
    BY <2>1, <2>2, TakesKept DEF StoreInv, metaVars
  <2> QED
    BY <2>3, <2>4, <2>5, <2>6 DEF StoreInv
<1>5. CASE CleanUp
  <2>1. /\ UNCHANGED <<data, open, videos>> /\ UNCHANGED metaVars /\ UNCHANGED loaded
        /\ UNCHANGED <<size, take, clips, at>>
        /\ main = "cleanup" /\ main' = "video"
    BY <1>5 DEF CleanUp, diskVars, sessionVars
  <2>2. CountsOK'
    BY <2>1 DEF StoreInv, CountsOK, metaVars, Session, Saving
  <2>3. SavingOK'
    <3>1. \A c \in 1..(at' - 1) : FALSE
      BY <2>1 DEF StoreInv, SavingOK
    <3> QED
      BY <2>1, <3>1 DEF StoreInv, SavingOK, Saving
  <2>4. FilesOK'
    BY <2>1, DiskKept DEF StoreInv, metaVars
  <2>5. TakesOK'
    BY <2>1, TakesKept DEF StoreInv, metaVars
  <2> QED
    BY <2>2, <2>3, <2>4, <2>5 DEF StoreInv
<1>6. CASE WriteInfo
  <2>1. /\ UNCHANGED <<data, open, videos, meta, durable, loaded>>
        /\ take' = take + 1 /\ main = "info" /\ main' = "idle"
    BY <1>6 DEF WriteInfo, diskVars, sessionVars
  <2>2. CountsOK'
    BY <2>1 DEF StoreInv, CountsOK, Session, Saving
  <2>3. SavingOK'
    BY <2>1 DEF SavingOK, Saving
  <2>4. FilesOK'
    BY <2>1, DiskKept DEF StoreInv
  <2>5. TakesOK'
    BY <2>1, TakesKept DEF StoreInv
  <2> QED
    BY <2>2, <2>3, <2>4, <2>5 DEF StoreInv
<1> QED
  BY <1>1, <1>2, <1>3, <1>4, <1>5, <1>6 DEF SaveStep

LEMMA CloseDataKeeps ==
  ASSUME TypeOK, StoreInv, CloseData, main \in Session
  PROVE  StoreInv'
<1>1. /\ UNCHANGED <<videos, meta, durable, loaded>> /\ open' = 0 /\ main' = "closing"
      /\ take' \in {take, take + 1} /\ (size > 0 => take' = take + 1)
  BY DEF CloseData, metaVars
<1>2. CountsOK'
  BY <1>1 DEF StoreInv, CountsOK, Session, Saving
<1>3. SavingOK'
  BY <1>1 DEF SavingOK, Saving
<1>4. FilesOK'
  <2>1. Len(data) \in Nat /\ Len(data') = Len(data) /\ \A c \in Cameras : Len(videos[c]) \in Nat
    BY FileClosed, TypeParts DEF CloseData, DiskType
  <2> QED
    BY <1>1, <2>1, FilesKept DEF StoreInv
<1>5. TakesOK'
  BY <1>1, TakesKept DEF StoreInv, SavingOK, Saving
<1> QED
  BY <1>2, <1>3, <1>4, <1>5 DEF StoreInv

LEMMA CrashKeeps ==
  ASSUME TypeOK, StoreInv, Crash
  PROVE  StoreInv'
<1>1. /\ UNCHANGED <<videos, durable, loaded>> /\ open' = 0 /\ main' \in {"none", "lost"}
      /\ take' \in {take, take + 1} /\ (main = "info" => take' = take + 1)
      /\ main \in Session
  BY DEF Crash, StoreInv, SavingOK, Saving
<1>2. /\ meta' \in Seq(Episode) /\ Len(meta') = durable
      /\ \A i \in 1..durable : meta'[i] = meta[i] /\ i \in 1..Len(meta)
  <2>1. durable \in 0..Len(meta) /\ Len(meta) \in Nat
    BY TypeParts DEF MetaType
  <2> QED
    BY <2>1, CutMeta DEF Crash
<1>3. CountsOK'
  BY <1>1, <1>2 DEF StoreInv, CountsOK, Session, Saving
<1>4. SavingOK'
  BY <1>1 DEF SavingOK, Saving
<1>5. FilesOK'
  <2>1. Len(data') = Len(data)
    BY FileTorn DEF Crash
  <2> SUFFICES ASSUME NEW i \in 1..durable
               PROVE  /\ meta'[i].file \in 1..Len(data)
                      /\ \A c \in Cameras : meta'[i].video[c].file \in 1..Len(videos[c])
                      /\ \A j \in 1..i : meta'[j].file <= meta'[i].file
    BY <1>1, <1>2, <2>1 DEF FilesOK
  <2>2. /\ meta[i].file \in 1..Len(data)
        /\ \A c \in Cameras : meta[i].video[c].file \in 1..Len(videos[c])
        /\ \A j \in 1..i : meta[j].file <= meta[i].file
    BY <1>2 DEF StoreInv, FilesOK
  <2>3. \A j \in 1..i : meta'[j] = meta[j]
    <3>1. durable \in Nat
      BY TypeParts DEF MetaType
    <3>2. \A j \in 1..i : j \in 1..durable
      BY <3>1
    <3> QED
      BY <1>2, <3>2
  <2> QED
    BY <1>2, <2>2, <2>3
<1>6. TakesOK'
  <2>1. take \in Nat /\ \A i \in 1..Len(meta) : meta[i].take \in Nat
    <3>1. \A i \in 1..Len(meta) : meta[i] \in Episode
      BY TypeParts DEF MetaType
    <3> QED
      BY <3>1, TypeParts DEF Episode, CallType
  <2>2. \A i \in 1..durable : meta'[i].take < take'
    BY <1>1, <1>2, <2>1 DEF StoreInv, TakesOK
  <2>3. \A i \in 1..durable : meta'[i].take <= take'
    BY <1>1, <1>2, <2>1, <2>2 DEF StoreInv, TakesOK
  <2> QED
    BY <1>2, <2>2, <2>3 DEF TakesOK
<1> QED
  BY <1>3, <1>4, <1>5, <1>6 DEF StoreInv

LEMMA StoreInit == Init => StoreInv
<1> SUFFICES ASSUME Init PROVE StoreInv
  OBVIOUS
<1>1. /\ main = "idle" /\ open = 0 /\ take = 1
      /\ durable = Len(meta) /\ loaded = Len(meta)
  BY DEF Init
<1>2. Len(meta) \in Nat
  BY TypeInit, TypeParts DEF MetaType
<1>3. CountsOK /\ SavingOK
  BY <1>1, <1>2 DEF CountsOK, SavingOK, Saving
<1>4. CASE Created
  BY <1>3, <1>4 DEF Created, StoreInv, FilesOK, TakesOK
<1>5. CASE Loaded
  <2>1. Len(meta) = 1 /\ meta[1].file = 1 /\ meta[1].take = 0 /\ Len(data) = 1
    BY <1>5 DEF Loaded
  <2>2. \A c \in Cameras : meta[1].video[c].file = 1
    <3>1. meta[1].video = All([file |-> 1, from |-> 0, to |-> 1])
      BY <1>5 DEF Loaded
    <3> QED
      BY <3>1 DEF All
  <2>3. \A c \in Cameras : Len(videos[c]) = 1
    BY <1>5 DEF Loaded, All
  <2>4. \A i \in 1..1 : i = 1
    OBVIOUS
  <2>5. FilesOK
    BY <1>1, <2>1, <2>2, <2>3, <2>4 DEF FilesOK
  <2>6. TakesOK
    BY <1>1, <2>1, <2>4 DEF TakesOK
  <2> QED
    BY <1>3, <2>5, <2>6 DEF StoreInv
<1> QED
  BY <1>4, <1>5 DEF Init

LEMMA StoreNext == TypeOK /\ StoreInv /\ [Next]_vars => StoreInv'
<1> SUFFICES ASSUME TypeOK, StoreInv, [Next]_vars PROVE StoreInv'
  OBVIOUS
<1>1. CASE AddFrame \/ ClearEpisodeBuffer
  <2>1. /\ main = "idle" /\ main' = main
        /\ UNCHANGED <<data, open, videos>> /\ UNCHANGED metaVars /\ UNCHANGED loaded
        /\ take' \in {take, take + 1}
    BY <1>1 DEF AddFrame, ClearEpisodeBuffer, diskVars, sessionVars
  <2> QED
    BY <2>1, QuietKeeps DEF Saving
<1>2. CASE SaveEpisode
  <2>1. /\ main = "idle" /\ main' = "rows" /\ size' > 0
        /\ UNCHANGED <<data, open, videos>> /\ UNCHANGED metaVars /\ UNCHANGED loaded
        /\ take' = take
    BY <1>2 DEF SaveEpisode, diskVars, sessionVars
  <2> QED
    BY <2>1, QuietKeeps
<1>3. CASE SaveStep
  BY <1>3, SaveStepKeeps
<1>4. CASE EncoderFailed \/ VideoMissing \/ SaveFails
  BY <1>4, CloseDataKeeps DEF EncoderFailed, VideoMissing, SaveFails, FailedCall, Session, Saving
<1>5. CASE EndSession
  BY <1>5, CloseDataKeeps DEF EndSession, Session
<1>6. CASE CloseMeta
  <2>1. /\ UNCHANGED <<data, open, videos, meta, loaded, take>>
        /\ main = "closing" /\ main' = "none" /\ durable' = Len(meta)
    BY <1>6 DEF CloseMeta, diskVars, sessionVars
  <2>2. CountsOK'
    <3>1. loaded \in 0..Len(meta)
      BY TypeParts DEF MetaType
    <3> QED
      BY <2>1, <3>1 DEF StoreInv, CountsOK, Session, Saving
  <2>3. SavingOK'
    BY <2>1 DEF SavingOK, Saving
  <2>4. FilesOK'
    BY <2>1, DiskKept DEF StoreInv
  <2>5. TakesOK'
    BY <2>1, TakesKept DEF StoreInv
  <2> QED
    BY <2>2, <2>3, <2>4, <2>5 DEF StoreInv
<1>7. CASE Crash
  BY <1>7, CrashKeeps
<1>8. CASE Resume
  <2>1. /\ UNCHANGED <<data, open, videos, meta, durable, take>>
        /\ main = "none" /\ main' = "idle" /\ loaded' = Len(meta) /\ open = 0
    BY <1>8 DEF Resume, diskVars, metaVars, StoreInv, CountsOK
  <2>2. CountsOK'
    BY <2>1, TypeParts DEF StoreInv, CountsOK, Session, Saving, MetaType
  <2>3. SavingOK'
    BY <2>1 DEF SavingOK, Saving
  <2>4. FilesOK'
    BY <2>1 DEF StoreInv, FilesOK
  <2>5. TakesOK'
    BY <2>1, TakesKept DEF StoreInv
  <2> QED
    BY <2>2, <2>3, <2>4, <2>5 DEF StoreInv
<1>9. CASE (\E c \in Cameras : EncoderThread(c)) \/ UNCHANGED vars
  <2>1. /\ UNCHANGED <<main, size, take, at, clips>>
        /\ UNCHANGED <<data, open, videos>> /\ UNCHANGED metaVars /\ UNCHANGED loaded
    BY <1>9 DEF EncoderThread, vars, diskVars, sessionVars
  <2> QED
    BY <2>1, QuietKeeps
<1> QED
  BY <1>1, <1>2, <1>3, <1>4, <1>5, <1>6, <1>7, <1>8, <1>9 DEF Next

LEMMA Invariance == Spec => [](TypeOK /\ StoreInv)
<1>1. Init => TypeOK /\ StoreInv
  BY TypeInit, StoreInit
<1>2. TypeOK /\ StoreInv /\ [Next]_vars => (TypeOK /\ StoreInv)'
  BY TypeNext, StoreNext
<1> QED
  BY <1>1, <1>2, PTL DEF Spec

(* Whatever is recorded, fails or crashes, the writer's state, the files and  *)
(* the metadata are of their types: no index leaves its file.                *)
THEOREM RecordingTypeCorrect == Spec => []TypeOK
BY Invariance, PTL

-------------------------------------------------------------------------------
(* The dataset as its readers see it.                                       *)

TakeRows(d, f, t) == {r \in {d[f].rows[k] : k \in 1..Len(d[f].rows)} : r.take = t}

Episodes == [i \in 1..Len(meta) |-> EpisodeRowsOf(meta[i])]

LEMMA EpisodesNow ==
  /\ Episodes = [i \in 1..Len(meta) |-> TakeRows(data, meta[i].file, meta[i].take)]
  /\ Episodes' = [i \in 1..Len(meta') |-> TakeRows(data', meta'[i].file, meta'[i].take)]
BY DEF Episodes, EpisodeRowsOf, TakeRows

LEMMA EpisodesLength ==
  ASSUME TypeOK
  PROVE  Len(Episodes) = Len(meta) /\ Len(meta) \in Nat
BY TypeParts DEF Episodes, MetaType

(* A step that leaves the rows of the saved episodes' files leaves the       *)
(* episodes.                                                                 *)
LEMMA EpisodesKept ==
  ASSUME TypeOK, FilesOK, UNCHANGED meta,
         \A k \in 1..Len(data) : data'[k].rows = data[k].rows
  PROVE  Episodes' = Episodes
<1>1. \A i \in 1..Len(meta) : data'[meta[i].file].rows = data[meta[i].file].rows
  BY DEF FilesOK
<1>2. \A i \in 1..Len(meta) :
        TakeRows(data', meta[i].file, meta[i].take) = TakeRows(data, meta[i].file, meta[i].take)
  BY <1>1 DEF TakeRows
<1> QED
  BY <1>2, EpisodesNow

(* Rows appended to a file are of another episode.                          *)
LEMMA RowsApart ==
  ASSUME NEW S, NEW old \in Seq(S), NEW new \in Seq(S), NEW t,
         \A k \in 1..Len(new) : new[k].take # t
  PROVE  {r \in {(old \o new)[k] : k \in 1..Len(old \o new)} : r.take = t}
           = {r \in {old[k] : k \in 1..Len(old)} : r.take = t}
<1> DEFINE both == old \o new
           A == {r \in {both[k] : k \in 1..Len(both)} : r.take = t}
           B == {r \in {old[k] : k \in 1..Len(old)} : r.take = t}
<1>1. /\ Len(old) \in Nat /\ Len(new) \in Nat /\ Len(both) = Len(old) + Len(new)
      /\ \A k \in 1..Len(old) : both[k] = old[k]
      /\ \A k \in 1..Len(both) : k > Len(old) => both[k] = new[k - Len(old)]
  OBVIOUS
<1> HIDE DEF both
<1>2. ASSUME NEW r \in A PROVE r \in B
  <2>1. PICK k \in 1..Len(both) : r = both[k] /\ r.take = t
    OBVIOUS
  <2>2. k \in 1..Len(old)
    <3>1. SUFFICES ASSUME k > Len(old) PROVE FALSE
      BY <1>1
    <3>2. k - Len(old) \in 1..Len(new)
      BY <1>1, <3>1
    <3> QED
      BY <1>1, <2>1, <3>1, <3>2
  <2> QED
    BY <1>1, <2>1, <2>2
<1>3. ASSUME NEW r \in B PROVE r \in A
  <2>1. PICK k \in 1..Len(old) : r = old[k] /\ r.take = t
    OBVIOUS
  <2>2. k \in 1..Len(both)
    BY <1>1
  <2> QED
    BY <1>1, <2>1, <2>2
<1>4. A = B
  BY <1>2, <1>3
<1> QED
  BY <1>4 DEF both

LEMMA WriteRowsStutters ==
  ASSUME TypeOK, StoreInv, WriteRows
  PROVE  Episodes' = Episodes
<1>1. /\ meta' = meta /\ main = "rows"
      /\ data \in Seq(DataFile) /\ take \in Nat
  BY TypeParts DEF WriteRows, metaVars, DiskType, CallType
<1>2. ASSUME NEW i \in 1..Len(meta)
      PROVE  TakeRows(data', meta[i].file, meta[i].take) = TakeRows(data, meta[i].file, meta[i].take)
  <2> DEFINE f == meta[i].file
             t == meta[i].take
  <2>1. f \in 1..Len(data) /\ f \in Nat /\ (open # 0 => f <= open) /\ f < FirstFile
    <3>1. meta[i].file < FirstFile
      BY LastEpisode DEF StoreInv
    <3> QED
      BY <3>1 DEF StoreInv, FilesOK
  <2>2. t # take
    <3>1. meta[i] \in Episode
      BY TypeParts DEF MetaType
    <3>2. t \in Nat
      BY <3>1 DEF Episode
    <3>3. t < take
      BY <1>1 DEF StoreInv, TakesOK
    <3> QED
      BY <1>1, <3>2, <3>3
  <2> HIDE DEF f, t
  <2>3. CASE f # open'
    <3>1. data'[f].rows = data[f].rows
      BY <2>1, <2>3, RowsWritten DEF StoreInv
    <3>2. TakeRows(data', f, t) = TakeRows(data, f, t)
      BY <3>1 DEF TakeRows
    <3> QED
      BY <3>2 DEF f, t
  <2>4. CASE f = open'
    <3>1. open \in Nat /\ FirstFile \in Nat
      BY LastEpisode, TypeParts DEF StoreInv, DiskType
    <3>2. open' = open /\ data'[f].rows = data[f].rows \o EpisodeRows
      <4>1. open' # (IF open = 0 THEN FirstFile ELSE open + 1)
        BY <2>1, <2>4, <3>1
      <4> QED
        BY <2>4, <4>1, RowsWritten DEF StoreInv
    <3>3. data[f].rows \in Seq(Row)
      <4>1. data[f] \in DataFile
        BY <1>1, <2>1
      <4> QED
        BY <4>1 DEF DataFile
    <3>4. EpisodeRows \in Seq(Row) /\ \A k \in 1..Len(EpisodeRows) : EpisodeRows[k].take # t
      BY <2>2, RowsType
    <3> DEFINE old == data[f].rows
               new == EpisodeRows
    <3>5. old \in Seq(Row) /\ new \in Seq(Row) /\ \A k \in 1..Len(new) : new[k].take # t
      BY <3>3, <3>4
    <3> HIDE DEF old, new
    <3>6. {r \in {(old \o new)[k] : k \in 1..Len(old \o new)} : r.take = t}
            = {r \in {old[k] : k \in 1..Len(old)} : r.take = t}
      BY <3>5, RowsApart
    <3>7. TakeRows(data', f, t) = TakeRows(data, f, t)
      BY <3>2, <3>6 DEF TakeRows, old, new
    <3> QED
      BY <3>7 DEF f, t
  <2> QED
    BY <2>3, <2>4
<1> QED
  BY <1>1, <1>2, EpisodesNow

LEMMA BufferMetaSaves ==
  ASSUME TypeOK, StoreInv, BufferMeta
  PROVE  /\ Len(Episodes') = Len(Episodes) + 1
         /\ SubSeq(Episodes', 1, Len(Episodes)) = Episodes
         /\ Episodes'[Len(Episodes')] # {}
         /\ durable' = durable
<1> DEFINE n == Len(meta)
           e == SavedEpisode
           rows(m, i) == TakeRows(data, m[i].file, m[i].take)
<1>1. /\ meta \in Seq(Episode) /\ e \in Episode /\ e.file = open /\ e.take = take
      /\ n \in Nat
  BY SavedType, TypeParts DEF StoreInv, MetaType
<1>2. meta' = Append(meta, e) /\ data' = data /\ durable' = durable
  BY DEF BufferMeta, diskVars
<1> HIDE DEF e
<1>3. /\ Len(meta') = n + 1 /\ meta'[n + 1] = e
      /\ \A i \in 1..n : meta'[i] = meta[i]
  BY <1>1, <1>2
<1>4. /\ Len(Episodes) = n /\ Len(Episodes') = n + 1
      /\ \A i \in 1..(n + 1) : Episodes'[i] = TakeRows(data, meta'[i].file, meta'[i].take)
      /\ \A i \in 1..n : Episodes[i] = TakeRows(data, meta[i].file, meta[i].take)
      /\ Episodes = [i \in 1..n |-> Episodes[i]]
  BY <1>1, <1>2, <1>3, EpisodesNow
<1>5. \A i \in 1..n : Episodes'[i] = Episodes[i]
  <2> TAKE i \in 1..n
  <2>1. i \in 1..(n + 1)
    BY <1>1
  <2> QED
    BY <1>3, <1>4, <2>1
<1>6. SubSeq(Episodes', 1, n) = Episodes
  <2>1. SubSeq(Episodes', 1, n) = [i \in 1..n |-> Episodes'[i]]
    BY <1>1, <1>4
  <2>2. [i \in 1..n |-> Episodes'[i]] = [i \in 1..n |-> Episodes[i]]
    BY <1>5
  <2> QED
    BY <1>4, <2>1, <2>2
<1>7. Episodes'[n + 1] # {}
  <2>1. main = "meta"
    BY DEF BufferMeta
  <2>2. PICK k \in 1..Len(data[open].rows) : data[open].rows[k].take = take
    BY <2>1 DEF StoreInv, SavingOK, Saving
  <2>3. data[open].rows[k] \in TakeRows(data, open, take)
    BY <2>2 DEF TakeRows
  <2> QED
    BY <1>1, <1>3, <1>4, <2>3
<1> QED
  BY <1>2, <1>4, <1>6, <1>7

LEMMA CrashCuts ==
  ASSUME TypeOK, StoreInv, Crash
  PROVE  Episodes' = SubSeq(Episodes, 1, durable) /\ durable' = durable
<1>1. /\ meta' = SubSeq(meta, 1, durable) /\ durable' = durable /\ main \in Session
  BY DEF Crash
<1>2. /\ Len(meta') = durable /\ durable \in 0..Len(meta) /\ Len(meta) \in Nat
      /\ \A i \in 1..durable : meta'[i] = meta[i] /\ i \in 1..Len(meta)
  BY <1>1, CutMeta, TypeParts DEF MetaType
<1>3. ASSUME NEW i \in 1..durable
      PROVE  TakeRows(data', meta'[i].file, meta'[i].take)
               = TakeRows(data, meta[i].file, meta[i].take)
  <2>1. i <= loaded
    BY <1>1, TypeParts DEF StoreInv, CountsOK, MetaType
  <2>2. meta[i].file \in 1..Len(data) /\ meta[i].file # open
    <3>1. meta[i].file \in 1..Len(data) /\ (open # 0 => meta[i].file < open)
      BY <1>2, <2>1 DEF StoreInv, FilesOK
    <3>2. open \in Nat /\ Len(data) \in Nat
      BY TypeParts DEF DiskType
    <3> QED
      BY <3>1, <3>2
  <2>3. data'[meta[i].file].rows = data[meta[i].file].rows
    BY <2>2, FileTorn DEF Crash
  <2> QED
    BY <1>2, <2>3 DEF TakeRows
<1>4. Episodes' = [i \in 1..durable |-> TakeRows(data, meta[i].file, meta[i].take)]
  BY <1>2, <1>3, EpisodesNow
<1>5. SubSeq(Episodes, 1, durable) = [i \in 1..durable |-> Episodes[i]]
  BY <1>2, EpisodesNow
<1>6. \A i \in 1..durable : Episodes[i] = TakeRows(data, meta[i].file, meta[i].take)
  BY <1>2, EpisodesNow
<1> QED
  BY <1>1, <1>4, <1>5, <1>6

LEMMA OthersStutter ==
  ASSUME TypeOK, StoreInv, [Next]_vars, ~WriteRows, ~BufferMeta, ~CloseMeta, ~Crash
  PROVE  Episodes' = Episodes /\ durable' = durable
<1>1. CASE CloseData /\ UNCHANGED <<meta, durable>>
  BY <1>1, FileClosed, EpisodesKept DEF CloseData, StoreInv
<1>2. CASE UNCHANGED <<data, meta, durable>>
  BY <1>2, EpisodesKept DEF StoreInv
<1>3. CASE AddFrame \/ ClearEpisodeBuffer \/ SaveEpisode \/ Resume
  BY <1>2, <1>3 DEF AddFrame, ClearEpisodeBuffer, SaveEpisode, Resume, diskVars, metaVars
<1>4. CASE SaveStep
  BY <1>2, <1>4
  DEF SaveStep, SendSentinel, Collect, CleanUp, MoveVideo, WriteInfo, diskVars, metaVars,
      sessionVars
<1>5. CASE EncoderFailed \/ VideoMissing \/ SaveFails \/ EndSession
  BY <1>1, <1>5
  DEF EncoderFailed, VideoMissing, SaveFails, EndSession, FailedCall, CloseData, metaVars
<1>6. CASE (\E c \in Cameras : EncoderThread(c)) \/ UNCHANGED vars
  BY <1>2, <1>6 DEF EncoderThread, vars, diskVars, metaVars
<1> QED
  BY <1>3, <1>4, <1>5, <1>6 DEF Next

(* What recording does to the files is what EpisodeStore allows, for every   *)
(* number of cameras, roll-over of files, failure and crash: saved episodes  *)
(* are whole and stay as they are, and a crash takes only those added since  *)
(* the last finalize (save_episode, finalize, resume).                       *)
THEOREM RecordingImplementsStore == Spec => ImplementsEpisodeStore
<1>1. Init => Store!Init
  <2> SUFFICES ASSUME Init PROVE durable = Len(Episodes)
    BY DEF Store!Init, Episodes
  <2> QED
    BY TypeInit, EpisodesLength DEF Init
<1>2. TypeOK /\ StoreInv /\ [Next]_vars => [Store!Next]_<<Episodes, durable>>
  <2> SUFFICES ASSUME TypeOK, StoreInv, [Next]_vars
               PROVE  [Store!Next]_<<Episodes, durable>>
    OBVIOUS
  <2>1. CASE WriteRows
    <3>1. durable' = durable
      BY <2>1 DEF WriteRows, metaVars
    <3> QED
      BY <2>1, <3>1, WriteRowsStutters
  <2>2. CASE BufferMeta
    <3>1. Store!Save
      BY <2>2, BufferMetaSaves DEF Store!Save, Episodes
    <3> QED
      BY <3>1 DEF Store!Next
  <2>3. CASE CloseMeta
    <3>1. Episodes' = Episodes /\ durable' = Len(Episodes)
      <4>1. UNCHANGED <<data, meta>> /\ durable' = Len(meta)
        BY <2>3 DEF CloseMeta, diskVars
      <4> QED
        BY <4>1, EpisodesKept, EpisodesLength DEF StoreInv
    <3>2. Store!Finalize
      BY <3>1 DEF Store!Finalize, Episodes
    <3> QED
      BY <3>2 DEF Store!Next
  <2>4. CASE Crash
    <3>1. Store!Crash
      BY <2>4, CrashCuts DEF Store!Crash, Episodes
    <3> QED
      BY <3>1 DEF Store!Next
  <2>5. CASE ~WriteRows /\ ~BufferMeta /\ ~CloseMeta /\ ~Crash
    BY <2>5, OthersStutter
  <2> QED
    BY <2>1, <2>2, <2>3, <2>4, <2>5
<1>3. Spec => Store!Spec
  BY <1>1, <1>2, Invariance, PTL DEF Spec, Store!Spec, Episodes
<1> QED
  BY <1>3 DEF ImplementsEpisodeStore
===============================================================================
