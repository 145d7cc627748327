--------------------------- MODULE StreamingEncoder ---------------------------
(* StreamingVideoEncoder: for each camera a bounded queue of frames and a    *)
(* thread that encodes them to a temporary file while the episode is being   *)
(* recorded (datasets/video_utils.py). A frame is its number in the episode, *)
(* a temporary file the numbers of the frames encoded.                       *)
EXTENDS Integers, Sequences

CONSTANTS
  NumCameras, \* the video keys, fed and finished in this order
  QueueSize   \* queue_maxsize

ASSUME CamerasAssumption == NumCameras \in Nat \ {0}
ASSUME QueueAssumption == QueueSize \in Nat \ {0}

VARIABLES
  active,    \* _episode_active
  queue,     \* _frame_queues
  thread,    \* the encoder threads: none, waiting, encoding or done
  file,      \* the temporary files
  result,    \* _result_queues
  stopEvent, \* _stop_events
  dropped    \* _dropped_frames

encoderVars == <<active, queue, thread, file, result, stopEvent, dropped>>

Cameras == 1..NumCameras

Sentinel == 0

Alive == {"waiting", "encoding"}

All(x) == [c \in Cameras |-> x]

EncoderInit ==
  /\ active = FALSE
  /\ queue = All(<<>>)
  /\ thread = All("none")
  /\ file = All(<<>>)
  /\ result = All("none")
  /\ stopEvent = All(FALSE)
  /\ dropped = All(0)

(* cancel_episode, and the end of the process: a thread that does not end    *)
(* within the timeout of the join has only objects of its own left.          *)
CancelEpisode ==
  /\ active' = FALSE
  /\ queue' = All(<<>>)
  /\ thread' = All("none")
  /\ file' = All(<<>>)
  /\ result' = All("none")
  /\ stopEvent' = All(FALSE)
  /\ dropped' = All(0)

(* start_episode, and the first frame, for which every queue has room.      *)
StartEpisode ==
  /\ active' = TRUE
  /\ queue' = All(<<1>>)
  /\ thread' = All("waiting")
  /\ file' = All(<<>>)
  /\ result' = All("none")
  /\ stopEvent' = All(FALSE)
  /\ dropped' = All(0)

Full(c) == Len(queue[c]) >= QueueSize

(* feed_frame for each camera: put waits for 0.1 s, then the frame is        *)
(* dropped. When a thread has died it raises instead.                        *)
FeedFrame(k) ==
  /\ \A c \in Cameras : thread[c] \in Alive
  /\ queue' = [c \in Cameras |-> IF Full(c) THEN queue[c] ELSE Append(queue[c], k)]
  /\ dropped' = [c \in Cameras |-> IF Full(c) THEN dropped[c] + 1 ELSE dropped[c]]
  /\ UNCHANGED <<active, thread, file, result, stopEvent>>

-------------------------------------------------------------------------------
(* A thread takes the next frame and encodes it, until it meets the sentinel*)
(* or finds the queue empty and the stop event set. The frame in its hands is*)
(* the last of the file already.                                             *)
TakeFrame(c) ==
  /\ thread[c] = "waiting"
  /\ queue[c] # <<>>
  /\ Head(queue[c]) # Sentinel
  /\ thread' = [thread EXCEPT ![c] = "encoding"]
  /\ file' = [file EXCEPT ![c] = Append(file[c], Head(queue[c]))]
  /\ queue' = [queue EXCEPT ![c] = Tail(queue[c])]
  /\ UNCHANGED <<active, result, stopEvent, dropped>>

Encode(c) ==
  /\ thread[c] = "encoding"
  /\ thread' = [thread EXCEPT ![c] = "waiting"]
  /\ UNCHANGED <<active, queue, file, result, stopEvent, dropped>>

AtTheEnd(c) ==
  /\ thread[c] = "waiting"
  /\ \/ queue[c] # <<>> /\ Head(queue[c]) = Sentinel
     \/ queue[c] = <<>> /\ stopEvent[c]

Flush(c) ==
  /\ AtTheEnd(c)
  /\ thread' = [thread EXCEPT ![c] = "done"]
  /\ result' = [result EXCEPT ![c] = "ok"]
  /\ UNCHANGED <<active, queue, file, stopEvent, dropped>>

(* A frame cannot be encoded, or the file not be closed.                    *)
EncoderRaises(c) ==
  /\ \/ thread[c] = "encoding" /\ file' = [file EXCEPT ![c] = SubSeq(file[c], 1, Len(file[c]) - 1)]
     \/ AtTheEnd(c) /\ UNCHANGED file
  /\ thread' = [thread EXCEPT ![c] = "done"]
  /\ result' = [result EXCEPT ![c] = "error"]
  /\ UNCHANGED <<active, queue, stopEvent, dropped>>

-------------------------------------------------------------------------------
(* The parts of finish_episode, for one camera after the other. The put of   *)
(* the sentinel has no timeout.                                              *)
PutSentinel(c) ==
  /\ ~Full(c)
  /\ queue' = [queue EXCEPT ![c] = Append(queue[c], Sentinel)]
  /\ UNCHANGED <<active, thread, file, result, stopEvent, dropped>>

(* Mutant: an error counts as a result.                                     *)
Ended(c) == thread[c] = "done"

Finished(c) == thread[c] = "done" /\ result[c] = "ok"

(* Mutant: an error is looked for while the thread runs.                    *)
ErrorUnseen(c) == thread[c] \in Alive /\ result[c] = "error"

Failed(c) == thread[c] = "done" /\ result[c] = "error"

(* The thread has not ended after 120 s, and is told to stop.               *)
JoinTimesOut(c) ==
  /\ thread[c] \in Alive
  /\ stopEvent' = [stopEvent EXCEPT ![c] = TRUE]
  /\ UNCHANGED <<active, queue, thread, file, result, dropped>>

(* _cleanup: what is left in the queues is thrown away.                     *)
Cleanup ==
  /\ active' = FALSE
  /\ queue' = All(<<>>)
  /\ UNCHANGED <<thread, file, result, stopEvent, dropped>>
===============================================================================
