------------------------------ MODULE RingBuffer ------------------------------
(* RolloutRingBuffer: the latest frames in memory, bounded by their number   *)
(* (deque(maxlen)) and by an account of their bytes (rollout/ring_buffer.py).*)
(* All frames have the same size, as the features of a dataset fix every     *)
(* shape; bytes are counted in frames.                                       *)
EXTENDS Integers, Sequences

CONSTANTS
  MaxFrames, \* _max_frames
  MaxBytes   \* _max_bytes, as a number of frames

ASSUME FramesAssumption == MaxFrames \in Nat \ {0}
ASSUME BytesAssumption == MaxBytes \in Nat \ {0}

Smaller(a, b) == IF a < b THEN a ELSE b

Drop(s, n) == SubSeq(s, n + 1, Len(s))

Empty == [frames |-> <<>>, bytes |-> 0]

(* The loop of append: frames evicted until the account leaves room, or the *)
(* buffer is empty.                                                          *)
Evicted(ring) ==
  IF ring.bytes + 1 > MaxBytes THEN Smaller(ring.bytes + 1 - MaxBytes, Len(ring.frames)) ELSE 0

(* deque(maxlen).append: the oldest frame falls out, and stays in the       *)
(* account.                                                                  *)
Push(frames, f) ==
  IF Len(frames) = MaxFrames THEN Append(Tail(frames), f) ELSE Append(frames, f)

Put(ring, f) ==
  LET n == Evicted(ring)
  IN  [frames |-> Push(Drop(ring.frames, n), f), bytes |-> ring.bytes - n + 1]
===============================================================================
