------------------------------ MODULE ActionBuffer -----------------------------
(* What a rollout may count on from real-time chunking: the robot performs   *)
(* the actions of a buffer one after the other, none twice and none skipped, *)
(* while somebody else may at any time empty the buffer, put the rest of a   *)
(* new chunk in its place or add a chunk behind it.                          *)
EXTENDS Naturals, Sequences

CONSTANTS
  ChunkLen,  \* actions of a chunk
  Eras       \* the times between two resets a chunk may come from

VARIABLES
  pending,   \* the actions still to perform
  performed  \* the last action performed

vars == <<pending, performed>>

Chunk(e) == [k \in 1..ChunkLen |-> [era |-> e, step |-> k]]

Init == pending = <<>> /\ performed = [era |-> 0, step |-> 0]

Perform ==
  /\ pending # <<>>
  /\ performed' = Head(pending)
  /\ pending' = Tail(pending)

Empty == pending' = <<>> /\ UNCHANGED performed

Replace ==
  /\ \E e \in Eras, d \in 1..ChunkLen : pending' = SubSeq(Chunk(e), d + 1, ChunkLen)
  /\ UNCHANGED performed

Extend ==
  /\ \E e \in Eras : pending' = pending \o Chunk(e)
  /\ UNCHANGED performed

Next == Perform \/ Empty \/ Replace \/ Extend

Spec == Init /\ [][Next]_vars
===============================================================================
