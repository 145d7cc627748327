--------------------------- MODULE MCAsyncInference ---------------------------
(* AsyncInference on a small instance, with the properties the runs check.  *)
EXTENDS AsyncInference

(* Every action moves the robot: no two observations an action apart look   *)
(* alike.                                                                   *)
MovesOn == [p \in Poses |-> {(p + 1) % 4}]

(* No action moves the robot: all observations look alike.                  *)
AtRest == [p \in Poses |-> {p}]

(* The robot waits for actions.                                             *)
Waiting == running /\ highest < MaxStep /\ repeats <= MaxRepeats
           /\ rcv # "dead" /\ actionQueue = <<>>

(* As long as no call has failed and no action was repeated, a robot that   *)
(* waits gets actions: a filtered observation, an evicted one or a cleared  *)
(* must-go event never leaves both sides waiting for the other.             *)
WaitingEnds ==
  (Waiting /\ faults = 0 /\ repeats = 0) ~> (~Waiting \/ faults > 0 \/ repeats > 0)

(* robot_client.py:337, "after receiving actions, next empty queue triggers *)
(* must-go processing": a robot that waits always gets actions.             *)
EmptyQueueServed == Waiting ~> ~Waiting
===============================================================================
