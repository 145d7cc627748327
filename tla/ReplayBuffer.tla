------------------------------ MODULE ReplayBuffer ----------------------------
(* ReplayBuffer with optimize_memory, as the learner uses it: a ring of      *)
(* transitions without their next states, which a sample takes from the slot *)
(* that follows (rl/buffer.py). A state is named by where it was observed:   *)
(* the actor's life, the episode and the step.                               *)
EXTENDS Integers, Sequences

CONSTANT Capacity

ASSUME CapacityAssumption == Capacity \in Nat \ {0}

VARIABLES
  slots,    \* the transitions stored
  position, \* where the next one goes
  size,
  added     \* history: all transitions ever added

bufferVars == <<slots, position, size, added>>

(* The last transition of an episode is done or truncated.                  *)
Transition == [life : Nat, episode : Nat, step : Nat, last : BOOLEAN]

Slots == 0..(Capacity - 1)

(* torch.empty.                                                             *)
Unwritten == [life |-> 0, episode |-> 0, step |-> 0, last |-> FALSE]

BufferTypeOK ==
  /\ slots \in [Slots -> Transition]
  /\ position \in Slots
  /\ size \in 0..Capacity
  /\ added \in Seq(Transition)

BufferInit ==
  /\ slots = [i \in Slots |-> Unwritten]
  /\ position = 0
  /\ size = 0
  /\ added = <<>>

(* Mutant: the ring is one slot too short.                                  *)
AddToShortRing(t) ==
  /\ slots' = [slots EXCEPT ![position] = t]
  /\ position' = IF position + 1 < Capacity - 1 THEN position + 1 ELSE 0
  /\ size' = IF size < Capacity THEN size + 1 ELSE Capacity
  /\ added' = Append(added, t)

(* Mutant: the size is not kept down to the capacity.                       *)
AddWithoutLimit(t) ==
  /\ slots' = [slots EXCEPT ![position] = t]
  /\ position' = (position + 1) % Capacity
  /\ size' = size + 1
  /\ added' = Append(added, t)

Add(t) ==
  /\ slots' = [slots EXCEPT ![position] = t]
  /\ position' = (position + 1) % Capacity
  /\ size' = IF size < Capacity THEN size + 1 ELSE Capacity
  /\ added' = Append(added, t)

(* Mutant: the newest transition may be drawn before the ring is full.      *)
AllWritten == 0..(size - 1)

(* The indices a sample may draw.                                           *)
Drawn == IF size < Capacity THEN 0..(size - 2) ELSE 0..(size - 1)

(* The slot whose state is taken as next state of the transition in slot i. *)
NextSlot(i) == (i + 1) % Capacity

State(t) == [life |-> t.life, episode |-> t.episode, step |-> t.step]
===============================================================================
