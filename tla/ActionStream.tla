----------------------------- MODULE ActionStream -----------------------------
(***************************************************************************)
(* What asynchronous inference promises to the robot, whatever the network *)
(* and the policy server do: the robot performs numbered actions, it may   *)
(* repeat an earlier one, and it never jumps over one it has not performed *)
(* yet.  RobotClient implements this specification.                        *)
(***************************************************************************)
EXTENDS Integers

VARIABLE highest  (* the highest timestep performed so far, -1 before any    *)

Init == highest = -1

(* The robot performs some action it already knows or the next one.  Only   *)
(* the highest timestep is visible here, so a repetition is a stutter.      *)
Perform == highest' = highest + 1

Spec == Init /\ [][Perform]_highest
===============================================================================
