------------------------------ MODULE EpisodeStore ----------------------------
(* What a dataset on disk promises its writer: episodes are added whole, none*)
(* is ever changed, and a crash takes only those that were added since the   *)
(* dataset was last finalized. (datasets/dataset_writer.py.)                 *)
EXTENDS Naturals, Sequences

VARIABLES
  episodes, \* the episodes, each a set of rows
  durable   \* how many of them the last finalize has secured

Init == durable = Len(episodes)

Save ==
  /\ Len(episodes') = Len(episodes) + 1
  /\ SubSeq(episodes', 1, Len(episodes)) = episodes
  /\ episodes'[Len(episodes')] # {}
  /\ UNCHANGED durable

Finalize == durable' = Len(episodes) /\ UNCHANGED episodes

Crash == episodes' = SubSeq(episodes, 1, durable) /\ UNCHANGED durable

Next == Save \/ Finalize \/ Crash

Spec == Init /\ [][Next]_<<episodes, durable>>
===============================================================================
