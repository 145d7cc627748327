------------------------------ MODULE EpisodeLog ------------------------------
(* What a recorded rollout promises: episodes are saved whole, one after the *)
(* other, from frames that come later than those already saved, and a copy   *)
(* on the Hub holds a number of whole episodes. (rollout/strategies/.)       *)
EXTENDS Naturals, Sequences

VARIABLES
  episodes, \* the saved episodes, each a sequence of frames
  hub       \* how many of them the copy on the Hub holds

Init == episodes = <<>> /\ hub = 0

(* Frames of consecutive ticks.                                             *)
Contiguous(e) == \A k \in DOMAIN e : e[k].tick = e[1].tick + k - 1

(* The tick of the last frame saved.                                        *)
SavedUpTo(es) == IF es = <<>> THEN 0 ELSE es[Len(es)][Len(es[Len(es)])].tick

Save ==
  /\ episodes' # episodes
  /\ Len(episodes') = Len(episodes) + 1
  /\ SubSeq(episodes', 1, Len(episodes)) = episodes
  /\ LET e == episodes'[Len(episodes')]
     IN  e # <<>> /\ Contiguous(e) /\ e[1].tick > SavedUpTo(episodes)
  /\ UNCHANGED hub

Upload == hub' = Len(episodes) /\ UNCHANGED episodes

Next == Save \/ Upload

Spec == Init /\ [][Next]_<<episodes, hub>>
===============================================================================
