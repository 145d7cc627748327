----------------------------- MODULE EpisodePush ------------------------------
(* What the recording strategies of a rollout share: the dataset as they see *)
(* it, the lock under which episodes are saved, and the single thread that   *)
(* uploads the dataset while the rollout goes on. (rollout/strategies/,      *)
(* lerobot_dataset.py and the writer behind it.)                             *)
EXTENDS Integers, Sequences

VARIABLES
  buffer,    \* the frames of the episode being recorded
  usable,    \* no save_episode has failed half-way and spoilt the buffer
  episodes,  \* the episodes saved
  closed,    \* the dataset is finalized: its files have their footers
  needsPush, \* _needs_push
  lock,      \* _episode_lock is free or held by the push thread
  queued,    \* uploads submitted to the executor and not begun
  pusher,    \* where the push thread is
  snapshot,  \* the files it has read for the upload under way
  hub        \* the copy on the Hub

dataVars == <<buffer, usable, episodes, closed>>
pushVars == <<lock, queued, pusher, snapshot, hub>>

(* A copy of the dataset: how many episodes have their rows in it, and      *)
(* whether its files can be read.                                           *)
Copy == [rows |-> Len(episodes), closed |-> closed]

Nothing == [rows |-> 0, closed |-> FALSE]

PushInit ==
  /\ buffer = <<>>
  /\ usable = TRUE
  /\ episodes = <<>>
  /\ closed = FALSE
  /\ needsPush = FALSE
  /\ lock = "free"
  /\ queued = 0
  /\ pusher = "idle"
  /\ snapshot = Nothing
  /\ hub = Nothing

-------------------------------------------------------------------------------
(* Mutant: the frames stay in the buffer.                                   *)
SaveKeepsBuffer ==
  /\ lock = "free"
  /\ usable
  /\ buffer # <<>>
  /\ episodes' = Append(episodes, buffer)
  /\ UNCHANGED <<buffer, usable, closed>>

(* Mutant: no lock is taken.                                                *)
SaveUnlocked ==
  /\ usable
  /\ buffer # <<>>
  /\ episodes' = Append(episodes, buffer)
  /\ buffer' = <<>>
  /\ UNCHANGED <<usable, closed>>

(* save_episode under the lock. It raises when no frame was recorded, when  *)
(* an earlier call has raised after taking the buffer apart, and when the   *)
(* disk or an encoder fails it.                                             *)
SaveEpisode ==
  /\ lock = "free"
  /\ usable
  /\ buffer # <<>>
  /\ episodes' = Append(episodes, buffer)
  /\ buffer' = <<>>
  /\ UNCHANGED <<usable, closed>>

SaveRaises ==
  /\ lock = "free"
  /\ usable' = (usable /\ buffer = <<>>)
  /\ UNCHANGED <<buffer, episodes, closed>>

Finalize == closed' = TRUE /\ UNCHANGED <<buffer, usable, episodes>>

-------------------------------------------------------------------------------
(* The push thread runs the submitted uploads one at a time.                *)
SubmitPush == queued' = queued + 1 /\ UNCHANGED <<lock, pusher, snapshot, hub>>

PushBegins ==
  /\ pusher = "idle"
  /\ queued > 0
  /\ lock = "free"
  /\ episodes # <<>>
  /\ queued' = queued - 1
  /\ lock' = "push"
  /\ pusher' = "read"
  /\ UNCHANGED <<snapshot, hub, needsPush>>

(* safe_push_to_hub does nothing without an episode.                        *)
PushSkipped ==
  /\ pusher = "idle"
  /\ queued > 0
  /\ lock = "free"
  /\ episodes = <<>>
  /\ queued' = queued - 1
  /\ UNCHANGED <<lock, pusher, snapshot, hub, needsPush>>

(* Mutant: the event is cleared before the upload.                          *)
ReadsAndClears ==
  /\ pusher = "read"
  /\ snapshot' = Copy
  /\ needsPush' = FALSE
  /\ pusher' = "commit"
  /\ UNCHANGED <<lock, queued, hub>>

PushReads ==
  /\ pusher = "read"
  /\ snapshot' = Copy
  /\ pusher' = "commit"
  /\ UNCHANGED <<lock, queued, hub, needsPush>>

PushCommits ==
  /\ pusher = "commit"
  /\ hub' = snapshot
  /\ snapshot' = Nothing
  /\ pusher' = "clear"
  /\ UNCHANGED <<lock, queued, needsPush>>

PushDone ==
  /\ pusher = "clear"
  /\ needsPush' = FALSE
  /\ lock' = "free"
  /\ pusher' = "idle"
  /\ UNCHANGED <<queued, snapshot, hub>>

(* Mutant: a failed upload clears the event.                                *)
FailureClears ==
  /\ pusher \in {"read", "commit"}
  /\ needsPush' = FALSE
  /\ lock' = "free"
  /\ pusher' = "idle"
  /\ UNCHANGED <<queued, snapshot, hub>>

(* Mutant: a failed upload leaves the lock held.                            *)
FailureKeepsLock ==
  /\ pusher \in {"read", "commit"}
  /\ pusher' = "idle"
  /\ UNCHANGED <<lock, queued, snapshot, hub, needsPush>>

PushFails ==
  /\ pusher \in {"read", "commit"}
  /\ snapshot' = Nothing
  /\ lock' = "free"
  /\ pusher' = "idle"
  /\ UNCHANGED <<queued, hub, needsPush>>

PushThread ==
  PushBegins \/ PushSkipped \/ PushReads \/ PushCommits \/ PushDone \/ PushFails
===============================================================================
