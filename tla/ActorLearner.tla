------------------------------ MODULE ActorLearner ----------------------------
(* Distributed reinforcement learning: an actor that plays episodes, a       *)
(* learner that trains, and the three streaming calls between them, which    *)
(* run on the learner's pool of gRPC threads (rl/actor.py, rl/learner.py,    *)
(* rl/learner_service.py, rl/queue.py). The actor may crash, end and be      *)
(* started again, a call may break or be retried by its channel.             *)
EXTENDS ReplayBuffer, FiniteSets

CONSTANTS
  MaxWorkers,  \* MAX_WORKERS
  LearnAfter,  \* online_step_before_learning
  MaxEpisodes, \* bound: episodes of each life
  MaxSteps,    \* bound: steps of an episode
  MaxVersion,  \* bound: later versions of the policy count as this one
  MaxBacklog,  \* bound: parameters waiting in the learner
  MaxFaults    \* bound: restarts, broken and retried calls, transitions with NaN

ASSUME PoolAssumption == MaxWorkers \in Nat \ {0} /\ LearnAfter \in Nat \ {0}
ASSUME LimitAssumption ==
  /\ MaxFaults \in Nat /\ MaxEpisodes \in [1..(MaxFaults + 1) -> Nat] /\ MaxSteps \in Nat
  /\ MaxVersion \in Nat \ {0} /\ MaxBacklog \in Nat \ {0}

VARIABLES
  processes, \* concurrency.actor is "processes", not "threads"; this makes a
             \* difference only after the loop, and is chosen when it is left
  life,      \* history: how often the actor was started
  main,      \* where the actor's main thread is
  stop,      \* its shutdown_event
  steps,     \* steps of the episode being played
  played,    \* history: episodes finished in this life
  made,      \* history: transitions of those
  version,   \* the parameters of the actor's policy, 0 for those it started with
  outbox,    \* transitions_queue of the actor
  params,    \* the last item of parameters_queue of the actor, 0 for none:
             \* get_last_item_from_queue throws the others away
  call,      \* the actor's three calls
  sent,      \* what the handler of the transitions has received in this call
  waiting,   \* calls for which the learner's pool has no thread yet
  leaked,    \* threads in StreamParameters whose caller is gone
  inbox,     \* transition_queue of the learner
  batch,     \* the transitions being added to the replay buffer
  collected, \* history: the episodes the learner has taken from inbox
  skipped,   \* history: the states of the transitions that were not added
  paramQueue,\* parameters_queue of the learner
  pushed,    \* the latest version of the policy pushed
  learning,  \* the learner's shutdown_event is not set
  retried,   \* history: a call that had sent transitions was retried
  faults     \* how many faults have happened, but for restarts

actorVars == <<stop, steps, played, made, version, outbox, params>>
learnerVars == <<inbox, batch, collected, skipped, paramQueue, pushed, learning>>
vars == <<processes, life, main, actorVars, call, sent, waiting, leaked,
          learnerVars, bufferVars, retried, faults>>

Senders == {"transitions", "interactions"}
Calls == Senders \cup {"parameters"}

Open == {"pending", "served"}

All(x) == [k \in Calls |-> x]

(* The transitions of an episode, as the actor sends them.                  *)
Message == [life : Nat, episode : Nat, length : Nat]

Transitions(m) ==
  [i \in 1..m.length |->
     [life |-> m.life, episode |-> m.episode, step |-> i,
      last |-> i = m.length]]

TypeOK ==
  /\ BufferTypeOK
  /\ processes \in BOOLEAN
  /\ life \in Nat
  /\ main \in {"off", "connecting", "acting", "closing"}
  /\ stop \in BOOLEAN
  /\ steps \in Nat /\ played \in Nat /\ made \in Nat /\ version \in Nat
  /\ outbox \in Seq(Message)
  /\ params \in Nat
  /\ call \in [Calls -> {"none", "pending", "served", "ended"}]
  /\ sent \in Seq(Message)
  /\ waiting \in Seq(Calls \cup {"ready"})
  /\ leaked \in 0..MaxWorkers
  /\ inbox \in Seq(Message)
  /\ batch \in Seq(Transition)
  /\ collected \in Seq(Message)
  /\ skipped \in SUBSET [life : Nat, episode : Nat, step : Nat]
  /\ paramQueue \in Seq(Nat)
  /\ pushed \in 1..MaxVersion
  /\ learning \in BOOLEAN
  /\ retried \in BOOLEAN
  /\ faults \in 0..MaxFaults

Init ==
  /\ BufferInit
  /\ processes = FALSE
  /\ life = 0
  /\ main = "off"
  /\ stop = FALSE
  /\ steps = 0 /\ played = 0 /\ made = 0 /\ version = 0
  /\ outbox = <<>> /\ params = 0
  /\ call = All("none")
  /\ sent = <<>>
  /\ waiting = <<>>
  /\ leaked = 0
  /\ inbox = <<>> /\ batch = <<>> /\ collected = <<>> /\ skipped = {}
  /\ paramQueue = <<1>>
  /\ pushed = 1
  /\ learning = TRUE
  /\ retried = FALSE
  /\ faults = 0

Served == {k \in Calls : call[k] = "served"}

(* The threads of the pool that are taken.                                  *)
Busy == Cardinality(Served) + leaked

(* A call waits once at most.                                               *)
Without(k) ==
  LET places == {i \in 1..Len(waiting) : waiting[i] = k}
      place == CHOOSE i \in places : TRUE
  IN IF places = {} THEN waiting
     ELSE SubSeq(waiting, 1, place - 1) \o SubSeq(waiting, place + 1, Len(waiting))

(* The first life is no restart.                                            *)
FaultsLeft == faults + life <= MaxFaults

Fault == life > 0 /\ FaultsLeft /\ faults' = faults + 1

(* The caller gives up a call. Its handler ends, but for StreamParameters,   *)
(* which looks at its caller only when it sends.                             *)
HangUp(k) ==
  /\ call' = [call EXCEPT ![k] = "ended"]
  /\ waiting' = Without(k)
  /\ leaked' = IF k = "parameters" /\ k \in Served THEN leaked + 1 ELSE leaked

-------------------------------------------------------------------------------
(* The actor.                                                               *)

StartActor ==
  /\ main = "off"
  /\ FaultsLeft
  /\ life' = life + 1
  /\ main' = "connecting"
  /\ waiting' = IF learning THEN Append(waiting, "ready") ELSE waiting
  /\ UNCHANGED <<processes, actorVars, call, sent, leaked, learnerVars, bufferVars,
                 retried, faults>>

(* The end of the process, in whatever way.                                 *)
Gone ==
  /\ main' = "off"
  /\ processes' = FALSE
  /\ stop' = FALSE
  /\ steps' = 0 /\ played' = 0 /\ made' = 0 /\ version' = 0
  /\ outbox' = <<>> /\ params' = 0
  /\ call' = All("none")
  /\ sent' = <<>>
  /\ waiting' = <<>>
  /\ leaked' = IF "parameters" \in Served THEN leaked + 1 ELSE leaked
  /\ UNCHANGED <<life, learnerVars, bufferVars, retried, faults>>

(* establish_learner_connection after all its attempts.                     *)
ConnectFails == main = "connecting" /\ ~learning /\ Gone

Crash == main # "off" /\ Gone

(* The first signal; the second one ends the process.                       *)
Signal ==
  /\ main # "off"
  /\ stop' = TRUE
  /\ UNCHANGED <<processes, life, main, steps, played, made, version, outbox, params, call,
                 sent, waiting, leaked, learnerVars, bufferVars, retried, faults>>

Acting == main = "acting" /\ ~stop /\ played < MaxEpisodes[life] /\ steps < MaxSteps

Step ==
  /\ Acting
  /\ steps + 1 < MaxSteps
  /\ steps' = steps + 1
  /\ UNCHANGED <<processes, life, main, stop, played, made, version, outbox, params, call,
                 sent, waiting, leaked, learnerVars, bufferVars, retried, faults>>

(* The last step of an episode, then update_policy_parameters and            *)
(* push_transitions_to_transport_queue.                                      *)
LastStep ==
  /\ Acting
  /\ version' = IF params = 0 THEN version ELSE params
  /\ params' = 0
  /\ outbox' = Append(outbox, [life |-> life, episode |-> played + 1, length |-> steps + 1])
  /\ steps' = 0
  /\ played' = played + 1
  /\ made' = made + steps + 1
  /\ UNCHANGED <<processes, life, main, stop, call, sent, waiting, leaked, learnerVars,
                 bufferVars, retried, faults>>

(* All steps are done, the event is set or something raises. A closed queue  *)
(* is closed for the threads of its process.                                 *)
LeaveLoop ==
  /\ main = "acting"
  /\ main' = "closing"
  /\ stop' \in {stop, TRUE}
  /\ processes' \in BOOLEAN
  /\ outbox' = IF processes' THEN outbox ELSE <<>>
  /\ UNCHANGED <<life, steps, played, made, version, params, call, sent,
                 waiting, leaked, learnerVars, bufferVars, retried, faults>>

(* The joins return.                                                        *)
Leave == main = "closing" /\ (\A k \in Calls : call[k] = "ended") /\ Gone

-------------------------------------------------------------------------------
(* The actor's threads or processes for the three calls.                    *)

SendEpisode ==
  /\ "transitions" \in Served
  /\ ~stop
  /\ learning
  /\ outbox # <<>>
  /\ outbox' = Tail(outbox)
  /\ sent' = Append(sent, Head(outbox))
  /\ inbox' = Append(inbox, Head(outbox))
  /\ UNCHANGED <<processes, life, main, stop, steps, played, made, version, params, call,
                 waiting, leaked, batch, collected, skipped, paramQueue, pushed, learning,
                 bufferVars, retried, faults>>

(* The stream ends when the event is set.                                   *)
StreamEnds(k) ==
  /\ k \in Served
  /\ stop
  /\ HangUp(k)
  /\ UNCHANGED <<processes, life, main, actorVars, sent, learnerVars, bufferVars,
                 retried, faults>>

(* get on a closed queue.                                                   *)
StreamRaises(k) ==
  /\ ~processes
  /\ main = "closing"
  /\ call[k] \in Open
  /\ HangUp(k)
  /\ UNCHANGED <<processes, life, main, actorVars, sent, learnerVars, bufferVars,
                 retried, faults>>

-------------------------------------------------------------------------------
(* The channel.                                                             *)

Break(k) ==
  /\ call[k] \in Open
  /\ Fault
  /\ HangUp(k)
  /\ UNCHANGED <<processes, life, main, actorVars, sent, learnerVars, bufferVars,
                 retried>>

(* An answer that has begun is not asked for again.                         *)
Answered(k) == k = "parameters" /\ (version > 0 \/ params > 0)

(* grpc_channel_options: the channel makes the call again and repeats what  *)
(* it has sent.                                                              *)
Retry(k) ==
  /\ call[k] \in Open
  /\ ~Answered(k)
  /\ Fault
  /\ call' = [call EXCEPT ![k] = "pending"]
  /\ waiting' = Append(Without(k), k)
  /\ leaked' = IF k = "parameters" /\ k \in Served THEN leaked + 1 ELSE leaked
  /\ outbox' = IF k = "transitions" THEN sent \o outbox ELSE outbox
  /\ sent' = IF k = "transitions" THEN <<>> ELSE sent
  /\ retried' = (retried \/ (k = "transitions" /\ sent # <<>>))
  /\ UNCHANGED <<processes, life, main, stop, steps, played, made, version, params,
                 learnerVars, bufferVars>>

-------------------------------------------------------------------------------
(* The learner's pool.                                                      *)

(* Ready, upon which the actor's threads make their calls, in any order.    *)
Ready ==
  /\ main = "connecting"
  /\ waiting # <<>>
  /\ Busy < MaxWorkers
  /\ main' = "acting"
  /\ call' = All("pending")
  /\ waiting' \in {s \in [1..3 -> Calls] : \A k \in Calls : \E i \in 1..3 : s[i] = k}
  /\ UNCHANGED <<processes, life, actorVars, sent, leaked, learnerVars, bufferVars, retried,
                 faults>>

Accept ==
  /\ main # "connecting"
  /\ waiting # <<>>
  /\ Busy < MaxWorkers
  /\ call' = [call EXCEPT ![Head(waiting)] = "served"]
  /\ waiting' = Tail(waiting)
  /\ UNCHANGED <<processes, life, main, actorVars, sent, leaked, learnerVars, bufferVars,
                 retried, faults>>

(* get_last_item_from_queue takes everything, unless another handler is at  *)
(* it as well.                                                               *)
TakeParameters(n) ==
  /\ learning
  /\ n \in 1..Len(paramQueue)
  /\ n = Len(paramQueue) \/ leaked > 1 \/ (leaked = 1 /\ "parameters" \in Served)
  /\ paramQueue' = SubSeq(paramQueue, n + 1, Len(paramQueue))

(* Mutant: the receiver does not look at the event when parameters arrive.  *)
SendRegardless(n) ==
  /\ "parameters" \in Served
  /\ TakeParameters(n)
  /\ params' = paramQueue[n]
  /\ UNCHANGED <<call, waiting, leaked>>
  /\ UNCHANGED <<processes, life, main, stop, steps, played, made, version, outbox, sent,
                 inbox, batch, collected, skipped, pushed, learning, bufferVars,
                 retried, faults>>

(* Mutant: the time of the last push is looked at after the queue is emptied. *)
SendInTime(n) ==
  /\ "parameters" \in Served
  /\ TakeParameters(n)
  /\ IF stop \/ (~processes /\ main = "closing")
     THEN HangUp("parameters") /\ UNCHANGED params
     ELSE params' \in {params, paramQueue[n]} /\ UNCHANGED <<call, waiting, leaked>>
  /\ UNCHANGED <<processes, life, main, stop, steps, played, made, version, outbox, sent,
                 inbox, batch, collected, skipped, pushed, learning, bufferVars,
                 retried, faults>>

(* StreamParameters, when its time has come, and receive_policy, which meets*)
(* the event and a closed queue only when parameters arrive.                 *)
SendParameters(n) ==
  /\ "parameters" \in Served
  /\ TakeParameters(n)
  /\ IF stop \/ (~processes /\ main = "closing")
     THEN HangUp("parameters") /\ UNCHANGED params
     ELSE params' = paramQueue[n] /\ UNCHANGED <<call, waiting, leaked>>
  /\ UNCHANGED <<processes, life, main, stop, steps, played, made, version, outbox, sent,
                 inbox, batch, collected, skipped, pushed, learning, bufferVars,
                 retried, faults>>

(* The same for a caller that is gone.                                      *)
SendToNobody(n) ==
  /\ leaked > 0
  /\ TakeParameters(n)
  /\ leaked' = leaked - 1
  /\ UNCHANGED <<processes, life, main, actorVars, call, sent, waiting,
                 inbox, batch, collected, skipped, pushed, learning, bufferVars,
                 retried, faults>>

-------------------------------------------------------------------------------
(* The learner's main loop.                                                 *)

(* Mutant: only the last message in the queue is kept.                      *)
TakeNewestEpisode ==
  /\ learning
  /\ batch = <<>>
  /\ inbox # <<>>
  /\ batch' = Transitions(inbox[Len(inbox)])
  /\ collected' = Append(collected, inbox[Len(inbox)])
  /\ inbox' = <<>>
  /\ UNCHANGED <<processes, life, main, actorVars, call, sent, waiting, leaked,
                 skipped, paramQueue, pushed, learning, bufferVars, retried, faults>>

(* Mutant: transitions are taken only once training has begun.              *)
TakeWhileTraining ==
  /\ learning
  /\ size >= LearnAfter
  /\ batch = <<>>
  /\ inbox # <<>>
  /\ batch' = Transitions(Head(inbox))
  /\ collected' = Append(collected, Head(inbox))
  /\ inbox' = Tail(inbox)
  /\ UNCHANGED <<processes, life, main, actorVars, call, sent, waiting, leaked,
                 skipped, paramQueue, pushed, learning, bufferVars, retried, faults>>

(* process_transitions.                                                     *)
TakeEpisode ==
  /\ learning
  /\ batch = <<>>
  /\ inbox # <<>>
  /\ batch' = Transitions(Head(inbox))
  /\ collected' = Append(collected, Head(inbox))
  /\ inbox' = Tail(inbox)
  /\ UNCHANGED <<processes, life, main, actorVars, call, sent, waiting, leaked,
                 skipped, paramQueue, pushed, learning, bufferVars, retried, faults>>

AddTransition ==
  /\ learning
  /\ batch # <<>>
  /\ Add(Head(batch))
  /\ batch' = Tail(batch)
  /\ UNCHANGED <<processes, life, main, actorVars, call, sent, waiting, leaked,
                 inbox, collected, skipped, paramQueue, pushed, learning, retried, faults>>

(* It has NaN in it.                                                        *)
SkipTransition ==
  /\ learning
  /\ batch # <<>>
  /\ Fault
  /\ skipped' = skipped \cup {State(Head(batch))}
  /\ batch' = Tail(batch)
  /\ UNCHANGED <<processes, life, main, actorVars, call, sent, waiting, leaked,
                 inbox, collected, paramQueue, pushed, learning, bufferVars, retried>>

(* Training, after which the policy is pushed from time to time.            *)
Train ==
  /\ learning
  /\ batch = <<>>
  /\ inbox = <<>>
  /\ size >= LearnAfter
  /\ Drawn # {}
  /\ Len(paramQueue) < MaxBacklog
  /\ pushed' = IF pushed < MaxVersion THEN pushed + 1 ELSE pushed
  /\ paramQueue' = Append(paramQueue, pushed')
  /\ UNCHANGED <<processes, life, main, actorVars, call, sent, waiting, leaked,
                 inbox, batch, collected, skipped, learning, bufferVars, retried, faults>>

(* A signal, or something raises: the server is stopped, and no call is open*)
(* for longer than another ten seconds; what the main loop does before it     *)
(* sees the event is seen by nobody.                                         *)
LearnerEnds ==
  /\ learning
  /\ learning' = FALSE
  /\ call' = [k \in Calls |-> IF call[k] \in Open THEN "ended" ELSE call[k]]
  /\ waiting' = <<>>
  /\ leaked' = 0
  /\ inbox' = <<>> /\ batch' = <<>> /\ paramQueue' = <<>>
  /\ UNCHANGED <<processes, life, main, actorVars, sent, collected, skipped, pushed,
                 bufferVars, retried, faults>>

-------------------------------------------------------------------------------
Next ==
  \/ StartActor \/ ConnectFails \/ Crash \/ Signal
  \/ Step \/ LastStep \/ LeaveLoop \/ Leave
  \/ (\E k \in Calls : Break(k) \/ Retry(k))
  \/ (\E k \in Senders : StreamEnds(k) \/ StreamRaises(k))
  \/ SendEpisode \/ Ready \/ Accept
  \/ (\E n \in 1..Len(paramQueue) : SendParameters(n) \/ SendToNobody(n))
  \/ TakeEpisode \/ AddTransition \/ SkipTransition \/ Train \/ LearnerEnds

(* The handler of the parameters has something to send.                     *)
SendsParameters == \E n \in 1..Len(paramQueue) : SendParameters(n)

(* The threads of both sides go on. Faults, signals and crashes are not     *)
(* forced, nor is an episode ever finished.                                  *)
Fairness ==
  /\ WF_vars(ConnectFails) /\ WF_vars(Leave)
  /\ \A k \in Senders : WF_vars(StreamEnds(k) \/ StreamRaises(k))
  /\ WF_vars(SendEpisode)
  /\ WF_vars(Ready) /\ WF_vars(Accept)
  /\ WF_vars(SendsParameters)
  /\ WF_vars(\E n \in 1..Len(paramQueue) : SendToNobody(n))
  /\ WF_vars(TakeEpisode) /\ WF_vars(AddTransition) /\ WF_vars(Train)

Spec == Init /\ [][Next]_vars

FairSpec == Spec /\ Fairness

-------------------------------------------------------------------------------
(* The learner collects the episodes of each life of the actor in their     *)
(* order and without a gap, whatever breaks, and each once unless a call was *)
(* retried (send_transitions, SendTransitions, process_transitions).         *)
EpisodesInOrder ==
  \A i \in 1..Len(collected) :
    /\ collected[i].episode > 1 =>
         \E j \in 1..(i - 1) : collected[j].life = collected[i].life
                               /\ collected[j].episode = collected[i].episode - 1
    /\ \A j \in 1..(i - 1) :
         /\ collected[j].life <= collected[i].life
         /\ ~retried => <<collected[j].life, collected[j].episode>>
                          # <<collected[i].life, collected[i].episode>>

(* The ring holds the transitions added last, each where the age of it says *)
(* (ReplayBuffer.add).                                                       *)
HoldsLatest ==
  /\ size = IF Len(added) < Capacity THEN Len(added) ELSE Capacity
  /\ \A k \in 1..size : slots[(position + Capacity - k) % Capacity] = added[Len(added) + 1 - k]

Newest(i) == NextSlot(i) = position /\ size = Capacity

(* The state that a sample takes from the next slot is the next state of the*)
(* transition, but where the episode ends, where the next transition was not*)
(* added, and in the newest slot of a full ring (sample). The prefetching    *)
(* thread may sample at any time.                                            *)
NextStateTrue ==
  \A i \in Drawn :
    LET next == [State(slots[i]) EXCEPT !.step = @ + 1] IN
    ~slots[i].last /\ ~Newest(i) /\ next \notin skipped =>
      State(slots[NextSlot(i)]) = next

(* The learner has nothing to push and will not have it by itself.          *)
Idle == learning /\ size < LearnAfter /\ paramQueue = <<>>

(* All threads of the pool are taken, one at least by a handler without a   *)
(* caller, and the transitions that would let it end wait for a thread.      *)
Starved == call["transitions"] = "pending" /\ Busy = MaxWorkers /\ leaked > 0 /\ Idle

(* An actor that has played enough makes the learner train, if its calls    *)
(* hold and the pool is not starved for ever (MAX_WORKERS, StreamParameters).*)
Unheard ==
  main = "acting" /\ ~stop /\ learning /\ faults = 0
  /\ made >= LearnAfter /\ size < LearnAfter

LearnerStarts == <>[]Unheard => <>[]Starved

(* An actor that leaves its loop ends, unless the learner has nothing to send*)
(* it, or it runs as processes and no signal has come (actor_cli).           *)
ActorLeaves ==
  (<>[](main = "closing")) => <>[](Idle \/ (processes /\ ~stop))

(* An actor that plays on with the handler of its parameters being the only *)
(* one has the latest parameters again and again, unless the learner has none*)
(* to send (StreamParameters, get_last_item_from_queue).                     *)
Listening == main = "acting" /\ ~stop /\ "parameters" \in Served /\ leaked = 0

HasLatest == version = pushed \/ params = pushed

ParametersArrive == <>[](Listening /\ learning) => []<>(HasLatest \/ Idle)

(* What ParametersArrive comes down to is that the learner has added, in the*)
(* end, what the actor has sent, however much that is.                      *)
CaughtUp == batch = <<>> /\ inbox = <<>>

LearnerCatchesUp == <>[](Listening /\ learning) => <>[]CaughtUp

(* And that the handler and the learner go on where they can.               *)
ParametersGoOn ==
  /\ Listening /\ learning /\ paramQueue # <<>> => ENABLED <<SendsParameters>>_vars
  /\ learning /\ CaughtUp /\ size >= LearnAfter /\ Drawn # {} /\ paramQueue = <<>> =>
       ENABLED <<Train>>_vars
===============================================================================
