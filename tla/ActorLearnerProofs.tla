-------------------------- MODULE ActorLearnerProofs ---------------------------
(* What the learner collects, stores and samples, proved for every size of    *)
(* the ring and of the pool, every number of episodes and every fault.       *)
EXTENDS ActorLearner, SequenceTheorems, FiniteSetTheorems, TLAPS

USE CapacityAssumption, PoolAssumption, LimitAssumption

-------------------------------------------------------------------------------
(* The ring's arithmetic.                                                   *)

LEMMA Wrap ==
  ASSUME NEW n \in Nat
  PROVE  /\ n < Capacity => n % Capacity = n
         /\ n >= Capacity /\ n < 2 * Capacity => n % Capacity = n - Capacity
OBVIOUS

LEMMA NextPlace ==
  ASSUME NEW i \in Slots
  PROVE  /\ (i + 1) % Capacity \in Slots
         /\ (i + 1) % Capacity = IF i + 1 = Capacity THEN 0 ELSE i + 1
<1> DEFINE n == i + 1
<1>1. i \in 0..(Capacity - 1) /\ n \in Nat /\ n <= Capacity
  BY DEF Slots
<1> HIDE DEF n
<1>2. n < Capacity => n % Capacity = n
  BY <1>1, Wrap
<1>3. n = Capacity => n % Capacity = 0
  BY <1>1, Wrap
<1> QED
  BY <1>1, <1>2, <1>3 DEF n, Slots

(* The slot of the transition added k-th last.                              *)
LEMMA PlaceBefore ==
  ASSUME NEW i \in Slots, NEW k \in 1..Capacity
  PROVE  /\ (i + Capacity - k) % Capacity \in Slots
         /\ (i + Capacity - k) % Capacity = IF k <= i THEN i - k ELSE i + Capacity - k
<1> DEFINE n == i + Capacity - k
<1>1. i \in 0..(Capacity - 1) /\ n \in Nat /\ n < 2 * Capacity
  BY DEF Slots
<1>2. k <= i <=> n >= Capacity
  BY <1>1
<1>3. n - Capacity = i - k /\ n \in Int
  BY <1>1
<1> HIDE DEF n
<1>4. n < Capacity => n % Capacity = n
  BY <1>1, Wrap
<1>5. n >= Capacity => n % Capacity = n - Capacity
  BY <1>1, Wrap
<1>6. CASE k <= i
  <2>1. n % Capacity = i - k /\ i - k \in Slots
    BY <1>1, <1>2, <1>3, <1>5, <1>6 DEF Slots
  <2> QED
    BY <2>1, <1>6 DEF n
<1>7. CASE ~(k <= i)
  <2>1. n % Capacity = n /\ n \in Slots
    BY <1>1, <1>2, <1>4, <1>7 DEF Slots
  <2> QED
    BY <2>1, <1>7 DEF n
<1> QED
  BY <1>6, <1>7

-------------------------------------------------------------------------------
(* Types.                                                                   *)

LEMMA TransitionsType ==
  ASSUME NEW m \in Message
  PROVE  /\ Transitions(m) \in Seq(Transition)
         /\ Len(Transitions(m)) = m.length
         /\ \A i \in 1..m.length :
              Transitions(m)[i] = [life |-> m.life, episode |-> m.episode, step |-> i,
                                   last |-> i = m.length]
<1> DEFINE T(i) == [life |-> m.life, episode |-> m.episode, step |-> i, last |-> i = m.length]
<1>1. m.length \in Nat /\ m.life \in Nat /\ m.episode \in Nat
  BY DEF Message
<1>2. \A i \in 1..m.length : T(i) \in Transition
  BY <1>1 DEF Transition
<1> HIDE DEF T
<1>3. [i \in 1..m.length |-> T(i)] \in Seq(Transition)
  BY <1>1, <1>2
<1>4. Len([i \in 1..m.length |-> T(i)]) = m.length
  BY <1>1, <1>3, LenProperties
<1> QED
  BY <1>3, <1>4 DEF Transitions, T

LEMMA WithoutType ==
  ASSUME waiting \in Seq(Calls \cup {"ready"}), NEW k \in Calls
  PROVE  Without(k) \in Seq(Calls \cup {"ready"})
<1> DEFINE places == {i \in 1..Len(waiting) : waiting[i] = k}
           place == CHOOSE i \in places : TRUE
<1>1. CASE places = {}
  BY <1>1 DEF Without
<1>2. CASE places # {}
  <2>1. place \in 1..Len(waiting)
    BY <1>2
  <2> HIDE DEF place
  <2>2. SubSeq(waiting, 1, place - 1) \in Seq(Calls \cup {"ready"})
    BY <2>1
  <2>3. SubSeq(waiting, place + 1, Len(waiting)) \in Seq(Calls \cup {"ready"})
    BY <2>1
  <2>4. SubSeq(waiting, 1, place - 1) \o SubSeq(waiting, place + 1, Len(waiting))
          \in Seq(Calls \cup {"ready"})
    BY <2>2, <2>3, ConcatProperties
  <2>5. Without(k) = SubSeq(waiting, 1, place - 1) \o SubSeq(waiting, place + 1, Len(waiting))
    BY <1>2 DEF Without, place
  <2> QED
    BY <2>4, <2>5
<1> QED
  BY <1>1, <1>2

LEMMA ServedFinite ==
  IsFiniteSet(Served) /\ Cardinality(Served) \in Nat /\ IsFiniteSet(Calls)
<1>1. IsFiniteSet(Calls)
  BY FS_EmptySet, FS_AddElement, Calls = (({} \cup {"transitions"}) \cup {"interactions"}) \cup {"parameters"}
  DEF Calls, Senders
<1> QED
  BY <1>1, FS_Subset, FS_CardinalityType DEF Served

(* No more threads than the pool has.                                       *)
PoolInv == Busy <= MaxWorkers

LEMMA ServedLess ==
  ASSUME NEW k \in Served
  PROVE  Cardinality(Served \ {k}) = Cardinality(Served) - 1
BY ServedFinite, FS_RemoveElement

LEMMA ServedMore ==
  ASSUME NEW k
  PROVE  /\ Cardinality(Served \cup {k}) \in Nat
         /\ Cardinality(Served \cup {k}) <= Cardinality(Served) + 1
<1>1. Cardinality(Served \cup {k}) = IF k \in Served THEN Cardinality(Served)
                                    ELSE Cardinality(Served) + 1
  BY ServedFinite, FS_AddElement
<1> QED
  BY <1>1, ServedFinite

LEMMA RestType ==
  ASSUME paramQueue \in Seq(Nat), NEW n \in 1..Len(paramQueue)
  PROVE  /\ SubSeq(paramQueue, n + 1, Len(paramQueue)) \in Seq(Nat)
         /\ paramQueue[n] \in Nat
BY ElementOfSeq

LEMMA AddType ==
  ASSUME BufferTypeOK, NEW t \in Transition, Add(t)
  PROVE  BufferTypeOK'
<1>1. position' \in Slots
  BY NextPlace DEF Add, BufferTypeOK
<1>2. size' \in 0..Capacity
  BY DEF Add, BufferTypeOK
<1>3. slots' \in [Slots -> Transition] /\ added' \in Seq(Transition)
  BY DEF Add, BufferTypeOK
<1> QED
  BY <1>1, <1>2, <1>3 DEF BufferTypeOK

(* What becomes of the calls and of the pool.                               *)
CallsOK ==
  /\ call \in [Calls -> {"none", "pending", "served", "ended"}]
  /\ waiting \in Seq(Calls \cup {"ready"})
  /\ leaked \in 0..MaxWorkers
  /\ PoolInv

LEMMA PoolIsEnough ==
  ASSUME leaked \in Nat, PoolInv
  PROVE  leaked \in 0..MaxWorkers
BY ServedFinite DEF PoolInv, Busy

LEMMA GiveUp ==
  ASSUME CallsOK, NEW k \in Calls,
         call' = [call EXCEPT ![k] = "ended"] \/ call' = [call EXCEPT ![k] = "pending"],
         leaked' = IF k = "parameters" /\ k \in Served THEN leaked + 1 ELSE leaked
  PROVE  /\ call' \in [Calls -> {"none", "pending", "served", "ended"}]
         /\ leaked' \in 0..MaxWorkers
         /\ PoolInv'
<1>1. call' \in [Calls -> {"none", "pending", "served", "ended"}]
  BY DEF CallsOK
<1>2. Served' = Served \ {k}
  BY DEF CallsOK, Served
<1>3. CASE k \in Served
  <2>1. Cardinality(Served') = Cardinality(Served) - 1
    BY <1>2, <1>3, ServedLess
  <2>2. PoolInv' /\ leaked' \in Nat
    BY <2>1, ServedFinite DEF CallsOK, PoolInv, Busy
  <2>3. Cardinality(Served') \in Nat
    BY <2>1, <1>3, <1>2, ServedFinite, FS_RemoveElement, FS_CardinalityType
  <2> QED
    BY <1>1, <2>2, <2>3 DEF PoolInv, Busy
<1>4. CASE k \notin Served
  <2>1. Served' = Served
    BY <1>2, <1>4
  <2> QED
    BY <1>1, <1>4, <2>1 DEF CallsOK, PoolInv, Busy
<1> QED
  BY <1>3, <1>4

LEMMA HangUpType ==
  ASSUME CallsOK, NEW k \in Calls, HangUp(k)
  PROVE  CallsOK'
<1>1. waiting' \in Seq(Calls \cup {"ready"})
  BY WithoutType DEF HangUp, CallsOK
<1> QED
  BY <1>1, GiveUp DEF HangUp, CallsOK

LEMMA TypeCalls == TypeOK /\ PoolInv => CallsOK
BY DEF TypeOK, CallsOK

LEMMA TypeInit == Init => TypeOK /\ PoolInv
<1> SUFFICES ASSUME Init PROVE TypeOK /\ PoolInv
  OBVIOUS
<1>1. BufferTypeOK
  <2>1. Unwritten \in Transition /\ 0 \in Slots
    BY DEF Unwritten, Transition, Slots
  <2> QED
    BY <2>1 DEF Init, BufferInit, BufferTypeOK
<1>2. /\ processes \in BOOLEAN /\ stop \in BOOLEAN /\ learning \in BOOLEAN /\ retried \in BOOLEAN
  BY DEF Init
<1>3. PoolInv /\ leaked \in 0..MaxWorkers
  <2>1. Served = {}
    BY DEF Init, Served, All
  <2> QED
    BY <2>1, FS_EmptySet DEF Init, PoolInv, Busy
<1>4. call \in [Calls -> {"none", "pending", "served", "ended"}]
  BY DEF Init, All
<1>5. /\ outbox \in Seq(Message) /\ sent \in Seq(Message) /\ inbox \in Seq(Message)
      /\ collected \in Seq(Message) /\ batch \in Seq(Transition)
      /\ waiting \in Seq(Calls \cup {"ready"})
  BY DEF Init
<1>6. paramQueue \in Seq(Nat) /\ skipped \in SUBSET [life : Nat, episode : Nat, step : Nat]
  BY DEF Init
<1> QED
  BY <1>1, <1>2, <1>3, <1>4, <1>5, <1>6 DEF Init, TypeOK

LEMMA GoneType ==
  ASSUME TypeOK, PoolInv, Gone
  PROVE  TypeOK' /\ PoolInv'
<1>1. Served' = {} /\ Cardinality(Served') = 0
  BY FS_EmptySet DEF Gone, Served, All
<1>2. leaked' \in Nat /\ leaked' <= MaxWorkers
  <2>1. CASE "parameters" \in Served
    <3>1. Cardinality(Served) >= 1
      <4>1. Cardinality(Served \ {"parameters"}) = Cardinality(Served) - 1
        BY <2>1, ServedLess
      <4>2. Cardinality(Served \ {"parameters"}) \in Nat
        BY ServedFinite, FS_Subset, FS_CardinalityType
      <4> QED
        BY <4>1, <4>2, ServedFinite
    <3> QED
      BY <2>1, <3>1, ServedFinite DEF Gone, TypeOK, PoolInv, Busy
  <2>2. CASE "parameters" \notin Served
    BY <2>2 DEF Gone, TypeOK
  <2> QED
    BY <2>1, <2>2
<1>3. PoolInv'
  BY <1>1, <1>2 DEF PoolInv, Busy
<1>4. stop' \in BOOLEAN /\ processes' \in BOOLEAN /\ learning' \in BOOLEAN /\ retried' \in BOOLEAN
  BY DEF Gone, TypeOK, learnerVars
<1>5. call' \in [Calls -> {"none", "pending", "served", "ended"}]
  BY DEF Gone, All
<1>6. /\ outbox' \in Seq(Message) /\ sent' \in Seq(Message)
      /\ waiting' \in Seq(Calls \cup {"ready"})
  BY DEF Gone
<1>7. BufferTypeOK'
  BY DEF Gone, TypeOK, BufferTypeOK, bufferVars
<1> QED
  BY <1>2, <1>3, <1>4, <1>5, <1>6, <1>7 DEF Gone, TypeOK, learnerVars

LEMMA TypeNext == TypeOK /\ PoolInv /\ [Next]_vars => TypeOK' /\ PoolInv'
<1> SUFFICES ASSUME TypeOK, PoolInv, [Next]_vars PROVE TypeOK' /\ PoolInv'
  OBVIOUS
<1> USE DEF learnerVars, actorVars, bufferVars
<1>a. CallsOK
  BY TypeCalls
<1>b. ASSUME UNCHANGED <<slots, position, size, added>>
      PROVE  BufferTypeOK'
  BY <1>b DEF TypeOK, BufferTypeOK
<1>c. ASSUME UNCHANGED <<call, leaked>>
      PROVE  PoolInv' /\ leaked' \in 0..MaxWorkers
  BY <1>c DEF TypeOK, PoolInv, Busy, Served
<1>1. CASE UNCHANGED vars
  BY <1>1, <1>b, <1>c DEF TypeOK, vars
<1>2. CASE StartActor
  <2>1. waiting' \in Seq(Calls \cup {"ready"})
    BY <1>2 DEF StartActor, TypeOK
  <2> QED
    BY <1>2, <2>1, <1>b, <1>c DEF StartActor, TypeOK
<1>3. CASE ConnectFails \/ Crash \/ Leave
  BY <1>3, GoneType DEF ConnectFails, Crash, Leave
<1>4. CASE Signal
  BY <1>4, <1>b, <1>c DEF Signal, TypeOK
<1>5. CASE Step
  BY <1>5, <1>b, <1>c DEF Step, TypeOK
<1>6. CASE LastStep
  <2>1. [life |-> life, episode |-> played + 1, length |-> steps + 1] \in Message
    BY DEF TypeOK, Message
  <2>2. outbox' \in Seq(Message)
    BY <1>6, <2>1 DEF LastStep, TypeOK
  <2>3. version' \in Nat /\ params' \in Nat /\ steps' \in Nat /\ played' \in Nat /\ made' \in Nat
    BY <1>6 DEF LastStep, TypeOK
  <2> QED
    BY <1>6, <2>2, <2>3, <1>b, <1>c DEF LastStep, TypeOK
<1>7. CASE LeaveLoop
  <2>1. stop' \in BOOLEAN /\ processes' \in BOOLEAN
    BY <1>7 DEF LeaveLoop, TypeOK
  <2>2. outbox' \in Seq(Message)
    BY <1>7 DEF LeaveLoop, TypeOK
  <2> QED
    BY <1>7, <2>1, <2>2, <1>b, <1>c DEF LeaveLoop, TypeOK
<1>8. ASSUME NEW k \in Calls, Break(k)
      PROVE  TypeOK' /\ PoolInv'
  <2>1. CallsOK'
    BY <1>8, <1>a, HangUpType DEF Break
  <2>2. faults' \in 0..MaxFaults
    BY <1>8 DEF Break, Fault, FaultsLeft, TypeOK
  <2> QED
    BY <1>8, <2>1, <2>2, <1>b DEF Break, CallsOK, TypeOK
<1>9. ASSUME NEW k \in Calls, Retry(k)
      PROVE  TypeOK' /\ PoolInv'
  <2>1. call' \in [Calls -> {"none", "pending", "served", "ended"}] /\ leaked' \in 0..MaxWorkers /\ PoolInv'
    BY <1>9, <1>a, GiveUp DEF Retry
  <2>2. faults' \in 0..MaxFaults
    BY <1>9 DEF Retry, Fault, FaultsLeft, TypeOK
  <2>3. waiting' \in Seq(Calls \cup {"ready"})
    BY <1>9, WithoutType DEF Retry, TypeOK
  <2>4. outbox' \in Seq(Message) /\ sent' \in Seq(Message)
    BY <1>9, ConcatProperties DEF Retry, TypeOK
  <2>5. retried' \in BOOLEAN
    BY <1>9 DEF Retry, TypeOK
  <2> QED
    BY <1>9, <2>1, <2>2, <2>3, <2>4, <2>5, <1>b DEF Retry, TypeOK
<1>10. ASSUME NEW k \in Senders, StreamEnds(k) \/ StreamRaises(k)
       PROVE  TypeOK' /\ PoolInv'
  <2>1. CallsOK'
    BY <1>10, <1>a, HangUpType DEF StreamEnds, StreamRaises, Calls
  <2> QED
    BY <1>10, <2>1, <1>b DEF StreamEnds, StreamRaises, CallsOK, TypeOK
<1>11. CASE SendEpisode
  <2>1. Head(outbox) \in Message /\ Tail(outbox) \in Seq(Message)
    BY <1>11, HeadTailProperties DEF SendEpisode, TypeOK
  <2>2. outbox' \in Seq(Message) /\ sent' \in Seq(Message) /\ inbox' \in Seq(Message)
    BY <1>11, <2>1 DEF SendEpisode, TypeOK
  <2> QED
    BY <1>11, <2>2, <1>b, <1>c DEF SendEpisode, TypeOK
<1>12. CASE Ready
  <2>1. Served' = {} /\ Cardinality(Served') = 0
    BY <1>12, FS_EmptySet DEF Ready, Served, All
  <2>2. PoolInv'
    BY <1>12, <2>1 DEF Ready, TypeOK, PoolInv, Busy
  <2>3. call' \in [Calls -> {"none", "pending", "served", "ended"}]
    BY <1>12 DEF Ready, All
  <2>4. waiting' \in Seq(Calls \cup {"ready"})
    <3>1. waiting' \in [1..3 -> Calls]
      BY <1>12 DEF Ready
    <3>2. [i \in 1..3 |-> waiting'[i]] \in Seq(Calls \cup {"ready"})
      BY <3>1
    <3>3. waiting' = [i \in 1..3 |-> waiting'[i]]
      BY <3>1
    <3> QED
      BY <3>2, <3>3
  <2> QED
    BY <1>12, <2>2, <2>3, <2>4, <1>b DEF Ready, TypeOK
<1>13. CASE Accept
  <2>1. Tail(waiting) \in Seq(Calls \cup {"ready"}) /\ Head(waiting) \in Calls \cup {"ready"}
    BY <1>13, HeadTailProperties DEF Accept, TypeOK
  <2>2. call' \in [Calls -> {"none", "pending", "served", "ended"}]
    BY <1>13, <2>1 DEF Accept, TypeOK
  <2>3. Cardinality(Served') <= Cardinality(Served) + 1
    <3>1. Served' = Served \/ Served' = Served \cup {Head(waiting)}
      BY <1>13, <2>1 DEF Accept, Served, TypeOK
    <3>2. Cardinality(Served \cup {Head(waiting)}) <= Cardinality(Served) + 1
      BY ServedMore
    <3>3. CASE Served' = Served
      BY <3>3, ServedFinite
    <3>4. CASE Served' = Served \cup {Head(waiting)}
      BY <3>2, <3>4
    <3> QED
      BY <3>1, <3>3, <3>4
  <2>4. Cardinality(Served') \in Nat
    <3>1. Served' \subseteq Calls
      BY DEF Served
    <3> QED
      BY <3>1, ServedFinite, FS_Subset, FS_CardinalityType
  <2>5. PoolInv'
    BY <1>13, <2>3, <2>4, ServedFinite DEF Accept, TypeOK, PoolInv, Busy
  <2> QED
    BY <1>13, <2>1, <2>2, <2>5, <1>b DEF Accept, TypeOK
<1>14. ASSUME NEW n \in 1..Len(paramQueue), SendParameters(n)
       PROVE  TypeOK' /\ PoolInv'
  <2>1. paramQueue' \in Seq(Nat) /\ paramQueue[n] \in Nat
    BY <1>14, RestType DEF SendParameters, TakeParameters, TypeOK
  <2>2. CASE stop \/ (~processes /\ main = "closing")
    <3>1. CallsOK'
      BY <1>14, <2>2, <1>a, HangUpType DEF SendParameters, Served
    <3> QED
      BY <1>14, <2>1, <2>2, <3>1, <1>b DEF SendParameters, CallsOK, TypeOK
  <2>3. CASE ~(stop \/ (~processes /\ main = "closing"))
    BY <1>14, <2>1, <2>3, <1>b, <1>c DEF SendParameters, TypeOK
  <2> QED
    BY <2>2, <2>3
<1>15. ASSUME NEW n \in 1..Len(paramQueue), SendToNobody(n)
       PROVE  TypeOK' /\ PoolInv'
  <2>1. paramQueue' \in Seq(Nat)
    BY <1>15, RestType DEF SendToNobody, TakeParameters, TypeOK
  <2>2. PoolInv' /\ leaked' \in 0..MaxWorkers
    BY <1>15, ServedFinite DEF SendToNobody, TypeOK, PoolInv, Busy, Served
  <2> QED
    BY <1>15, <2>1, <2>2, <1>b DEF SendToNobody, TypeOK
<1>16. CASE TakeEpisode
  <2>1. Head(inbox) \in Message /\ inbox' \in Seq(Message)
    BY <1>16, HeadTailProperties DEF TakeEpisode, TypeOK
  <2>2. batch' \in Seq(Transition) /\ collected' \in Seq(Message)
    BY <1>16, <2>1, TransitionsType DEF TakeEpisode, TypeOK
  <2> QED
    BY <1>16, <2>1, <2>2, <1>b, <1>c DEF TakeEpisode, TypeOK
<1>17. CASE AddTransition
  <2>1. Head(batch) \in Transition /\ batch' \in Seq(Transition)
    BY <1>17, HeadTailProperties DEF AddTransition, TypeOK
  <2>2. BufferTypeOK'
    BY <1>17, <2>1, AddType DEF AddTransition, TypeOK
  <2> QED
    BY <1>17, <2>1, <2>2, <1>c DEF AddTransition, TypeOK
<1>18. CASE SkipTransition
  <2>1. Head(batch) \in Transition /\ batch' \in Seq(Transition)
    BY <1>18, HeadTailProperties DEF SkipTransition, TypeOK
  <2>2. State(Head(batch)) \in [life : Nat, episode : Nat, step : Nat]
    BY <2>1 DEF State, Transition
  <2>3. skipped' \in SUBSET [life : Nat, episode : Nat, step : Nat]
    BY <1>18, <2>2 DEF SkipTransition, TypeOK
  <2>4. faults' \in 0..MaxFaults
    BY <1>18 DEF SkipTransition, Fault, FaultsLeft, TypeOK
  <2> QED
    BY <1>18, <2>1, <2>3, <2>4, <1>b, <1>c DEF SkipTransition, TypeOK
<1>19. CASE Train
  <2>1. pushed' \in 1..MaxVersion
    BY <1>19 DEF Train, TypeOK
  <2>2. paramQueue' \in Seq(Nat)
    BY <1>19, <2>1 DEF Train, TypeOK
  <2> QED
    BY <1>19, <2>1, <2>2, <1>b, <1>c DEF Train, TypeOK
<1>20. CASE LearnerEnds
  <2>1. call' \in [Calls -> {"none", "pending", "served", "ended"}]
    BY <1>20 DEF LearnerEnds, TypeOK
  <2>2. Served' = {} /\ Cardinality(Served') = 0
    BY <1>20, FS_EmptySet DEF LearnerEnds, Served, Open
  <2>3. PoolInv' /\ leaked' \in 0..MaxWorkers
    BY <1>20, <2>2 DEF LearnerEnds, PoolInv, Busy
  <2>4. inbox' \in Seq(Message) /\ batch' \in Seq(Transition) /\ paramQueue' \in Seq(Nat)
        /\ waiting' \in Seq(Calls \cup {"ready"})
    BY <1>20 DEF LearnerEnds
  <2> QED
    BY <1>20, <2>1, <2>3, <2>4, <1>b DEF LearnerEnds, TypeOK
<1> QED
  BY <1>1, <1>2, <1>3, <1>4, <1>5, <1>6, <1>7, <1>8, <1>9, <1>10, <1>11, <1>12, <1>13, <1>14,
     <1>15, <1>16, <1>17, <1>18, <1>19, <1>20 DEF Next

(* Every variable of actor and learner keeps its type, and the handlers are  *)
(* never more than the learner's threads.                                    *)
THEOREM TrainingTypeCorrect == Spec => [](TypeOK /\ PoolInv)
BY TypeInit, TypeNext, PTL DEF Spec

-------------------------------------------------------------------------------
(* The replay buffer.                                                       *)

LEMMA AddHolds ==
  ASSUME BufferTypeOK, HoldsLatest, NEW t \in Transition, Add(t)
  PROVE  HoldsLatest'
<1> DEFINE n == Len(added)
<1>1. n \in Nat /\ Len(added') = n + 1 /\ added'[n + 1] = t
      /\ \A i \in 1..n : added'[i] = added[i]
  BY DEF BufferTypeOK, Add
<1>2. position \in Slots /\ size \in 0..Capacity
  BY DEF BufferTypeOK
<1>3. size' = IF n + 1 < Capacity THEN n + 1 ELSE Capacity
  BY <1>1, <1>2 DEF HoldsLatest, Add
<1>4. ASSUME NEW k \in 1..size'
      PROVE  slots'[(position' + Capacity - k) % Capacity] = added'[Len(added') + 1 - k]
  <2>1. position' \in Slots /\ position' = IF position + 1 = Capacity THEN 0 ELSE position + 1
    BY <1>2, NextPlace DEF Add
  <2>2. k \in 1..Capacity /\ k <= n + 1
    BY <1>1, <1>3
  <2>3. (position' + Capacity - k) % Capacity =
          IF k <= position' THEN position' - k ELSE position' + Capacity - k
    BY <2>1, <2>2, PlaceBefore
  <2>4. CASE k = 1
    <3>1. (position' + Capacity - k) % Capacity = position
      BY <1>2, <2>1, <2>3, <2>4 DEF Slots
    <3>2. slots'[position] = t
      BY <1>2 DEF Add, BufferTypeOK
    <3>3. Len(added') + 1 - k = n + 1
      BY <1>1, <2>4
    <3> QED
      BY <1>1, <3>1, <3>2, <3>3
  <2>5. CASE k > 1
    <3>1. k - 1 \in 1..Capacity /\ k - 1 \in 1..size
      BY <1>1, <1>2, <1>3, <2>2, <2>5 DEF HoldsLatest
    <3>2. (position + Capacity - (k - 1)) % Capacity \in Slots
          /\ (position + Capacity - (k - 1)) % Capacity =
               IF k - 1 <= position THEN position - (k - 1) ELSE position + Capacity - (k - 1)
      BY <1>2, <3>1, PlaceBefore
    <3>3. (position' + Capacity - k) % Capacity = (position + Capacity - (k - 1)) % Capacity
      BY <1>2, <2>1, <2>2, <2>3, <2>5, <3>2 DEF Slots
    <3>4. (position + Capacity - (k - 1)) % Capacity # position
      <4>1. k \in Nat /\ position \in Int /\ Capacity \in Nat /\ k <= Capacity
        BY <1>2, <2>2 DEF Slots
      <4>2. CASE k - 1 <= position
        BY <2>5, <3>2, <4>1, <4>2
      <4>3. CASE ~(k - 1 <= position)
        BY <2>5, <3>2, <4>1, <4>3
      <4> QED
        BY <4>2, <4>3
    <3>5. slots'[(position + Capacity - (k - 1)) % Capacity]
            = slots[(position + Capacity - (k - 1)) % Capacity]
      BY <3>2, <3>4 DEF Add, BufferTypeOK
    <3>6. slots[(position + Capacity - (k - 1)) % Capacity] = added[n + 1 - (k - 1)]
      BY <3>1 DEF HoldsLatest
    <3>7. n + 1 - (k - 1) \in 1..n /\ n + 1 - (k - 1) = Len(added') + 1 - k
      BY <1>1, <2>2, <2>5
    <3> QED
      BY <1>1, <3>3, <3>5, <3>6, <3>7
  <2> QED
    BY <2>2, <2>4, <2>5
<1> QED
  BY <1>1, <1>3, <1>4 DEF HoldsLatest

LEMMA LatestInit == Init => HoldsLatest
BY DEF Init, BufferInit, HoldsLatest

LEMMA BufferStep ==
  ASSUME TypeOK, [Next]_vars
  PROVE  UNCHANGED bufferVars \/ (AddTransition /\ Add(Head(batch)) /\ Head(batch) \in Transition)
<1>1. CASE AddTransition
  BY <1>1, HeadTailProperties DEF AddTransition, TypeOK
<1>2. CASE ~AddTransition
  BY <1>2 DEF Next, vars, StartActor, ConnectFails, Crash, Leave, Gone, Signal, Step, LastStep,
     LeaveLoop, Break, Retry, StreamEnds, StreamRaises, SendEpisode, Ready, Accept,
     SendParameters, SendToNobody, TakeEpisode, SkipTransition, Train, LearnerEnds
<1> QED
  BY <1>1, <1>2

LEMMA LatestNext == TypeOK /\ HoldsLatest /\ [Next]_vars => HoldsLatest'
<1> SUFFICES ASSUME TypeOK, HoldsLatest, [Next]_vars PROVE HoldsLatest'
  OBVIOUS
<1>1. CASE UNCHANGED bufferVars
  BY <1>1 DEF HoldsLatest, bufferVars
<1>2. CASE AddTransition /\ Add(Head(batch)) /\ Head(batch) \in Transition
  BY <1>2, AddHolds DEF TypeOK
<1> QED
  BY <1>1, <1>2, BufferStep

(* The ring holds the transitions added last, for every capacity.            *)
THEOREM RingHoldsLatest == Spec => []HoldsLatest
<1>1. TypeOK /\ PoolInv /\ HoldsLatest /\ [Next]_vars => (TypeOK /\ PoolInv /\ HoldsLatest)'
  BY TypeNext, LatestNext
<1>2. Init => TypeOK /\ PoolInv /\ HoldsLatest
  BY TypeInit, LatestInit
<1> QED
  BY <1>1, <1>2, PTL DEF Spec

-------------------------------------------------------------------------------
(* The episodes. What the learner has received is what it has collected and  *)
(* what waits in inbox; what an actor has played is what it has sent in the  *)
(* call and what waits in outbox.                                            *)

Came == collected \o inbox

InOrder(s) ==
  \A i \in 1..Len(s) :
    /\ s[i].episode > 1 =>
         \E j \in 1..(i - 1) : s[j].life = s[i].life /\ s[j].episode = s[i].episode - 1
    /\ \A j \in 1..(i - 1) :
         /\ s[j].life <= s[i].life
         /\ ~retried => <<s[j].life, s[j].episode>> # <<s[i].life, s[i].episode>>

Numbered ==
  /\ \A i \in 1..Len(sent) : sent[i].life = life /\ sent[i].episode = i
  /\ \A i \in 1..Len(outbox) : outbox[i].life = life /\ outbox[i].episode = Len(sent) + i

Arrived == \A i \in 1..Len(sent) :
             \E j \in 1..Len(Came) : Came[j].life = life /\ Came[j].episode = i

NoneTwice == \A j \in 1..Len(Came) : Came[j].life = life => Came[j].episode <= Len(sent)

StreamInv ==
  /\ main \in {"off", "connecting"} => sent = <<>> /\ outbox = <<>> /\ played = 0
  /\ main = "acting" => played = Len(sent) + Len(outbox)
  /\ Numbered
  /\ InOrder(Came)
  /\ \A j \in 1..Len(Came) : Came[j].life <= life
  /\ learning => Arrived
  /\ ~retried /\ main # "off" => NoneTwice

LEMMA CameType ==
  ASSUME TypeOK
  PROVE  /\ Came \in Seq(Message)
         /\ Len(Came) = Len(collected) + Len(inbox) /\ Len(Came) \in Nat /\ Len(collected) \in Nat
         /\ \A i \in 1..Len(collected) : Came[i] = collected[i]
         /\ \A i \in 1..Len(Came) : Came[i].life \in Nat /\ Came[i].episode \in Nat
<1>1. collected \in Seq(Message) /\ inbox \in Seq(Message)
  BY DEF TypeOK
<1>2. /\ Came \in Seq(Message)
      /\ Len(Came) = Len(collected) + Len(inbox) /\ Len(Came) \in Nat /\ Len(collected) \in Nat
      /\ \A i \in 1..Len(collected) + Len(inbox) :
           Came[i] = IF i <= Len(collected) THEN collected[i] ELSE inbox[i - Len(collected)]
  BY <1>1, ConcatProperties, LenProperties DEF Came
<1>3. \A i \in 1..Len(Came) : Came[i] \in Message
  BY <1>2, ElementOfSeq
<1>4. \A i \in 1..Len(Came) : Came[i].life \in Nat /\ Came[i].episode \in Nat
  BY <1>3 DEF Message
<1>5. \A i \in 1..Len(collected) : i \in 1..(Len(collected) + Len(inbox))
  BY <1>1
<1>6. \A i \in 1..Len(collected) : Came[i] = collected[i]
  BY <1>2, <1>5
<1> QED
  BY <1>2, <1>4, <1>6

LEMMA BeginningInOrder ==
  ASSUME TypeOK, InOrder(Came)
  PROVE  InOrder(collected)
<1>1. /\ Len(collected) \in Nat /\ Len(Came) \in Nat /\ Len(collected) <= Len(Came)
      /\ \A i \in 1..Len(collected) : Came[i] = collected[i]
  <2>1. Len(inbox) \in Nat
    BY DEF TypeOK
  <2> QED
    BY <2>1, CameType
<1> SUFFICES ASSUME NEW i \in 1..Len(collected)
             PROVE  /\ collected[i].episode > 1 =>
                         \E j \in 1..(i - 1) : collected[j].life = collected[i].life
                                              /\ collected[j].episode = collected[i].episode - 1
                    /\ \A j \in 1..(i - 1) :
                         /\ collected[j].life <= collected[i].life
                         /\ ~retried => <<collected[j].life, collected[j].episode>>
                                           # <<collected[i].life, collected[i].episode>>
  BY DEF InOrder
<1>2. i \in 1..Len(Came) /\ Came[i] = collected[i]
  BY <1>1
<1>3. \A j \in 1..(i - 1) : Came[j] = collected[j]
  BY <1>1
<1> QED
  BY <1>2, <1>3 DEF InOrder

LEMMA StreamInit == Init => StreamInv
<1> SUFFICES ASSUME Init PROVE StreamInv
  OBVIOUS
<1>1. Came = <<>> /\ Len(Came) = 0 /\ Len(sent) = 0 /\ Len(outbox) = 0
  BY ConcatEmptySeq, EmptySeq DEF Init, Came
<1> QED
  BY <1>1 DEF Init, StreamInv, Numbered, InOrder, Arrived, NoneTwice

(* A step that touches no episode.                                          *)
LEMMA StreamSame ==
  ASSUME StreamInv,
         UNCHANGED <<life, outbox, sent, played, collected, inbox>>,
         learning' => learning, retried => retried', retried' \in BOOLEAN,
         main' = main \/ (main = "connecting" /\ main' = "acting")
  PROVE  StreamInv'
<1>1. Came' = Came
  BY DEF Came
<1>2. InOrder(Came)'
  BY <1>1 DEF StreamInv, InOrder
<1>3. main' = "acting" => played = Len(sent) + Len(outbox)
  BY EmptySeq DEF StreamInv
<1> QED
  BY <1>1, <1>2, <1>3 DEF StreamInv, Numbered, Arrived, NoneTwice

LEMMA StreamGone ==
  ASSUME TypeOK, StreamInv, Gone
  PROVE  StreamInv'
<1>1. Came' = Came /\ main' = "off" /\ sent' = <<>> /\ outbox' = <<>> /\ played' = 0
      /\ life' = life /\ retried' = retried
  BY DEF Gone, Came, learnerVars
<1>2. InOrder(Came)'
  BY <1>1 DEF StreamInv, InOrder
<1>3. Len(sent') = 0 /\ Len(outbox') = 0
  BY <1>1
<1> QED
  BY <1>1, <1>2, <1>3 DEF StreamInv, Numbered, Arrived

(* An episode arrives.                                                      *)
LEMMA StreamSend ==
  ASSUME TypeOK, StreamInv, SendEpisode
  PROVE  StreamInv'
<1> DEFINE m == Head(outbox)
           n == Len(sent)
           c == Len(Came)
<1>1. /\ learning /\ outbox # <<>> /\ outbox' = Tail(outbox)
      /\ sent' = Append(sent, m) /\ inbox' = Append(inbox, m)
      /\ UNCHANGED <<life, main, played, collected, learning, retried>>
  BY DEF SendEpisode
<1>2. /\ outbox \in Seq(Message) /\ sent \in Seq(Message) /\ inbox \in Seq(Message)
      /\ collected \in Seq(Message) /\ n \in Nat /\ Len(outbox) \in Nat /\ life \in Nat
  BY DEF TypeOK
<1>3. m \in Message /\ m = outbox[1] /\ Len(outbox) >= 1
      /\ Len(outbox') = Len(outbox) - 1 /\ \A i \in 1..Len(outbox') : outbox'[i] = outbox[i + 1]
  BY <1>1, <1>2, HeadTailProperties
<1>4. m.life = life /\ m.episode = n + 1
  BY <1>2, <1>3 DEF StreamInv, Numbered
<1>5. Len(sent') = n + 1 /\ sent'[n + 1] = m /\ \A i \in 1..n : sent'[i] = sent[i]
  BY <1>1, <1>2, <1>3
<1>6. Came' = Append(Came, m)
  <2>1. /\ collected \o inbox \in Seq(Message) /\ collected \o inbox' \in Seq(Message)
        /\ inbox' \in Seq(Message)
    BY <1>1, <1>2, <1>3, ConcatProperties
  <2>2. collected \o Append(inbox, m) = Append(collected \o inbox, m)
    BY <1>2, <1>3
  <2> QED
    BY <1>1, <2>2 DEF Came
<1>7. /\ c \in Nat /\ Len(Came') = c + 1 /\ Came'[c + 1] = m
      /\ \A i \in 1..c : Came'[i] = Came[i]
      /\ \A i \in 1..c : Came[i].life \in Nat /\ Came[i].episode \in Nat
  <2>1. Came \in Seq(Message) /\ c \in Nat
    BY CameType
  <2>2. Len(Append(Came, m)) = c + 1 /\ Append(Came, m)[c + 1] = m
        /\ \A i \in 1..c : Append(Came, m)[i] = Came[i]
    BY <1>3, <2>1
  <2> QED
    BY <1>6, <2>1, <2>2, CameType
<1> HIDE DEF m
<1>8. Numbered'
  <2>1. ASSUME NEW i \in 1..Len(sent')
        PROVE  sent'[i].life = life /\ sent'[i].episode = i
    <3>1. CASE i = n + 1
      BY <1>4, <1>5, <3>1
    <3>2. CASE i # n + 1
      <4>1. i \in 1..n /\ sent'[i] = sent[i]
        BY <1>2, <1>5, <3>2
      <4> QED
        BY <4>1 DEF StreamInv, Numbered
    <3> QED
      BY <3>1, <3>2
  <2>2. ASSUME NEW i \in 1..Len(outbox')
        PROVE  outbox'[i].life = life /\ outbox'[i].episode = Len(sent') + i
    <3>1. i + 1 \in 1..Len(outbox) /\ outbox'[i] = outbox[i + 1]
      BY <1>2, <1>3
    <3>2. outbox[i + 1].life = life /\ outbox[i + 1].episode = Len(sent) + (i + 1)
      BY <3>1 DEF StreamInv, Numbered
    <3> QED
      BY <1>2, <1>5, <3>1, <3>2
  <2> QED
    BY <1>1, <2>1, <2>2 DEF Numbered
<1>9. Arrived
  BY <1>1 DEF StreamInv
<1>10. Arrived'
  <2> SUFFICES ASSUME NEW i \in 1..(n + 1)
               PROVE  \E j \in 1..(c + 1) : Came'[j].life = life /\ Came'[j].episode = i
    BY <1>1, <1>5, <1>7 DEF Arrived
  <2>1. CASE i = n + 1
    <3>1. c + 1 \in 1..(c + 1) /\ Came'[c + 1].life = life /\ Came'[c + 1].episode = i
      BY <1>4, <1>7, <2>1
    <3> QED
      BY <3>1
  <2>2. CASE i # n + 1
    <3>1. i \in 1..n
      BY <1>2, <2>2
    <3>2. PICK j \in 1..c : Came[j].life = life /\ Came[j].episode = i
      BY <1>9, <3>1 DEF Arrived
    <3>3. j \in 1..(c + 1) /\ Came'[j] = Came[j]
      BY <1>7, <3>2
    <3> QED
      BY <3>2, <3>3
  <2> QED
    BY <2>1, <2>2
<1>11. ASSUME ~retried, main # "off"
       PROVE  NoneTwice'
  <2> SUFFICES ASSUME NEW j \in 1..(c + 1), Came'[j].life = life
               PROVE  Came'[j].episode <= n + 1
    BY <1>1, <1>5, <1>7 DEF NoneTwice
  <2>1. CASE j = c + 1
    BY <1>2, <1>4, <1>7, <2>1
  <2>2. CASE j # c + 1
    <3>1. j \in 1..c /\ Came'[j] = Came[j]
      BY <1>7, <2>2
    <3>2. Came[j].episode <= n /\ Came[j].episode \in Nat
      BY <1>7, <1>11, <3>1 DEF StreamInv, NoneTwice
    <3> QED
      BY <1>2, <3>1, <3>2
  <2> QED
    BY <2>1, <2>2
<1>12. main # "off"
  BY <1>1 DEF StreamInv
<1>13. InOrder(Came)'
  <2> SUFFICES ASSUME NEW i \in 1..(c + 1)
               PROVE  /\ Came'[i].episode > 1 =>
                           \E j \in 1..(i - 1) : Came'[j].life = Came'[i].life
                                                /\ Came'[j].episode = Came'[i].episode - 1
                      /\ \A j \in 1..(i - 1) :
                           /\ Came'[j].life <= Came'[i].life
                           /\ ~retried => <<Came'[j].life, Came'[j].episode>>
                                             # <<Came'[i].life, Came'[i].episode>>
    BY <1>1, <1>7 DEF InOrder
  <2>1. CASE i = c + 1
    <3>1. m.episode > 1 => \E j \in 1..c : Came[j].life = life /\ Came[j].episode = n
      <4>1. m.episode > 1 => n \in 1..n
        BY <1>2, <1>4
      <4> QED
        BY <1>9, <4>1 DEF Arrived
    <3>2. \A j \in 1..c : Came[j].life <= life
      BY DEF StreamInv
    <3>3. ~retried => \A j \in 1..c : Came[j].life = life => Came[j].episode <= n
      BY <1>12 DEF StreamInv, NoneTwice
    <3>4. Came'[i] = m /\ i - 1 = c /\ \A j \in 1..c : Came'[j] = Came[j]
      BY <1>7, <2>1
    <3>5. Came'[i].episode > 1 =>
            \E j \in 1..(i - 1) : Came'[j].life = Came'[i].life
                                 /\ Came'[j].episode = Came'[i].episode - 1
      <4>1. m.episode - 1 = n
        BY <1>2, <1>4
      <4> QED
        BY <1>4, <3>1, <3>4, <4>1
    <3>6. ASSUME NEW j \in 1..c
          PROVE  /\ Came'[j].life <= Came'[i].life
                 /\ ~retried => <<Came'[j].life, Came'[j].episode>>
                                   # <<Came'[i].life, Came'[i].episode>>
      <4>1. Came'[j] = Came[j] /\ Came'[i].life = life /\ Came'[i].episode = n + 1
        BY <1>4, <3>4
      <4>2. ~retried /\ Came[j].life = life => Came[j].episode # n + 1
        <5>1. Came[j].episode \in Nat
          BY <1>7
        <5> QED
          BY <1>2, <3>3, <5>1
      <4> QED
        BY <3>2, <4>1, <4>2
    <3> QED
      BY <3>4, <3>5, <3>6
  <2>2. CASE i # c + 1
    <3>1. i \in 1..c /\ \A j \in 1..i : Came'[j] = Came[j]
      BY <1>7, <2>2
    <3>2. InOrder(Came)
      BY DEF StreamInv
    <3>3. \A j \in 1..(i - 1) : j \in 1..i /\ Came'[j] = Came[j]
      BY <3>1
    <3>4. Came'[i] = Came[i]
      BY <3>1
    <3> QED
      BY <3>1, <3>2, <3>3, <3>4 DEF InOrder
  <2> QED
    BY <2>1, <2>2
<1>14. ASSUME NEW j \in 1..Len(Came')
       PROVE  Came'[j].life <= life
  <2>1. CASE j = c + 1
    BY <1>2, <1>4, <1>7, <2>1
  <2>2. CASE j # c + 1
    <3>1. j \in 1..c /\ Came'[j] = Came[j]
      BY <1>7, <2>2
    <3> QED
      BY <3>1 DEF StreamInv
  <2> QED
    BY <2>1, <2>2
<1>15. main = "acting" => played = Len(sent') + Len(outbox')
  BY <1>2, <1>3, <1>5 DEF StreamInv
<1>16. main \notin {"off", "connecting"}
  BY <1>1 DEF StreamInv
<1> QED
  BY <1>1, <1>8, <1>10, <1>11, <1>13, <1>14, <1>15, <1>16 DEF StreamInv

(* The channel repeats what it has sent.                                    *)
LEMMA StreamRetry ==
  ASSUME TypeOK, StreamInv, NEW k \in Calls, Retry(k)
  PROVE  StreamInv'
<1>1. UNCHANGED <<life, main, played, collected, inbox, learning>>
  BY DEF Retry, learnerVars
<1>2. CASE k # "transitions" \/ sent = <<>>
  <2>1. UNCHANGED <<outbox, sent, retried>>
    <3>1. sent = <<>> => sent \o outbox = outbox
      BY ConcatEmptySeq DEF TypeOK
    <3> QED
      BY <1>2, <3>1 DEF Retry, TypeOK
  <2>2. UNCHANGED <<life, outbox, sent, played, collected, inbox>>
        /\ learning' = learning /\ retried' = retried /\ retried' \in BOOLEAN /\ main' = main
    BY <1>1, <2>1 DEF TypeOK
  <2> QED
    BY <2>2, StreamSame
<1>3. CASE k = "transitions" /\ sent # <<>>
  <2>1. outbox' = sent \o outbox /\ sent' = <<>> /\ Len(sent') = 0 /\ retried'
    BY <1>3 DEF Retry
  <2>2. /\ sent \in Seq(Message) /\ outbox \in Seq(Message)
        /\ Len(sent) \in Nat /\ Len(outbox) \in Nat /\ life \in Nat
    BY DEF TypeOK
  <2>3. /\ Len(outbox') = Len(sent) + Len(outbox)
        /\ \A i \in 1..Len(outbox') :
             outbox'[i] = IF i <= Len(sent) THEN sent[i] ELSE outbox[i - Len(sent)]
    BY <2>1, <2>2, ConcatProperties
  <2>4. Numbered'
    <3> SUFFICES ASSUME NEW i \in 1..Len(outbox')
                 PROVE  outbox'[i].life = life /\ outbox'[i].episode = i
      BY <1>1, <2>1 DEF Numbered
    <3>1. CASE i <= Len(sent)
      <4>1. i \in 1..Len(sent) /\ outbox'[i] = sent[i]
        BY <2>2, <2>3, <3>1
      <4> QED
        BY <4>1 DEF StreamInv, Numbered
    <3>2. CASE ~(i <= Len(sent))
      <4>1. i - Len(sent) \in 1..Len(outbox) /\ outbox'[i] = outbox[i - Len(sent)]
        BY <2>2, <2>3, <3>2
      <4>2. outbox[i - Len(sent)].life = life
            /\ outbox[i - Len(sent)].episode = Len(sent) + (i - Len(sent))
        BY <4>1 DEF StreamInv, Numbered
      <4> QED
        BY <2>2, <2>3, <4>1, <4>2
    <3> QED
      BY <3>1, <3>2
  <2>5. Came' = Came
    BY <1>1 DEF Came
  <2>6. InOrder(Came)'
    BY <2>1, <2>5 DEF StreamInv, InOrder
  <2>7. main \notin {"off", "connecting"}
    BY <1>3 DEF StreamInv
  <2> QED
    BY <1>1, <2>1, <2>2, <2>3, <2>4, <2>5, <2>6, <2>7 DEF StreamInv, Arrived
<1> QED
  BY <1>2, <1>3

LEMMA StreamNext == TypeOK /\ StreamInv /\ [Next]_vars /\ TypeOK' => StreamInv'
<1> SUFFICES ASSUME TypeOK, StreamInv, [Next]_vars, TypeOK' PROVE StreamInv'
  OBVIOUS
<1> USE DEF learnerVars, actorVars
<1>1. CASE StartActor
  <2>1. /\ main = "off" /\ main' = "connecting" /\ life' = life + 1 /\ life \in Nat
        /\ UNCHANGED <<outbox, sent, played, collected, inbox, learning, retried>>
    BY <1>1 DEF StartActor, TypeOK
  <2>2. sent = <<>> /\ outbox = <<>> /\ Len(sent) = 0 /\ Len(outbox) = 0 /\ played = 0
    BY <2>1 DEF StreamInv
  <2>3. Came' = Came /\ InOrder(Came)'
    BY <2>1 DEF StreamInv, InOrder, Came
  <2>4. \A j \in 1..Len(Came) : Came[j].life \in Nat /\ Came[j].life <= life
    BY CameType DEF StreamInv
  <2> QED
    BY <2>1, <2>2, <2>3, <2>4 DEF StreamInv, Numbered, Arrived, NoneTwice
<1>2. CASE ConnectFails \/ Crash \/ Leave
  BY <1>2, StreamGone DEF ConnectFails, Crash, Leave
<1>3. CASE LastStep
  <2> DEFINE m == [life |-> life, episode |-> played + 1, length |-> steps + 1]
  <2>1. /\ main = "acting" /\ outbox' = Append(outbox, m) /\ played' = played + 1
        /\ UNCHANGED <<life, main, sent, collected, inbox, learning, retried>>
    BY <1>3 DEF LastStep, Acting
  <2>2. /\ outbox \in Seq(Message) /\ m \in Message /\ Len(outbox) \in Nat /\ Len(sent) \in Nat
        /\ played \in Nat /\ m.life = life /\ m.episode = played + 1
    <3>1. life \in Nat /\ played + 1 \in Nat /\ steps + 1 \in Nat /\ played \in Nat
      <4> HIDE DEF m
      <4>1. life \in Nat /\ played \in Nat /\ steps \in Nat
        BY DEF TypeOK
      <4> QED
        BY <4>1
    <3>2. m \in Message /\ m.life = life /\ m.episode = played + 1
      BY <3>1 DEF Message
    <3> HIDE DEF m
    <3>3. outbox \in Seq(Message) /\ sent \in Seq(Message)
      BY DEF TypeOK
    <3>4. Len(outbox) \in Nat /\ Len(sent) \in Nat
      BY <3>3, LenProperties
    <3> QED
      BY <3>1, <3>2, <3>3, <3>4
  <2> HIDE DEF m
  <2>3. /\ Len(outbox') = Len(outbox) + 1 /\ outbox'[Len(outbox) + 1] = m
        /\ \A i \in 1..Len(outbox) : outbox'[i] = outbox[i]
    BY <2>1, <2>2
  <2>4. played = Len(sent) + Len(outbox)
    BY <2>1 DEF StreamInv
  <2>5. ASSUME NEW i \in 1..Len(outbox')
        PROVE  outbox'[i].life = life /\ outbox'[i].episode = Len(sent) + i
    <3>1. CASE i = Len(outbox) + 1
      BY <2>2, <2>3, <2>4, <3>1
    <3>2. CASE i # Len(outbox) + 1
      <4>1. i \in 1..Len(outbox) /\ outbox'[i] = outbox[i]
        BY <2>2, <2>3, <3>2
      <4> QED
        BY <4>1 DEF StreamInv, Numbered
    <3> QED
      BY <3>1, <3>2
  <2>6. Numbered'
    BY <2>1, <2>5 DEF StreamInv, Numbered
  <2>7. Came' = Came /\ InOrder(Came)'
    BY <2>1 DEF StreamInv, InOrder, Came
  <2>8. played' = Len(sent') + Len(outbox')
    BY <2>1, <2>2, <2>3, <2>4
  <2> QED
    BY <2>1, <2>6, <2>7, <2>8 DEF StreamInv, Arrived, NoneTwice
<1>4. CASE LeaveLoop
  <2>1. /\ main = "acting" /\ main' = "closing" /\ (outbox' = outbox \/ outbox' = <<>>)
        /\ UNCHANGED <<life, sent, played, collected, inbox, learning, retried>>
    BY <1>4 DEF LeaveLoop
  <2>2. Numbered'
    BY <2>1, EmptySeq DEF StreamInv, Numbered
  <2>3. Came' = Came /\ InOrder(Came)'
    BY <2>1 DEF StreamInv, InOrder, Came
  <2> QED
    BY <2>1, <2>2, <2>3 DEF StreamInv, Arrived, NoneTwice
<1>5. ASSUME NEW k \in Calls, Retry(k)
      PROVE  StreamInv'
  BY <1>5, StreamRetry
<1>6. CASE SendEpisode
  BY <1>6, StreamSend
<1>7. CASE TakeEpisode
  <2>1. /\ inbox # <<>> /\ inbox' = Tail(inbox) /\ collected' = Append(collected, Head(inbox))
        /\ UNCHANGED <<life, main, outbox, sent, played, learning, retried>>
    BY <1>7 DEF TakeEpisode
  <2>2. Came' = Came
    <3>1. /\ inbox \in Seq(Message) /\ collected \in Seq(Message) /\ Head(inbox) \in Message
          /\ Tail(inbox) \in Seq(Message) /\ inbox = <<Head(inbox)>> \o Tail(inbox)
      <4>1. inbox \in Seq(Message) /\ collected \in Seq(Message)
        BY DEF TypeOK
      <4>2. /\ Head(inbox) \in Message /\ Tail(inbox) \in Seq(Message) /\ Len(inbox) \in Nat
            /\ Len(Tail(inbox)) = Len(inbox) - 1 /\ Head(inbox) = inbox[1]
            /\ \A i \in 1..Len(Tail(inbox)) : Tail(inbox)[i] = inbox[i + 1]
        BY <2>1, <4>1, HeadTailProperties
      <4>3. <<Head(inbox)>> \in Seq(Message) /\ Len(<<Head(inbox)>>) = 1
        BY <4>2
      <4>4. /\ <<Head(inbox)>> \o Tail(inbox) \in Seq(Message)
            /\ Len(<<Head(inbox)>> \o Tail(inbox)) = Len(inbox)
            /\ \A i \in 1..Len(inbox) : (<<Head(inbox)>> \o Tail(inbox))[i] =
                 IF i <= 1 THEN <<Head(inbox)>>[i] ELSE Tail(inbox)[i - 1]
        BY <4>2, <4>3, ConcatProperties
      <4>5. \A i \in 1..Len(inbox) : inbox[i] = (<<Head(inbox)>> \o Tail(inbox))[i]
        BY <4>2, <4>4
      <4> QED
        BY <4>1, <4>2, <4>4, <4>5, SeqEqual
    <3>2. <<Head(inbox)>> \in Seq(Message) /\ collected' = collected \o <<Head(inbox)>>
      BY <2>1, <3>1
    <3> QED
      BY <2>1, <3>1, <3>2, ConcatAssociative DEF Came
  <2>3. InOrder(Came)'
    BY <2>1, <2>2 DEF StreamInv, InOrder
  <2> QED
    BY <2>1, <2>2, <2>3 DEF StreamInv, Numbered, Arrived, NoneTwice
<1>8. CASE LearnerEnds
  <2>1. /\ inbox' = <<>> /\ ~learning'
        /\ UNCHANGED <<life, main, outbox, sent, played, collected, retried>>
    BY <1>8 DEF LearnerEnds
  <2>2. Came' = collected
    BY <2>1, ConcatEmptySeq DEF Came, TypeOK
  <2>3. InOrder(collected)
    BY BeginningInOrder DEF StreamInv
  <2>4. InOrder(Came)'
    BY <2>1, <2>2, <2>3 DEF InOrder
  <2>5. \A i \in 1..Len(collected) : i \in 1..Len(Came) /\ Came[i] = collected[i]
    <3>1. Len(inbox) \in Nat
      BY DEF TypeOK
    <3> QED
      BY <3>1, CameType
  <2>6. Numbered' /\ \A j \in 1..Len(Came') : Came'[j].life <= life'
    BY <2>1, <2>2, <2>5 DEF StreamInv, Numbered
  <2>7. ~retried /\ main # "off" => NoneTwice'
    BY <2>1, <2>2, <2>5 DEF StreamInv, NoneTwice
  <2> QED
    BY <2>1, <2>4, <2>6, <2>7 DEF StreamInv
<1>9. ASSUME UNCHANGED <<life, outbox, sent, played, collected, inbox, learning, retried>>,
             main' = main \/ (main = "connecting" /\ main' = "acting")
      PROVE  StreamInv'
  BY <1>9, StreamSame DEF TypeOK
<1>10. CASE UNCHANGED vars
  BY <1>9, <1>10 DEF vars
<1>11. CASE Signal \/ Step \/ Ready \/ Accept \/ AddTransition \/ SkipTransition \/ Train
  BY <1>9, <1>11 DEF Signal, Step, Ready, Accept, AddTransition, SkipTransition, Train
<1>12. ASSUME NEW k \in Calls, Break(k) \/ StreamEnds(k) \/ StreamRaises(k)
       PROVE  StreamInv'
  BY <1>9, <1>12 DEF Break, StreamEnds, StreamRaises
<1>13. ASSUME NEW n \in 1..Len(paramQueue), SendParameters(n) \/ SendToNobody(n)
       PROVE  StreamInv'
  BY <1>9, <1>13 DEF SendParameters, SendToNobody
<1> QED
  BY <1>1, <1>2, <1>3, <1>4, <1>5, <1>6, <1>7, <1>8, <1>10, <1>11, <1>12, <1>13 DEF Next, Calls

(* The learner collects each life's episodes in order, without a gap and,   *)
(* unless a call was retried, once, for any number of lives and faults.      *)
THEOREM EpisodesStayInOrder == Spec => []EpisodesInOrder
<1>1. Init => TypeOK /\ PoolInv /\ StreamInv
  BY TypeInit, StreamInit
<1>2. TypeOK /\ PoolInv /\ StreamInv /\ [Next]_vars => (TypeOK /\ PoolInv /\ StreamInv)'
  BY TypeNext, StreamNext
<1>3. TypeOK /\ StreamInv => EpisodesInOrder
  BY BeginningInOrder DEF StreamInv, InOrder, EpisodesInOrder
<1> QED
  BY <1>1, <1>2, <1>3, PTL DEF Spec

-------------------------------------------------------------------------------
(* The next states. Transitions of an episode are added in a row, and what   *)
(* is in a row in added is in a row in the ring.                             *)

Succ(t) == [State(t) EXCEPT !.step = @ + 1]

Followed(t) == t.last \/ Succ(t) \in skipped

BatchInv ==
  /\ \A i \in 1..Len(batch) :
       i < Len(batch) => ~batch[i].last /\ State(batch[i + 1]) = Succ(batch[i])
  /\ batch # <<>> => batch[Len(batch)].last
  /\ learning /\ added # <<>> /\ ~Followed(added[Len(added)]) =>
       batch # <<>> /\ State(batch[1]) = Succ(added[Len(added)])
  /\ \A k \in 1..Len(added) :
       k < Len(added) /\ ~Followed(added[k]) => State(added[k + 1]) = Succ(added[k])
  /\ size < Capacity => position = size

LEMMA BatchInit == Init => BatchInv
<1> SUFFICES ASSUME Init PROVE BatchInv
  OBVIOUS
<1>1. batch = <<>> /\ added = <<>> /\ Len(batch) = 0 /\ Len(added) = 0 /\ size = 0 /\ position = 0
  BY EmptySeq DEF Init, BufferInit
<1> QED
  BY <1>1 DEF BatchInv

LEMMA BatchSame ==
  ASSUME BatchInv, UNCHANGED <<batch, added, size, position, skipped>>, learning' => learning
  PROVE  BatchInv'
BY DEF BatchInv, Followed

(* A message is taken.                                                      *)
LEMMA BatchTake ==
  ASSUME TypeOK, BatchInv, TakeEpisode
  PROVE  BatchInv'
<1> DEFINE m == Head(inbox)
<1>1. /\ batch = <<>> /\ batch' = Transitions(m) /\ learning
      /\ UNCHANGED <<added, size, position, skipped, learning>>
  BY DEF TakeEpisode, bufferVars
<1>2. m \in Message
  BY HeadTailProperties DEF TakeEpisode, TypeOK
<1> HIDE DEF m
<1>3. m.length \in Nat
  BY <1>2 DEF Message
<1>4. Len(batch') = m.length /\ \A i \in 1..m.length :
        batch'[i] = [life |-> m.life, episode |-> m.episode, step |-> i, last |-> i = m.length]
  BY <1>1, <1>2, TransitionsType
<1>5. ASSUME NEW i \in 1..m.length, i < m.length
      PROVE  ~batch'[i].last /\ State(batch'[i + 1]) = Succ(batch'[i])
  <2>1. i + 1 \in 1..m.length /\ i # m.length
    BY <1>3, <1>5
  <2>2. batch'[i] = [life |-> m.life, episode |-> m.episode, step |-> i, last |-> i = m.length]
        /\ batch'[i + 1] = [life |-> m.life, episode |-> m.episode, step |-> i + 1,
                            last |-> i + 1 = m.length]
    BY <1>4, <2>1
  <2>3. (i = m.length) = FALSE
    BY <2>1
  <2>4. ~batch'[i].last
    <3>1. batch'[i] = [life |-> m.life, episode |-> m.episode, step |-> i, last |-> FALSE]
      BY <2>2, <2>3
    <3> QED
      BY <3>1
  <2>5. State(batch'[i + 1]) = [life |-> m.life, episode |-> m.episode, step |-> i + 1]
    BY <2>2 DEF State
  <2>6. State(batch'[i]) = [life |-> m.life, episode |-> m.episode, step |-> i]
    BY <2>2 DEF State
  <2> QED
    BY <2>4, <2>5, <2>6 DEF Succ
<1>6. batch' # <<>> => batch'[Len(batch')].last
  <2>1. batch' # <<>> => m.length \in 1..m.length
    BY <1>1, <1>2, <1>3, <1>4, TransitionsType, EmptySeq
  <2>2. batch' # <<>> => batch'[m.length] =
          [life |-> m.life, episode |-> m.episode, step |-> m.length, last |-> TRUE]
    <3>1. (m.length = m.length) = TRUE
      OBVIOUS
    <3> QED
      BY <1>4, <2>1, <3>1
  <2> QED
    BY <1>4, <2>2
<1>7. added # <<>> => Followed(added[Len(added)])
  BY <1>1 DEF BatchInv
<1> QED
  BY <1>1, <1>4, <1>5, <1>6, <1>7 DEF BatchInv, Followed

(* The first of the batch goes, into the buffer or away.                     *)
LEMMA BatchRest ==
  ASSUME TypeOK, BatchInv, batch # <<>>, batch' = Tail(batch)
  PROVE  /\ \A i \in 1..Len(batch') :
              i < Len(batch') => ~batch'[i].last /\ State(batch'[i + 1]) = Succ(batch'[i])
         /\ batch' # <<>> => batch'[Len(batch')].last
         /\ ~Head(batch).last => batch' # <<>> /\ State(batch'[1]) = Succ(Head(batch))
         /\ Head(batch) = batch[1] /\ Head(batch) \in Transition
<1>1. batch \in Seq(Transition)
  BY DEF TypeOK
<1>2. /\ Head(batch) = batch[1] /\ Head(batch) \in Transition /\ batch' \in Seq(Transition)
      /\ Len(batch) \in Nat /\ Len(batch) >= 1 /\ Len(batch') = Len(batch) - 1
      /\ \A i \in 1..Len(batch') : batch'[i] = batch[i + 1]
  BY <1>1, HeadTailProperties, EmptySeq
<1>3. ASSUME NEW i \in 1..Len(batch'), i < Len(batch')
      PROVE  ~batch'[i].last /\ State(batch'[i + 1]) = Succ(batch'[i])
  <2>1. i + 1 \in 1..Len(batch') /\ i + 1 \in 1..Len(batch) /\ i + 1 < Len(batch)
    BY <1>2, <1>3
  <2>2. batch'[i] = batch[i + 1] /\ batch'[i + 1] = batch[(i + 1) + 1]
    BY <1>2, <2>1
  <2> QED
    BY <2>1, <2>2 DEF BatchInv
<1>4. ASSUME batch' # <<>>
      PROVE  batch'[Len(batch')].last
  <2>1. Len(batch') \in 1..Len(batch') /\ Len(batch') + 1 = Len(batch)
    BY <1>2, <1>4, EmptySeq
  <2>2. batch'[Len(batch')] = batch[Len(batch)]
    BY <1>2, <2>1
  <2> QED
    BY <2>2 DEF BatchInv
<1>5. ASSUME ~Head(batch).last
      PROVE  batch' # <<>> /\ State(batch'[1]) = Succ(Head(batch))
  <2>1. Len(batch) # 1
    BY <1>2, <1>5 DEF BatchInv
  <2>2. 1 \in 1..Len(batch') /\ 1 \in 1..Len(batch) /\ 1 < Len(batch)
    BY <1>2, <2>1
  <2>3. batch'[1] = batch[1 + 1]
    BY <1>2, <2>2
  <2> QED
    <3>1. State(batch[1 + 1]) = Succ(batch[1])
      BY <2>2 DEF BatchInv
    <3>2. batch' # <<>>
      <4>1. Len(<<>>) = 0
        BY EmptySeq
      <4> QED
        BY <2>2, <4>1
    <3> QED
      BY <1>2, <2>3, <3>1, <3>2
<1> QED
  BY <1>2, <1>3, <1>4, <1>5

LEMMA BatchAdd ==
  ASSUME TypeOK, BatchInv, AddTransition
  PROVE  BatchInv'
<1> DEFINE t == Head(batch)
           n == Len(added)
<1>1. /\ batch # <<>> /\ batch' = Tail(batch) /\ learning /\ added' = Append(added, t)
      /\ UNCHANGED <<skipped, learning>>
  BY DEF AddTransition, Add
<1>2. /\ t \in Transition /\ t = batch[1]
      /\ ~t.last => batch' # <<>> /\ State(batch'[1]) = Succ(t)
  BY <1>1, BatchRest
<1> HIDE DEF t
<1>3. /\ n \in Nat /\ Len(added') = n + 1 /\ added'[n + 1] = t /\ added' # <<>>
      /\ \A i \in 1..n : added'[i] = added[i]
  <2>1. added \in Seq(Transition)
    BY DEF TypeOK, BufferTypeOK
  <2> QED
    BY <1>1, <1>2, <2>1
<1>4. ASSUME NEW k \in 1..Len(added'), k < Len(added'), ~Followed(added'[k])
      PROVE  State(added'[k + 1]) = Succ(added'[k])
  <2>1. k \in 1..n /\ added'[k] = added[k]
    BY <1>3, <1>4
  <2>2. CASE k = n
    <3>1. added # <<>>
      BY <2>1, EmptySeq
    <3>2. State(batch[1]) = Succ(added[n])
      BY <1>1, <1>4, <2>1, <2>2, <3>1 DEF BatchInv
    <3> QED
      BY <1>2, <1>3, <2>1, <2>2, <3>2
  <2>3. CASE k # n
    <3>1. k < n /\ k + 1 \in 1..n /\ added'[k + 1] = added[k + 1]
      BY <1>3, <2>1, <2>3
    <3> QED
      BY <1>4, <2>1, <3>1 DEF BatchInv
  <2> QED
    BY <2>2, <2>3
<1>5. (\A k \in 1..Len(added) :
         k < Len(added) /\ ~Followed(added[k]) => State(added[k + 1]) = Succ(added[k]))'
  BY <1>1, <1>4 DEF Followed, Succ, State
<1>6. size' < Capacity => position' = size'
  <2>1. size \in 0..Capacity /\ position \in Slots
    BY DEF TypeOK, BufferTypeOK
  <2>2. position' = IF position + 1 = Capacity THEN 0 ELSE position + 1
    BY <2>1, NextPlace DEF AddTransition, Add
  <2>3. size' = IF size < Capacity THEN size + 1 ELSE Capacity
    BY DEF AddTransition, Add
  <2> QED
    BY <2>1, <2>2, <2>3 DEF BatchInv, Slots
<1>7. (added # <<>> /\ ~Followed(added[Len(added)]) =>
         batch # <<>> /\ State(batch[1]) = Succ(added[Len(added)]))'
  BY <1>2, <1>3 DEF Followed, Succ, State
<1>8. (\A i \in 1..Len(batch) :
         i < Len(batch) => ~batch[i].last /\ State(batch[i + 1]) = Succ(batch[i]))'
  BY <1>1, BatchRest DEF Succ, State
<1>9. (batch # <<>> => batch[Len(batch)].last)'
  BY <1>1, BatchRest
<1> QED
  BY <1>5, <1>6, <1>7, <1>8, <1>9 DEF BatchInv

LEMMA BatchSkip ==
  ASSUME TypeOK, BatchInv, SkipTransition
  PROVE  BatchInv'
<1> DEFINE t == Head(batch)
<1>1. /\ batch # <<>> /\ batch' = Tail(batch) /\ learning
      /\ skipped' = skipped \cup {State(t)}
      /\ UNCHANGED <<added, size, position, learning>>
  BY DEF SkipTransition, bufferVars
<1>2. t = batch[1]
  BY <1>1, BatchRest
<1>3. (\A k \in 1..Len(added) :
         k < Len(added) /\ ~Followed(added[k]) => State(added[k + 1]) = Succ(added[k]))'
  BY <1>1 DEF BatchInv, Followed, Succ, State
<1>4. (added # <<>> => Followed(added[Len(added)]))'
  <2> SUFFICES ASSUME added # <<>>, ~Followed(added[Len(added)])
               PROVE  Succ(added[Len(added)]) \in skipped'
    BY <1>1 DEF Followed, Succ, State
  <2>1. State(t) = Succ(added[Len(added)])
    BY <1>1, <1>2 DEF BatchInv
  <2> QED
    BY <1>1, <2>1
<1>5. (\A i \in 1..Len(batch) :
         i < Len(batch) => ~batch[i].last /\ State(batch[i + 1]) = Succ(batch[i]))'
  BY <1>1, BatchRest DEF Succ, State
<1>6. (batch # <<>> => batch[Len(batch)].last)'
  BY <1>1, BatchRest
<1>7. (size < Capacity => position = size)'
  BY <1>1 DEF BatchInv
<1> QED
  BY <1>3, <1>4, <1>5, <1>6, <1>7 DEF BatchInv

LEMMA BatchEnds ==
  ASSUME BatchInv, LearnerEnds
  PROVE  BatchInv'
<1>1. batch' = <<>> /\ Len(batch') = 0 /\ ~learning'
      /\ UNCHANGED <<added, size, position, skipped>>
  BY EmptySeq DEF LearnerEnds, bufferVars
<1> QED
  BY <1>1 DEF BatchInv, Followed

LEMMA BatchNext == TypeOK /\ BatchInv /\ [Next]_vars => BatchInv'
<1> SUFFICES ASSUME TypeOK, BatchInv, [Next]_vars PROVE BatchInv'
  OBVIOUS
<1>1. CASE TakeEpisode
  BY <1>1, BatchTake
<1>2. CASE AddTransition
  BY <1>2, BatchAdd
<1>3. CASE SkipTransition
  BY <1>3, BatchSkip
<1>4. CASE LearnerEnds
  BY <1>4, BatchEnds
<1>5. CASE UNCHANGED <<batch, added, size, position, skipped, learning>>
  BY <1>5, BatchSame
<1> QED
  BY <1>1, <1>2, <1>3, <1>4, <1>5 DEF Next, vars, learnerVars, bufferVars, StartActor, ConnectFails,
     Crash, Leave, Gone, Signal, Step, LastStep, LeaveLoop, Break, Retry, StreamEnds, StreamRaises,
     SendEpisode, Ready, Accept, SendParameters, SendToNobody, Train

(* A slot and the next one hold transitions added in a row.                  *)
LEMMA InARow ==
  ASSUME TypeOK, HoldsLatest, BatchInv, NEW i \in Drawn, ~Newest(i)
  PROVE  \E a \in 1..Len(added) :
           a < Len(added) /\ slots[i] = added[a] /\ slots[NextSlot(i)] = added[a + 1]
<1> DEFINE n == Len(added)
           k == IF i < position THEN position - i ELSE position + Capacity - i
<1>1. /\ n \in Nat /\ position \in Slots /\ size \in 0..Capacity
      /\ size = IF n < Capacity THEN n ELSE Capacity
  BY DEF TypeOK, BufferTypeOK, HoldsLatest
<1>2. i \in Slots /\ i < size
  BY <1>1 DEF Drawn, Slots
<1>3. NextSlot(i) = IF i + 1 = Capacity THEN 0 ELSE i + 1
  BY <1>2, NextPlace DEF NextSlot
<1>4. k \in 2..size
  <2>1. CASE size < Capacity
    <3>1. position = size /\ i <= size - 2
      BY <1>1, <2>1 DEF BatchInv, Drawn
    <3> QED
      BY <1>1, <1>2, <3>1 DEF Slots
  <2>2. CASE size = Capacity
    <3>1. NextSlot(i) # position
      BY <2>2 DEF Newest
    <3> QED
      BY <1>1, <1>2, <1>3, <2>2, <3>1 DEF Slots
  <2> QED
    BY <1>1, <2>1, <2>2
<1>5. k \in 1..Capacity /\ k - 1 \in 1..Capacity /\ k \in 1..size /\ k - 1 \in 1..size
  BY <1>1, <1>4
<1>6. (position + Capacity - k) % Capacity = i
  <2>1. (position + Capacity - k) % Capacity =
          IF k <= position THEN position - k ELSE position + Capacity - k
    BY <1>1, <1>5, PlaceBefore
  <2> QED
    BY <1>1, <1>2, <2>1 DEF Slots
<1>7. (position + Capacity - (k - 1)) % Capacity = NextSlot(i)
  <2>1. (position + Capacity - (k - 1)) % Capacity =
          IF k - 1 <= position THEN position - (k - 1) ELSE position + Capacity - (k - 1)
    BY <1>1, <1>5, PlaceBefore
  <2>2. CASE i < position
    BY <1>1, <1>2, <1>3, <2>1, <2>2 DEF Slots
  <2>3. CASE ~(i < position)
    <3>1. k = position + Capacity - i
      BY <2>3
    <3> HIDE DEF k
    <3> QED
      BY <1>1, <1>2, <1>3, <2>1, <2>3, <3>1 DEF Slots
  <2> QED
    BY <2>2, <2>3
<1> HIDE DEF k
<1>8. slots[i] = added[n + 1 - k]
  BY <1>5, <1>6 DEF HoldsLatest
<1>9. slots[NextSlot(i)] = added[n + 1 - (k - 1)]
  BY <1>5, <1>7 DEF HoldsLatest
<1>10. n + 1 - k \in 1..n /\ n + 1 - k < n /\ n + 1 - (k - 1) = (n + 1 - k) + 1
  BY <1>1, <1>4
<1> QED
  BY <1>8, <1>9, <1>10

(* Of every transition that a sample may draw, but the newest of a full ring, *)
(* the last of an episode and one whose successor was skipped, the next slot *)
(* holds the next state, for every capacity.                                 *)
THEOREM SamplesHoldNextState == Spec => []NextStateTrue
<1>1. Init => TypeOK /\ PoolInv /\ HoldsLatest /\ BatchInv
  BY TypeInit, LatestInit, BatchInit
<1>2. TypeOK /\ PoolInv /\ HoldsLatest /\ BatchInv /\ [Next]_vars
        => (TypeOK /\ PoolInv /\ HoldsLatest /\ BatchInv)'
  BY TypeNext, LatestNext, BatchNext
<1>3. TypeOK /\ HoldsLatest /\ BatchInv => NextStateTrue
  <2> SUFFICES ASSUME TypeOK, HoldsLatest, BatchInv, NEW i \in Drawn,
                      ~slots[i].last, ~Newest(i),
                      [State(slots[i]) EXCEPT !.step = @ + 1] \notin skipped
               PROVE  State(slots[NextSlot(i)]) = [State(slots[i]) EXCEPT !.step = @ + 1]
    BY DEF NextStateTrue
  <2>1. PICK a \in 1..Len(added) :
          a < Len(added) /\ slots[i] = added[a] /\ slots[NextSlot(i)] = added[a + 1]
    BY InARow
  <2>2. ~Followed(added[a])
    BY <2>1 DEF Followed, Succ
  <2> QED
    BY <2>1, <2>2 DEF BatchInv, Succ
<1> QED
  BY <1>1, <1>2, <1>3, PTL DEF Spec

-------------------------------------------------------------------------------
(* The parameters that wait in the learner: the last of them are those that *)
(* were pushed last.                                                         *)
QueueLatest == paramQueue # <<>> => paramQueue[Len(paramQueue)] = pushed

(* What becomes of the queue in a step.                                      *)
LEMMA QueueStep ==
  ASSUME [Next]_vars
  PROVE  \/ UNCHANGED <<paramQueue, pushed>>
         \/ \E n \in 1..Len(paramQueue) : SendParameters(n) \/ SendToNobody(n)
         \/ Train
         \/ LearnerEnds
BY DEF Next, vars, learnerVars, StartActor, ConnectFails, Crash, Leave, Gone, Signal, Step, LastStep,
   LeaveLoop, Break, Retry, StreamEnds, StreamRaises, SendEpisode, Ready, Accept, TakeEpisode,
   AddTransition, SkipTransition

LEMMA QueueLatestNext ==
  ASSUME TypeOK, TypeOK', QueueLatest, [Next]_vars
  PROVE  QueueLatest'
<1>1. CASE UNCHANGED <<paramQueue, pushed>>
  BY <1>1 DEF QueueLatest
<1>2. ASSUME NEW n \in 1..Len(paramQueue), SendParameters(n) \/ SendToNobody(n)
      PROVE  QueueLatest'
  <2>1. pushed' = pushed /\ paramQueue' = SubSeq(paramQueue, n + 1, Len(paramQueue))
    BY <1>2 DEF SendParameters, SendToNobody, TakeParameters
  <2>2. paramQueue \in Seq(Nat)
    BY DEF TypeOK
  <2>3. CASE n = Len(paramQueue)
    BY <2>1, <2>2, <2>3 DEF QueueLatest
  <2>4. CASE n < Len(paramQueue)
    <3>1. Len(paramQueue') = Len(paramQueue) - n /\ Len(paramQueue) - n \in 1..Len(paramQueue)
      BY <2>1, <2>2, <2>4
    <3>2. paramQueue'[Len(paramQueue) - n] = paramQueue[Len(paramQueue)]
      BY <2>1, <2>2, <2>4
    <3> QED
      <4>1. paramQueue # <<>>
        BY <2>2, <2>4
      <4> QED
        BY <2>1, <3>1, <3>2, <4>1 DEF QueueLatest
  <2> QED
    BY <2>2, <2>3, <2>4
<1>3. CASE Train
  <2>1. paramQueue' = Append(paramQueue, pushed') /\ paramQueue \in Seq(Nat) /\ pushed' \in Nat
    BY <1>3, LimitAssumption DEF Train, TypeOK, LimitAssumption
  <2>2. Len(paramQueue') = Len(paramQueue) + 1 /\ paramQueue'[Len(paramQueue) + 1] = pushed'
    BY <2>1
  <2> QED
    BY <2>2 DEF QueueLatest
<1>4. CASE LearnerEnds
  BY <1>4 DEF LearnerEnds, QueueLatest
<1> QED
  BY <1>1, <1>2, <1>3, <1>4, QueueStep

LEMMA QueueInvariance == Spec => [](TypeOK /\ PoolInv /\ QueueLatest)
<1>1. Init => TypeOK /\ PoolInv /\ QueueLatest
  <2>1. Init => QueueLatest
    BY DEF Init, QueueLatest
  <2> QED
    BY <2>1, TypeInit
<1>2. TypeOK /\ PoolInv /\ QueueLatest /\ [Next]_vars => (TypeOK /\ PoolInv /\ QueueLatest)'
  BY TypeNext, QueueLatestNext
<1> QED
  BY <1>1, <1>2, PTL DEF Spec

(* An actor that plays on has the latest parameters again and again: the    *)
(* handler sends it what waits, the last of it, and where nothing waits the *)
(* learner trains and pushes. So it is if the learner catches up with what  *)
(* the actor sends, and the two go on where they can, as TLC finds on a      *)
(* small instance. From one transition no sample can be drawn                *)
(* (ReplayBuffer.sample), so LearnAfter has to be more; its default is 100.  *)
THEOREM ListenersGetParameters ==
  ASSUME LearnAfter > 1
  PROVE  FairSpec /\ []ParametersGoOn /\ LearnerCatchesUp => ParametersArrive
<1> DEFINE Heard == Listening /\ learning
           Behind == Heard /\ CaughtUp /\ ~HasLatest /\ ~Idle
           Some == Behind /\ paramQueue # <<>>
           Nothing == Behind /\ paramQueue = <<>>
           Inv == TypeOK /\ PoolInv /\ QueueLatest
<1>1. Inv /\ Some /\ [Next]_vars => (Some' /\ ~SendsParameters) \/ ~Behind'
  <2> SUFFICES ASSUME Inv, Some, [Next]_vars PROVE (Some' /\ ~SendsParameters) \/ ~Behind'
    OBVIOUS
  <2>1. ASSUME NEW n \in 1..Len(paramQueue), SendParameters(n) PROVE HasLatest'
    <3>1. n = Len(paramQueue) /\ params' = paramQueue[n] /\ pushed' = pushed
      BY <2>1 DEF SendParameters, TakeParameters, Listening
    <3> QED
      BY <3>1 DEF HasLatest, QueueLatest
  <2>2. ~\E n \in 1..Len(paramQueue) : SendToNobody(n)
    BY DEF SendToNobody, Listening
  <2>3. Train => paramQueue' # <<>>
    <3>1. paramQueue \in Seq(Nat)
      BY DEF TypeOK
    <3> QED
      BY <3>1 DEF Train
  <2>4. LearnerEnds => ~Heard'
    BY DEF LearnerEnds
  <2> QED
    BY <2>1, <2>2, <2>3, <2>4, QueueStep DEF SendsParameters
<1>2. Inv /\ Nothing /\ [Next]_vars => (Nothing' /\ ~Train) \/ Some' \/ ~Behind'
  <2> SUFFICES ASSUME Inv, Nothing, [Next]_vars
               PROVE  (Nothing' /\ ~Train) \/ Some' \/ ~Behind'
    OBVIOUS
  <2>1. Train => paramQueue' # <<>>
    BY DEF Train, TypeOK
  <2>2. LearnerEnds => ~Heard'
    BY DEF LearnerEnds
  <2>3. ~\E n \in 1..Len(paramQueue) : SendParameters(n) \/ SendToNobody(n)
    OBVIOUS
  <2> QED
    BY <2>1, <2>2, <2>3, QueueStep
<1>3. Some /\ ParametersGoOn => ENABLED <<SendsParameters>>_vars
  BY DEF ParametersGoOn
<1>4. Inv /\ Nothing /\ ParametersGoOn => ENABLED <<Train>>_vars
  <2>1. ASSUME Inv, Nothing PROVE size >= LearnAfter /\ Drawn # {}
    <3>1. size >= LearnAfter /\ size \in Nat
      BY <2>1, PoolAssumption, CapacityAssumption
      DEF Idle, TypeOK, BufferTypeOK, PoolAssumption, CapacityAssumption
    <3>2. 0 \in Drawn
      BY <3>1, PoolAssumption DEF Drawn, PoolAssumption
    <3> QED
      BY <3>1, <3>2
  <2> QED
    BY <2>1 DEF ParametersGoOn
<1>5. Spec => []Inv
  BY QueueInvariance
<1>6. Heard /\ CaughtUp /\ ~(HasLatest \/ Idle) => Some \/ Nothing
  OBVIOUS
<1> HIDE DEF Inv, Behind, Some, Nothing, Heard
<1> DEFINE Holds == FairSpec /\ []ParametersGoOn /\ LearnerCatchesUp
<1>7. Holds => (Some ~> ~Behind)
  BY <1>1, <1>3, <1>5, PTL DEF FairSpec, Fairness, Spec
<1>8. Holds => (Nothing ~> Some \/ ~Behind)
  BY <1>2, <1>4, <1>5, PTL DEF FairSpec, Fairness, Spec
<1>9. Behind <=> Heard /\ CaughtUp /\ ~(HasLatest \/ Idle)
  BY DEF Behind
<1>10. Heard <=> Listening /\ learning
  BY DEF Heard
<1> QED
  BY <1>6, <1>7, <1>8, <1>9, <1>10, PTL DEF LearnerCatchesUp, ParametersArrive
===============================================================================
