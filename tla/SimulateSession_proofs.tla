----------------------- MODULE SimulateSession_proofs -----------------------
(***************************************************************************)
(* Theorems about SimulateSession for any set of events and any size of   *)
(* the queue: executions overlap by no more than one for each timeout, a   *)
(* listening session ends for a cause only, and success is earned.         *)
(*                                                                         *)
(* The loop and the engine only share a signal without identity, so the    *)
(* argument counts: each wait that ended with a signal used up the result  *)
(* of some execution (SignalsAreResults), and everything handed to the     *)
(* engine has been waited for or is the current event (Accounted).         *)
(***************************************************************************)
EXTENDS SimulateSession, FiniteSetTheorems, TLAPS

----------------------------------------------------------------------------
(* Counting.                                                               *)

\* The sets that are counted are finite and their sizes are numbers.
LEMMA SizesAreNumbers ==
    ASSUME NEW S, S \subseteq Events
    PROVE  IsFiniteSet(S) /\ Cardinality(S) \in Nat
BY FS_Subset, FS_CardinalityType, EventsAssumption

\* Disjoint sets add up.
LEMMA DisjointSizes ==
    ASSUME NEW S, S \subseteq Events, NEW T, T \subseteq Events, S \cap T = {}
    PROVE  /\ IsFiniteSet(S \cup T)
           /\ Cardinality(S \cup T) = Cardinality(S) + Cardinality(T)
<1>1. IsFiniteSet(S) /\ IsFiniteSet(T) /\ Cardinality(S) \in Nat /\ Cardinality(T) \in Nat
  BY SizesAreNumbers
<1>2. /\ IsFiniteSet(S \cup T)
      /\ Cardinality(S \cup T) = Cardinality(S) + Cardinality(T) - Cardinality(S \cap T)
  BY <1>1, FS_Union
<1>3. Cardinality(S \cap T) = 0
  BY FS_EmptySet
<1> QED BY <1>1, <1>2, <1>3

\* One element more makes a set larger by one at most.
LEMMA AddedSize ==
    ASSUME NEW S, S \subseteq Events, NEW x
    PROVE  /\ IsFiniteSet(S \cup {x}) /\ Cardinality(S \cup {x}) \in Nat
           /\ Cardinality(S \cup {x}) <= Cardinality(S) + 1
           /\ x \notin S => Cardinality(S \cup {x}) = Cardinality(S) + 1
<1>1. IsFiniteSet(S) /\ Cardinality(S) \in Nat
  BY SizesAreNumbers
<1>2. CASE x \in S
  <2>1. IsFiniteSet(S \cup {x}) /\ Cardinality(S \cup {x}) = Cardinality(S)
    BY <1>1, <1>2, FS_AddElement
  <2> QED BY <1>1, <1>2, <2>1
<1>3. CASE x \notin S
  <2>1. IsFiniteSet(S \cup {x}) /\ Cardinality(S \cup {x}) = Cardinality(S) + 1
    BY <1>1, <1>3, FS_AddElement
  <2> QED BY <1>1, <1>3, <2>1
<1> QED BY <1>2, <1>3

\* The counting argument: what the invariant says about sets bounds the overlap.
LEMMA InvBoundsOverlap == OverlapInv => BoundedOverlap
<1> SUFFICES ASSUME OverlapInv PROVE BoundedOverlap
  OBVIOUS
<1> DEFINE Waited == Told \cup Lapsed
<1>1. /\ Active \subseteq Events /\ Reported \subseteq Events /\ Active \cap Reported = {}
      /\ Told \subseteq Events /\ Lapsed \subseteq Events /\ Told \cap Lapsed = {}
  BY DEF Active, Reported, Told, Lapsed
<1>2. /\ IsFiniteSet(Active) /\ Cardinality(Active) \in Nat
      /\ IsFiniteSet(Reported) /\ Cardinality(Reported) \in Nat
      /\ IsFiniteSet(Told) /\ Cardinality(Told) \in Nat
      /\ IsFiniteSet(Lapsed) /\ Cardinality(Lapsed) \in Nat
  BY <1>1, SizesAreNumbers
<1>3. Cardinality(Active \cup Reported) = Cardinality(Active) + Cardinality(Reported)
  BY <1>1, DisjointSizes
<1>4. IsFiniteSet(Waited) /\ Cardinality(Waited) = Cardinality(Told) + Cardinality(Lapsed)
  BY <1>1, DisjointSizes
<1>5. /\ IsFiniteSet(Waited \cup {cur})
      /\ Cardinality(Waited \cup {cur}) <= Cardinality(Told) + Cardinality(Lapsed) + 1
  BY <1>1, <1>4, AddedSize
<1>6. Cardinality(Active \cup Reported) <= Cardinality(Waited \cup {cur})
  BY <1>5, FS_Subset DEF OverlapInv, Accounted
<1>7. Cardinality(Told) <= Cardinality(Reported)
  BY <1>2 DEF OverlapInv, SignalsAreResults
<1>8. Cardinality(Waited \cup {cur}) \in Nat /\ Cardinality(Active \cup Reported) \in Nat
  BY <1>1, <1>5, FS_CardinalityType, SizesAreNumbers
<1> HIDE DEF Waited
<1> QED BY <1>2, <1>3, <1>5, <1>6, <1>7, <1>8 DEF BoundedOverlap

----------------------------------------------------------------------------
(* Types.                                                                  *)

LEMMA TypeInit == Init => TypeOK
<1> SUFFICES ASSUME Init PROVE TypeOK
  OBVIOUS
<1>1. cur \in Events \cup {NoEvent}
  BY DEF Init
<1>2. at \in [Events -> Places]
  BY DEF Init, Places
<1>3. queue \in Seq(Events) /\ Len(queue) <= QueueSize
  BY QueueAssumption DEF Init
<1> QED BY <1>1, <1>2, <1>3 DEF Init, TypeOK

LEMMA TypeStep == TypeOK /\ [Next]_vars => TypeOK'
<1> SUFFICES ASSUME TypeOK, [Next]_vars PROVE TypeOK'
  OBVIOUS
<1> USE DEF TypeOK, Places, Move, Cancel, setLifecycleErr, loopVars
<1>1. CASE Stop         BY <1>1 DEF Stop
<1>2. CASE Return       BY <1>2 DEF Return
<1>3. CASE TakePayload
  <2>1. /\ Head(queue) \in Events /\ Tail(queue) \in Seq(Events)
        /\ Len(Tail(queue)) <= QueueSize
    BY <1>3, QueueAssumption DEF TakePayload
  <2> QED BY <1>3, <2>1 DEF TakePayload
<1>4. CASE Arm          BY <1>4 DEF Arm
<1>5. CASE Deliver
  <2>1. at' \in [Events -> Places]
    BY <1>5 DEF Deliver
  <2> QED BY <1>5, <2>1 DEF Deliver
<1>6. CASE Finished
  <2>1. verdict' \in [Events -> {"none", "finished", "timeout"}]
    BY <1>6 DEF Finished, EndWait
  <2>2. pc' \in {"idle", "ended"} /\ signal' = FALSE
    <3>1. pc' = NextRound /\ signal' = FALSE
      BY <1>6, Zenon DEF Finished, EndWait
    <3>2. NextRound \in {"idle", "ended"}
      BY DEF NextRound
    <3> QED BY <3>1, <3>2
  <2>3. UNCHANGED <<mode, cur, at, queue, cancelled, lifecycleErr, resultErr, ender, ret>>
    BY <1>6 DEF Finished, EndWait
  <2>4. pc' \in {"init", "idle", "trigger", "wait", "ended", "returned"}
    BY <2>2, Zenon
  <2>5. signal' \in BOOLEAN /\ cancelled' \in BOOLEAN
    BY <2>2, <2>3, Zenon
  <2> QED BY <2>1, <2>3, <2>4, <2>5
<1>7. CASE TimedOut
  <2>1. verdict' \in [Events -> {"none", "finished", "timeout"}]
    BY <1>7 DEF TimedOut, EndWait
  <2> QED BY <1>7, <2>1 DEF TimedOut, EndWait, NextRound
<1>8. CASE RateLimited  BY <1>8 DEF RateLimited, NextRound
<1>9. CASE TriggerFails BY <1>9 DEF TriggerFails
<1>10. CASE InitFails   BY <1>10 DEF InitFails
<1>11. CASE Initialized BY <1>11 DEF Initialized
<1>12. CASE Interrupt   BY <1>12 DEF Interrupt
<1>13. ASSUME NEW e \in Events, Post(e) PROVE TypeOK'
  <2>1. /\ Append(queue, e) \in Seq(Events)
        /\ Len(Append(queue, e)) = Len(queue) + 1 /\ Len(queue) \in Nat
    OBVIOUS
  <2>2. Len(queue) < QueueSize => Len(Append(queue, e)) <= QueueSize
    BY <2>1, QueueAssumption
  <2>3. queue' \in Seq(Events) /\ Len(queue') <= QueueSize
    BY <1>13, <2>1, <2>2 DEF Post
  <2>4. at' \in [Events -> Places]
    BY <1>13 DEF Post
  <2> QED BY <1>13, <2>3, <2>4 DEF Post
<1>14. ASSUME NEW e \in Events, Observe(e) PROVE TypeOK'
  BY <1>14 DEF Observe
<1>15. ASSUME NEW e \in Events, Take(e) PROVE TypeOK'
  BY <1>15 DEF Take
<1>16. ASSUME NEW e \in Events, Abandon(e) PROVE TypeOK'
  BY <1>16 DEF Abandon
<1>17. ASSUME NEW e \in Events, ResultReceived(e) PROVE TypeOK'
  BY <1>17 DEF ResultReceived, ResultErr
<1>18. ASSUME NEW e \in Events, ExecutionError(e) PROVE TypeOK'
  BY <1>18 DEF ExecutionError
<1>19. CASE UNCHANGED vars
  BY <1>19 DEF vars
<1> QED BY <1>1, <1>2, <1>3, <1>4, <1>5, <1>6, <1>7, <1>8, <1>9, <1>10, <1>11, <1>12,
           <1>13, <1>14, <1>15, <1>16, <1>17, <1>18, <1>19 DEF Next, Loop

\* Every variable of the session keeps its type, and the queue its capacity
\* (startHTTPListenPayloadServer).
THEOREM TypeCorrect == Spec => []TypeOK
<1>1. Init => TypeOK
  BY TypeInit
<1>2. TypeOK /\ [Next]_vars => TypeOK'
  BY TypeStep
<1> QED BY <1>1, <1>2, PTL DEF Spec

----------------------------------------------------------------------------
(* The order of a round.                                                   *)

OrderInv == TypeOK /\ RoundIsOrdered /\ QueueIsOfQueued

LEMMA OrderInit == Init => OrderInv
BY TypeInit DEF Init, OrderInv, RoundIsOrdered, Undelivered, QueueIsOfQueued

LEMMA RoundStep == OrderInv /\ [Next]_vars => RoundIsOrdered'
<1> SUFFICES ASSUME OrderInv, [Next]_vars PROVE RoundIsOrdered'
  OBVIOUS
<1> USE DEF OrderInv, TypeOK, Places, RoundIsOrdered, Undelivered, Move,
            Cancel, setLifecycleErr, loopVars
<1>1. CASE Stop         BY <1>1 DEF Stop
<1>2. CASE Return       BY <1>2 DEF Return
<1>3. CASE TakePayload
  <2>1. Head(queue) \in Events /\ Head(queue) = queue[1] /\ 1 \in 1..Len(queue)
    BY <1>3 DEF TakePayload
  <2>2. at[Head(queue)] = "queued"
    BY <2>1 DEF QueueIsOfQueued
  <2> QED BY <1>3, <2>1, <2>2, EventsAssumption DEF TakePayload
<1>4. CASE Arm          BY <1>4 DEF Arm
<1>5. CASE Deliver      BY <1>5 DEF Deliver
<1>6. CASE Finished     BY <1>6 DEF Finished, EndWait, NextRound
<1>7. CASE TimedOut     BY <1>7 DEF TimedOut, EndWait, NextRound
<1>8. CASE RateLimited  BY <1>8 DEF RateLimited, NextRound
<1>9. CASE TriggerFails BY <1>9 DEF TriggerFails
<1>10. CASE InitFails   BY <1>10 DEF InitFails
<1>11. CASE Initialized BY <1>11 DEF Initialized
<1>12. CASE Interrupt   BY <1>12 DEF Interrupt
<1>13. ASSUME NEW e \in Events, Post(e) PROVE RoundIsOrdered'
  BY <1>13 DEF Post
<1>14. ASSUME NEW e \in Events, Observe(e) PROVE RoundIsOrdered'
  BY <1>14 DEF Observe
<1>15. ASSUME NEW e \in Events, Take(e) PROVE RoundIsOrdered'
  BY <1>15 DEF Take
<1>16. ASSUME NEW e \in Events, Abandon(e) PROVE RoundIsOrdered'
  BY <1>16 DEF Abandon
<1>17. ASSUME NEW e \in Events, ResultReceived(e) PROVE RoundIsOrdered'
  BY <1>17 DEF ResultReceived
<1>18. ASSUME NEW e \in Events, ExecutionError(e) PROVE RoundIsOrdered'
  BY <1>18 DEF ExecutionError
<1>19. CASE UNCHANGED vars
  BY <1>19 DEF vars
<1> QED BY <1>1, <1>2, <1>3, <1>4, <1>5, <1>6, <1>7, <1>8, <1>9, <1>10, <1>11, <1>12,
           <1>13, <1>14, <1>15, <1>16, <1>17, <1>18, <1>19 DEF Next, Loop

\* An event that is not "queued" may move without disturbing the queue.
LEMMA QueueUntouched ==
    ASSUME OrderInv, UNCHANGED queue,
           \A e \in Events : at[e] = "queued" => at'[e] = "queued"
    PROVE  QueueIsOfQueued'
BY DEF OrderInv, TypeOK, QueueIsOfQueued

LEMMA QueueStep == OrderInv /\ [Next]_vars => QueueIsOfQueued'
<1> SUFFICES ASSUME OrderInv, [Next]_vars PROVE QueueIsOfQueued'
  OBVIOUS
<1> USE DEF OrderInv, TypeOK, Move, loopVars
<1>1. CASE TakePayload
  <2>1. /\ Head(queue) = queue[1] /\ 1 \in 1..Len(queue) /\ queue' \in Seq(Events)
        /\ Len(queue') = Len(queue) - 1
        /\ \A i \in 1..Len(queue') : queue'[i] = queue[i+1] /\ i + 1 \in 1..Len(queue)
    BY <1>1 DEF TakePayload
  <2>2. ASSUME NEW i \in 1..Len(queue') PROVE at'[queue'[i]] = "queued"
    <3>1. queue[i+1] # queue[1] /\ queue[i+1] \in Events
      BY <2>1 DEF QueueIsOfQueued
    <3> QED BY <1>1, <2>1, <3>1 DEF TakePayload, QueueIsOfQueued
  <2>3. ASSUME NEW i \in 1..Len(queue'), NEW j \in 1..Len(queue'), queue'[i] = queue'[j]
        PROVE  i = j
    BY <2>1, <2>3 DEF QueueIsOfQueued
  <2> QED BY <2>2, <2>3 DEF QueueIsOfQueued
<1>2. ASSUME NEW e \in Events, Post(e), queue' # queue PROVE QueueIsOfQueued'
  <2>1. /\ queue' = Append(queue, e) /\ Len(queue') = Len(queue) + 1
        /\ queue'[Len(queue) + 1] = e
        /\ \A i \in 1..Len(queue) : queue'[i] = queue[i] /\ queue[i] \in Events
    <3>1. queue' = Append(queue, e) /\ queue \in Seq(Events)
      BY <1>2 DEF Post
    <3> HIDE <1>2
    <3> QED BY <3>1
  <2>2. at[e] = "new" /\ at' = [at EXCEPT ![e] = "queued"]
    BY <1>2 DEF Post
  <2>3. \A i \in 1..Len(queue) : queue[i] # e
    BY <2>2 DEF QueueIsOfQueued
  <2> QED BY <2>1, <2>2, <2>3 DEF QueueIsOfQueued
<1>3. CASE /\ UNCHANGED queue
           /\ \A e \in Events : at[e] = "queued" => at'[e] = "queued"
  BY <1>3, QueueUntouched
<1>4. \/ TakePayload
      \/ \E e \in Events : Post(e) /\ queue' # queue
      \/ /\ UNCHANGED queue
         /\ \A e \in Events : at[e] = "queued" => at'[e] = "queued"
  <2> USE DEF RoundIsOrdered, Undelivered
  <2>1. CASE Stop \/ Return \/ Arm \/ Finished \/ TimedOut
    BY <2>1 DEF Stop, Return, Arm, Finished, TimedOut, EndWait
  <2>2. CASE Deliver \/ RateLimited
    BY <2>2 DEF Deliver, RateLimited
  <2>3. CASE TriggerFails \/ InitFails \/ Initialized \/ Interrupt
    BY <2>3 DEF TriggerFails, InitFails, Initialized, Interrupt
  <2>4. ASSUME NEW e \in Events, Post(e), queue' = queue
        PROVE  \A f \in Events : at[f] = "queued" => at'[f] = "queued"
    BY <2>4 DEF Post
  <2>5. ASSUME NEW e \in Events,
               Observe(e) \/ Take(e) \/ Abandon(e) \/ ResultReceived(e) \/ ExecutionError(e)
        PROVE  /\ UNCHANGED queue
               /\ \A f \in Events : at[f] = "queued" => at'[f] = "queued"
    BY <2>5 DEF Observe, Take, Abandon, ResultReceived, ExecutionError
  <2>6. CASE UNCHANGED vars
    BY <2>6 DEF vars
  <2> QED BY <2>1, <2>2, <2>3, <2>4, <2>5, <2>6 DEF Next, Loop
<1> QED BY <1>1, <1>2, <1>3, <1>4

----------------------------------------------------------------------------
(* What is counted.                                                        *)

\* Everything with the engine stays accounted for.
LEMMA AccountedStep == OrderInv /\ Accounted /\ [Next]_vars => Accounted'
<1> SUFFICES ASSUME OrderInv, Accounted, [Next]_vars PROVE Accounted'
  OBVIOUS
<1> USE DEF OrderInv, TypeOK, RoundIsOrdered, Undelivered, Accounted, Active, Reported,
            Told, Lapsed, Move, loopVars
<1>1. CASE Stop         BY <1>1 DEF Stop
<1>2. CASE Return       BY <1>2 DEF Return
<1>3. CASE TakePayload  BY <1>3 DEF TakePayload
<1>4. CASE Arm          BY <1>4 DEF Arm
<1>5. CASE Deliver      BY <1>5 DEF Deliver
<1>6. CASE Finished     BY <1>6 DEF Finished, EndWait
<1>7. CASE TimedOut     BY <1>7 DEF TimedOut, EndWait
<1>8. CASE RateLimited  BY <1>8 DEF RateLimited
<1>9. CASE TriggerFails BY <1>9 DEF TriggerFails
<1>10. CASE InitFails   BY <1>10 DEF InitFails
<1>11. CASE Initialized BY <1>11, EventsAssumption DEF Initialized
<1>12. CASE Interrupt   BY <1>12 DEF Interrupt
<1>13. ASSUME NEW e \in Events, Post(e) PROVE Accounted'
  BY <1>13 DEF Post
<1>14. ASSUME NEW e \in Events, Observe(e) PROVE Accounted'
  BY <1>14, EventsAssumption DEF Observe
<1>15. ASSUME NEW e \in Events, Take(e) PROVE Accounted'
  BY <1>15 DEF Take
<1>16. ASSUME NEW e \in Events, Abandon(e) PROVE Accounted'
  BY <1>16 DEF Abandon
<1>17. ASSUME NEW e \in Events, ResultReceived(e) PROVE Accounted'
  BY <1>17 DEF ResultReceived
<1>18. ASSUME NEW e \in Events, ExecutionError(e) PROVE Accounted'
  BY <1>18 DEF ExecutionError
<1>19. CASE UNCHANGED vars
  BY <1>19 DEF vars
<1> QED BY <1>1, <1>2, <1>3, <1>4, <1>5, <1>6, <1>7, <1>8, <1>9, <1>10, <1>11, <1>12,
           <1>13, <1>14, <1>15, <1>16, <1>17, <1>18, <1>19 DEF Next, Loop

\* What a step does to the results, the signal and the waits it ended.
LEMMA Counted ==
    ASSUME OrderInv, [Next]_vars
    PROVE  \/ Reported' = Reported /\ Told' = Told /\ (signal' => signal)
           \/ /\ Told' = Told
              /\ \E e \in Events : e \notin Reported /\ Reported' = Reported \cup {e}
           \/ /\ Reported' = Reported /\ signal /\ ~signal'
              /\ \E e \in Events : Told' = Told \cup {e}
<1> USE DEF OrderInv, TypeOK, RoundIsOrdered, Undelivered, Reported, Told, Move, loopVars
<1>1. CASE Stop         BY <1>1 DEF Stop
<1>2. CASE Return       BY <1>2 DEF Return
<1>3. CASE TakePayload
  <2>1. Head(queue) = queue[1] /\ 1 \in 1..Len(queue) /\ Head(queue) \in Events
    BY <1>3 DEF TakePayload
  <2>2. at[Head(queue)] = "queued"
    BY <2>1 DEF QueueIsOfQueued
  <2> QED BY <1>3, <2>1, <2>2 DEF TakePayload
<1>4. CASE Arm          BY <1>4 DEF Arm
<1>5. CASE Deliver      BY <1>5 DEF Deliver
<1>6. CASE Finished
  <2>1. cur \in Events
    BY <1>6 DEF Finished, EndWait
  <2>2. Told' = Told \cup {cur}
    BY <1>6, <2>1 DEF Finished, EndWait
  <2> QED BY <1>6, <2>1, <2>2 DEF Finished, EndWait
<1>7. CASE TimedOut     BY <1>7 DEF TimedOut, EndWait
<1>8. CASE RateLimited  BY <1>8 DEF RateLimited
<1>9. CASE TriggerFails BY <1>9 DEF TriggerFails
<1>10. CASE InitFails   BY <1>10 DEF InitFails
<1>11. CASE Initialized BY <1>11 DEF Initialized
<1>12. CASE Interrupt   BY <1>12 DEF Interrupt
<1>13. ASSUME NEW e \in Events, Post(e)
       PROVE  Reported' = Reported /\ Told' = Told /\ (signal' => signal)
  BY <1>13 DEF Post
<1>14. ASSUME NEW e \in Events, Observe(e)
       PROVE  Reported' = Reported /\ Told' = Told /\ (signal' => signal)
  BY <1>14 DEF Observe
<1>15. ASSUME NEW e \in Events, Take(e) \/ Abandon(e) \/ ExecutionError(e)
       PROVE  Reported' = Reported /\ Told' = Told /\ (signal' => signal)
  BY <1>15 DEF Take, Abandon, ExecutionError
<1>16. ASSUME NEW e \in Events, ResultReceived(e)
       PROVE  e \notin Reported /\ Reported' = Reported \cup {e} /\ Told' = Told
  BY <1>16 DEF ResultReceived
<1>17. CASE UNCHANGED vars
  BY <1>17 DEF vars
<1> QED BY <1>1, <1>2, <1>3, <1>4, <1>5, <1>6, <1>7, <1>8, <1>9, <1>10, <1>11, <1>12,
           <1>13, <1>14, <1>15, <1>16, <1>17 DEF Next, Loop

\* There are never more signals, used or at hand, than results.
LEMMA SignalsStep == OrderInv /\ SignalsAreResults /\ [Next]_vars => SignalsAreResults'
<1> SUFFICES ASSUME OrderInv, SignalsAreResults, [Next]_vars PROVE SignalsAreResults'
  OBVIOUS
<1> USE DEF SignalsAreResults
<1>1. Told \subseteq Events /\ Reported \subseteq Events
  BY DEF Told, Reported
<1>2. /\ IsFiniteSet(Told) /\ Cardinality(Told) \in Nat
      /\ IsFiniteSet(Reported) /\ Cardinality(Reported) \in Nat
  BY <1>1, SizesAreNumbers
<1>3. signal \in BOOLEAN /\ signal' \in BOOLEAN
  BY TypeStep DEF OrderInv, TypeOK
<1>4. CASE Reported' = Reported /\ Told' = Told /\ (signal' => signal)
  BY <1>2, <1>3, <1>4
<1>5. ASSUME Told' = Told,
             NEW e \in Events, e \notin Reported, Reported' = Reported \cup {e}
      PROVE  SignalsAreResults'
  <2>1. Cardinality(Reported') = Cardinality(Reported) + 1
    BY <1>1, <1>5, AddedSize
  <2> QED BY <1>2, <1>3, <1>5, <2>1
<1>6. ASSUME Reported' = Reported, signal, ~signal', NEW e \in Events, Told' = Told \cup {e}
      PROVE  SignalsAreResults'
  <2>1. Cardinality(Told') <= Cardinality(Told) + 1 /\ Cardinality(Told') \in Nat
    BY <1>1, <1>6, AddedSize
  <2> QED BY <1>2, <1>6, <2>1
<1> QED BY <1>4, <1>5, <1>6, Counted

----------------------------------------------------------------------------
(* The theorem.                                                            *)

LEMMA OverlapInit == Init => OverlapInv
<1> SUFFICES ASSUME Init PROVE OverlapInv
  OBVIOUS
<1>1. Active = {} /\ Reported = {} /\ Told = {}
  BY DEF Init, Active, Reported, Told
<1>2. SignalsAreResults
  BY <1>1, FS_EmptySet DEF Init, SignalsAreResults
<1>3. Accounted
  BY <1>1 DEF Accounted
<1> QED BY <1>2, <1>3, OrderInit DEF OverlapInv, OrderInv

LEMMA OverlapStep == OverlapInv /\ [Next]_vars => OverlapInv'
BY TypeStep, RoundStep, QueueStep, AccountedStep, SignalsStep DEF OverlapInv, OrderInv

\* However long executions take and whatever order they finish in, those with
\* the engine outnumber the waits that timed out by one at most (waitFn and
\* runHTTPListen against OnResultReceived).
THEOREM OverlapBounded == Spec => []BoundedOverlap
<1>1. Init => OverlapInv
  BY OverlapInit
<1>2. OverlapInv /\ [Next]_vars => OverlapInv'
  BY OverlapStep
<1>3. OverlapInv => BoundedOverlap
  BY InvBoundsOverlap
<1> QED BY <1>1, <1>2, <1>3, PTL DEF Spec

----------------------------------------------------------------------------
(* How a session ends.                                                     *)

\* A session is cancelled by a cause, and a listening one ends by one.
EndsForACause ==
    /\ cancelled => ender # "none"
    /\ Listening /\ pc \in {"ended", "returned"} => ender # "none"

\* Every failure has left its error where run looks for it.
ErrorsAreKept ==
    /\ ender \in {"init", "trigger"} => lifecycleErr # "none"
    /\ ender = "fatal" => resultErr # "none"
    /\ \A e \in Events : at[e] = "crashed" => resultErr # "none"
    /\ ~Listening => \A e \in Events : at[e] = "error" => resultErr # "none"
    /\ pc = "returned" /\ ret = "ok" => lifecycleErr = "none" /\ resultErr = "none"

EndInv == TypeOK /\ EndsForACause /\ ErrorsAreKept

LEMMA EndInit == Init => EndInv
<1> SUFFICES ASSUME Init PROVE EndInv
  OBVIOUS
<1>1. TypeOK
  BY TypeInit
<1>2. EndsForACause /\ ErrorsAreKept
  BY DEF Init, EndsForACause, ErrorsAreKept
<1> QED BY <1>1, <1>2 DEF EndInv

LEMMA CauseStep == EndInv /\ [Next]_vars => EndsForACause'
<1> SUFFICES ASSUME EndInv, [Next]_vars PROVE EndsForACause'
  OBVIOUS
<1> USE DEF EndInv, TypeOK, EndsForACause, Listening, Cancel, setLifecycleErr, loopVars
<1>1. CASE Stop \/ Return \/ TakePayload \/ Arm \/ Deliver
  BY <1>1 DEF Stop, Return, TakePayload, Arm, Deliver
<1>2. CASE Finished \/ TimedOut \/ RateLimited
  BY <1>2 DEF Finished, TimedOut, EndWait, NextRound, RateLimited
<1>3. CASE TriggerFails \/ InitFails \/ Initialized \/ Interrupt
  BY <1>3 DEF TriggerFails, InitFails, Initialized, Interrupt
<1>4. CASE \E e \in Events : \/ Post(e) \/ Observe(e) \/ Take(e) \/ Abandon(e)
                             \/ ResultReceived(e)
  BY <1>4 DEF Post, Observe, Take, Abandon, ResultReceived
<1>5. CASE \E e \in Events : ExecutionError(e)
  BY <1>5 DEF ExecutionError
<1>6. CASE UNCHANGED vars
  BY <1>6 DEF vars
<1> QED BY <1>1, <1>2, <1>3, <1>4, <1>5, <1>6 DEF Next, Loop

LEMMA ErrorsStep == EndInv /\ [Next]_vars => ErrorsAreKept'
<1> SUFFICES ASSUME EndInv, [Next]_vars PROVE ErrorsAreKept'
  OBVIOUS
<1> USE DEF EndInv, TypeOK, Places, ErrorsAreKept, Listening, Move, Cancel,
            setLifecycleErr, loopVars
<1>1. CASE Stop \/ Return \/ Arm \/ Finished \/ TimedOut
  BY <1>1 DEF Stop, Return, Arm, Finished, TimedOut, EndWait, NextRound
<1>2. CASE TakePayload
  BY <1>2 DEF TakePayload
<1>3. CASE Deliver \/ RateLimited
  BY <1>3 DEF Deliver, RateLimited, NextRound
<1>4. CASE TriggerFails \/ InitFails \/ Initialized \/ Interrupt
  BY <1>4 DEF TriggerFails, InitFails, Initialized, Interrupt
<1>5. ASSUME NEW e \in Events, Post(e) \/ Observe(e) \/ Take(e) \/ Abandon(e)
      PROVE  ErrorsAreKept'
  BY <1>5 DEF Post, Observe, Take, Abandon
<1>6. ASSUME NEW e \in Events, ResultReceived(e) PROVE ErrorsAreKept'
  BY <1>6 DEF ResultReceived, ResultErr
<1>7. ASSUME NEW e \in Events, ExecutionError(e) PROVE ErrorsAreKept'
  BY <1>7 DEF ExecutionError
<1>8. CASE UNCHANGED vars
  BY <1>8 DEF vars
<1> QED BY <1>1, <1>2, <1>3, <1>4, <1>5, <1>6, <1>7, <1>8 DEF Next, Loop

LEMMA EndInvariant == Spec => []EndInv
<1>1. EndInv /\ [Next]_vars => EndInv'
  BY TypeStep, CauseStep, ErrorsStep DEF EndInv
<1> QED BY <1>1, EndInit, PTL DEF Spec

\* No result of a single request ends a listening session: somebody stopped it,
\* a hook failed or the engine did (runHTTPListen and the loop of run).
THEOREM ListenGoesOnHolds == Spec => []ListenGoesOn
<1>1. EndInv => ListenGoesOn
  BY DEF EndInv, EndsForACause, ListenGoesOn
<1> QED BY <1>1, EndInvariant, PTL

\* run returns no error only if no execution crashed, the single execution of a
\* session that does not listen returned none, and no hook failed (run and its
\* lifecycle hooks write from several goroutines).
THEOREM SuccessIsEarnedHolds == Spec => []SuccessIsEarned
<1>1. EndInv => SuccessIsEarned
  BY DEF EndInv, TypeOK, ErrorsAreKept, SuccessIsEarned
<1> QED BY <1>1, EndInvariant, PTL

=============================================================================
