--------------------------- MODULE CallStreamsProof --------------------------
(***************************************************************************)
(* The two streams of a call at the server. subscribeCompleteObserver      *)
(* reports every value, in order, and then the one end, for any number of  *)
(* values and any timing of the end. createCall, for every buffer size and *)
(* any number of request values: the method hears all of them in order and *)
(* how they ended, and a failing request ends the response.                *)
(***************************************************************************)
EXTENDS CompleteObserverStream, CreateCall, SequenceTheorems, TLAPS

-----------------------------------------------------------------------------
(* subscribeCompleteObserver.                                               *)
ObserverInv == ObserverTypeOK /\ QueueMatchesCounters

LEMMA NoMicrotasks ==
  /\ <<>> \in Seq(Microtask) /\ Len(<<>>) = 0
  /\ \A s \in Seq(Microtask) : s = <<>> <=> Len(s) = 0
BY EmptySeq

LEMMA QueueTask ==
  ASSUME NEW ms \in Seq(Microtask), NEW t \in Microtask
  PROVE  /\ Append(ms, t) \in Seq(Microtask)
         /\ Len(Append(ms, t)) = Len(ms) + 1
         /\ \A i \in 1 .. Len(ms) : Append(ms, t)[i] = ms[i]
         /\ Append(ms, t)[Len(ms) + 1] = t
OBVIOUS

LEMMA TakeTask ==
  ASSUME NEW ms \in Seq(Microtask), ms # <<>>
  PROVE  /\ Head(ms) = ms[1] /\ Head(ms) \in Microtask
         /\ Tail(ms) \in Seq(Microtask)
         /\ Len(ms) \in Nat /\ Len(ms) > 0
         /\ Len(Tail(ms)) = Len(ms) - 1
         /\ \A i \in 1 .. Len(Tail(ms)) : Tail(ms)[i] = ms[i + 1]
BY HeadTailProperties, NoMicrotasks

LEMMA InitInv == ObserverInit => ObserverInv
<1> SUFFICES ASSUME ObserverInit PROVE ObserverInv
  OBVIOUS
<1>1. ObserverTypeOK
  <2>1. microtasks \in Seq(Microtask)
    BY NoMicrotasks DEF ObserverInit
  <2> QED BY <2>1, MaxEmittedAssumption DEF ObserverInit, ObserverTypeOK, NewObserver, ObserverState
<1>2. QueueMatchesCounters
  BY NoMicrotasks DEF ObserverInit, NewObserver, QueueMatchesCounters, ValuesWait, OneFinalTask, ObserverKnows, OutcomeMatches
<1> QED BY <1>1, <1>2 DEF ObserverInv

LEMMA EmitPreserves ==
  ASSUME ObserverInv, Emit
  PROVE  ObserverInv'
<1> DEFINE t == [kind |-> "next", val |-> emitted + 1]
<1>1. /\ source = "open" /\ source' = source
      /\ emitted' = emitted + 1 /\ emitted' \in 0 .. MaxEmitted
      /\ obs' = [obs EXCEPT !.tasks = @ + 1]
      /\ microtasks' = Append(microtasks, t)
      /\ received' = received /\ outcome' = outcome
  BY MaxEmittedAssumption DEF ObserverInv, ObserverTypeOK, Emit, ValueQueued
<1>2. t \in Microtask
  BY DEF Microtask, ObserverInv, ObserverTypeOK
<1>3. /\ obs.tasks \in Nat /\ obs'.tasks = obs.tasks + 1
      /\ obs'.completed = obs.completed /\ obs'.completeCalled = obs.completeCalled
      /\ obs' \in ObserverState
  <2>1. obs \in ObserverState
    BY DEF ObserverInv, ObserverTypeOK
  <2>2. obs'.tasks = obs.tasks + 1 /\ obs' \in ObserverState
    BY <1>1, <2>1 DEF ObserverState
  <2>3. obs'.completed = obs.completed /\ obs'.completeCalled = obs.completeCalled
    BY <1>1, <2>1, Zenon DEF ObserverState
  <2> QED BY <2>1, <2>2, <2>3 DEF ObserverState
<1> HIDE DEF t
<1>4. /\ microtasks' \in Seq(Microtask)
      /\ Len(microtasks') = Len(microtasks) + 1
      /\ \A i \in 1 .. Len(microtasks) : microtasks'[i] = microtasks[i]
      /\ microtasks'[Len(microtasks) + 1] = t
  BY <1>1, <1>2, QueueTask DEF ObserverInv, ObserverTypeOK
<1>5. ObserverTypeOK'
  BY <1>1, <1>3, <1>4 DEF ObserverInv, ObserverTypeOK
<1>6. Len(microtasks) = obs.tasks /\ obs.tasks = emitted - received
  BY <1>1 DEF ObserverInv, QueueMatchesCounters, ValuesWait, OneFinalTask, ObserverKnows, OutcomeMatches
<1>7. \A i \in 1 .. obs'.tasks :
        i <= Len(microtasks') /\ microtasks'[i] = [kind |-> "next", val |-> received' + i]
  <2>1. ASSUME NEW i \in 1 .. obs'.tasks, i = obs'.tasks
        PROVE  i <= Len(microtasks') /\ microtasks'[i] = [kind |-> "next", val |-> received' + i]
    <3>1. i = Len(microtasks) + 1 /\ emitted + 1 = received' + i
      BY <1>1, <1>3, <1>6, <2>1 DEF ObserverInv, ObserverTypeOK
    <3> QED BY <1>4, <3>1 DEF t
  <2>2. ASSUME NEW i \in 1 .. obs'.tasks, i # obs'.tasks
        PROVE  i <= Len(microtasks') /\ microtasks'[i] = [kind |-> "next", val |-> received' + i]
    <3>1. i \in 1 .. Len(microtasks)
      BY <1>3, <1>6, <2>2
    <3> QED BY <1>1, <1>4, <1>6, <3>1 DEF ObserverInv, QueueMatchesCounters, ValuesWait, OneFinalTask, ObserverKnows, OutcomeMatches
  <2> QED BY <2>1, <2>2
<1>8. QueueMatchesCounters'
  BY <1>1, <1>3, <1>4, <1>6, <1>7 DEF ObserverInv, QueueMatchesCounters, ValuesWait, OneFinalTask, ObserverKnows, OutcomeMatches, ObserverTypeOK
<1> QED BY <1>5, <1>8 DEF ObserverInv

LEMMA CompletePreserves ==
  ASSUME ObserverInv, Complete
  PROVE  ObserverInv'
<1> DEFINE t == [kind |-> "complete", val |-> NoValue]
<1>1. /\ source = "open" /\ source' = "completed"
      /\ emitted' = emitted /\ received' = received
      /\ obs' = [obs EXCEPT !.completed = TRUE]
  BY DEF Complete, SourceCompleted
<1>2. t \in Microtask
  BY DEF Microtask, NoValue
<1>3. /\ obs.tasks \in Nat /\ obs'.tasks = obs.tasks
      /\ obs'.completed /\ obs'.completeCalled = obs.completeCalled
      /\ obs' \in ObserverState
  BY <1>1 DEF ObserverInv, ObserverTypeOK, ObserverState
<1>4. Len(microtasks) = obs.tasks /\ ~obs.completeCalled
  BY <1>1 DEF ObserverInv, QueueMatchesCounters, ValuesWait, OneFinalTask, ObserverKnows, OutcomeMatches
<1>5. CASE obs.tasks = 0 /\ outcome' = "completed" /\ microtasks' = microtasks
  <2>1. ObserverTypeOK'
    BY <1>1, <1>3, <1>5 DEF ObserverInv, ObserverTypeOK
  <2>2. microtasks = <<>>
    BY <1>4, <1>5, NoMicrotasks DEF ObserverInv, ObserverTypeOK
  <2>3. QueueMatchesCounters'
    BY <1>1, <1>3, <1>4, <1>5, <2>2 DEF ObserverInv, QueueMatchesCounters, ValuesWait, OneFinalTask, ObserverKnows, OutcomeMatches, ObserverTypeOK
  <2> QED BY <2>1, <2>3 DEF ObserverInv
<1>6. CASE obs.tasks # 0 /\ outcome' = outcome /\ microtasks' = Append(microtasks, t)
  <2> HIDE DEF t
  <2>1. /\ microtasks' \in Seq(Microtask)
        /\ Len(microtasks') = Len(microtasks) + 1
        /\ \A i \in 1 .. Len(microtasks) : microtasks'[i] = microtasks[i]
        /\ microtasks'[Len(microtasks) + 1] = t
    BY <1>2, <1>6, QueueTask DEF ObserverInv, ObserverTypeOK
  <2>2. ObserverTypeOK'
    BY <1>1, <1>3, <1>6, <2>1 DEF ObserverInv, ObserverTypeOK
  <2>3. QueueMatchesCounters'
    BY <1>1, <1>3, <1>4, <1>6, <2>1 DEF ObserverInv, QueueMatchesCounters, ValuesWait, OneFinalTask, ObserverKnows, OutcomeMatches, ObserverTypeOK, t
  <2> QED BY <2>2, <2>3 DEF ObserverInv
<1> QED BY <1>5, <1>6 DEF Complete, PassedOnAtOnce

LEMMA ErrorPreserves ==
  ASSUME ObserverInv, Error
  PROVE  ObserverInv'
<1> DEFINE t == [kind |-> "error", val |-> NoValue]
<1>1. /\ source = "open" /\ source' = "errored"
      /\ emitted' = emitted /\ received' = received /\ obs' = obs
  BY DEF Error
<1>2. t \in Microtask
  BY DEF Microtask, NoValue
<1>3. obs.tasks \in Nat
  BY DEF ObserverInv, ObserverTypeOK, ObserverState
<1>4. Len(microtasks) = obs.tasks /\ ~obs.completeCalled /\ ~obs.completed
  BY <1>1 DEF ObserverInv, QueueMatchesCounters, ValuesWait, OneFinalTask, ObserverKnows, OutcomeMatches
<1>5. CASE obs.tasks = 0 /\ outcome' = "errored" /\ microtasks' = microtasks
  <2>1. ObserverTypeOK'
    BY <1>1, <1>5 DEF ObserverInv, ObserverTypeOK
  <2>2. microtasks = <<>>
    BY <1>4, <1>5, NoMicrotasks DEF ObserverInv, ObserverTypeOK
  <2>3. QueueMatchesCounters'
    BY <1>1, <1>3, <1>4, <1>5, <2>2 DEF ObserverInv, QueueMatchesCounters, ValuesWait, OneFinalTask, ObserverKnows, OutcomeMatches, ObserverTypeOK
  <2> QED BY <2>1, <2>3 DEF ObserverInv
<1>6. CASE obs.tasks # 0 /\ outcome' = outcome /\ microtasks' = Append(microtasks, t)
  <2> HIDE DEF t
  <2>1. /\ microtasks' \in Seq(Microtask)
        /\ Len(microtasks') = Len(microtasks) + 1
        /\ \A i \in 1 .. Len(microtasks) : microtasks'[i] = microtasks[i]
        /\ microtasks'[Len(microtasks) + 1] = t
    BY <1>2, <1>6, QueueTask DEF ObserverInv, ObserverTypeOK
  <2>2. ObserverTypeOK'
    BY <1>1, <1>6, <2>1 DEF ObserverInv, ObserverTypeOK
  <2>3. QueueMatchesCounters'
    BY <1>1, <1>3, <1>4, <1>6, <2>1 DEF ObserverInv, QueueMatchesCounters, ValuesWait, OneFinalTask, ObserverKnows, OutcomeMatches, ObserverTypeOK, t
  <2> QED BY <2>2, <2>3 DEF ObserverInv
<1> QED BY <1>5, <1>6 DEF Error, PassedOnAtOnce

(* What the oldest microtask tells about the queue.                         *)
LEMMA OldestTask ==
  ASSUME ObserverInv, microtasks # <<>>
  PROVE  LET task == Head(microtasks) IN
         /\ task.kind = "next" =>
              obs.tasks > 0 /\ task.val = received + 1 /\ outcome = "none"
         /\ task.kind # "next" =>
              /\ obs.tasks = 0 /\ Len(microtasks) = 1
              /\ task.kind = "complete" => source = "completed"
              /\ task.kind = "error" => source = "errored"
<1>1. /\ Head(microtasks) = microtasks[1]
      /\ Len(microtasks) \in Nat /\ Len(microtasks) > 0
      /\ obs.tasks \in Nat
  BY TakeTask DEF ObserverInv, ObserverTypeOK, ObserverState
<1>2. CASE obs.tasks > 0
  <2>1. microtasks[1] = [kind |-> "next", val |-> received + 1]
    BY <1>1, <1>2 DEF ObserverInv, QueueMatchesCounters, ValuesWait, OneFinalTask, ObserverKnows, OutcomeMatches
  <2>2. outcome = "none"
    BY <1>1, <1>2 DEF ObserverInv, QueueMatchesCounters, ValuesWait, OneFinalTask, ObserverKnows, OutcomeMatches, ObserverTypeOK
  <2> QED BY <1>1, <1>2, <2>1, <2>2
<1>3. CASE obs.tasks = 0
  <2>1. Len(microtasks) = 1
    BY <1>1, <1>3 DEF ObserverInv, QueueMatchesCounters, OneFinalTask
  <2>2. microtasks[1] =
          [kind |-> IF source = "completed" THEN "complete" ELSE "error", val |-> NoValue]
    BY <1>3, <2>1 DEF ObserverInv, QueueMatchesCounters, ValuesWait, OneFinalTask, ObserverKnows, OutcomeMatches
  <2>3. source # "open"
    BY <1>3, <2>1 DEF ObserverInv, QueueMatchesCounters, ValuesWait, OneFinalTask, ObserverKnows, OutcomeMatches
  <2> QED BY <1>1, <1>3, <2>1, <2>2, <2>3 DEF ObserverInv, ObserverTypeOK
<1> QED BY <1>1, <1>2, <1>3

LEMMA RunPreserves ==
  ASSUME ObserverInv, RunMicrotask
  PROVE  ObserverInv'
<1> DEFINE task == Head(microtasks)
<1>1. /\ microtasks # <<>> /\ microtasks' = Tail(microtasks)
      /\ source' = source /\ emitted' = emitted
  BY DEF RunMicrotask
<1>2. /\ microtasks' \in Seq(Microtask)
      /\ Len(microtasks) \in Nat /\ Len(microtasks') = Len(microtasks) - 1
      /\ \A i \in 1 .. Len(microtasks') : microtasks'[i] = microtasks[i + 1]
      /\ obs.tasks \in Nat
  BY <1>1, TakeTask DEF ObserverInv, ObserverTypeOK, ObserverState
<1>3. CASE HandleValue(task)
  <2>1. obs.tasks > 0 /\ received' = received + 1 /\ outcome = "none"
    BY <1>1, <1>3, OldestTask DEF HandleValue
  <2>2. obs \in ObserverState
    BY DEF ObserverInv, ObserverTypeOK
  <2>3. /\ obs'.tasks = obs.tasks - 1 /\ obs'.completed = obs.completed
        /\ obs'.completeCalled = (obs.completeCalled \/ IsLastValue(obs))
    BY <1>3, <2>2 DEF HandleValue, ValueHandled, ObserverState
  <2>4. obs' \in ObserverState
    <3>1. obs.tasks - 1 \in Nat
      BY <1>2, <2>1
    <3>2. (obs.completeCalled \/ IsLastValue(obs)) \in BOOLEAN
      OBVIOUS
    <3> QED BY <1>3, <2>2, <3>1, <3>2, Zenon DEF HandleValue, ValueHandled, ObserverState
  <2>5. /\ obs.tasks = emitted - received /\ received < emitted
        /\ received' \in 0 .. MaxEmitted
    BY <2>1, MaxEmittedAssumption DEF ObserverInv, QueueMatchesCounters, ValuesWait, OneFinalTask, ObserverKnows, OutcomeMatches, ObserverTypeOK
  <2>6. IsLastValue(obs) <=> source = "completed" /\ obs.tasks = 1
    BY DEF ObserverInv, QueueMatchesCounters, ValuesWait, OneFinalTask, ObserverKnows, OutcomeMatches, IsLastValue
  <2>7. outcome' = IF source = "completed" /\ obs.tasks = 1 THEN "completed" ELSE outcome
    BY <1>3, <2>6 DEF HandleValue
  <2>8. ObserverTypeOK'
    BY <1>1, <1>2, <2>4, <2>5, <2>7 DEF ObserverInv, ObserverTypeOK
  <2>9. \A i \in 1 .. obs'.tasks :
          i <= Len(microtasks') /\ microtasks'[i] = [kind |-> "next", val |-> received' + i]
    <3> SUFFICES ASSUME NEW i \in 1 .. obs'.tasks
                 PROVE  /\ i <= Len(microtasks')
                        /\ microtasks'[i] = [kind |-> "next", val |-> received' + i]
      OBVIOUS
    <3>1. i + 1 \in 1 .. obs.tasks
      BY <1>2, <2>3
    <3>2. i + 1 <= Len(microtasks) /\ microtasks[i + 1] = [kind |-> "next", val |-> received + (i + 1)]
      BY <3>1 DEF ObserverInv, QueueMatchesCounters, ValuesWait, OneFinalTask, ObserverKnows, OutcomeMatches
    <3>3. received + (i + 1) = received' + i
      BY <2>1 DEF ObserverInv, ObserverTypeOK
    <3> QED BY <1>2, <3>2, <3>3
  <2>10. ~obs.completeCalled
    BY <2>1 DEF ObserverInv, QueueMatchesCounters, ValuesWait, OneFinalTask, ObserverKnows, OutcomeMatches
  <2>11. ValuesWait'
    BY <1>1, <2>1, <2>3, <2>5, <2>9 DEF ObserverInv, ObserverTypeOK, ValuesWait
  <2>12. OneFinalTask'
    <3>1. /\ Len(microtasks') \in obs'.tasks .. obs'.tasks + 1
          /\ source' = "open" => Len(microtasks') = obs'.tasks
      BY <1>1, <1>2, <2>1, <2>3 DEF ObserverInv, QueueMatchesCounters, OneFinalTask
    <3>2. ASSUME Len(microtasks') = obs'.tasks + 1
          PROVE  microtasks'[Len(microtasks')] = microtasks[Len(microtasks)]
      BY <1>2, <2>1, <2>3, <3>2
    <3> QED BY <1>1, <1>2, <2>1, <2>3, <3>1, <3>2
              DEF ObserverInv, QueueMatchesCounters, OneFinalTask
  <2>13. /\ obs'.completeCalled <=> source = "completed" /\ obs.tasks = 1
         /\ obs'.completed <=> source' = "completed"
    BY <1>1, <2>3, <2>6, <2>10, Zenon DEF ObserverInv, QueueMatchesCounters, ObserverKnows
  <2>14. obs'.tasks = obs.tasks - 1
    BY <2>3
  <2>15. ObserverKnows'
    BY <1>1, <1>2, <2>13, <2>14 DEF ObserverKnows
  <2>16. OutcomeMatches'
    <3>1. CASE source = "completed" /\ obs.tasks = 1
      BY <1>1, <1>2, <2>7, <2>13, <2>14, <3>1 DEF OutcomeMatches
    <3>2. CASE ~(source = "completed" /\ obs.tasks = 1)
      BY <1>1, <1>2, <2>1, <2>7, <2>14, <3>2
        DEF ObserverInv, QueueMatchesCounters, OutcomeMatches
    <3> QED BY <3>1, <3>2
  <2> QED BY <2>8, <2>11, <2>12, <2>15, <2>16 DEF ObserverInv, QueueMatchesCounters
<1>4. CASE HandleComplete(task)
  <2>1. /\ obs' = obs /\ received' = received
        /\ outcome' = IF obs.completeCalled THEN outcome ELSE "completed"
        /\ obs.tasks = 0 /\ Len(microtasks) = 1 /\ source = "completed"
    BY <1>1, <1>4, OldestTask DEF HandleComplete
  <2>3. ObserverTypeOK'
    BY <1>1, <1>2, <2>1 DEF ObserverInv, ObserverTypeOK
  <2>4. ValuesWait' /\ ObserverKnows'
    BY <1>1, <2>1 DEF ObserverInv, QueueMatchesCounters, ValuesWait, ObserverKnows
  <2>5. Len(microtasks') = 0
    BY <1>2, <2>1
  <2>6. OneFinalTask'
    BY <1>1, <2>1, <2>5 DEF OneFinalTask
  <2>7. OutcomeMatches'
    BY <1>1, <2>1, <2>5 DEF ObserverInv, QueueMatchesCounters, OutcomeMatches
  <2> QED BY <2>3, <2>4, <2>6, <2>7 DEF ObserverInv, QueueMatchesCounters
<1>5. CASE HandleError(task)
  <2>1. /\ obs' = obs /\ received' = received /\ outcome' = "errored"
        /\ obs.tasks = 0 /\ Len(microtasks) = 1 /\ source = "errored"
    BY <1>1, <1>5, OldestTask DEF HandleError
  <2>3. ObserverTypeOK'
    BY <1>1, <1>2, <2>1 DEF ObserverInv, ObserverTypeOK
  <2>4. ValuesWait' /\ ObserverKnows'
    BY <1>1, <2>1 DEF ObserverInv, QueueMatchesCounters, ValuesWait, ObserverKnows
  <2>5. Len(microtasks') = 0
    BY <1>2, <2>1
  <2>6. OneFinalTask'
    BY <1>1, <2>1, <2>5 DEF OneFinalTask
  <2>7. OutcomeMatches'
    BY <1>1, <2>1, <2>5 DEF ObserverInv, QueueMatchesCounters, OutcomeMatches
  <2> QED BY <2>3, <2>4, <2>6, <2>7 DEF ObserverInv, QueueMatchesCounters
<1> QED BY <1>3, <1>4, <1>5 DEF RunMicrotask

LEMMA ObserverInductive == ObserverSpec => []ObserverInv
<1>1. ObserverInv /\ [ObserverNext]_observerVars => ObserverInv'
  <2> SUFFICES ASSUME ObserverInv, [ObserverNext]_observerVars
               PROVE  ObserverInv'
    OBVIOUS
  <2>1. CASE ObserverNext
    BY <2>1, EmitPreserves, CompletePreserves, ErrorPreserves, RunPreserves DEF ObserverNext
  <2>2. CASE UNCHANGED observerVars
    BY <2>2 DEF observerVars, ObserverInv, ObserverTypeOK, QueueMatchesCounters, ValuesWait, OneFinalTask, ObserverKnows, OutcomeMatches
  <2> QED BY <2>1, <2>2
<1> QED BY <1>1, InitInv, PTL DEF ObserverSpec

(* The variables of subscribeCompleteObserver keep their types.             *)
THEOREM ObserverTypes == ObserverSpec => []ObserverTypeOK
<1>1. ObserverInv => ObserverTypeOK BY DEF ObserverInv
<1> QED BY <1>1, ObserverInductive, PTL

(* The counter and the microtask queue agree at all times.                  *)
THEOREM QueueAlwaysMatches == ObserverSpec => []QueueMatchesCounters
<1>1. ObserverInv => QueueMatchesCounters BY DEF ObserverInv
<1> QED BY <1>1, ObserverInductive, PTL

(* When the observer is told of the end it has every value.                 *)
THEOREM FinalComesLast == ObserverSpec => []FinalMeansAllReceived
<1>1. ObserverInv => FinalMeansAllReceived
  BY DEF ObserverInv, ObserverTypeOK, ObserverState, QueueMatchesCounters, ValuesWait, OneFinalTask, ObserverKnows, OutcomeMatches, FinalMeansAllReceived
<1> QED BY <1>1, ObserverInductive, PTL

(* An open source has reported nothing yet.                                 *)
LEMMA OpenMeansNoOutcome ==
  ASSUME ObserverInv, source = "open"
  PROVE  outcome = "none" /\ Len(microtasks) = obs.tasks
BY DEF ObserverInv, ObserverTypeOK, QueueMatchesCounters, OneFinalTask, OutcomeMatches

(* The deferred complete microtask never has anything left to report.       *)
LEMMA LateCompleteIsSilent ==
  ASSUME ObserverInv, microtasks # <<>>, HandleComplete(Head(microtasks))
  PROVE  outcome' = outcome /\ received' = received
<1>1. obs.tasks = 0 /\ Len(microtasks) = 1 /\ source = "completed"
  BY OldestTask DEF HandleComplete
<1>2. outcome # "none" /\ outcome # "errored"
  BY <1>1 DEF ObserverInv, QueueMatchesCounters, OutcomeMatches
<1>3. outcome = "completed"
  BY <1>2 DEF ObserverInv, ObserverTypeOK
<1>4. obs.completeCalled
  BY <1>1, <1>3 DEF ObserverInv, QueueMatchesCounters, OutcomeMatches
<1> QED BY <1>4 DEF HandleComplete

(* Every step of the observer is a step of the abstract replay, or hidden.  *)
LEMMA StepReplays ==
  ASSUME ObserverInv, ObserverNext
  PROVE  Replay!Next \/ UNCHANGED Replay!replayVars
<1> USE DEF Replay!replayVars
<1>1. CASE Emit
  BY <1>1 DEF Emit, Replay!Next, Replay!SourceEmits
<1>2. obs.tasks = emitted - received /\ emitted \in Nat /\ received \in Nat
  BY MaxEmittedAssumption DEF ObserverInv, ObserverTypeOK, QueueMatchesCounters, ValuesWait
<1>3. PassedOnAtOnce(obs) <=> received = emitted
  BY <1>2 DEF PassedOnAtOnce
<1>4. CASE Complete
  <2>1. Replay!SourceEnds("completed")
    BY <1>3, <1>4 DEF Complete, Replay!SourceEnds
  <2> QED BY <2>1 DEF Replay!Next
<1>5. CASE Error
  <2>1. Replay!SourceEnds("errored")
    BY <1>3, <1>5 DEF Error, Replay!SourceEnds
  <2> QED BY <2>1 DEF Replay!Next
<1>6. CASE RunMicrotask
  <2>1. microtasks # <<>> /\ source' = source /\ emitted' = emitted
    BY <1>6 DEF RunMicrotask
  <2>2. CASE HandleValue(Head(microtasks))
    <3>1. obs.tasks > 0 /\ received' = received + 1 /\ outcome = "none"
      BY <2>1, <2>2, OldestTask DEF HandleValue
    <3>2. outcome' = IF source = "completed" /\ obs.tasks = 1 THEN "completed" ELSE outcome
      BY <2>2 DEF HandleValue, IsLastValue, ObserverInv, QueueMatchesCounters, ObserverKnows
    <3>3. received < emitted /\ (obs.tasks = 1 => received' = emitted)
      BY <1>2, <3>1
    <3> QED BY <2>1, <3>1, <3>2, <3>3 DEF Replay!Next, Replay!ValueReceived
  <2>3. CASE HandleComplete(Head(microtasks))
    BY <2>1, <2>3, LateCompleteIsSilent
  <2>4. CASE HandleError(Head(microtasks))
    <3>1. obs.tasks = 0 /\ Len(microtasks) = 1 /\ source = "errored"
      BY <2>1, <2>4, OldestTask DEF HandleError
    <3>2. outcome = "none"
      BY <3>1 DEF ObserverInv, ObserverTypeOK, QueueMatchesCounters, OutcomeMatches
    <3>3. received = emitted
      BY <1>2, <3>1
    <3> QED BY <2>1, <2>4, <3>1, <3>2, <3>3 DEF HandleError, Replay!Next, Replay!EndReceived
  <2> QED BY <1>6, <2>2, <2>3, <2>4 DEF RunMicrotask
<1> QED BY <1>1, <1>4, <1>5, <1>6 DEF ObserverNext

(* subscribeCompleteObserver implements the abstract replay of a stream.    *)
THEOREM ObserverReplays == ObserverSpec => ImplementsReplay
<1>1. ObserverInit => Replay!Init
  BY DEF ObserverInit, Replay!Init
<1>2. ObserverInv /\ [ObserverNext]_observerVars => [Replay!Next]_(Replay!replayVars)
  BY StepReplays DEF observerVars, Replay!replayVars
<1> QED BY <1>1, <1>2, ObserverInductive, PTL DEF ObserverSpec, ImplementsReplay, Replay!Spec

(* Values come one by one, none after the final callback, of which there is *)
(* one.                                                                     *)
THEOREM ObserverInOrder == ObserverSpec => InOrderThenFinalOnce
<1> DEFINE Orderly ==
      /\ received' # received => received' = received + 1 /\ outcome = "none"
      /\ outcome' # outcome => outcome = "none"
<1>1. ObserverInv /\ [ObserverNext]_observerVars => [Orderly]_observerVars
  <2> SUFFICES ASSUME ObserverInv, ObserverNext PROVE Orderly
    BY DEF observerVars
  <2>1. CASE Replay!Next
    BY <2>1, OpenMeansNoOutcome
      DEF Replay!Next, Replay!SourceEmits, Replay!SourceEnds, Replay!ValueReceived,
          Replay!EndReceived
  <2>2. CASE UNCHANGED Replay!replayVars
    BY <2>2 DEF Replay!replayVars
  <2> QED BY <2>1, <2>2, StepReplays
<1> QED BY <1>1, ObserverInductive, PTL DEF ObserverSpec, InOrderThenFinalOnce

-----------------------------------------------------------------------------
(* createCall.                                                              *)
Upto(n) == [k \in 1 .. n |-> k]

(* While it buffers, requestBuffered$ holds every accepted value; it stops  *)
(* only after the method has been invoked.                                  *)
BufferIsComplete ==
  /\ isBuffering => buffer = Upto(accepted)
  /\ phase \notin {"running", "over"} => isBuffering /\ ~flushPending

(* A live pipeline has not heard of a failure, and an open response whose   *)
(* pipeline is over belongs to a request that completed without a value.    *)
FailuresHeard ==
  /\ phase \in {"first", "preCall", "running"} => buffered \notin RequestFailure
  /\ phase = "over" /\ res = "open" => buffered = "completed"
  /\ phase = "first" => buffered = "open"

CallInv ==
  /\ TypeOK /\ BufferIsComplete /\ FailuresHeard
  /\ RequestsReachMethod /\ EndReachesMethod

-----------------------------------------------------------------------------
LEMMA UptoGrows ==
  ASSUME NEW n \in Nat
  PROVE  /\ Upto(n) \in Seq(Nat) /\ Len(Upto(n)) = n
         /\ Append(Upto(n), n + 1) = Upto(n + 1)
<1>1. Upto(n) \in Seq(Nat) /\ Len(Upto(n)) = n /\ Upto(n + 1) \in Seq(Nat) /\ Len(Upto(n + 1)) = n + 1
  BY DEF Upto
<1>2. /\ Append(Upto(n), n + 1) \in Seq(Nat)
      /\ Len(Append(Upto(n), n + 1)) = n + 1
      /\ \A k \in 1 .. n : Append(Upto(n), n + 1)[k] = Upto(n)[k]
      /\ Append(Upto(n), n + 1)[n + 1] = n + 1
  BY <1>1
<1>3. \A k \in 1 .. (n + 1) : Append(Upto(n), n + 1)[k] = Upto(n + 1)[k]
  <2> TAKE k \in 1 .. (n + 1)
  <2>1. CASE k = n + 1
    BY <1>2, <2>1 DEF Upto
  <2>2. CASE k \in 1 .. n
    BY <1>2, <2>2 DEF Upto
  <2>3. k = n + 1 \/ k \in 1 .. n
    OBVIOUS
  <2> QED BY <2>1, <2>2, <2>3, Zenon
<1>4. Append(Upto(n), n + 1) = Upto(n + 1)
  BY <1>1, <1>2, <1>3, SeqEqual
<1> QED BY <1>1, <1>4

LEMMA InitCall == Init => CallInv
<1> SUFFICES ASSUME Init PROVE CallInv
  OBVIOUS
<1>1. Upto(0) = <<>> /\ <<>> \in Seq(Nat) /\ Len(<<>>) = 0
  <2>1. Upto(0) \in Seq(Nat) /\ Len(Upto(0)) = 0
    BY UptoGrows
  <2> QED BY <2>1, EmptySeq
<1>2. TypeOK
  <2>1. hasPreCall \in BOOLEAN /\ isBuffering \in BOOLEAN /\ flushPending \in BOOLEAN
    BY DEF Init
  <2>2. /\ request \in {"open", "completed", "errored"} /\ accepted \in Nat
        /\ buffered \in {"open", "completed"} \cup RequestFailure
        /\ buffer \in Seq(Nat) /\ Len(buffer) <= bufferSize /\ got \in Seq(Nat)
        /\ heard \in {"open", "completed"} \cup RequestFailure
        /\ phase \in Phase /\ res \in Outcome
    BY <1>1, CreateCallAssumption DEF Init, Phase, Outcome
  <2> QED BY <2>1, <2>2 DEF TypeOK
<1>3. BufferIsComplete
  BY <1>1 DEF Init, BufferIsComplete
<1>4. FailuresHeard /\ RequestsReachMethod /\ EndReachesMethod
  BY DEF Init, FailuresHeard, RequestsReachMethod, EndReachesMethod, RequestFailure
<1> QED BY <1>2, <1>3, <1>4 DEF CallInv

(* The invocation of the method with everything that was accepted.          *)
LEMMA InvokePreserves ==
  ASSUME NEW kept \in Seq(Nat), kept = Upto(accepted'), FirstValue(kept) \/ Invoke(kept),
         buffered' = buffered, isBuffering' = TRUE,
         buffered \in {"open", "completed"}, got \in Seq(Nat),
         heard \in {"open", "completed"} \cup RequestFailure,
         flushPending = FALSE
  PROVE  /\ phase' \in {"preCall", "running"} /\ got' \in Seq(Nat)
         /\ heard' \in {"open", "completed"} \cup RequestFailure
         /\ flushPending' \in BOOLEAN
         /\ phase' = "preCall" => ~flushPending'
         /\ phase' = "running" => got' = Upto(accepted') /\ heard' = buffered'
BY DEF FirstValue, Invoke

LEMMA BufferFailsPreserves ==
  ASSUME CallInv, NEW why \in RequestFailure, buffered = "open", BufferFails(why),
         isBuffering' = isBuffering, hasPreCall' = hasPreCall,
         request' \in {"open", "completed", "errored"}
  PROVE  CallInv'
<1>1. /\ buffered' = why /\ UNCHANGED <<buffer, accepted, got, flushPending, isBuffering>>
      /\ heard' \in {why, heard} /\ phase' \in {phase, "over"} /\ res' \in {res, why}
      /\ phase' = "over" => res' # "open"
      /\ phase' \notin {"first", "preCall", "running"}
      /\ res' \in Outcome /\ phase' \in Phase
  BY DEF BufferFails, EndResponse, CallInv, TypeOK, FailuresHeard, Phase, Outcome, RequestFailure
<1> QED BY <1>1
        DEF CallInv, TypeOK, BufferIsComplete, FailuresHeard, RequestsReachMethod,
            EndReachesMethod

(* A value that is taken: the buffer keeps it and stays complete, or the    *)
(* method, which is running, is sent it.                                    *)
LEMMA NextPreserves ==
  ASSUME CallInv, RequestNext
  PROVE  CallInv'
<1>1. CASE Full /\ BufferFails("overflow")
  BY <1>1, BufferFailsPreserves DEF RequestNext, RequestFailure, CallInv, TypeOK
<1>2. CASE ~Full /\ BufferTakes
  <2> DEFINE v == accepted + 1
             kept == IF isBuffering THEN Append(buffer, v) ELSE buffer
  <2>1. /\ accepted \in Nat /\ accepted' = v /\ v \in Nat /\ buffer' = kept
        /\ UNCHANGED <<hasPreCall, request, isBuffering, buffered, res>>
        /\ buffered = "open"
        /\ \/ phase = "first" /\ FirstValue(kept)
           \/ phase = "running" /\ got' = Append(got, v) /\ UNCHANGED <<phase, heard, flushPending>>
           \/ phase \notin {"first", "running"} /\ UNCHANGED <<phase, got, heard, flushPending>>
    BY <1>2 DEF RequestNext, BufferTakes, CallInv, TypeOK
  <2>2. /\ Append(Upto(accepted), v) = Upto(v)
        /\ isBuffering => kept = Upto(v)
        /\ kept \in Seq(Nat) /\ Len(kept) <= bufferSize
    <3>1. Append(Upto(accepted), v) = Upto(v) /\ Len(Upto(accepted)) = accepted
      BY <2>1, UptoGrows
    <3>2. /\ buffer \in Seq(Nat) /\ Len(buffer) <= bufferSize /\ bufferSize \in Nat
          /\ isBuffering => Len(buffer) < bufferSize /\ buffer = Upto(accepted)
      BY <1>2, CreateCallAssumption DEF Full, CallInv, TypeOK, BufferIsComplete
    <3>3. CASE isBuffering
      <4>1. Append(buffer, v) \in Seq(Nat) /\ Len(Append(buffer, v)) = Len(buffer) + 1
        BY <2>1, <3>2
      <4> QED BY <3>1, <3>2, <3>3, <4>1
    <3>4. CASE ~isBuffering
      BY <3>1, <3>2, <3>4
    <3> QED BY <3>3, <3>4
  <2> HIDE DEF kept, v
  <2>3. CASE phase = "first" /\ FirstValue(kept)
    <3>1. isBuffering /\ ~flushPending /\ kept = Upto(accepted')
      BY <2>1, <2>2, <2>3 DEF CallInv, BufferIsComplete
    <3>2. /\ phase' \in {"preCall", "running"} /\ got' \in Seq(Nat)
          /\ heard' \in {"open", "completed"} \cup RequestFailure
          /\ flushPending' \in BOOLEAN
          /\ phase' = "preCall" => ~flushPending'
          /\ phase' = "running" => got' = Upto(accepted') /\ heard' = buffered'
      BY <2>1, <2>2, <2>3, <3>1, InvokePreserves DEF CallInv, TypeOK
    <3>3. TypeOK'
      BY <2>1, <2>2, <3>2 DEF CallInv, TypeOK, Phase
    <3> QED BY <2>1, <2>2, <3>1, <3>2, <3>3
            DEF CallInv, BufferIsComplete, FailuresHeard, RequestFailure,
                RequestsReachMethod, EndReachesMethod, Upto
  <2>4. CASE phase = "running" /\ got' = Append(got, v) /\ UNCHANGED <<phase, heard, flushPending>>
    <3>1. got = Upto(accepted) /\ got' = Upto(v) /\ got' \in Seq(Nat)
      BY <2>1, <2>2, <2>4, UptoGrows DEF CallInv, RequestsReachMethod, Upto
    <3>2. TypeOK'
      BY <2>1, <2>2, <2>4, <3>1 DEF CallInv, TypeOK
    <3> QED BY <2>1, <2>2, <2>4, <3>1, <3>2
            DEF CallInv, BufferIsComplete, FailuresHeard, RequestsReachMethod,
                EndReachesMethod, Upto
  <2>5. CASE phase \notin {"first", "running"} /\ UNCHANGED <<phase, got, heard, flushPending>>
    <3>1. TypeOK'
      BY <2>1, <2>2, <2>5 DEF CallInv, TypeOK
    <3> QED BY <2>1, <2>2, <2>5, <3>1
            DEF CallInv, BufferIsComplete, FailuresHeard, RequestsReachMethod, EndReachesMethod
  <2> QED BY <2>1, <2>3, <2>4, <2>5
<1> QED BY <1>1, <1>2 DEF RequestNext

LEMMA SubscribePreserves ==
  ASSUME CallInv, Subscribe
  PROVE  CallInv'
<1>1. /\ phase = "unsubscribed" /\ isBuffering /\ ~flushPending /\ buffer = Upto(accepted)
      /\ UNCHANGED <<hasPreCall, request, accepted, buffered, buffer, isBuffering>>
      /\ TypeOK /\ flushPending = FALSE
  BY DEF Subscribe, CallInv, BufferIsComplete, TypeOK
<1>2. CASE /\ buffered \in RequestFailure /\ EndResponse(buffered) /\ UNCHANGED <<got, heard>>
           /\ flushPending' = (buffer # <<>> /\ ~hasPreCall)
  <2>1. phase' = "over" /\ res' = buffered /\ res' # "open" /\ res' \in Outcome
    BY <1>2 DEF EndResponse, Outcome, RequestFailure
  <2>2. flushPending' \in BOOLEAN
    BY <1>2
  <2>3. TypeOK'
    BY <1>1, <1>2, <2>1, <2>2 DEF TypeOK, Phase
  <2> QED BY <1>1, <2>1, <2>3
          DEF CallInv, BufferIsComplete, FailuresHeard, RequestsReachMethod, EndReachesMethod
<1>3. CASE buffered \notin RequestFailure /\ buffer # <<>> /\ FirstValue(buffer) /\ res' = res
  <2>1. /\ phase' \in {"preCall", "running"} /\ got' \in Seq(Nat)
        /\ heard' \in {"open", "completed"} \cup RequestFailure
        /\ flushPending' \in BOOLEAN
        /\ phase' = "preCall" => ~flushPending'
        /\ phase' = "running" => got' = Upto(accepted') /\ heard' = buffered'
    BY <1>1, <1>3, InvokePreserves DEF TypeOK
  <2>2. TypeOK'
    BY <1>1, <1>3, <2>1 DEF TypeOK, Phase
  <2> QED BY <1>1, <1>3, <2>1, <2>2
          DEF CallInv, BufferIsComplete, FailuresHeard, RequestsReachMethod,
              EndReachesMethod, Upto
<1>4. CASE buffered = "open" /\ phase' = "first" /\ UNCHANGED <<got, heard, flushPending, res>>
  BY <1>1, <1>4
     DEF CallInv, TypeOK, Phase, BufferIsComplete, FailuresHeard, RequestFailure,
         RequestsReachMethod, EndReachesMethod
<1>5. CASE buffered = "completed" /\ phase' = "over" /\ UNCHANGED <<got, heard, flushPending, res>>
  BY <1>1, <1>5
     DEF CallInv, TypeOK, Phase, BufferIsComplete, FailuresHeard,
         RequestsReachMethod, EndReachesMethod
<1> QED BY <1>2, <1>3, <1>4, <1>5 DEF Subscribe

(* The steps after which the pipeline is over and the response is not open. *)
LEMMA EndPreserves ==
  ASSUME CallInv, NEW how \in Outcome \ {"open"}, EndResponse(how),
         UNCHANGED <<hasPreCall, request, accepted, buffered, buffer, isBuffering, flushPending,
                     got, heard>>
  PROVE  CallInv'
BY DEF EndResponse, CallInv, TypeOK, Phase, BufferIsComplete, FailuresHeard,
       RequestsReachMethod, EndReachesMethod

LEMMA RequestCompletePreserves ==
  ASSUME CallInv, RequestComplete
  PROVE  CallInv'
<1>1. /\ UNCHANGED <<hasPreCall, res, buffer, accepted, got, isBuffering, flushPending>>
      /\ request' = "completed" /\ heard' \in {heard, buffered'}
      /\ buffered' \in {buffered, "completed"} /\ buffered \in {"open", "completed"} \cup RequestFailure
      /\ buffered' = "completed" \/ (buffered' = buffered /\ buffered # "open")
      /\ phase' \in {phase, "over"} /\ phase' # "first"
      /\ phase' # phase => phase = "first" /\ phase' = "over"
      /\ phase = "running" => heard' = buffered'
  BY DEF RequestComplete, CallInv, TypeOK
<1>2. TypeOK'
  BY <1>1 DEF CallInv, TypeOK, Phase
<1>3. BufferIsComplete' /\ RequestsReachMethod' /\ EndReachesMethod'
  BY <1>1 DEF CallInv, BufferIsComplete, RequestsReachMethod, EndReachesMethod
<1>4. FailuresHeard'
  BY <1>1 DEF CallInv, FailuresHeard, RequestFailure
<1> QED BY <1>2, <1>3, <1>4 DEF CallInv

LEMMA StepPreserves ==
  ASSUME CallInv, [Next]_vars
  PROVE  CallInv'
<1>1. CASE Subscribe
  BY <1>1, SubscribePreserves
<1>2. CASE RequestNext
  BY <1>2, NextPreserves
<1>3. CASE RequestInvalid
  BY <1>3, BufferFailsPreserves DEF RequestInvalid, RequestFailure, CallInv, TypeOK
<1>4. CASE RequestError
  <2>1. CASE buffered = "open" /\ BufferFails("request failed")
    BY <1>4, <2>1, BufferFailsPreserves DEF RequestError, RequestFailure
  <2>2. CASE UNCHANGED <<buffered, heard, phase, res, buffer, accepted, got, flushPending>>
    BY <1>4, <2>2
       DEF RequestError, CallInv, TypeOK, BufferIsComplete, FailuresHeard,
           RequestsReachMethod, EndReachesMethod
  <2> QED BY <1>4, <2>1, <2>2 DEF RequestError
<1>5. CASE RequestComplete
  BY <1>5, RequestCompletePreserves
<1>6. CASE PreCallPasses
  <2>1. /\ isBuffering /\ ~flushPending /\ buffer = Upto(accepted) /\ buffered \notin RequestFailure
        /\ Invoke(buffer) /\ TypeOK /\ flushPending = FALSE
        /\ UNCHANGED <<hasPreCall, request, accepted, buffered, buffer, isBuffering, res>>
    BY <1>6 DEF PreCallPasses, CallInv, BufferIsComplete, FailuresHeard, TypeOK
  <2>2. /\ phase' = "running" /\ got' = Upto(accepted') /\ heard' = buffered' /\ flushPending' = TRUE
    BY <2>1 DEF Invoke
  <2>3. TypeOK'
    BY <2>1, <2>2 DEF TypeOK, Phase
  <2> QED BY <2>1, <2>2, <2>3
          DEF CallInv, BufferIsComplete, FailuresHeard, RequestFailure, RequestsReachMethod,
              EndReachesMethod, Upto
<1>7. CASE PreCallFails \/ MethodEnds \/ Stop
  <2>1. "pre-call failed" \in Outcome \ {"open"} /\ "completed" \in Outcome \ {"open"}
        /\ "method failed" \in Outcome \ {"open"} /\ "stopped" \in Outcome \ {"open"}
    BY DEF Outcome
  <2> QED BY <1>7, <2>1, EndPreserves DEF PreCallFails, MethodEnds, Stop
<1>8. CASE Flush
  <2>1. phase \in {"running", "over"} /\ phase' = phase /\ <<>> \in Seq(Nat) /\ Len(<<>>) = 0
    BY <1>8, EmptySeq DEF Flush, CallInv, BufferIsComplete
  <2>2. /\ buffer' = <<>> /\ isBuffering' = FALSE /\ flushPending' = FALSE
        /\ UNCHANGED <<hasPreCall, request, accepted, buffered, phase, got, heard, res>>
        /\ bufferSize \in Nat
    BY <1>8, CreateCallAssumption DEF Flush
  <2>3. TypeOK'
    <3>1. Len(<<>>) <= bufferSize
      BY <2>1, CreateCallAssumption
    <3>2. hasPreCall' \in BOOLEAN /\ isBuffering' \in BOOLEAN /\ flushPending' \in BOOLEAN
      BY <2>2 DEF CallInv, TypeOK
    <3> QED BY <2>1, <2>2, <3>1, <3>2, Zenon DEF CallInv, TypeOK
  <2>4. BufferIsComplete' /\ FailuresHeard' /\ RequestsReachMethod' /\ EndReachesMethod'
    BY <2>1, <2>2
       DEF CallInv, BufferIsComplete, FailuresHeard, RequestsReachMethod, EndReachesMethod
  <2> QED BY <2>3, <2>4 DEF CallInv
<1>9. CASE UNCHANGED vars
  BY <1>9
     DEF vars, CallInv, TypeOK, BufferIsComplete, FailuresHeard, RequestsReachMethod,
         EndReachesMethod
<1> QED BY <1>1, <1>2, <1>3, <1>4, <1>5, <1>6, <1>7, <1>8, <1>9 DEF Next

-----------------------------------------------------------------------------
(* The inductive invariant holds of every behaviour.                        *)
THEOREM CallInductive == Spec => []CallInv
<1>1. CallInv /\ [Next]_vars => CallInv'
  BY StepPreserves
<1> QED BY InitCall, <1>1, PTL DEF Spec

(* Every variable of a call keeps its type, and the buffer its limit.       *)
THEOREM CallTypes == Spec => []TypeOK
<1>1. CallInv => TypeOK
  BY DEF CallInv
<1> QED BY <1>1, CallInductive, PTL

(* The running method has been sent every accepted request, in order, once. *)
THEOREM MethodHearsRequests == Spec => []RequestsReachMethod
<1>1. CallInv => RequestsReachMethod
  BY DEF CallInv
<1> QED BY <1>1, CallInductive, PTL

(* The running method has been told how its requests ended.                 *)
THEOREM MethodHearsEnd == Spec => []EndReachesMethod
<1>1. CallInv => EndReachesMethod
  BY DEF CallInv
<1> QED BY <1>1, CallInductive, PTL

(* A failure of the requests ends the response, whoever subscribed when.    *)
THEOREM FailuresEndCalls == Spec => []FailureEndsCall
<1>1. CallInv => FailureEndsCall
  BY DEF CallInv, TypeOK, FailuresHeard, FailureEndsCall, Phase, RequestFailure
<1> QED BY <1>1, CallInductive, PTL
=============================================================================
