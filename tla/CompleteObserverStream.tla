----------------------- MODULE CompleteObserverStream -----------------------
(***************************************************************************)
(* One rx observable, its CompleteObserver and the microtask queue between *)
(* them. The observable emits the values 1, 2, ... and may complete or     *)
(* error at any moment between microtasks.                                 *)
(***************************************************************************)
EXTENDS CompleteObserver, Sequences

CONSTANTS
  MaxEmitted    \* bound on the values the observable emits

VARIABLES
  source,       \* "open", "completed" or "errored": state of the observable
  emitted,      \* number of values emitted
  obs,          \* closure variables of subscribeCompleteObserver
  microtasks,   \* the microtasks it queued, oldest first
  received,     \* history: number of values the observer got
  outcome       \* history: "none", or the final callback the observer got

observerVars == <<source, emitted, obs, microtasks, received, outcome>>

ASSUME MaxEmittedAssumption == MaxEmitted \in Nat

Microtask == [kind: {"next", "complete", "error"}, val: Nat]

ObserverInit ==
  /\ source = "open"
  /\ emitted = 0
  /\ obs = NewObserver
  /\ microtasks = <<>>
  /\ received = 0
  /\ outcome = "none"

Emit ==
  /\ source = "open"
  /\ emitted < MaxEmitted
  /\ emitted' = emitted + 1
  /\ obs' = ValueQueued(obs)
  /\ microtasks' = Append(microtasks, [kind |-> "next", val |-> emitted'])
  /\ UNCHANGED <<source, received, outcome>>

Complete ==
  /\ source = "open"
  /\ source' = "completed"
  /\ obs' = SourceCompleted(obs)
  /\ \/ /\ PassedOnAtOnce(obs)
        /\ outcome' = "completed"
        /\ microtasks' = microtasks
     \/ /\ ~PassedOnAtOnce(obs)
        /\ microtasks' = Append(microtasks, [kind |-> "complete", val |-> NoValue])
        /\ outcome' = outcome
  /\ UNCHANGED <<emitted, received>>

Error ==
  /\ source = "open"
  /\ source' = "errored"
  /\ \/ /\ PassedOnAtOnce(obs)
        /\ outcome' = "errored"
        /\ microtasks' = microtasks
     \/ /\ ~PassedOnAtOnce(obs)
        /\ microtasks' = Append(microtasks, [kind |-> "error", val |-> NoValue])
        /\ outcome' = outcome
  /\ UNCHANGED <<emitted, obs, received>>

(* The callback of the oldest microtask.                                   *)
HandleValue(task) ==
  /\ task.kind = "next"
  /\ obs' = ValueHandled(obs)
  /\ received' = task.val
  /\ outcome' = IF IsLastValue(obs) THEN "completed" ELSE outcome

HandleComplete(task) ==
  /\ task.kind = "complete"
  /\ outcome' = IF obs.completeCalled THEN outcome ELSE "completed"
  /\ UNCHANGED <<obs, received>>

(* Mutant: a deferred error is lost.                                       *)
LoseError(task) ==
  /\ task.kind = "error"
  /\ UNCHANGED <<outcome, obs, received>>

HandleError(task) ==
  /\ task.kind = "error"
  /\ outcome' = "errored"
  /\ UNCHANGED <<obs, received>>

RunMicrotask ==
  /\ microtasks # <<>>
  /\ microtasks' = Tail(microtasks)
  /\ \/ HandleValue(Head(microtasks))
     \/ HandleComplete(Head(microtasks))
     \/ HandleError(Head(microtasks))
  /\ UNCHANGED <<source, emitted>>

ObserverNext == Emit \/ Complete \/ Error \/ RunMicrotask

ObserverSpec == ObserverInit /\ [][ObserverNext]_observerVars

(* The event loop drains its microtasks.                                   *)
ObserverFairSpec == ObserverSpec /\ WF_observerVars(RunMicrotask)

ObserverTypeOK ==
  /\ source \in {"open", "completed", "errored"}
  /\ emitted \in 0 .. MaxEmitted
  /\ obs \in ObserverState
  /\ microtasks \in Seq(Microtask)
  /\ received \in 0 .. MaxEmitted
  /\ outcome \in {"none", "completed", "errored"}

(* The values not yet received wait in order.                              *)
ValuesWait ==
  /\ obs.tasks = emitted - received
  /\ received <= emitted
  /\ \A i \in 1 .. obs.tasks :
       i <= Len(microtasks) /\ microtasks[i] = [kind |-> "next", val |-> received + i]

(* Behind them waits at most one final microtask.                          *)
OneFinalTask ==
  /\ Len(microtasks) \in obs.tasks .. obs.tasks + 1
  /\ source = "open" => Len(microtasks) = obs.tasks
  /\ Len(microtasks) = obs.tasks + 1 =>
       microtasks[Len(microtasks)] =
         [kind |-> IF source = "completed" THEN "complete" ELSE "error", val |-> NoValue]

ObserverKnows ==
  /\ obs.completed <=> source = "completed"
  /\ obs.completeCalled => obs.tasks = 0 /\ source = "completed"

(* An end not yet reported still has its microtask, one reported has none  *)
(* that would report it again.                                             *)
OutcomeMatches ==
  /\ outcome = "none" /\ source = "completed" =>
       obs.tasks > 0 /\ Len(microtasks) = obs.tasks + 1
  /\ outcome = "none" /\ source = "errored" => Len(microtasks) = obs.tasks + 1
  /\ outcome = "errored" => source = "errored" /\ Len(microtasks) = 0
  /\ outcome = "completed" =>
       source = "completed" /\ obs.tasks = 0 /\ (Len(microtasks) # 0 => obs.completeCalled)

(* The counter "tasks" and the microtask queue agree. This is the inductive*)
(* invariant behind the properties below.                                  *)
QueueMatchesCounters == ValuesWait /\ OneFinalTask /\ ObserverKnows /\ OutcomeMatches

(* A final callback is the last one: when the observer is told that the    *)
(* stream ended it already has every value, and it is told how it ended.   *)
FinalMeansAllReceived ==
  outcome # "none" => outcome = source /\ received = emitted

(* No value reaches the observer out of turn, and none after the final     *)
(* callback; there is only one final callback.                             *)
InOrderThenFinalOnce ==
  [][ /\ received' # received => received' = received + 1 /\ outcome = "none"
      /\ outcome' # outcome => outcome = "none" ]_observerVars

(* An observable that ended is reported as ended.                          *)
EndReported == (source # "open") ~> (outcome = source)

Replay == INSTANCE StreamReplay

(* subscribeCompleteObserver implements StreamReplay: the microtasks and     *)
(* counters are hidden, the callbacks are those of the abstract stream.      *)
ImplementsReplay == Replay!Spec
=============================================================================
