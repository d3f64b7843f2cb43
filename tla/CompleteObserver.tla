-------------------------- MODULE CompleteObserver --------------------------
(***************************************************************************)
(* src/common/util/subscribeCompleteObserver.ts: the counters that let a   *)
(* CompleteObserver receive the last value of an observable in             *)
(* complete(value) instead of next(value) followed by complete().          *)
(* Every value is handled in a microtask; whether it is the last one is    *)
(* decided when its microtask runs.                                        *)
(* These operators are shared by the two ends of the protocol: the client  *)
(* subscribes so to req$, the server to call.res$.                         *)
(***************************************************************************)
EXTENDS Naturals

NoValue == 0    \* JavaScript undefined; values are the positive numbers

(* The closure variables of one subscribeCompleteObserver call.            *)
ObserverState == [completed: BOOLEAN, completeCalled: BOOLEAN, tasks: Nat]

NewObserver == [completed |-> FALSE, completeCalled |-> FALSE, tasks |-> 0]

(* Synchronous part of the observable's next.                              *)
ValueQueued(o) == [o EXCEPT !.tasks = @ + 1]

(* Synchronous part of the observable's complete.                          *)
SourceCompleted(o) == [o EXCEPT !.completed = TRUE]

(* A complete or an error that finds no value waiting for its microtask is *)
(* passed on at once, any other one queues a microtask of its own.         *)
PassedOnAtOnce(o) == o.tasks = 0

(* Mutant: any value handled after the source completed is taken for the   *)
(* last one.                                                               *)
AnyValueAfterComplete(o) == o.completed

(* Mutant: the last waiting value is taken for the last one of the source. *)
LastWaitingValue(o) == o.tasks = 1

(* The microtask of a value, run in observer state o: is it the last one?  *)
IsLastValue(o) == o.completed /\ o.tasks = 1

ValueHandled(o) ==
  [o EXCEPT !.tasks = @ - 1, !.completeCalled = @ \/ IsLastValue(o)]
=============================================================================
