------------------------------- MODULE Mutex -------------------------------
(***************************************************************************)
(* src/util/Mutex.ts: `queue` maps a key to the tasks that wait for it. A  *)
(* key that is in the map is taken, also when nobody waits. Whoever called *)
(* acquire() and is not in a queue runs.                                   *)
(***************************************************************************)
EXTENDS Sequences, Functions

VARIABLE queue

MutexInit == queue = [key \in {} |-> <<>>]

Taken(key) == key \in DOMAIN queue

Waiting(t) == \E key \in DOMAIN queue : t \in Range(queue[key])

(* acquire()                                                                *)
Acquire(key, t) ==
  \/ Taken(key) /\ queue' = [queue EXCEPT ![key] = Append(@, t)]
  \/ ~Taken(key) /\ queue' = [k \in DOMAIN queue \cup {key} |->
                                IF k = key THEN <<>> ELSE queue[k]]

(* Mutant: the entry is dropped although a task waits.                      *)
ReleaseDropsQueue(key) == queue' = Restrict(queue, DOMAIN queue \ {key})

(* The `finally` of run(), however the task ended: the next one starts, or  *)
(* the key leaves the map.                                                  *)
Release(key) ==
  \/ queue[key] = <<>> /\ queue' = Restrict(queue, DOMAIN queue \ {key})
  \/ queue[key] # <<>> /\ queue' = [queue EXCEPT ![key] = Tail(@)]
=============================================================================
