------------------------- MODULE TimedQueueDelivery -------------------------
(***************************************************************************)
(* TimedQueue between a producer that pushes numbered items and a          *)
(* transport that takes the flushed batches, with the history of both:     *)
(* "pushed" counts the items given to push() and "sent" is what the        *)
(* transport has taken, batch after batch.                                 *)
(***************************************************************************)
EXTENDS TimedQueue

CONSTANTS
  MaxPushes   \* bound on the items the producer pushes

VARIABLES
  pushed,     \* number of items pushed so far; the items are 1, 2, ...
  flushed     \* history: all items handed to onFlush, in order

vars == <<list, timer, out, pushed, flushed>>

ASSUME MaxPushesAssumption == MaxPushes \in Nat

Init ==
  /\ QueueInit
  /\ pushed = 0
  /\ flushed = <<>>

(* The history follows what the queue handed to onFlush in this step.       *)
RecordFlush ==
  flushed' = IF out' = out THEN flushed ELSE flushed \o out'[Len(out')]

ProducerPushes ==
  /\ pushed < MaxPushes
  /\ pushed' = pushed + 1
  /\ Push(pushed')
  /\ RecordFlush

(* The buffer of a client is public: its owner may flush it by hand.         *)
OwnerFlushes ==
  /\ FlushList(list)
  /\ RecordFlush
  /\ UNCHANGED pushed

TimeoutFlushes ==
  /\ TimerFires
  /\ RecordFlush
  /\ UNCHANGED pushed

TransportTakes ==
  /\ out # <<>>
  /\ out' = Tail(out)
  /\ UNCHANGED <<list, timer, pushed, flushed>>

Next == ProducerPushes \/ OwnerFlushes \/ TimeoutFlushes \/ TransportTakes

Spec == Init /\ [][Next]_vars

(* What onFlush gets is never empty.                                        *)
Batch == Seq(Nat) \ {<<>>}

TypeOK ==
  /\ list \in Seq(Nat)
  /\ timer \in BOOLEAN
  /\ out \in Seq(Batch)
  /\ pushed \in 0 .. MaxPushes
  /\ flushed \in Seq(Nat)

(* What was handed over followed by what is still queued is exactly what    *)
(* was pushed, in the order of the pushes: the size-triggered flush inside  *)
(* push(), the timer and a manual flush neither lose, repeat nor reorder.   *)
NothingLost ==
  /\ Len(flushed) + Len(list) = pushed
  /\ \A i \in 1 .. Len(flushed) : flushed[i] = i
  /\ \A i \in 1 .. Len(list) : list[i] = Len(flushed) + i

(* An item can wait only while the timer that will flush it is armed, and   *)
(* the queue never reaches its limit between two calls.                     *)
NoStrandedItem ==
  /\ timer <=> list # <<>>
  /\ Len(list) < itemLimit

(* onFlush never gets an empty batch nor one above the limit.               *)
BatchesBounded ==
  \A i \in 1 .. Len(out) : Len(out[i]) \in 1 .. itemLimit
=============================================================================
