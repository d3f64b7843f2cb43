----------------------------- MODULE TimedQueue -----------------------------
(***************************************************************************)
(* src/common/util/TimedQueue.ts: the queue in which StreamingRpcClient,   *)
(* StaticRpcClient and RpcMessageStreamProcessor collect outgoing messages.*)
(* It is flushed when it holds itemLimit items or when its timer fires.    *)
(* Each flush hands one batch, the whole list, to onFlush; "out" is the    *)
(* sequence of batches handed over and not yet taken by the transport.     *)
(***************************************************************************)
EXTENDS Naturals, Sequences

CONSTANTS
  itemLimit   \* TimedQueue.itemLimit

VARIABLES
  list,       \* TimedQueue.list, the items pushed and not yet flushed
  timer,      \* TRUE iff TimedQueue.timer holds an armed setTimeout
  out         \* batches passed to onFlush, oldest first

queueVars == <<list, timer, out>>

ASSUME ItemLimitAssumption == itemLimit \in Nat \ {0}

QueueInit ==
  /\ list = <<>>
  /\ timer = FALSE
  /\ out = <<>>

(* flush(): takes the whole list, clears the timer, and calls onFlush only  *)
(* when there was something to flush.                                       *)
FlushList(items) ==
  /\ list' = <<>>
  /\ timer' = FALSE
  /\ out' = IF items = <<>> THEN out ELSE Append(out, items)

(* Mutant: at the limit the list is flushed before the item is added.       *)
PushFlushesTooEarly(item) ==
  \/ Len(list) + 1 >= itemLimit /\ FlushList(list)
  \/ Len(list) + 1 < itemLimit /\ list' = Append(list, item) /\ timer' = TRUE /\ out' = out

(* push(item): a push that reaches the limit flushes at once, within the    *)
(* same call; any other push arms the timer unless it is already armed.     *)
Push(item) ==
  LET items == Append(list, item)
  IN  \/ /\ Len(items) >= itemLimit
         /\ FlushList(items)
      \/ /\ Len(items) < itemLimit
         /\ list' = items
         /\ timer' = TRUE
         /\ out' = out

(* The setTimeout callback.                                                 *)
TimerFires ==
  /\ timer
  /\ FlushList(list)
=============================================================================
