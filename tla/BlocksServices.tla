--------------------------- MODULE BlocksServices ---------------------------
(***************************************************************************)
(* BlocksServices over MemoryStore: requests of several clients for one    *)
(* block. Every call of the store is awaited, so that between any two      *)
(* steps of a request the others may run. A request that carries a batch   *)
(* carries one patch, itself.                                              *)
(***************************************************************************)
EXTENDS Integers, Sequences, FiniteSets

CONSTANTS
  Task,             \* requests
  Op,               \* what they may ask for
  historyPerBlock,
  CompactAt,        \* sequence numbers at which historyCompactionDecision agrees
  pullWindow        \* a client further behind than this gets a snapshot

Operation == {"create", "createWith", "edit", "editOrCreate", "pull", "pullOrCreate", "remove"}

ASSUME BlocksAssumption ==
  /\ historyPerBlock \in Nat /\ CompactAt \subseteq Nat /\ pullWindow \in Nat
  /\ Op \subseteq Operation

VARIABLES
  block, objects,   \* the store
  op,               \* Task -> Op
  pc,               \* Task -> where the request waits
  frame,            \* Task -> what it remembers across awaits
  outcome,          \* Task -> "none", "ok" or the error it got
  log,              \* history: the patches accepted since the block was created
  removed           \* history: the block has been removed once

storeVars == <<block, objects>>
vars == <<block, objects, op, pc, frame, outcome, log, removed>>

Store == INSTANCE MemoryStore WITH Patch <- Task

Failure == {"BLOCK_EXISTS", "NOT_FOUND", "PATCH_SEQ_INV"}

(* ref: a MemoryBlock; seq, last: sequence numbers; blob: a document; pos,  *)
(* len: the compaction's place in the history.                              *)
Frame == [ref: Nat, seq: Int, last: Int, blob: SUBSET Task, pos: Nat, len: Nat]
EmptyFrame == [ref |-> 0, seq |-> -1, last |-> -1, blob |-> {}, pos |-> 0, len |-> 0]

Place == {"create", "exists", "get", "compute", "push", "compact", "merge", "move",
          "seq", "snapshot", "scan", "remove", "done"}

FirstStep(o) ==
  CASE o \in {"create", "createWith"} -> "create"
    [] o = "edit" -> "get"
    [] o = "editOrCreate" -> "exists"
    [] o \in {"pull", "pullOrCreate"} -> "seq"
    [] o = "remove" -> "remove"

Init ==
  /\ Store!StoreInit
  /\ op \in [Task -> Op]
  /\ pc = [t \in Task |-> FirstStep(op[t])]
  /\ frame = [t \in Task |-> EmptyFrame]
  /\ outcome = [t \in Task |-> "none"]
  /\ log = <<>>
  /\ removed = FALSE

(* The request goes on to `next`.                                           *)
Goto(t, next) == pc' = [pc EXCEPT ![t] = next] /\ outcome' = outcome

(* The request is answered, and is over or goes on in the background.       *)
Answer(t, how, next) ==
  /\ pc' = [pc EXCEPT ![t] = next]
  /\ outcome' = [outcome EXCEPT ![t] = how]

Remember(t, rec) == frame' = [frame EXCEPT ![t] = rec]

-----------------------------------------------------------------------------
(* create(): with the batch of a createWith or an edit, or without one.     *)
Create(t) ==
  /\ pc[t] = "create"
  /\ LET patches == IF op[t] \in {"create", "pullOrCreate"} THEN {} ELSE {t}
     IN  \/ /\ Store!Has
            /\ Answer(t, "BLOCK_EXISTS", "done")
            /\ UNCHANGED <<storeVars, log>>
         \/ /\ ~Store!Has
            /\ Store!StoreCreate(patches)
            /\ log' = IF patches = {} THEN <<>> ELSE <<t>>
            /\ Answer(t, "ok", "done")
  /\ UNCHANGED <<op, frame, removed>>

(* edit() with createIfNotExists.                                           *)
EditExists(t) ==
  /\ pc[t] = "exists"
  /\ Goto(t, IF Store!Has THEN "get" ELSE "create")
  /\ UNCHANGED <<storeVars, op, frame, log, removed>>

EditGet(t) ==
  /\ pc[t] = "get"
  /\ \/ ~Store!Has /\ Answer(t, "NOT_FOUND", "done") /\ frame' = frame
     \/ Store!Has /\ Goto(t, "compute") /\ Remember(t, [frame[t] EXCEPT !.ref = block])
  /\ UNCHANGED <<storeVars, op, log, removed>>

(* The block's data is the store's own object: what is read from it is its  *)
(* state now, not at the time of get().                                     *)
EditCompute(t) ==
  /\ pc[t] = "compute"
  /\ LET latest == objects[frame[t].ref].latest
     IN  Remember(t, [frame[t] EXCEPT !.seq = latest.seq + 1, !.blob = latest.blob \cup {t}])
  /\ Goto(t, "push")
  /\ UNCHANGED <<storeVars, op, log, removed>>

Compacts(seq) == seq > historyPerBlock /\ seq \in CompactAt

EditPush(t) ==
  /\ pc[t] = "push"
  /\ LET seq == frame[t].seq
     IN  \/ /\ ~Store!Has
            /\ Answer(t, "NOT_FOUND", "done")
            /\ UNCHANGED <<storeVars, log>>
         \/ /\ Store!Has /\ ~Store!NextSeq(seq)
            /\ Answer(t, "PATCH_SEQ_INV", "done")
            /\ UNCHANGED <<storeVars, log>>
         \/ /\ Store!Has /\ Store!NextSeq(seq)
            /\ Store!StorePush([seq |-> seq, blob |-> frame[t].blob], {t})
            /\ log' = Append(log, t)
            /\ Answer(t, "ok", IF Compacts(seq) THEN "compact" ELSE "done")
  /\ UNCHANGED <<op, frame, removed>>

-----------------------------------------------------------------------------
(* compact(), in the background: the document at the start is loaded, and   *)
(* the length of the history noted.                                         *)
CompactStart(t) ==
  /\ pc[t] = "compact"
  /\ \/ ~Store!Has /\ Goto(t, "done") /\ frame' = frame
     \/ /\ Store!Has
        /\ Goto(t, "merge")
        /\ Remember(t, [frame[t] EXCEPT
             !.ref = block, !.blob = Store!Current.start.blob,
             !.pos = 0, !.len = Len(Store!Current.history)])
  /\ UNCHANGED <<storeVars, op, log, removed>>

(* The next index at which the iterator does not `continue`.                *)
NextBatch(t) ==
  LET o == objects[frame[t].ref]
      Stops(k) == k = frame[t].len \/ k >= Len(o.history) \/ o.history[k + 1].seq > o.start.seq
  IN  CHOOSE k \in frame[t].pos .. frame[t].len :
        Stops(k) /\ \A j \in frame[t].pos .. (k - 1) : ~Stops(j)

(* One turn of the iterator: it reads the live history, at an index that    *)
(* may meanwhile be beyond its end (a TypeError, which ends the compaction).*)
CompactMerge(t) ==
  /\ pc[t] = "merge"
  /\ LET k == NextBatch(t)
         history == objects[frame[t].ref].history
         to == frame[t].seq - historyPerBlock
     IN  \/ /\ k < frame[t].len /\ k >= Len(history)
            /\ Goto(t, "done")
            /\ frame' = frame
         \/ /\ k = frame[t].len \/ (k < Len(history) /\ history[k + 1].seq > to)
            /\ Goto(t, "move")
            /\ Remember(t, [frame[t] EXCEPT !.pos = k])
         \/ /\ k < frame[t].len /\ k < Len(history) /\ history[k + 1].seq <= to
            /\ pc' = pc /\ outcome' = outcome
            /\ Remember(t, [frame[t] EXCEPT
                 !.pos = k + 1, !.blob = @ \cup history[k + 1].patches])
  /\ UNCHANGED <<storeVars, op, log, removed>>

CompactMove(t) ==
  /\ pc[t] = "move"
  /\ Store!MoveStart(frame[t].ref, frame[t].seq - historyPerBlock, frame[t].blob, frame[t].pos)
  /\ block' = block
  /\ Goto(t, "done")
  /\ UNCHANGED <<op, frame, log, removed>>

-----------------------------------------------------------------------------
(* Mutant: a client far behind is sent batches, too.                        *)
NeverSnapshot(last, seq) == FALSE

(* pull() sends a snapshot, not batches, to a client that knows nothing or  *)
(* is too far behind.                                                       *)
NeedsSnapshot(last, seq) == last = -1 \/ seq - last > pullWindow

PullSeq(t) ==
  /\ pc[t] = "seq"
  /\ \/ /\ ~Store!Has /\ op[t] = "pullOrCreate"
        /\ Goto(t, "create") /\ frame' = frame
     \/ /\ ~Store!Has /\ op[t] = "pull"
        /\ Answer(t, "NOT_FOUND", "done") /\ frame' = frame
     \/ /\ Store!Has
        /\ LET seq == Store!Current.latest.seq
           IN  \E last \in -1 .. seq :
                 /\ Remember(t, [frame[t] EXCEPT !.seq = seq, !.last = last])
                 /\ \/ last = seq /\ Answer(t, "ok", "done")
                    \/ last < seq /\ NeedsSnapshot(last, seq) /\ Goto(t, "snapshot")
                    \/ last < seq /\ ~NeedsSnapshot(last, seq) /\ Goto(t, "scan")
  /\ UNCHANGED <<storeVars, op, log, removed>>

PullSnapshot(t) ==
  /\ pc[t] = "snapshot"
  /\ \/ ~Store!Has /\ Answer(t, "NOT_FOUND", "done") /\ frame' = frame
     \/ /\ Store!Has
        /\ Remember(t, [frame[t] EXCEPT !.blob = Store!SnapshotAt(frame[t].seq)])
        /\ Answer(t, "ok", "done")
  /\ UNCHANGED <<storeVars, op, log, removed>>

PullScan(t) ==
  /\ pc[t] = "scan"
  /\ Remember(t, [frame[t] EXCEPT !.blob = Store!Scan(frame[t].last + 1, frame[t].seq)])
  /\ Answer(t, "ok", "done")
  /\ UNCHANGED <<storeVars, op, log, removed>>

(* remove(), by a client or by gc().                                        *)
Remove(t) ==
  /\ pc[t] = "remove"
  /\ Store!StoreRemove
  /\ removed' = (removed \/ Store!Has)
  /\ Answer(t, "ok", "done")
  /\ UNCHANGED <<op, frame, log>>

Next ==
  \E t \in Task :
    \/ Create(t)
    \/ EditExists(t) \/ EditGet(t) \/ EditCompute(t) \/ EditPush(t)
    \/ CompactStart(t) \/ CompactMerge(t) \/ CompactMove(t)
    \/ PullSeq(t) \/ PullSnapshot(t) \/ PullScan(t)
    \/ Remove(t)

Spec == Init /\ [][Next]_vars

-----------------------------------------------------------------------------
TypeOK ==
  /\ Store!StoreTypeOK
  /\ op \in [Task -> Op]
  /\ pc \in [Task -> Place]
  /\ frame \in [Task -> Frame]
  /\ outcome \in [Task -> {"none", "ok"} \cup Failure]
  /\ log \in Seq(Task)
  /\ removed \in BOOLEAN

(* What a client knows that has applied every batch up to seq.              *)
Known(seq) == {log[k] : k \in 1 .. (seq + 1)}

(* The block is the first of its id, and the snapshot that it has for both  *)
(* start and latest has not been moved back by a compaction.                *)
Undisturbed ==
  /\ Store!Has /\ ~removed
  /\ Store!Current.shared => Len(Store!Current.history) = Len(log)

(* No accepted edit is lost or overwritten by a concurrent one, also while  *)
(* history is compacted, and the sequence number is that of the last batch. *)
LatestIsWholeLog ==
  Undisturbed =>
    /\ Store!Current.latest.seq = Len(log) - 1
    /\ Store!Current.latest.blob = Known(Len(log) - 1)

(* A compaction ends before an edit starts the next one.                    *)
Compacting(t) == pc[t] \in {"compact", "merge", "move"}
OneCompaction ==
  Undisturbed => \A t, u \in Task : Compacting(t) /\ Compacting(u) => t = u

(* The contract of getSnapshot(): from the start snapshot every later state *)
(* can be rebuilt, also while and after history is compacted.               *)
HistoryReplays ==
  Undisturbed =>
    \A seq \in Store!Current.start.seq .. (Len(log) - 1) : Store!SnapshotAt(seq) = Known(seq)

(* The compaction has gone past what the client knew: as many edits as the  *)
(* history keeps, less the window, were pushed during its pull.             *)
Overtaken(t) == frame[t].last >= 0 /\ Store!Current.start.seq > frame[t].last

(* After a pull the client has everything up to the sequence number the     *)
(* server told it, whatever happens between the server's awaits.            *)
PullCatchesUp ==
  Undisturbed => \A t \in Task :
    outcome[t] = "ok" /\ op[t] \in {"pull", "pullOrCreate"} =>
      Known(frame[t].seq) \subseteq Known(frame[t].last) \cup frame[t].blob \/ Overtaken(t)
=============================================================================
