----------------------------- MODULE LevelStore -----------------------------
(***************************************************************************)
(* LevelStore, with requests as BlocksServices makes them and the events   *)
(* PubsubService takes to those who listen to a block. A step runs to the  *)
(* next await: it holds at most one operation of the key-value store, each *)
(* of which is atomic (an iterator reads a snapshot, as LevelDB's do).     *)
(* Writers of a block hold the lock of its id, a compaction that of        *)
(* id + '.trunc', readers none (except seq()).                             *)
(*                                                                         *)
(* A document is the set of patches applied to it (CRDT), and each request *)
(* carries one patch: itself. Ids have one length and do not begin with !, *)
(* so that no range of keys reaches into another block's.                  *)
(***************************************************************************)
EXTENDS Integers, Sequences, FiniteSets, SequencesExt, Mutex

CONSTANTS
  Task, Op, Id,
  historyPerBlock,
  CompactAt,        \* sequence numbers at which historyCompactionDecision agrees
  pullWindow,       \* a client further behind than this gets a snapshot
  Reclaim,          \* how many blocks spaceReclaimDecision lets gc() remove
  MaxTime,          \* bound on Date.now()
  NoSnapshot

VARIABLES
  kv,               \* Id -> what the keys of the block hold
  now,              \* Date.now()
  op, id,           \* Task -> what it asks for, and of which block
  pc, frame,        \* Task -> the await it is at, what it keeps across it
  outcome,          \* Task -> "none", "ok" or the error it got
  observers,        \* Id -> the listeners of its channel
  publishing,       \* publish() calls that wait in setImmediate()
  heard,            \* Task -> patches of the events sent to it while it listens
  left,             \* tasks that have unsubscribed
  log,              \* history: Id -> patches accepted since the block was created
  removed,          \* history: blocks that have been removed
  crossed           \* history: blocks removed between what a request had learnt of
                    \* them (their content, or a sequence number) and its write

kvVars == <<kv, now, log, removed, crossed>>
pubsubVars == <<observers, heard, left>>
vars == <<queue, kvVars, pubsubVars, publishing, op, id, pc, frame, outcome>>

ASSUME OpAssumption == Op \subseteq {"create", "createWith", "edit", "pull", "follow", "remove", "gc"}
ASSUME BoundsAssumption ==
  historyPerBlock \in Nat /\ pullWindow \in Nat /\ MaxTime \in Nat \ {0}

Snapshot == [seq: Nat \cup {-1}, blob: SUBSET Task]
ASSUME NoSnapshotAssumption == NoSnapshot \notin Snapshot

Batch == [seq: Nat, patch: Task]

(* start, end, batches: the keys b!id!s, b!id!e, b!id!b!seq; touch: u!id!,  *)
(* 0 if there is none.                                                      *)
Block == [start: Snapshot \cup {NoSnapshot}, end: Snapshot \cup {NoSnapshot},
          batches: SUBSET Batch, touch: 0 .. MaxTime]
NoBlock == [start |-> NoSnapshot, end |-> NoSnapshot, batches |-> {}, touch |-> 0]

(* seq, last: sequence numbers; from: that of the start snapshot read;      *)
(* read: batches; blob: a document; todo: blocks to remove.                 *)
EmptyFrame == [seq |-> -1, last |-> -1, from |-> -1, read |-> {}, blob |-> {}, todo |-> <<>>]

Lock(t) == <<id[t], "">>
TruncLock(t) == <<id[t], ".trunc">>

FirstStep(o) ==
  CASE o \in {"create", "createWith"} -> "create"
    [] o = "edit" -> "get"
    [] o = "pull" -> "seq"
    [] o = "follow" -> "listen"
    [] o = "remove" -> "exists"
    [] o = "gc" -> "oldest"

Init ==
  /\ MutexInit
  /\ kv = [b \in Id |-> NoBlock]
  /\ now = 1
  /\ op \in [Task -> Op] /\ id \in [Task -> Id]
  /\ pc = [t \in Task |-> FirstStep(op[t])]
  /\ frame = [t \in Task |-> [EmptyFrame EXCEPT !.todo = <<id[t]>>]]
  /\ outcome = [t \in Task |-> "none"]
  /\ observers = [b \in Id |-> {}] /\ publishing = <<>>
  /\ heard = [t \in Task |-> {}] /\ left = {}
  /\ log = [b \in Id |-> <<>>]
  /\ removed = {} /\ crossed = {}

At(t, step) == pc[t] = step /\ ~Waiting(t)
Goto(t, step) == pc' = [pc EXCEPT ![t] = step] /\ outcome' = outcome
Answer(t, how) == pc' = [pc EXCEPT ![t] = "done"] /\ outcome' = [outcome EXCEPT ![t] = how]
Remember(t, rec) == frame' = [frame EXCEPT ![t] = rec]

(* Mutant: the range does not hold its first key.                           *)
BatchesAfter(b, min, max) == {x \in kv[b].batches : min < x.seq /\ x.seq <= max}

Batches(b, min, max) == {x \in kv[b].batches : min <= x.seq /\ x.seq <= max}
Patches(batches) == {x.patch : x \in batches}

(* Date.now() when a block is written.                                      *)
Clock(b, rec) ==
  \E n \in {now, now + 1} \cap 1 .. MaxTime :
    now' = n /\ kv' = [kv EXCEPT ![b] = [rec EXCEPT !.touch = n]]

-----------------------------------------------------------------------------
(* publish() of an "upd" event. (Those of "new" and "del" bring a listener  *)
(* no patches; the model does not queue them.)                              *)
Publish(t) == publishing' = Append(publishing, [block |-> id[t], patch |-> t])
Silent == UNCHANGED <<pubsubVars, publishing>>

(* Mutant: each listener starts a new list.                                 *)
SubscribedAlone(listeners, t) == {t}
Subscribed(listeners, t) == listeners \cup {t}

(* listen$() of a client that will pull() what it has missed.               *)
Listen(t) ==
  /\ At(t, "listen")
  /\ observers' = [observers EXCEPT ![id[t]] = Subscribed(@, t)]
  /\ Goto(t, "seq")
  /\ UNCHANGED <<kvVars, queue, op, id, frame, heard, left, publishing>>

(* The teardown of listen$().                                               *)
Leave(t) ==
  /\ op[t] = "follow" /\ pc[t] = "done" /\ t \notin left
  /\ left' = left \cup {t}
  /\ observers' = [observers EXCEPT ![id[t]] = @ \ {t}]
  /\ heard' = [heard EXCEPT ![t] = {}]
  /\ UNCHANGED <<kvVars, queue, op, id, pc, frame, outcome, publishing>>

(* A setImmediate callback of publish(), to whoever listens by then.        *)
Deliver ==
  /\ publishing # <<>>
  /\ publishing' = Tail(publishing)
  /\ LET message == Head(publishing)
     IN  heard' = [t \in Task |->
           heard[t] \cup (IF t \in observers[message.block] THEN {message.patch} ELSE {})]
  /\ UNCHANGED <<kvVars, queue, op, id, pc, frame, outcome, observers, left>>

-----------------------------------------------------------------------------
Create(t) ==
  /\ At(t, "create")
  /\ Acquire(Lock(t), t)
  /\ Goto(t, "createCheck")
  /\ Silent
  /\ UNCHANGED <<kvVars, op, id, frame>>

CreateCheck(t) ==
  /\ At(t, "createCheck")
  /\ \/ kv[id[t]].end # NoSnapshot /\ Answer(t, "BLOCK_EXISTS") /\ Release(Lock(t))
     \/ kv[id[t]].end = NoSnapshot /\ Goto(t, "createWrite") /\ UNCHANGED queue
  /\ Silent
  /\ UNCHANGED <<kvVars, op, id, frame>>

(* The keys of the batches are not cleared: a batch of an earlier block     *)
(* could survive.                                                           *)
CreateWrite(t) ==
  /\ At(t, "createWrite")
  /\ LET b == id[t]
         patches == IF op[t] = "create" THEN {} ELSE {t}
         batches == {[seq |-> 0, patch |-> p] : p \in patches}
     IN  /\ Clock(b, [kv[b] EXCEPT
              !.start = [seq |-> -1, blob |-> {}],
              !.end = [seq |-> Cardinality(patches) - 1, blob |-> patches],
              !.batches = {x \in @ : patches = {} \/ x.seq # 0} \cup batches])
         /\ log' = [log EXCEPT ![b] = SetToSeq(patches)]
  /\ IF op[t] = "create" THEN UNCHANGED publishing ELSE Publish(t)
  /\ Answer(t, "ok")
  /\ Release(Lock(t))
  /\ UNCHANGED <<pubsubVars, op, id, frame, removed, crossed>>

-----------------------------------------------------------------------------
(* edit(): get(), and then push() with the next sequence number.            *)
EditGet(t) ==
  /\ At(t, "get")
  /\ LET end == kv[id[t]].end
     IN  \/ /\ end = NoSnapshot
            /\ Answer(t, "NOT_FOUND")
            /\ UNCHANGED <<queue, frame>>
         \/ /\ end # NoSnapshot
            /\ Remember(t, [frame[t] EXCEPT !.seq = end.seq + 1, !.blob = end.blob \cup {t}])
            /\ Acquire(Lock(t), t)
            /\ Goto(t, "push")
  /\ Silent
  /\ UNCHANGED <<kvVars, op, id>>

(* Mutant: nobody looks whether the sequence number still is the next one.  *)
AnySeq(b, seq) == TRUE

NextSeq(b, seq) == kv[b].end.seq + 1 = seq

PushCheck(t) ==
  /\ At(t, "push")
  /\ \/ /\ kv[id[t]].end = NoSnapshot
        /\ Answer(t, "NOT_FOUND")
        /\ Release(Lock(t))
     \/ /\ kv[id[t]].end # NoSnapshot /\ ~NextSeq(id[t], frame[t].seq)
        /\ Answer(t, "PATCH_SEQ_INV")
        /\ Release(Lock(t))
     \/ /\ kv[id[t]].end # NoSnapshot /\ NextSeq(id[t], frame[t].seq)
        /\ Goto(t, "pushWrite")
        /\ UNCHANGED queue
  /\ Silent
  /\ UNCHANGED <<kvVars, op, id, frame>>

Compacts(seq) == seq > historyPerBlock /\ seq \in CompactAt

(* The edit is answered; a compaction goes on in the background.            *)
PushWrite(t) ==
  /\ At(t, "pushWrite")
  /\ LET b == id[t]
         seq == frame[t].seq
     IN  /\ Clock(b, [kv[b] EXCEPT
              !.end = [seq |-> seq, blob |-> frame[t].blob],
              !.batches = {x \in @ : x.seq # seq} \cup {[seq |-> seq, patch |-> t]}])
         /\ log' = [log EXCEPT ![b] = Append(@, t)]
         /\ pc' = [pc EXCEPT ![t] = IF Compacts(seq) THEN "compact" ELSE "done"]
         /\ outcome' = [outcome EXCEPT ![t] = "ok"]
  /\ Publish(t)
  /\ Release(Lock(t))
  /\ UNCHANGED <<pubsubVars, op, id, frame, removed, crossed>>

-----------------------------------------------------------------------------
Compact(t) ==
  /\ At(t, "compact")
  /\ Acquire(TruncLock(t), t)
  /\ Goto(t, "compactGet")
  /\ Silent
  /\ UNCHANGED <<kvVars, op, id, frame>>

To(t) == frame[t].seq - historyPerBlock

(* A missing start snapshot makes the decoder throw.                        *)
CompactGet(t) ==
  /\ At(t, "compactGet")
  /\ LET start == kv[id[t]].start
         idle == IF start = NoSnapshot THEN TRUE ELSE start.seq >= To(t)
     IN  \/ idle /\ Goto(t, "done") /\ Release(TruncLock(t)) /\ frame' = frame
         \/ ~idle /\ Goto(t, "compactRead") /\ UNCHANGED queue
            /\ Remember(t, [frame[t] EXCEPT !.from = start.seq, !.blob = start.blob])
  /\ Silent
  /\ UNCHANGED <<kvVars, op, id>>

CompactRead(t) ==
  /\ At(t, "compactRead")
  /\ LET read == Batches(id[t], frame[t].from + 1, To(t))
     IN  Remember(t, [frame[t] EXCEPT !.read = read, !.blob = @ \cup Patches(read)])
  /\ Goto(t, "compactWrite")
  /\ Silent
  /\ UNCHANGED <<kvVars, queue, op, id>>

(* Mutant: the merged batches stay, and one that was not merged goes.       *)
CompactWriteTooMuch(t) ==
  /\ At(t, "compactWrite")
  /\ kv' = [kv EXCEPT
       ![id[t]].start = [seq |-> To(t), blob |-> frame[t].blob],
       ![id[t]].batches = {x \in @ : x.seq > To(t) + 1}]
  /\ Goto(t, "done")
  /\ Release(TruncLock(t))
  /\ Silent
  /\ UNCHANGED <<now, log, removed, crossed, op, id, frame>>

(* One batch of operations deletes what was merged, by key, and moves the   *)
(* start snapshot.                                                          *)
CompactWrite(t) ==
  /\ At(t, "compactWrite")
  /\ kv' = [kv EXCEPT
       ![id[t]].start = [seq |-> To(t), blob |-> frame[t].blob],
       ![id[t]].batches = {x \in @ : \A y \in frame[t].read : x.seq # y.seq}]
  /\ Goto(t, "done")
  /\ Release(TruncLock(t))
  /\ Silent
  /\ UNCHANGED <<now, log, removed, crossed, op, id, frame>>

-----------------------------------------------------------------------------
(* pull(): seq(), then getSnapshot() or scan().                             *)
PullSeq(t) ==
  /\ At(t, "seq")
  /\ Acquire(Lock(t), t)
  /\ Goto(t, "seqRead")
  /\ Silent
  /\ UNCHANGED <<kvVars, op, id, frame>>

NeedsSnapshot(last, seq) == last = -1 \/ seq - last > pullWindow

(* The last key of a batch tells seq(); a block without batches has none,   *)
(* also when it exists. (The key before is then one of another block, which *)
(* is too short to be taken for a number as long as all ids have one        *)
(* length.)                                                                 *)
SeqRead(t) ==
  /\ At(t, "seqRead")
  /\ LET seqs == {x.seq : x \in kv[id[t]].batches}
     IN  \/ seqs = {} /\ Answer(t, "NOT_FOUND") /\ frame' = frame
         \/ \E seq \in seqs : \E last \in -1 .. seq :
              /\ \A s \in seqs : s <= seq
              /\ Remember(t, [frame[t] EXCEPT !.seq = seq, !.last = last])
              /\ \/ last = seq /\ Answer(t, "ok")
                 \/ last < seq /\ NeedsSnapshot(last, seq) /\ Goto(t, "getStart")
                 \/ last < seq /\ ~NeedsSnapshot(last, seq) /\ Goto(t, "scan")
  /\ Release(Lock(t))
  /\ Silent
  /\ UNCHANGED <<kvVars, op, id>>

GetStart(t) ==
  /\ At(t, "getStart")
  /\ LET start == kv[id[t]].start
     IN  \/ start = NoSnapshot /\ Answer(t, "NOT_FOUND") /\ frame' = frame
         \/ /\ start # NoSnapshot
            /\ Remember(t, [frame[t] EXCEPT !.from = start.seq, !.blob = start.blob])
            /\ IF start.seq < frame[t].seq THEN Goto(t, "getBatches") ELSE Answer(t, "ok")
  /\ Silent
  /\ UNCHANGED <<kvVars, queue, op, id>>

(* getSnapshot() and scan() read the batches without a lock.                *)
ReadBatches(t) ==
  /\ At(t, "getBatches") \/ At(t, "scan")
  /\ LET after == IF pc[t] = "scan" THEN frame[t].last ELSE frame[t].from
     IN  Remember(t, [frame[t] EXCEPT !.blob =
           @ \cup Patches(Batches(id[t], after + 1, frame[t].seq))])
  /\ Answer(t, "ok")
  /\ Silent
  /\ UNCHANGED <<kvVars, queue, op, id>>

-----------------------------------------------------------------------------
(* remove() of the first block of `todo`, by a client or by gc().           *)
RemoveExists(t) ==
  /\ At(t, "exists")
  /\ id' = [id EXCEPT ![t] = Head(frame[t].todo)]
  /\ Remember(t, [frame[t] EXCEPT !.todo = Tail(@)])
  /\ \/ /\ kv[id'[t]].end # NoSnapshot
        /\ Acquire(Lock(t)', t)
        /\ Goto(t, "clear")
     \/ /\ kv[id'[t]].end = NoSnapshot
        /\ IF Len(frame[t].todo) > 1 THEN Goto(t, "exists") ELSE Answer(t, "ok")
        /\ UNCHANGED queue
  /\ Silent
  /\ UNCHANGED <<kvVars, op>>

(* The two removals run in parallel; nobody who reads both is between them. *)
RemoveClear(t) ==
  /\ At(t, "clear")
  /\ kv' = [kv EXCEPT ![id[t]] = NoBlock]
  /\ log' = [log EXCEPT ![id[t]] = <<>>]
  /\ removed' = removed \cup {id[t]}
  /\ crossed' = crossed \cup {id[u] : u \in {u \in Task :
       id[u] = id[t] /\
       pc[u] \in {"push", "compact", "compactGet", "compactRead", "compactWrite"}}}
  /\ IF frame[t].todo # <<>> THEN Goto(t, "exists") ELSE Answer(t, "ok")
  /\ Release(Lock(t))
  /\ Silent
  /\ UNCHANGED <<now, op, id, frame>>

(* removeOldest(): a map from times to keys is kept at x entries, by        *)
(* replacing the newest; blocks written at the same time share an entry.    *)
HeapSet(heap, b) == {c \in heap : kv[c].touch # kv[b].touch} \cup {b}
Newest(heap) == CHOOSE b \in heap : \A c \in heap : kv[c].touch <= kv[b].touch
Offer(heap, b) ==
  CASE Cardinality(heap) < Reclaim -> HeapSet(heap, b)
    [] Cardinality(heap) >= Reclaim /\ kv[b].touch < kv[Newest(heap)].touch ->
         HeapSet(heap \ {Newest(heap)}, b)
    [] OTHER -> heap
Oldest == FoldLeft(Offer, {}, SetToSeq({b \in Id : kv[b].touch # 0}))
NewestFirst(blocks) == SetToSortSeq(blocks, LAMBDA b, c : kv[b].touch > kv[c].touch)

GcPicks(t) ==
  /\ At(t, "oldest")
  /\ Remember(t, [frame[t] EXCEPT !.todo = NewestFirst(Oldest)])
  /\ IF Oldest = {} THEN Answer(t, "ok") ELSE Goto(t, "exists")
  /\ Silent
  /\ UNCHANGED <<kvVars, queue, op, id>>

(* removeAccessedBefore(), the other way to make room, walks the keys from  *)
(* u!! to u!!~, among which no block has its own.                           *)
Expire(t) ==
  /\ At(t, "oldest")
  /\ Answer(t, "ok")
  /\ Silent
  /\ UNCHANGED <<kvVars, queue, op, id, frame>>

AllDone == (\A t \in Task : pc[t] = "done") /\ UNCHANGED vars

Next ==
  \/ \E t \in Task :
       \/ Listen(t) \/ Leave(t)
       \/ Create(t) \/ CreateCheck(t) \/ CreateWrite(t)
       \/ EditGet(t) \/ PushCheck(t) \/ PushWrite(t)
       \/ Compact(t) \/ CompactGet(t) \/ CompactRead(t) \/ CompactWrite(t)
       \/ PullSeq(t) \/ SeqRead(t) \/ GetStart(t) \/ ReadBatches(t)
       \/ RemoveExists(t) \/ RemoveClear(t) \/ GcPicks(t) \/ Expire(t)
  \/ Deliver
  \/ AllDone

Spec == Init /\ [][Next]_vars

-----------------------------------------------------------------------------
TypeOK ==
  /\ kv \in [Id -> Block] /\ now \in 1 .. MaxTime
  /\ log \in [Id -> Seq(Task)] /\ crossed \subseteq removed
  /\ observers \in [Id -> SUBSET Task] /\ heard \in [Task -> SUBSET Task] /\ left \subseteq Task
  /\ publishing \in Seq([block: Id, patch: Task])
  /\ op \in [Task -> Op]
  /\ \A t \in Task :
       /\ frame[t].seq \in Nat \cup {-1} /\ frame[t].last \in Nat \cup {-1}
       /\ frame[t].from \in Nat \cup {-1}
       /\ frame[t].read \subseteq Batch /\ frame[t].blob \subseteq Task
  /\ outcome \in [Task -> {"none", "ok", "BLOCK_EXISTS", "NOT_FOUND", "PATCH_SEQ_INV"}]
  /\ queue \in [DOMAIN queue -> Seq(Task)]

(* The lock under which a task runs the step it is at, or waits for it.     *)
Locked(t) ==
  CASE pc[t] \in {"createCheck", "createWrite", "push", "pushWrite", "seqRead", "clear"} -> {Lock(t)}
    [] pc[t] \in {"compactGet", "compactRead", "compactWrite"} -> {TruncLock(t)}
    [] OTHER -> {}

(* At most one task runs under a lock, also after tasks that failed; and a  *)
(* task only waits for a lock under which another one runs, so that it will *)
(* get it: no key is forgotten with tasks in its queue.                     *)
OneHolder ==
  /\ \A key \in DOMAIN queue :
       Cardinality({t \in Task : key \in Locked(t) /\ ~Waiting(t)}) = 1
  /\ \A t \in Task : Locked(t) \subseteq DOMAIN queue

Known(b, seq) == {log[b][k] : k \in 1 .. (seq + 1)}

(* However edits, creations, removals and the collector of old blocks       *)
(* interleave, the block is what its accepted edits make it: none is        *)
(* overwritten by another. (After a removal between the get() and the       *)
(* push() of an edit it may land in a block that was created anew.)         *)
NoEditLost ==
  \A b \in Id \ crossed : kv[b].end # NoSnapshot =>
    kv[b].end = [seq |-> Len(log[b]) - 1, blob |-> Known(b, Len(log[b]) - 1)]

(* From the start snapshot every later state can be rebuilt, while history  *)
(* is compacted under another lock than that of the edits. Only a removal   *)
(* that crosses a compaction spoils it: the number that the compaction was  *)
(* given may be ahead of a block created anew.                              *)
HistoryReplays ==
  \A b \in Id \ crossed : kv[b].end # NoSnapshot =>
    \A seq \in kv[b].start.seq .. kv[b].end.seq :
      kv[b].start.blob \cup Patches(Batches(b, kv[b].start.seq + 1, seq)) = Known(b, seq)

(* The client has all the patches up to the sequence number it was told.    *)
CaughtUp(t) == Known(id[t], frame[t].seq) \subseteq
                 Known(id[t], frame[t].last) \cup frame[t].blob

(* A compaction has moved the start snapshot during the pull.               *)
Overtaken(t) ==
  kv[id[t]].start.seq > (IF frame[t].last = -1 THEN frame[t].from ELSE frame[t].last)

Pulled(t) == op[t] \in {"pull", "follow"} /\ outcome[t] = "ok" /\ id[t] \notin removed

PullCatchesUp == \A t \in Task : Pulled(t) => CaughtUp(t) \/ Overtaken(t)

(* A client that listens first and then pulls misses no accepted edit, once *)
(* the events under way have arrived, whoever else comes and goes: what the *)
(* pull was too early for, an event has brought. (Not so over a removal.)   *)
FollowersMissNothing ==
  \A t \in Task :
    /\ op[t] = "follow" /\ pc[t] = "done" /\ t \notin left
    /\ id[t] \notin removed
    /\ \A i \in DOMAIN publishing : publishing[i].block # id[t]
    => \/ ToSet(log[id[t]]) \subseteq
            Known(id[t], frame[t].last) \cup frame[t].blob \cup heard[t]
       \/ Overtaken(t)
=============================================================================
