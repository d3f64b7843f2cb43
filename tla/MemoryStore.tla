----------------------------- MODULE MemoryStore -----------------------------
(***************************************************************************)
(* MemoryStore: one block id. `block` is the entry of the `blocks` map (0  *)
(* for none), an index into `objects`, the MemoryBlocks made so far: a     *)
(* caller may hold on to a MemoryBlock that has left the map.              *)
(*                                                                         *)
(* The state of a document is the set of patches applied to it: applying a *)
(* patch twice, or in another order, makes no difference (json-joy's CRDT).*)
(***************************************************************************)
EXTENDS Integers, Sequences

CONSTANT Patch

VARIABLES block, objects

Snapshot == [seq: {-1} \cup Nat, blob: SUBSET Patch]
Batch == [seq: Nat, patches: SUBSET Patch]

(* shared: create() without a batch was given one snapshot as both start    *)
(* and latest, so that what is written to one is written to the other.      *)
MemoryBlock == [start: Snapshot, latest: Snapshot, shared: BOOLEAN, history: Seq(Batch)]

StoreTypeOK ==
  /\ objects \in Seq(MemoryBlock)
  /\ block \in 0 .. Len(objects)

StoreInit == block = 0 /\ objects = <<>>

Has == block # 0
Current == objects[block]

Empty == [seq |-> -1, blob |-> {}]

(* create(); the caller has checked that the id is free.                    *)
StoreCreate(patches) ==
  LET batch == [seq |-> 0, patches |-> patches]
      new == [start |-> Empty,
              latest |-> IF patches = {} THEN Empty ELSE [seq |-> 0, blob |-> patches],
              shared |-> patches = {},
              history |-> IF patches = {} THEN <<>> ELSE <<batch>>]
  IN  /\ objects' = Append(objects, new)
      /\ block' = Len(objects) + 1

(* Mutant: nobody looks whether the sequence number still is the next one.  *)
AnySeq(seq) == TRUE

(* The check of push().                                                     *)
NextSeq(seq) == Current.latest.seq + 1 = seq

(* push() writes the latest snapshot in place.                              *)
StorePush(snapshot, patches) ==
  /\ objects' = [objects EXCEPT
       ![block].latest = snapshot,
       ![block].start = IF Current.shared THEN snapshot ELSE @,
       ![block].history = Append(@, [seq |-> snapshot.seq, patches |-> patches])]
  /\ block' = block

(* Of a document it matters which patches it has, so that of batches that   *)
(* are read it matters which they are.                                      *)
PatchesOf(batches) == UNION {b.patches : b \in batches}

InHistory(batches) == {batches[k] : k \in DOMAIN batches}

(* Mutant: one batch too few.                                               *)
BetweenExclusive(batches, min, max) ==
  {b \in InHistory(batches) : min < b.seq /\ b.seq <= max}

Between(batches, min, max) == {b \in InHistory(batches) : min <= b.seq /\ b.seq <= max}

(* getSnapshot(): what a reader makes of the start snapshot and the batches *)
(* up to seq.                                                               *)
SnapshotAt(seq) ==
  Current.start.blob \cup PatchesOf(Between(Current.history, Current.start.seq + 1, seq))

(* scan(), for which a missing block has no history.                        *)
Scan(min, max) == IF Has THEN PatchesOf(Between(Current.history, min, max)) ELSE {}

(* compact() ends: the start snapshot moves to `to`, and the first `dropped`*)
(* batches go, whatever they are by now.                                    *)
MoveStart(ref, to, blob, dropped) ==
  LET start == [seq |-> to, blob |-> blob]
      history == objects[ref].history
  IN  objects' = [objects EXCEPT
        ![ref].start = start,
        ![ref].latest = IF objects[ref].shared THEN start ELSE @,
        ![ref].history = SubSeq(history, dropped + 1, Len(history))]

(* remove().                                                                *)
StoreRemove == block' = 0 /\ UNCHANGED objects
=============================================================================
