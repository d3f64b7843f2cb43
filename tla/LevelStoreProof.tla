--------------------------- MODULE LevelStoreProof ---------------------------
(***************************************************************************)
(* What LevelStore keeps true for any number of tasks and blocks, with the *)
(* locks, the log of accepted edits and the reads of each request related  *)
(* to each other by an inductive invariant.                                *)
(*                                                                         *)
(* The proof needs nothing of removeOldest(): whatever blocks gc() picks,  *)
(* removing them is safe.                                                  *)
(***************************************************************************)
EXTENDS LevelStore, FiniteSetTheorems, SequenceTheorems, TLAPS

(* The steps of a request.                                                  *)
Creates == {"create", "createCheck", "createWrite"}
Compactions == {"compact", "compactGet", "compactRead", "compactWrite"}
Edits == {"get", "push", "pushWrite"} \cup Compactions
Reads == {"getStart", "getBatches", "scan"}
Pulls == {"seq", "seqRead"} \cup Reads
Removals == {"exists", "clear"}

Steps(o) ==
  {"done"} \cup
  CASE o \in {"create", "createWith"} -> Creates
    [] o = "edit" -> Edits
    [] o = "pull" -> Pulls
    [] o = "follow" -> {"listen"} \cup Pulls
    [] o = "remove" -> Removals
    [] o = "gc" -> {"oldest"} \cup Removals

(* What a request keeps; of the blocks that gc() removes one by one nothing *)
(* needs to be known.                                                       *)
Frame(todo) ==
  [seq: Nat \cup {-1}, last: Nat \cup {-1}, from: Nat \cup {-1},
   read: SUBSET Batch, blob: SUBSET Task, todo: {todo}]

Outcome == {"none", "ok", "BLOCK_EXISTS", "NOT_FOUND", "PATCH_SEQ_INV"}
Message == [block: Id, patch: Task]

StoreTyped ==
  /\ kv \in [Id -> Block] /\ now \in 1 .. MaxTime
  /\ log \in [Id -> Seq(Task)] /\ crossed \subseteq removed

PubsubTyped ==
  /\ observers \in [Id -> SUBSET Task] /\ heard \in [Task -> SUBSET Task] /\ left \subseteq Task
  /\ publishing \in Seq(Message)

TasksTyped ==
  /\ op \in [Task -> Op]
  /\ DOMAIN id = Task /\ id = [t \in Task |-> id[t]]
  /\ \A t \in Task : op[t] \notin {"remove", "gc"} => id[t] \in Id
  /\ DOMAIN pc = Task /\ pc = [t \in Task |-> pc[t]]
  /\ \A t \in Task : pc[t] \in Steps(op[t])
  /\ DOMAIN frame = Task /\ frame = [t \in Task |-> frame[t]]
  /\ \A t \in Task : frame[t] \in Frame(frame[t].todo)
  /\ outcome \in [Task -> Outcome]

(* Whoever waits for a lock is once in its queue, and exactly one of those  *)
(* who need it runs. q: the mutex's queue, L: Task -> the locks it needs.   *)
Waits(q, t) == \E key \in DOMAIN q : \E i \in 1 .. Len(q[key]) : q[key][i] = t
Runs(q, L, key, t) == key \in L[t] /\ ~Waits(q, t)

MutexOK(q, L) ==
  /\ DOMAIN L = Task
  /\ \A t \in Task : \A k1, k2 \in L[t] : k1 = k2
  /\ q \in [DOMAIN q -> Seq(Task)]
  /\ \A t \in Task : L[t] \subseteq DOMAIN q
  /\ \A key \in DOMAIN q :
       /\ \A i \in 1 .. Len(q[key]) : key \in L[q[key][i]]
       /\ \A i, j \in 1 .. Len(q[key]) : q[key][i] = q[key][j] => i = j
       /\ \E t \in Task : Runs(q, L, key, t)
       /\ \A t, u \in Task : Runs(q, L, key, t) /\ Runs(q, L, key, u) => t = u

Locks == [t \in Task |-> Locked(t)]
LocksOK == MutexOK(queue, Locks)

(* What a task has checked under its lock is so until it writes.            *)
ChecksHold ==
  \A t \in Task :
    /\ pc[t] \in {"createWrite", "pushWrite", "compactRead", "compactWrite"} => ~Waiting(t)
    /\ pc[t] = "createWrite" => kv[id[t]].end = NoSnapshot
    /\ pc[t] \in {"push", "pushWrite"} => frame[t].seq \in Nat
    /\ pc[t] = "pushWrite" => kv[id[t]].end # NoSnapshot /\ NextSeq(id[t], frame[t].seq)
    /\ pc[t] \in Compactions => To(t) \in Nat

(* The keys of a block spell out its log: the latest document is all of it, *)
(* the start is a prefix and the batches are the rest. r: the block, l: the *)
(* log.                                                                     *)
Prefix(l, seq) == {l[k] : k \in 1 .. (seq + 1)}
Entry(l, seq) == [seq |-> seq, patch |-> l[seq + 1]]
Entries(l, min, max) == {Entry(l, seq) : seq \in min .. max}
Within(batches, min, max) == {x \in batches : min <= x.seq /\ x.seq <= max}

Empty(r, l) == r.end = NoSnapshot /\ r.start = NoSnapshot /\ r.batches = {} /\ l = <<>>

Full(r, l) ==
  /\ r.end # NoSnapshot /\ r.start # NoSnapshot
  /\ r.end.seq = Len(l) - 1 /\ r.end.blob = Prefix(l, Len(l) - 1)
  /\ r.start.seq \in -1 .. Len(l) - 1
  /\ r.start.blob = Prefix(l, r.start.seq)
  /\ r.batches = Entries(l, r.start.seq + 1, Len(l) - 1)

BlocksSpellLog == \A b \in Id \ crossed : Empty(kv[b], log[b]) \/ Full(kv[b], log[b])

(* An edit brings the document as it was at the number before its own.      *)
EditsExtendLog ==
  \A t \in Task : id[t] \notin crossed /\ pc[t] \in {"push", "pushWrite"} =>
    /\ kv[id[t]].end # NoSnapshot
    /\ frame[t].seq <= Len(log[id[t]])
    /\ frame[t].blob = Prefix(log[id[t]], frame[t].seq - 1) \cup {t}

(* A compaction moves the start forward, within the log.                    *)
CompactionsWithinLog ==
  \A t \in Task : id[t] \notin crossed =>
    LET r == kv[id[t]]
        l == log[id[t]]
    IN  /\ pc[t] \in Compactions => r.end # NoSnapshot /\ To(t) <= Len(l) - 1
        /\ pc[t] \in {"compactRead", "compactWrite"} =>
             frame[t].from = r.start.seq /\ frame[t].from < To(t)
        /\ pc[t] = "compactRead" => frame[t].blob = r.start.blob
        /\ pc[t] = "compactWrite" =>
             /\ frame[t].read = Entries(l, frame[t].from + 1, To(t))
             /\ frame[t].blob = Prefix(l, To(t))

Documents == BlocksSpellLog /\ EditsExtendLog /\ CompactionsWithinLog

(* What a pull has read so far is what it is to read, or a compaction has   *)
(* overtaken it. f: what it keeps, how: the answer, r, l: block and log.    *)
Learns(t) == op[t] \in {"pull", "follow"} /\ id[t] \notin removed

Behind(f, r) == r.start.seq > (IF f.last = -1 THEN f.from ELSE f.last)

PullOK(step, f, how, r, l) ==
  /\ step # "done" => how = "none"
  /\ step \in {"listen", "seq", "seqRead"} => f.seq = -1 /\ f.last = -1 /\ f.from = -1
  /\ step \in Reads => r.end # NoSnapshot /\ f.last < f.seq /\ f.seq <= Len(l) - 1
  /\ step = "scan" => f.last # -1
  /\ step = "getBatches" =>
       f.from <= r.start.seq /\ f.from < f.seq /\ Prefix(l, f.from) \subseteq f.blob
  /\ step = "done" => how \in {"ok", "NOT_FOUND"}
  /\ step = "done" /\ how = "ok" =>
       /\ r.end # NoSnapshot
       /\ f.last <= f.seq /\ f.seq <= Len(l) - 1
       /\ Prefix(l, f.seq) \subseteq Prefix(l, f.last) \cup f.blob \/ Behind(f, r)

PullsConsistent ==
  \A t \in Task : Learns(t) => PullOK(pc[t], frame[t], outcome[t], kv[id[t]], log[id[t]])

(* Patches on their way to the listeners of a block. events: `publishing`.  *)
Coming(events, b) == {events[i].patch : i \in {i \in 1 .. Len(events) : events[i].block = b}}

(* What a follower's pull was too early for is among the patches that it    *)
(* has heard or that are coming.                                            *)
RestHeard(l, seq, known) == \A k \in 1 .. Len(l) : k > seq + 1 => l[k] \in known

FollowOK(step, f, how, r, l, known) ==
  /\ step \in Reads \/ (step = "done" /\ how = "ok") => RestHeard(l, f.seq, known)
  /\ step = "done" /\ how = "NOT_FOUND" =>
       /\ f.seq = -1 /\ f.last = -1 /\ f.from = -1
       /\ RestHeard(l, -1, known) \/ (r.end # NoSnapshot /\ r.start.seq >= 0)

FollowersHear ==
  \A t \in Task : op[t] = "follow" /\ Learns(t) /\ t \notin left /\ pc[t] # "listen" =>
    /\ t \in observers[id[t]]
    /\ FollowOK(pc[t], frame[t], outcome[t], kv[id[t]], log[id[t]], heard[t] \cup Coming(publishing, id[t]))

StoreInv == StoreTyped /\ PubsubTyped /\ TasksTyped /\ LocksOK /\ ChecksHold

(* The inductive invariant is StoreInv /\ Documents /\ PullsConsistent /\    *)
(* FollowersHear: each conjunct is preserved given those before it.         *)

-----------------------------------------------------------------------------
(* The mutex. A task that needs no lock yet asks for one.                   *)
Acquired(q, r, key, t) ==
  \/ key \in DOMAIN q /\ r = [q EXCEPT ![key] = Append(@, t)]
  \/ key \notin DOMAIN q /\ r = [k \in DOMAIN q \cup {key} |-> IF k = key THEN <<>> ELSE q[k]]

LEMMA AcquireKeepsMutex ==
  ASSUME NEW q, NEW r, NEW L, NEW M, MutexOK(q, L),
         NEW t \in Task, NEW key, L[t] = {}, M = [L EXCEPT ![t] = {key}],
         Acquired(q, r, key, t)
  PROVE  /\ MutexOK(r, M)
         /\ \A u \in Task \ {t} : Waits(r, u) <=> Waits(q, u)
<1>1. /\ DOMAIN L = Task /\ DOMAIN M = Task
      /\ M[t] = {key} /\ \A u \in Task \ {t} : M[u] = L[u]
  BY DEF MutexOK
<1>2. ~Waits(q, t) /\ \A k \in DOMAIN q : \A i \in 1 .. Len(q[k]) : q[k][i] # t
  BY DEF MutexOK, Waits
<1>3. q \in [DOMAIN q -> Seq(Task)]
  BY DEF MutexOK
<1>4. CASE key \in DOMAIN q /\ r = [q EXCEPT ![key] = Append(@, t)]
  <2>1. /\ DOMAIN r = DOMAIN q
        /\ \A k \in DOMAIN q \ {key} : r[k] = q[k]
        /\ q[key] \in Seq(Task) /\ r[key] = Append(q[key], t)
        /\ r \in [DOMAIN r -> Seq(Task)]
    BY <1>3, <1>4
  <2>2. /\ Len(q[key]) \in Nat /\ Len(r[key]) = Len(q[key]) + 1
        /\ \A i \in 1 .. Len(q[key]) : r[key][i] = q[key][i]
        /\ r[key][Len(q[key]) + 1] = t
    BY <2>1
  <2>3. /\ Waits(r, t)
        /\ \A u \in Task \ {t} : Waits(r, u) <=> Waits(q, u)
    <3>1. Waits(r, t)
      <4>1. Len(q[key]) + 1 \in 1 .. Len(r[key])
        BY <2>2
      <4> QED BY <4>1, <2>1, <2>2, <1>4 DEF Waits
    <3>2. ASSUME NEW u \in Task \ {t}, Waits(q, u) PROVE Waits(r, u)
      <4>1. PICK k \in DOMAIN q : \E i \in 1 .. Len(q[k]) : q[k][i] = u
        BY <3>2 DEF Waits
      <4>2. \E i \in 1 .. Len(r[k]) : r[k][i] = u
        BY <4>1, <2>1, <2>2
      <4> QED BY <4>2, <2>1 DEF Waits
    <3>3. ASSUME NEW u \in Task \ {t}, Waits(r, u) PROVE Waits(q, u)
      <4>1. PICK k \in DOMAIN q : \E i \in 1 .. Len(r[k]) : r[k][i] = u
        BY <3>3, <2>1 DEF Waits
      <4>2. \E i \in 1 .. Len(q[k]) : q[k][i] = u
        BY <4>1, <2>1, <2>2
      <4> QED BY <4>2 DEF Waits
    <3> QED BY <3>1, <3>2, <3>3
  <2>4. ASSUME NEW k \in DOMAIN r
        PROVE  /\ \A i \in 1 .. Len(r[k]) : k \in M[r[k][i]]
               /\ \A i, j \in 1 .. Len(r[k]) : r[k][i] = r[k][j] => i = j
    <3>1. /\ \A i \in 1 .. Len(q[k]) : q[k][i] \in Task \ {t} /\ k \in L[q[k][i]]
          /\ \A i, j \in 1 .. Len(q[k]) : q[k][i] = q[k][j] => i = j
      BY <2>1, <1>2, <1>3 DEF MutexOK
    <3>2. CASE k # key
      BY <3>1, <3>2, <2>1, <1>1
    <3>3. CASE k = key
      BY <3>1, <3>3, <2>1, <2>2, <1>1
    <3> QED BY <3>2, <3>3
  <2>5. ASSUME NEW k \in DOMAIN r, NEW u \in Task
        PROVE  Runs(r, M, k, u) <=> Runs(q, L, k, u)
    BY <2>3, <1>1, <1>4 DEF Runs
  <2>6. ASSUME NEW k \in DOMAIN r
        PROVE  /\ \E u \in Task : Runs(r, M, k, u)
               /\ \A u, v \in Task : Runs(r, M, k, u) /\ Runs(r, M, k, v) => u = v
    <3>1. /\ \E u \in Task : Runs(q, L, k, u)
          /\ \A u, v \in Task : Runs(q, L, k, u) /\ Runs(q, L, k, v) => u = v
      BY <2>1 DEF MutexOK
    <3> QED BY <3>1, <2>5
  <2>7. \A u \in Task : M[u] \subseteq DOMAIN r /\ \A k1, k2 \in M[u] : k1 = k2
    BY <1>1, <2>1, <1>4 DEF MutexOK
  <2> QED BY <2>1, <2>3, <2>4, <2>6, <2>7, <1>1 DEF MutexOK
<1>5. CASE /\ key \notin DOMAIN q
           /\ r = [k \in DOMAIN q \cup {key} |-> IF k = key THEN <<>> ELSE q[k]]
  <2>1. /\ DOMAIN r = DOMAIN q \cup {key}
        /\ \A k \in DOMAIN q : r[k] = q[k]
        /\ r[key] = <<>> /\ Len(r[key]) = 0
        /\ r \in [DOMAIN r -> Seq(Task)]
    BY <1>3, <1>5
  <2>2. \A u \in Task : Waits(r, u) <=> Waits(q, u)
    BY <2>1, <1>5 DEF Waits
  <2>3. ASSUME NEW k \in DOMAIN r
        PROVE  /\ \A i \in 1 .. Len(r[k]) : k \in M[r[k][i]]
               /\ \A i, j \in 1 .. Len(r[k]) : r[k][i] = r[k][j] => i = j
    <3>1. CASE k = key
      BY <3>1, <2>1
    <3>2. CASE k # key
      <4>1. k \in DOMAIN q /\ r[k] = q[k] /\ q[k] \in Seq(Task)
        BY <3>2, <2>1, <1>3
      <4>2. /\ \A i \in 1 .. Len(q[k]) : q[k][i] \in Task \ {t} /\ k \in L[q[k][i]]
            /\ \A i, j \in 1 .. Len(q[k]) : q[k][i] = q[k][j] => i = j
        BY <4>1, <1>2 DEF MutexOK
      <4> QED BY <4>1, <4>2, <1>1
    <3> QED BY <3>1, <3>2
  <2>4. Runs(r, M, key, t) /\ \A u \in Task : Runs(r, M, key, u) => u = t
    BY <2>2, <1>1, <1>2, <1>5 DEF Runs, MutexOK
  <2>5. ASSUME NEW k \in DOMAIN q, NEW u \in Task
        PROVE  Runs(r, M, k, u) <=> Runs(q, L, k, u)
    BY <2>2, <1>1, <1>5 DEF Runs
  <2>6. ASSUME NEW k \in DOMAIN r
        PROVE  /\ \E u \in Task : Runs(r, M, k, u)
               /\ \A u, v \in Task : Runs(r, M, k, u) /\ Runs(r, M, k, v) => u = v
    <3>1. CASE k = key
      BY <3>1, <2>4
    <3>2. CASE k # key
      <4>1. /\ k \in DOMAIN q
            /\ \E u \in Task : Runs(q, L, k, u)
            /\ \A u, v \in Task : Runs(q, L, k, u) /\ Runs(q, L, k, v) => u = v
        BY <3>2, <2>1 DEF MutexOK
      <4> QED BY <4>1, <2>5
    <3> QED BY <3>1, <3>2
  <2>7. \A u \in Task : M[u] \subseteq DOMAIN r /\ \A k1, k2 \in M[u] : k1 = k2
    BY <1>1, <2>1 DEF MutexOK
  <2> QED BY <2>1, <2>2, <2>3, <2>6, <2>7, <1>1 DEF MutexOK
<1> QED BY <1>4, <1>5 DEF Acquired

(* A task that runs under its lock gives it up: nobody, or the next one in  *)
(* the queue, runs instead.                                                 *)
LEMMA ReleaseKeepsMutex ==
  ASSUME NEW q, NEW r, NEW L, NEW M, MutexOK(q, L),
         NEW t \in Task, NEW key, Runs(q, L, key, t), M = [L EXCEPT ![t] = {}],
         \/ q[key] = <<>> /\ r = [k \in DOMAIN q \ {key} |-> q[k]]
         \/ q[key] # <<>> /\ r = [q EXCEPT ![key] = Tail(@)]
  PROVE  /\ MutexOK(r, M)
         /\ ~Waits(r, t)
         /\ \A u \in Task : Waits(r, u) => Waits(q, u)
         /\ \A u \in Task : ~Waits(r, u) => ~Waits(q, u) \/ key \in L[u]
<1>1. /\ DOMAIN L = Task /\ DOMAIN M = Task
      /\ M[t] = {} /\ \A u \in Task \ {t} : M[u] = L[u]
      /\ L[t] = {key} /\ key \in DOMAIN q
      /\ \A u \in Task : \A k1, k2 \in L[u] : k1 = k2
      /\ \A u \in Task : L[u] \subseteq DOMAIN q
  BY DEF MutexOK, Runs
<1>2. /\ q \in [DOMAIN q -> Seq(Task)]
      /\ \A k \in DOMAIN q : \A i \in 1 .. Len(q[k]) : q[k][i] \in Task \ {t} /\ k \in L[q[k][i]]
      /\ \A k \in DOMAIN q : \A i, j \in 1 .. Len(q[k]) : q[k][i] = q[k][j] => i = j
  <2>1. q \in [DOMAIN q -> Seq(Task)]
    BY DEF MutexOK
  <2>2. \A k \in DOMAIN q : \A i \in 1 .. Len(q[k]) : q[k][i] # t
    BY DEF Runs, Waits
  <2> QED BY <2>1, <2>2 DEF MutexOK
<1>3. \A u \in Task : Runs(q, L, key, u) => u = t
  BY <1>1 DEF MutexOK
<1>4. \A k \in DOMAIN q :
        /\ \E u \in Task : Runs(q, L, k, u)
        /\ \A u, v \in Task : Runs(q, L, k, u) /\ Runs(q, L, k, v) => u = v
  BY DEF MutexOK
<1>5. CASE q[key] = <<>> /\ r = [k \in DOMAIN q \ {key} |-> q[k]]
  <2>1. /\ DOMAIN r = DOMAIN q \ {key} /\ \A k \in DOMAIN r : r[k] = q[k]
        /\ r \in [DOMAIN r -> Seq(Task)]
        /\ Len(q[key]) = 0
    BY <1>2, <1>5
  <2>2. \A u \in Task : Waits(r, u) <=> Waits(q, u)
    BY <2>1 DEF Waits
  <2>3. ASSUME NEW u \in Task, key \in L[u] PROVE u = t
    <3>1. ~Waits(q, u)
      BY <2>1, <2>3, <1>1, <1>2 DEF Waits
    <3> QED BY <3>1, <2>3, <1>3 DEF Runs
  <2>4. ASSUME NEW k \in DOMAIN r
        PROVE  /\ \A i \in 1 .. Len(r[k]) : k \in M[r[k][i]]
               /\ \A i, j \in 1 .. Len(r[k]) : r[k][i] = r[k][j] => i = j
    BY <2>1, <1>1, <1>2
  <2>5. ASSUME NEW k \in DOMAIN r, NEW u \in Task
        PROVE  Runs(r, M, k, u) <=> Runs(q, L, k, u)
    BY <2>1, <2>2, <1>1 DEF Runs
  <2>6. ASSUME NEW k \in DOMAIN r
        PROVE  /\ \E u \in Task : Runs(r, M, k, u)
               /\ \A u, v \in Task : Runs(r, M, k, u) /\ Runs(r, M, k, v) => u = v
    BY <2>5, <2>1, <1>4
  <2>7. \A u \in Task : M[u] \subseteq DOMAIN r /\ \A k1, k2 \in M[u] : k1 = k2
    BY <1>1, <2>1, <2>3
  <2>8. MutexOK(r, M)
    BY <2>1, <2>4, <2>6, <2>7, <1>1 DEF MutexOK
  <2> QED BY <2>8, <2>2 DEF Runs
<1>6. CASE q[key] # <<>> /\ r = [q EXCEPT ![key] = Tail(@)]
  <2> DEFINE next == q[key][1]
  <2>1. /\ DOMAIN r = DOMAIN q
        /\ \A k \in DOMAIN q \ {key} : r[k] = q[k]
        /\ q[key] \in Seq(Task) /\ r[key] = Tail(q[key])
        /\ r \in [DOMAIN r -> Seq(Task)]
    BY <1>1, <1>2, <1>6
  <2>2. /\ Len(q[key]) \in Nat \ {0} /\ Len(r[key]) = Len(q[key]) - 1
        /\ \A i \in 1 .. Len(r[key]) : r[key][i] = q[key][i + 1]
    BY <2>1, <1>6
  <2>3. next \in Task \ {t} /\ L[next] = {key} /\ Waits(q, next)
    <3>1. 1 \in 1 .. Len(q[key])
      BY <2>2
    <3>2. next \in Task \ {t} /\ key \in L[next] /\ Waits(q, next)
      BY <3>1, <1>1, <1>2 DEF Waits
    <3> QED BY <3>2, <1>1
  <2>4. ~Waits(r, next)
    <3>1. SUFFICES ASSUME NEW k \in DOMAIN q, NEW i \in 1 .. Len(r[k]), r[k][i] = next
                   PROVE  FALSE
      BY <2>1 DEF Waits
    <3>2. CASE k # key
      <4>1. i \in 1 .. Len(q[k]) /\ q[k][i] = next
        BY <3>1, <3>2, <2>1
      <4> QED BY <4>1, <3>2, <2>3, <1>2
    <3>3. CASE k = key
      <4>1. i + 1 \in 1 .. Len(q[key]) /\ 1 \in 1 .. Len(q[key]) /\ q[key][i + 1] = q[key][1]
        BY <3>1, <3>3, <2>2
      <4> QED BY <4>1, <1>1, <1>2, <2>2
    <3> QED BY <3>2, <3>3
  <2>5. ASSUME NEW u \in Task, Waits(r, u) PROVE Waits(q, u)
    <3>1. PICK k \in DOMAIN q : \E i \in 1 .. Len(r[k]) : r[k][i] = u
      BY <2>5, <2>1 DEF Waits
    <3>2. CASE k # key
      BY <3>1, <3>2, <2>1 DEF Waits
    <3>3. CASE k = key
      <4>1. PICK i \in 1 .. Len(r[key]) : r[key][i] = u
        BY <3>1, <3>3
      <4>2. i + 1 \in 1 .. Len(q[key]) /\ q[key][i + 1] = u
        BY <4>1, <2>2
      <4> QED BY <4>2, <1>1 DEF Waits
    <3> QED BY <3>2, <3>3
  <2>6. ASSUME NEW u \in Task, u # next, Waits(q, u) PROVE Waits(r, u)
    <3>1. PICK k \in DOMAIN q : \E i \in 1 .. Len(q[k]) : q[k][i] = u
      BY <2>6 DEF Waits
    <3>2. CASE k # key
      BY <3>1, <3>2, <2>1 DEF Waits
    <3>3. CASE k = key
      <4>1. PICK i \in 1 .. Len(q[key]) : q[key][i] = u
        BY <3>1, <3>3
      <4>2. i # 1
        BY <4>1, <2>6
      <4>3. i - 1 \in 1 .. Len(r[key]) /\ r[key][i - 1] = q[key][(i - 1) + 1] /\ (i - 1) + 1 = i
        BY <4>2, <2>2
      <4>4. key \in DOMAIN r /\ r[key][i - 1] = u
        BY <4>1, <4>3, <1>1, <2>1
      <4> QED BY <4>3, <4>4 DEF Waits
    <3> QED BY <3>2, <3>3
  <2>7. ASSUME NEW k \in DOMAIN r
        PROVE  /\ \A i \in 1 .. Len(r[k]) : k \in M[r[k][i]]
               /\ \A i, j \in 1 .. Len(r[k]) : r[k][i] = r[k][j] => i = j
    <3>1. CASE k # key
      BY <3>1, <2>1, <1>1, <1>2
    <3>2. CASE k = key
      <4>1. ASSUME NEW i \in 1 .. Len(r[key])
            PROVE  i + 1 \in 1 .. Len(q[key]) /\ r[key][i] = q[key][i + 1]
        BY <2>2
      <4>2. \A i \in 1 .. Len(r[key]) : key \in M[r[key][i]]
        BY <4>1, <1>1, <1>2
      <4>3. ASSUME NEW i \in 1 .. Len(r[key]), NEW j \in 1 .. Len(r[key]), r[key][i] = r[key][j]
            PROVE  i = j
        <5>1. /\ i + 1 \in 1 .. Len(q[key]) /\ j + 1 \in 1 .. Len(q[key])
              /\ q[key][i + 1] = q[key][j + 1]
          BY <4>1, <4>3
        <5>2. i + 1 = j + 1
          BY <5>1, <1>1, <1>2
        <5> QED BY <5>2
      <4> QED BY <3>2, <4>2, <4>3
    <3> QED BY <3>1, <3>2
  <2>8. ASSUME NEW k \in DOMAIN q \ {key}, NEW u \in Task
        PROVE  Runs(r, M, k, u) <=> Runs(q, L, k, u)
    <3>1. CASE u = next
      BY <3>1, <2>3, <1>1 DEF Runs
    <3>2. CASE u = t
      BY <3>2, <1>1 DEF Runs
    <3>3. CASE u # next /\ u # t
      BY <3>3, <2>5, <2>6, <1>1 DEF Runs
    <3> QED BY <3>1, <3>2, <3>3
  <2>9. Runs(r, M, key, next) /\ \A u \in Task : Runs(r, M, key, u) => u = next
    <3>1. Runs(r, M, key, next)
      BY <2>3, <2>4, <1>1 DEF Runs
    <3>2. ASSUME NEW u \in Task, Runs(r, M, key, u), u # next PROVE FALSE
      <4>1. u # t /\ key \in L[u] /\ ~Waits(q, u)
        BY <3>2, <2>6, <1>1 DEF Runs
      <4> QED BY <4>1, <1>3 DEF Runs
    <3> QED BY <3>1, <3>2
  <2>10. ASSUME NEW k \in DOMAIN r
         PROVE  /\ \E u \in Task : Runs(r, M, k, u)
                /\ \A u, v \in Task : Runs(r, M, k, u) /\ Runs(r, M, k, v) => u = v
    <3>1. CASE k = key
      BY <3>1, <2>3, <2>9
    <3>2. CASE k # key
      BY <3>2, <2>1, <2>8, <1>4
    <3> QED BY <3>1, <3>2
  <2>11. \A u \in Task : M[u] \subseteq DOMAIN r /\ \A k1, k2 \in M[u] : k1 = k2
    BY <1>1, <2>1
  <2>12. MutexOK(r, M)
    BY <2>1, <2>7, <2>10, <2>11, <1>1 DEF MutexOK
  <2>13. \A u \in Task : ~Waits(r, u) => ~Waits(q, u) \/ key \in L[u]
    BY <2>3, <2>6
  <2> QED BY <2>12, <2>5, <2>13 DEF Runs
<1> QED BY <1>5, <1>6

-----------------------------------------------------------------------------
(* A step of one task leaves the others where they are.                     *)
TaskAction(t) ==
  \/ Listen(t) \/ Leave(t)
  \/ Create(t) \/ CreateCheck(t) \/ CreateWrite(t)
  \/ EditGet(t) \/ PushCheck(t) \/ PushWrite(t)
  \/ Compact(t) \/ CompactGet(t) \/ CompactRead(t) \/ CompactWrite(t)
  \/ PullSeq(t) \/ SeqRead(t) \/ GetStart(t) \/ ReadBatches(t)
  \/ RemoveExists(t) \/ RemoveClear(t) \/ GcPicks(t) \/ Expire(t)

Same(u) == pc'[u] = pc[u] /\ id'[u] = id[u] /\ frame'[u] = frame[u] /\ outcome'[u] = outcome[u]

LEMMA OthersStay ==
  ASSUME TasksTyped, NEW t \in Task, TaskAction(t), NEW u \in Task, u # t
  PROVE  Same(u)
<1> USE DEF Same, TasksTyped
<1>1. CASE Listen(t)
  BY <1>1 DEF Listen, Goto, Answer, Remember
<1>2. CASE Leave(t)
  BY <1>2 DEF Leave
<1>3. CASE Create(t)
  BY <1>3 DEF Create, Goto, Answer, Remember
<1>4. CASE CreateCheck(t)
  BY <1>4 DEF CreateCheck, Goto, Answer, Remember
<1>5. CASE CreateWrite(t)
  BY <1>5 DEF CreateWrite, Goto, Answer, Remember
<1>6. CASE EditGet(t)
  BY <1>6 DEF EditGet, Goto, Answer, Remember
<1>7. CASE PushCheck(t)
  BY <1>7 DEF PushCheck, Goto, Answer, Remember
<1>8. CASE PushWrite(t)
  BY <1>8 DEF PushWrite, Goto, Answer, Remember
<1>9. CASE Compact(t)
  BY <1>9 DEF Compact, Goto, Answer, Remember
<1>10. CASE CompactGet(t)
  BY <1>10 DEF CompactGet, Goto, Answer, Remember
<1>11. CASE CompactRead(t)
  BY <1>11 DEF CompactRead, Goto, Answer, Remember
<1>12. CASE CompactWrite(t)
  BY <1>12 DEF CompactWrite, Goto, Answer, Remember
<1>13. CASE PullSeq(t)
  BY <1>13 DEF PullSeq, Goto, Answer, Remember
<1>14. CASE SeqRead(t)
  BY <1>14 DEF SeqRead, Goto, Answer, Remember
<1>15. CASE GetStart(t)
  BY <1>15 DEF GetStart, Goto, Answer, Remember
<1>16. CASE ReadBatches(t)
  BY <1>16 DEF ReadBatches, Goto, Answer, Remember
<1>17. CASE RemoveExists(t)
  BY <1>17 DEF RemoveExists, Goto, Answer, Remember
<1>18. CASE RemoveClear(t)
  BY <1>18 DEF RemoveClear, Goto, Answer, Remember
<1>19. CASE GcPicks(t)
  BY <1>19 DEF GcPicks, Remember, Goto, Answer
<1>20. CASE Expire(t)
  BY <1>20 DEF Expire, Answer
<1> QED BY <1>1, <1>2, <1>3, <1>4, <1>5, <1>6, <1>7, <1>8, <1>9, <1>10, <1>11, <1>12, <1>13, <1>14, <1>15, <1>16, <1>17, <1>18, <1>19, <1>20 DEF TaskAction

-----------------------------------------------------------------------------
(* What the steps that write do to the store and the log.                   *)
LEMMA SmallSequences ==
  /\ SetToSeq({}) = <<>> /\ Cardinality({}) = 0
  /\ \A t : SetToSeq({t}) = <<t>> /\ Cardinality({t}) = 1
<1>1. Cardinality({}) = 0 /\ \A t : Cardinality({t}) = 1
  BY FS_EmptySet, FS_Singleton
<1>2. SetToSeq({}) = <<>>
  <2>1. <<>> \in [1 .. 0 -> {}] /\ IsInjective(<<>>)
    BY DEF IsInjective
  <2>2. \A f \in [1 .. 0 -> {}] : f = <<>>
    BY EmptySeq
  <2> QED BY <1>1, <2>1, <2>2 DEF SetToSeq
<1>3. ASSUME NEW t PROVE SetToSeq({t}) = <<t>>
  <2>1. <<t>> \in [1 .. 1 -> {t}] /\ IsInjective(<<t>>)
    BY DEF IsInjective
  <2>2. \A f \in [1 .. 1 -> {t}] : f = <<t>>
    BY SMT
  <2> QED BY <1>1, <2>1, <2>2 DEF SetToSeq
<1> QED BY <1>1, <1>2, <1>3

LEMMA WriteBlock ==
  ASSUME StoreTyped, NEW b \in Id, NEW rec \in Block, Clock(b, rec)
  PROVE  /\ kv' \in [Id -> Block] /\ now' \in 1 .. MaxTime
         /\ \A c \in Id \ {b} : kv'[c] = kv[c]
         /\ kv'[b].start = rec.start /\ kv'[b].end = rec.end /\ kv'[b].batches = rec.batches
<1>1. PICK n \in 1 .. MaxTime : now' = n /\ kv' = [kv EXCEPT ![b] = [rec EXCEPT !.touch = n]]
  BY DEF Clock
<1>2. [rec EXCEPT !.touch = n] \in Block /\ n \in 0 .. MaxTime
  BY BoundsAssumption DEF Block
<1>3. /\ [rec EXCEPT !.touch = n].start = rec.start
      /\ [rec EXCEPT !.touch = n].end = rec.end
      /\ [rec EXCEPT !.touch = n].batches = rec.batches
  BY DEF Block
<1> QED BY <1>1, <1>2, <1>3 DEF StoreTyped

LEMMA CreateWriteEffect ==
  ASSUME StoreTyped, TasksTyped, NEW t \in Task, CreateWrite(t)
  PROVE  LET b == id[t]
             batch == IF op[t] = "create" THEN {} ELSE {[seq |-> 0, patch |-> t]}
         IN  /\ b \in Id /\ kv' \in [Id -> Block] /\ now' \in 1 .. MaxTime
             /\ \A c \in Id \ {b} : kv'[c] = kv[c] /\ log'[c] = log[c]
             /\ log' \in [Id -> Seq(Task)]
             /\ log'[b] = IF op[t] = "create" THEN <<>> ELSE <<t>>
             /\ kv'[b].start = [seq |-> -1, blob |-> {}]
             /\ kv'[b].end = [seq |-> Len(log'[b]) - 1, blob |-> {log'[b][k] : k \in 1 .. Len(log'[b])}]
             /\ kv'[b].batches \subseteq kv[b].batches \cup batch
             /\ batch \subseteq kv'[b].batches
<1> DEFINE b == id[t]
           patches == IF op[t] = "create" THEN {} ELSE {t}
           batch == {[seq |-> 0, patch |-> p] : p \in patches}
           rec == [kv[b] EXCEPT
              !.start = [seq |-> -1, blob |-> {}],
              !.end = [seq |-> Cardinality(patches) - 1, blob |-> patches],
              !.batches = {x \in @ : patches = {} \/ x.seq # 0} \cup batch]
<1>1. b \in Id
  <2>1. op[t] \in {"create", "createWith"}
    BY OpAssumption DEF CreateWrite, At, TasksTyped, Steps, Creates, Edits, Compactions, Pulls, Reads, Removals
  <2> QED BY <2>1 DEF TasksTyped
<1>2. Clock(b, rec) /\ log' = [log EXCEPT ![b] = SetToSeq(patches)]
  BY DEF CreateWrite
<1>3. /\ patches \subseteq Task /\ Cardinality(patches) \in {0, 1}
      /\ SetToSeq(patches) = IF op[t] = "create" THEN <<>> ELSE <<t>>
      /\ Cardinality(patches) = IF op[t] = "create" THEN 0 ELSE 1
  BY SmallSequences
<1>4. batch = IF op[t] = "create" THEN {} ELSE {[seq |-> 0, patch |-> t]}
  OBVIOUS
<1>5. kv[b] \in Block
  BY <1>1 DEF StoreTyped
<1> DEFINE start0 == [seq |-> -1, blob |-> {}]
           end0 == [seq |-> Cardinality(patches) - 1, blob |-> patches]
           batches0 == {x \in kv[b].batches : patches = {} \/ x.seq # 0} \cup batch
<1>6. start0 \in Snapshot /\ end0 \in Snapshot
  BY <1>3 DEF Snapshot
<1>7. batches0 \subseteq Batch
  BY <1>3, <1>5 DEF Block, Batch
<1> HIDE DEF start0, end0, batches0, batch, patches
<1>8. rec = [kv[b] EXCEPT !.start = start0, !.end = end0, !.batches = batches0]
  BY DEF rec, start0, end0, batches0
<1>9. /\ [kv[b] EXCEPT !.start = start0, !.end = end0, !.batches = batches0] \in Block
      /\ [kv[b] EXCEPT !.start = start0, !.end = end0, !.batches = batches0].start = start0
      /\ [kv[b] EXCEPT !.start = start0, !.end = end0, !.batches = batches0].end = end0
      /\ [kv[b] EXCEPT !.start = start0, !.end = end0, !.batches = batches0].batches = batches0
  BY <1>5, <1>6, <1>7 DEF Block
<1>10. rec \in Block /\ rec.start = start0 /\ rec.end = end0 /\ rec.batches = batches0
  BY <1>8, <1>9
<1> HIDE DEF rec, b
<1>11. /\ kv' \in [Id -> Block] /\ now' \in 1 .. MaxTime
       /\ \A c \in Id \ {b} : kv'[c] = kv[c]
       /\ kv'[b].start = start0 /\ kv'[b].end = end0 /\ kv'[b].batches = batches0
  BY <1>1, <1>2, <1>10, WriteBlock
<1>12. /\ log' \in [Id -> Seq(Task)]
       /\ log'[b] = IF op[t] = "create" THEN <<>> ELSE <<t>>
       /\ \A c \in Id \ {b} : log'[c] = log[c]
  BY <1>1, <1>2, <1>3 DEF StoreTyped
<1>13. end0 = [seq |-> Len(log'[b]) - 1, blob |-> {log'[b][k] : k \in 1 .. Len(log'[b])}]
  <2>1. CASE op[t] = "create"
    <3>1. Len(log'[b]) = 0 /\ patches = {}
      BY <2>1, <1>12 DEF patches
    <3>2. {log'[b][k] : k \in 1 .. Len(log'[b])} = {}
      BY <3>1
    <3> QED BY <2>1, <3>1, <3>2, <1>3 DEF end0
  <2>2. CASE op[t] # "create"
    <3>1. Len(log'[b]) = 1 /\ log'[b][1] = t /\ patches = {t}
      BY <2>2, <1>12 DEF patches
    <3>2. {log'[b][k] : k \in 1 .. Len(log'[b])} = {t}
      BY <3>1
    <3> QED BY <2>2, <3>1, <3>2, <1>3 DEF end0
  <2> QED BY <2>1, <2>2
<1>14. batches0 \subseteq kv[b].batches \cup batch /\ batch \subseteq batches0
  BY DEF batches0
<1> QED BY <1>1, <1>4, <1>11, <1>12, <1>13, <1>14 DEF start0, b

LEMMA PushWriteEffect ==
  ASSUME StoreTyped, TasksTyped, ChecksHold, NEW t \in Task, PushWrite(t)
  PROVE  LET b == id[t] seq == frame[t].seq
         IN  /\ b \in Id /\ seq \in Nat /\ kv' \in [Id -> Block] /\ now' \in 1 .. MaxTime
             /\ \A c \in Id \ {b} : kv'[c] = kv[c] /\ log'[c] = log[c]
             /\ log' \in [Id -> Seq(Task)]
             /\ log'[b] = Append(log[b], t)
             /\ kv'[b].start = kv[b].start
             /\ kv'[b].end = [seq |-> seq, blob |-> frame[t].blob]
             /\ kv'[b].batches = {x \in kv[b].batches : x.seq # seq} \cup {[seq |-> seq, patch |-> t]}
<1> DEFINE b == id[t]
           seq == frame[t].seq
           end0 == [seq |-> seq, blob |-> frame[t].blob]
           batches0 == {x \in kv[b].batches : x.seq # seq} \cup {[seq |-> seq, patch |-> t]}
           rec == [kv[b] EXCEPT !.end = end0, !.batches = batches0]
<1>1. b \in Id
  <2>1. op[t] = "edit"
    BY OpAssumption DEF PushWrite, At, TasksTyped, Steps, Creates, Edits, Compactions, Pulls, Reads, Removals
  <2> QED BY <2>1 DEF TasksTyped
<1>2. seq \in Nat /\ frame[t].blob \subseteq Task
  BY DEF ChecksHold, PushWrite, At, TasksTyped, Frame
<1>3. Clock(b, rec) /\ log' = [log EXCEPT ![b] = Append(@, t)]
  BY DEF PushWrite
<1>4. kv[b] \in Block
  BY <1>1 DEF StoreTyped
<1>5. end0 \in Snapshot /\ batches0 \subseteq Batch
  BY <1>2, <1>4 DEF Snapshot, Batch, Block
<1> HIDE DEF end0, batches0
<1>6. rec \in Block /\ rec.start = kv[b].start /\ rec.end = end0 /\ rec.batches = batches0
  BY <1>4, <1>5 DEF Block
<1> HIDE DEF rec, b
<1>7. /\ kv' \in [Id -> Block] /\ now' \in 1 .. MaxTime
      /\ \A c \in Id \ {b} : kv'[c] = kv[c]
      /\ kv'[b].start = kv[b].start /\ kv'[b].end = end0 /\ kv'[b].batches = batches0
  BY <1>1, <1>3, <1>6, WriteBlock
<1>8. /\ log' \in [Id -> Seq(Task)] /\ log'[b] = Append(log[b], t)
      /\ \A c \in Id \ {b} : log'[c] = log[c]
  BY <1>1, <1>3 DEF StoreTyped
<1> QED BY <1>1, <1>2, <1>7, <1>8 DEF end0, batches0, b

LEMMA CompactWriteEffect ==
  ASSUME StoreTyped, TasksTyped, ChecksHold, NEW t \in Task, CompactWrite(t)
  PROVE  LET b == id[t]
         IN  /\ b \in Id /\ To(t) \in Nat /\ kv' \in [Id -> Block]
             /\ \A c \in Id \ {b} : kv'[c] = kv[c]
             /\ UNCHANGED <<log, now>>
             /\ kv'[b].start = [seq |-> To(t), blob |-> frame[t].blob]
             /\ kv'[b].end = kv[b].end
             /\ kv'[b].batches = {x \in kv[b].batches : \A y \in frame[t].read : x.seq # y.seq}
<1> DEFINE b == id[t]
           start0 == [seq |-> To(t), blob |-> frame[t].blob]
           batches0 == {x \in kv[b].batches : \A y \in frame[t].read : x.seq # y.seq}
<1>1. b \in Id
  <2>1. op[t] = "edit"
    BY OpAssumption DEF CompactWrite, At, TasksTyped, Steps, Creates, Edits, Compactions, Pulls, Reads, Removals
  <2> QED BY <2>1 DEF TasksTyped
<1>2. To(t) \in Nat /\ frame[t].blob \subseteq Task
  BY DEF ChecksHold, CompactWrite, At, TasksTyped, Frame, Compactions
<1>3. kv[b] \in Block
  BY <1>1 DEF StoreTyped
<1>4. start0 \in Snapshot /\ batches0 \subseteq Batch
  BY <1>2, <1>3 DEF Snapshot, Block
<1>5. kv' = [kv EXCEPT ![b].start = start0, ![b].batches = batches0]
  BY <1>1 DEF CompactWrite, StoreTyped, Block
<1> HIDE DEF start0, batches0, b
<1>6. /\ kv' \in [Id -> Block] /\ \A c \in Id \ {b} : kv'[c] = kv[c]
      /\ kv'[b].start = start0 /\ kv'[b].end = kv[b].end /\ kv'[b].batches = batches0
  BY <1>1, <1>3, <1>4, <1>5 DEF StoreTyped, Block
<1> QED BY <1>1, <1>2, <1>6 DEF start0, batches0, b, CompactWrite

LEMMA RemoveClearEffect ==
  ASSUME StoreTyped, NEW t \in Task, RemoveClear(t)
  PROVE  /\ kv' \in [Id -> Block] /\ log' \in [Id -> Seq(Task)]
         /\ \A c \in Id \ {id[t]} : kv'[c] = kv[c] /\ log'[c] = log[c]
         /\ id[t] \in Id => kv'[id[t]] = NoBlock /\ log'[id[t]] = <<>>
         /\ id[t] \in removed' /\ removed \subseteq removed' /\ crossed \subseteq crossed'
         /\ crossed' \subseteq crossed \cup {id[t]}
         /\ \A u \in Task :
              /\ id[u] = id[t]
              /\ pc[u] \in {"push"} \cup Compactions
              => id[t] \in crossed'
         /\ now' = now
<1>1. NoBlock \in Block
  BY BoundsAssumption DEF NoBlock, Block
<1> DEFINE stale == {u \in Task : id[u] = id[t] /\ pc[u] \in {"push"} \cup Compactions}
<1>2. /\ kv' = [kv EXCEPT ![id[t]] = NoBlock] /\ log' = [log EXCEPT ![id[t]] = <<>>]
      /\ removed' = removed \cup {id[t]} /\ now' = now
      /\ crossed' = crossed \cup {id[u] : u \in stale}
  BY DEF RemoveClear, Compactions
<1>3. /\ kv' \in [Id -> Block] /\ log' \in [Id -> Seq(Task)]
      /\ \A c \in Id \ {id[t]} : kv'[c] = kv[c] /\ log'[c] = log[c]
      /\ id[t] \in Id => kv'[id[t]] = NoBlock /\ log'[id[t]] = <<>>
  <2>1. kv \in [Id -> Block] /\ log \in [Id -> Seq(Task)] /\ <<>> \in Seq(Task)
    BY DEF StoreTyped
  <2>2. /\ kv' \in [Id -> Block] /\ \A c \in Id \ {id[t]} : kv'[c] = kv[c]
        /\ id[t] \in Id => kv'[id[t]] = NoBlock
    BY <1>1, <1>2, <2>1
  <2>3. /\ log' \in [Id -> Seq(Task)] /\ \A c \in Id \ {id[t]} : log'[c] = log[c]
        /\ id[t] \in Id => log'[id[t]] = <<>>
    BY <1>2, <2>1
  <2> QED BY <2>2, <2>3
<1>4. /\ crossed \subseteq crossed' /\ crossed' \subseteq crossed \cup {id[t]}
      /\ \A u \in stale : id[t] \in crossed'
  BY <1>2
<1> QED BY <1>2, <1>3, <1>4

(* Who does not write leaves the store alone.                               *)
LEMMA ReadersLeaveStore ==
  ASSUME NEW t \in Task, TaskAction(t),
         ~CreateWrite(t), ~PushWrite(t), ~CompactWrite(t), ~RemoveClear(t)
  PROVE  UNCHANGED kvVars
<1>1. CASE Listen(t)
  BY <1>1 DEF Listen, kvVars
<1>2. CASE Leave(t)
  BY <1>2 DEF Leave, kvVars
<1>3. CASE Create(t)
  BY <1>3 DEF Create, kvVars
<1>4. CASE CreateCheck(t)
  BY <1>4 DEF CreateCheck, kvVars
<1>5. CASE EditGet(t)
  BY <1>5 DEF EditGet, kvVars
<1>6. CASE PushCheck(t)
  BY <1>6 DEF PushCheck, kvVars
<1>7. CASE Compact(t)
  BY <1>7 DEF Compact, kvVars
<1>8. CASE CompactGet(t)
  BY <1>8 DEF CompactGet, kvVars
<1>9. CASE CompactRead(t)
  BY <1>9 DEF CompactRead, kvVars
<1>10. CASE PullSeq(t)
  BY <1>10 DEF PullSeq, kvVars
<1>11. CASE SeqRead(t)
  BY <1>11 DEF SeqRead, kvVars
<1>12. CASE GetStart(t)
  BY <1>12 DEF GetStart, kvVars
<1>13. CASE ReadBatches(t)
  BY <1>13 DEF ReadBatches, kvVars
<1>14. CASE RemoveExists(t)
  BY <1>14 DEF RemoveExists, kvVars
<1>15. CASE GcPicks(t)
  BY <1>15 DEF GcPicks, kvVars
<1>16. CASE Expire(t)
  BY <1>16 DEF Expire, kvVars
<1> QED BY <1>1, <1>2, <1>3, <1>4, <1>5, <1>6, <1>7, <1>8, <1>9, <1>10, <1>11, <1>12, <1>13, <1>14, <1>15, <1>16 DEF TaskAction

LEMMA StoreStaysTyped ==
  ASSUME StoreTyped, TasksTyped, ChecksHold, [Next]_vars
  PROVE  StoreTyped'
<1>1. ASSUME NEW t \in Task, CreateWrite(t) PROVE StoreTyped'
  BY <1>1, CreateWriteEffect DEF StoreTyped, CreateWrite
<1>2. ASSUME NEW t \in Task, PushWrite(t) PROVE StoreTyped'
  BY <1>2, PushWriteEffect DEF StoreTyped, PushWrite
<1>3. ASSUME NEW t \in Task, CompactWrite(t) PROVE StoreTyped'
  BY <1>3, CompactWriteEffect DEF StoreTyped, CompactWrite
<1>4. ASSUME NEW t \in Task, RemoveClear(t) PROVE StoreTyped'
  BY <1>4, RemoveClearEffect DEF StoreTyped
<1>5. CASE UNCHANGED kvVars
  BY <1>5 DEF StoreTyped, kvVars
<1>6. CASE Deliver \/ AllDone \/ UNCHANGED vars
  BY <1>5, <1>6 DEF Deliver, AllDone, vars
<1> QED BY <1>1, <1>2, <1>3, <1>4, <1>5, <1>6, ReadersLeaveStore DEF Next, TaskAction

LEMMA PubsubStaysTyped ==
  ASSUME PubsubTyped, TasksTyped, [Next]_vars
  PROVE  PubsubTyped'
<1> USE DEF PubsubTyped
<1>1. ASSUME NEW t \in Task, Publish(t), id[t] \in Id PROVE publishing' \in Seq(Message)
  BY <1>1 DEF Publish, Message
<1>2. ASSUME NEW t \in Task, pc[t] \in {"createWrite", "pushWrite", "listen"} PROVE id[t] \in Id
  <2>1. op[t] \notin {"remove", "gc"}
    BY <1>2, OpAssumption DEF TasksTyped, Steps, Creates, Edits, Compactions, Pulls, Reads, Removals
  <2> QED BY <2>1 DEF TasksTyped
<1>3. CASE UNCHANGED <<pubsubVars, publishing>>
  BY <1>3 DEF pubsubVars
<1>4. ASSUME NEW t \in Task, TaskAction(t) PROVE PubsubTyped'
  <2>1. CASE Listen(t)
    BY <2>1, <1>2 DEF Listen, At, Subscribed
  <2>2. CASE Leave(t)
    BY <2>2 DEF Leave
  <2>3. CASE CreateWrite(t)
    BY <2>3, <1>1, <1>2 DEF CreateWrite, At, pubsubVars
  <2>4. CASE PushWrite(t)
    BY <2>4, <1>1, <1>2 DEF PushWrite, At, pubsubVars
  <2>5. CASE Create(t)
    BY <2>5, <1>3 DEF Create, Silent
  <2>6. CASE CreateCheck(t)
    BY <2>6, <1>3 DEF CreateCheck, Silent
  <2>7. CASE EditGet(t)
    BY <2>7, <1>3 DEF EditGet, Silent
  <2>8. CASE PushCheck(t)
    BY <2>8, <1>3 DEF PushCheck, Silent
  <2>9. CASE Compact(t)
    BY <2>9, <1>3 DEF Compact, Silent
  <2>10. CASE CompactGet(t)
    BY <2>10, <1>3 DEF CompactGet, Silent
  <2>11. CASE CompactRead(t)
    BY <2>11, <1>3 DEF CompactRead, Silent
  <2>12. CASE CompactWrite(t)
    BY <2>12, <1>3 DEF CompactWrite, Silent
  <2>13. CASE PullSeq(t)
    BY <2>13, <1>3 DEF PullSeq, Silent
  <2>14. CASE SeqRead(t)
    BY <2>14, <1>3 DEF SeqRead, Silent
  <2>15. CASE GetStart(t)
    BY <2>15, <1>3 DEF GetStart, Silent
  <2>16. CASE ReadBatches(t)
    BY <2>16, <1>3 DEF ReadBatches, Silent
  <2>17. CASE RemoveExists(t)
    BY <2>17, <1>3 DEF RemoveExists, Silent
  <2>18. CASE RemoveClear(t)
    BY <2>18, <1>3 DEF RemoveClear, Silent
  <2>19. CASE GcPicks(t)
    BY <2>19, <1>3 DEF GcPicks, Silent
  <2>20. CASE Expire(t)
    BY <2>20, <1>3 DEF Expire, Silent
  <2> QED BY <1>4, <2>1, <2>2, <2>3, <2>4, <2>5, <2>6, <2>7, <2>8, <2>9, <2>10, <2>11, <2>12, <2>13, <2>14, <2>15, <2>16, <2>17, <2>18, <2>19, <2>20 DEF TaskAction
<1>5. CASE Deliver
  <2>1. publishing # <<>> /\ publishing' = Tail(publishing) /\ UNCHANGED <<observers, left>>
    BY <1>5 DEF Deliver
  <2>2. publishing' \in Seq(Message) /\ Head(publishing) \in Message
    BY <2>1
  <2>3. heard' = [t \in Task |-> heard[t] \cup
          (IF t \in observers[Head(publishing).block] THEN {Head(publishing).patch} ELSE {})]
    BY <1>5 DEF Deliver
  <2>4. Head(publishing).patch \in Task
    BY <2>2 DEF Message
  <2>5. heard' \in [Task -> SUBSET Task]
    BY <2>3, <2>4
  <2> QED BY <2>1, <2>2, <2>5
<1>6. CASE AllDone \/ UNCHANGED vars
  BY <1>3, <1>6 DEF AllDone, vars
<1> QED BY <1>4, <1>5, <1>6 DEF Next, TaskAction

(* What a step makes of its own task.                                       *)
Moved(t) ==
  /\ op' = op
  /\ id' = [id EXCEPT ![t] = id'[t]] /\ pc' = [pc EXCEPT ![t] = pc'[t]]
  /\ frame' = [frame EXCEPT ![t] = frame'[t]]
  /\ outcome' = [outcome EXCEPT ![t] = outcome'[t]]
  /\ op[t] \notin {"remove", "gc"} => id'[t] = id[t]
  /\ pc'[t] \in Steps(op[t])
  /\ frame'[t] \in Frame(frame'[t].todo)
  /\ outcome'[t] \in Outcome

LEMMA MoveKeepsTasksTyped ==
  ASSUME TasksTyped, NEW t \in Task, Moved(t)
  PROVE  TasksTyped'
BY DEF TasksTyped, Moved

(* Frames are updated field by field.                                       *)
LEMMA FrameUpdates ==
  ASSUME NEW f, f \in Frame(f.todo),
         NEW seq \in Nat \cup {-1}, NEW blob \in SUBSET Task, NEW read \in SUBSET Batch
  PROVE  /\ [f EXCEPT !.seq = seq, !.blob = blob] \in Frame(f.todo)
         /\ [f EXCEPT !.from = seq, !.blob = blob] \in Frame(f.todo)
         /\ [f EXCEPT !.read = read, !.blob = blob] \in Frame(f.todo)
         /\ [f EXCEPT !.blob = blob] \in Frame(f.todo)
         /\ \A last \in Nat \cup {-1} : [f EXCEPT !.seq = seq, !.last = last] \in Frame(f.todo)
         /\ \A todo : [f EXCEPT !.todo = todo] \in Frame(todo)
BY DEF Frame

LEMMA FrameFields ==
  ASSUME NEW f, NEW todo, f \in Frame(todo)
  PROVE  /\ f.seq \in Nat \cup {-1} /\ f.last \in Nat \cup {-1} /\ f.from \in Nat \cup {-1}
         /\ f.read \subseteq Batch /\ f.blob \subseteq Task /\ f.todo = todo
BY DEF Frame

LEMMA BlockFields ==
  ASSUME StoreTyped, NEW b \in Id
  PROVE  /\ kv[b].start # NoSnapshot =>
              kv[b].start.seq \in Nat \cup {-1} /\ kv[b].start.blob \subseteq Task
         /\ kv[b].end # NoSnapshot =>
              kv[b].end.seq \in Nat \cup {-1} /\ kv[b].end.blob \subseteq Task
         /\ kv[b].batches \subseteq Batch
         /\ \A min, max : Batches(b, min, max) \subseteq Batch /\ Patches(Batches(b, min, max)) \subseteq Task
         /\ \A x \in kv[b].batches : x.seq \in Nat /\ x.patch \in Task
<1>1. kv[b] \in Block
  BY DEF StoreTyped
<1> QED BY <1>1 DEF Block, Snapshot, Batch, Batches, Patches

LEMMA TasksMove ==
  ASSUME StoreTyped, TasksTyped, NEW t \in Task, TaskAction(t)
  PROVE  Moved(t)
<1>1. op[t] \in Op /\ pc[t] \in Steps(op[t]) /\ frame[t] \in Frame(frame[t].todo)
      /\ outcome[t] \in Outcome
      /\ (op[t] \notin {"remove", "gc"} => id[t] \in Id)
  BY DEF TasksTyped
<1>2. /\ DOMAIN id = Task /\ id = [u \in Task |-> id[u]]
      /\ DOMAIN pc = Task /\ pc = [u \in Task |-> pc[u]]
      /\ DOMAIN frame = Task /\ frame = [u \in Task |-> frame[u]]
      /\ outcome \in [Task -> Outcome]
  BY DEF TasksTyped
<1>3. op[t] \in {"create", "createWith", "edit", "pull", "follow", "remove", "gc"}
  BY <1>1, OpAssumption
<1>a. ASSUME NEW rec, Remember(t, rec), rec \in Frame(rec.todo)
      PROVE  frame' = [frame EXCEPT ![t] = frame'[t]] /\ frame'[t] \in Frame(frame'[t].todo)
  BY <1>a, <1>2 DEF Remember
<1>b. ASSUME id[t] \in Id, NEW seq \in Nat \cup {-1}, NEW blob \in SUBSET Task, NEW read \in SUBSET Batch
      PROVE  \/ Remember(t, [frame[t] EXCEPT !.seq = seq, !.blob = blob])
             \/ Remember(t, [frame[t] EXCEPT !.from = seq, !.blob = blob])
             \/ Remember(t, [frame[t] EXCEPT !.read = read, !.blob = blob])
             \/ Remember(t, [frame[t] EXCEPT !.blob = blob])
             \/ \E last \in Nat \cup {-1} : Remember(t, [frame[t] EXCEPT !.seq = seq, !.last = last])
             => frame' = [frame EXCEPT ![t] = frame'[t]] /\ frame'[t] \in Frame(frame'[t].todo)
  <2>1. ASSUME NEW rec \in Frame(frame[t].todo), Remember(t, rec)
        PROVE  frame' = [frame EXCEPT ![t] = frame'[t]] /\ frame'[t] \in Frame(frame'[t].todo)
    <3>1. rec \in Frame(rec.todo)
      BY FrameFields
    <3> QED BY <2>1, <3>1, <1>a
  <2> HIDE DEF Remember
  <2> QED BY <2>1, <1>1, FrameUpdates
<1>c. frame[t].blob \subseteq Task /\ frame[t].seq \in Nat \cup {-1} /\ t \in Task
  BY <1>1, FrameFields
<1> USE DEF Moved, At, Goto, Answer, Steps, Creates, Edits, Compactions, Pulls, Reads,
            Removals, Outcome
<1>4. CASE Listen(t)
  BY <1>1, <1>2, <1>3, <1>4 DEF Listen, Frame
<1>5. CASE Leave(t)
  BY <1>1, <1>2, <1>3, <1>5 DEF Leave, Frame
<1>6. CASE Create(t)
  BY <1>1, <1>2, <1>3, <1>6 DEF Create, Frame
<1>7. CASE CreateCheck(t)
  BY <1>1, <1>2, <1>3, <1>7 DEF CreateCheck, Frame
<1>8. CASE CreateWrite(t)
  BY <1>1, <1>2, <1>3, <1>8 DEF CreateWrite, Frame
<1>9. CASE EditGet(t)
  <2>1. op[t] = "edit" /\ id[t] \in Id /\ op' = op /\ id' = id /\ (pc'[t] \in Steps(op[t]))
        /\ pc' = [pc EXCEPT ![t] = pc'[t]] /\ outcome' = [outcome EXCEPT ![t] = outcome'[t]]
        /\ outcome'[t] \in Outcome /\ id' = [id EXCEPT ![t] = id'[t]]
    BY <1>1, <1>2, <1>3, <1>9 DEF EditGet
  <2>2. frame' = [frame EXCEPT ![t] = frame'[t]] /\ frame'[t] \in Frame(frame'[t].todo)
    <3>1. CASE kv[id[t]].end = NoSnapshot
      BY <3>1, <1>9, <1>1, <1>2 DEF EditGet
    <3>2. CASE kv[id[t]].end # NoSnapshot
      <4>1. kv[id[t]].end.seq + 1 \in Nat \cup {-1} /\ kv[id[t]].end.blob \cup {t} \in SUBSET Task
        BY <2>1, <3>2, BlockFields
      <4>2. Remember(t, [frame[t] EXCEPT !.seq = kv[id[t]].end.seq + 1, !.blob = kv[id[t]].end.blob \cup {t}])
        BY <3>2, <1>9 DEF EditGet
      <4> QED BY <2>1, <4>1, <4>2, <1>b
    <3> QED BY <3>1, <3>2
  <2> QED BY <2>1, <2>2
<1>10. CASE PushCheck(t)
  BY <1>1, <1>2, <1>3, <1>10 DEF PushCheck, Frame
<1>11. CASE PushWrite(t)
  BY <1>1, <1>2, <1>3, <1>11 DEF PushWrite, Frame
<1>12. CASE Compact(t)
  BY <1>1, <1>2, <1>3, <1>12 DEF Compact, Frame
<1>13. CASE CompactGet(t)
  <2>1. op[t] = "edit" /\ id[t] \in Id /\ op' = op /\ id' = id /\ (pc'[t] \in Steps(op[t]))
        /\ pc' = [pc EXCEPT ![t] = pc'[t]] /\ outcome' = [outcome EXCEPT ![t] = outcome'[t]]
        /\ outcome'[t] \in Outcome /\ id' = [id EXCEPT ![t] = id'[t]]
    BY <1>1, <1>2, <1>3, <1>13 DEF CompactGet
  <2>2. frame' = [frame EXCEPT ![t] = frame'[t]] /\ frame'[t] \in Frame(frame'[t].todo)
    <3>1. CASE frame' = frame
      BY <3>1, <1>1, <1>2
    <3>2. CASE frame' # frame
      <4>1. /\ kv[id[t]].start # NoSnapshot
            /\ Remember(t, [frame[t] EXCEPT !.from = kv[id[t]].start.seq, !.blob = kv[id[t]].start.blob])
        BY <3>2, <1>13 DEF CompactGet
      <4>2. kv[id[t]].start.seq \in Nat \cup {-1} /\ kv[id[t]].start.blob \in SUBSET Task
        BY <2>1, <4>1, BlockFields
      <4> QED BY <2>1, <4>1, <4>2, <1>b
    <3> QED BY <3>1, <3>2
  <2> QED BY <2>1, <2>2
<1>14. CASE CompactRead(t)
  <2>1. op[t] = "edit" /\ id[t] \in Id /\ op' = op /\ id' = id /\ (pc'[t] \in Steps(op[t]))
        /\ pc' = [pc EXCEPT ![t] = pc'[t]] /\ outcome' = [outcome EXCEPT ![t] = outcome'[t]]
        /\ outcome'[t] \in Outcome /\ id' = [id EXCEPT ![t] = id'[t]]
    BY <1>1, <1>2, <1>3, <1>14 DEF CompactRead
  <2>2. frame' = [frame EXCEPT ![t] = frame'[t]] /\ frame'[t] \in Frame(frame'[t].todo)
    <3> DEFINE read == Batches(id[t], frame[t].from + 1, To(t))
    <3>1. Remember(t, [frame[t] EXCEPT !.read = read, !.blob = frame[t].blob \cup Patches(read)])
      BY <1>14 DEF CompactRead
    <3>2. read \in SUBSET Batch /\ frame[t].blob \cup Patches(read) \in SUBSET Task
      BY <2>1, <1>c, BlockFields
    <3> QED BY <2>1, <3>1, <3>2, <1>b
  <2> QED BY <2>1, <2>2
<1>15. CASE CompactWrite(t)
  BY <1>1, <1>2, <1>3, <1>15 DEF CompactWrite, Frame
<1>16. CASE PullSeq(t)
  BY <1>1, <1>2, <1>3, <1>16 DEF PullSeq, Frame
<1>17. CASE SeqRead(t)
  <2>1. op[t] \in {"pull", "follow"} /\ id[t] \in Id /\ op' = op /\ id' = id /\ (pc'[t] \in Steps(op[t]))
        /\ pc' = [pc EXCEPT ![t] = pc'[t]] /\ outcome' = [outcome EXCEPT ![t] = outcome'[t]]
        /\ outcome'[t] \in Outcome /\ id' = [id EXCEPT ![t] = id'[t]]
    BY <1>1, <1>2, <1>3, <1>17 DEF SeqRead
  <2>2. frame' = [frame EXCEPT ![t] = frame'[t]] /\ frame'[t] \in Frame(frame'[t].todo)
    <3>1. CASE frame' = frame
      BY <3>1, <1>1, <1>2
    <3>2. CASE frame' # frame
      <4>1. PICK seq \in {x.seq : x \in kv[id[t]].batches} : \E last \in -1 .. seq :
              Remember(t, [frame[t] EXCEPT !.seq = seq, !.last = last])
        BY <3>2, <1>17 DEF SeqRead
      <4>2. seq \in Nat
        BY <2>1, BlockFields
      <4>3. seq \in Nat \cup {-1} /\ -1 .. seq \subseteq Nat \cup {-1}
        BY <4>2
      <4> QED BY <2>1, <4>1, <4>3, <1>b
    <3> QED BY <3>1, <3>2
  <2> QED BY <2>1, <2>2
<1>18. CASE GetStart(t)
  <2>1. op[t] \in {"pull", "follow"} /\ id[t] \in Id /\ op' = op /\ id' = id /\ (pc'[t] \in Steps(op[t]))
        /\ pc' = [pc EXCEPT ![t] = pc'[t]] /\ outcome' = [outcome EXCEPT ![t] = outcome'[t]]
        /\ outcome'[t] \in Outcome /\ id' = [id EXCEPT ![t] = id'[t]]
    BY <1>1, <1>2, <1>3, <1>18 DEF GetStart
  <2>2. frame' = [frame EXCEPT ![t] = frame'[t]] /\ frame'[t] \in Frame(frame'[t].todo)
    <3>1. CASE kv[id[t]].start = NoSnapshot
      BY <3>1, <1>18, <1>1, <1>2 DEF GetStart
    <3>2. CASE kv[id[t]].start # NoSnapshot
      <4>1. Remember(t, [frame[t] EXCEPT !.from = kv[id[t]].start.seq, !.blob = kv[id[t]].start.blob])
        BY <3>2, <1>18 DEF GetStart
      <4>2. kv[id[t]].start.seq \in Nat \cup {-1} /\ kv[id[t]].start.blob \in SUBSET Task
        BY <2>1, <3>2, BlockFields
      <4> QED BY <2>1, <4>1, <4>2, <1>b
    <3> QED BY <3>1, <3>2
  <2> QED BY <2>1, <2>2
<1>19. CASE ReadBatches(t)
  <2>1. op[t] \in {"pull", "follow"} /\ id[t] \in Id /\ op' = op /\ id' = id /\ (pc'[t] \in Steps(op[t]))
        /\ pc' = [pc EXCEPT ![t] = pc'[t]] /\ outcome' = [outcome EXCEPT ![t] = outcome'[t]]
        /\ outcome'[t] \in Outcome /\ id' = [id EXCEPT ![t] = id'[t]]
    BY <1>1, <1>2, <1>3, <1>19 DEF ReadBatches
  <2>2. frame' = [frame EXCEPT ![t] = frame'[t]] /\ frame'[t] \in Frame(frame'[t].todo)
    <3> DEFINE after == IF pc[t] = "scan" THEN frame[t].last ELSE frame[t].from
               blob == frame[t].blob \cup Patches(Batches(id[t], after + 1, frame[t].seq))
    <3>1. Remember(t, [frame[t] EXCEPT !.blob = blob])
      BY <1>19 DEF ReadBatches
    <3>2. blob \in SUBSET Task
      BY <2>1, <1>c, BlockFields
    <3> QED BY <2>1, <3>1, <3>2, <1>b
  <2> QED BY <2>1, <2>2
<1>20. CASE RemoveExists(t)
  <2>1. op[t] \in {"remove", "gc"} /\ op' = op /\ id' = [id EXCEPT ![t] = id'[t]]
    BY <1>1, <1>2, <1>3, <1>20 DEF RemoveExists
  <2>2. frame' = [frame EXCEPT ![t] = frame'[t]] /\ frame'[t] \in Frame(frame'[t].todo)
    BY <1>1, <1>2, <1>20 DEF RemoveExists, Remember, Frame
  <2>3. \/ pc' = [pc EXCEPT ![t] = "clear"] /\ outcome' = outcome
        \/ pc' = [pc EXCEPT ![t] = "exists"] /\ outcome' = outcome
        \/ pc' = [pc EXCEPT ![t] = "done"] /\ outcome' = [outcome EXCEPT ![t] = "ok"]
    BY <1>20 DEF RemoveExists
  <2> QED BY <2>1, <2>2, <2>3, <1>1, <1>2
<1>21. CASE RemoveClear(t)
  <2>1. op[t] \in {"remove", "gc"} /\ op' = op /\ id' = id /\ frame' = frame
    BY <1>1, <1>3, <1>21 DEF RemoveClear
  <2>2. \/ pc' = [pc EXCEPT ![t] = "exists"] /\ outcome' = outcome
        \/ pc' = [pc EXCEPT ![t] = "done"] /\ outcome' = [outcome EXCEPT ![t] = "ok"]
    BY <1>21 DEF RemoveClear
  <2> QED BY <2>1, <2>2, <1>1, <1>2
<1>22. CASE GcPicks(t)
  BY <1>1, <1>2, <1>3, <1>22 DEF GcPicks, Remember, Frame
<1>23. CASE Expire(t)
  BY <1>1, <1>2, <1>3, <1>23 DEF Expire, Frame
<1> QED BY <1>4, <1>5, <1>6, <1>7, <1>8, <1>9, <1>10, <1>11, <1>12, <1>13, <1>14, <1>15, <1>16, <1>17, <1>18, <1>19, <1>20, <1>21, <1>22, <1>23 DEF TaskAction

-----------------------------------------------------------------------------
(* The locks that tasks need, before and after a step.                      *)
Holding == {"createCheck", "createWrite", "push", "pushWrite", "seqRead", "clear"}
Truncating == {"compactGet", "compactRead", "compactWrite"}

LEMMA LockedByStep ==
  ASSUME NEW t
  PROVE  /\ pc[t] \in Holding => Locked(t) = {<<id[t], "">>}
         /\ pc[t] \in Truncating => Locked(t) = {<<id[t], ".trunc">>}
         /\ pc[t] \notin Holding \cup Truncating => Locked(t) = {}
BY DEF Locked, Lock, TruncLock, Holding, Truncating

LEMMA LockedByStepNext ==
  ASSUME NEW t
  PROVE  /\ pc'[t] \in Holding => Locked(t)' = {<<id'[t], "">>}
         /\ pc'[t] \in Truncating => Locked(t)' = {<<id'[t], ".trunc">>}
         /\ pc'[t] \notin Holding \cup Truncating => Locked(t)' = {}
BY DEF Locked, Lock, TruncLock, Holding, Truncating

LEMMA WaitingIs ==
  ASSUME queue \in [DOMAIN queue -> Seq(Task)]
  PROVE  \A t : Waiting(t) <=> Waits(queue, t)
<1>1. \A key \in DOMAIN queue : DOMAIN queue[key] = 1 .. Len(queue[key])
  OBVIOUS
<1> QED BY <1>1 DEF Waiting, Waits, Range

LEMMA WaitingIsNext ==
  ASSUME queue' \in [DOMAIN queue' -> Seq(Task)]
  PROVE  \A t : Waiting(t)' <=> Waits(queue', t)
<1>1. \A key \in DOMAIN queue' : DOMAIN queue'[key] = 1 .. Len(queue'[key])
  OBVIOUS
<1> QED BY <1>1 DEF Waiting, Waits, Range

(* The three ways a step treats the locks: it leaves them alone, or it asks *)
(* for one, or it gives up the one it runs under.                           *)
LEMMA StayStep ==
  ASSUME LocksOK, queue' = queue, \A u \in Task : Locked(u)' = Locked(u)
  PROVE  LocksOK' /\ \A u \in Task : Waiting(u)' <=> Waiting(u)
<1>1. Locks' = Locks
  BY DEF Locks
<1>2. MutexOK(queue', Locks') = MutexOK(queue, Locks)
  BY <1>1
<1> QED BY <1>2 DEF LocksOK, Waiting

LEMMA AcquireStep ==
  ASSUME LocksOK, NEW t \in Task, NEW key, Acquire(key, t),
         Locked(t) = {}, Locked(t)' = {key}, \A u \in Task \ {t} : Locked(u)' = Locked(u)
  PROVE  LocksOK' /\ \A u \in Task \ {t} : Waiting(u)' <=> Waiting(u)
<1>1. MutexOK(queue, Locks) /\ Locks[t] = {}
  BY DEF LocksOK, Locks
<1>2. Locks' = [Locks EXCEPT ![t] = {key}]
  BY DEF Locks
<1>3. Acquired(queue, queue', key, t)
  BY DEF Acquire, Taken, Acquired
<1>4. MutexOK(queue', Locks') /\ \A u \in Task \ {t} : Waits(queue', u) <=> Waits(queue, u)
  BY <1>1, <1>2, <1>3, AcquireKeepsMutex
<1>5. queue \in [DOMAIN queue -> Seq(Task)] /\ queue' \in [DOMAIN queue' -> Seq(Task)]
  BY <1>1, <1>4 DEF MutexOK
<1> QED BY <1>4, <1>5, WaitingIs, WaitingIsNext DEF LocksOK

LEMMA ReleaseStep ==
  ASSUME LocksOK, NEW t \in Task, ~Waiting(t), NEW key, Release(key),
         Locked(t) = {key}, Locked(t)' = {}, \A u \in Task \ {t} : Locked(u)' = Locked(u)
  PROVE  LocksOK' /\ ~Waiting(t)' /\ \A u \in Task : Waiting(u)' => Waiting(u)
<1>1. MutexOK(queue, Locks) /\ queue \in [DOMAIN queue -> Seq(Task)]
  BY DEF LocksOK, MutexOK
<1>2. Locks' = [Locks EXCEPT ![t] = {}] /\ Runs(queue, Locks, key, t)
  BY <1>1, WaitingIs DEF Locks, Runs
<1>3. \/ queue[key] = <<>> /\ queue' = [k \in DOMAIN queue \ {key} |-> queue[k]]
      \/ queue[key] # <<>> /\ queue' = [queue EXCEPT ![key] = Tail(@)]
  BY DEF Release, Restrict
<1>4. /\ MutexOK(queue', Locks') /\ ~Waits(queue', t)
      /\ \A u \in Task : Waits(queue', u) => Waits(queue, u)
  BY <1>1, <1>2, <1>3, ReleaseKeepsMutex
<1>5. queue' \in [DOMAIN queue' -> Seq(Task)]
  BY <1>4 DEF MutexOK
<1> QED BY <1>1, <1>4, <1>5, WaitingIs, WaitingIsNext DEF LocksOK

(* At most one task runs under a lock.                                      *)
LEMMA MutualExclusion ==
  ASSUME LocksOK, NEW t \in Task, NEW u \in Task, NEW key,
         Locked(t) = {key}, Locked(u) = {key}, ~Waiting(t), ~Waiting(u)
  PROVE  t = u
<1>1. MutexOK(queue, Locks) /\ queue \in [DOMAIN queue -> Seq(Task)]
  BY DEF LocksOK, MutexOK
<1>2. ~Waits(queue, t) /\ ~Waits(queue, u)
  BY <1>1, WaitingIs
<1>3. Locks[t] = {key} /\ Locks[u] = {key}
  BY DEF Locks
<1>4. Runs(queue, Locks, key, t) /\ Runs(queue, Locks, key, u)
  BY <1>2, <1>3 DEF Runs
<1>5. key \in DOMAIN queue
  BY <1>1, <1>3 DEF MutexOK
<1> QED BY <1>1, <1>4, <1>5 DEF MutexOK

LEMMA OthersKeepLocks ==
  ASSUME TasksTyped, NEW t \in Task, TaskAction(t), NEW u \in Task, u # t
  PROVE  Locked(u)' = Locked(u)
BY OthersStay DEF Same, Locked, Lock, TruncLock

Stays(t) == queue' = queue /\ Locked(t)' = Locked(t)
Acquires(t) == \E key : Acquire(key, t) /\ Locked(t) = {} /\ Locked(t)' = {key}
Releases(t) == \E key : Release(key) /\ ~Waiting(t) /\ Locked(t) = {key} /\ Locked(t)' = {}

LEMMA StepsAndLocks ==
  ASSUME TasksTyped, NEW t \in Task, TaskAction(t)
  PROVE  Stays(t) \/ Acquires(t) \/ Releases(t)
<1>1. /\ DOMAIN id = Task /\ DOMAIN pc = Task
      /\ pc = [u \in Task |-> pc[u]] /\ id = [u \in Task |-> id[u]]
  BY DEF TasksTyped
<1>2. ASSUME pc[t] \in Holding, pc'[t] \notin Holding \cup Truncating, ~Waiting(t), Release(Lock(t))
      PROVE  Releases(t)
  BY <1>2, LockedByStep, LockedByStepNext DEF Releases, Lock
<1>3. ASSUME pc[t] \in Truncating, pc'[t] \notin Holding \cup Truncating, ~Waiting(t),
             Release(TruncLock(t))
      PROVE  Releases(t)
  BY <1>3, LockedByStep, LockedByStepNext DEF Releases, TruncLock
<1>4. ASSUME pc[t] \notin Holding \cup Truncating, pc'[t] \in Holding, id'[t] = id[t],
             Acquire(Lock(t), t)
      PROVE  Acquires(t)
  BY <1>4, LockedByStep, LockedByStepNext DEF Acquires, Lock
<1>5. ASSUME pc[t] \notin Holding \cup Truncating, pc'[t] \in Truncating, id'[t] = id[t],
             Acquire(TruncLock(t), t)
      PROVE  Acquires(t)
  BY <1>5, LockedByStep, LockedByStepNext DEF Acquires, TruncLock
<1>6. ASSUME queue' = queue, id'[t] = id[t],
             \/ pc[t] \in Holding /\ pc'[t] \in Holding
             \/ pc[t] \in Truncating /\ pc'[t] \in Truncating
             \/ pc[t] \notin Holding \cup Truncating /\ pc'[t] \notin Holding \cup Truncating
      PROVE  Stays(t)
  BY <1>6, LockedByStep, LockedByStepNext DEF Stays
<1> USE DEF At, Goto, Answer, Holding, Truncating
<1>7. CASE Listen(t)
  <2>1. /\ pc[t] \notin Holding \cup Truncating /\ pc'[t] \notin Holding \cup Truncating
        /\ queue' = queue /\ id'[t] = id[t]
    BY <1>7, <1>1 DEF Listen
  <2> QED BY <2>1, <1>6
<1>8. CASE Leave(t)
  <2>1. pc'[t] = pc[t] /\ queue' = queue /\ id'[t] = id[t]
    BY <1>8 DEF Leave
  <2> QED BY <2>1, <1>6
<1>9. CASE Create(t)
  <2>1. /\ pc[t] \notin Holding \cup Truncating /\ pc'[t] \in Holding /\ id'[t] = id[t]
        /\ Acquire(Lock(t), t)
    BY <1>9, <1>1 DEF Create
  <2> QED BY <2>1, <1>4
<1>10. CASE CreateCheck(t)
  <2>1. \/ pc[t] \in Holding /\ pc'[t] \in Holding /\ queue' = queue /\ id'[t] = id[t]
        \/ pc[t] \in Holding /\ pc'[t] \notin Holding \cup Truncating /\ ~Waiting(t) /\ Release(Lock(t))
    BY <1>10, <1>1 DEF CreateCheck
  <2> QED BY <2>1, <1>2, <1>6
<1>11. CASE CreateWrite(t)
  <2>1. pc[t] \in Holding /\ pc'[t] \notin Holding \cup Truncating /\ ~Waiting(t) /\ Release(Lock(t))
    BY <1>11, <1>1 DEF CreateWrite
  <2> QED BY <2>1, <1>2
<1>12. CASE EditGet(t)
  <2>1. \/ /\ pc[t] \notin Holding \cup Truncating /\ pc'[t] \notin Holding \cup Truncating
           /\ queue' = queue /\ id'[t] = id[t]
        \/ /\ pc[t] \notin Holding \cup Truncating /\ pc'[t] \in Holding /\ id'[t] = id[t]
           /\ Acquire(Lock(t), t)
    BY <1>12, <1>1 DEF EditGet
  <2> QED BY <2>1, <1>4, <1>6
<1>13. CASE PushCheck(t)
  <2>1. \/ pc[t] \in Holding /\ pc'[t] \in Holding /\ queue' = queue /\ id'[t] = id[t]
        \/ pc[t] \in Holding /\ pc'[t] \notin Holding \cup Truncating /\ ~Waiting(t) /\ Release(Lock(t))
    BY <1>13, <1>1 DEF PushCheck
  <2> QED BY <2>1, <1>2, <1>6
<1>14. CASE PushWrite(t)
  <2>1. pc[t] \in Holding /\ pc'[t] \notin Holding \cup Truncating /\ ~Waiting(t) /\ Release(Lock(t))
    BY <1>14, <1>1 DEF PushWrite
  <2> QED BY <2>1, <1>2
<1>15. CASE Compact(t)
  <2>1. /\ pc[t] \notin Holding \cup Truncating /\ pc'[t] \in Truncating /\ id'[t] = id[t]
        /\ Acquire(TruncLock(t), t)
    BY <1>15, <1>1 DEF Compact
  <2> QED BY <2>1, <1>5
<1>16. CASE CompactGet(t)
  <2>1. \/ pc[t] \in Truncating /\ pc'[t] \in Truncating /\ queue' = queue /\ id'[t] = id[t]
        \/ /\ pc[t] \in Truncating /\ pc'[t] \notin Holding \cup Truncating /\ ~Waiting(t)
           /\ Release(TruncLock(t))
    BY <1>16, <1>1 DEF CompactGet
  <2> QED BY <2>1, <1>3, <1>6
<1>17. CASE CompactRead(t)
  <2>1. pc[t] \in Truncating /\ pc'[t] \in Truncating /\ queue' = queue /\ id'[t] = id[t]
    BY <1>17, <1>1 DEF CompactRead
  <2> QED BY <2>1, <1>6
<1>18. CASE CompactWrite(t)
  <2>1. /\ pc[t] \in Truncating /\ pc'[t] \notin Holding \cup Truncating /\ ~Waiting(t)
        /\ Release(TruncLock(t))
    BY <1>18, <1>1 DEF CompactWrite
  <2> QED BY <2>1, <1>3
<1>19. CASE PullSeq(t)
  <2>1. /\ pc[t] \notin Holding \cup Truncating /\ pc'[t] \in Holding /\ id'[t] = id[t]
        /\ Acquire(Lock(t), t)
    BY <1>19, <1>1 DEF PullSeq
  <2> QED BY <2>1, <1>4
<1>20. CASE SeqRead(t)
  <2>1. pc[t] \in Holding /\ pc'[t] \notin Holding \cup Truncating /\ ~Waiting(t) /\ Release(Lock(t))
    BY <1>20, <1>1 DEF SeqRead
  <2> QED BY <2>1, <1>2
<1>21. CASE GetStart(t)
  <2>1. /\ pc[t] \notin Holding \cup Truncating /\ pc'[t] \notin Holding \cup Truncating
        /\ queue' = queue /\ id'[t] = id[t]
    BY <1>21, <1>1 DEF GetStart
  <2> QED BY <2>1, <1>6
<1>22. CASE ReadBatches(t)
  <2>1. /\ pc[t] \notin Holding \cup Truncating /\ pc'[t] \notin Holding \cup Truncating
        /\ queue' = queue /\ id'[t] = id[t]
    BY <1>22, <1>1 DEF ReadBatches
  <2> QED BY <2>1, <1>6
<1>23. CASE RemoveExists(t)
  <2>1. \/ /\ pc[t] \notin Holding \cup Truncating /\ pc'[t] \notin Holding \cup Truncating
           /\ queue' = queue
        \/ /\ pc[t] \notin Holding \cup Truncating /\ pc'[t] \in Holding
           /\ Acquire(<<id'[t], "">>, t)
    BY <1>23, <1>1 DEF RemoveExists, Lock
  <2>2. CASE pc'[t] \in Holding /\ Acquire(<<id'[t], "">>, t) /\ pc[t] \notin Holding \cup Truncating
    BY <2>2, LockedByStep, LockedByStepNext DEF Acquires
  <2>3. CASE /\ pc[t] \notin Holding \cup Truncating /\ pc'[t] \notin Holding \cup Truncating
             /\ queue' = queue
    BY <2>3, LockedByStep, LockedByStepNext DEF Stays
  <2> QED BY <2>1, <2>2, <2>3
<1>24. CASE RemoveClear(t)
  <2>1. pc[t] \in Holding /\ pc'[t] \notin Holding \cup Truncating /\ ~Waiting(t) /\ Release(Lock(t))
    BY <1>24, <1>1 DEF RemoveClear
  <2> QED BY <2>1, <1>2
<1>25. CASE GcPicks(t)
  <2>1. /\ pc[t] \notin Holding \cup Truncating /\ pc'[t] \notin Holding \cup Truncating
        /\ queue' = queue /\ id'[t] = id[t]
    BY <1>25, <1>1 DEF GcPicks
  <2> QED BY <2>1, <1>6
<1>26. CASE Expire(t)
  <2>1. /\ pc[t] \notin Holding \cup Truncating /\ pc'[t] \notin Holding \cup Truncating
        /\ queue' = queue /\ id'[t] = id[t]
    BY <1>26, <1>1 DEF Expire
  <2> QED BY <2>1, <1>6
<1> QED BY <1>7, <1>8, <1>9, <1>10, <1>11, <1>12, <1>13, <1>14, <1>15, <1>16, <1>17, <1>18, <1>19, <1>20, <1>21, <1>22, <1>23, <1>24, <1>25, <1>26 DEF TaskAction

LEMMA LocksStayOK ==
  ASSUME TasksTyped, LocksOK, NEW t \in Task, TaskAction(t)
  PROVE  /\ LocksOK'
         /\ \A u \in Task \ {t} : Waiting(u)' => Waiting(u)
         /\ Stays(t) /\ ~Waiting(t) => ~Waiting(t)'
<1>1. \A u \in Task \ {t} : Locked(u)' = Locked(u)
  BY OthersKeepLocks
<1>2. CASE Stays(t)
  BY <1>1, <1>2, StayStep DEF Stays
<1>3. CASE Acquires(t)
  <2>1. PICK key : Acquire(key, t) /\ Locked(t) = {} /\ Locked(t)' = {key}
    BY <1>3 DEF Acquires
  <2>2. ~Stays(t)
    BY <2>1 DEF Stays
  <2> QED BY <2>1, <2>2, <1>1, AcquireStep
<1>4. CASE Releases(t)
  <2>1. PICK key : Release(key) /\ ~Waiting(t) /\ Locked(t) = {key} /\ Locked(t)' = {}
    BY <1>4 DEF Releases
  <2> QED BY <2>1, <1>1, ReleaseStep
<1> QED BY <1>2, <1>3, <1>4, StepsAndLocks

-----------------------------------------------------------------------------
(* By which action a task comes to a step.                                  *)
Arrives(t) ==
  /\ pc'[t] = "createWrite" => CreateCheck(t)
  /\ pc'[t] = "push" => EditGet(t)
  /\ pc'[t] = "pushWrite" => PushCheck(t)
  /\ pc'[t] = "compact" => PushWrite(t)
  /\ pc'[t] = "compactGet" => Compact(t)
  /\ pc'[t] = "compactRead" => CompactGet(t)
  /\ pc'[t] = "compactWrite" => CompactRead(t)
  /\ pc'[t] # "listen"
  /\ pc'[t] = "seq" => Listen(t)
  /\ pc'[t] = "seqRead" => PullSeq(t)
  /\ pc'[t] \in {"getStart", "scan"} => SeqRead(t)
  /\ pc'[t] = "getBatches" => GetStart(t)
  /\ pc'[t] = "done" /\ op[t] \in {"pull", "follow"} =>
       SeqRead(t) \/ GetStart(t) \/ ReadBatches(t) \/ Leave(t)

LEMMA Arrivals ==
  ASSUME TasksTyped, NEW t \in Task, TaskAction(t)
  PROVE  Arrives(t)
<1>1. DOMAIN pc = Task /\ pc = [u \in Task |-> pc[u]]
  BY DEF TasksTyped
<1>2. /\ pc[t] \in Creates \cup Edits => op[t] \notin {"pull", "follow"}
      /\ pc[t] \in Removals \cup {"oldest"} => op[t] \notin {"pull", "follow"}
  BY OpAssumption DEF TasksTyped, Steps, Creates, Edits, Compactions, Pulls, Reads, Removals
<1> USE DEF Arrives, At, Goto, Answer, Creates, Edits, Compactions, Removals
<1>3. CASE Listen(t)
  BY <1>1, <1>2, <1>3 DEF Listen
<1>4. CASE Leave(t)
  BY <1>1, <1>2, <1>4 DEF Leave
<1>5. CASE Create(t)
  BY <1>1, <1>2, <1>5 DEF Create
<1>6. CASE CreateCheck(t)
  BY <1>1, <1>2, <1>6 DEF CreateCheck
<1>7. CASE CreateWrite(t)
  BY <1>1, <1>2, <1>7 DEF CreateWrite
<1>8. CASE EditGet(t)
  BY <1>1, <1>2, <1>8 DEF EditGet
<1>9. CASE PushCheck(t)
  BY <1>1, <1>2, <1>9 DEF PushCheck
<1>10. CASE PushWrite(t)
  BY <1>1, <1>2, <1>10 DEF PushWrite
<1>11. CASE Compact(t)
  BY <1>1, <1>2, <1>11 DEF Compact
<1>12. CASE CompactGet(t)
  BY <1>1, <1>2, <1>12 DEF CompactGet
<1>13. CASE CompactRead(t)
  BY <1>1, <1>2, <1>13 DEF CompactRead
<1>14. CASE CompactWrite(t)
  BY <1>1, <1>2, <1>14 DEF CompactWrite
<1>15. CASE PullSeq(t)
  BY <1>1, <1>2, <1>15 DEF PullSeq
<1>16. CASE SeqRead(t)
  BY <1>1, <1>2, <1>16 DEF SeqRead
<1>17. CASE GetStart(t)
  BY <1>1, <1>2, <1>17 DEF GetStart
<1>18. CASE ReadBatches(t)
  BY <1>1, <1>2, <1>18 DEF ReadBatches
<1>19. CASE RemoveExists(t)
  BY <1>1, <1>2, <1>19 DEF RemoveExists
<1>20. CASE RemoveClear(t)
  BY <1>1, <1>2, <1>20 DEF RemoveClear
<1>21. CASE GcPicks(t)
  BY <1>1, <1>2, <1>21 DEF GcPicks
<1>22. CASE Expire(t)
  BY <1>1, <1>2, <1>22 DEF Expire
<1> QED BY <1>3, <1>4, <1>5, <1>6, <1>7, <1>8, <1>9, <1>10, <1>11, <1>12, <1>13, <1>14, <1>15, <1>16, <1>17, <1>18, <1>19, <1>20, <1>21, <1>22 DEF TaskAction

(* What another task has checked of a block under its lock, no step undoes. *)
LEMMA LastKept ==
  ASSUME StoreInv, NEW t \in Task, TaskAction(t), NEW u \in Task \ {t},
         pc[u] \in {"createWrite", "pushWrite"}
  PROVE  kv'[id[u]].end = kv[id[u]].end
<1> USE DEF StoreInv
<1>1. ~Waiting(u) /\ Locked(u) = {<<id[u], "">>} /\ id[u] \in Id
  <2>1. op[u] \notin {"remove", "gc"}
    BY OpAssumption DEF TasksTyped, Steps, Creates, Edits, Compactions, Pulls, Reads, Removals
  <2> QED BY <2>1, LockedByStep DEF ChecksHold, Holding, TasksTyped
<1>2. ASSUME pc[t] \in Holding, ~Waiting(t), id[t] = id[u] PROVE FALSE
  BY <1>1, <1>2, LockedByStep, MutualExclusion
<1>3. CASE CreateWrite(t)
  <2>1. id[t] # id[u]
    BY <1>2, <1>3 DEF CreateWrite, At, Holding
  <2>2. \A c \in Id \ {id[t]} : kv'[c] = kv[c]
    BY <1>3, CreateWriteEffect, ZenonT(40)
  <2> QED BY <1>1, <2>1, <2>2
<1>4. CASE PushWrite(t)
  <2>1. id[t] # id[u]
    BY <1>2, <1>4 DEF PushWrite, At, Holding
  <2>2. \A c \in Id \ {id[t]} : kv'[c] = kv[c]
    BY <1>4, PushWriteEffect
  <2> QED BY <1>1, <2>1, <2>2
<1>5. CASE RemoveClear(t)
  <2>1. id[t] # id[u]
    BY <1>2, <1>5 DEF RemoveClear, At, Holding
  <2>2. \A c \in Id \ {id[t]} : kv'[c] = kv[c]
    BY <1>5, RemoveClearEffect
  <2> QED BY <1>1, <2>1, <2>2
<1>6. CASE CompactWrite(t)
  BY <1>1, <1>6, CompactWriteEffect
<1>7. CASE UNCHANGED kvVars
  BY <1>7 DEF kvVars
<1> QED BY <1>3, <1>4, <1>5, <1>6, <1>7, ReadersLeaveStore

LEMMA ChecksStayValid ==
  ASSUME StoreInv, NEW t \in Task, TaskAction(t)
  PROVE  ChecksHold'
<1> USE DEF StoreInv
<1>1. SUFFICES ASSUME NEW u \in Task
               PROVE  /\ pc'[u] \in {"createWrite", "pushWrite", "compactRead", "compactWrite"} => ~Waiting(u)'
                      /\ pc'[u] = "createWrite" => kv'[id'[u]].end = NoSnapshot
                      /\ pc'[u] \in {"push", "pushWrite"} => frame'[u].seq \in Nat
                      /\ pc'[u] = "pushWrite" =>
                           kv'[id'[u]].end # NoSnapshot /\ kv'[id'[u]].end.seq + 1 = frame'[u].seq
                      /\ pc'[u] \in Compactions => frame'[u].seq - historyPerBlock \in Nat
  BY DEF ChecksHold, NextSeq, To
<1>2. CASE u # t
  <2>1. Same(u) /\ (Waiting(u)' => Waiting(u))
    BY <1>2, OthersStay, LocksStayOK
  <2>2. pc[u] \in {"createWrite", "pushWrite"} => kv'[id[u]].end = kv[id[u]].end
    BY <1>2, LastKept
  <2> QED BY <2>1, <2>2 DEF ChecksHold, Same, NextSeq, To
<1>3. CASE u = t
  <2>1. DOMAIN frame = Task /\ DOMAIN pc = Task /\ frame[t] \in Frame(frame[t].todo)
    BY DEF TasksTyped
  <2>2. Stays(t) /\ ~Waiting(t) => ~Waiting(t)'
    BY LocksStayOK
  <2>3. CASE pc'[t] = "createWrite"
    <3>1. CreateCheck(t)
      BY <2>3, Arrivals DEF Arrives
    <3>2. /\ pc[t] = "createCheck" /\ ~Waiting(t) /\ queue' = queue /\ id' = id /\ kv' = kv
          /\ kv[id[t]].end = NoSnapshot
      BY <2>1, <2>3, <3>1 DEF CreateCheck, At, Goto, Answer, kvVars
    <3>3. Stays(t)
      BY <2>3, <3>2, LockedByStep, LockedByStepNext DEF Stays, Holding
    <3> QED BY <1>3, <2>2, <2>3, <3>2, <3>3 DEF Compactions
  <2>4. CASE pc'[t] = "push"
    <3>1. EditGet(t)
      BY <2>4, Arrivals DEF Arrives
    <3>2. /\ kv[id[t]].end # NoSnapshot
          /\ frame' = [frame EXCEPT ![t] = [frame[t] EXCEPT
               !.seq = kv[id[t]].end.seq + 1, !.blob = kv[id[t]].end.blob \cup {t}]]
      BY <2>1, <2>4, <3>1 DEF EditGet, At, Goto, Answer, Remember
    <3>3. frame'[t].seq = kv[id[t]].end.seq + 1
      BY <2>1, <3>2 DEF Frame
    <3>4. id[t] \in Id
      <4>1. op[t] = "edit"
        BY <3>1, OpAssumption DEF EditGet, At, TasksTyped, Steps, Creates, Edits, Compactions, Pulls, Reads, Removals
      <4> QED BY <4>1 DEF TasksTyped
    <3>5. kv[id[t]].end.seq \in Nat \cup {-1}
      BY <3>2, <3>4, BlockFields
    <3> QED BY <1>3, <2>4, <3>3, <3>5 DEF Compactions
  <2>5. CASE pc'[t] = "pushWrite"
    <3>1. PushCheck(t)
      BY <2>5, Arrivals DEF Arrives
    <3>2. /\ pc[t] = "push" /\ ~Waiting(t) /\ queue' = queue /\ id' = id /\ kv' = kv /\ frame' = frame
          /\ kv[id[t]].end # NoSnapshot /\ NextSeq(id[t], frame[t].seq)
      BY <2>1, <2>5, <3>1 DEF PushCheck, At, Goto, Answer, kvVars
    <3>3. Stays(t)
      BY <2>5, <3>2, LockedByStep, LockedByStepNext DEF Stays, Holding
    <3>4. frame[t].seq \in Nat
      BY <3>2 DEF ChecksHold
    <3> QED BY <1>3, <2>2, <2>5, <3>2, <3>3, <3>4 DEF Compactions, NextSeq
  <2>6. CASE pc'[t] = "compact"
    <3>1. PushWrite(t)
      BY <2>6, Arrivals DEF Arrives
    <3>2. frame' = frame /\ Compacts(frame[t].seq) /\ pc[t] = "pushWrite"
      BY <2>1, <2>6, <3>1 DEF PushWrite, At
    <3>3. frame[t].seq \in Nat
      BY <3>2 DEF ChecksHold
    <3> QED BY <1>3, <2>6, <3>2, <3>3, BoundsAssumption DEF Compacts
  <2>7. CASE pc'[t] \in {"compactGet", "compactRead", "compactWrite"}
    <3>1. Compact(t) \/ CompactGet(t) \/ CompactRead(t)
      BY <2>7, Arrivals DEF Arrives
    <3>2. /\ pc[t] \in Compactions /\ frame'[t].seq = frame[t].seq /\ id' = id
          /\ pc'[t] \in {"compactRead", "compactWrite"} =>
               pc[t] \in Truncating /\ ~Waiting(t) /\ queue' = queue
      <4>1. CASE Compact(t)
        BY <2>1, <2>7, <4>1 DEF Compact, At, Goto, Compactions
      <4>2. CASE CompactGet(t)
        <5>1. frame'[t].seq = frame[t].seq
          BY <2>1, <4>2 DEF CompactGet, Remember, Frame
        <5> QED BY <2>1, <2>7, <4>2, <5>1 DEF CompactGet, At, Goto, Answer, Compactions, Truncating
      <4>3. CASE CompactRead(t)
        <5>1. frame'[t].seq = frame[t].seq
          BY <2>1, <4>3 DEF CompactRead, Remember, Frame
        <5> QED BY <2>1, <2>7, <4>3, <5>1 DEF CompactRead, At, Goto, Compactions, Truncating
      <4> QED BY <3>1, <4>1, <4>2, <4>3
    <3>3. pc'[t] \in {"compactRead", "compactWrite"} => Stays(t)
      BY <3>2, LockedByStep, LockedByStepNext DEF Stays, Truncating
    <3>4. To(t) \in Nat
      BY <3>2 DEF ChecksHold
    <3> QED BY <1>3, <2>2, <2>7, <3>2, <3>3, <3>4 DEF Compactions, To
  <2>8. CASE pc'[t] \notin {"createWrite", "push", "pushWrite"} \cup Compactions
    BY <1>3, <2>8 DEF Compactions
  <2> QED BY <2>3, <2>4, <2>5, <2>6, <2>7, <2>8 DEF Compactions
<1> QED BY <1>2, <1>3

(* Steps that move no task.                                                 *)
LEMMA NobodyMoves ==
  ASSUME [Next]_vars, ~\E t \in Task : TaskAction(t)
  PROVE  UNCHANGED <<kvVars, queue, op, id, pc, frame, outcome, observers, left>>
BY DEF Next, TaskAction, Deliver, AllDone, vars, pubsubVars

LEMMA StoreInvInit ==
  Init => StoreInv
<1> SUFFICES ASSUME Init PROVE StoreInv
  OBVIOUS
<1> USE DEF Init
<1>1. StoreTyped
  <2>1. NoBlock \in Block
    BY BoundsAssumption DEF NoBlock, Block
  <2>2. <<>> \in Seq(Task) /\ 1 \in 1 .. MaxTime
    BY BoundsAssumption
  <2>3. kv = [b \in Id |-> NoBlock] /\ log = [b \in Id |-> <<>>] /\ now = 1 /\ crossed = {}
    OBVIOUS
  <2>4. kv \in [Id -> Block]
    BY <2>1, <2>3
  <2>5. log \in [Id -> Seq(Task)]
    BY <2>2, <2>3
  <2> QED BY <2>2, <2>3, <2>4, <2>5 DEF StoreTyped
<1>2. PubsubTyped
  BY DEF PubsubTyped
<1>3. ASSUME NEW t \in Task
      PROVE  /\ op[t] \in {"create", "createWith", "edit", "pull", "follow", "remove", "gc"}
             /\ pc[t] \in {"create", "get", "seq", "listen", "exists", "oldest"}
             /\ pc[t] \in Steps(op[t])
             /\ frame[t] = [EmptyFrame EXCEPT !.todo = <<id[t]>>]
  <2>1. op[t] \in {"create", "createWith", "edit", "pull", "follow", "remove", "gc"}
    BY OpAssumption
  <2>2. pc[t] = FirstStep(op[t])
    OBVIOUS
  <2> QED BY <2>1, <2>2 DEF FirstStep, Steps, Creates, Edits, Pulls, Removals
<1>4. TasksTyped
  <2>1. ASSUME NEW t \in Task PROVE frame[t] \in Frame(frame[t].todo)
    BY <1>3 DEF EmptyFrame, Frame
  <2>2. \A t \in Task : pc[t] \in Steps(op[t])
    BY <1>3
  <2> QED BY <2>1, <2>2 DEF TasksTyped, Outcome
<1>5. LocksOK
  <2>1. queue = [key \in {} |-> <<>>] /\ DOMAIN queue = {}
    BY DEF MutexInit
  <2>2. \A t \in Task : Locked(t) = {}
    BY <1>3, LockedByStep DEF Holding, Truncating
  <2>3. DOMAIN Locks = Task /\ \A t \in Task : Locks[t] = {}
    BY <2>2 DEF Locks
  <2> QED BY <2>1, <2>3 DEF LocksOK, MutexOK
<1>6. ChecksHold
  BY <1>3 DEF ChecksHold, Compactions
<1> QED BY <1>1, <1>2, <1>4, <1>5, <1>6 DEF StoreInv

LEMMA StoreInvStep ==
  StoreInv /\ [Next]_vars => StoreInv'
<1> SUFFICES ASSUME StoreInv, [Next]_vars PROVE StoreInv'
  OBVIOUS
<1>1. StoreTyped' /\ PubsubTyped'
  BY StoreStaysTyped, PubsubStaysTyped DEF StoreInv
<1>2. ASSUME NEW t \in Task, TaskAction(t) PROVE TasksTyped' /\ LocksOK' /\ ChecksHold'
  BY <1>2, TasksMove, MoveKeepsTasksTyped, LocksStayOK, ChecksStayValid DEF StoreInv
<1>3. ASSUME ~\E t \in Task : TaskAction(t) PROVE TasksTyped' /\ LocksOK' /\ ChecksHold'
  <2>1. /\ kv' = kv /\ queue' = queue /\ op' = op /\ id' = id /\ pc' = pc /\ frame' = frame
        /\ outcome' = outcome
    BY <1>3, NobodyMoves DEF kvVars
  <2>2. TasksTyped'
    BY <2>1 DEF StoreInv, TasksTyped
  <2>3. \A t \in Task : Locked(t)' = Locked(t)
    BY <2>1 DEF Locked, Lock, TruncLock
  <2>4. LocksOK' /\ \A t \in Task : Waiting(t)' <=> Waiting(t)
    BY <2>1, <2>3, StayStep DEF StoreInv
  <2>5. ChecksHold'
    BY <2>1, <2>4 DEF StoreInv, ChecksHold, NextSeq, To
  <2> QED BY <2>2, <2>4, <2>5
<1> QED BY <1>1, <1>2, <1>3 DEF StoreInv

(* The types, whatever the tasks ask for and in which order they get it.    *)
THEOREM LevelStoreTyped == Spec => []TypeOK
<1>1. Spec => []StoreInv
  BY StoreInvInit, StoreInvStep, PTL DEF Spec
<1>2. StoreInv => TypeOK
  <2> SUFFICES ASSUME StoreInv PROVE TypeOK
    OBVIOUS
  <2>1. \A t \in Task : frame[t] \in Frame(frame[t].todo)
    BY DEF StoreInv, TasksTyped
  <2>2. queue \in [DOMAIN queue -> Seq(Task)]
    BY DEF StoreInv, LocksOK, MutexOK
  <2>3. ASSUME NEW t \in Task
        PROVE  /\ frame[t].seq \in Nat \cup {-1} /\ frame[t].last \in Nat \cup {-1}
               /\ frame[t].from \in Nat \cup {-1}
               /\ frame[t].read \subseteq Batch /\ frame[t].blob \subseteq Task
    BY <2>1, FrameFields
  <2> QED BY <2>2, <2>3 DEF StoreInv, StoreTyped, PubsubTyped, TasksTyped, TypeOK, Outcome, Message
<1> QED BY <1>1, <1>2, PTL

(* A lock is held by one task at a time and none is lost: whoever waits for *)
(* one, waits for a task that runs under it.                                *)
THEOREM LocksExclude == Spec => []OneHolder
<1>1. Spec => []StoreInv
  BY StoreInvInit, StoreInvStep, PTL DEF Spec
<1>2. StoreInv => OneHolder
  <2> SUFFICES ASSUME StoreInv PROVE OneHolder
    OBVIOUS
  <2>1. MutexOK(queue, Locks) /\ queue \in [DOMAIN queue -> Seq(Task)]
    BY DEF StoreInv, LocksOK, MutexOK
  <2>2. \A t \in Task : Locks[t] = Locked(t) /\ (Waiting(t) <=> Waits(queue, t))
    BY <2>1, WaitingIs DEF Locks
  <2>3. \A t \in Task : Locked(t) \subseteq DOMAIN queue
    BY <2>1, <2>2 DEF MutexOK
  <2>4. ASSUME NEW key \in DOMAIN queue
        PROVE  Cardinality({t \in Task : key \in Locked(t) /\ ~Waiting(t)}) = 1
    <3>1. PICK t \in Task : Runs(queue, Locks, key, t)
      BY <2>1 DEF MutexOK
    <3>2. \A u \in Task : Runs(queue, Locks, key, u) <=> u = t
      BY <2>1, <3>1 DEF MutexOK
    <3>3. {u \in Task : key \in Locked(u) /\ ~Waiting(u)} = {t}
      BY <3>2, <2>2 DEF Runs
    <3> QED BY <3>3, FS_Singleton
  <2> QED BY <2>3, <2>4 DEF OneHolder
<1> QED BY <1>1, <1>2, PTL

-----------------------------------------------------------------------------
(* A block and its log.                                                     *)
Grows(l, m) == Len(l) <= Len(m) /\ \A k \in 1 .. Len(l) : m[k] = l[k]

LEMMA PrefixKept ==
  ASSUME NEW l \in Seq(Task), NEW m \in Seq(Task), Grows(l, m),
         NEW n \in Nat \cup {-1}, n <= Len(l) - 1
  PROVE  /\ Prefix(m, n) = Prefix(l, n)
         /\ \A i \in Nat : Entries(m, i, n) = Entries(l, i, n)
         /\ n <= Len(m) - 1
<1>1. n <= Len(m) - 1 /\ \A k \in 1 .. (n + 1) : m[k] = l[k]
  BY DEF Grows
<1>2. Prefix(m, n) = Prefix(l, n)
  BY <1>1 DEF Prefix
<1>3. ASSUME NEW i \in Nat PROVE Entries(m, i, n) = Entries(l, i, n)
  <2>1. \A k \in i .. n : k + 1 \in 1 .. (n + 1)
    OBVIOUS
  <2>2. \A k \in i .. n : m[k + 1] = l[k + 1]
    BY <2>1, <1>1
  <2> QED BY <2>2 DEF Entries, Entry
<1> QED BY <1>1, <1>2, <1>3

LEMMA PrefixByEntries ==
  ASSUME NEW l, NEW m \in Nat \cup {-1}, NEW n \in Nat \cup {-1}, m <= n
  PROVE  /\ Prefix(l, m) \cup Patches(Entries(l, m + 1, n)) = Prefix(l, n)
         /\ Prefix(l, m) \subseteq Prefix(l, n)
<1>1. Patches(Entries(l, m + 1, n)) = {l[k + 1] : k \in (m + 1) .. n}
  <2>1. \A k : Entry(l, k).patch = l[k + 1]
    BY DEF Entry
  <2>2. Patches(Entries(l, m + 1, n)) = {Entry(l, k).patch : k \in (m + 1) .. n}
    BY DEF Patches, Entries
  <2> QED BY <2>1, <2>2
<1>2. ASSUME NEW k \in 1 .. (n + 1), k \notin 1 .. (m + 1)
      PROVE  l[k] \in {l[j + 1] : j \in (m + 1) .. n}
  <2>1. k - 1 \in (m + 1) .. n /\ (k - 1) + 1 = k
    BY <1>2
  <2> QED BY <2>1
<1>3. ASSUME NEW k \in (m + 1) .. n PROVE k + 1 \in 1 .. (n + 1)
  OBVIOUS
<1>4. \A k \in 1 .. (m + 1) : k \in 1 .. (n + 1)
  OBVIOUS
<1> QED BY <1>1, <1>2, <1>3, <1>4 DEF Prefix

LEMMA EntriesWithin ==
  ASSUME NEW l, NEW i \in Nat, NEW j \in Nat \cup {-1},
         NEW m \in Nat, NEW n \in Nat \cup {-1}, n <= j
  PROVE  /\ m >= i => Within(Entries(l, i, j), m, n) = Entries(l, m, n)
         /\ m <= i => Within(Entries(l, i, j), m, n) = Entries(l, i, n)
<1>1. \A k : Entry(l, k).seq = k
  BY DEF Entry
<1>2. Within(Entries(l, i, j), m, n) = {Entry(l, k) : k \in {k \in i .. j : m <= k /\ k <= n}}
  BY <1>1 DEF Within, Entries
<1>3. /\ m >= i => {k \in i .. j : m <= k /\ k <= n} = m .. n
      /\ m <= i => {k \in i .. j : m <= k /\ k <= n} = i .. n
  OBVIOUS
<1> QED BY <1>2, <1>3 DEF Entries

LEMMA EmptyPrefix ==
  ASSUME NEW l PROVE Prefix(l, -1) = {} /\ Entries(l, 0, -1) = {}
BY DEF Prefix, Entries

(* A new block, with its first patch or without.                            *)
LEMMA FullWhenCreated ==
  ASSUME NEW r, NEW t \in Task, NEW l \in {<<>>, <<t>>},
         r.start = [seq |-> -1, blob |-> {}],
         r.end = [seq |-> Len(l) - 1, blob |-> {l[k] : k \in 1 .. Len(l)}],
         r.batches = IF l = <<>> THEN {} ELSE {[seq |-> 0, patch |-> t]}
  PROVE  Full(r, l)
<1>1. l \in Seq(Task) /\ Len(l) \in {0, 1} /\ (Len(l) - 1) + 1 = Len(l)
  <2>1. CASE l = <<>>
    BY <2>1
  <2>2. CASE l = <<t>>
    BY <2>2
  <2> QED BY <2>1, <2>2
<1>2. r.end.blob = Prefix(l, Len(l) - 1) /\ r.end.seq = Len(l) - 1
  BY <1>1 DEF Prefix
<1>3. r.start.seq = -1 /\ r.start.blob = Prefix(l, r.start.seq)
  BY EmptyPrefix
<1>4. r.start \in Snapshot /\ r.end \in Snapshot
  <2>1. {l[k] : k \in 1 .. Len(l)} \subseteq Task
    BY <1>1
  <2> QED BY <1>1, <2>1 DEF Snapshot
<1>5. r.batches = Entries(l, 0, Len(l) - 1)
  <2>1. CASE l = <<>>
    <3>1. Len(l) - 1 = -1
      BY <2>1
    <3> QED BY <2>1, <3>1, EmptyPrefix
  <2>2. CASE l = <<t>>
    <3>1. Len(l) - 1 = 0 /\ l[0 + 1] = t /\ l # <<>> /\ 0 .. 0 = {0}
      BY <2>2
    <3> QED BY <3>1 DEF Entries, Entry
  <2> QED BY <2>1, <2>2
<1>6. r.start.seq \in -1 .. (Len(l) - 1) /\ r.start.seq + 1 = 0
  BY <1>1, <1>3
<1> QED BY <1>2, <1>3, <1>4, <1>5, <1>6, NoSnapshotAssumption DEF Full

(* An edit with the next number.                                            *)
LEMMA FullAfterEdit ==
  ASSUME NEW r, NEW rr, NEW t \in Task, NEW l \in Seq(Task), Full(r, l),
         rr.start = r.start, rr.end \in Snapshot,
         rr.end.seq = Len(l), rr.end.blob = Prefix(l, Len(l) - 1) \cup {t},
         rr.batches = {x \in r.batches : x.seq # Len(l)} \cup {[seq |-> Len(l), patch |-> t]}
  PROVE  Full(rr, Append(l, t)) /\ Grows(l, Append(l, t))
<1> DEFINE m == Append(l, t)
           n == Len(l)
           from == r.start.seq
<1>1. /\ n \in Nat /\ m \in Seq(Task) /\ Len(m) = n + 1
      /\ \A k \in 1 .. n : m[k] = l[k]
      /\ m[n + 1] = t
  OBVIOUS
<1>2. from \in Nat \cup {-1} /\ from <= n - 1 /\ from + 1 \in Nat
  BY <1>1 DEF Full
<1> HIDE DEF m, n, from
<1>3. Grows(l, m)
  BY <1>1 DEF Grows, n
<1>4. n - 1 \in Nat \cup {-1} /\ n - 1 <= Len(l) - 1 /\ from <= Len(l) - 1
  BY <1>1, <1>2 DEF n
<1>5. /\ Prefix(m, n - 1) = Prefix(l, n - 1) /\ Prefix(m, from) = Prefix(l, from)
      /\ Entries(m, from + 1, n - 1) = Entries(l, from + 1, n - 1)
  BY <1>1, <1>2, <1>3, <1>4, PrefixKept
<1>6. Prefix(m, n) = Prefix(l, n - 1) \cup {t}
  <2>1. 1 .. (n + 1) = (1 .. ((n - 1) + 1)) \cup {n + 1}
    BY <1>1
  <2>2. Prefix(m, n) = Prefix(m, n - 1) \cup {m[n + 1]}
    BY <2>1 DEF Prefix
  <2> QED BY <2>2, <1>1, <1>5
<1>7. Entries(m, from + 1, n) = Entries(l, from + 1, n - 1) \cup {[seq |-> n, patch |-> t]}
  <2>1. (from + 1) .. n = ((from + 1) .. (n - 1)) \cup {n}
    BY <1>1, <1>2
  <2>2. Entries(m, from + 1, n) = Entries(m, from + 1, n - 1) \cup {Entry(m, n)}
    BY <2>1 DEF Entries
  <2> QED BY <2>2, <1>1, <1>5 DEF Entry
<1>8. r.batches = Entries(l, from + 1, n - 1)
  BY DEF Full, n, from
<1>9. {x \in r.batches : x.seq # n} = r.batches
  <2>1. \A k : Entry(l, k).seq = k
    BY DEF Entry
  <2>2. \A k \in (from + 1) .. (n - 1) : k # n
    BY <1>1
  <2> QED BY <1>8, <2>1, <2>2 DEF Entries
<1>10. rr.batches = Entries(m, from + 1, n)
  BY <1>7, <1>8, <1>9 DEF n
<1>11. Len(m) - 1 = n
  BY <1>1
<1>12. rr.start # NoSnapshot /\ rr.end # NoSnapshot /\ rr.start.seq = from /\ rr.start.blob = Prefix(m, from)
  BY <1>5, NoSnapshotAssumption DEF Full, from
<1>13. from \in -1 .. (Len(m) - 1)
  BY <1>2, <1>11, <1>1
<1>14. Full(rr, m)
  <2>1. rr.end.seq = Len(m) - 1
    BY <1>11 DEF n
  <2>2. rr.end.blob = Prefix(m, Len(m) - 1)
    BY <1>6, <1>11 DEF n
  <2>3. rr.batches = Entries(m, rr.start.seq + 1, Len(m) - 1)
    BY <1>10, <1>11, <1>12
  <2> QED BY <2>1, <2>2, <2>3, <1>12, <1>13 DEF Full
<1> QED BY <1>3, <1>14 DEF m

(* A compaction up to `to`.                                                 *)
LEMMA FullAfterCompaction ==
  ASSUME NEW r, NEW rr, NEW l \in Seq(Task), Full(r, l), NEW to \in Nat,
         r.start.seq < to, to <= Len(l) - 1, NEW read, read = Entries(l, r.start.seq + 1, to),
         rr.start \in Snapshot, rr.start.seq = to, rr.start.blob = Prefix(l, to), rr.end = r.end,
         rr.batches = {x \in r.batches : \A y \in read : x.seq # y.seq}
  PROVE  Full(rr, l)
<1> DEFINE i == r.start.seq + 1
           j == Len(l) - 1
<1>1. i \in Nat /\ j \in Nat /\ i <= to /\ to <= j
  BY DEF Full
<1>2. r.batches = Entries(l, i, j) /\ read = Entries(l, i, to)
  BY DEF Full
<1> HIDE DEF i, j
<1>3. \A k : Entry(l, k).seq = k
  BY DEF Entry
<1>4. rr.batches = {Entry(l, k) : k \in {k \in i .. j : \A n \in i .. to : k # n}}
  <2>1. ASSUME NEW x \in r.batches, \A y \in read : x.seq # y.seq
        PROVE  x \in {Entry(l, k) : k \in {k \in i .. j : \A n \in i .. to : k # n}}
    <3>1. PICK k \in i .. j : x = Entry(l, k)
      BY <1>2 DEF Entries
    <3>2. ASSUME NEW n \in i .. to PROVE k # n
      <4>1. Entry(l, n) \in read
        BY <1>2, ZenonT(40) DEF Entries
      <4> QED BY <4>1, <3>1, <2>1, <1>3
    <3> QED BY <3>1, <3>2
  <2>2. ASSUME NEW k \in i .. j, \A n \in i .. to : k # n
        PROVE  Entry(l, k) \in r.batches /\ \A y \in read : Entry(l, k).seq # y.seq
    BY <2>2, <1>2, <1>3 DEF Entries
  <2> QED BY <2>1, <2>2
<1>5. {k \in i .. j : \A n \in i .. to : k # n} = (to + 1) .. j
  BY <1>1
<1>6. rr.batches = Entries(l, to + 1, j)
  BY <1>4, <1>5 DEF Entries
<1>7. to \in -1 .. j
  BY <1>1
<1> QED BY <1>6, <1>7, NoSnapshotAssumption DEF Full, j

-----------------------------------------------------------------------------
(* A step leaves each block as its log spells it, and only a removal makes  *)
(* the log shorter or takes the start back.                                 *)
LEMMA CrossedGrows ==
  ASSUME StoreInv, NEW t \in Task, TaskAction(t)
  PROVE  /\ crossed \subseteq crossed' /\ removed \subseteq removed'
         /\ RemoveClear(t) \/ UNCHANGED <<removed, crossed>>
<1>1. CASE RemoveClear(t)
  BY <1>1, RemoveClearEffect DEF StoreInv
<1>2. CASE ~RemoveClear(t)
  <2>1. UNCHANGED <<removed, crossed>>
    BY <1>2, ReadersLeaveStore DEF kvVars, CreateWrite, PushWrite, CompactWrite
  <2> QED BY <2>1
<1> QED BY <1>1, <1>2

(* What a step that does not remove block b may do to it.                   *)
Advances(b) ==
  /\ Grows(log[b], log'[b])
  /\ kv[b].end # NoSnapshot =>
       /\ kv'[b].end # NoSnapshot
       /\ kv[b].start.seq <= kv'[b].start.seq

LEMMA CreationStep ==
  ASSUME StoreInv, Documents, NEW t \in Task, CreateWrite(t), id[t] \notin crossed
  PROVE  /\ Full(kv'[id[t]], log'[id[t]]) /\ Advances(id[t])
         /\ kv[id[t]].end = NoSnapshot
<1> DEFINE b == id[t]
           batch == IF op[t] = "create" THEN {} ELSE {[seq |-> 0, patch |-> t]}
<1> USE DEF StoreInv
<1>1. /\ b \in Id
      /\ log'[b] = IF op[t] = "create" THEN <<>> ELSE <<t>>
      /\ kv'[b].start = [seq |-> -1, blob |-> {}]
      /\ kv'[b].end = [seq |-> Len(log'[b]) - 1, blob |-> {log'[b][k] : k \in 1 .. Len(log'[b])}]
      /\ kv'[b].batches \subseteq kv[b].batches \cup batch
      /\ batch \subseteq kv'[b].batches
  BY CreateWriteEffect
<1>2. kv[b].end = NoSnapshot
  BY DEF ChecksHold, CreateWrite, At
<1>3. Empty(kv[b], log[b])
  BY <1>1, <1>2 DEF Documents, BlocksSpellLog, Full
<1>4. kv'[b].batches = IF log'[b] = <<>> THEN {} ELSE {[seq |-> 0, patch |-> t]}
  <2>1. kv'[b].batches = batch
    BY <1>1, <1>3 DEF Empty
  <2>2. log'[b] = <<>> <=> op[t] = "create"
    BY <1>1
  <2> QED BY <2>1, <2>2
<1>5. Full(kv'[b], log'[b])
  <2> DEFINE r == kv'[b]
             l == log'[b]
  <2>1. /\ l \in {<<>>, <<t>>}
        /\ r.start = [seq |-> -1, blob |-> {}]
        /\ r.end = [seq |-> Len(l) - 1, blob |-> {l[k] : k \in 1 .. Len(l)}]
        /\ r.batches = IF l = <<>> THEN {} ELSE {[seq |-> 0, patch |-> t]}
    BY <1>1, <1>4
  <2> HIDE DEF r, l
  <2>2. Full(r, l)
    BY <2>1, FullWhenCreated
  <2> QED BY <2>2 DEF r, l
<1>6. Grows(log[b], log'[b])
  <2>1. Len(log[b]) = 0 /\ Len(log'[b]) \in Nat
    BY <1>1, <1>3 DEF Empty
  <2> QED BY <2>1 DEF Grows
<1> QED BY <1>2, <1>5, <1>6 DEF Advances

LEMMA EditStep ==
  ASSUME StoreInv, Documents, NEW t \in Task, PushWrite(t), id[t] \notin crossed
  PROVE  /\ Full(kv'[id[t]], log'[id[t]]) /\ Advances(id[t])
         /\ kv'[id[t]].start = kv[id[t]].start
<1> DEFINE b == id[t]
           seq == frame[t].seq
<1> USE DEF StoreInv
<1>1. /\ b \in Id /\ seq \in Nat /\ kv' \in [Id -> Block]
      /\ log'[b] = Append(log[b], t)
      /\ kv'[b].start = kv[b].start
      /\ kv'[b].end = [seq |-> seq, blob |-> frame[t].blob]
      /\ kv'[b].batches = {x \in kv[b].batches : x.seq # seq} \cup {[seq |-> seq, patch |-> t]}
  BY PushWriteEffect
<1>2. kv[b].end # NoSnapshot /\ kv[b].end.seq + 1 = seq /\ frame[t].blob \subseteq Task
  BY FrameFields DEF ChecksHold, PushWrite, At, NextSeq, TasksTyped
<1>3. frame[t].blob = Prefix(log[b], seq - 1) \cup {t}
  BY DEF Documents, EditsExtendLog, PushWrite, At
<1>4. Full(kv[b], log[b]) /\ log[b] \in Seq(Task)
  BY <1>1, <1>2 DEF Documents, BlocksSpellLog, Empty, StoreTyped
<1>5. Len(log[b]) \in Nat /\ kv[b].end.seq = Len(log[b]) - 1
  BY <1>4 DEF Full
<1>6. seq = Len(log[b])
  BY <1>2, <1>5
<1>7. kv'[b].end \in Snapshot
  BY <1>1, <1>2 DEF Snapshot
<1>8. /\ kv'[b].end.seq = Len(log[b])
      /\ kv'[b].end.blob = Prefix(log[b], Len(log[b]) - 1) \cup {t}
      /\ kv'[b].batches = {x \in kv[b].batches : x.seq # Len(log[b])} \cup {[seq |-> Len(log[b]), patch |-> t]}
  BY <1>1, <1>3, <1>6
<1>9. Full(kv'[b], Append(log[b], t)) /\ Grows(log[b], Append(log[b], t))
  <2> DEFINE r == kv[b]
             rr == kv'[b]
             l == log[b]
  <2>1. /\ Full(r, l) /\ l \in Seq(Task) /\ rr.start = r.start /\ rr.end \in Snapshot
        /\ rr.end.seq = Len(l) /\ rr.end.blob = Prefix(l, Len(l) - 1) \cup {t}
        /\ rr.batches = {x \in r.batches : x.seq # Len(l)} \cup {[seq |-> Len(l), patch |-> t]}
    BY <1>1, <1>4, <1>7, <1>8
  <2> HIDE DEF r, rr, l
  <2>2. Full(rr, Append(l, t)) /\ Grows(l, Append(l, t))
    BY <2>1, FullAfterEdit
  <2> QED BY <2>2 DEF r, rr, l
<1>10. kv[b].start.seq \in Int
  BY <1>4, <1>5 DEF Full
<1> QED BY <1>1, <1>9, <1>10, <1>7, NoSnapshotAssumption DEF Advances

LEMMA CompactionStep ==
  ASSUME StoreInv, Documents, NEW t \in Task, CompactWrite(t), id[t] \notin crossed
  PROVE  Full(kv'[id[t]], log'[id[t]]) /\ Advances(id[t])
<1> DEFINE b == id[t]
<1> USE DEF StoreInv
<1>1. /\ b \in Id /\ To(t) \in Nat /\ kv' \in [Id -> Block]
      /\ log' = log
      /\ kv'[b].start = [seq |-> To(t), blob |-> frame[t].blob]
      /\ kv'[b].end = kv[b].end
      /\ kv'[b].batches = {x \in kv[b].batches : \A y \in frame[t].read : x.seq # y.seq}
  BY CompactWriteEffect
<1>2. /\ kv[b].end # NoSnapshot /\ To(t) <= Len(log[b]) - 1
      /\ frame[t].from = kv[b].start.seq /\ frame[t].from < To(t)
      /\ frame[t].read = Entries(log[b], frame[t].from + 1, To(t))
      /\ frame[t].blob = Prefix(log[b], To(t))
  <2>1. pc[t] = "compactWrite" /\ id[t] \notin crossed
    BY DEF CompactWrite, At
  <2> QED BY <2>1 DEF Documents, CompactionsWithinLog, Compactions
<1>3. Full(kv[b], log[b]) /\ log[b] \in Seq(Task)
  BY <1>1, <1>2 DEF Documents, BlocksSpellLog, Empty, StoreTyped
<1>4. kv'[b].start \in Snapshot
  <2>1. frame[t].blob \subseteq Task
    BY FrameFields DEF TasksTyped
  <2> QED BY <1>1, <2>1 DEF Snapshot
<1>5. Full(kv'[b], log[b])
  <2> DEFINE r == kv[b]
             rr == kv'[b]
             l == log[b]
             to == To(t)
             read == frame[t].read
  <2>1. /\ Full(r, l) /\ l \in Seq(Task) /\ to \in Nat /\ r.start.seq < to /\ to <= Len(l) - 1
        /\ read = Entries(l, r.start.seq + 1, to)
        /\ rr.start \in Snapshot /\ rr.start.seq = to /\ rr.start.blob = Prefix(l, to) /\ rr.end = r.end
        /\ rr.batches = {x \in r.batches : \A y \in read : x.seq # y.seq}
    BY <1>1, <1>2, <1>3, <1>4
  <2> HIDE DEF r, rr, l, to, read
  <2>2. Full(rr, l)
    BY <2>1, FullAfterCompaction
  <2> QED BY <2>2 DEF rr, l
<1>6. kv[b].start.seq <= kv'[b].start.seq
  BY <1>1, <1>2, <1>3 DEF Full
<1>7. Grows(log[b], log[b])
  BY <1>3 DEF Grows
<1> QED BY <1>1, <1>2, <1>5, <1>6, <1>7 DEF Advances

LEMMA StepOnBlock ==
  ASSUME StoreInv, Documents, NEW t \in Task, TaskAction(t), NEW b \in Id \ crossed'
  PROVE  /\ Empty(kv'[b], log'[b]) \/ Full(kv'[b], log'[b])
         /\ Advances(b) \/ (RemoveClear(t) /\ id[t] = b)
         /\ \/ kv[b].end = NoSnapshot \/ kv'[b].start = kv[b].start
            \/ (CompactWrite(t) \/ RemoveClear(t)) /\ id[t] = b
<1>1. b \notin crossed /\ (Empty(kv[b], log[b]) \/ Full(kv[b], log[b])) /\ log[b] \in Seq(Task)
  BY CrossedGrows DEF Documents, BlocksSpellLog, StoreInv, StoreTyped
<1>2. CASE kv'[b] = kv[b] /\ log'[b] = log[b]
  <2>1. kv[b].end # NoSnapshot => kv[b].start.seq \in Int
    BY <1>1 DEF Empty, Full
  <2> QED BY <1>1, <1>2, <2>1 DEF Advances, Grows
<1>3. CASE id[t] # b
  <2>1. kv'[b] = kv[b] /\ log'[b] = log[b]
    <3>1. CASE CreateWrite(t)
      <4>1. \A c \in Id \ {id[t]} : kv'[c] = kv[c] /\ log'[c] = log[c]
        BY <3>1, CreateWriteEffect DEF StoreInv
      <4> QED BY <1>3, <4>1
    <3>2. CASE PushWrite(t)
      <4>1. \A c \in Id \ {id[t]} : kv'[c] = kv[c] /\ log'[c] = log[c]
        BY <3>2, PushWriteEffect DEF StoreInv
      <4> QED BY <1>3, <4>1
    <3>3. CASE CompactWrite(t)
      <4>1. (\A c \in Id \ {id[t]} : kv'[c] = kv[c]) /\ log' = log
        BY <3>3, CompactWriteEffect DEF StoreInv
      <4> QED BY <1>3, <4>1
    <3>4. CASE RemoveClear(t)
      BY <1>3, <3>4, RemoveClearEffect DEF StoreInv
    <3>5. CASE UNCHANGED kvVars
      BY <3>5 DEF kvVars
    <3> QED BY <3>1, <3>2, <3>3, <3>4, <3>5, ReadersLeaveStore
  <2> QED BY <1>2, <2>1
<1>4. CASE id[t] = b
  <2>1. CASE CreateWrite(t)
    BY <1>1, <1>4, <2>1, CreationStep
  <2>2. CASE PushWrite(t)
    BY <1>1, <1>4, <2>2, EditStep
  <2>3. CASE CompactWrite(t)
    BY <1>1, <1>4, <2>3, CompactionStep
  <2>4. CASE RemoveClear(t)
    BY <1>4, <2>4, RemoveClearEffect DEF StoreInv, Empty, NoBlock
  <2>5. CASE UNCHANGED kvVars
    BY <1>2, <2>5 DEF kvVars
  <2> QED BY <2>1, <2>2, <2>3, <2>4, <2>5, ReadersLeaveStore
<1> QED BY <1>3, <1>4

LEMMA WritersOfOwnBlock ==
  ASSUME TasksTyped, NEW u \in Task, pc[u] \in Creates \cup Edits \cup Pulls \cup {"listen"}
  PROVE  id[u] \in Id
<1>1. op[u] \notin {"remove", "gc"}
  BY OpAssumption DEF TasksTyped, Steps, Creates, Edits, Compactions, Pulls, Reads, Removals
<1> QED BY <1>1 DEF TasksTyped

(* An edit or a compaction of another task finds its block advanced, not    *)
(* removed, or else counts as crossed.                                      *)
LEMMA BlockAwaitsWriter ==
  ASSUME StoreInv, Documents, NEW t \in Task, TaskAction(t), NEW u \in Task \ {t},
         pc[u] \in {"push", "pushWrite"} \cup Compactions, id[u] \notin crossed'
  PROVE  /\ id[u] \in Id /\ id[u] \notin crossed /\ Advances(id[u])
         /\ kv[id[u]].end # NoSnapshot /\ Full(kv[id[u]], log[id[u]])
         /\ log[id[u]] \in Seq(Task) /\ log'[id[u]] \in Seq(Task)
         /\ pc[u] \in {"compactRead", "compactWrite"} => kv'[id[u]].start = kv[id[u]].start
<1> DEFINE b == id[u]
<1>1. b \in Id /\ b \notin crossed
  BY WritersOfOwnBlock, CrossedGrows DEF StoreInv, Edits
<1>2. kv[b].end # NoSnapshot
  BY <1>1 DEF Documents, EditsExtendLog, CompactionsWithinLog
<1>3. Full(kv[b], log[b])
  BY <1>1, <1>2 DEF Documents, BlocksSpellLog, Empty
<1>4. log[b] \in Seq(Task) /\ log'[b] \in Seq(Task)
  <2>1. StoreTyped'
    BY StoreStaysTyped DEF StoreInv, Next, TaskAction
  <2> QED BY <1>1, <2>1 DEF StoreInv, StoreTyped
<1>5. ~(RemoveClear(t) /\ id[t] = b)
  <2>1. SUFFICES ASSUME RemoveClear(t), id[t] = b PROVE FALSE
    OBVIOUS
  <2>2. pc[u] \notin {"push"} \cup Compactions
    BY <2>1, RemoveClearEffect DEF StoreInv
  <2>3. pc[u] = "pushWrite"
    BY <2>2
  <2>4. kv'[b].end = kv[b].end
    BY <2>3, LastKept
  <2> QED BY <1>1, <1>2, <2>1, <2>4, RemoveClearEffect DEF StoreInv, NoBlock
<1>6. Advances(b)
  BY <1>1, <1>5, StepOnBlock
<1>7. ASSUME pc[u] \in {"compactRead", "compactWrite"} PROVE kv'[b].start = kv[b].start
  <2>1. SUFFICES ASSUME CompactWrite(t), id[t] = b PROVE FALSE
    BY <1>1, <1>2, <1>5, StepOnBlock
  <2>2. Locked(t) = {<<b, ".trunc">>} /\ Locked(u) = {<<b, ".trunc">>} /\ ~Waiting(t) /\ ~Waiting(u)
    BY <1>7, <2>1, LockedByStep DEF CompactWrite, At, Truncating, StoreInv, ChecksHold
  <2>3. LocksOK
    BY DEF StoreInv
  <2> QED BY <2>2, <2>3, MutualExclusion
<1> QED BY <1>1, <1>2, <1>3, <1>4, <1>6, <1>7

LEMMA EditsStayConsistent ==
  ASSUME StoreInv, Documents, NEW t \in Task, TaskAction(t)
  PROVE  EditsExtendLog'
<1>1. SUFFICES ASSUME NEW u \in Task, id'[u] \notin crossed', pc'[u] \in {"push", "pushWrite"}
               PROVE  /\ kv'[id'[u]].end # NoSnapshot
                      /\ frame'[u].seq <= Len(log'[id'[u]])
                      /\ frame'[u].blob = Prefix(log'[id'[u]], frame'[u].seq - 1) \cup {u}
  BY DEF EditsExtendLog
<1>2. CASE u # t
  <2>1. Same(u)
    BY <1>2, OthersStay DEF StoreInv
  <2>2. pc[u] \in {"push", "pushWrite"} /\ id[u] \notin crossed'
    BY <1>1, <2>1 DEF Same
  <2> DEFINE b == id[u]
             n == frame[u].seq - 1
  <2>3. /\ b \in Id /\ b \notin crossed /\ Advances(b)
        /\ kv[b].end # NoSnapshot
        /\ log[b] \in Seq(Task) /\ log'[b] \in Seq(Task)
    BY <1>2, <2>2, BlockAwaitsWriter
  <2>4. /\ frame[u].seq \in Nat /\ frame[u].seq <= Len(log[b])
        /\ frame[u].blob = Prefix(log[b], n) \cup {u}
    BY <2>2, <2>3 DEF Documents, EditsExtendLog, StoreInv, ChecksHold
  <2>5. n \in Nat \cup {-1} /\ n <= Len(log[b]) - 1
    BY <2>3, <2>4
  <2>6. Prefix(log'[b], n) = Prefix(log[b], n) /\ n <= Len(log'[b]) - 1
    BY <2>3, <2>5, PrefixKept DEF Advances
  <2>7. frame[u].seq <= Len(log'[b])
    BY <2>3, <2>4, <2>6
  <2> QED BY <2>1, <2>3, <2>4, <2>6, <2>7 DEF Same, Advances
<1>3. CASE u = t
  <2>1. DOMAIN frame = Task /\ DOMAIN pc = Task /\ frame[t] \in Frame(frame[t].todo)
    BY DEF StoreInv, TasksTyped
  <2>2. CASE pc'[t] = "push"
    <3>1. EditGet(t)
      BY <2>2, Arrivals DEF Arrives, StoreInv
    <3>2. /\ kv[id[t]].end # NoSnapshot /\ id' = id /\ kv' = kv /\ log' = log /\ crossed' = crossed
          /\ frame' = [frame EXCEPT ![t] = [frame[t] EXCEPT
               !.seq = kv[id[t]].end.seq + 1, !.blob = kv[id[t]].end.blob \cup {t}]]
          /\ pc[t] = "get"
      BY <2>1, <2>2, <3>1 DEF EditGet, At, Goto, Answer, Remember, kvVars
    <3>3. frame'[t].seq = kv[id[t]].end.seq + 1 /\ frame'[t].blob = kv[id[t]].end.blob \cup {t}
      BY <2>1, <3>2 DEF Frame
    <3>4. id[t] \in Id /\ id[t] \notin crossed
      BY <1>1, <1>3, <3>2, WritersOfOwnBlock DEF StoreInv, Edits
    <3>5. Full(kv[id[t]], log[id[t]]) /\ Len(log[id[t]]) \in Nat
      BY <3>2, <3>4 DEF Documents, BlocksSpellLog, Empty, StoreInv, StoreTyped
    <3>6. kv[id[t]].end.seq = Len(log[id[t]]) - 1 /\ kv[id[t]].end.blob = Prefix(log[id[t]], Len(log[id[t]]) - 1)
      BY <3>5 DEF Full
    <3>7. frame'[t].seq = Len(log[id[t]])
      BY <3>3, <3>5, <3>6
    <3> QED BY <1>3, <3>2, <3>3, <3>5, <3>6, <3>7
  <2>3. CASE pc'[t] = "pushWrite"
    <3>1. PushCheck(t)
      BY <2>3, Arrivals DEF Arrives, StoreInv
    <3>2. /\ pc[t] = "push" /\ id' = id /\ kv' = kv /\ frame' = frame /\ log' = log /\ crossed' = crossed
      BY <3>1 DEF PushCheck, At, kvVars
    <3> QED BY <1>1, <1>3, <3>2 DEF Documents, EditsExtendLog
  <2> QED BY <1>1, <1>3, <2>2, <2>3
<1> QED BY <1>2, <1>3

(* What a compaction is to merge: the batches after the start, of a block   *)
(* that spells its log.                                                     *)
LEMMA CompactionReads ==
  ASSUME NEW r, NEW l \in Seq(Task), Full(r, l), NEW to \in Nat,
         r.start.seq < to, to <= Len(l) - 1
  PROVE  LET read == Within(r.batches, r.start.seq + 1, to)
         IN  /\ read = Entries(l, r.start.seq + 1, to)
             /\ r.start.blob \cup Patches(read) = Prefix(l, to)
<1> DEFINE from == r.start.seq
           j == Len(l) - 1
<1>1. from \in Nat \cup {-1} /\ j \in Nat \cup {-1} /\ from + 1 \in Nat /\ from <= to /\ to <= j
  BY DEF Full
<1>2. r.batches = Entries(l, from + 1, j) /\ r.start.blob = Prefix(l, from)
  BY DEF Full
<1> HIDE DEF from, j
<1>3. from + 1 >= from + 1 /\ to \in Nat \cup {-1}
  BY <1>1
<1>4. Within(Entries(l, from + 1, j), from + 1, to) = Entries(l, from + 1, to)
  BY <1>1, <1>3, EntriesWithin
<1>5. Prefix(l, from) \cup Patches(Entries(l, from + 1, to)) = Prefix(l, to)
  BY <1>1, <1>3, PrefixByEntries
<1> QED BY <1>2, <1>4, <1>5 DEF from

LEMMA CompactionsStayConsistent ==
  ASSUME StoreInv, Documents, NEW t \in Task, TaskAction(t)
  PROVE  CompactionsWithinLog'
<1> DEFINE Holds(step, f, r, l, to) ==
             /\ step \in Compactions => r.end # NoSnapshot /\ to <= Len(l) - 1
             /\ step \in {"compactRead", "compactWrite"} => f.from = r.start.seq /\ f.from < to
             /\ step = "compactRead" => f.blob = r.start.blob
             /\ step = "compactWrite" =>
                  f.read = Entries(l, f.from + 1, to) /\ f.blob = Prefix(l, to)
<1>1. SUFFICES ASSUME NEW u \in Task, id'[u] \notin crossed', pc'[u] \in Compactions
               PROVE  Holds(pc'[u], frame'[u], kv'[id'[u]], log'[id'[u]],
                            frame'[u].seq - historyPerBlock)
  BY DEF CompactionsWithinLog, To, Compactions
<1>2. ASSUME NEW v \in Task, id[v] \notin crossed
      PROVE  Holds(pc[v], frame[v], kv[id[v]], log[id[v]], To(v))
  BY <1>2 DEF Documents, CompactionsWithinLog
<1>3. \A v \in Task : pc[v] \in Compactions => To(v) \in Nat /\ id[v] \in Id
  BY WritersOfOwnBlock DEF StoreInv, ChecksHold, Edits
<1>4. \A v \in Task : frame[v].from \in Nat \cup {-1}
  BY FrameFields DEF StoreInv, TasksTyped
<1> HIDE DEF Holds
<1>5. CASE u # t
  <2>1. Same(u)
    BY <1>5, OthersStay DEF StoreInv
  <2> DEFINE b == id[u]
             to == To(u)
  <2>2. /\ pc[u] \in Compactions /\ to \in Nat /\ b \notin crossed'
        /\ pc'[u] = pc[u] /\ frame'[u] = frame[u] /\ id'[u] = b
        /\ frame'[u].seq - historyPerBlock = to
    BY <1>1, <1>3, <2>1 DEF Same, To
  <2>3. /\ b \in Id /\ b \notin crossed /\ Advances(b)
        /\ kv[b].end # NoSnapshot
        /\ log[b] \in Seq(Task) /\ log'[b] \in Seq(Task)
        /\ pc[u] \in {"compactRead", "compactWrite"} => kv'[b].start = kv[b].start
    BY <1>5, <2>2, BlockAwaitsWriter
  <2>4. Holds(pc[u], frame[u], kv[b], log[b], to)
    BY <1>2, <2>3
  <2>5. to <= Len(log[b]) - 1
    BY <2>2, <2>4 DEF Holds
  <2>6. /\ Prefix(log'[b], to) = Prefix(log[b], to) /\ to <= Len(log'[b]) - 1
        /\ \A i \in Nat : Entries(log'[b], i, to) = Entries(log[b], i, to)
    BY <2>2, <2>3, <2>5, PrefixKept DEF Advances
  <2>7. frame[u].from + 1 \in Nat
    BY <1>4
  <2>8. Holds(pc[u], frame[u], kv'[b], log'[b], to)
    BY <2>2, <2>3, <2>4, <2>6, <2>7 DEF Holds, Advances
  <2> QED BY <2>2, <2>8
<1>6. CASE u = t
  <2> DEFINE b == id[t]
             to == To(t)
  <2>1. DOMAIN frame = Task /\ DOMAIN pc = Task /\ frame[t] \in Frame(frame[t].todo)
    BY DEF StoreInv, TasksTyped
  <2>2. CASE pc'[t] = "compact"
    <3>1. PushWrite(t)
      BY <2>2, Arrivals DEF Arrives, StoreInv
    <3>2. frame' = frame /\ id' = id /\ crossed' = crossed /\ pc[t] = "pushWrite"
      BY <3>1 DEF PushWrite, At
    <3>3. Full(kv'[b], log'[b]) /\ frame[t].seq \in Nat /\ kv'[b].end.seq = frame[t].seq
      <4>1. id[t] \notin crossed
        BY <1>1, <1>6, <3>2
      <4>2. Full(kv'[b], log'[b])
        BY <3>1, <4>1, EditStep
      <4>3. frame[t].seq \in Nat /\ kv'[b].end = [seq |-> frame[t].seq, blob |-> frame[t].blob]
        BY <3>1, PushWriteEffect DEF StoreInv
      <4> QED BY <4>2, <4>3
    <3>4. frame[t].seq = Len(log'[b]) - 1 /\ kv'[b].end # NoSnapshot
      BY <3>3 DEF Full
    <3>5. frame[t].seq - historyPerBlock <= frame[t].seq
      BY <3>3, BoundsAssumption
    <3>6. frame[t].seq - historyPerBlock <= Len(log'[b]) - 1
      BY <3>4, <3>5
    <3> QED BY <1>6, <2>2, <3>2, <3>4, <3>6 DEF Holds
  <2>3. CASE pc'[t] = "compactGet"
    <3>1. Compact(t)
      BY <2>3, Arrivals DEF Arrives, StoreInv
    <3>2. /\ frame' = frame /\ id' = id /\ crossed' = crossed /\ kv' = kv /\ log' = log
          /\ pc[t] = "compact"
      BY <3>1 DEF Compact, At, kvVars
    <3>3. Holds("compact", frame[t], kv[b], log[b], to)
      BY <1>1, <1>2, <1>6, <3>2
    <3> QED BY <1>6, <2>3, <3>2, <3>3 DEF Holds, Compactions, To
  <2>4. CASE pc'[t] = "compactRead"
    <3>1. CompactGet(t)
      BY <2>4, Arrivals DEF Arrives, StoreInv
    <3>2. /\ id' = id /\ crossed' = crossed /\ kv' = kv /\ log' = log /\ pc[t] = "compactGet"
          /\ kv[b].start # NoSnapshot /\ ~(kv[b].start.seq >= to)
          /\ frame' = [frame EXCEPT ![t] = [frame[t] EXCEPT !.from = kv[b].start.seq, !.blob = kv[b].start.blob]]
      BY <2>1, <2>4, <3>1 DEF CompactGet, At, Goto, Remember, kvVars
    <3>3. /\ frame'[t].from = kv[b].start.seq /\ frame'[t].blob = kv[b].start.blob
          /\ frame'[t].seq = frame[t].seq
      BY <2>1, <3>2 DEF Frame
    <3>4. Holds("compactGet", frame[t], kv[b], log[b], to)
      BY <1>1, <1>2, <1>6, <3>2
    <3>5. kv[b].start.seq \in Nat \cup {-1} /\ to \in Nat
      BY <1>3, <3>2, BlockFields DEF StoreInv, Compactions
    <3>6. kv[b].start.seq < to
      BY <3>2, <3>5
    <3> QED BY <1>6, <2>4, <3>2, <3>3, <3>4, <3>6 DEF Holds, Compactions, To
  <2>5. CASE pc'[t] = "compactWrite"
    <3> DEFINE read == Batches(b, frame[t].from + 1, to)
    <3>1. CompactRead(t)
      BY <2>5, Arrivals DEF Arrives, StoreInv
    <3>2. /\ id' = id /\ crossed' = crossed /\ kv' = kv /\ log' = log /\ pc[t] = "compactRead"
          /\ frame' = [frame EXCEPT ![t] = [frame[t] EXCEPT !.read = read, !.blob = frame[t].blob \cup Patches(read)]]
      BY <2>1, <3>1 DEF CompactRead, At, Remember, kvVars
    <3>3. /\ frame'[t].read = read /\ frame'[t].blob = frame[t].blob \cup Patches(read)
          /\ frame'[t].seq = frame[t].seq /\ frame'[t].from = frame[t].from
      BY <2>1, <3>2 DEF Frame
    <3>4. Holds("compactRead", frame[t], kv[b], log[b], to)
      BY <1>1, <1>2, <1>6, <3>2
    <3>5. /\ kv[b].end # NoSnapshot /\ to <= Len(log[b]) - 1 /\ frame[t].from = kv[b].start.seq
          /\ frame[t].from < to /\ frame[t].blob = kv[b].start.blob
      BY <3>4 DEF Holds, Compactions
    <3>6. b \in Id /\ to \in Nat /\ Full(kv[b], log[b]) /\ log[b] \in Seq(Task)
      BY <1>1, <1>3, <1>6, <3>2, <3>5 DEF Compactions, Documents, BlocksSpellLog, Empty, StoreInv, StoreTyped
    <3>7. read = Within(kv[b].batches, kv[b].start.seq + 1, to)
      BY <3>5 DEF Batches, Within
    <3>8. /\ read = Entries(log[b], frame[t].from + 1, to)
          /\ frame[t].blob \cup Patches(read) = Prefix(log[b], to)
      BY <3>5, <3>6, <3>7, CompactionReads
    <3> QED BY <1>6, <2>5, <3>2, <3>3, <3>5, <3>8 DEF Holds, Compactions, To
  <2> QED BY <1>1, <1>6, <2>2, <2>3, <2>4, <2>5 DEF Compactions
<1> QED BY <1>5, <1>6

-----------------------------------------------------------------------------
(* Documents stay as their logs spell them.                                 *)
LEMMA DocumentsInit ==
  Init => Documents
<1> SUFFICES ASSUME Init PROVE Documents
  OBVIOUS
<1>1. \A b \in Id : Empty(kv[b], log[b])
  BY DEF Init, NoBlock, Empty
<1>2. \A t \in Task : pc[t] \notin {"push", "pushWrite"} \cup Compactions
  <2>1. \A t \in Task : op[t] \in {"create", "createWith", "edit", "pull", "follow", "remove", "gc"} /\ pc[t] = FirstStep(op[t])
    BY OpAssumption DEF Init
  <2> QED BY <2>1 DEF FirstStep, Compactions
<1> QED BY <1>1, <1>2 DEF Documents, BlocksSpellLog, EditsExtendLog, CompactionsWithinLog, Compactions

LEMMA DocumentsStep ==
  StoreInv /\ Documents /\ [Next]_vars => Documents'
<1> SUFFICES ASSUME StoreInv, Documents, [Next]_vars PROVE Documents'
  OBVIOUS
<1>1. ASSUME NEW t \in Task, TaskAction(t) PROVE Documents'
  <2>1. BlocksSpellLog'
    <3>1. ASSUME NEW b \in Id \ crossed' PROVE Empty(kv'[b], log'[b]) \/ Full(kv'[b], log'[b])
      BY <1>1, StepOnBlock
    <3> QED BY <3>1 DEF BlocksSpellLog
  <2> QED BY <1>1, <2>1, EditsStayConsistent, CompactionsStayConsistent DEF Documents
<1>2. ASSUME ~\E t \in Task : TaskAction(t) PROVE Documents'
  <2>1. /\ kv' = kv /\ log' = log /\ crossed' = crossed /\ id' = id /\ pc' = pc /\ frame' = frame
    BY <1>2, NobodyMoves DEF kvVars
  <2> QED BY <2>1 DEF Documents, BlocksSpellLog, EditsExtendLog, CompactionsWithinLog, To
<1> QED BY <1>1, <1>2

LEMMA StoreInvHolds == Spec => []StoreInv
BY StoreInvInit, StoreInvStep, PTL DEF Spec

LEMMA DocumentsHold == Spec => []Documents
BY DocumentsInit, DocumentsStep, StoreInvHolds, PTL DEF Spec

(* Of a block that no removal has crossed, the latest document is exactly   *)
(* what its accepted edits make of it, whoever else edits, compacts,        *)
(* creates, reads or collects at the same time: no edit overwrites another. *)
THEOREM NothingOverwritten == Spec => []NoEditLost
<1>1. StoreInv /\ Documents => NoEditLost
  <2> SUFFICES ASSUME StoreInv, Documents, NEW b \in Id \ crossed, kv[b].end # NoSnapshot
               PROVE  kv[b].end = [seq |-> Len(log[b]) - 1, blob |-> Known(b, Len(log[b]) - 1)]
    BY DEF NoEditLost
  <2>1. Full(kv[b], log[b])
    BY DEF Documents, BlocksSpellLog, Empty
  <2>2. kv[b].end.seq = Len(log[b]) - 1 /\ kv[b].end.blob = Known(b, Len(log[b]) - 1)
    BY <2>1 DEF Full, Prefix, Known
  <2>3. kv[b].end \in [seq: Nat \cup {-1}, blob: SUBSET Task]
    BY DEF StoreInv, StoreTyped, Block, Snapshot
  <2> QED BY <2>2, <2>3
<1> QED BY <1>1, StoreInvHolds, DocumentsHold, PTL

(* The start snapshot and the batches after it give every state of such a   *)
(* block since the start: a compaction that runs beside edits, under        *)
(* another lock, neither skips a batch nor drops one it did not merge.      *)
THEOREM HistoryCanBeReplayed == Spec => []HistoryReplays
<1>1. StoreInv /\ Documents => HistoryReplays
  <2> SUFFICES ASSUME StoreInv, Documents, NEW b \in Id \ crossed, kv[b].end # NoSnapshot,
                      NEW seq \in kv[b].start.seq .. kv[b].end.seq
               PROVE  kv[b].start.blob \cup Patches(Batches(b, kv[b].start.seq + 1, seq)) = Known(b, seq)
    BY DEF HistoryReplays
  <2> DEFINE from == kv[b].start.seq
             l == log[b]
             j == Len(log[b]) - 1
  <2>1. Full(kv[b], l) /\ l \in Seq(Task)
    BY DEF Documents, BlocksSpellLog, Empty, StoreInv, StoreTyped
  <2>2. /\ from \in Nat \cup {-1} /\ from + 1 \in Nat /\ j \in Nat \cup {-1}
        /\ seq \in Nat \cup {-1} /\ from <= seq /\ seq <= j
    BY <2>1 DEF Full
  <2>3. kv[b].batches = Entries(l, from + 1, j) /\ kv[b].start.blob = Prefix(l, from)
    BY <2>1 DEF Full
  <2>4. Batches(b, from + 1, seq) = Within(kv[b].batches, from + 1, seq)
    BY DEF Batches, Within
  <2>5. Known(b, seq) = Prefix(l, seq)
    BY DEF Known, Prefix
  <2> HIDE DEF from, l, j
  <2>6. Within(Entries(l, from + 1, j), from + 1, seq) = Entries(l, from + 1, seq)
    BY <2>2, EntriesWithin
  <2>7. Prefix(l, from) \cup Patches(Entries(l, from + 1, seq)) = Prefix(l, seq)
    BY <2>2, PrefixByEntries
  <2> QED BY <2>3, <2>4, <2>5, <2>6, <2>7 DEF from
<1> QED BY <1>1, StoreInvHolds, DocumentsHold, PTL

-----------------------------------------------------------------------------
(* A client that pulls from a block that nobody removes finds it advanced.  *)
LEMMA BlockAwaitsReader ==
  ASSUME StoreInv, Documents, NEW t \in Task, TaskAction(t),
         NEW u \in Task, op'[u] \in {"pull", "follow"}, id'[u] \notin removed'
  PROVE  /\ op[u] = op'[u] /\ id'[u] = id[u] /\ id[u] \notin removed /\ Learns(u)
         /\ id[u] \in Id /\ Advances(id[u])
         /\ kv[id[u]].end # NoSnapshot => Full(kv[id[u]], log[id[u]])
         /\ kv'[id[u]].end # NoSnapshot => Full(kv'[id[u]], log'[id[u]])
         /\ log[id[u]] \in Seq(Task) /\ log'[id[u]] \in Seq(Task)
<1> DEFINE b == id[u]
<1>1. op' = op /\ id'[u] = b
  <2>1. Moved(t)
    BY TasksMove DEF StoreInv
  <2>2. op[u] \in {"pull", "follow"}
    BY <2>1 DEF Moved
  <2>3. CASE u = t
    BY <2>1, <2>2, <2>3 DEF Moved
  <2>4. CASE u # t
    BY <2>1, <2>4, OthersStay DEF Moved, Same, StoreInv
  <2> QED BY <2>3, <2>4, <2>1 DEF Moved
<1>2. b \notin removed /\ b \in Id
  BY <1>1, CrossedGrows DEF StoreInv, TasksTyped
<1>3. StoreTyped'
  BY StoreStaysTyped DEF StoreInv, Next, TaskAction
<1>4. b \in Id \ crossed' /\ b \in Id \ crossed
  BY <1>1, <1>2, <1>3 DEF StoreInv, StoreTyped
<1>5. ~(RemoveClear(t) /\ id[t] = b)
  BY <1>1, RemoveClearEffect DEF StoreInv
<1>6. Advances(b) /\ (Empty(kv'[b], log'[b]) \/ Full(kv'[b], log'[b]))
  BY <1>4, <1>5, StepOnBlock
<1>7. Empty(kv[b], log[b]) \/ Full(kv[b], log[b])
  BY <1>4 DEF Documents, BlocksSpellLog
<1>8. log[b] \in Seq(Task) /\ log'[b] \in Seq(Task)
  BY <1>2, <1>3 DEF StoreInv, StoreTyped
<1> QED BY <1>1, <1>2, <1>6, <1>7, <1>8 DEF Empty, Learns

(* What a pull has read is not spoilt by the block going on.                *)
LEMMA PullKept ==
  ASSUME NEW step, NEW f, NEW todo, f \in Frame(todo), NEW how, NEW r, NEW rr,
         NEW l \in Seq(Task), NEW m \in Seq(Task), PullOK(step, f, how, r, l), Grows(l, m),
         r.end # NoSnapshot => /\ rr.end # NoSnapshot /\ Full(r, l) /\ Full(rr, m)
                               /\ r.start.seq <= rr.start.seq
  PROVE  PullOK(step, f, how, rr, m)
<1>1. f.seq \in Nat \cup {-1} /\ f.last \in Nat \cup {-1} /\ f.from \in Nat \cup {-1}
  BY FrameFields
<1>2. CASE r.end = NoSnapshot
  BY <1>2 DEF PullOK, Reads
<1>3. CASE r.end # NoSnapshot
  <2>1. /\ Full(r, l) /\ Full(rr, m) /\ r.start.seq <= rr.start.seq /\ rr.end # NoSnapshot
        /\ Len(l) \in Nat /\ Len(m) \in Nat /\ Len(l) <= Len(m)
    BY <1>3 DEF Grows
  <2>2. r.start.seq \in -1 .. (Len(l) - 1) /\ rr.start.seq \in -1 .. (Len(m) - 1)
    BY <2>1 DEF Full
  <2>3. \A n \in Nat \cup {-1} : n <= Len(l) - 1 => Prefix(m, n) = Prefix(l, n)
    BY PrefixKept
  <2>4. step = "getBatches" =>
          f.from <= rr.start.seq /\ f.from < f.seq /\ Prefix(m, f.from) \subseteq f.blob
    <3>1. SUFFICES ASSUME step = "getBatches"
                   PROVE  f.from <= rr.start.seq /\ f.from < f.seq /\ Prefix(m, f.from) \subseteq f.blob
      OBVIOUS
    <3>2. /\ f.from <= r.start.seq /\ f.from < f.seq /\ Prefix(l, f.from) \subseteq f.blob
          /\ f.seq <= Len(l) - 1
      BY <3>1 DEF PullOK, Reads
    <3>3. f.from <= rr.start.seq /\ f.from <= Len(l) - 1
      BY <1>1, <2>1, <2>2, <3>2
    <3> QED BY <1>1, <2>3, <3>2, <3>3
  <2>5. ASSUME step = "done", how = "ok"
        PROVE  /\ f.last <= f.seq /\ f.seq <= Len(m) - 1
               /\ Prefix(m, f.seq) \subseteq Prefix(m, f.last) \cup f.blob \/ Behind(f, rr)
    <3>1. /\ f.last <= f.seq /\ f.seq <= Len(l) - 1
          /\ Prefix(l, f.seq) \subseteq Prefix(l, f.last) \cup f.blob \/ Behind(f, r)
      BY <2>5 DEF PullOK
    <3>2. f.seq <= Len(m) - 1 /\ f.last <= Len(l) - 1
      BY <1>1, <2>1, <3>1
    <3>3. Prefix(m, f.seq) = Prefix(l, f.seq) /\ Prefix(m, f.last) = Prefix(l, f.last)
      BY <1>1, <2>3, <3>1, <3>2
    <3>4. Behind(f, r) => Behind(f, rr)
      BY <1>1, <2>1, <2>2 DEF Behind
    <3> QED BY <3>1, <3>2, <3>3, <3>4
  <2>6. step \in Reads => f.last < f.seq /\ f.seq <= Len(m) - 1
    BY <1>1, <2>1 DEF PullOK
  <2> QED BY <2>1, <2>4, <2>5, <2>6 DEF PullOK
<1> QED BY <1>2, <1>3

(* The last read of a pull, of the batches after `after` up to f.seq.       *)
LEMMA LastReadCatchesUp ==
  ASSUME NEW f, NEW todo, f \in Frame(todo), NEW r, NEW l \in Seq(Task), Full(r, l),
         f.last < f.seq, f.seq <= Len(l) - 1, NEW after,
         \/ after = f.last /\ f.last # -1
         \/ /\ after = f.from /\ f.from < f.seq /\ f.from <= r.start.seq
            /\ Prefix(l, f.from) \subseteq f.blob
  PROVE  LET blob == f.blob \cup Patches(Within(r.batches, after + 1, f.seq))
         IN  Prefix(l, f.seq) \subseteq Prefix(l, f.last) \cup blob \/ Behind(f, r)
<1> DEFINE start == r.start.seq
           j == Len(l) - 1
           seq == f.seq
<1>1. /\ f.seq \in Nat \cup {-1} /\ f.last \in Nat \cup {-1} /\ f.from \in Nat \cup {-1}
      /\ start \in Nat \cup {-1} /\ start + 1 \in Nat /\ j \in Nat \cup {-1} /\ seq <= j
      /\ after \in Nat \cup {-1} /\ after + 1 \in Nat /\ after < seq
  BY FrameFields DEF Full
<1>2. r.batches = Entries(l, start + 1, j)
  BY DEF Full
<1> HIDE DEF start, j, seq
<1>3. ASSUME start <= after
      PROVE  Prefix(l, after) \cup Patches(Within(r.batches, after + 1, seq)) = Prefix(l, seq)
  <2>1. Within(Entries(l, start + 1, j), after + 1, seq) = Entries(l, after + 1, seq)
    <3>1. after + 1 >= start + 1 /\ seq \in Nat \cup {-1}
      BY <1>1, <1>3 DEF seq
    <3> QED BY <1>1, <3>1, EntriesWithin
  <2>2. Prefix(l, after) \cup Patches(Entries(l, after + 1, seq)) = Prefix(l, seq)
    <3>1. after <= seq /\ seq \in Nat \cup {-1}
      BY <1>1 DEF seq
    <3> QED BY <1>1, <3>1, PrefixByEntries
  <2> QED BY <1>2, <2>1, <2>2
<1>4. ASSUME after <= start, start <= f.last
      PROVE  Prefix(l, seq) \subseteq Prefix(l, f.last) \cup Patches(Within(r.batches, after + 1, seq))
  <2>1. start <= seq /\ seq \in Nat \cup {-1}
    BY <1>1, <1>4 DEF seq
  <2>2. Within(Entries(l, start + 1, j), after + 1, seq) = Entries(l, start + 1, seq)
    <3>1. after + 1 <= start + 1
      BY <1>1, <1>4
    <3> QED BY <1>1, <2>1, <3>1, EntriesWithin
  <2>3. Prefix(l, start) \cup Patches(Entries(l, start + 1, seq)) = Prefix(l, seq)
    BY <1>1, <2>1, PrefixByEntries
  <2>4. Prefix(l, start) \subseteq Prefix(l, f.last)
    BY <1>1, <1>4, PrefixByEntries
  <2> QED BY <1>2, <2>2, <2>3, <2>4
<1>5. CASE after = f.last /\ f.last # -1
  <2>1. CASE start <= after
    BY <1>3, <1>5, <2>1 DEF seq
  <2>2. CASE ~(start <= after)
    BY <1>1, <1>5, <2>2 DEF Behind, start
  <2> QED BY <2>1, <2>2
<1>6. CASE /\ after = f.from /\ f.from <= start
           /\ Prefix(l, f.from) \subseteq f.blob
  <2>1. CASE start <= after
    BY <1>3, <1>6, <2>1 DEF seq
  <2>2. CASE ~(start <= after) /\ start <= f.last
    BY <1>4, <1>6, <2>2 DEF seq
  <2>3. CASE ~(start <= after) /\ ~(start <= f.last)
    BY <1>1, <1>6, <2>3 DEF Behind, start
  <2> QED BY <2>1, <2>2, <2>3
<1> QED BY <1>5, <1>6 DEF start

(* A pull learns the number of the last patch, which the block has.         *)
LEMMA LastSeqKnown ==
  ASSUME NEW r, NEW l \in Seq(Task), Full(r, l), NEW x \in r.batches
  PROVE  x.seq \in Nat /\ x.seq <= Len(l) - 1
<1>1. r.start.seq + 1 \in Nat /\ Len(l) \in Nat
  BY DEF Full
<1>2. PICK k \in (r.start.seq + 1) .. (Len(l) - 1) : x = Entry(l, k)
  BY DEF Full, Entries
<1> QED BY <1>1, <1>2 DEF Entry

LEMMA PullsStayConsistent ==
  ASSUME StoreInv, Documents, PullsConsistent, NEW t \in Task, TaskAction(t)
  PROVE  PullsConsistent'
<1>1. SUFFICES ASSUME NEW u \in Task, op'[u] \in {"pull", "follow"}, id'[u] \notin removed'
               PROVE  PullOK(pc'[u], frame'[u], outcome'[u], kv'[id'[u]], log'[id'[u]])
  BY DEF PullsConsistent, Learns
<1> DEFINE b == id[u]
           f == frame[u]
<1>2. /\ op[u] = op'[u] /\ id'[u] = b /\ b \notin removed /\ Learns(u)
      /\ b \in Id /\ Advances(b)
      /\ kv[b].end # NoSnapshot => Full(kv[b], log[b])
      /\ kv'[b].end # NoSnapshot => Full(kv'[b], log'[b])
      /\ log[b] \in Seq(Task) /\ log'[b] \in Seq(Task)
  BY <1>1, BlockAwaitsReader
<1>3. PullOK(pc[u], f, outcome[u], kv[b], log[b])
  BY <1>2 DEF PullsConsistent
<1>4. f \in Frame(f.todo) /\ DOMAIN pc = Task /\ DOMAIN frame = Task /\ DOMAIN outcome = Task
  BY DEF StoreInv, TasksTyped
<1>5. PullOK(pc[u], f, outcome[u], kv'[b], log'[b])
  BY <1>2, <1>3, <1>4, PullKept DEF Advances
<1>6. CASE pc'[u] = pc[u] /\ frame'[u] = f /\ outcome'[u] = outcome[u]
  BY <1>2, <1>5, <1>6
<1>7. CASE u # t
  BY <1>6, <1>7, OthersStay DEF Same, StoreInv
<1>8. CASE u = t
  <2>1. Arrives(t) /\ pc'[t] \in {"done", "listen"} \cup Pulls
    <3>1. Moved(t)
      BY TasksMove DEF StoreInv
    <3>2. op[t] \in {"pull", "follow"}
      BY <1>1, <1>2, <1>8
    <3> QED BY <3>1, <3>2, Arrivals DEF Moved, Steps, StoreInv
  <2>2. CASE Listen(t)
    BY <1>2, <1>3, <1>4, <1>8, <2>2 DEF Listen, At, Goto, PullOK, Reads
  <2>3. CASE PullSeq(t)
    BY <1>2, <1>3, <1>4, <1>8, <2>3 DEF PullSeq, At, Goto, PullOK, Reads
  <2>4. CASE Leave(t)
    BY <1>6, <1>8, <2>4 DEF Leave
  <2>5. CASE SeqRead(t)
    <3> DEFINE seqs == {x.seq : x \in kv[b].batches}
    <3>1. /\ pc[t] = "seqRead" /\ kv' = kv /\ log' = log /\ outcome[t] = "none"
      BY <1>3, <1>8, <2>5 DEF SeqRead, At, kvVars, PullOK
    <3>2. CASE seqs = {} /\ Answer(t, "NOT_FOUND") /\ frame' = frame
      BY <1>2, <1>4, <1>8, <3>2 DEF Answer, PullOK, Reads
    <3>3. CASE \E seq \in seqs : \E last \in -1 .. seq :
                 /\ Remember(t, [frame[t] EXCEPT !.seq = seq, !.last = last])
                 /\ \/ last = seq /\ Answer(t, "ok")
                    \/ last < seq /\ NeedsSnapshot(last, seq) /\ Goto(t, "getStart")
                    \/ last < seq /\ ~NeedsSnapshot(last, seq) /\ Goto(t, "scan")
      <4>1. PICK x \in kv[b].batches : \E last \in -1 .. x.seq :
                 /\ Remember(t, [frame[t] EXCEPT !.seq = x.seq, !.last = last])
                 /\ \/ last = x.seq /\ Answer(t, "ok")
                    \/ last < x.seq /\ NeedsSnapshot(last, x.seq) /\ Goto(t, "getStart")
                    \/ last < x.seq /\ ~NeedsSnapshot(last, x.seq) /\ Goto(t, "scan")
        BY <3>3
      <4> DEFINE seq == x.seq
      <4>2. PICK last \in -1 .. seq :
                 /\ Remember(t, [frame[t] EXCEPT !.seq = seq, !.last = last])
                 /\ \/ last = seq /\ Answer(t, "ok")
                    \/ last < seq /\ NeedsSnapshot(last, seq) /\ Goto(t, "getStart")
                    \/ last < seq /\ ~NeedsSnapshot(last, seq) /\ Goto(t, "scan")
        BY <4>1
      <4>3. kv[b].end # NoSnapshot /\ Full(kv[b], log[b])
        <5>1. Empty(kv[b], log[b]) \/ Full(kv[b], log[b])
          <6>1. b \notin crossed
            BY <1>2 DEF StoreInv, StoreTyped
          <6> QED BY <1>2, <6>1 DEF Documents, BlocksSpellLog
        <5> QED BY <5>1 DEF Empty, Full
      <4>4. seq \in Nat /\ seq <= Len(log[b]) - 1
        BY <1>2, <4>3, LastSeqKnown
      <4> HIDE DEF seq
      <4>5. frame'[t].seq = seq /\ frame'[t].last = last
        BY <1>4, <1>8, <4>2 DEF Remember, Frame
      <4>6. CASE last = seq /\ Answer(t, "ok")
        <5>1. pc'[t] = "done" /\ outcome'[t] = "ok"
          BY <1>4, <1>8, <4>6 DEF Answer
        <5> QED BY <1>2, <1>8, <3>1, <4>3, <4>4, <4>5, <4>6, <5>1 DEF PullOK, Reads
      <4>7. CASE last < seq /\ NeedsSnapshot(last, seq) /\ Goto(t, "getStart")
        <5>1. pc'[t] = "getStart" /\ outcome'[t] = "none"
          BY <1>4, <1>8, <3>1, <4>7 DEF Goto
        <5> QED BY <1>2, <1>8, <3>1, <4>3, <4>4, <4>5, <4>7, <5>1 DEF PullOK, Reads
      <4>8. CASE last < seq /\ ~NeedsSnapshot(last, seq) /\ Goto(t, "scan")
        <5>1. pc'[t] = "scan" /\ outcome'[t] = "none" /\ last # -1
          BY <1>4, <1>8, <3>1, <4>8 DEF Goto, NeedsSnapshot
        <5> QED BY <1>2, <1>8, <3>1, <4>3, <4>4, <4>5, <4>8, <5>1 DEF PullOK, Reads
      <4> QED BY <4>2, <4>6, <4>7, <4>8
    <3> QED BY <1>8, <2>5, <3>2, <3>3 DEF SeqRead
  <2>6. CASE GetStart(t)
    <3> DEFINE start == kv[b].start
    <3>1. /\ pc[t] = "getStart" /\ kv' = kv /\ log' = log /\ outcome[t] = "none"
      BY <1>3, <1>8, <2>6 DEF GetStart, At, kvVars, PullOK
    <3>2. kv[b].end # NoSnapshot /\ f.last < f.seq /\ f.seq <= Len(log[b]) - 1
      BY <1>3, <1>8, <3>1 DEF PullOK, Reads
    <3>3. Full(kv[b], log[b])
      BY <1>2, <3>2
    <3>4. start # NoSnapshot /\ start.seq \in Nat \cup {-1} /\ start.blob = Prefix(log[b], start.seq)
      BY <3>3 DEF Full
    <3>5. /\ frame' = [frame EXCEPT ![t] = [frame[t] EXCEPT !.from = start.seq, !.blob = start.blob]]
          /\ IF start.seq < frame[t].seq THEN Goto(t, "getBatches") ELSE Answer(t, "ok")
      BY <1>8, <2>6, <3>4 DEF GetStart, Remember
    <3>6. /\ frame'[t].seq = f.seq /\ frame'[t].last = f.last
          /\ frame'[t].from = start.seq /\ frame'[t].blob = start.blob
      BY <1>4, <1>8, <3>5 DEF Frame
    <3>7. f.seq \in Nat \cup {-1} /\ f.last \in Nat \cup {-1}
      BY <1>4, FrameFields
    <3>8. CASE start.seq < f.seq
      <4>1. pc'[t] = "getBatches" /\ outcome'[t] = "none"
        BY <1>4, <1>8, <3>1, <3>5, <3>8 DEF Goto
      <4> QED BY <1>2, <1>8, <3>1, <3>2, <3>4, <3>6, <3>8, <4>1 DEF PullOK, Reads
    <3>9. CASE ~(start.seq < f.seq)
      <4>1. pc'[t] = "done" /\ outcome'[t] = "ok"
        BY <1>4, <1>8, <3>5, <3>9 DEF Answer
      <4>2. f.seq <= start.seq /\ f.last <= f.seq
        BY <3>2, <3>4, <3>7, <3>9
      <4>3. Prefix(log[b], f.seq) \subseteq start.blob
        BY <3>4, <3>7, <4>2, PrefixByEntries
      <4> QED BY <1>2, <1>8, <3>1, <3>2, <3>6, <4>1, <4>2, <4>3 DEF PullOK, Reads
    <3> QED BY <3>8, <3>9
  <2>7. CASE ReadBatches(t)
    <3> DEFINE after == IF pc[t] = "scan" THEN f.last ELSE f.from
               read == Patches(Within(kv[b].batches, after + 1, f.seq))
    <3>1. /\ pc[t] \in {"getBatches", "scan"} /\ kv' = kv /\ log' = log
          /\ pc'[t] = "done" /\ outcome'[t] = "ok"
      BY <1>4, <1>8, <2>7 DEF ReadBatches, At, Answer, kvVars
    <3>2. frame' = [frame EXCEPT ![t] = [frame[t] EXCEPT !.blob = frame[t].blob \cup read]]
      BY <1>4, <1>8, <2>7 DEF ReadBatches, Remember, Batches, Within, Frame
    <3>3. /\ frame'[t].seq = f.seq /\ frame'[t].last = f.last /\ frame'[t].from = f.from
          /\ frame'[t].blob = f.blob \cup read
      BY <1>4, <1>8, <3>2 DEF Frame
    <3>4. /\ kv[b].end # NoSnapshot /\ f.last < f.seq /\ f.seq <= Len(log[b]) - 1
          /\ \/ after = f.last /\ f.last # -1
             \/ /\ after = f.from /\ f.from < f.seq /\ f.from <= kv[b].start.seq
                /\ Prefix(log[b], f.from) \subseteq f.blob
      BY <1>3, <1>8, <3>1 DEF PullOK, Reads
    <3>5. Full(kv[b], log[b])
      BY <1>2, <3>4
    <3> HIDE DEF after
    <3>6. Prefix(log[b], f.seq) \subseteq Prefix(log[b], f.last) \cup (f.blob \cup read) \/ Behind(f, kv[b])
      BY <1>2, <1>4, <3>4, <3>5, LastReadCatchesUp
    <3>7. f.last <= f.seq /\ (Behind(f, kv[b]) <=> Behind(frame'[t], kv'[b]))
      <4>1. f.seq \in Nat \cup {-1} /\ f.last \in Nat \cup {-1}
        BY <1>4, FrameFields
      <4> QED BY <3>1, <3>3, <3>4, <4>1 DEF Behind
    <3> HIDE DEF read
    <3> QED BY <1>2, <1>8, <3>1, <3>3, <3>4, <3>6, <3>7 DEF PullOK, Reads
  <2> QED BY <1>1, <1>2, <1>8, <2>1, <2>2, <2>3, <2>4, <2>5, <2>6, <2>7 DEF Arrives, Pulls, Reads
<1> QED BY <1>7, <1>8

LEMMA PullsInit ==
  Init => PullsConsistent
<1> SUFFICES ASSUME Init, NEW t \in Task, op[t] \in {"pull", "follow"}
             PROVE  PullOK(pc[t], frame[t], outcome[t], kv[id[t]], log[id[t]])
  BY DEF PullsConsistent, Learns
<1>1. /\ pc[t] \in {"seq", "listen"} /\ outcome[t] = "none"
      /\ frame[t].seq = -1 /\ frame[t].last = -1 /\ frame[t].from = -1
  BY DEF Init, FirstStep, EmptyFrame
<1> QED BY <1>1 DEF PullOK, Reads

LEMMA PullsStep ==
  StoreInv /\ Documents /\ PullsConsistent /\ [Next]_vars => PullsConsistent'
<1> SUFFICES ASSUME StoreInv, Documents, PullsConsistent, [Next]_vars PROVE PullsConsistent'
  OBVIOUS
<1>1. ASSUME ~\E t \in Task : TaskAction(t) PROVE PullsConsistent'
  <2>1. /\ kv' = kv /\ log' = log /\ removed' = removed /\ op' = op /\ id' = id /\ pc' = pc
        /\ frame' = frame /\ outcome' = outcome
    BY <1>1, NobodyMoves DEF kvVars
  <2> QED BY <2>1 DEF PullsConsistent, Learns
<1> QED BY <1>1, PullsStayConsistent

LEMMA PullsHold == Spec => []PullsConsistent
BY PullsInit, PullsStep, StoreInvHolds, DocumentsHold, PTL DEF Spec

(* A pull that reads the number, the snapshot and the batches at different  *)
(* times, without a lock, still leaves the client with every patch up to    *)
(* the number it was told, unless a compaction moves the start past what it *)
(* had meanwhile, for any number of edits, creations and pulls beside it.   *)
THEOREM PullsCatchUp == Spec => []PullCatchesUp
<1>1. PullsConsistent => PullCatchesUp
  <2> SUFFICES ASSUME PullsConsistent, NEW t \in Task, Pulled(t) PROVE CaughtUp(t) \/ Overtaken(t)
    BY DEF PullCatchesUp
  <2>1. PullOK(pc[t], frame[t], outcome[t], kv[id[t]], log[id[t]]) /\ outcome[t] = "ok"
    BY DEF PullsConsistent, Pulled, Learns
  <2>2. \/ Prefix(log[id[t]], frame[t].seq) \subseteq Prefix(log[id[t]], frame[t].last) \cup frame[t].blob
        \/ Behind(frame[t], kv[id[t]])
    BY <2>1 DEF PullOK
  <2> QED BY <2>2 DEF Prefix, Behind, CaughtUp, Overtaken, Known
<1> QED BY <1>1, PullsHold, PTL

-----------------------------------------------------------------------------
(* What happens to the events of a block b and to those who listen to it.   *)
LEMMA ComingTail ==
  ASSUME PubsubTyped, publishing # <<>>, publishing' = Tail(publishing), NEW b
  PROVE  Coming(publishing, b) \subseteq Coming(publishing', b) \cup
           (IF Head(publishing).block = b THEN {Head(publishing).patch} ELSE {})
<1>1. ASSUME NEW i \in 1 .. Len(publishing), publishing[i].block = b, i # 1
      PROVE  publishing[i].patch \in Coming(publishing', b)
  <2>1. publishing \in Seq(Message) /\ Len(publishing) \in Nat
    BY DEF PubsubTyped
  <2>2. i - 1 \in 1 .. Len(publishing') /\ publishing'[i - 1] = publishing[i]
    BY <1>1, <2>1
  <2> QED BY <1>1, <2>2 DEF Coming
<1>2. Head(publishing) = publishing[1]
  BY DEF PubsubTyped
<1> QED BY <1>1, <1>2 DEF Coming

LEMMA ComingAppend ==
  ASSUME PubsubTyped, NEW x, publishing' = Append(publishing, x), NEW b
  PROVE  /\ Coming(publishing, b) \subseteq Coming(publishing', b)
         /\ x.block = b => x.patch \in Coming(publishing', b)
<1>1. publishing \in Seq(Message) /\ Len(publishing) \in Nat
  BY DEF PubsubTyped
<1>2. /\ Len(publishing') = Len(publishing) + 1 /\ publishing'[Len(publishing) + 1] = x
      /\ \A i \in 1 .. Len(publishing) : publishing'[i] = publishing[i]
  BY <1>1
<1>3. /\ Len(publishing) + 1 \in 1 .. Len(publishing')
      /\ \A i \in 1 .. Len(publishing) : i \in 1 .. Len(publishing')
  BY <1>1, <1>2
<1> QED BY <1>2, <1>3 DEF Coming

LEMMA RestStaysHeard ==
  ASSUME NEW l \in Seq(Task), NEW m \in Seq(Task), NEW seq, NEW known, NEW more,
         RestHeard(l, seq, known), known \subseteq more, Grows(l, m),
         \A k \in 1 .. Len(m) : k > Len(l) => m[k] \in more
  PROVE  RestHeard(m, seq, more)
<1>1. ASSUME NEW k \in 1 .. Len(m), k > seq + 1 PROVE m[k] \in more
  <2>1. CASE k > Len(l)
    BY <2>1
  <2>2. CASE ~(k > Len(l))
    <3>1. k \in 1 .. Len(l)
      BY <2>2
    <3> QED BY <1>1, <3>1 DEF RestHeard, Grows
  <2> QED BY <2>1, <2>2
<1> QED BY <1>1 DEF RestHeard

LEMMA FollowKept ==
  ASSUME NEW step, NEW f, NEW how, NEW r, NEW rr, NEW l \in Seq(Task), NEW m \in Seq(Task),
         NEW known, NEW more, FollowOK(step, f, how, r, l, known), Grows(l, m),
         r.end # NoSnapshot => /\ rr.end # NoSnapshot /\ Full(r, l) /\ Full(rr, m)
                               /\ r.start.seq <= rr.start.seq,
         known \subseteq more, \A k \in 1 .. Len(m) : k > Len(l) => m[k] \in more
  PROVE  FollowOK(step, f, how, rr, m, more)
<1>1. /\ RestHeard(l, f.seq, known) => RestHeard(m, f.seq, more)
      /\ RestHeard(l, -1, known) => RestHeard(m, -1, more)
  BY RestStaysHeard
<1>2. r.end # NoSnapshot /\ r.start.seq >= 0 => rr.end # NoSnapshot /\ rr.start.seq >= 0
  <2>1. r.end # NoSnapshot => r.start.seq \in Int /\ rr.start.seq \in Int
    BY DEF Full
  <2> QED BY <2>1
<1> QED BY <1>1, <1>2 DEF FollowOK

(* Who does not publish, listen or leave is silent.                         *)
LEMMA SilentSteps ==
  ASSUME NEW t \in Task, TaskAction(t),
         ~Listen(t), ~Leave(t), ~CreateWrite(t), ~PushWrite(t)
  PROVE  Silent
<1>1. CASE Create(t) \/ CreateCheck(t) \/ EditGet(t) \/ PushCheck(t)
  BY <1>1 DEF Create, CreateCheck, EditGet, PushCheck
<1>2. CASE Compact(t) \/ CompactGet(t) \/ CompactRead(t) \/ CompactWrite(t)
  BY <1>2 DEF Compact, CompactGet, CompactRead, CompactWrite
<1>3. CASE PullSeq(t) \/ SeqRead(t) \/ GetStart(t) \/ ReadBatches(t)
  BY <1>3 DEF PullSeq, SeqRead, GetStart, ReadBatches
<1>4. CASE RemoveExists(t) \/ RemoveClear(t) \/ GcPicks(t) \/ Expire(t)
  BY <1>4 DEF RemoveExists, RemoveClear, GcPicks, Expire
<1> QED BY <1>1, <1>2, <1>3, <1>4 DEF TaskAction

(* Every patch that a step adds to a log is sent to those who listen.       *)
LEMMA EventsReachFollowers ==
  ASSUME StoreInv, Documents, NEW t \in Task, TaskAction(t),
         NEW u \in Task, NEW b \in Id \ removed', u \notin left'
  PROVE  /\ u \notin left
         /\ u \in observers[b] => u \in observers'[b]
         /\ heard[u] \cup Coming(publishing, b) \subseteq heard'[u] \cup Coming(publishing', b)
         /\ \A k \in 1 .. Len(log'[b]) : k > Len(log[b]) => log'[b][k] \in Coming(publishing', b)
<1>1. PubsubTyped /\ log[b] \in Seq(Task)
  BY DEF StoreInv, StoreTyped
<1>2. \A k \in 1 .. Len(log[b]) : ~(k > Len(log[b]))
  BY <1>1
<1>3. CASE Listen(t)
  <2>1. /\ publishing' = publishing /\ heard' = heard /\ left' = left /\ log' = log
        /\ observers' = [observers EXCEPT ![id[t]] = @ \cup {t}]
    BY <1>3 DEF Listen, kvVars, Subscribed
  <2>2. Coming(publishing', b) = Coming(publishing, b)
    BY <2>1 DEF Coming
  <2>3. observers[b] \subseteq observers'[b]
    BY <1>1, <2>1 DEF PubsubTyped
  <2> QED BY <1>2, <2>1, <2>2, <2>3
<1>4. CASE Leave(t)
  <2>1. /\ publishing' = publishing /\ log' = log /\ left' = left \cup {t}
        /\ observers' = [observers EXCEPT ![id[t]] = @ \ {t}]
        /\ heard' = [heard EXCEPT ![t] = {}]
    BY <1>4 DEF Leave, kvVars
  <2>2. Coming(publishing', b) = Coming(publishing, b)
    BY <2>1 DEF Coming
  <2>3. u # t /\ heard'[u] = heard[u] /\ (u \in observers[b] => u \in observers'[b])
    BY <1>1, <2>1 DEF PubsubTyped
  <2> QED BY <1>2, <2>1, <2>2, <2>3
<1>5. CASE CreateWrite(t)
  <2>1. /\ UNCHANGED <<observers, heard, left>>
        /\ IF op[t] = "create" THEN UNCHANGED publishing
                               ELSE publishing' = Append(publishing, [block |-> id[t], patch |-> t])
    BY <1>5 DEF CreateWrite, pubsubVars, Publish
  <2>2. /\ log'[id[t]] = IF op[t] = "create" THEN <<>> ELSE <<t>>
        /\ \A c \in Id \ {id[t]} : log'[c] = log[c]
    <3>1. log'[id[t]] = IF op[t] = "create" THEN <<>> ELSE <<t>>
      BY <1>5, CreateWriteEffect DEF StoreInv
    <3>2. \A c \in Id \ {id[t]} : kv'[c] = kv[c] /\ log'[c] = log[c]
      BY <1>5, CreateWriteEffect DEF StoreInv
    <3> QED BY <3>1, <3>2
  <2>3. CASE op[t] = "create"
    <3>1. Coming(publishing', b) = Coming(publishing, b)
      BY <2>1, <2>3 DEF Coming
    <3>2. CASE b = id[t]
      BY <2>1, <2>2, <2>3, <3>1, <3>2
    <3>3. CASE b # id[t]
      BY <1>2, <2>1, <2>2, <3>1, <3>3
    <3> QED BY <3>2, <3>3
  <2>4. CASE op[t] # "create"
    <3> DEFINE x == [block |-> id[t], patch |-> t]
    <3>1. publishing' = Append(publishing, x) /\ x.block = id[t] /\ x.patch = t
      BY <2>1, <2>4
    <3> HIDE DEF x
    <3>2. Coming(publishing, b) \subseteq Coming(publishing', b) /\ (id[t] = b => t \in Coming(publishing', b))
      BY <1>1, <3>1, ComingAppend
    <3>3. CASE b = id[t]
      <4>1. log'[b] = <<t>>
        BY <2>2, <2>4, <3>3
      <4>2. \A k \in 1 .. Len(log'[b]) : log'[b][k] = t
        BY <4>1
      <4> QED BY <2>1, <3>2, <3>3, <4>2
    <3>4. CASE b # id[t]
      BY <1>2, <2>1, <2>2, <3>2, <3>4
    <3> QED BY <3>3, <3>4
  <2> QED BY <2>3, <2>4
<1>6. CASE PushWrite(t)
  <2> DEFINE x == [block |-> id[t], patch |-> t]
  <2>1. /\ UNCHANGED <<observers, heard, left>>
        /\ publishing' = Append(publishing, x) /\ x.block = id[t] /\ x.patch = t
    BY <1>6 DEF PushWrite, pubsubVars, Publish
  <2> HIDE DEF x
  <2>2. Coming(publishing, b) \subseteq Coming(publishing', b) /\ (id[t] = b => t \in Coming(publishing', b))
    BY <1>1, <2>1, ComingAppend
  <2>3. \A c \in Id \ {id[t]} : kv'[c] = kv[c] /\ log'[c] = log[c]
    BY <1>6, PushWriteEffect DEF StoreInv
  <2>4. log'[id[t]] = Append(log[id[t]], t)
    BY <1>6, PushWriteEffect DEF StoreInv
  <2>5. CASE b = id[t]
    <3>1. \A k \in 1 .. Len(log'[b]) : k > Len(log[b]) => log'[b][k] = t
      BY <1>1, <2>4, <2>5
    <3> QED BY <2>1, <2>2, <2>5, <3>1
  <2>6. CASE b # id[t]
    BY <1>2, <2>1, <2>2, <2>3, <2>6
  <2> QED BY <2>5, <2>6
<1>7. CASE ~Listen(t) /\ ~Leave(t) /\ ~CreateWrite(t) /\ ~PushWrite(t)
  <2>1. UNCHANGED <<observers, heard, left, publishing>>
    BY <1>7, SilentSteps DEF Silent, pubsubVars
  <2>2. log'[b] = log[b]
    <3>1. CASE CompactWrite(t)
      BY <3>1 DEF CompactWrite
    <3>2. CASE RemoveClear(t)
      <4>1. b # id[t]
        BY <3>2, RemoveClearEffect DEF StoreInv
      <4> QED BY <3>2, <4>1, RemoveClearEffect DEF StoreInv
    <3>3. CASE UNCHANGED kvVars
      BY <3>3 DEF kvVars
    <3> QED BY <1>7, <3>1, <3>2, <3>3, ReadersLeaveStore
  <2>3. Coming(publishing', b) = Coming(publishing, b)
    BY <2>1 DEF Coming
  <2> QED BY <1>2, <2>1, <2>2, <2>3
<1> QED BY <1>3, <1>4, <1>5, <1>6, <1>7

(* The number that a pull learns is that of the last patch.                 *)
LEMMA LastSeqIsLast ==
  ASSUME NEW r, NEW l \in Seq(Task), Full(r, l), NEW x \in r.batches,
         \A y \in r.batches : y.seq <= x.seq
  PROVE  x.seq = Len(l) - 1
<1> DEFINE i == r.start.seq + 1
           j == Len(l) - 1
<1>1. i \in Nat /\ j \in Int /\ r.batches = Entries(l, i, j)
  BY DEF Full
<1> HIDE DEF i, j
<1>2. PICK k \in i .. j : x = Entry(l, k)
  BY <1>1 DEF Entries
<1>3. Entry(l, j) \in r.batches
  <2>1. j \in i .. j
    BY <1>1, <1>2
  <2> QED BY <1>1, <2>1 DEF Entries
<1>4. Entry(l, j).seq = j /\ x.seq = k
  BY <1>2 DEF Entry
<1>5. j <= k
  BY <1>3, <1>4
<1> QED BY <1>1, <1>2, <1>4, <1>5 DEF j

LEMMA FollowersStayInformed ==
  ASSUME StoreInv, Documents, PullsConsistent, FollowersHear, NEW t \in Task, TaskAction(t)
  PROVE  FollowersHear'
<1>1. SUFFICES ASSUME NEW u \in Task, op'[u] = "follow", id'[u] \notin removed', u \notin left',
                      pc'[u] # "listen"
               PROVE  /\ u \in observers'[id'[u]]
                      /\ FollowOK(pc'[u], frame'[u], outcome'[u], kv'[id'[u]], log'[id'[u]],
                                  heard'[u] \cup Coming(publishing', id'[u]))
  BY DEF FollowersHear, Learns
<1> DEFINE b == id[u]
           f == frame[u]
           known == heard[u] \cup Coming(publishing, b)
           more == heard'[u] \cup Coming(publishing', b)
<1>2. /\ op[u] = "follow" /\ id'[u] = b /\ b \notin removed /\ Learns(u)
      /\ b \in Id /\ Advances(b)
      /\ kv[b].end # NoSnapshot => Full(kv[b], log[b])
      /\ kv'[b].end # NoSnapshot => Full(kv'[b], log'[b])
      /\ log[b] \in Seq(Task) /\ log'[b] \in Seq(Task)
  BY <1>1, BlockAwaitsReader
<1>3. /\ u \notin left /\ (u \in observers[b] => u \in observers'[b])
      /\ known \subseteq more
      /\ \A k \in 1 .. Len(log'[b]) : k > Len(log[b]) => log'[b][k] \in more
  <2>1. b \in Id \ removed'
    BY <1>1, <1>2
  <2> QED BY <1>1, <2>1, EventsReachFollowers
<1> HIDE DEF known, more
<1>4. f \in Frame(f.todo) /\ DOMAIN pc = Task /\ DOMAIN frame = Task /\ DOMAIN outcome = Task
      /\ observers \in [Id -> SUBSET Task]
  BY DEF StoreInv, TasksTyped, PubsubTyped
<1>5. PullOK(pc[u], f, outcome[u], kv[b], log[b])
  BY <1>2 DEF PullsConsistent
<1>6. pc[u] # "listen" => u \in observers[b] /\ FollowOK(pc[u], f, outcome[u], kv[b], log[b], known)
  BY <1>2, <1>3 DEF FollowersHear, known
<1>7. SUFFICES u \in observers'[b] /\ FollowOK(pc'[u], frame'[u], outcome'[u], kv'[b], log'[b], more)
  BY <1>2 DEF more
<1>8. pc[u] # "listen" => FollowOK(pc[u], f, outcome[u], kv'[b], log'[b], more)
  <2>1. SUFFICES ASSUME pc[u] # "listen" PROVE FollowOK(pc[u], f, outcome[u], kv'[b], log'[b], more)
    OBVIOUS
  <2>2. FollowOK(pc[u], f, outcome[u], kv[b], log[b], known)
    BY <1>6, <2>1
  <2> QED BY <1>2, <1>3, <2>2, FollowKept DEF Advances
<1>9. CASE pc'[u] = pc[u] /\ frame'[u] = f /\ outcome'[u] = outcome[u]
  BY <1>1, <1>3, <1>6, <1>8, <1>9
<1>10. CASE u # t
  BY <1>9, <1>10, OthersStay DEF Same, StoreInv
<1>11. CASE u = t
  <2>1. Arrives(t) /\ pc'[t] \in {"done"} \cup Pulls
    <3>1. Moved(t)
      BY TasksMove DEF StoreInv
    <3> QED BY <1>1, <1>2, <1>11, <3>1, Arrivals DEF Moved, Steps, StoreInv
  <2>2. CASE Listen(t)
    <3>1. pc'[t] = "seq" /\ t \in observers'[b]
      BY <1>2, <1>4, <1>11, <2>2 DEF Listen, Goto, Subscribed
    <3> QED BY <1>11, <3>1 DEF FollowOK, Reads
  <2>3. CASE PullSeq(t)
    <3>1. pc'[t] = "seqRead" /\ pc[t] # "listen"
      BY <1>4, <2>3 DEF PullSeq, At, Goto
    <3> QED BY <1>3, <1>6, <1>11, <3>1 DEF FollowOK, Reads
  <2>4. CASE Leave(t)
    BY <1>9, <1>11, <2>4 DEF Leave
  <2>5. CASE SeqRead(t)
    <3>1. /\ pc[t] = "seqRead" /\ kv' = kv /\ log' = log
          /\ f.seq = -1 /\ f.last = -1 /\ f.from = -1
      BY <1>5, <1>11, <2>5 DEF SeqRead, At, kvVars, PullOK
    <3>2. t \in observers'[b]
      BY <1>3, <1>6, <1>11, <3>1
    <3>3. Empty(kv[b], log[b]) \/ Full(kv[b], log[b])
      <4>1. b \notin crossed
        BY <1>2 DEF StoreInv, StoreTyped
      <4> QED BY <1>2, <4>1 DEF Documents, BlocksSpellLog
    <3>4. CASE /\ {x.seq : x \in kv[b].batches} = {}
               /\ Answer(t, "NOT_FOUND") /\ frame' = frame
      <4>1. pc'[t] = "done" /\ outcome'[t] = "NOT_FOUND" /\ kv[b].batches = {}
        BY <1>4, <3>4 DEF Answer
      <4>2. RestHeard(log[b], -1, more) \/ (kv[b].end # NoSnapshot /\ kv[b].start.seq >= 0)
        <5>1. CASE Len(log[b]) = 0
          BY <5>1 DEF RestHeard
        <5>2. CASE Len(log[b]) # 0
          <6>1. Full(kv[b], log[b]) /\ Len(log[b]) \in Nat
            BY <1>2, <3>3, <5>2 DEF Empty
          <6> DEFINE i == kv[b].start.seq + 1
                     j == Len(log[b]) - 1
          <6>2. i \in Nat /\ j \in Nat /\ Entries(log[b], i, j) = {}
            BY <4>1, <5>2, <6>1 DEF Full
          <6>3. ~(i <= j)
            <7>1. SUFFICES ASSUME i <= j PROVE FALSE
              OBVIOUS
            <7>2. j \in i .. j
              BY <6>2, <7>1
            <7>3. Entry(log[b], j) \in Entries(log[b], i, j)
              BY <7>2 DEF Entries
            <7> QED BY <6>2, <7>3
          <6> QED BY <6>1, <6>2, <6>3 DEF Full
        <5> QED BY <5>1, <5>2
      <4> QED BY <1>11, <3>1, <3>2, <3>4, <4>1, <4>2 DEF FollowOK, Reads
    <3>5. CASE \E seq \in {x.seq : x \in kv[b].batches} : \E last \in -1 .. seq :
                 /\ \A s \in {x.seq : x \in kv[b].batches} : s <= seq
                 /\ Remember(t, [frame[t] EXCEPT !.seq = seq, !.last = last])
                 /\ \/ Answer(t, "ok") \/ Goto(t, "getStart") \/ Goto(t, "scan")
      <4>1. PICK x \in kv[b].batches : \E last \in -1 .. x.seq :
                 /\ \A s \in {y.seq : y \in kv[b].batches} : s <= x.seq
                 /\ Remember(t, [frame[t] EXCEPT !.seq = x.seq, !.last = last])
                 /\ \/ Answer(t, "ok") \/ Goto(t, "getStart") \/ Goto(t, "scan")
        BY <3>5
      <4>2. \A y \in kv[b].batches : y.seq <= x.seq
        BY <4>1
      <4>3. Full(kv[b], log[b])
        BY <3>3 DEF Empty
      <4>4. x.seq = Len(log[b]) - 1
        BY <1>2, <4>2, <4>3, LastSeqIsLast
      <4>5. frame'[t].seq = x.seq
        BY <1>4, <4>1 DEF Remember, Frame
      <4>6. RestHeard(log[b], frame'[t].seq, more)
        BY <1>2, <4>4, <4>5 DEF RestHeard
      <4>7. pc'[t] \in {"getStart", "scan"} \/ (pc'[t] = "done" /\ outcome'[t] = "ok")
        BY <1>4, <4>1 DEF Answer, Goto
      <4> QED BY <1>11, <3>1, <3>2, <4>6, <4>7 DEF FollowOK, Reads
    <3> QED BY <1>11, <2>5, <3>4, <3>5 DEF SeqRead
  <2>6. CASE GetStart(t)
    <3>1. pc[t] = "getStart"
      BY <2>6 DEF GetStart, At
    <3>2. kv[b].end # NoSnapshot
      BY <1>5, <1>11, <3>1 DEF PullOK, Reads
    <3>3. kv[b].start # NoSnapshot
      BY <1>2, <3>2 DEF Full
    <3>4. /\ frame' = [frame EXCEPT ![t] = [frame[t] EXCEPT !.from = kv[b].start.seq, !.blob = kv[b].start.blob]]
          /\ Goto(t, "getBatches") \/ Answer(t, "ok")
      BY <1>11, <2>6, <3>3 DEF GetStart, Remember
    <3>5. frame'[t].seq = f.seq
      BY <1>4, <1>11, <3>4 DEF Frame
    <3>6. pc'[t] = "getBatches" \/ (pc'[t] = "done" /\ outcome'[t] = "ok")
      BY <1>4, <3>4 DEF Answer, Goto
    <3>7. RestHeard(log'[b], f.seq, more)
      BY <1>8, <1>11, <3>1 DEF FollowOK, Reads
    <3> QED BY <1>3, <1>6, <1>11, <3>1, <3>5, <3>6, <3>7 DEF FollowOK, Reads
  <2>7. CASE ReadBatches(t)
    <3>1. /\ pc[t] \in {"getBatches", "scan"} /\ pc'[t] = "done" /\ outcome'[t] = "ok"
      BY <1>4, <2>7 DEF ReadBatches, At, Answer
    <3>2. frame'[t].seq = f.seq
      BY <1>4, <1>11, <2>7 DEF ReadBatches, Remember, Frame
    <3>3. RestHeard(log'[b], f.seq, more)
      BY <1>8, <1>11, <3>1 DEF FollowOK, Reads
    <3> QED BY <1>3, <1>6, <1>11, <3>1, <3>2, <3>3 DEF FollowOK, Reads
  <2> QED BY <1>11, <1>2, <2>1, <2>2, <2>3, <2>4, <2>5, <2>6, <2>7 DEF Arrives, Pulls, Reads
<1> QED BY <1>10, <1>11

LEMMA FollowersInit ==
  Init => FollowersHear
<1> SUFFICES ASSUME Init, NEW t \in Task, op[t] = "follow" PROVE pc[t] = "listen"
  BY DEF FollowersHear
<1> QED BY DEF Init, FirstStep

LEMMA FollowersStep ==
  StoreInv /\ Documents /\ PullsConsistent /\ FollowersHear /\ [Next]_vars => FollowersHear'
<1> SUFFICES ASSUME StoreInv, Documents, PullsConsistent, FollowersHear, [Next]_vars
             PROVE  FollowersHear'
  OBVIOUS
<1>1. ASSUME NEW t \in Task, TaskAction(t) PROVE FollowersHear'
  BY <1>1, FollowersStayInformed
<1>2. ASSUME ~\E t \in Task : TaskAction(t) PROVE FollowersHear'
  <2>1. /\ kv' = kv /\ log' = log /\ removed' = removed /\ op' = op /\ id' = id /\ pc' = pc
        /\ frame' = frame /\ outcome' = outcome /\ observers' = observers /\ left' = left
    BY <1>2, NobodyMoves DEF kvVars
  <2>2. CASE Deliver
    <3>1. SUFFICES ASSUME NEW t \in Task, op[t] = "follow", Learns(t), t \notin left, pc[t] # "listen"
                   PROVE  /\ t \in observers[id[t]]
                          /\ FollowOK(pc[t], frame[t], outcome[t], kv[id[t]], log[id[t]],
                                      heard'[t] \cup Coming(publishing', id[t]))
      BY <2>1 DEF FollowersHear, Learns
    <3> DEFINE b == id[t]
               message == Head(publishing)
               known == heard[t] \cup Coming(publishing, b)
               more == heard'[t] \cup Coming(publishing', b)
    <3>2. t \in observers[b] /\ FollowOK(pc[t], frame[t], outcome[t], kv[b], log[b], known)
      BY <3>1 DEF FollowersHear
    <3>3. heard'[t] = heard[t] \cup (IF t \in observers[message.block] THEN {message.patch} ELSE {})
      BY <2>2 DEF Deliver
    <3>4. Coming(publishing, b) \subseteq Coming(publishing', b) \cup
            (IF message.block = b THEN {message.patch} ELSE {})
      BY <2>2, ComingTail DEF Deliver, StoreInv
    <3>5. known \subseteq more
      BY <3>2, <3>3, <3>4
    <3> HIDE DEF known, more
    <3> QED BY <3>2, <3>5 DEF FollowOK, RestHeard, more
  <2>3. CASE AllDone \/ UNCHANGED vars
    BY <2>1, <2>3 DEF AllDone, vars, pubsubVars, FollowersHear, Learns
  <2> QED BY <1>2, <2>2, <2>3 DEF Next, TaskAction
<1> QED BY <1>1, <1>2

LEMMA FollowersHold == Spec => []FollowersHear
BY FollowersInit, FollowersStep, StoreInvHolds, DocumentsHold, PullsHold, PTL DEF Spec

(* A client that listens first and pulls then has, as soon as no event of   *)
(* the block is under way, every accepted edit: those the pull was too      *)
(* early for came as events, for any number of writers, of listeners that   *)
(* come and go, and of events that wait, in any order the store serves them.*)
THEOREM FollowersCatchUp == Spec => []FollowersMissNothing
<1>1. StoreInv /\ Documents /\ PullsConsistent /\ FollowersHear => FollowersMissNothing
  <2> SUFFICES ASSUME StoreInv, Documents, PullsConsistent, FollowersHear, NEW t \in Task,
                      op[t] = "follow", pc[t] = "done", t \notin left, id[t] \notin removed,
                      \A i \in DOMAIN publishing : publishing[i].block # id[t]
               PROVE  \/ ToSet(log[id[t]]) \subseteq
                           Known(id[t], frame[t].last) \cup frame[t].blob \cup heard[t]
                      \/ Overtaken(t)
    BY DEF FollowersMissNothing
  <2> DEFINE b == id[t]
             f == frame[t]
             known == heard[t] \cup Coming(publishing, b)
  <2>1. /\ Learns(t) /\ b \in Id /\ log[b] \in Seq(Task) /\ Len(log[b]) \in Nat
        /\ publishing \in Seq(Message)
    <3>1. Learns(t) /\ b \in Id
      BY DEF Learns, StoreInv, TasksTyped
    <3>2. log[b] \in Seq(Task) /\ publishing \in Seq(Message)
      BY <3>1 DEF StoreInv, StoreTyped, PubsubTyped
    <3> QED BY <3>1, <3>2
  <2>2. known = heard[t]
    <3>1. DOMAIN publishing = 1 .. Len(publishing)
      BY <2>1
    <3> QED BY <3>1 DEF Coming
  <2>3. PullOK("done", f, outcome[t], kv[b], log[b]) /\ FollowOK("done", f, outcome[t], kv[b], log[b], heard[t])
    BY <2>1, <2>2 DEF PullsConsistent, FollowersHear
  <2>4. ToSet(log[b]) = {log[b][k] : k \in 1 .. Len(log[b])}
    <3>1. DOMAIN log[b] = 1 .. Len(log[b])
      BY <2>1
    <3> QED BY <3>1 DEF ToSet
  <2>5. f.seq \in Nat \cup {-1} /\ f.last \in Nat \cup {-1} /\ f.from \in Nat \cup {-1}
    BY FrameFields DEF StoreInv, TasksTyped
  <2>6. ASSUME RestHeard(log[b], f.seq, heard[t])
        PROVE  ToSet(log[b]) \subseteq Prefix(log[b], f.seq) \cup heard[t]
    <3>1. ASSUME NEW k \in 1 .. Len(log[b]) PROVE log[b][k] \in Prefix(log[b], f.seq) \cup heard[t]
      <4>1. CASE k > f.seq + 1
        BY <2>6, <4>1 DEF RestHeard
      <4>2. CASE ~(k > f.seq + 1)
        <5>1. k \in 1 .. (f.seq + 1)
          BY <2>5, <4>2
        <5> QED BY <5>1 DEF Prefix
      <4> QED BY <4>1, <4>2
    <3> QED BY <2>4, <3>1
  <2>7. CASE outcome[t] = "ok"
    <3>1. Prefix(log[b], f.seq) \subseteq Prefix(log[b], f.last) \cup f.blob \/ Behind(f, kv[b])
      BY <2>3, <2>7 DEF PullOK
    <3>2. RestHeard(log[b], f.seq, heard[t])
      BY <2>3, <2>7 DEF FollowOK
    <3> QED BY <2>6, <3>1, <3>2 DEF Known, Prefix, Overtaken, Behind
  <2>8. CASE outcome[t] = "NOT_FOUND"
    <3>1. /\ f.seq = -1 /\ f.last = -1 /\ f.from = -1
          /\ RestHeard(log[b], -1, heard[t]) \/ (kv[b].end # NoSnapshot /\ kv[b].start.seq >= 0)
      BY <2>3, <2>8 DEF FollowOK
    <3>2. CASE RestHeard(log[b], -1, heard[t])
      BY <2>6, <3>1, <3>2 DEF Known, Prefix
    <3>3. CASE kv[b].end # NoSnapshot /\ kv[b].start.seq >= 0
      <4>1. b \in Id \ crossed
        BY <2>1 DEF StoreInv, StoreTyped
      <4>2. kv[b].start.seq \in Int
        BY <3>3, <4>1 DEF Documents, BlocksSpellLog, Empty, Full
      <4> QED BY <3>1, <3>3, <4>2 DEF Overtaken
    <3> QED BY <3>1, <3>2, <3>3
  <2> QED BY <2>3, <2>7, <2>8 DEF PullOK
<1> QED BY <1>1, StoreInvHolds, DocumentsHold, PullsHold, FollowersHold, PTL

=============================================================================
