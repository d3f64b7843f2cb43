------------------------ MODULE BlocksServicesProof -------------------------
(***************************************************************************)
(* Proofs about BlocksServices, for any requests, history lengths, pull    *)
(* windows and policies of compaction. Nothing is claimed of a block once  *)
(* it was removed: until then there has been one MemoryBlock, which every  *)
(* request that has got one holds by reference. What the history replays,  *)
(* and what a pull gets, is right as long as a compaction ends before the  *)
(* next one starts (OneCompaction).                                        *)
(***************************************************************************)
EXTENDS BlocksServices, SequenceTheorems, WellFoundedInduction, TLAPS

First == objects[1]

(* The requests that have found a block, and those that hold on to it.      *)
Holding(t) == pc[t] \in {"compute", "push", "merge", "move"}
Found(t) == Holding(t) \/ pc[t] \in {"compact", "snapshot", "scan"}

Pulls(t) == op[t] \in {"pull", "pullOrCreate"}
Pulled(t) == outcome[t] = "ok" /\ Pulls(t)

(* What a request does is what it was asked for; it remembers nothing       *)
(* before it has read something, and a MemoryBlock that it has read.        *)
Asked(t) ==
  /\ pc[t] \in {"exists", "get", "remove"} \/ Holding(t) \/ Compacting(t) => ~Pulls(t)
  /\ pc[t] \in {"seq", "snapshot", "scan"} => Pulls(t)
  /\ pc[t] \in {"seq", "create", "exists"} => frame[t] = EmptyFrame
  /\ Pulled(t) => pc[t] = "done"
  /\ Holding(t) => frame[t].ref \in 1 .. Len(objects)
  /\ Compacting(t) => frame[t].seq > historyPerBlock
  /\ pc[t] = "merge" => frame[t].pos <= frame[t].len

(* Until the block is removed there is no other.                            *)
OneBlock ==
  ~removed =>
    /\ block = 0 => objects = <<>> /\ log = <<>> /\ \A t \in Task : ~Found(t) /\ ~Pulled(t)
    /\ block # 0 => /\ block = 1 /\ Len(objects) = 1
                    /\ Len(First.history) <= Len(log)
                    /\ \A t \in Task : Holding(t) => frame[t].ref = 1

(* What every step keeps: types, and what a request is about.               *)
Basic == TypeOK /\ \A t \in Task : Asked(t)

BlocksInv == Basic /\ OneBlock

(* A compaction of a block created empty moves its one snapshot back: until *)
(* the first one the history is the whole log.                              *)
Intact == block = 1 /\ ~removed /\ (First.shared => Len(First.history) = Len(log))

(* The history starts after `Base`.                                         *)
Base == IF First.shared THEN -1 ELSE First.start.seq

LatestRight ==
  /\ First.latest.seq = Len(log) - 1
  /\ First.latest.blob = Known(Len(log) - 1)
  /\ First.shared => First.start = First.latest

Numbered(history, base) ==
  /\ base \in Int /\ base + Len(history) = Len(log) - 1 /\ base >= -1
  /\ \A k \in 1 .. Len(history) :
       history[k].seq = base + k /\ history[k].patches = {log[base + k + 1]}

(* An edit that is still the next one has computed its snapshot from all    *)
(* the others.                                                              *)
PushRight(t) ==
  pc[t] = "push" =>
    /\ frame[t].seq \in 0 .. Len(log)
    /\ frame[t].blob = Known(frame[t].seq - 1) \cup {t}

(* A compaction belongs to an edit in the log. That of a shared snapshot    *)
(* drops the whole history it has seen.                                     *)
CompactionRight(t) ==
  Compacting(t) =>
    /\ frame[t].seq \in (historyPerBlock + 1) .. (Len(log) - 1)
    /\ frame[t].seq \in CompactAt
    /\ First.shared /\ pc[t] \in {"merge", "move"} =>
         /\ frame[t].len \in 1 .. Len(First.history)
         /\ frame[t].pos = IF pc[t] = "merge" THEN 0 ELSE frame[t].len

DocumentRight ==
  /\ LatestRight
  /\ First.shared => Numbered(First.history, -1)
  /\ \A t \in Task : PushRight(t) /\ CompactionRight(t)

LatestInv == BlocksInv /\ (Intact => DocumentRight)

(* With one compaction at a time, of a block whose snapshots are two.       *)
MergeRight(t) ==
  LET start == First.start.seq
      to == frame[t].seq - historyPerBlock
  IN  /\ Compacting(t) => start <= to
      /\ pc[t] = "merge" =>
           /\ frame[t].pos <= frame[t].len /\ frame[t].len <= Len(First.history)
           /\ start + frame[t].pos <= to /\ to <= start + frame[t].len
           /\ frame[t].blob = Known(start + frame[t].pos)
      /\ pc[t] = "move" =>
           /\ start + frame[t].pos = to
           /\ frame[t].blob = Known(to)

HistoryRight ==
  ~First.shared =>
    /\ Numbered(First.history, First.start.seq)
    /\ First.start.blob = Known(First.start.seq)
    /\ First.start.seq # -1 => First.start.seq < Len(log) - historyPerBlock
    /\ \A t \in Task : MergeRight(t)

(* A pull that goes on asks for batches that are in the log; one that is    *)
(* over got them.                                                           *)
PullRight(t) ==
  /\ pc[t] \in {"snapshot", "scan"} \/ Pulled(t) =>
       frame[t].last \in -1 .. frame[t].seq /\ frame[t].seq \in -1 .. (Len(log) - 1)
  /\ pc[t] = "scan" => frame[t].last >= 0
  /\ Pulled(t) =>
       Known(frame[t].seq) \subseteq Known(frame[t].last) \cup frame[t].blob \/ Overtaken(t)

HistoryInv == LatestInv /\ (Intact => HistoryRight)
PullInv == HistoryInv /\ (Intact => \A t \in Task : PullRight(t))

(* Compactions are of different edits.                                      *)
CompactionsApart ==
  Intact => \A t, u \in Task :
    Compacting(t) /\ Compacting(u) /\ frame[t].seq = frame[u].seq => t = u

-----------------------------------------------------------------------------
(* What a step of t leaves alone.                                           *)
Rest(t) ==
  /\ op' = op
  /\ \A u \in Task : u # t =>
       pc'[u] = pc[u] /\ frame'[u] = frame[u] /\ outcome'[u] = outcome[u]

Quiet(t) == Rest(t) /\ UNCHANGED <<storeVars, log, removed>>

Step(t) ==
  \/ Create(t)
  \/ EditExists(t) \/ EditGet(t) \/ EditCompute(t) \/ EditPush(t)
  \/ CompactStart(t) \/ CompactMerge(t) \/ CompactMove(t)
  \/ PullSeq(t) \/ PullSnapshot(t) \/ PullScan(t)
  \/ Remove(t)

LEMMA StepRest ==
  ASSUME TypeOK, NEW t \in Task, Step(t)
  PROVE  Rest(t)
<1> USE DEF Rest, TypeOK, Goto, Answer, Remember
<1>1. CASE Create(t) \/ EditExists(t) \/ EditGet(t) \/ EditCompute(t)
  BY <1>1 DEF Create, EditExists, EditGet, EditCompute
<1>2. CASE EditPush(t) \/ CompactStart(t) \/ CompactMove(t) \/ Remove(t)
  BY <1>2 DEF EditPush, CompactStart, CompactMove, Remove
<1>3. CASE CompactMerge(t)
  BY <1>3 DEF CompactMerge
<1>4. CASE PullSeq(t) \/ PullSnapshot(t) \/ PullScan(t)
  BY <1>4 DEF PullSeq, PullSnapshot, PullScan
<1> QED BY <1>1, <1>2, <1>3, <1>4 DEF Step

(* The iterator stops at an index of the history that was noted.            *)
LEMMA BatchFound ==
  ASSUME TypeOK, NEW t \in Task, frame[t].pos <= frame[t].len
  PROVE  NextBatch(t) \in frame[t].pos .. frame[t].len
<1> DEFINE o == objects[frame[t].ref]
           Stops(k) == k = frame[t].len \/ k >= Len(o.history) \/ o.history[k + 1].seq > o.start.seq
           Ends == {k \in frame[t].pos .. frame[t].len : Stops(k)}
<1>1. frame[t].pos \in Nat /\ frame[t].len \in Nat
  BY DEF TypeOK, Frame
<1>2. Ends \subseteq Nat /\ frame[t].len \in Ends
  BY <1>1
<1>3. PICK k \in Ends : \A j \in Ends : ~(<<j, k>> \in OpToRel(<, Nat))
  BY <1>2, WFMin, NatLessThanWellFounded, ZenonT(40)
<1>4. \A j \in frame[t].pos .. (k - 1) : ~Stops(j)
  <2> SUFFICES ASSUME NEW j \in frame[t].pos .. (k - 1), Stops(j) PROVE FALSE
    OBVIOUS
  <2>1. j \in Ends /\ j < k /\ j \in Nat /\ k \in Nat
    BY <1>1, SMTT(30), <1>2
  <2> QED BY <1>3, <2>1 DEF OpToRel
<1>5. k \in frame[t].pos .. frame[t].len /\ Stops(k)
  OBVIOUS
<1> QED BY <1>4, <1>5, Zenon DEF NextBatch

-----------------------------------------------------------------------------
(* The three of t, once it has taken its step.                              *)
LEMMA TaskStep ==
  ASSUME TypeOK, NEW t \in Task, Rest(t),
         NEW p \in Place, NEW f \in Frame, NEW o \in {"none", "ok"} \cup Failure,
         pc' = [pc EXCEPT ![t] = p], frame' = [frame EXCEPT ![t] = f],
         outcome' = [outcome EXCEPT ![t] = o],
         Store!StoreTypeOK', log' \in Seq(Task), removed' \in BOOLEAN,
         Len(objects) <= Len(objects'), \A u \in Task : Asked(u), Asked(t)'
  PROVE  Basic'
<1>1. TypeOK'
  BY DEF TypeOK, Rest
<1>2. ASSUME NEW u \in Task, u # t
      PROVE  Asked(u)'
  <2>1. pc'[u] = pc[u] /\ frame'[u] = frame[u] /\ outcome'[u] = outcome[u] /\ op'[u] = op[u]
    BY <1>2 DEF Rest
  <2>2. Len(objects) \in Nat /\ Len(objects') \in Nat /\ frame[u].ref \in Nat
    <3>1. objects \in Seq(Store!MemoryBlock) /\ objects' \in Seq(Store!MemoryBlock)
      BY DEF TypeOK, Store!StoreTypeOK
    <3>2. frame[u] \in Frame
      BY DEF TypeOK
    <3> QED BY <3>1, <3>2 DEF Frame
  <2> QED BY <2>1, <2>2 DEF Asked, Holding, Compacting, Pulls, Pulled
<1> QED BY <1>1, <1>2 DEF Basic

LEMMA OldTask ==
  ASSUME TypeOK, NEW t \in Task
  PROVE  /\ pc[t] \in Place /\ frame[t] \in Frame /\ outcome[t] \in {"none", "ok"} \cup Failure
         /\ op[t] \in Op /\ op[t] \in Operation
         /\ pc \in [Task -> Place] /\ frame \in [Task -> Frame]
         /\ outcome \in [Task -> {"none", "ok"} \cup Failure]
         /\ pc = [pc EXCEPT ![t] = pc[t]] /\ frame = [frame EXCEPT ![t] = frame[t]]
         /\ outcome = [outcome EXCEPT ![t] = outcome[t]]
         /\ objects \in Seq(Store!MemoryBlock) /\ Len(objects) \in Nat /\ block \in 0 .. Len(objects)
         /\ log \in Seq(Task) /\ Len(log) \in Nat /\ removed \in BOOLEAN
         /\ Store!StoreTypeOK
         /\ historyPerBlock \in Nat
BY BlocksAssumption DEF TypeOK, Store!StoreTypeOK

LEMMA DoneAsked ==
  ASSUME NEW t \in Task, pc'[t] = "done"
  PROVE  Asked(t)'
BY DEF Asked, Holding, Compacting, Pulled

LEMMA InitBasic == Init => Basic
<1> SUFFICES ASSUME Init PROVE Basic
  OBVIOUS
<1>1. op \in [Task -> Op] /\ \A t \in Task : op[t] \in Operation
  BY BlocksAssumption DEF Init
<1>2. \A t \in Task : pc[t] = FirstStep(op[t]) /\ frame[t] = EmptyFrame /\ outcome[t] = "none"
  BY DEF Init
<1>3. ASSUME NEW t \in Task
      PROVE  /\ FirstStep(op[t]) \in {"create", "get", "exists", "seq", "remove"}
             /\ FirstStep(op[t]) = "seq" <=> Pulls(t)
             /\ FirstStep(op[t]) \in {"exists", "get", "remove"} => ~Pulls(t)
  BY <1>1, <1>3 DEF FirstStep, Operation, Pulls
<1>4. EmptyFrame \in Frame
  BY DEF EmptyFrame, Frame
<1>5. TypeOK
  <2>1. pc \in [Task -> Place] /\ frame \in [Task -> Frame]
    BY <1>3, <1>4 DEF Init, Place
  <2>2. outcome \in [Task -> {"none", "ok"} \cup Failure]
    BY DEF Init
  <2>3. Store!StoreTypeOK /\ log \in Seq(Task) /\ removed \in BOOLEAN
    <3>1. /\ objects = <<>> /\ log = <<>> /\ block = 0 /\ removed = FALSE
          /\ <<>> \in Seq(Task) /\ <<>> \in Seq(Store!MemoryBlock)
      BY EmptySeq DEF Init, Store!StoreInit
    <3>2. block \in 0 .. Len(objects)
      BY <3>1
    <3> QED BY <3>1, <3>2, Zenon DEF Store!StoreTypeOK
  <2> QED BY <1>1, <2>1, <2>2, <2>3 DEF TypeOK
<1>6. ASSUME NEW t \in Task
      PROVE  Asked(t)
  BY <1>2, <1>3, <1>6 DEF Asked, Holding, Compacting, Pulled
<1> QED BY <1>5, <1>6 DEF Basic

LEMMA CreateBasic ==
  ASSUME Basic, NEW t \in Task, Create(t)
  PROVE  Basic'
<1>1. TypeOK /\ \A u \in Task : Asked(u)
  BY DEF Basic
<1>2. Rest(t) /\ pc[t] = "create" /\ Asked(t) /\ frame' = frame /\ removed' = removed /\ op' = op
  BY <1>1, StepRest DEF Step, Create
<1>3. CASE Answer(t, "BLOCK_EXISTS", "done") /\ UNCHANGED <<storeVars, log>>
  <2>1. Asked(t)'
    BY <1>1, <1>3, OldTask, DoneAsked DEF Answer
  <2>2. "BLOCK_EXISTS" \in {"none", "ok"} \cup Failure /\ "done" \in Place
    BY DEF Failure, Place
  <2>3. Store!StoreTypeOK' /\ Len(objects) <= Len(objects') /\ log' \in Seq(Task)
    BY <1>1, <1>3, OldTask DEF storeVars, Store!StoreTypeOK
  <2> QED BY <1>1, <1>2, <1>3, <2>1, <2>2, <2>3, OldTask, TaskStep DEF Answer
<1>4. CASE \E patches \in {{}, {t}} :
             /\ Store!StoreCreate(patches) /\ Answer(t, "ok", "done")
             /\ log' = IF patches = {} THEN <<>> ELSE <<t>>
  <2>1. PICK patches \in {{}, {t}} :
             /\ Store!StoreCreate(patches) /\ Answer(t, "ok", "done")
             /\ log' = IF patches = {} THEN <<>> ELSE <<t>>
    BY <1>4
  <2>2. /\ <<>> \in Seq(Task) /\ <<t>> \in Seq(Task)
        /\ <<>> \in Seq(Store!Batch)
        /\ <<[seq |-> 0, patches |-> patches]>> \in Seq(Store!Batch)
    BY EmptySeq DEF Store!Batch
  <2>3. PICK new \in Store!MemoryBlock : objects' = Append(objects, new) /\ block' = Len(objects) + 1
    <3> DEFINE new == [start |-> Store!Empty,
              latest |-> IF patches = {} THEN Store!Empty ELSE [seq |-> 0, blob |-> patches],
              shared |-> patches = {},
              history |-> IF patches = {} THEN <<>> ELSE <<[seq |-> 0, patches |-> patches]>>]
    <3>1. Store!Empty \in Store!Snapshot /\ [seq |-> 0, blob |-> patches] \in Store!Snapshot
      BY DEF Store!Empty, Store!Snapshot
    <3>2. new \in Store!MemoryBlock
      BY <2>2, <3>1 DEF Store!MemoryBlock
    <3> QED BY <2>1, <3>2 DEF Store!StoreCreate
  <2>4. Store!StoreTypeOK' /\ Len(objects) <= Len(objects')
    BY <1>1, <2>3, OldTask DEF Store!StoreTypeOK
  <2>5. Asked(t)'
    BY <1>1, <2>1, OldTask, DoneAsked DEF Answer
  <2>6. "ok" \in {"none", "ok"} \cup Failure /\ "done" \in Place
    BY DEF Place
  <2>7. log' \in Seq(Task)
    BY <2>1, <2>2
  <2> QED BY <1>1, <1>2, <2>1, <2>4, <2>5, <2>6, <2>7, OldTask, TaskStep DEF Answer
<1> QED BY <1>3, <1>4 DEF Create

(* A step that writes nothing.                                              *)
LEMMA QuietBasic ==
  ASSUME Basic, NEW t \in Task, Quiet(t), NEW p \in Place, NEW f \in Frame,
         NEW o \in {"none", "ok"} \cup Failure,
         pc' = [pc EXCEPT ![t] = p], frame' = [frame EXCEPT ![t] = f],
         outcome' = [outcome EXCEPT ![t] = o], Asked(t)'
  PROVE  Basic'
<1>1. TypeOK /\ \A u \in Task : Asked(u)
  BY DEF Basic
<1>2. Rest(t) /\ block' = block /\ objects' = objects /\ log' = log /\ removed' = removed
  BY DEF Quiet, storeVars
<1>3. Store!StoreTypeOK' /\ Len(objects) <= Len(objects') /\ log' \in Seq(Task) /\ removed' \in BOOLEAN
  BY <1>1, <1>2, OldTask DEF Store!StoreTypeOK
<1> QED BY <1>1, <1>2, <1>3, TaskStep

LEMMA StepQuiet ==
  ASSUME TypeOK, NEW t \in Task,
         \/ EditExists(t) \/ EditGet(t) \/ EditCompute(t) \/ CompactStart(t) \/ CompactMerge(t)
         \/ PullSeq(t) \/ PullSnapshot(t) \/ PullScan(t)
  PROVE  Quiet(t)
<1>1. Rest(t)
  BY StepRest DEF Step
<1>2. UNCHANGED <<storeVars, log, removed>>
  BY DEF EditExists, EditGet, EditCompute, CompactStart, CompactMerge, PullSeq, PullSnapshot,
         PullScan
<1> QED BY <1>1, <1>2 DEF Quiet

LEMMA BlockTyped ==
  ASSUME TypeOK, NEW k \in 1 .. Len(objects)
  PROVE  /\ objects[k] \in Store!MemoryBlock
         /\ objects[k].start.seq \in {-1} \cup Nat /\ objects[k].latest.seq \in {-1} \cup Nat
         /\ objects[k].start.blob \in SUBSET Task /\ objects[k].latest.blob \in SUBSET Task
         /\ objects[k].history \in Seq(Store!Batch) /\ Len(objects[k].history) \in Nat
         /\ objects[k].shared \in BOOLEAN
         /\ \A n \in 1 .. Len(objects[k].history) :
              /\ objects[k].history[n] \in Store!Batch
              /\ objects[k].history[n].seq \in Nat /\ objects[k].history[n].patches \in SUBSET Task
<1>1. objects[k] \in Store!MemoryBlock
  BY OldTask DEF TypeOK, Store!StoreTypeOK
<1>2. /\ objects[k].start \in Store!Snapshot /\ objects[k].latest \in Store!Snapshot
      /\ objects[k].history \in Seq(Store!Batch) /\ objects[k].shared \in BOOLEAN
  BY <1>1 DEF Store!MemoryBlock
<1>3. \A n \in 1 .. Len(objects[k].history) : objects[k].history[n] \in Store!Batch
  BY <1>2
<1> QED BY <1>1, <1>2, <1>3 DEF Store!Snapshot, Store!Batch

LEMMA BatchesTyped ==
  ASSUME NEW h \in Seq(Store!Batch), NEW min, NEW max
  PROVE  Store!PatchesOf(Store!Between(h, min, max)) \in SUBSET Task
<1>1. \A b \in Store!Between(h, min, max) : b \in Store!Batch
  BY DEF Store!Between, Store!InHistory
<1> QED BY <1>1 DEF Store!PatchesOf, Store!Batch

LEMMA EditBasic ==
  ASSUME Basic, NEW t \in Task, EditExists(t) \/ EditGet(t) \/ EditCompute(t)
  PROVE  Basic'
<1>1. TypeOK /\ Asked(t) /\ Quiet(t) /\ objects' = objects /\ op' = op
  BY StepQuiet DEF Basic, Quiet, Rest, storeVars
<1>2. /\ pc \in [Task -> Place] /\ frame \in [Task -> Frame] /\ pc[t] \in Place /\ frame[t] \in Frame
      /\ outcome[t] \in {"none", "ok"} \cup Failure /\ outcome = [outcome EXCEPT ![t] = outcome[t]]
      /\ frame = [frame EXCEPT ![t] = frame[t]] /\ outcome \in [Task -> {"none", "ok"} \cup Failure]
  BY <1>1, OldTask
<1>3. CASE EditExists(t)
  <2>1. PICK p \in {"get", "create"} : pc' = [pc EXCEPT ![t] = p]
    BY <1>3 DEF EditExists, Goto
  <2>2. /\ pc'[t] \in {"get", "create"} /\ frame' = frame /\ outcome' = outcome /\ pc[t] = "exists"
        /\ p \in Place
    BY <1>2, <1>3, <2>1 DEF EditExists, Goto, Place
  <2>3. Asked(t)'
    BY <1>1, <2>2 DEF Asked, Holding, Compacting, Pulls, Pulled
  <2> QED BY <1>1, <1>2, <2>1, <2>2, <2>3, QuietBasic
<1>4. CASE EditGet(t) /\ ~Store!Has
  <2>1. /\ pc' = [pc EXCEPT ![t] = "done"] /\ outcome' = [outcome EXCEPT ![t] = "NOT_FOUND"]
        /\ frame' = frame /\ pc'[t] = "done"
    BY <1>2, <1>4 DEF EditGet, Answer
  <2>2. "done" \in Place /\ "NOT_FOUND" \in {"none", "ok"} \cup Failure
    BY DEF Place, Failure
  <2> QED BY <1>1, <1>2, <2>1, <2>2, QuietBasic, DoneAsked
<1>5. CASE EditGet(t) /\ Store!Has
  <2> DEFINE f == [frame[t] EXCEPT !.ref = block]
  <2>1. /\ pc' = [pc EXCEPT ![t] = "compute"] /\ outcome' = outcome
        /\ frame' = [frame EXCEPT ![t] = f] /\ pc[t] = "get"
    BY <1>5 DEF EditGet, Goto, Remember
  <2>2. block \in 1 .. Len(objects)
    BY <1>1, <1>5, OldTask DEF Store!Has
  <2>3. f \in Frame /\ f.ref = block /\ "compute" \in Place
    <3>1. block \in Nat
      BY <1>1, <2>2, OldTask
    <3>2. f \in Frame /\ f.ref = block
      BY <1>2, <3>1 DEF Frame
    <3> QED BY <3>2 DEF Place
  <2>4. Asked(t)'
    BY <1>1, <1>2, <2>1, <2>2, <2>3 DEF Asked, Holding, Compacting, Pulls, Pulled
  <2> QED BY <1>1, <1>2, <2>1, <2>3, <2>4, QuietBasic
<1>6. CASE EditCompute(t)
  <2> DEFINE latest == objects[frame[t].ref].latest
             f == [frame[t] EXCEPT !.seq = latest.seq + 1, !.blob = latest.blob \cup {t}]
  <2>1. /\ pc' = [pc EXCEPT ![t] = "push"] /\ outcome' = outcome
        /\ frame' = [frame EXCEPT ![t] = f] /\ pc[t] = "compute"
    BY <1>6 DEF EditCompute, Goto, Remember
  <2>2. frame[t].ref \in 1 .. Len(objects)
    BY <1>1, <2>1 DEF Asked, Holding
  <2>3. latest.seq \in {-1} \cup Nat /\ latest.blob \in SUBSET Task
    BY <1>1, <2>2, BlockTyped
  <2>4. f \in Frame /\ f.ref = frame[t].ref /\ "push" \in Place
    <3>1. latest.seq + 1 \in Int /\ latest.blob \cup {t} \in SUBSET Task
      BY <2>3
    <3>2. f \in Frame /\ f.ref = frame[t].ref
      <4> HIDE DEF latest
      <4> QED BY <1>2, <3>1 DEF Frame
    <3> QED BY <3>2 DEF Place
  <2>5. Asked(t)'
    BY <1>1, <1>2, <2>1, <2>2, <2>4 DEF Asked, Holding, Compacting, Pulls, Pulled
  <2> QED BY <1>1, <1>2, <2>1, <2>4, <2>5, QuietBasic
<1> QED BY <1>3, <1>4, <1>5, <1>6

LEMMA CompactBasic ==
  ASSUME Basic, NEW t \in Task, CompactStart(t) \/ CompactMerge(t)
  PROVE  Basic'
<1>1. TypeOK /\ Asked(t) /\ Quiet(t) /\ objects' = objects /\ op' = op
  BY StepQuiet DEF Basic, Quiet, Rest, storeVars
<1>2. /\ pc \in [Task -> Place] /\ frame \in [Task -> Frame] /\ pc[t] \in Place /\ frame[t] \in Frame
      /\ outcome[t] \in {"none", "ok"} \cup Failure /\ outcome = [outcome EXCEPT ![t] = outcome[t]]
      /\ frame = [frame EXCEPT ![t] = frame[t]] /\ outcome \in [Task -> {"none", "ok"} \cup Failure]
      /\ pc = [pc EXCEPT ![t] = pc[t]]
  BY <1>1, OldTask
<1>3. "done" \in Place /\ "merge" \in Place /\ "move" \in Place
  BY DEF Place
<1>4. CASE pc' = [pc EXCEPT ![t] = "done"] /\ outcome' = outcome /\ frame' = frame
  <2>1. pc'[t] = "done"
    BY <1>2, <1>4
  <2> QED BY <1>1, <1>2, <1>3, <1>4, <2>1, QuietBasic, DoneAsked
<1>5. CASE CompactStart(t) /\ Store!Has
  <2> DEFINE blob == Store!Current.start.blob
             len == Len(Store!Current.history)
             f == [frame[t] EXCEPT !.ref = block, !.blob = blob, !.pos = 0, !.len = len]
  <2>1. /\ pc' = [pc EXCEPT ![t] = "merge"] /\ outcome' = outcome
        /\ frame' = [frame EXCEPT ![t] = f] /\ pc[t] = "compact"
    BY <1>5 DEF CompactStart, Goto, Remember
  <2>2. block \in 1 .. Len(objects) /\ block \in Nat
    BY <1>1, <1>5, OldTask DEF Store!Has
  <2>3. blob \in SUBSET Task /\ len \in Nat
    BY <1>1, <2>2, BlockTyped DEF Store!Current
  <2>4. f \in Frame /\ f.ref = block /\ f.pos = 0 /\ f.len = len /\ f.seq = frame[t].seq
    <3> HIDE DEF blob, len
    <3> QED BY <1>2, <2>2, <2>3 DEF Frame
  <2>5. Asked(t)'
    <3> HIDE DEF f, len
    <3> QED BY <1>1, <1>2, <2>1, <2>2, <2>3, <2>4 DEF Asked, Holding, Compacting, Pulls, Pulled
  <2> QED BY <1>1, <1>2, <1>3, <2>1, <2>4, <2>5, QuietBasic
<1>6. CASE CompactMerge(t)
  <2> DEFINE k == NextBatch(t)
             history == objects[frame[t].ref].history
             to == frame[t].seq - historyPerBlock
  <2>1. /\ pc[t] = "merge" /\ frame[t].pos <= frame[t].len /\ frame[t].ref \in 1 .. Len(objects)
        /\ frame[t].pos \in Nat /\ frame[t].len \in Nat
    BY <1>1, <1>2, <1>6 DEF CompactMerge, Asked, Holding, Frame
  <2>2. k \in frame[t].pos .. frame[t].len /\ k \in Nat
    BY <1>1, <2>1, BatchFound
  <2>3. history \in Seq(Store!Batch) /\ Len(history) \in Nat
        /\ \A n \in 1 .. Len(history) : history[n].patches \in SUBSET Task
    BY <1>1, <2>1, BlockTyped
  <2>4. \/ Goto(t, "done") /\ frame' = frame
        \/ Goto(t, "move") /\ Remember(t, [frame[t] EXCEPT !.pos = k])
        \/ /\ k < frame[t].len /\ k < Len(history)
           /\ pc' = pc /\ outcome' = outcome
           /\ Remember(t, [frame[t] EXCEPT !.pos = k + 1, !.blob = @ \cup history[k + 1].patches])
    BY <1>6 DEF CompactMerge
  <2> HIDE DEF k, history
  <2>5. CASE Goto(t, "move") /\ Remember(t, [frame[t] EXCEPT !.pos = k])
    <3> DEFINE f == [frame[t] EXCEPT !.pos = k]
    <3>1. f \in Frame /\ f.ref = frame[t].ref /\ f.seq = frame[t].seq
      BY <1>2, <2>2 DEF Frame
    <3>2. Asked(t)'
      BY <1>1, <1>2, <2>1, <2>5, <3>1 DEF Asked, Holding, Compacting, Pulls, Pulled, Goto, Remember
    <3> QED BY <1>1, <1>2, <1>3, <2>5, <3>1, <3>2, QuietBasic DEF Goto, Remember
  <2>6. CASE /\ k < frame[t].len /\ k < Len(history)
             /\ pc' = pc /\ outcome' = outcome
             /\ Remember(t, [frame[t] EXCEPT !.pos = k + 1, !.blob = @ \cup history[k + 1].patches])
    <3> DEFINE f == [frame[t] EXCEPT !.pos = k + 1, !.blob = @ \cup history[k + 1].patches]
    <3>1. history[k + 1].patches \in SUBSET Task /\ k + 1 \in Nat /\ k + 1 <= frame[t].len
      BY <2>1, <2>2, <2>3, <2>6
    <3>2. /\ f \in Frame /\ f.ref = frame[t].ref /\ f.seq = frame[t].seq /\ f.pos <= f.len
      BY <1>2, <2>1, <3>1 DEF Frame
    <3>3. frame'[t] = f /\ pc'[t] = pc[t] /\ outcome'[t] = outcome[t]
      BY <1>2, <2>6 DEF Remember
    <3>4. Asked(t)'
      <4> HIDE DEF f
      <4> QED BY <1>1, <1>2, <2>1, <3>2, <3>3 DEF Asked, Holding, Compacting, Pulls, Pulled
    <3> QED BY <1>1, <1>2, <2>6, <3>2, <3>4, QuietBasic DEF Remember
  <2> QED BY <1>4, <2>4, <2>5, <2>6 DEF Goto
<1> QED BY <1>4, <1>5, <1>6 DEF CompactStart, Goto

LEMMA PullBasic ==
  ASSUME Basic, NEW t \in Task, PullSeq(t) \/ PullSnapshot(t) \/ PullScan(t)
  PROVE  Basic'
<1>1. TypeOK /\ Asked(t) /\ Quiet(t) /\ objects' = objects /\ op' = op
  BY StepQuiet DEF Basic, Quiet, Rest, storeVars
<1>2. /\ pc \in [Task -> Place] /\ frame \in [Task -> Frame] /\ pc[t] \in Place /\ frame[t] \in Frame
      /\ outcome[t] \in {"none", "ok"} \cup Failure /\ outcome = [outcome EXCEPT ![t] = outcome[t]]
      /\ frame = [frame EXCEPT ![t] = frame[t]] /\ outcome \in [Task -> {"none", "ok"} \cup Failure]
  BY <1>1, OldTask
<1>3. /\ "done" \in Place /\ "create" \in Place /\ "snapshot" \in Place /\ "scan" \in Place
      /\ "NOT_FOUND" \in {"none", "ok"} \cup Failure /\ "ok" \in {"none", "ok"} \cup Failure
  BY DEF Place, Failure
(* The ways on.                                                             *)
<1>4. \/ pc[t] = "seq" /\ Goto(t, "create") /\ frame' = frame
      \/ Answer(t, "NOT_FOUND", "done") /\ frame' = frame
      \/ /\ pc[t] = "seq" /\ Store!Has
         /\ \E last \in Int :
              /\ Remember(t, [frame[t] EXCEPT !.seq = Store!Current.latest.seq, !.last = last])
              /\ Answer(t, "ok", "done") \/ Goto(t, "snapshot") \/ Goto(t, "scan")
      \/ /\ Answer(t, "ok", "done")
         /\ \E h \in Seq(Store!Batch), b \in SUBSET Task, min, max \in Int :
              \/ Remember(t, [frame[t] EXCEPT !.blob = b \cup Store!PatchesOf(Store!Between(h, min, max))])
              \/ Remember(t, [frame[t] EXCEPT !.blob = {}])
              \/ Remember(t, [frame[t] EXCEPT !.blob = Store!PatchesOf(Store!Between(h, min, max))])
  <2>1. CASE PullSeq(t)
    <3>1. ASSUME NEW seq, NEW last \in -1 .. seq PROVE last \in Int
      OBVIOUS
    <3> QED BY <2>1, <3>1 DEF PullSeq
  <2>2. /\ frame[t].seq \in Int /\ frame[t].last \in Int
    BY <1>2 DEF Frame
  <2>3. ASSUME Store!Has
        PROVE  /\ Store!Current.history \in Seq(Store!Batch) /\ Store!Current.start.blob \in SUBSET Task
               /\ Store!Current.start.seq \in Int
    <3>1. block \in 1 .. Len(objects)
      BY <1>1, <2>3, OldTask DEF Store!Has
    <3> QED BY <1>1, <3>1, BlockTyped DEF Store!Current
  <2>4. CASE PullSnapshot(t)
    <3>1. CASE ~Store!Has /\ Answer(t, "NOT_FOUND", "done") /\ frame' = frame
      BY <3>1
    <3>2. CASE /\ Store!Has /\ Answer(t, "ok", "done")
               /\ Remember(t, [frame[t] EXCEPT !.blob = Store!SnapshotAt(frame[t].seq)])
      <4>1. PICK h, b, min : h = Store!Current.history /\ b = Store!Current.start.blob
                             /\ min = Store!Current.start.seq + 1
        OBVIOUS
      <4>2. h \in Seq(Store!Batch) /\ b \in SUBSET Task /\ min \in Int
        BY <2>3, <3>2, <4>1
      <4>3. Remember(t, [frame[t] EXCEPT
                      !.blob = b \cup Store!PatchesOf(Store!Between(h, min, frame[t].seq))])
        BY <3>2, <4>1 DEF Store!SnapshotAt
      <4> QED BY <2>2, <3>2, <4>2, <4>3
    <3> QED BY <2>4, <3>1, <3>2 DEF PullSnapshot
  <2>5. CASE PullScan(t)
    <3>1. CASE Store!Has
      <4>1. PICK h, min : h = Store!Current.history /\ min = frame[t].last + 1
        OBVIOUS
      <4>2. h \in Seq(Store!Batch) /\ min \in Int
        BY <2>2, <2>3, <3>1, <4>1
      <4>3. Remember(t, [frame[t] EXCEPT
                      !.blob = Store!PatchesOf(Store!Between(h, min, frame[t].seq))])
        BY <2>5, <3>1, <4>1 DEF PullScan, Store!Scan
      <4> QED BY <2>2, <2>5, <4>2, <4>3 DEF PullScan
    <3>2. CASE ~Store!Has
      BY <2>2, <2>5, <3>2, EmptySeq DEF PullScan, Store!Scan
    <3> QED BY <3>1, <3>2
  <2> QED BY <2>1, <2>4, <2>5
<1>5. CASE pc[t] = "seq" /\ Goto(t, "create") /\ frame' = frame
  <2>1. /\ pc' = [pc EXCEPT ![t] = "create"] /\ pc'[t] = "create" /\ outcome' = outcome
    BY <1>2, <1>5 DEF Goto
  <2>2. Asked(t)'
    BY <1>1, <1>5, <2>1 DEF Asked, Holding, Compacting, Pulls, Pulled
  <2> QED BY <1>1, <1>2, <1>3, <1>5, <2>1, <2>2, QuietBasic
<1>6. ASSUME NEW how \in {"none", "ok"} \cup Failure, Answer(t, how, "done"),
             NEW f \in Frame, frame' = [frame EXCEPT ![t] = f]
      PROVE  Basic'
  <2>1. Asked(t)'
    BY <1>2, <1>6, DoneAsked DEF Answer
  <2> QED BY <1>1, <1>3, <1>6, <2>1, QuietBasic DEF Answer
<1>7. CASE /\ pc[t] = "seq" /\ Store!Has
           /\ \E last \in Int :
                /\ Remember(t, [frame[t] EXCEPT !.seq = Store!Current.latest.seq, !.last = last])
                /\ Answer(t, "ok", "done") \/ Goto(t, "snapshot") \/ Goto(t, "scan")
  <2>1. PICK seq : seq = Store!Current.latest.seq
    OBVIOUS
  <2>2. seq \in Int
    <3>1. block \in 1 .. Len(objects)
      BY <1>1, <1>7, OldTask DEF Store!Has
    <3> QED BY <1>1, <2>1, <3>1, BlockTyped DEF Store!Current
  <2>3. PICK last \in Int :
          /\ Remember(t, [frame[t] EXCEPT !.seq = seq, !.last = last])
          /\ Answer(t, "ok", "done") \/ Goto(t, "snapshot") \/ Goto(t, "scan")
    BY <1>7, <2>1
  <2>4. [frame[t] EXCEPT !.seq = seq, !.last = last] \in Frame
    BY <1>2, <2>2 DEF Frame
  <2>5. CASE Answer(t, "ok", "done")
    BY <1>3, <1>6, <2>3, <2>4, <2>5 DEF Remember
  <2>6. ASSUME NEW p \in {"snapshot", "scan"}, Goto(t, p)
        PROVE  Basic'
    <3>1. pc' = [pc EXCEPT ![t] = p] /\ pc'[t] = p /\ outcome' = outcome
      BY <1>2, <2>6 DEF Goto
    <3>2. Asked(t)'
      BY <1>1, <1>7, <3>1 DEF Asked, Holding, Compacting, Pulls, Pulled
    <3> QED BY <1>1, <1>2, <1>3, <2>3, <2>4, <3>1, <3>2, QuietBasic DEF Remember
  <2> QED BY <2>3, <2>5, <2>6
<1>8. CASE /\ Answer(t, "ok", "done")
           /\ \E h \in Seq(Store!Batch), b \in SUBSET Task, min, max \in Int :
                \/ Remember(t, [frame[t] EXCEPT !.blob = b \cup Store!PatchesOf(Store!Between(h, min, max))])
                \/ Remember(t, [frame[t] EXCEPT !.blob = {}])
                \/ Remember(t, [frame[t] EXCEPT !.blob = Store!PatchesOf(Store!Between(h, min, max))])
  <2>1. PICK b \in SUBSET Task : Remember(t, [frame[t] EXCEPT !.blob = b])
    BY <1>8, BatchesTyped
  <2>2. [frame[t] EXCEPT !.blob = b] \in Frame
    BY <1>2 DEF Frame
  <2> QED BY <1>3, <1>6, <1>8, <2>1, <2>2 DEF Remember
<1>9. CASE Answer(t, "NOT_FOUND", "done") /\ frame' = frame
  BY <1>2, <1>3, <1>6, <1>9
<1> QED BY <1>4, <1>5, <1>7, <1>8, <1>9

(* The steps that write: at least as many MemoryBlocks as before.           *)
LEMMA WriteBasic ==
  ASSUME Basic, NEW t \in Task, NEW p \in Place, NEW o \in {"none", "ok"} \cup Failure,
         Rest(t), pc' = [pc EXCEPT ![t] = p], outcome' = [outcome EXCEPT ![t] = o], frame' = frame,
         objects' \in Seq(Store!MemoryBlock), Len(objects') = Len(objects), block' \in {0, block},
         log' \in Seq(Task), removed' \in BOOLEAN, Asked(t)'
  PROVE  Basic'
<1>1. TypeOK /\ \A u \in Task : Asked(u)
  BY DEF Basic
<1>2. Store!StoreTypeOK' /\ Len(objects) <= Len(objects')
  <2>1. Len(objects) \in Nat /\ block \in 0 .. Len(objects)
    BY <1>1, OldTask
  <2> QED BY <2>1 DEF Store!StoreTypeOK
<1> QED BY <1>1, <1>2, OldTask, TaskStep

LEMMA MoveBasic ==
  ASSUME Basic, NEW t \in Task, CompactMove(t)
  PROVE  Basic'
<1>1. TypeOK /\ Asked(t) /\ Rest(t) /\ log' = log /\ removed' = removed /\ block' = block
  BY StepRest DEF Basic, Step, CompactMove
<1>2. /\ pc' = [pc EXCEPT ![t] = "done"] /\ pc'[t] = "done" /\ outcome' = outcome /\ frame' = frame
      /\ pc[t] = "move" /\ "done" \in Place
      /\ outcome[t] \in {"none", "ok"} \cup Failure /\ outcome = [outcome EXCEPT ![t] = outcome[t]]
  BY <1>1, OldTask DEF CompactMove, Goto, Place
<1>3. PICK ref, to, blob, pos :
        ref = frame[t].ref /\ to = frame[t].seq - historyPerBlock /\ blob = frame[t].blob
        /\ pos = frame[t].pos
  OBVIOUS
<1>4. ref \in 1 .. Len(objects) /\ to \in Nat /\ blob \in SUBSET Task /\ pos \in Nat
  <2>1. frame[t] \in Frame /\ historyPerBlock \in Nat
    BY <1>1, OldTask
  <2> QED BY <1>1, <1>2, <1>3, <2>1 DEF Asked, Holding, Compacting, Frame
<1>5. PICK o : o = objects[ref]
  OBVIOUS
<1>6. /\ o \in Store!MemoryBlock /\ o.history \in Seq(Store!Batch) /\ o.shared \in BOOLEAN
      /\ Len(o.history) \in Nat /\ o.latest \in Store!Snapshot
  BY <1>1, <1>4, <1>5, BlockTyped DEF Store!MemoryBlock
<1>7. PICK start, history :
        start = [seq |-> to, blob |-> blob] /\ history = SubSeq(o.history, pos + 1, Len(o.history))
  OBVIOUS
<1>8. start \in Store!Snapshot
  BY <1>4, <1>7 DEF Store!Snapshot
<1>9. history \in Seq(Store!Batch)
  BY <1>4, <1>6, <1>7, SubSeqProperties
<1>10. PICK new \in Store!MemoryBlock : objects' = [objects EXCEPT ![ref] = new]
  <2> DEFINE new == [o EXCEPT !.start = start, !.latest = IF o.shared THEN start ELSE @,
                              !.history = history]
  <2>1. new \in Store!MemoryBlock
    BY <1>6, <1>8, <1>9 DEF Store!MemoryBlock
  <2>2. objects' = [objects EXCEPT ![ref] = new]
    BY <1>3, <1>5, <1>7, <1>8 DEF CompactMove, Store!MoveStart
  <2> QED BY <2>1, <2>2
<1>11. objects' \in Seq(Store!MemoryBlock) /\ Len(objects') = Len(objects)
  BY <1>1, <1>4, <1>10, OldTask
<1>12. Asked(t)'
  BY <1>2, DoneAsked
<1> QED BY <1>1, <1>2, <1>11, <1>12, OldTask, WriteBasic

LEMMA PushBasic ==
  ASSUME Basic, NEW t \in Task, EditPush(t)
  PROVE  Basic'
<1>1. TypeOK /\ Asked(t) /\ Rest(t) /\ removed' = removed /\ frame' = frame /\ op' = op
  BY StepRest DEF Basic, Step, EditPush
<1>2. /\ pc[t] = "push" /\ "done" \in Place /\ "compact" \in Place
      /\ \A x \in {"NOT_FOUND", "PATCH_SEQ_INV", "ok"} : x \in {"none", "ok"} \cup Failure
      /\ pc \in [Task -> Place] /\ outcome \in [Task -> {"none", "ok"} \cup Failure]
  BY <1>1, OldTask DEF EditPush, Place, Failure
<1>3. CASE \E how \in {"NOT_FOUND", "PATCH_SEQ_INV"} :
             Answer(t, how, "done") /\ UNCHANGED <<storeVars, log>>
  <2>1. PICK how \in {"NOT_FOUND", "PATCH_SEQ_INV"} :
             Answer(t, how, "done") /\ UNCHANGED <<storeVars, log>>
    BY <1>3
  <2>2. /\ pc' = [pc EXCEPT ![t] = "done"] /\ pc'[t] = "done" /\ block' = block /\ objects' = objects
        /\ log' = log /\ outcome' = [outcome EXCEPT ![t] = how]
    BY <1>2, <2>1 DEF Answer, storeVars
  <2>3. Asked(t)'
    BY <2>2, DoneAsked
  <2> QED BY <1>1, <1>2, <2>2, <2>3, OldTask, WriteBasic
<1>4. CASE /\ Store!Has /\ Store!NextSeq(frame[t].seq)
           /\ Store!StorePush([seq |-> frame[t].seq, blob |-> frame[t].blob], {t})
           /\ log' = Append(log, t)
           /\ Answer(t, "ok", IF Compacts(frame[t].seq) THEN "compact" ELSE "done")
  <2>1. block \in 1 .. Len(objects) /\ frame[t] \in Frame
    BY <1>1, <1>4, OldTask DEF Store!Has
  <2>2. PICK o, seq, blob : o = objects[block] /\ seq = frame[t].seq /\ blob = frame[t].blob
    OBVIOUS
  <2>3. /\ o \in Store!MemoryBlock /\ o.history \in Seq(Store!Batch) /\ o.shared \in BOOLEAN
        /\ o.latest.seq \in {-1} \cup Nat /\ o.start \in Store!Snapshot
    BY <1>1, <2>1, <2>2, BlockTyped DEF Store!MemoryBlock
  <2>4. seq \in Nat /\ blob \in SUBSET Task
    BY <1>4, <2>1, <2>2, <2>3 DEF Store!NextSeq, Store!Current, Frame
  <2>5. PICK snapshot, batch :
          snapshot = [seq |-> seq, blob |-> blob] /\ batch = [seq |-> seq, patches |-> {t}]
    OBVIOUS
  <2>6. /\ snapshot \in Store!Snapshot /\ snapshot.seq = seq /\ batch \in Store!Batch
        /\ Append(o.history, batch) \in Seq(Store!Batch)
    BY <2>3, <2>4, <2>5 DEF Store!Snapshot, Store!Batch
  <2>7. PICK new \in Store!MemoryBlock : objects' = [objects EXCEPT ![block] = new]
    <3> DEFINE new == [o EXCEPT !.latest = snapshot, !.start = IF o.shared THEN snapshot ELSE @,
                                !.history = Append(@, batch)]
    <3>1. new \in Store!MemoryBlock
      BY <2>3, <2>6 DEF Store!MemoryBlock
    <3>2. objects' = [objects EXCEPT ![block] = new]
      BY <1>4, <2>2, <2>5, <2>6 DEF Store!StorePush, Store!Current
    <3> QED BY <3>1, <3>2
  <2>8. objects' \in Seq(Store!MemoryBlock) /\ Len(objects') = Len(objects) /\ block' = block
    <3>1. objects \in Seq(Store!MemoryBlock) /\ block' = block
      BY <1>1, <1>4, OldTask DEF Store!StorePush
    <3> QED BY <2>1, <2>7, <3>1
  <2>9. log' \in Seq(Task)
    BY <1>1, <1>4, OldTask
  <2>10. PICK p \in {"compact", "done"} :
           Answer(t, "ok", p) /\ (p = "compact" => frame[t].seq > historyPerBlock)
    BY <1>4 DEF Compacts
  <2>11. /\ pc' = [pc EXCEPT ![t] = p] /\ pc'[t] = p /\ outcome' = [outcome EXCEPT ![t] = "ok"]
    BY <1>2, <2>10 DEF Answer
  <2>12. Asked(t)'
    BY <1>1, <1>2, <2>10, <2>11 DEF Asked, Holding, Compacting, Pulls, Pulled
  <2> QED BY <1>1, <1>2, <2>8, <2>9, <2>11, <2>12, OldTask, WriteBasic
<1> QED BY <1>3, <1>4 DEF EditPush

LEMMA RemoveBasic ==
  ASSUME Basic, NEW t \in Task, Remove(t)
  PROVE  Basic'
<1>1. TypeOK /\ Asked(t) /\ Rest(t) /\ frame' = frame /\ log' = log
  BY StepRest DEF Basic, Step, Remove
<1>2. /\ pc' = [pc EXCEPT ![t] = "done"] /\ pc'[t] = "done" /\ "done" \in Place
      /\ outcome' = [outcome EXCEPT ![t] = "ok"] /\ objects' = objects /\ block' = 0
      /\ removed' \in BOOLEAN
  BY <1>1, OldTask DEF Remove, Answer, Store!StoreRemove, Store!Has, Place
<1>3. Asked(t)'
  BY <1>2, DoneAsked
<1> QED BY <1>1, <1>2, <1>3, OldTask, WriteBasic

LEMMA StepBasic ==
  ASSUME Basic, [Next]_vars
  PROVE  Basic'
<1>1. ASSUME NEW t \in Task, Step(t) PROVE Basic'
  BY <1>1, CreateBasic, EditBasic, CompactBasic, PullBasic, MoveBasic, PushBasic, RemoveBasic
     DEF Step
<1>2. CASE UNCHANGED vars
  BY <1>2
     DEF vars, storeVars, Basic, TypeOK, Asked, Store!StoreTypeOK, Holding, Compacting, Pulls, Pulled
<1> QED BY <1>1, <1>2 DEF Next, Step

-----------------------------------------------------------------------------
(* The one block, and what a writing step makes of it.                      *)
LEMMA NoBlockYet ==
  ASSUME TypeOK, OneBlock, ~removed
  PROVE  /\ ~Store!Has <=> block = 0
         /\ block = 0 => objects = <<>> /\ log = <<>> /\ Len(log) = 0 /\ Len(objects) = 0
         /\ Store!Has => /\ block = 1 /\ Len(objects) = 1 /\ Store!Current = First
                         /\ 1 \in 1 .. Len(objects)
BY DEF OneBlock, Store!Has, Store!Current, First

LEMMA CreateFirst ==
  ASSUME TypeOK, OneBlock, ~removed, NEW t \in Task, Create(t), ~Store!Has
  PROVE  \E patches \in {{}, {t}} :
           /\ block' = 1 /\ Len(objects') = 1
           /\ First'.start = Store!Empty
           /\ First'.latest = IF patches = {} THEN Store!Empty ELSE [seq |-> 0, blob |-> patches]
           /\ First'.shared <=> patches = {}
           /\ First'.history = IF patches = {} THEN <<>> ELSE <<[seq |-> 0, patches |-> patches]>>
           /\ log' = IF patches = {} THEN <<>> ELSE <<t>>
           /\ pc' = [pc EXCEPT ![t] = "done"] /\ outcome' = [outcome EXCEPT ![t] = "ok"]
           /\ frame' = frame /\ removed' = removed
<1>1. /\ objects = <<>> /\ Len(objects) = 0 /\ objects \in Seq(Store!MemoryBlock)
  BY NoBlockYet DEF TypeOK, Store!StoreTypeOK
<1>2. PICK patches \in {{}, {t}} :
        /\ Store!StoreCreate(patches) /\ Answer(t, "ok", "done")
        /\ log' = IF patches = {} THEN <<>> ELSE <<t>>
  BY DEF Create
<1> DEFINE new == [start |-> Store!Empty,
              latest |-> IF patches = {} THEN Store!Empty ELSE [seq |-> 0, blob |-> patches],
              shared |-> patches = {},
              history |-> IF patches = {} THEN <<>> ELSE <<[seq |-> 0, patches |-> patches]>>]
<1>3. objects' = Append(objects, new) /\ block' = 1
  BY <1>1, <1>2 DEF Store!StoreCreate
<1>4. /\ new.start = Store!Empty
      /\ new.latest = IF patches = {} THEN Store!Empty ELSE [seq |-> 0, blob |-> patches]
      /\ new.shared <=> patches = {}
      /\ new.history = IF patches = {} THEN <<>> ELSE <<[seq |-> 0, patches |-> patches]>>
  OBVIOUS
<1>5. Len(objects') = 1 /\ First' = new
  <2> HIDE DEF new
  <2> QED BY <1>1, <1>3 DEF First
<1> HIDE DEF new
<1> QED BY <1>2, <1>3, <1>4, <1>5 DEF Create, Answer

LEMMA PushFirst ==
  ASSUME TypeOK, OneBlock, ~removed, NEW t \in Task, EditPush(t), Store!Has,
         Store!NextSeq(frame[t].seq)
  PROVE  /\ block = 1 /\ block' = 1 /\ Len(objects) = 1 /\ Len(objects') = 1
         /\ First'.latest = [seq |-> frame[t].seq, blob |-> frame[t].blob]
         /\ First'.start = IF First.shared THEN First'.latest ELSE First.start
         /\ First'.shared = First.shared
         /\ First'.history = Append(First.history, [seq |-> frame[t].seq, patches |-> {t}])
         /\ log' = Append(log, t) /\ frame[t].seq = First.latest.seq + 1
         /\ pc' = [pc EXCEPT ![t] = IF Compacts(frame[t].seq) THEN "compact" ELSE "done"]
         /\ outcome' = [outcome EXCEPT ![t] = "ok"] /\ frame' = frame /\ removed' = removed
<1>1. block = 1 /\ Len(objects) = 1 /\ Store!Current = First /\ objects \in Seq(Store!MemoryBlock)
  BY NoBlockYet DEF TypeOK, Store!StoreTypeOK
<1>2. /\ Store!StorePush([seq |-> frame[t].seq, blob |-> frame[t].blob], {t})
      /\ Store!NextSeq(frame[t].seq) /\ log' = Append(log, t)
      /\ Answer(t, "ok", IF Compacts(frame[t].seq) THEN "compact" ELSE "done")
      /\ frame' = frame /\ removed' = removed
  BY DEF EditPush
<1>3. PICK s, b : s = [seq |-> frame[t].seq, blob |-> frame[t].blob]
                  /\ b = [seq |-> s.seq, patches |-> {t}]
  OBVIOUS
<1>4. s.seq = frame[t].seq
  BY <1>3
<1>5. objects' = [objects EXCEPT ![1] = [First EXCEPT !.latest = s,
         !.start = IF First.shared THEN s ELSE @, !.history = Append(@, b)]]
  <2>1. PICK o, seq, blob : o = objects[block] /\ seq = frame[t].seq /\ blob = frame[t].blob
    OBVIOUS
  <2>2. objects' = [objects EXCEPT ![block] = [o EXCEPT !.latest = s,
           !.start = IF o.shared THEN s ELSE @, !.history = Append(@, b)]]
    BY <1>2, <1>3, <1>4, <2>1 DEF Store!StorePush, Store!Current
  <2> QED BY <1>1, <2>1, <2>2 DEF First
<1>6. First \in Store!MemoryBlock
  <2>1. 1 \in 1 .. Len(objects)
    BY <1>1
  <2> QED BY <2>1, BlockTyped DEF First
<1>7. First' = [First EXCEPT !.latest = s, !.start = IF First.shared THEN s ELSE @,
                             !.history = Append(@, b)] /\ Len(objects') = 1
  <2>1. PICK new : new = [First EXCEPT !.latest = s, !.start = IF First.shared THEN s ELSE @,
                                       !.history = Append(@, b)]
    OBVIOUS
  <2>2. objects' = [objects EXCEPT ![1] = new]
    BY <1>5, <2>1
  <2>3. objects'[1] = new /\ Len(objects') = 1
    BY <1>1, <2>2
  <2> QED BY <2>1, <2>3 DEF First
<1>8. /\ First'.latest = s /\ First'.start = IF First.shared THEN s ELSE First.start
      /\ First'.shared = First.shared /\ First'.history = Append(First.history, b)
  BY <1>6, <1>7 DEF Store!MemoryBlock
<1> QED BY <1>1, <1>2, <1>3, <1>4, <1>7, <1>8 DEF Answer, Store!StorePush, Store!NextSeq

LEMMA MoveFirst ==
  ASSUME Basic, OneBlock, ~removed, NEW t \in Task, CompactMove(t)
  PROVE  /\ block = 1 /\ block' = 1 /\ Len(objects) = 1 /\ Len(objects') = 1
         /\ First'.start = [seq |-> frame[t].seq - historyPerBlock, blob |-> frame[t].blob]
         /\ First'.latest = IF First.shared THEN First'.start ELSE First.latest
         /\ First'.shared = First.shared
         /\ First'.history = SubSeq(First.history, frame[t].pos + 1, Len(First.history))
         /\ pc' = [pc EXCEPT ![t] = "done"] /\ outcome' = outcome
         /\ frame' = frame /\ removed' = removed /\ log' = log
<1>1. TypeOK /\ pc[t] = "move" /\ Found(t) /\ Holding(t)
  BY DEF Basic, CompactMove, Found, Holding
<1>2. /\ block = 1 /\ Len(objects) = 1 /\ objects \in Seq(Store!MemoryBlock) /\ frame[t].ref = 1
  BY <1>1 DEF OneBlock, TypeOK, Store!StoreTypeOK
<1>3. PICK s, h : /\ s = [seq |-> frame[t].seq - historyPerBlock, blob |-> frame[t].blob]
                  /\ h = SubSeq(First.history, frame[t].pos + 1, Len(First.history))
  OBVIOUS
<1>4. objects' = [objects EXCEPT ![1] = [First EXCEPT !.start = s,
         !.latest = IF First.shared THEN s ELSE @, !.history = h]]
  <2>1. PICK o, ref, to, blob, pos :
          o = objects[ref] /\ ref = frame[t].ref /\ to = frame[t].seq - historyPerBlock
          /\ blob = frame[t].blob /\ pos = frame[t].pos
    OBVIOUS
  <2>2. s = [seq |-> to, blob |-> blob] /\ h = SubSeq(o.history, pos + 1, Len(o.history)) /\ ref = 1
    BY <1>2, <1>3, <2>1 DEF First
  <2>3. objects' = [objects EXCEPT ![ref] = [o EXCEPT !.start = s,
           !.latest = IF o.shared THEN s ELSE @, !.history = h]]
    BY <2>1, <2>2 DEF CompactMove, Store!MoveStart
  <2> QED BY <2>1, <2>2, <2>3 DEF First
<1>5. First \in Store!MemoryBlock
  <2>1. 1 \in 1 .. Len(objects)
    BY <1>2
  <2> QED BY <1>1, <2>1, BlockTyped DEF First
<1>6. First' = [First EXCEPT !.start = s, !.latest = IF First.shared THEN s ELSE @, !.history = h]
      /\ Len(objects') = 1
  <2>1. PICK new : new = [First EXCEPT !.start = s, !.latest = IF First.shared THEN s ELSE @,
                                       !.history = h]
    OBVIOUS
  <2>2. objects' = [objects EXCEPT ![1] = new]
    BY <1>4, <2>1
  <2>3. objects'[1] = new /\ Len(objects') = 1
    BY <1>2, <2>2
  <2> QED BY <2>1, <2>3 DEF First
<1>7. /\ First'.start = s /\ First'.latest = IF First.shared THEN s ELSE First.latest
      /\ First'.shared = First.shared /\ First'.history = h
  BY <1>5, <1>6 DEF Store!MemoryBlock
<1> QED BY <1>2, <1>3, <1>6, <1>7 DEF CompactMove, Goto

LEMMA RemoveMeans ==
  ASSUME NEW t \in Task, Remove(t), ~removed'
  PROVE  block = 0
BY DEF Remove, Store!Has

-----------------------------------------------------------------------------
(* Until the block is removed there is no other.                            *)
LEMMA QuietOneBlock ==
  ASSUME TypeOK, OneBlock, NEW t \in Task, Quiet(t),
         ~removed /\ block = 0 => ~Found(t)' /\ ~Pulled(t)',
         ~removed /\ block = 1 /\ Holding(t)' => frame'[t].ref = 1
  PROVE  OneBlock'
<1> SUFFICES ASSUME ~removed' PROVE OneBlock'
  BY DEF OneBlock
<1>1. /\ ~removed /\ block' = block /\ objects' = objects /\ log' = log
      /\ First' = First
  BY DEF Quiet, storeVars, First
<1>2. \A u \in Task \ {t} :
        /\ Found(u)' <=> Found(u)
        /\ Holding(u)' <=> Holding(u)
        /\ Pulled(u)' <=> Pulled(u)
        /\ frame'[u] = frame[u]
  BY DEF Quiet, Rest, Found, Holding, Pulled, Pulls
<1>3. CASE block = 0
  BY <1>1, <1>2, <1>3 DEF OneBlock
<1>4. CASE block # 0
  BY <1>1, <1>2, <1>4 DEF OneBlock
<1> QED BY <1>3, <1>4

LEMMA EditOneBlock ==
  ASSUME Basic, OneBlock, NEW t \in Task,
         \/ EditExists(t) \/ EditGet(t) \/ EditCompute(t) \/ CompactStart(t) \/ CompactMerge(t)
  PROVE  OneBlock'
<1>1. /\ TypeOK /\ Asked(t) /\ Quiet(t) /\ objects' = objects /\ op' = op
      /\ pc \in [Task -> Place] /\ frame \in [Task -> Frame] /\ pc[t] \in Place /\ frame[t] \in Frame
      /\ outcome \in [Task -> {"none", "ok"} \cup Failure]
  BY StepQuiet, OldTask DEF Basic, Quiet, Rest, storeVars
<1>2. /\ ~removed /\ block = 0 => ~Found(t)
      /\ ~removed /\ block = 1 => (Holding(t) => frame[t].ref = 1)
  BY DEF OneBlock
<1>3. ~Pulled(t)'
  <2>1. ~Pulls(t)
    BY <1>1 DEF EditExists, EditGet, EditCompute, CompactStart, CompactMerge, Asked, Holding, Compacting
  <2> QED BY <1>1, <2>1 DEF Pulled, Pulls
<1>4. CASE EditExists(t)
  BY <1>1, <1>3, <1>4, QuietOneBlock DEF EditExists, Goto, Found, Holding
<1>5. CASE EditGet(t)
  <2>1. CASE ~Store!Has
    <3>1. pc'[t] = "done"
      BY <1>1, <1>5, <2>1 DEF EditGet, Answer
    <3> QED BY <1>1, <1>3, <3>1, QuietOneBlock DEF Found, Holding
  <2>2. CASE Store!Has
    <3>1. frame'[t].ref = block
      BY <1>1, <1>5, <2>2 DEF EditGet, Remember, Frame
    <3> QED BY <1>1, <1>3, <2>2, <3>1, QuietOneBlock DEF Store!Has
  <2> QED BY <2>1, <2>2
<1>6. CASE EditCompute(t)
  <2>1. Found(t) /\ Holding(t)
    BY <1>6 DEF EditCompute, Found, Holding
  <2>2. frame'[t].ref = frame[t].ref
    BY <1>1, <1>6 DEF EditCompute, Remember, Frame
  <2> QED BY <1>1, <1>2, <2>1, <2>2, QuietOneBlock
<1>7. CASE CompactStart(t)
  <2>1. Found(t)
    BY <1>7 DEF CompactStart, Found
  <2>2. CASE ~Store!Has
    <3>1. block = 0
      BY <2>2 DEF Store!Has
    <3> QED BY <1>1, <1>2, <2>1, <3>1, QuietOneBlock
  <2>3. CASE Store!Has
    <3>1. PICK b, n : frame' = [frame EXCEPT ![t] =
                        [frame[t] EXCEPT !.ref = block, !.blob = b, !.pos = 0, !.len = n]]
      BY <1>7, <2>3 DEF CompactStart, Remember
    <3>2. frame'[t].ref = block
      BY <1>1, <3>1 DEF Frame
    <3> QED BY <1>1, <1>2, <2>1, <3>2, QuietOneBlock
  <2> QED BY <2>2, <2>3
<1>8. CASE CompactMerge(t)
  <2>1. Found(t) /\ Holding(t)
    BY <1>8 DEF CompactMerge, Found, Holding
  <2>2. frame'[t].ref = frame[t].ref
    <3> DEFINE k == NextBatch(t)
               history == objects[frame[t].ref].history
    <3>1. \/ frame' = frame
          \/ frame' = [frame EXCEPT ![t] = [frame[t] EXCEPT !.pos = k]]
          \/ frame' = [frame EXCEPT ![t] =
                         [frame[t] EXCEPT !.pos = k + 1, !.blob = @ \cup history[k + 1].patches]]
      BY <1>8 DEF CompactMerge, Remember
    <3> HIDE DEF k, history
    <3> QED BY <1>1, <3>1 DEF Frame
  <2> QED BY <1>1, <1>2, <2>1, <2>2, QuietOneBlock
<1> QED BY <1>4, <1>5, <1>6, <1>7, <1>8

LEMMA PullOneBlock ==
  ASSUME Basic, OneBlock, NEW t \in Task, PullSeq(t) \/ PullSnapshot(t) \/ PullScan(t)
  PROVE  OneBlock'
<1>1. /\ TypeOK /\ Asked(t) /\ Quiet(t) /\ objects' = objects /\ op' = op
      /\ pc \in [Task -> Place] /\ frame \in [Task -> Frame] /\ pc[t] \in Place /\ frame[t] \in Frame
      /\ outcome \in [Task -> {"none", "ok"} \cup Failure]
  BY StepQuiet, OldTask DEF Basic, Quiet, Rest, storeVars
<1>2. ~removed /\ block = 0 => ~Found(t) /\ ~Pulled(t)
  BY DEF OneBlock
<1>3. ~Holding(t)'
  <2>1. pc'[t] \in {"done", "create", "snapshot", "scan"}
    BY <1>1 DEF PullSeq, PullSnapshot, PullScan, Goto, Answer
  <2> QED BY <2>1 DEF Holding
<1>4. ASSUME ~removed, block = 0
      PROVE  ~Found(t)' /\ ~Pulled(t)'
  <2>1. PullSeq(t) /\ ~Store!Has
    BY <1>2, <1>4 DEF PullSnapshot, PullScan, Found, Store!Has
  <2>2. pc[t] = "seq" /\ pc[t] # "done" /\ outcome[t] # "ok"
    BY <1>1, <1>2, <1>4, <2>1 DEF PullSeq, Pulled, Asked
  <2>3. pc'[t] \in {"create", "done"} /\ outcome'[t] \in {outcome[t], "NOT_FOUND"}
    BY <1>1, <2>1 DEF PullSeq, Goto, Answer
  <2> QED BY <2>2, <2>3 DEF Found, Holding, Pulled
<1> QED BY <1>1, <1>3, <1>4, QuietOneBlock

LEMMA CreateOneBlock ==
  ASSUME Basic, OneBlock, NEW t \in Task, Create(t)
  PROVE  OneBlock'
<1>1. /\ TypeOK /\ Asked(t) /\ Rest(t) /\ op' = op /\ pc[t] = "create" /\ removed' = removed
      /\ pc \in [Task -> Place]
  BY StepRest, OldTask DEF Basic, Rest, Step, Create
<1> SUFFICES ASSUME ~removed PROVE OneBlock'
  BY <1>1 DEF OneBlock
<1>2. pc'[t] = "done"
  BY <1>1 DEF Create, Answer
<1>3. CASE Store!Has
  <2>1. Quiet(t)
    BY <1>1, <1>3 DEF Create, Quiet
  <2>2. block # 0 /\ ~Holding(t)'
    BY <1>2, <1>3 DEF Store!Has, Holding
  <2> QED BY <1>1, <2>1, <2>2, QuietOneBlock
<1>4. CASE ~Store!Has
  <2>1. \A u \in Task : ~Holding(u)
    BY <1>1, <1>4, NoBlockYet DEF OneBlock, Found
  <2>2. \A u \in Task : ~Holding(u)'
    BY <1>1, <1>2, <2>1 DEF Holding, Rest
  <2>3. PICK patches \in {{}, {t}} :
          /\ block' = 1 /\ Len(objects') = 1
          /\ First'.history = IF patches = {} THEN <<>> ELSE <<[seq |-> 0, patches |-> patches]>>
          /\ log' = IF patches = {} THEN <<>> ELSE <<t>>
    BY <1>1, <1>4, CreateFirst
  <2>4. Len(First'.history) <= Len(log')
    BY <2>3
  <2> QED BY <2>2, <2>3, <2>4 DEF OneBlock
<1> QED BY <1>3, <1>4

LEMMA PushOneBlock ==
  ASSUME Basic, OneBlock, NEW t \in Task, EditPush(t)
  PROVE  OneBlock'
<1>1. /\ TypeOK /\ Asked(t) /\ Rest(t) /\ op' = op /\ pc[t] = "push" /\ removed' = removed
      /\ pc \in [Task -> Place] /\ frame' = frame /\ ~Pulls(t)
  BY StepRest, OldTask DEF Basic, Rest, Step, EditPush, Asked, Holding
<1> SUFFICES ASSUME ~removed PROVE OneBlock'
  BY <1>1 DEF OneBlock
<1>2. pc'[t] \in {"compact", "done"} /\ ~Holding(t)'
  BY <1>1 DEF EditPush, Answer, Holding
<1>3. block = 1 /\ Store!Has /\ Len(First.history) <= Len(log)
  BY <1>1 DEF OneBlock, Found, Holding, Store!Has
<1>4. CASE ~Store!NextSeq(frame[t].seq)
  <2>1. Quiet(t)
    BY <1>1, <1>3, <1>4 DEF EditPush, Quiet
  <2> QED BY <1>1, <1>2, <1>3, <2>1, QuietOneBlock
<1>5. CASE Store!NextSeq(frame[t].seq)
  <2>1. /\ block' = 1 /\ Len(objects') = 1 /\ log' = Append(log, t)
        /\ First'.history = Append(First.history, [seq |-> frame[t].seq, patches |-> {t}])
    BY <1>1, <1>3, <1>5, PushFirst
  <2>2. 1 \in 1 .. Len(objects) /\ log \in Seq(Task)
    BY <1>1, <1>3, OldTask
  <2>3. First.history \in Seq(Store!Batch)
    BY <1>1, <2>2, BlockTyped DEF First
  <2>4. Len(log') = Len(log) + 1 /\ Len(log) \in Nat
    BY <2>1, <2>2
  <2>5. Len(First'.history) = Len(First.history) + 1 /\ Len(First.history) \in Nat
    BY <2>1, <2>3
  <2>6. \A u \in Task : Holding(u)' => Holding(u)
    BY <1>1, <1>2 DEF Holding, Rest
  <2> QED BY <1>1, <1>3, <2>1, <2>4, <2>5, <2>6 DEF OneBlock
<1> QED BY <1>4, <1>5

LEMMA MoveOneBlock ==
  ASSUME Basic, OneBlock, NEW t \in Task, CompactMove(t)
  PROVE  OneBlock'
<1>1. /\ TypeOK /\ Asked(t) /\ Rest(t) /\ op' = op /\ pc[t] = "move" /\ removed' = removed
      /\ frame[t] \in Frame
  BY StepRest, OldTask DEF Basic, Rest, Step, CompactMove
<1> SUFFICES ASSUME ~removed PROVE OneBlock'
  BY <1>1 DEF OneBlock
<1>2. /\ block = 1 /\ block' = 1 /\ Len(objects) = 1 /\ Len(objects') = 1
      /\ First'.history = SubSeq(First.history, frame[t].pos + 1, Len(First.history))
      /\ pc' = [pc EXCEPT ![t] = "done"] /\ frame' = frame /\ log' = log
  BY MoveFirst
<1>3. 1 \in 1 .. Len(objects) /\ frame[t].pos \in Nat
  BY <1>1, <1>2 DEF Frame
<1>4. First.history \in Seq(Store!Batch) /\ Len(First.history) \in Nat
  BY <1>1, <1>3, BlockTyped DEF First
<1>5. Len(First'.history) <= Len(First.history) /\ Len(First'.history) \in Nat
  <2>1. PICK h, p : h = First.history /\ p = frame[t].pos
    OBVIOUS
  <2>2. Len(SubSeq(h, p + 1, Len(h))) = IF p + 1 <= Len(h) THEN Len(h) - p ELSE 0
    BY <1>3, <1>4, <2>1
  <2> QED BY <1>2, <1>3, <1>4, <2>1, <2>2
<1>6. \A u \in Task : Holding(u)' => Holding(u)
  <2>1. pc'[t] = "done"
    BY <1>1, <1>2, OldTask
  <2> QED BY <1>1, <2>1 DEF Holding, Rest
<1>7. Len(log) \in Nat
  BY <1>1, OldTask
<1>8. Len(First.history) <= Len(log) /\ \A u \in Task : Holding(u) => frame[u].ref = 1
  BY <1>2 DEF OneBlock
<1>9. Len(First'.history) <= Len(log')
  <2>1. PICK x, y, z : x = Len(First'.history) /\ y = Len(First.history) /\ z = Len(log)
    OBVIOUS
  <2>2. x \in Nat /\ y \in Nat /\ z \in Nat /\ x <= y /\ y <= z
    BY <1>4, <1>5, <1>7, <1>8, <2>1, Zenon
  <2>3. x <= z
    BY <2>2
  <2>4. log' = log
    BY <1>2
  <2> QED BY <2>1, <2>3, <2>4, Zenon
<1>10. \A u \in Task : Holding(u)' => frame'[u].ref = 1
  BY <1>2, <1>6, <1>8
<1>11. block' = 1 /\ block' # 0 /\ Len(objects') = 1
  BY <1>2
<1> QED BY <1>9, <1>10, <1>11, Zenon DEF OneBlock

LEMMA RemoveOneBlock ==
  ASSUME Basic, OneBlock, NEW t \in Task, Remove(t)
  PROVE  OneBlock'
<1>1. /\ TypeOK /\ Asked(t) /\ Rest(t) /\ op' = op /\ pc[t] = "remove"
      /\ objects' = objects /\ log' = log /\ block' = 0
  BY StepRest, OldTask DEF Basic, Rest, Step, Remove, Store!StoreRemove
<1> SUFFICES ASSUME ~removed' PROVE OneBlock'
  BY <1>1 DEF OneBlock
<1>2. block = 0 /\ ~removed
  BY RemoveMeans DEF Remove
<1>3. pc'[t] = "done" /\ ~Pulls(t)
  BY <1>1, OldTask DEF Remove, Answer, Asked
<1>4. \A u \in Task : ~Found(u)' /\ ~Pulled(u)'
  <2>1. \A u \in Task : ~Found(u) /\ ~Pulled(u)
    BY <1>2 DEF OneBlock
  <2>2. ~Found(t)' /\ ~Pulled(t)'
    BY <1>1, <1>3 DEF Found, Holding, Pulled, Pulls
  <2>3. \A u \in Task \ {t} : ~Found(u)' /\ ~Pulled(u)'
    BY <1>1, <2>1 DEF Rest, Found, Holding, Pulled, Pulls
  <2> QED BY <2>2, <2>3
<1> QED BY <1>1, <1>2, <1>4 DEF OneBlock

LEMMA InitOneBlock == Init => OneBlock
<1> SUFFICES ASSUME Init PROVE OneBlock
  OBVIOUS
<1>1. \A t \in Task : op[t] \in Operation /\ pc[t] = FirstStep(op[t]) /\ outcome[t] = "none"
  BY BlocksAssumption DEF Init
<1>2. \A t \in Task : ~Found(t) /\ ~Pulled(t)
  BY <1>1 DEF FirstStep, Operation, Found, Holding, Pulled
<1> QED BY <1>2 DEF Init, Store!StoreInit, OneBlock

LEMMA StepOneBlock ==
  ASSUME Basic, OneBlock, [Next]_vars
  PROVE  OneBlock'
<1>1. ASSUME NEW t \in Task, Step(t) PROVE OneBlock'
  BY <1>1, CreateOneBlock, EditOneBlock, PullOneBlock, MoveOneBlock, PushOneBlock, RemoveOneBlock
     DEF Step
<1>2. CASE UNCHANGED vars
  BY <1>2 DEF vars, storeVars, OneBlock, First, Found, Holding, Pulls, Pulled
<1> QED BY <1>1, <1>2 DEF Next, Step

-----------------------------------------------------------------------------
(* What clients know, and what they get from the history.                   *)
LEMMA KnownGrows ==
  ASSUME TypeOK, NEW t \in Task, log' = Append(log, t)
  PROVE  /\ Len(log') = Len(log) + 1
         /\ \A k \in 1 .. Len(log) : log'[k] = log[k]
         /\ log'[Len(log) + 1] = t
         /\ \A s \in Int : s < Len(log) => Known(s)' = Known(s)
         /\ \A s \in Int : s = Len(log) => Known(s)' = Known(s - 1) \cup {t}
<1>1. log \in Seq(Task) /\ Len(log) \in Nat
  BY OldTask DEF TypeOK
<1>2. /\ Len(log') = Len(log) + 1
      /\ \A k \in 1 .. Len(log) : log'[k] = log[k]
      /\ log'[Len(log) + 1] = t
  BY <1>1
<1>3. ASSUME NEW s \in Int, s < Len(log)
      PROVE  Known(s)' = Known(s)
  <2>1. \A k \in 1 .. (s + 1) : log'[k] = log[k]
    BY <1>1, <1>2, <1>3
  <2> QED BY <2>1 DEF Known
<1>4. ASSUME NEW n \in Int, n = Len(log)
      PROVE  Known(n)' = Known(n - 1) \cup {t}
  <2>1. n \in Nat /\ n = Len(log)
    BY <1>1, <1>4
  <2>2. \A k \in 1 .. n : log'[k] = log[k]
    BY <1>2, <2>1
  <2>3. 1 .. (n + 1) = (1 .. n) \cup {n + 1} /\ (n - 1) + 1 = n
    BY <2>1
  <2>4. log'[n + 1] = t
    BY <1>2, <2>1
  <2>5. {log'[k] : k \in 1 .. (n + 1)} = {log[k] : k \in 1 .. n} \cup {t}
    BY <2>2, <2>3, <2>4
  <2> QED BY <2>3, <2>5 DEF Known
<1> QED BY <1>2, <1>3, <1>4

LEMMA KnownUpto ==
  ASSUME NEW s \in Int, NEW r \in Int, s <= r
  PROVE  Known(s) \subseteq Known(r)
BY DEF Known

LEMMA Replayed ==
  ASSUME NEW h \in Seq(Store!Batch), NEW base, Numbered(h, base), Len(log) \in Nat,
         NEW a \in Int, NEW b \in Int, base < a, b < Len(log)
  PROVE  Store!PatchesOf(Store!Between(h, a, b)) = {log[k] : k \in (a + 1) .. (b + 1)}
<1>1. /\ base \in Int /\ Len(h) \in Nat /\ base + Len(h) = Len(log) - 1
      /\ DOMAIN h = 1 .. Len(h)
      /\ \A k \in 1 .. Len(h) : h[k].seq = base + k /\ h[k].patches = {log[base + k + 1]}
  BY DEF Numbered
<1>2. PICK n \in Nat : n = Len(h)
  BY <1>1
<1>3. ASSUME NEW p \in Store!PatchesOf(Store!Between(h, a, b))
      PROVE  p \in {log[k] : k \in (a + 1) .. (b + 1)}
  <2>1. PICK k \in 1 .. n : p \in h[k].patches /\ a <= h[k].seq /\ h[k].seq <= b
    BY <1>1, <1>2, <1>3 DEF Store!PatchesOf, Store!Between, Store!InHistory
  <2>2. p = log[base + k + 1] /\ a <= base + k /\ base + k <= b
    BY <1>1, <1>2, <2>1
  <2>3. base + k + 1 \in (a + 1) .. (b + 1)
    BY <1>1, <2>2
  <2> QED BY <2>2, <2>3
<1>4. ASSUME NEW k \in (a + 1) .. (b + 1)
      PROVE  log[k] \in Store!PatchesOf(Store!Between(h, a, b))
  <2>1. PICK j \in Int : j = k - 1 - base
    BY <1>1
  <2>2. j \in 1 .. n /\ base + j + 1 = k /\ a <= base + j /\ base + j <= b
    <3>1. Len(log) = base + n + 1
      BY <1>1, <1>2
    <3> QED BY <1>1, <2>1, <3>1
  <2>3. log[k] \in h[j].patches /\ a <= h[j].seq /\ h[j].seq <= b
    BY <1>1, <1>2, <2>2
  <2>4. h[j] \in Store!Between(h, a, b)
    BY <1>1, <1>2, <2>2, <2>3 DEF Store!Between, Store!InHistory
  <2> QED BY <2>3, <2>4 DEF Store!PatchesOf, Store!Between, Store!InHistory
<1> QED BY <1>3, <1>4

-----------------------------------------------------------------------------
(* What the requests other than t know of the document is not touched.      *)
LEMMA QuietIntact ==
  ASSUME NEW t \in Task, Quiet(t)
  PROVE  /\ First' = First /\ block' = block /\ log' = log /\ removed' = removed
         /\ objects' = objects /\ Base' = Base
         /\ Intact' <=> Intact
         /\ LatestRight' <=> LatestRight
         /\ \A h, b : Numbered(h, b)' <=> Numbered(h, b)
         /\ \A s : Known(s)' = Known(s)
         /\ \A u \in Task \ {t} :
              /\ pc'[u] = pc[u] /\ frame'[u] = frame[u] /\ outcome'[u] = outcome[u] /\ op'[u] = op[u]
              /\ PushRight(u)' <=> PushRight(u)
              /\ CompactionRight(u)' <=> CompactionRight(u)
              /\ MergeRight(u)' <=> MergeRight(u)
              /\ PullRight(u)' <=> PullRight(u)
<1>1. First' = First /\ block' = block /\ log' = log /\ removed' = removed /\ objects' = objects
  BY DEF Quiet, storeVars, First
<1>2. \A u \in Task \ {t} :
        pc'[u] = pc[u] /\ frame'[u] = frame[u] /\ outcome'[u] = outcome[u] /\ op'[u] = op[u]
  BY DEF Quiet, Rest
<1>3. \A s : Known(s)' = Known(s)
  BY <1>1 DEF Known
<1>4. Base' = Base /\ (Intact' <=> Intact) /\ (LatestRight' <=> LatestRight)
  BY <1>1, <1>3 DEF Base, Intact, LatestRight
<1>5. \A h, b : Numbered(h, b)' <=> Numbered(h, b)
  BY <1>1 DEF Numbered
<1>6. ASSUME NEW u \in Task \ {t}
      PROVE  /\ PushRight(u)' <=> PushRight(u)
             /\ CompactionRight(u)' <=> CompactionRight(u)
             /\ MergeRight(u)' <=> MergeRight(u)
             /\ PullRight(u)' <=> PullRight(u)
  <2>1. pc'[u] = pc[u] /\ frame'[u] = frame[u] /\ outcome'[u] = outcome[u] /\ op'[u] = op[u]
    BY <1>2
  <2>2. PushRight(u)' <=> PushRight(u)
    BY <1>1, <1>3, <2>1 DEF PushRight
  <2>3. CompactionRight(u)' <=> CompactionRight(u)
    BY <1>1, <2>1 DEF CompactionRight, Compacting
  <2>4. MergeRight(u)' <=> MergeRight(u)
    BY <1>1, <1>3, <2>1 DEF MergeRight, Compacting
  <2>5. PullRight(u)' <=> PullRight(u)
    BY <1>1, <1>3, <2>1 DEF PullRight, Pulled, Pulls, Overtaken, Store!Current
  <2> QED BY <2>2, <2>3, <2>4, <2>5
<1> QED BY <1>1, <1>2, <1>3, <1>4, <1>5, <1>6

LEMMA NextIs ==
  ASSUME TypeOK, NEW t \in Task, NEW k \in frame[t].pos .. frame[t].len,
         k = frame[t].len \/ k >= Len(objects[frame[t].ref].history)
           \/ objects[frame[t].ref].history[k + 1].seq > objects[frame[t].ref].start.seq,
         \A j \in frame[t].pos .. (k - 1) :
           /\ j # frame[t].len /\ ~(j >= Len(objects[frame[t].ref].history))
           /\ ~(objects[frame[t].ref].history[j + 1].seq > objects[frame[t].ref].start.seq)
  PROVE  NextBatch(t) = k
<1> DEFINE o == objects[frame[t].ref]
           Stops(j) == j = frame[t].len \/ j >= Len(o.history) \/ o.history[j + 1].seq > o.start.seq
           Is(n) == Stops(n) /\ \A j \in frame[t].pos .. (n - 1) : ~Stops(j)
<1>1. frame[t].pos \in Nat /\ frame[t].len \in Nat /\ k \in Nat
  BY DEF TypeOK, Frame
<1>2. Is(k)
  OBVIOUS
<1>3. NextBatch(t) = CHOOSE n \in frame[t].pos .. frame[t].len : Is(n)
  BY DEF NextBatch
<1> HIDE DEF Is
<1>4. PICK n \in frame[t].pos .. frame[t].len : n = NextBatch(t) /\ Is(n)
  BY <1>2, <1>3
<1>5. ~(n < k)
  <2>1. n < k => n \in frame[t].pos .. (k - 1)
    BY <1>1
  <2> QED BY <1>2, <1>4, <2>1 DEF Is
<1>6. ~(k < n)
  <2>1. k < n => k \in frame[t].pos .. (n - 1)
    BY <1>1
  <2> QED BY <1>2, <1>4, <2>1 DEF Is
<1>7. n \in Nat
  BY <1>1
<1> QED BY <1>1, <1>4, <1>5, <1>6, <1>7

(* A compaction of a shared snapshot skips to the end of what it has seen.  *)
LEMMA MergeShared ==
  ASSUME Basic, OneBlock, Intact, NEW t \in Task, CompactMerge(t), First.shared,
         LatestRight, Numbered(First.history, -1), CompactionRight(t)
  PROVE  /\ pc' = [pc EXCEPT ![t] = "move"]
         /\ frame' = [frame EXCEPT ![t] = [frame[t] EXCEPT !.pos = frame[t].len]]
<1>1. /\ TypeOK /\ pc[t] = "merge" /\ Holding(t) /\ Compacting(t) /\ block = 1 /\ ~removed
      /\ frame[t] \in Frame /\ log \in Seq(Task) /\ Len(log) \in Nat
  BY OldTask DEF Basic, CompactMerge, Holding, Compacting, Intact
<1>2. frame[t].ref = 1 /\ Len(objects) = 1
  BY <1>1 DEF OneBlock
<1>3. PICK n \in Nat : n = frame[t].len /\ n \in 1 .. Len(First.history) /\ frame[t].pos = 0
  BY <1>1 DEF CompactionRight, Frame
<1>4. First.history \in Seq(Store!Batch) /\ Len(First.history) \in Nat
  <2>1. 1 \in 1 .. Len(objects)
    BY <1>2
  <2> QED BY <1>1, <2>1, BlockTyped DEF First
<1>5. \A j \in 1 .. Len(First.history) : First.history[j].seq = j - 1
  BY <1>4 DEF Numbered
<1>6. First.start.seq = Len(log) - 1 /\ Len(First.history) = Len(log)
  BY DEF LatestRight, Intact
<1>7. \A j \in 0 .. (n - 1) :
        j # n /\ ~(j >= Len(First.history)) /\ ~(First.history[j + 1].seq > First.start.seq)
  <2> TAKE j \in 0 .. (n - 1)
  <2>1. j + 1 \in 1 .. Len(First.history) /\ j # n /\ ~(j >= Len(First.history))
    BY <1>3, <1>4
  <2>2. First.history[j + 1].seq = j
    BY <1>5, <2>1
  <2> QED BY <1>1, <1>4, <1>6, <2>1, <2>2
<1>8. NextBatch(t) = n
  <2>1. n \in frame[t].pos .. frame[t].len
    BY <1>3
  <2> QED BY <1>1, <1>2, <1>3, <1>7, <2>1, NextIs DEF First
<1>9. n <= Len(First.history) /\ ~(n < n)
  BY <1>3, <1>4
<1> QED BY <1>2, <1>3, <1>8, <1>9 DEF CompactMerge, Goto, Remember, First

(* Of two snapshots, it takes the batches in order, and stops at the one    *)
(* that is to be the first of the history.                                  *)
MergeEnds(t, s, p, to) ==
  /\ s + p = to
  /\ pc' = [pc EXCEPT ![t] = "move"]
  /\ frame' = [frame EXCEPT ![t] = [frame[t] EXCEPT !.pos = p]]

MergeTakes(t, s, p, to) ==
  /\ s + p < to /\ p < frame[t].len /\ s + p + 2 \in 1 .. Len(log)
  /\ pc' = pc
  /\ frame' = [frame EXCEPT ![t] =
                 [frame[t] EXCEPT !.pos = p + 1, !.blob = @ \cup {log[s + p + 2]}]]

LEMMA MergeApart ==
  ASSUME Basic, OneBlock, Intact, NEW t \in Task, CompactMerge(t), ~First.shared,
         Numbered(First.history, First.start.seq), MergeRight(t),
         NEW s, NEW p, NEW to, s = First.start.seq, p = frame[t].pos,
         to = frame[t].seq - historyPerBlock
  PROVE  MergeEnds(t, s, p, to) \/ MergeTakes(t, s, p, to)
<1>1. /\ TypeOK /\ pc[t] = "merge" /\ Holding(t) /\ Compacting(t) /\ block = 1 /\ ~removed
      /\ frame[t] \in Frame /\ log \in Seq(Task) /\ Len(log) \in Nat /\ historyPerBlock \in Nat
  BY OldTask DEF Basic, CompactMerge, Holding, Compacting, Intact
<1>2. frame[t].ref = 1 /\ Len(objects) = 1
  BY <1>1 DEF OneBlock
<1>3. PICK n \in Nat, m \in Nat, l \in Nat :
        n = frame[t].len /\ m = Len(First.history) /\ l = Len(log)
  <2>1. 1 \in 1 .. Len(objects)
    BY <1>2
  <2> QED BY <1>1, <2>1, BlockTyped DEF First, Frame
<1>4. /\ p \in Nat /\ to \in Int /\ s \in Int /\ s >= -1 /\ p <= n /\ n <= m /\ s + m = l - 1
      /\ s + p <= to /\ to <= s + n
  BY <1>1, <1>3 DEF MergeRight, Frame, Numbered
<1>5. \A k \in 1 .. m : First.history[k].seq = s + k /\ First.history[k].patches = {log[s + k + 1]}
  BY <1>3 DEF Numbered
<1>6. NextBatch(t) = p
  <2>1. p = n \/ p >= m \/ First.history[p + 1].seq > s
    <3>1. p < m => p + 1 \in 1 .. m
      BY <1>4
    <3>2. p < m => First.history[p + 1].seq = s + (p + 1)
      BY <1>5, <3>1
    <3> QED BY <1>3, <1>4, <3>2, SMTT(30)
  <2>2. p \in frame[t].pos .. frame[t].len /\ \A j \in frame[t].pos .. (p - 1) : FALSE
    BY <1>3, <1>4, SMTT(30)
  <2> QED BY <1>1, <1>2, <1>3, <2>1, <2>2, NextIs DEF First
<1>7. /\ p < n => p < m /\ p + 1 \in 1 .. m
  BY <1>3, <1>4, SMTT(30)
<1>8. CASE p = n \/ (p < m /\ First.history[p + 1].seq > to)
  <2>1. s + p = to
    <3>1. CASE p = n
      BY <1>4, <3>1
    <3>2. CASE p < m /\ First.history[p + 1].seq > to
      <4>1. p + 1 \in 1 .. m
        BY <1>4, <3>2
      <4>2. s + (p + 1) > to
        BY <1>5, <3>2, <4>1
      <4> QED BY <1>4, <4>2
    <3> QED BY <1>8, <3>1, <3>2
  <2>2. ~(p < n /\ p >= m)
    BY <1>4
  <2>3. ~(p < n /\ p < m /\ First.history[p + 1].seq <= to)
    <3>1. p < n => s + (p + 1) > to /\ First.history[p + 1].seq = s + (p + 1)
      BY <1>4, <1>5, <1>7, <2>1
    <3> QED BY <1>4, <3>1
  <2>4. /\ pc' = [pc EXCEPT ![t] = "move"]
        /\ frame' = [frame EXCEPT ![t] = [frame[t] EXCEPT !.pos = p]]
    BY <1>2, <1>3, <1>6, <2>2, <2>3 DEF CompactMerge, Goto, Remember, First
  <2> QED BY <2>1, <2>4 DEF MergeEnds
<1>9. CASE ~(p = n) /\ ~(p < m /\ First.history[p + 1].seq > to)
  <2>1. p < n /\ p < m /\ p + 1 \in 1 .. m
    BY <1>4, <1>9
  <2>2. First.history[p + 1].seq = s + (p + 1) /\ First.history[p + 1].patches = {log[s + (p + 1) + 1]}
    BY <1>5, <2>1
  <2>3. s + (p + 1) + 1 = s + p + 2 /\ s + p < to /\ s + p + 2 \in 1 .. l
    BY <1>4, <1>9, <2>1, <2>2
  <2>4. ~(p = n \/ (p < m /\ First.history[p + 1].seq > to)) /\ ~(p < n /\ p >= m)
    BY <1>4, <1>9
  <2>5. /\ pc' = pc
        /\ frame' = [frame EXCEPT ![t] =
                      [frame[t] EXCEPT !.pos = p + 1, !.blob = @ \cup First.history[p + 1].patches]]
    BY <1>2, <1>3, <1>6, <2>4 DEF CompactMerge, Goto, Remember, First
  <2> QED BY <1>3, <2>1, <2>2, <2>3, <2>5 DEF MergeTakes
<1> QED BY <1>8, <1>9

-----------------------------------------------------------------------------
(* The latest snapshot is that of the whole log, step by step.              *)
LEMMA QuietLatest ==
  ASSUME LatestInv, NEW t \in Task, Quiet(t),
         Intact /\ DocumentRight => PushRight(t)' /\ CompactionRight(t)'
  PROVE  (Intact => DocumentRight)'
<1> SUFFICES ASSUME Intact' PROVE DocumentRight'
  OBVIOUS
<1>1. /\ First' = First /\ (Intact' <=> Intact) /\ (LatestRight' <=> LatestRight)
      /\ \A h, b : Numbered(h, b)' <=> Numbered(h, b)
      /\ \A u \in Task \ {t} : /\ PushRight(u)' <=> PushRight(u)
                               /\ CompactionRight(u)' <=> CompactionRight(u)
  BY QuietIntact
<1>2. DocumentRight
  BY <1>1 DEF LatestInv
<1>3. PushRight(t)' /\ CompactionRight(t)'
  BY <1>1, <1>2
<1>4. \A u \in Task : PushRight(u)' /\ CompactionRight(u)'
  BY <1>1, <1>2, <1>3 DEF DocumentRight
<1> QED BY <1>1, <1>2, <1>4 DEF DocumentRight

LEMMA ElsewhereLatest ==
  ASSUME LatestInv, NEW t \in Task, Quiet(t), pc'[t] \notin {"push", "compact", "merge", "move"}
  PROVE  (Intact => DocumentRight)'
<1>1. PushRight(t)' /\ CompactionRight(t)'
  BY DEF PushRight, CompactionRight, Compacting
<1> QED BY <1>1, QuietLatest

LEMMA EditLatest ==
  ASSUME LatestInv, NEW t \in Task, EditExists(t) \/ EditGet(t) \/ EditCompute(t)
  PROVE  (Intact => DocumentRight)'
<1>1. /\ TypeOK /\ Asked(t) /\ Quiet(t) /\ objects' = objects /\ log' = log /\ block' = block
      /\ pc \in [Task -> Place] /\ frame \in [Task -> Frame] /\ frame[t] \in Frame
      /\ log \in Seq(Task) /\ Len(log) \in Nat
  BY StepQuiet, OldTask DEF LatestInv, BlocksInv, Basic, Quiet, storeVars
<1>2. CASE EditExists(t) \/ EditGet(t)
  BY <1>1, <1>2, ElsewhereLatest DEF EditExists, EditGet, Goto, Answer
<1>3. CASE EditCompute(t)
  <2>1. ASSUME Intact, DocumentRight
        PROVE  PushRight(t)' /\ CompactionRight(t)'
    <3>1. block = 1 /\ ~removed /\ Holding(t) /\ pc'[t] = "push"
      BY <1>1, <1>3, <2>1 DEF Intact, EditCompute, Holding, Goto
    <3>2. objects[frame[t].ref] = First
      BY <3>1 DEF LatestInv, BlocksInv, OneBlock, First
    <3>3. PICK n \in Nat : n = Len(log)
      BY <1>1
    <3>4. First.latest.seq = n - 1 /\ First.latest.blob = Known(n - 1)
      BY <2>1, <3>3 DEF DocumentRight, LatestRight
    <3>5. PICK s, b : s = First.latest.seq + 1 /\ b = First.latest.blob \cup {t}
      OBVIOUS
    <3>6. frame' = [frame EXCEPT ![t] = [frame[t] EXCEPT !.seq = s, !.blob = b]]
      BY <1>3, <3>2, <3>5 DEF EditCompute, Remember
    <3>7. frame'[t].seq = s /\ frame'[t].blob = b
      BY <1>1, <3>6 DEF Frame
    <3>8. s = n /\ s \in 0 .. n /\ b = Known(s - 1) \cup {t}
      BY <3>3, <3>4, <3>5
    <3>9. Known(s - 1)' = Known(s - 1) /\ s' = s
      BY <1>1 DEF Known
    <3>10. frame'[t].seq \in 0 .. Len(log') /\ frame'[t].blob = Known(s - 1)' \cup {t}
      BY <1>1, <3>3, <3>7, <3>8, <3>9
    <3>11. PushRight(t)'
      BY <1>1, <3>7, <3>8, <3>10 DEF PushRight, Known
    <3> QED BY <3>1, <3>11 DEF CompactionRight, Compacting
  <2> QED BY <1>1, <2>1, QuietLatest
<1> QED BY <1>2, <1>3

LEMMA PullLatest ==
  ASSUME LatestInv, NEW t \in Task, PullSeq(t) \/ PullSnapshot(t) \/ PullScan(t)
  PROVE  (Intact => DocumentRight)'
<1>1. Quiet(t) /\ pc \in [Task -> Place]
  BY StepQuiet, OldTask DEF LatestInv, BlocksInv, Basic
<1>2. pc'[t] \in {"done", "create", "snapshot", "scan"}
  BY <1>1 DEF PullSeq, PullSnapshot, PullScan, Goto, Answer
<1> QED BY <1>1, <1>2, ElsewhereLatest

LEMMA CompactLatest ==
  ASSUME LatestInv, NEW t \in Task, CompactStart(t) \/ CompactMerge(t)
  PROVE  (Intact => DocumentRight)'
<1>1. /\ TypeOK /\ Asked(t) /\ Quiet(t) /\ objects' = objects /\ log' = log /\ block' = block
      /\ pc \in [Task -> Place] /\ frame \in [Task -> Frame] /\ frame[t] \in Frame
      /\ log \in Seq(Task) /\ Len(log) \in Nat /\ historyPerBlock \in Nat /\ First' = First
      /\ Basic /\ OneBlock
  BY StepQuiet, OldTask DEF LatestInv, BlocksInv, Basic, Quiet, storeVars, First
<1> SUFFICES ASSUME Intact, DocumentRight
             PROVE  PushRight(t)' /\ CompactionRight(t)'
  BY <1>1, QuietLatest
<1>2. block = 1 /\ ~removed /\ Store!Has /\ Store!Current = First
  BY DEF Intact, Store!Has, Store!Current, First
<1>3. Compacting(t) /\ CompactionRight(t)
  BY DEF CompactStart, CompactMerge, Compacting, DocumentRight
<1>4. /\ frame[t].seq \in (historyPerBlock + 1) .. (Len(log) - 1)
      /\ frame[t].seq \in CompactAt
  BY <1>3 DEF CompactionRight
<1>5. ASSUME frame'[t].seq = frame[t].seq, pc'[t] # "push",
             First.shared /\ pc'[t] \in {"merge", "move"} =>
               /\ frame'[t].len \in 1 .. Len(First.history)
               /\ frame'[t].pos = IF pc'[t] = "merge" THEN 0 ELSE frame'[t].len
      PROVE  PushRight(t)' /\ CompactionRight(t)'
  BY <1>1, <1>4, <1>5 DEF PushRight, CompactionRight
<1>6. CASE CompactStart(t)
  <2>1. PICK b, n : b = First.start.blob /\ n = Len(First.history)
    OBVIOUS
  <2>2. /\ pc'[t] = "merge"
        /\ frame' = [frame EXCEPT ![t] = [frame[t] EXCEPT
                       !.ref = block, !.blob = b, !.pos = 0, !.len = n]]
    BY <1>1, <1>2, <1>6, <2>1 DEF CompactStart, Goto, Remember
  <2>3. frame'[t].seq = frame[t].seq /\ frame'[t].pos = 0 /\ frame'[t].len = n
    BY <1>1, <2>2 DEF Frame
  <2>4. ASSUME First.shared PROVE n \in 1 .. Len(First.history)
    <3>1. n = Len(log) /\ n \in Nat
      BY <1>1, <2>1, <2>4 DEF Intact
    <3>2. n >= 1
      BY <1>1, <1>4, <3>1
    <3> QED BY <2>1, <3>1, <3>2
  <2> QED BY <1>5, <2>2, <2>3, <2>4
<1>7. CASE CompactMerge(t) /\ First.shared
  <2>1. pc[t] = "merge" /\ LatestRight /\ Numbered(First.history, -1)
    BY <1>7 DEF CompactMerge, DocumentRight
  <2>2. PICK n : n = frame[t].len
    OBVIOUS
  <2>3. /\ pc' = [pc EXCEPT ![t] = "move"]
        /\ frame' = [frame EXCEPT ![t] = [frame[t] EXCEPT !.pos = n]]
    BY <1>1, <1>3, <1>7, <2>1, <2>2, MergeShared
  <2>4. pc'[t] = "move" /\ frame'[t].seq = frame[t].seq /\ frame'[t].pos = n /\ frame'[t].len = n
    BY <1>1, <2>2, <2>3 DEF Frame
  <2>5. n \in 1 .. Len(First.history)
    BY <1>3, <1>7, <2>1, <2>2 DEF CompactionRight
  <2> QED BY <1>5, <2>4, <2>5
<1>8. CASE CompactMerge(t) /\ ~First.shared
  <2>1. PICK k, b : \/ frame' = frame
                    \/ frame' = [frame EXCEPT ![t] = [frame[t] EXCEPT !.pos = k]]
                    \/ frame' = [frame EXCEPT ![t] = [frame[t] EXCEPT !.pos = k, !.blob = b]]
    <3> DEFINE k == NextBatch(t)
               history == objects[frame[t].ref].history
    <3>1. \/ frame' = frame
          \/ frame' = [frame EXCEPT ![t] = [frame[t] EXCEPT !.pos = k]]
          \/ frame' = [frame EXCEPT ![t] = [frame[t] EXCEPT !.pos = k + 1,
                          !.blob = @ \cup history[k + 1].patches]]
      BY <1>8 DEF CompactMerge, Remember
    <3> HIDE DEF k, history
    <3> QED BY <3>1
  <2>2. frame'[t].seq = frame[t].seq
    BY <1>1, <2>1 DEF Frame
  <2>3. pc'[t] # "push"
    BY <1>1, <1>8 DEF CompactMerge, Goto
  <2> QED BY <1>5, <1>8, <2>2, <2>3
<1> QED BY <1>6, <1>7, <1>8

LEMMA UptoNext ==
  ASSUME NEW m \in Nat, NEW k \in 1 .. (m + 1)
  PROVE  k \in 1 .. m \/ k = m + 1
OBVIOUS

(* A batch more in the log and in the history.                              *)
LEMMA NumberedPush ==
  ASSUME TypeOK, NEW t \in Task, log' = Append(log, t), NEW h \in Seq(Store!Batch),
         NEW base, Numbered(h, base), NEW b \in Store!Batch, b.seq = Len(log), b.patches = {t},
         NEW g, g = Append(h, b)
  PROVE  Numbered(g, base)'
<1>1. PICK n \in Nat, m \in Nat : n = Len(log) /\ m = Len(h)
  <2>1. Len(log) \in Nat
    BY OldTask, Zenon
  <2>2. Len(h) \in Nat
    OBVIOUS
  <2> QED BY <2>1, <2>2, Zenon
<1>2. /\ base \in Int /\ base + m = n - 1 /\ base >= -1
      /\ \A k \in 1 .. m : h[k].seq = base + k /\ h[k].patches = {log[base + k + 1]}
  BY <1>1 DEF Numbered
<1>3. /\ Len(log') = n + 1 /\ log'[n + 1] = t /\ \A k \in 1 .. n : log'[k] = log[k]
  BY <1>1, KnownGrows
<1>4. Len(g) = m + 1 /\ g[m + 1] = b /\ \A k \in 1 .. m : g[k] = h[k]
  BY <1>1
<1>5. ASSUME NEW k \in 1 .. (m + 1)
      PROVE  g[k].seq = base + k /\ g[k].patches = {log'[base + k + 1]}
  <2>1. CASE k \in 1 .. m
    <3>1. base + k + 1 \in 1 .. n
      BY <1>1, <1>2, <2>1
    <3> QED BY <1>2, <1>3, <1>4, <2>1, <3>1
  <2>2. CASE k = m + 1
    <3>1. base + k = n /\ base + k + 1 = n + 1
      BY <1>1, <1>2, <2>2
    <3> QED BY <1>1, <1>3, <1>4, <2>2, <3>1
  <2> QED BY <2>1, <2>2, UptoNext, Zenon
<1>6. base + Len(g) = Len(log') - 1
  BY <1>1, <1>2, <1>3, <1>4
<1> QED BY <1>2, <1>4, <1>5, <1>6 DEF Numbered

LEMMA CreateLatest ==
  ASSUME LatestInv, NEW t \in Task, Create(t)
  PROVE  (Intact => DocumentRight)'
<1>1. /\ TypeOK /\ OneBlock /\ Rest(t) /\ pc \in [Task -> Place]
  BY StepRest, OldTask DEF LatestInv, BlocksInv, Basic, Step
<1>2. CASE Store!Has
  <2>1. Quiet(t) /\ pc'[t] = "done"
    BY <1>1, <1>2 DEF Create, Answer, Quiet
  <2> QED BY <2>1, ElsewhereLatest
<1>3. CASE ~Store!Has
  <2> SUFFICES ASSUME Intact' PROVE DocumentRight'
    OBVIOUS
  <2>1. ~removed /\ block = 0
    BY <1>1, <1>3 DEF Intact, Create, Store!Has
  <2>2. PICK patches \in {{}, {t}} :
          /\ First'.start = Store!Empty
          /\ First'.latest = IF patches = {} THEN Store!Empty ELSE [seq |-> 0, blob |-> patches]
          /\ First'.shared <=> patches = {}
          /\ First'.history = IF patches = {} THEN <<>> ELSE <<[seq |-> 0, patches |-> patches]>>
          /\ log' = IF patches = {} THEN <<>> ELSE <<t>>
          /\ pc' = [pc EXCEPT ![t] = "done"]
    BY <1>1, <1>3, <2>1, CreateFirst
  <2>3. ASSUME NEW u \in Task
        PROVE  PushRight(u)' /\ CompactionRight(u)'
    <3>1. ~Found(u)
      BY <1>1, <2>1 DEF OneBlock
    <3>2. pc'[u] \notin {"push", "compact", "merge", "move"}
      BY <1>1, <2>2, <3>1 DEF Found, Holding
    <3> QED BY <3>2 DEF PushRight, CompactionRight, Compacting
  <2>4. CASE patches = {}
    <3>1. /\ log' = <<>> /\ First'.history = <<>> /\ First'.start = Store!Empty
          /\ First'.latest = Store!Empty /\ First'.shared
      BY <2>2, <2>4, Zenon
    <3>2. First'.latest.seq = -1 /\ First'.latest.blob = {}
      BY <3>1 DEF Store!Empty
    <3>3. Len(log') = 0
      BY <3>1
    <3>4. LatestRight'
      BY <3>1, <3>2, <3>3 DEF LatestRight, Known
    <3>5. Numbered(<<>>, -1)'
      BY <3>1, <3>3 DEF Numbered
    <3> QED BY <2>3, <3>1, <3>4, <3>5 DEF DocumentRight
  <2>5. CASE patches = {t}
    <3>1. log' = <<t>> /\ First'.latest = [seq |-> 0, blob |-> {t}] /\ ~First'.shared
      <4>1. patches # {}
        BY <2>5
      <4> QED BY <2>2, <2>5, <4>1, Zenon
    <3>2. Len(log') = 1 /\ log'[1] = t
      BY <3>1
    <3>3. {log'[k] : k \in 1 .. 1} = {t}
      BY <3>2
    <3>4. LatestRight'
      BY <3>1, <3>2, <3>3 DEF LatestRight, Known
    <3> QED BY <2>3, <3>1, <3>4 DEF DocumentRight
  <2> QED BY <2>4, <2>5
<1> QED BY <1>2, <1>3

LEMMA RemoveLatest ==
  ASSUME NEW t \in Task, Remove(t)
  PROVE  ~Intact'
BY DEF Remove, Store!StoreRemove, Intact

LEMMA PushQuiet ==
  ASSUME TypeOK, NEW t \in Task, EditPush(t), ~Store!Has \/ ~Store!NextSeq(frame[t].seq)
  PROVE  Quiet(t) /\ pc'[t] = "done"
<1>1. Rest(t) /\ pc \in [Task -> Place]
  BY StepRest, OldTask DEF Step
<1> QED BY <1>1 DEF EditPush, Answer, Quiet

LEMMA PushLatest ==
  ASSUME LatestInv, NEW t \in Task, EditPush(t)
  PROVE  (Intact => DocumentRight)'
<1>1. /\ TypeOK /\ Basic /\ OneBlock /\ Rest(t) /\ pc \in [Task -> Place] /\ pc[t] = "push"
      /\ historyPerBlock \in Nat
  BY StepRest, OldTask DEF LatestInv, BlocksInv, Basic, Step, EditPush
<1>2. CASE ~Store!Has \/ ~Store!NextSeq(frame[t].seq)
  BY <1>1, <1>2, PushQuiet, ElsewhereLatest
<1>3. CASE Store!Has /\ Store!NextSeq(frame[t].seq)
  <2> SUFFICES ASSUME Intact' PROVE DocumentRight'
    OBVIOUS
  <2>1. ~removed
    BY DEF Intact, EditPush
  <2>2. PICK s, b, h : s = frame[t].seq /\ b = [seq |-> s, patches |-> {t}] /\ h = First.history
    OBVIOUS
  <2>3. /\ block = 1 /\ Len(objects) = 1
        /\ First'.latest = [seq |-> s, blob |-> frame[t].blob]
        /\ First'.start = IF First.shared THEN First'.latest ELSE First.start
        /\ First'.shared <=> First.shared
        /\ First'.history = Append(h, b) /\ log' = Append(log, t)
        /\ s = First.latest.seq + 1
        /\ pc' = [pc EXCEPT ![t] = IF Compacts(s) THEN "compact" ELSE "done"]
        /\ frame' = frame /\ removed' = removed
    BY <1>1, <1>3, <2>1, <2>2, PushFirst
  <2>4. PICK n \in Nat, m \in Nat : n = Len(log) /\ m = Len(h) /\ h \in Seq(Store!Batch)
    <3>1. 1 \in 1 .. Len(objects)
      BY <2>3
    <3>2. Len(log) \in Nat
      BY <1>1, OldTask
    <3>3. h \in Seq(Store!Batch) /\ Len(h) \in Nat
      BY <1>1, <2>2, <3>1, BlockTyped DEF First
    <3> QED BY <3>2, <3>3
  <2>5. Len(log') = n + 1 /\ Len(First'.history) = m + 1
    <3>1. Len(log') = n + 1
      BY <1>1, <2>3, <2>4, KnownGrows
    <3>2. Len(Append(h, b)) = m + 1
      BY <2>4
    <3> QED BY <2>3, <3>1, <3>2
  <2>6. Intact
    <3>1. First.shared => m + 1 = n + 1
      BY <2>3, <2>5 DEF Intact
    <3> QED BY <2>1, <2>2, <2>3, <2>4, <3>1 DEF Intact
  <2>7. DocumentRight
    BY <2>6 DEF LatestInv
  <2>8. s = n /\ frame[t].blob = Known(n - 1) \cup {t}
    <3>1. First.latest.seq = n - 1
      BY <2>4, <2>7 DEF DocumentRight, LatestRight
    <3>2. s = n
      BY <2>3, <2>4, <3>1
    <3>3. frame[t].blob = Known(s - 1) \cup {t}
      BY <1>1, <2>2, <2>7 DEF DocumentRight, PushRight
    <3> QED BY <3>2, <3>3
  <2>9. (\A x \in Int : x < n => Known(x)' = Known(x)) /\ Known(n)' = Known(n - 1) \cup {t}
    BY <1>1, <2>3, <2>4, KnownGrows
  <2>10. LatestRight'
    <3>1. First'.latest.seq = n /\ First'.latest.blob = Known(n)'
      BY <2>3, <2>8, <2>9
    <3>2. Len(log') - 1 = n
      BY <2>5
    <3>3. Known(Len(log) - 1)' = Known(n)'
      BY <3>2 DEF Known
    <3> QED BY <2>3, <3>1, <3>2, <3>3 DEF LatestRight
  <2>11. First'.shared => Numbered(First.history, -1)'
    <3>1. SUFFICES ASSUME First.shared PROVE Numbered(First.history, -1)'
      BY <2>3
    <3>2. Numbered(h, -1)
      BY <2>2, <2>7, <3>1 DEF DocumentRight
    <3>3. b \in Store!Batch /\ b.seq = Len(log) /\ b.patches = {t}
      BY <2>2, <2>4, <2>8 DEF Store!Batch
    <3>4. PICK g : g = Append(h, b)
      OBVIOUS
    <3>5. Numbered(g, -1)'
      BY <1>1, <2>3, <2>4, <3>2, <3>3, <3>4, NumberedPush
    <3>6. First'.history = g
      BY <2>3, <3>4
    <3> QED BY <3>5, <3>6 DEF Numbered
  <2>12. ASSUME NEW u \in Task
         PROVE  PushRight(u)'
    <3>1. SUFFICES ASSUME pc'[u] = "push" PROVE PushRight(u)'
      BY DEF PushRight
    <3>2. u # t /\ pc[u] = "push"
      BY <1>1, <2>3, <3>1
    <3>3. PICK x : x = frame[u].seq
      OBVIOUS
    <3>4. x \in 0 .. n /\ frame[u].blob = Known(x - 1) \cup {u}
      BY <2>4, <2>7, <3>2, <3>3 DEF DocumentRight, PushRight
    <3>5. x \in 0 .. (n + 1) /\ x - 1 \in Int /\ x - 1 < n
      BY <2>4, <3>4
    <3>6. frame'[u].seq = x /\ frame'[u].blob = Known(x - 1)' \cup {u}
      BY <2>3, <2>9, <3>3, <3>4, <3>5
    <3>7. Known(frame[u].seq - 1)' = Known(x - 1)'
      BY <3>6 DEF Known
    <3> QED BY <2>5, <3>5, <3>6, <3>7 DEF PushRight
  <2>13. ASSUME NEW u \in Task
         PROVE  CompactionRight(u)'
    <3>1. SUFFICES ASSUME Compacting(u)' PROVE CompactionRight(u)'
      BY DEF CompactionRight
    <3>2. CASE u = t
      <4>1. Compacts(s) /\ pc'[t] = "compact"
        BY <1>1, <2>3, <3>1, <3>2 DEF Compacting
      <4>2. s \in (historyPerBlock + 1) .. n /\ s \in CompactAt
        BY <1>1, <2>4, <2>8, <4>1 DEF Compacts
      <4>3. Len(log') - 1 = n
        BY <2>4, <2>5
      <4>4. frame'[t].seq = s
        BY <2>2, <2>3, Zenon
      <4> QED BY <3>2, <4>1, <4>2, <4>3, <4>4 DEF CompactionRight
    <3>3. CASE u # t
      <4>1. pc'[u] = pc[u] /\ frame'[u] = frame[u] /\ Compacting(u)
        BY <1>1, <2>3, <3>1, <3>3 DEF Compacting
      <4>2. CompactionRight(u)
        BY <2>7 DEF DocumentRight
      <4>3. frame[u].seq \in (historyPerBlock + 1) .. (n - 1)
        BY <2>4, <4>1, <4>2 DEF CompactionRight
      <4>4. frame[u].seq \in (historyPerBlock + 1) .. ((n + 1) - 1)
        BY <1>1, <2>4, <4>3
      <4>5. ASSUME First.shared, pc[u] \in {"merge", "move"}
            PROVE  /\ frame[u].len \in 1 .. (m + 1)
                   /\ frame[u].pos = IF pc[u] = "merge" THEN 0 ELSE frame[u].len
        <5>1. frame[u].len \in 1 .. m
          BY <2>2, <2>4, <4>1, <4>2, <4>5 DEF CompactionRight
        <5> QED BY <2>4, <4>1, <4>2, <4>5, <5>1 DEF CompactionRight
      <4>6. Compacting(u)' /\ frame[u].seq \in CompactAt
        BY <3>1, <4>1, <4>2 DEF CompactionRight
      <4> QED BY <2>3, <2>5, <4>1, <4>4, <4>5, <4>6 DEF CompactionRight
    <3> QED BY <3>2, <3>3
  <2> QED BY <2>10, <2>11, <2>12, <2>13 DEF DocumentRight
<1> QED BY <1>2, <1>3

LEMMA MoveLatest ==
  ASSUME LatestInv, NEW t \in Task, CompactMove(t)
  PROVE  (Intact => DocumentRight)'
<1> SUFFICES ASSUME Intact' PROVE DocumentRight'
  OBVIOUS
<1>1. /\ TypeOK /\ Basic /\ OneBlock /\ Rest(t) /\ pc \in [Task -> Place] /\ pc[t] = "move"
      /\ ~removed /\ Compacting(t) /\ frame[t] \in Frame
  BY StepRest, OldTask DEF LatestInv, BlocksInv, Basic, Step, CompactMove, Intact, Compacting
<1>2. PICK h, p : h = First.history /\ p = frame[t].pos
  OBVIOUS
<1>3. /\ block = 1 /\ Len(objects) = 1 /\ block' = 1
      /\ First'.latest = IF First.shared THEN First'.start ELSE First.latest
      /\ First'.shared <=> First.shared
      /\ First'.history = SubSeq(h, p + 1, Len(h))
      /\ pc' = [pc EXCEPT ![t] = "done"]
      /\ frame' = frame /\ log' = log
  BY <1>1, <1>2, MoveFirst
<1>4. PICK n \in Nat, m \in Nat :
        n = Len(log) /\ m = Len(h) /\ h \in Seq(Store!Batch) /\ p \in Nat /\ m <= n
  <2>1. 1 \in 1 .. Len(objects)
    BY <1>3
  <2>2. Len(log) \in Nat /\ p \in Nat
    BY <1>1, <1>2, OldTask DEF Frame
  <2>3. h \in Seq(Store!Batch) /\ Len(h) \in Nat
    BY <1>1, <1>2, <2>1, BlockTyped DEF First
  <2>4. Len(h) <= Len(log)
    BY <1>1, <1>2, <1>3 DEF OneBlock
  <2> QED BY <2>2, <2>3, <2>4
<1>5. Len(First'.history) = IF p + 1 <= m THEN m - p ELSE 0
  <2>1. Len(SubSeq(h, p + 1, m)) = IF p + 1 <= m THEN m - p ELSE 0
    BY <1>4
  <2> QED BY <1>3, <1>4, <2>1
<1>6. ~First.shared
  <2> SUFFICES ASSUME First.shared PROVE FALSE
    OBVIOUS
  <2>1. Len(First'.history) = n
    BY <1>3, <1>4 DEF Intact
  <2>2. m = n /\ (p = 0 \/ n = 0)
    BY <1>4, <1>5, <2>1
  <2>3. CompactionRight(t)
    BY <1>1, <1>2, <1>3, <1>4, <2>2 DEF Intact, LatestInv, DocumentRight
  <2>4. p \in 1 .. m
    BY <1>1, <1>2, <1>4, <2>3 DEF CompactionRight
  <2> QED BY <1>4, <2>2, <2>4
<1>7. Intact /\ DocumentRight
  BY <1>1, <1>3, <1>6 DEF Intact, LatestInv
<1>8. First'.latest = First.latest /\ ~First'.shared /\ \A x : Known(x)' = Known(x)
  BY <1>3, <1>6 DEF Known
<1>9. LatestRight'
  BY <1>3, <1>7, <1>8 DEF DocumentRight, LatestRight, Known
<1>10. ASSUME NEW u \in Task
       PROVE  PushRight(u)' /\ CompactionRight(u)'
  <2>1. CASE u = t
    BY <1>1, <1>3, <2>1 DEF PushRight, CompactionRight, Compacting
  <2>2. CASE u # t
    <3>1. pc'[u] = pc[u] /\ frame'[u] = frame[u]
      BY <1>1, <1>3, <2>2
    <3>2. PushRight(u) /\ CompactionRight(u)
      BY <1>7 DEF DocumentRight
    <3>3. PushRight(u)'
      BY <1>3, <3>1, <3>2 DEF PushRight, Known
    <3>4. CompactionRight(u)'
      BY <1>3, <1>8, <3>1, <3>2 DEF CompactionRight, Compacting
    <3> QED BY <3>3, <3>4
  <2> QED BY <2>1, <2>2
<1> QED BY <1>8, <1>9, <1>10 DEF DocumentRight

LEMMA InitLatest == Init => LatestInv
<1>1. Init => ~Intact
  BY DEF Init, Store!StoreInit, Intact
<1> QED BY <1>1, InitBasic, InitOneBlock DEF LatestInv, BlocksInv

LEMMA StepLatest ==
  ASSUME LatestInv, [Next]_vars
  PROVE  LatestInv'
<1>1. Basic' /\ OneBlock'
  BY StepBasic, StepOneBlock DEF LatestInv, BlocksInv
<1>2. ASSUME NEW t \in Task, Step(t) PROVE (Intact => DocumentRight)'
  BY <1>2, CreateLatest, EditLatest, PullLatest, CompactLatest, MoveLatest, PushLatest,
     RemoveLatest DEF Step
<1>3. ASSUME UNCHANGED vars PROVE (Intact => DocumentRight)'
  <2>1. /\ UNCHANGED <<block, objects, pc, frame, log, removed>>
        /\ First' = First /\ (Intact' <=> Intact) /\ \A x : Known(x)' = Known(x)
    BY <1>3 DEF vars, Intact, First, Known
  <2>2. /\ LatestRight' <=> LatestRight
        /\ Numbered(First.history, -1)' <=> Numbered(First.history, -1)
        /\ \A u \in Task : PushRight(u)' <=> PushRight(u)
        /\ \A u \in Task : CompactionRight(u)' <=> CompactionRight(u)
    BY <2>1 DEF LatestRight, Numbered, PushRight, CompactionRight, Compacting, Known
  <2> QED BY <2>1, <2>2 DEF LatestInv, DocumentRight
<1>4. (Intact => DocumentRight)'
  BY <1>2, <1>3 DEF Next, Step
<1> QED BY <1>1, <1>4 DEF LatestInv, BlocksInv

LEMMA HistoryLength ==
  ASSUME TypeOK, OneBlock, block = 1, ~removed
  PROVE  /\ Len(objects) = 1 /\ First \in Store!MemoryBlock
         /\ First.history \in Seq(Store!Batch) /\ Len(First.history) \in Nat
         /\ Len(First.history) <= Len(log)
         /\ log \in Seq(Task) /\ Len(log) \in Nat
<1>1. Len(objects) = 1 /\ Len(First.history) <= Len(log)
  BY DEF OneBlock
<1>2. 1 \in 1 .. Len(objects)
  BY <1>1
<1>3. log \in Seq(Task) /\ Len(log) \in Nat
  BY DEF TypeOK
<1> QED BY <1>1, <1>2, <1>3, BlockTyped DEF First

-----------------------------------------------------------------------------
(* What the history replays, as long as there is one compaction.            *)
LEMMA QuietHistory ==
  ASSUME HistoryInv, NEW t \in Task, Quiet(t),
         Intact /\ DocumentRight /\ HistoryRight /\ ~First.shared => MergeRight(t)'
  PROVE  (Intact => HistoryRight)'
<1> SUFFICES ASSUME Intact', ~First'.shared PROVE HistoryRight'
  BY DEF HistoryRight
<1>1. /\ First' = First /\ log' = log /\ (Intact' <=> Intact)
      /\ \A h, b : Numbered(h, b)' <=> Numbered(h, b)
      /\ \A s : Known(s)' = Known(s)
      /\ \A u \in Task \ {t} : MergeRight(u)' <=> MergeRight(u)
  BY QuietIntact
<1>2. DocumentRight /\ HistoryRight /\ Intact /\ ~First.shared
  BY <1>1 DEF HistoryInv, LatestInv
<1>3. \A u \in Task : MergeRight(u)'
  BY <1>1, <1>2 DEF HistoryRight
<1>4. /\ Numbered(First.history, First.start.seq)'
      /\ First'.start.blob = Known(First.start.seq)'
      /\ First'.start.seq # -1 => First'.start.seq < Len(log') - historyPerBlock
  BY <1>1, <1>2 DEF HistoryRight
<1> QED BY <1>3, <1>4 DEF HistoryRight

LEMMA ElsewhereHistory ==
  ASSUME HistoryInv, NEW t \in Task, Quiet(t), pc'[t] \notin {"compact", "merge", "move"}
  PROVE  (Intact => HistoryRight)'
<1>1. MergeRight(t)'
  BY DEF MergeRight, Compacting
<1> QED BY <1>1, QuietHistory

LEMMA ReadHistory ==
  ASSUME HistoryInv, NEW t \in Task,
         \/ EditExists(t) \/ EditGet(t) \/ EditCompute(t)
         \/ PullSeq(t) \/ PullSnapshot(t) \/ PullScan(t)
  PROVE  (Intact => HistoryRight)'
<1>1. Quiet(t) /\ pc \in [Task -> Place]
  BY StepQuiet, OldTask DEF HistoryInv, LatestInv, BlocksInv, Basic
<1>2. pc'[t] \in {"get", "compute", "push", "done", "create", "snapshot", "scan"}
  BY <1>1 DEF EditExists, EditGet, EditCompute, PullSeq, PullSnapshot, PullScan, Goto, Answer
<1> QED BY <1>1, <1>2, ElsewhereHistory

LEMMA CompactHistory ==
  ASSUME HistoryInv, NEW t \in Task, CompactStart(t) \/ CompactMerge(t)
  PROVE  (Intact => HistoryRight)'
<1>1. /\ TypeOK /\ Quiet(t) /\ log' = log /\ block' = block
      /\ pc \in [Task -> Place] /\ frame \in [Task -> Frame] /\ frame[t] \in Frame
      /\ log \in Seq(Task) /\ Len(log) \in Nat /\ historyPerBlock \in Nat /\ First' = First
      /\ Basic /\ OneBlock
  BY StepQuiet, OldTask DEF HistoryInv, LatestInv, BlocksInv, Basic, Quiet, storeVars, First
<1> SUFFICES ASSUME Intact, DocumentRight, HistoryRight, ~First.shared
             PROVE  MergeRight(t)'
  BY <1>1, QuietHistory
<1>2. block = 1 /\ ~removed /\ Store!Has /\ Store!Current = First
  BY DEF Intact, Store!Has, Store!Current, First
<1>3. Compacting(t) /\ CompactionRight(t) /\ MergeRight(t) /\ Numbered(First.history, First.start.seq)
  BY DEF CompactStart, CompactMerge, Compacting, DocumentRight, HistoryRight
<1>4. PICK n, m, s, f, to, h :
        /\ n \in Nat /\ m \in Nat /\ n = Len(log) /\ h = First.history /\ m = Len(h) /\ s = First.start.seq
        /\ f = frame[t].seq /\ to = f - historyPerBlock
  BY <1>1, <1>2, HistoryLength
<1>5. /\ s \in Int /\ s >= -1 /\ f \in Int /\ to \in Int /\ s <= to /\ s + m = n - 1
      /\ f <= n - 1 /\ to <= n - 1
  <2>1. s \in Int /\ s >= -1 /\ s + m = n - 1
    BY <1>3, <1>4 DEF Numbered
  <2>2. f \in (historyPerBlock + 1) .. (n - 1)
    BY <1>3, <1>4 DEF CompactionRight
  <2>3. s <= to
    BY <1>3, <1>4 DEF MergeRight
  <2> QED BY <1>1, <1>4, <2>1, <2>2, <2>3
<1>6. CASE CompactStart(t)
  <2>1. PICK b : b = First.start.blob /\ b = Known(s)
    BY <1>4 DEF HistoryRight
  <2>2. /\ pc'[t] = "merge"
        /\ frame' = [frame EXCEPT ![t] = [frame[t] EXCEPT
                       !.ref = block, !.blob = b, !.pos = 0, !.len = m]]
    BY <1>1, <1>2, <1>4, <1>6, <2>1 DEF CompactStart, Goto, Remember
  <2>3. frame'[t].seq = f /\ frame'[t].pos = 0 /\ frame'[t].len = m /\ frame'[t].blob = b
    BY <1>1, <1>4, <2>2 DEF Frame
  <2>4. 0 <= m /\ m <= m /\ s + 0 <= to /\ to <= s + m /\ s + 0 = s
    BY <1>4, <1>5
  <2>5. b = Known(s)'
    BY <1>1, <2>1 DEF Known
  <2> QED BY <1>1, <1>4, <1>5, <2>2, <2>3, <2>4, <2>5 DEF MergeRight, Known
<1>7. CASE CompactMerge(t)
  <2>1. PICK p \in Nat, l \in Nat : p = frame[t].pos /\ l = frame[t].len
    BY <1>1 DEF Frame
  <2>2. pc[t] = "merge"
    BY <1>7 DEF CompactMerge
  <2>3. p <= l /\ l <= m /\ s + p <= to /\ to <= s + l /\ frame[t].blob = Known(s + p)
    BY <1>3, <1>4, <2>1, <2>2 DEF MergeRight
  <2>4. MergeEnds(t, s, p, to) \/ MergeTakes(t, s, p, to)
    <3>1. s = First.start.seq /\ p = frame[t].pos /\ to = frame[t].seq - historyPerBlock
      BY <1>4, <2>1
    <3> QED BY <1>1, <1>3, <1>7, <3>1, MergeApart, Zenon
  <2>5. CASE MergeEnds(t, s, p, to)
    <3>1. pc'[t] = "move" /\ frame'[t].seq = f /\ frame'[t].pos = p /\ frame'[t].blob = frame[t].blob
      BY <1>1, <1>4, <2>5 DEF MergeEnds, Frame
    <3>2. frame[t].blob = Known(to)'
      BY <1>1, <2>3, <2>5 DEF MergeEnds, Known
    <3> QED BY <1>1, <1>4, <1>5, <2>5, <3>1, <3>2 DEF MergeEnds, MergeRight, Known
  <2>6. CASE MergeTakes(t, s, p, to)
    <3>1. PICK q, x : q = p + 1 /\ x = {log[s + p + 2]}
      OBVIOUS
    <3>2. frame' = [frame EXCEPT ![t] = [frame[t] EXCEPT !.pos = q, !.blob = frame[t].blob \cup x]]
      BY <2>6, <3>1 DEF MergeTakes
    <3>3. /\ pc'[t] = "merge" /\ frame'[t].seq = f /\ frame'[t].pos = q /\ frame'[t].len = l
          /\ frame'[t].blob = frame[t].blob \cup x
      <4>1. pc'[t] = "merge"
        BY <2>2, <2>6 DEF MergeTakes
      <4>2. PICK fr \in Frame : fr = frame[t]
        BY <1>1
      <4>3. frame'[t] = [fr EXCEPT !.pos = q, !.blob = fr.blob \cup x]
        BY <1>1, <3>2, <4>2, Zenon
      <4> QED BY <1>4, <2>1, <4>1, <4>2, <4>3 DEF Frame
    <3>4. q <= l /\ s + q <= to /\ s + q = (s + p) + 1 /\ s + p \in Int /\ s + p >= -1
      <4>1. s + p < to /\ p < l
        BY <2>1, <2>6, Zenon DEF MergeTakes
      <4>2. q = p + 1
        BY <3>1
      <4> QED BY <1>5, <2>1, <2>3, <4>1, <4>2
    <3>5. frame[t].blob \cup x = Known(s + q)
      <4>1. PICK y \in Int : y = s + p /\ y >= -1
        BY <3>4
      <4>2. 1 .. (y + 2) = (1 .. (y + 1)) \cup {y + 2}
        BY <4>1
      <4>3. {log[k] : k \in 1 .. (y + 2)} = {log[k] : k \in 1 .. (y + 1)} \cup {log[y + 2]}
        BY <4>2
      <4>4. s + q = y + 1 /\ (y + 1) + 1 = y + 2 /\ x = {log[y + 2]}
        BY <1>5, <2>1, <3>1, <3>4, <4>1
      <4> QED BY <2>3, <4>1, <4>3, <4>4 DEF Known
    <3>6. frame'[t].blob = Known(s + q)'
      BY <1>1, <3>3, <3>5 DEF Known
    <3> QED BY <1>1, <1>4, <1>5, <2>3, <3>3, <3>4, <3>6 DEF MergeRight, Known
  <2> QED BY <2>4, <2>5, <2>6
<1> QED BY <1>6, <1>7

LEMMA CreateHistory ==
  ASSUME HistoryInv, NEW t \in Task, Create(t)
  PROVE  (Intact => HistoryRight)'
<1>1. /\ TypeOK /\ OneBlock /\ pc \in [Task -> Place]
      /\ Rest(t)
  BY StepRest, OldTask DEF HistoryInv, LatestInv, BlocksInv, Basic, Step
<1>2. CASE Store!Has
  <2>1. Quiet(t) /\ pc'[t] = "done"
    BY <1>1, <1>2 DEF Create, Answer, Quiet
  <2> QED BY <2>1, ElsewhereHistory
<1>3. CASE ~Store!Has
  <2> SUFFICES ASSUME Intact', ~First'.shared PROVE HistoryRight'
    BY DEF HistoryRight
  <2>1. ~removed /\ block = 0
    BY <1>1, <1>3 DEF Intact, Create, Store!Has
  <2>2. PICK patches \in {{}, {t}} :
          /\ First'.start = Store!Empty
          /\ First'.shared <=> patches = {}
          /\ First'.history = IF patches = {} THEN <<>> ELSE <<[seq |-> 0, patches |-> patches]>>
          /\ log' = IF patches = {} THEN <<>> ELSE <<t>>
          /\ pc' = [pc EXCEPT ![t] = "done"]
    BY <1>1, <1>3, <2>1, CreateFirst
  <2>3. ASSUME NEW u \in Task
        PROVE  MergeRight(u)'
    <3>1. ~Found(u)
      BY <1>1, <2>1 DEF OneBlock
    <3>2. pc'[u] \notin {"compact", "merge", "move"}
      BY <1>1, <2>2, <3>1 DEF Found, Holding
    <3> QED BY <3>2 DEF MergeRight, Compacting
  <2>4. /\ log' = <<t>> /\ First'.start = Store!Empty
        /\ First'.history = <<[seq |-> 0, patches |-> {t}]>>
    <3>1. patches = {t} /\ patches # {}
      BY <2>2
    <3> QED BY <2>2, <3>1, Zenon
  <2>5. First'.start.seq = -1 /\ First'.start.blob = {}
    BY <2>4 DEF Store!Empty
  <2>6. Known(First.start.seq)' = {}
    BY <2>5 DEF Known
  <2>7. Numbered(First.history, First.start.seq)'
    <3>1. PICK g : g = First'.history
      OBVIOUS
    <3>2. Len(g) = 1 /\ g[1].seq = 0 /\ g[1].patches = {t}
      BY <2>4, <3>1
    <3>3. Len(log') = 1 /\ log'[1] = t
      BY <2>4
    <3>4. Numbered(g, -1)'
      BY <3>2, <3>3 DEF Numbered
    <3> QED BY <2>5, <3>1, <3>4 DEF Numbered
  <2> QED BY <2>3, <2>5, <2>6, <2>7 DEF HistoryRight
<1> QED BY <1>2, <1>3

(* What an accepted edit does to the one block.                             *)
LEMMA PushedIntact ==
  ASSUME LatestInv, NEW t \in Task, EditPush(t), Store!Has, Store!NextSeq(frame[t].seq), Intact'
  PROVE  /\ Intact /\ DocumentRight
         /\ frame[t].seq = Len(log) /\ frame' = frame /\ log' = Append(log, t)
         /\ First'.start = IF First.shared THEN First'.latest ELSE First.start
         /\ First'.latest.seq = Len(log)
         /\ First'.shared <=> First.shared
         /\ First'.history = Append(First.history, [seq |-> frame[t].seq, patches |-> {t}])
         /\ pc' = [pc EXCEPT ![t] = IF Compacts(frame[t].seq) THEN "compact" ELSE "done"]
         /\ outcome' = [outcome EXCEPT ![t] = "ok"]
         /\ block = 1 /\ block' = 1
<1>1. TypeOK /\ OneBlock /\ Rest(t) /\ ~removed
  BY StepRest DEF LatestInv, BlocksInv, Basic, Step, EditPush, Intact
<1>2. PICK s, b, h : s = frame[t].seq /\ b = [seq |-> s, patches |-> {t}] /\ h = First.history
  OBVIOUS
<1>3. /\ block = 1 /\ block' = 1
      /\ First'.latest = [seq |-> s, blob |-> frame[t].blob]
      /\ First'.start = IF First.shared THEN First'.latest ELSE First.start
      /\ First'.shared <=> First.shared
      /\ First'.history = Append(h, b) /\ log' = Append(log, t)
      /\ s = First.latest.seq + 1
      /\ pc' = [pc EXCEPT ![t] = IF Compacts(s) THEN "compact" ELSE "done"]
      /\ outcome' = [outcome EXCEPT ![t] = "ok"]
      /\ frame' = frame
  BY <1>1, <1>2, PushFirst
<1>4. h \in Seq(Store!Batch) /\ Len(h) \in Nat /\ Len(log) \in Nat
  BY <1>1, <1>2, <1>3, HistoryLength
<1>5. PICK n, m : n \in Nat /\ m \in Nat /\ n = Len(log) /\ m = Len(h)
  BY <1>4
<1>6. Len(Append(h, b)) = m + 1
  BY <1>4, <1>5
<1>7. Len(log') = n + 1
  BY <1>1, <1>3, <1>5, KnownGrows
<1>8. Intact
  <2>1. First.shared => m + 1 = n + 1
    BY <1>3, <1>6, <1>7 DEF Intact
  <2>2. First.shared => m = n
    BY <1>5, <2>1
  <2> QED BY <1>1, <1>2, <1>3, <1>5, <2>2 DEF Intact
<1>9. DocumentRight
  BY <1>8 DEF LatestInv
<1>10. First.latest.seq = n - 1
  BY <1>5, <1>9 DEF DocumentRight, LatestRight
<1>11. s = n
  BY <1>3, <1>5, <1>10
<1>12. First'.latest.seq = n
  BY <1>3, <1>11
<1> QED BY <1>2, <1>3, <1>5, <1>8, <1>9, <1>11, <1>12, Zenon

LEMMA PushHistory ==
  ASSUME HistoryInv, NEW t \in Task, EditPush(t)
  PROVE  (Intact => HistoryRight)'
<1>1. TypeOK /\ LatestInv /\ OneBlock /\ pc \in [Task -> Place] /\ historyPerBlock \in Nat
  BY OldTask DEF HistoryInv, LatestInv, BlocksInv, Basic
<1>2. CASE ~Store!Has \/ ~Store!NextSeq(frame[t].seq)
  <2>1. Quiet(t) /\ pc'[t] = "done"
    BY <1>1, <1>2, PushQuiet
  <2> QED BY <2>1, ElsewhereHistory
<1>3. CASE Store!Has /\ Store!NextSeq(frame[t].seq)
  <2> SUFFICES ASSUME Intact', ~First'.shared PROVE HistoryRight'
    BY DEF HistoryRight
  <2>1. PICK n, b, h, m : /\ n = Len(log) /\ b = [seq |-> frame[t].seq, patches |-> {t}]
                          /\ h = First.history /\ m = Len(h)
    OBVIOUS
  <2>2. /\ Intact /\ DocumentRight /\ ~First.shared /\ block = 1 /\ ~removed
        /\ frame[t].seq = n /\ frame' = frame /\ log' = Append(log, t)
        /\ First'.start = First.start /\ First'.history = Append(h, b)
        /\ pc' = [pc EXCEPT ![t] = IF Compacts(n) THEN "compact" ELSE "done"]
    <3>1. Intact /\ block = 1
      BY <1>1, <1>3, PushedIntact
    <3> QED BY <1>1, <1>3, <2>1, <3>1, PushedIntact DEF Intact
  <2>3. n \in Nat /\ m \in Nat /\ h \in Seq(Store!Batch)
    BY <1>1, <2>1, <2>2, HistoryLength
  <2>4. HistoryRight
    BY <2>2 DEF HistoryInv
  <2>5. PICK s : s = First.start.seq
    OBVIOUS
  <2>6. /\ s \in Int /\ s >= -1 /\ s + m = n - 1 /\ Numbered(h, s)
        /\ First.start.blob = Known(s) /\ (s # -1 => s < n - historyPerBlock)
    BY <2>1, <2>2, <2>4, <2>5 DEF HistoryRight, Numbered
  <2>7. /\ Len(log') = n + 1
        /\ \A x \in Int : x < n => Known(x)' = Known(x)
    BY <1>1, <2>1, <2>2, KnownGrows
  <2>8. Numbered(First.history, First.start.seq)'
    <3>1. b \in Store!Batch /\ b.seq = Len(log) /\ b.patches = {t}
      BY <2>1, <2>2, <2>3 DEF Store!Batch
    <3>2. PICK g : g = Append(h, b)
      OBVIOUS
    <3>3. Numbered(g, s)'
      BY <1>1, <2>2, <2>3, <2>6, <3>1, <3>2, NumberedPush
    <3> QED BY <2>2, <2>5, <3>2, <3>3 DEF Numbered
  <2>9. First'.start.seq = s /\ First'.start.blob = Known(First.start.seq)'
    <3>1. s < n
      BY <2>3, <2>6
    <3>2. Known(s)' = Known(s)
      BY <2>6, <2>7, <3>1
    <3> QED BY <2>2, <2>5, <2>6, <3>2 DEF Known
  <2>10. s # -1 => s < (n + 1) - historyPerBlock
    BY <1>1, <2>3, <2>6
  <2>11. ASSUME NEW u \in Task
         PROVE  MergeRight(u)'
    <3>1. CASE u = t
      <4>1. pc'[t] = IF Compacts(n) THEN "compact" ELSE "done"
        BY <1>1, <2>2
      <4>2. Compacts(n) => s <= n - historyPerBlock
        BY <1>1, <2>3, <2>6 DEF Compacts
      <4> QED BY <2>2, <2>5, <3>1, <4>1, <4>2 DEF MergeRight, Compacting
    <3>2. CASE u # t
      <4>1. pc'[u] = pc[u] /\ frame'[u] = frame[u]
        BY <1>1, <2>2, <3>2
      <4>2. MergeRight(u) /\ CompactionRight(u)
        BY <2>2, <2>4 DEF HistoryRight, DocumentRight
      <4>3. PICK f, to, p, l : /\ f = frame[u].seq /\ to = f - historyPerBlock
                               /\ p = frame[u].pos /\ l = frame[u].len
        OBVIOUS
      <4>4. p \in Nat /\ l \in Nat
        BY <1>1, <4>3, OldTask DEF Frame
      <4>5. Len(First'.history) = m + 1
        <5>1. Len(Append(h, b)) = m + 1
          BY <2>1, <2>3
        <5> QED BY <2>2, <5>1
      <4>6. SUFFICES ASSUME Compacting(u) PROVE MergeRight(u)'
        BY <4>1 DEF MergeRight, Compacting
      <4>7. f \in (historyPerBlock + 1) .. (n - 1)
        BY <2>1, <4>2, <4>3, <4>6 DEF CompactionRight
      <4>8. to \in Int /\ to < n /\ s <= to
        <5>1. s <= to
          BY <2>5, <4>2, <4>3, <4>6 DEF MergeRight
        <5> QED BY <1>1, <2>3, <4>3, <4>7, <5>1
      <4>9. ASSUME pc[u] = "merge"
            PROVE  /\ p <= l /\ l <= m + 1 /\ s + p <= to /\ to <= s + l
                   /\ frame[u].blob = Known(s + p)'
        <5>1. /\ p <= l /\ l <= m /\ s + p <= to /\ to <= s + l
              /\ frame[u].blob = Known(s + p)
          BY <2>1, <2>5, <4>2, <4>3, <4>9 DEF MergeRight
        <5>2. s + p \in Int /\ s + p < n /\ l <= m + 1
          BY <2>3, <2>6, <4>4, <4>8, <5>1, SMTT(30)
        <5> QED BY <2>7, <5>1, <5>2
      <4>10. ASSUME pc[u] = "move"
             PROVE  s + p = to /\ frame[u].blob = Known(to)'
        <5>1. s + p = to /\ frame[u].blob = Known(to)
          BY <2>5, <4>2, <4>3, <4>10 DEF MergeRight
        <5> QED BY <2>7, <4>8, <5>1
      <4> QED BY <2>9, <4>1, <4>3, <4>5, <4>8, <4>9, <4>10 DEF MergeRight, Known
    <3> QED BY <3>1, <3>2
  <2> QED BY <2>7, <2>8, <2>9, <2>10, <2>11 DEF HistoryRight
<1> QED BY <1>2, <1>3

(* What the end of a compaction does to a block of two snapshots.           *)
LEMMA MovedIntact ==
  ASSUME LatestInv, NEW t \in Task, CompactMove(t), Intact'
  PROVE  /\ Intact /\ DocumentRight /\ ~First.shared /\ ~First'.shared
         /\ First'.start = [seq |-> frame[t].seq - historyPerBlock, blob |-> frame[t].blob]
         /\ First'.history = SubSeq(First.history, frame[t].pos + 1, Len(First.history))
         /\ pc' = [pc EXCEPT ![t] = "done"] /\ outcome' = outcome
         /\ frame' = frame /\ log' = log /\ block = 1 /\ block' = 1
<1>1. TypeOK /\ Basic /\ OneBlock /\ ~removed /\ Compacting(t) /\ pc[t] = "move"
      /\ frame[t] \in Frame
  BY OldTask DEF LatestInv, BlocksInv, Basic, CompactMove, Intact, Compacting
<1>2. PICK h, p, n : h = First.history /\ p = frame[t].pos /\ n = Len(log)
  OBVIOUS
<1>3. /\ First'.start = [seq |-> frame[t].seq - historyPerBlock, blob |-> frame[t].blob]
      /\ First'.shared <=> First.shared
      /\ First'.history = SubSeq(h, p + 1, Len(h))
      /\ pc' = [pc EXCEPT ![t] = "done"] /\ outcome' = outcome
      /\ frame' = frame /\ log' = log /\ block = 1 /\ block' = 1
  BY <1>1, <1>2, MoveFirst
<1>4. h \in Seq(Store!Batch) /\ Len(h) \in Nat /\ n \in Nat /\ Len(h) <= n /\ p \in Nat
  BY <1>1, <1>2, <1>3, HistoryLength DEF Frame
<1>5. PICK m \in Nat : m = Len(h) /\ m <= n
  BY <1>4
<1>6. Len(SubSeq(h, p + 1, m)) = IF p + 1 <= m THEN m - p ELSE 0
  BY <1>4, <1>5
<1>7. ~First.shared
  <2> SUFFICES ASSUME First.shared PROVE FALSE
    OBVIOUS
  <2>1. Len(First'.history) = Len(log')
    BY <1>3 DEF Intact
  <2>2. (IF p + 1 <= m THEN m - p ELSE 0) = n
    BY <1>2, <1>3, <1>5, <1>6, <2>1
  <2>3. m = n /\ (p = 0 \/ n = 0)
    BY <1>4, <1>5, <2>2
  <2>4. CompactionRight(t)
    BY <1>1, <1>2, <1>3, <1>5, <2>3 DEF Intact, LatestInv, DocumentRight
  <2>5. p \in 1 .. m
    BY <1>1, <1>2, <1>5, <2>4 DEF CompactionRight
  <2> QED BY <1>4, <1>5, <2>3, <2>5
<1>8. Intact /\ DocumentRight
  BY <1>1, <1>3, <1>7 DEF Intact, LatestInv
<1> QED BY <1>2, <1>3, <1>7, <1>8, Zenon

(* In the undisturbed block only one request is compacting.                 *)
LEMMA OnlyCompaction ==
  ASSUME TypeOK, OneCompaction, Intact, ~First.shared, NEW t \in Task, Compacting(t),
         NEW u \in Task, Compacting(u)
  PROVE  u = t
<1>1. Undisturbed
  BY DEF Undisturbed, Intact, Store!Has, Store!Current, First
<1> QED BY <1>1 DEF OneCompaction

LEMMA MoveHistory ==
  ASSUME HistoryInv, OneCompaction, NEW t \in Task, CompactMove(t)
  PROVE  (Intact => HistoryRight)'
<1>1. TypeOK /\ LatestInv /\ OneBlock /\ pc \in [Task -> Place] /\ historyPerBlock \in Nat
      /\ Compacting(t) /\ pc[t] = "move" /\ frame[t] \in Frame
  BY OldTask DEF HistoryInv, LatestInv, BlocksInv, Basic, Compacting, CompactMove
<1> SUFFICES ASSUME Intact' PROVE HistoryRight'
  OBVIOUS
<1>2. PICK h, m, n, p, f, to, s, b :
        /\ h = First.history /\ m = Len(h) /\ n = Len(log) /\ p = frame[t].pos
        /\ f = frame[t].seq /\ to = f - historyPerBlock /\ s = First.start.seq /\ b = frame[t].blob
  OBVIOUS
<1>3. /\ Intact /\ DocumentRight /\ ~First.shared /\ block = 1 /\ ~removed
      /\ First'.start = [seq |-> to, blob |-> b]
      /\ First'.history = SubSeq(h, p + 1, m)
      /\ pc' = [pc EXCEPT ![t] = "done"] /\ frame' = frame /\ log' = log
  <2>1. Intact /\ block = 1
    BY <1>1, MovedIntact
  <2> QED BY <1>1, <1>2, <2>1, MovedIntact DEF Intact
<1>4. h \in Seq(Store!Batch) /\ m \in Nat /\ n \in Nat /\ p \in Nat
  BY <1>1, <1>2, <1>3, HistoryLength DEF Frame
<1>5. HistoryRight
  BY <1>3 DEF HistoryInv
<1>6. /\ s \in Int /\ s >= -1 /\ s + m = n - 1
      /\ \A k \in 1 .. m : h[k].seq = s + k /\ h[k].patches = {log[s + k + 1]}
  BY <1>2, <1>3, <1>5 DEF HistoryRight, Numbered
<1>7. s <= to /\ s + p = to /\ b = Known(to)
  BY <1>1, <1>2, <1>3, <1>5 DEF HistoryRight, MergeRight
<1>8. f \in (historyPerBlock + 1) .. (n - 1)
  BY <1>1, <1>2, <1>3 DEF DocumentRight, CompactionRight
<1>9. to \in Int /\ to >= -1 /\ p <= m /\ to < n - historyPerBlock /\ to + (m - p) = n - 1
  <2>1. PICK c \in Nat : c = historyPerBlock
    BY <1>1
  <2>2. f \in Int /\ f <= n - 1 /\ to = f - c
    BY <1>1, <1>2, <1>4, <1>8, <2>1
  <2>3. to \in Int /\ to <= n - 1 - c
    BY <1>4, <2>1, <2>2
  <2>4. p <= m /\ to + (m - p) = n - 1
    BY <1>4, <1>6, <1>7, <2>1, <2>3
  <2>5. to < n - c /\ to >= -1
    BY <1>4, <1>6, <1>7, <2>1, <2>3
  <2> QED BY <2>1, <2>3, <2>4, <2>5
<1>10. PICK g : g = SubSeq(h, p + 1, m)
  OBVIOUS
<1>11. Len(g) = m - p /\ \A k \in 1 .. (m - p) : g[k] = h[p + k]
  <2>1. Len(SubSeq(h, p + 1, m)) = m - p
    <3>1. Len(SubSeq(h, p + 1, m)) = IF p + 1 <= m THEN m - p ELSE 0
      BY <1>2, <1>4, SMTT(30)
    <3> QED BY <1>4, <1>9, <3>1
  <2>2. ASSUME NEW k \in 1 .. (m - p)
        PROVE  SubSeq(h, p + 1, m)[k] = h[p + k]
    <3>1. p + 1 \in Int /\ m \in Int /\ m - (p + 1) + 1 = m - p
      BY <1>4, <1>9
    <3>2. \A i \in (p + 1) .. m : h[i] \in Store!Batch
      <4>1. m = Len(h)
        BY <1>2
      <4>2. \A i \in 1 .. m : h[i] \in Store!Batch
        BY <1>4, <4>1
      <4>3. \A i \in (p + 1) .. m : i \in 1 .. m
        BY <1>4
      <4> QED BY <4>2, <4>3
    <3>3. PICK a : a = p + 1 /\ a \in Int /\ m \in Int
      BY <3>1
    <3>4. \A i \in a .. m : h[i] \in Store!Batch
      BY <3>2, <3>3, Zenon
    <3>5. \A i \in 1 .. m - a + 1 : SubSeq(h, a, m)[i] = h[a + i - 1]
      BY <3>3, <3>4, SubSeqProperties
    <3>6. SubSeq(h, p + 1, m)[k] = h[(p + 1) + k - 1]
      BY <3>1, <3>3, <3>5
    <3>7. (p + 1) + k - 1 = p + k
      BY <1>4
    <3> QED BY <3>6, <3>7
  <2> QED BY <1>10, <2>1, <2>2
<1>12. ASSUME NEW k \in 1 .. (m - p)
       PROVE  g[k].seq = to + k /\ g[k].patches = {log[to + k + 1]}
  <2>1. p + k \in 1 .. m /\ s + (p + k) = to + k /\ s + (p + k) + 1 = to + k + 1
    BY <1>4, <1>6, <1>7, <1>9
  <2>2. h[p + k].seq = s + (p + k) /\ h[p + k].patches = {log[s + (p + k) + 1]}
    BY <1>6, <2>1
  <2> QED BY <1>11, <2>1, <2>2
<1>13. Numbered(g, to)
  BY <1>2, <1>9, <1>11, <1>12 DEF Numbered
<1>14. First'.start.seq = to /\ First'.start.blob = Known(to) /\ First'.history = g
  BY <1>3, <1>7, <1>10
<1>15. /\ Numbered(First.history, First.start.seq)'
       /\ First'.start.blob = Known(First.start.seq)'
       /\ First'.start.seq < Len(log') - historyPerBlock
  BY <1>2, <1>3, <1>9, <1>13, <1>14 DEF Numbered, Known
<1>16. ASSUME NEW u \in Task
       PROVE  MergeRight(u)'
  <2>1. CASE u = t
    BY <1>1, <1>3, <2>1 DEF MergeRight, Compacting
  <2>2. CASE u # t
    <3>1. ~Compacting(u)
      BY <1>1, <1>3, <2>2, OnlyCompaction
    <3> QED BY <1>1, <1>3, <2>2, <3>1 DEF MergeRight, Compacting
  <2> QED BY <2>1, <2>2
<1> QED BY <1>15, <1>16 DEF HistoryRight

LEMMA StepHistory ==
  ASSUME HistoryInv, OneCompaction, [Next]_vars
  PROVE  HistoryInv'
<1>1. LatestInv'
  BY StepLatest DEF HistoryInv
<1>2. ASSUME NEW t \in Task, Step(t) PROVE (Intact => HistoryRight)'
  BY <1>2, CreateHistory, ReadHistory, CompactHistory, MoveHistory, PushHistory, RemoveLatest
     DEF Step
<1>3. ASSUME UNCHANGED vars PROVE (Intact => HistoryRight)'
  <2>1. /\ UNCHANGED <<block, objects, pc, frame, log, removed>>
        /\ First' = First /\ (Intact' <=> Intact) /\ \A x : Known(x)' = Known(x)
    BY <1>3 DEF vars, Intact, First, Known
  <2>2. /\ Numbered(First.history, First.start.seq)' <=> Numbered(First.history, First.start.seq)
        /\ Known(First.start.seq)' = Known(First.start.seq)
        /\ \A u \in Task : MergeRight(u)' <=> MergeRight(u)
    BY <2>1 DEF Numbered, MergeRight, Compacting, Known
  <2> QED BY <2>1, <2>2 DEF HistoryInv, HistoryRight
<1>4. (Intact => HistoryRight)'
  BY <1>2, <1>3 DEF Next, Step
<1> QED BY <1>1, <1>4 DEF HistoryInv

-----------------------------------------------------------------------------
(* What a pull gets.                                                        *)
LEMMA QuietPull ==
  ASSUME PullInv, NEW t \in Task, Quiet(t),
         Intact /\ DocumentRight /\ HistoryRight /\ PullRight(t) => PullRight(t)'
  PROVE  (Intact => \A u \in Task : PullRight(u))'
<1> SUFFICES ASSUME Intact' PROVE \A u \in Task : PullRight(u)'
  OBVIOUS
<1>1. (Intact' <=> Intact) /\ \A u \in Task \ {t} : PullRight(u)' <=> PullRight(u)
  BY QuietIntact
<1>2. DocumentRight /\ HistoryRight /\ Intact /\ \A u \in Task : PullRight(u)
  BY <1>1 DEF PullInv, HistoryInv, LatestInv
<1> QED BY <1>1, <1>2

(* One that is not a pull has nothing to be right about.                    *)
LEMMA NotPulling ==
  ASSUME NEW t \in Task, pc'[t] \notin {"snapshot", "scan"}, ~Pulled(t)'
  PROVE  PullRight(t)'
BY DEF PullRight

LEMMA EditsPull ==
  ASSUME PullInv, NEW t \in Task,
         \/ EditExists(t) \/ EditGet(t) \/ EditCompute(t) \/ CompactStart(t) \/ CompactMerge(t)
  PROVE  (Intact => \A u \in Task : PullRight(u))'
<1>1. /\ TypeOK /\ Asked(t) /\ Quiet(t) /\ pc \in [Task -> Place] /\ op' = op
  BY StepQuiet, OldTask DEF PullInv, HistoryInv, LatestInv, BlocksInv, Basic, Quiet, Rest
<1>2. ~Pulls(t)
  BY <1>1 DEF EditExists, EditGet, EditCompute, CompactStart, CompactMerge, Asked, Holding, Compacting
<1>3. pc'[t] \in {"get", "create", "done", "compute", "push", "merge", "move"}
  BY <1>1 DEF EditExists, EditGet, EditCompute, CompactStart, CompactMerge, Goto, Answer
<1>4. PullRight(t)'
  BY <1>1, <1>2, <1>3, NotPulling DEF Pulled, Pulls
<1> QED BY <1>1, <1>4, QuietPull

LEMMA SeqPull ==
  ASSUME PullInv, NEW t \in Task, PullSeq(t)
  PROVE  (Intact => \A u \in Task : PullRight(u))'
<1>1. /\ TypeOK /\ Asked(t) /\ Quiet(t) /\ pc \in [Task -> Place] /\ op' = op /\ log' = log
      /\ pc[t] = "seq" /\ frame \in [Task -> Frame] /\ frame[t] \in Frame /\ OneBlock
      /\ outcome \in [Task -> {"none", "ok"} \cup Failure] /\ Pulls(t)
  BY StepQuiet, OldTask
     DEF PullInv, HistoryInv, LatestInv, BlocksInv, Basic, Quiet, Rest, PullSeq, Asked
<1> SUFFICES ASSUME Intact, DocumentRight, HistoryRight
             PROVE  PullRight(t)'
  BY <1>1, QuietPull
<1>2. Store!Has /\ Store!Current = First /\ Len(log) \in Nat
  BY <1>1, OldTask DEF Intact, Store!Has, Store!Current, First
<1>3. PICK seq : seq = First.latest.seq /\ seq = Len(log) - 1
  BY DEF DocumentRight, LatestRight
<1>4. PICK last \in -1 .. seq :
        /\ frame' = [frame EXCEPT ![t] = [frame[t] EXCEPT !.seq = seq, !.last = last]]
        /\ \/ last = seq /\ Answer(t, "ok", "done")
           \/ last < seq /\ NeedsSnapshot(last, seq) /\ Goto(t, "snapshot")
           \/ last < seq /\ ~NeedsSnapshot(last, seq) /\ Goto(t, "scan")
  <2>1. Store!Current.latest.seq = seq
    BY <1>2, <1>3
  <2>2. \E last \in -1 .. seq :
          /\ Remember(t, [frame[t] EXCEPT !.seq = seq, !.last = last])
          /\ \/ last = seq /\ Answer(t, "ok", "done")
             \/ last < seq /\ NeedsSnapshot(last, seq) /\ Goto(t, "snapshot")
             \/ last < seq /\ ~NeedsSnapshot(last, seq) /\ Goto(t, "scan")
    BY <1>2, <2>1 DEF PullSeq
  <2> QED BY <2>2 DEF Remember
<1>5. frame'[t].seq = seq /\ frame'[t].last = last
  BY <1>1, <1>4 DEF Frame
<1>6. seq \in -1 .. (Len(log') - 1) /\ seq \in Int
  BY <1>1, <1>2, <1>3
<1>7. CASE last = seq /\ Answer(t, "ok", "done")
  <2>1. pc'[t] = "done"
    BY <1>1, <1>7 DEF Answer
  <2> QED BY <1>5, <1>6, <1>7, <2>1 DEF PullRight
<1>8. CASE last < seq /\ Goto(t, IF NeedsSnapshot(last, seq) THEN "snapshot" ELSE "scan")
  <2>1. outcome'[t] # "ok"
    BY <1>1, <1>8 DEF Goto, Asked, Pulled
  <2>2. pc'[t] = "scan" => last # -1
    BY <1>1, <1>8 DEF Goto, NeedsSnapshot
  <2>3. last # -1 => last >= 0
    BY <1>6
  <2> QED BY <1>5, <1>6, <2>1, <2>2, <2>3 DEF PullRight, Pulled
<1> QED BY <1>4, <1>7, <1>8

(* The answer to a pull, from both kinds of snapshot.                       *)
LEMMA SnapshotPull ==
  ASSUME PullInv, NEW t \in Task, PullSnapshot(t)
  PROVE  (Intact => \A u \in Task : PullRight(u))'
<1>1. /\ TypeOK /\ Quiet(t) /\ pc \in [Task -> Place] /\ log' = log
      /\ pc[t] = "snapshot" /\ frame \in [Task -> Frame] /\ frame[t] \in Frame /\ OneBlock
  BY StepQuiet, OldTask
     DEF PullInv, HistoryInv, LatestInv, BlocksInv, Basic, Quiet, PullSnapshot
<1> SUFFICES ASSUME Intact, DocumentRight, HistoryRight, PullRight(t)
             PROVE  PullRight(t)'
  BY <1>1, QuietPull
<1>2. Store!Has /\ Store!Current = First /\ block = 1 /\ ~removed
  BY DEF Intact, Store!Has, Store!Current, First
<1>3. First.history \in Seq(Store!Batch) /\ Len(log) \in Nat
  BY <1>1, <1>2, HistoryLength
<1>4. PICK seq, last, blob : /\ seq = frame[t].seq /\ last = frame[t].last
                             /\ blob = Store!SnapshotAt(seq)
  OBVIOUS
<1>5. /\ frame' = [frame EXCEPT ![t] = [frame[t] EXCEPT !.blob = blob]]
      /\ pc' = [pc EXCEPT ![t] = "done"]
  BY <1>2, <1>4 DEF PullSnapshot, Remember, Answer
<1>6. pc'[t] = "done" /\ frame'[t].seq = seq /\ frame'[t].last = last /\ frame'[t].blob = blob
  BY <1>1, <1>4, <1>5 DEF Frame
<1>7. last \in -1 .. seq /\ seq \in -1 .. (Len(log) - 1) /\ seq \in Int
  BY <1>1, <1>4 DEF PullRight
<1>8. Known(seq) \subseteq blob
  <2>1. CASE First.shared
    <3>1. First.start.blob = Known(Len(log) - 1)
      BY <2>1 DEF DocumentRight, LatestRight
    <3>2. Known(seq) \subseteq Known(Len(log) - 1)
      BY <1>3, <1>7, KnownUpto
    <3> QED BY <1>2, <1>4, <3>1, <3>2 DEF Store!SnapshotAt
  <2>2. CASE ~First.shared
    <3>1. PICK s, h : s = First.start.seq /\ h = First.history
      OBVIOUS
    <3>2. Numbered(h, s) /\ First.start.blob = Known(s) /\ s \in Int
      BY <2>2, <3>1 DEF HistoryRight, Numbered
    <3>3. Store!PatchesOf(Store!Between(h, s + 1, seq)) = {log[k] : k \in (s + 1 + 1) .. (seq + 1)}
      <4>1. PICK a \in Int : a = s + 1 /\ s < a /\ seq < Len(log)
        BY <1>3, <1>7, <3>2
      <4>2. Store!PatchesOf(Store!Between(h, a, seq)) = {log[k] : k \in (a + 1) .. (seq + 1)}
        BY <1>3, <1>7, <3>1, <3>2, <4>1, Replayed
      <4> QED BY <4>1, <4>2
    <3>4. blob = Known(s) \cup {log[k] : k \in (s + 1 + 1) .. (seq + 1)}
      BY <1>2, <1>4, <3>1, <3>2, <3>3 DEF Store!SnapshotAt
    <3>5. \A k \in 1 .. (seq + 1) : k \in 1 .. (s + 1) \/ k \in (s + 1 + 1) .. (seq + 1)
      BY <1>7, <3>2
    <3> QED BY <3>4, <3>5 DEF Known
  <2> QED BY <2>1, <2>2
<1>9. Known(seq)' = Known(seq)
  BY <1>1 DEF Known
<1>10. Known(frame[t].seq)' \subseteq frame'[t].blob
  BY <1>6, <1>8, <1>9 DEF Known
<1> QED BY <1>1, <1>6, <1>7, <1>10 DEF PullRight

LEMMA ScanPull ==
  ASSUME PullInv, NEW t \in Task, PullScan(t)
  PROVE  (Intact => \A u \in Task : PullRight(u))'
<1>1. /\ TypeOK /\ Quiet(t) /\ pc \in [Task -> Place] /\ log' = log /\ First' = First
      /\ block' = block /\ objects' = objects
      /\ pc[t] = "scan" /\ frame \in [Task -> Frame] /\ frame[t] \in Frame /\ OneBlock
  BY StepQuiet, OldTask
     DEF PullInv, HistoryInv, LatestInv, BlocksInv, Basic, Quiet, PullScan, storeVars, First
<1> SUFFICES ASSUME Intact, DocumentRight, HistoryRight, PullRight(t)
             PROVE  PullRight(t)'
  BY <1>1, QuietPull
<1>2. Store!Has /\ Store!Current = First /\ block = 1 /\ ~removed
  BY DEF Intact, Store!Has, Store!Current, First
<1>3. First.history \in Seq(Store!Batch) /\ Len(log) \in Nat
  BY <1>1, <1>2, HistoryLength
<1>4. PICK seq, last, h, blob :
        /\ seq = frame[t].seq /\ last = frame[t].last /\ h = First.history
        /\ blob = Store!PatchesOf(Store!Between(h, last + 1, seq))
  OBVIOUS
<1>5. /\ frame' = [frame EXCEPT ![t] = [frame[t] EXCEPT !.blob = blob]]
      /\ pc' = [pc EXCEPT ![t] = "done"]
  BY <1>2, <1>4 DEF PullScan, Remember, Answer, Store!Scan
<1>6. pc'[t] = "done" /\ frame'[t].seq = seq /\ frame'[t].last = last /\ frame'[t].blob = blob
  BY <1>1, <1>4, <1>5 DEF Frame
<1>7. last \in -1 .. seq /\ seq \in -1 .. (Len(log) - 1) /\ seq \in Int /\ last \in Int /\ last >= 0
  BY <1>1, <1>4 DEF PullRight
<1>8. ASSUME NEW base \in Int, Numbered(h, base), base <= last
      PROVE  Known(seq) \subseteq Known(last) \cup blob
  <2>1. PICK a \in Int : a = last + 1 /\ base < a /\ seq < Len(log)
    BY <1>3, <1>7, <1>8
  <2>2. Store!PatchesOf(Store!Between(h, a, seq)) = {log[k] : k \in (a + 1) .. (seq + 1)}
    <3>1. h \in Seq(Store!Batch)
      BY <1>3, <1>4
    <3> QED BY <1>3, <1>7, <1>8, <2>1, <3>1, Replayed
  <2>3. \A k \in 1 .. (seq + 1) : k \in 1 .. (last + 1) \/ k \in (a + 1) .. (seq + 1)
    BY <1>7, <2>1
  <2> QED BY <1>4, <2>1, <2>2, <2>3 DEF Known
<1>9. Known(seq) \subseteq Known(last) \cup blob \/ First.start.seq > last
  <2>1. CASE First.shared
    <3>1. Numbered(h, -1)
      BY <1>4, <2>1 DEF DocumentRight
    <3>2. -1 \in Int /\ -1 <= last
      BY <1>7
    <3> QED BY <1>8, <3>1, <3>2
  <2>2. CASE ~First.shared
    <3>1. PICK s : s = First.start.seq
      OBVIOUS
    <3>2. Numbered(h, s) /\ s \in Int
      BY <1>4, <2>2, <3>1 DEF HistoryRight, Numbered
    <3>3. s <= last \/ s > last
      BY <1>7, <3>2
    <3> QED BY <1>8, <3>1, <3>2, <3>3
  <2> QED BY <2>1, <2>2
<1>10. Known(frame[t].seq)' = Known(seq) /\ Known(frame[t].last)' = Known(last)
  BY <1>1, <1>6 DEF Known
<1>11. Overtaken(t)' <=> First.start.seq > last
  BY <1>1, <1>2, <1>6, <1>7 DEF Overtaken, Store!Current, First
<1> QED BY <1>1, <1>6, <1>7, <1>9, <1>10, <1>11 DEF PullRight

(* A request keeps what it has got, as the log grows and the history is     *)
(* compacted.                                                               *)
LEMMA KeptPull ==
  ASSUME TypeOK, OneBlock, Intact, block' = 1, NEW u \in Task, PullRight(u),
         op'[u] = op[u], pc'[u] = pc[u], frame'[u] = frame[u], outcome'[u] = outcome[u],
         Len(log') \in Nat, Len(log) <= Len(log'),
         \A x \in Int : x < Len(log) => Known(x)' = Known(x),
         First'.start.seq \in Int, First.start.seq <= First'.start.seq
  PROVE  PullRight(u)'
<1>1. frame[u] \in Frame /\ block = 1 /\ ~removed /\ Len(log) \in Nat /\ First.start.seq \in Int
  <2>1. block = 1 /\ ~removed
    BY DEF Intact
  <2>2. First \in Store!MemoryBlock
    BY <2>1, HistoryLength
  <2> QED BY <2>1, <2>2, OldTask DEF Store!MemoryBlock, Store!Snapshot
<1>2. PICK seq, last, n, m, s, r :
        /\ seq = frame[u].seq /\ last = frame[u].last /\ n = Len(log) /\ m = Len(log')
        /\ s = First.start.seq /\ r = First'.start.seq
  OBVIOUS
<1>3. seq \in Int /\ last \in Int /\ n \in Nat /\ m \in Nat /\ n <= m /\ s \in Int /\ r \in Int /\ s <= r
  BY <1>1, <1>2 DEF Frame
<1>4. frame'[u].seq = seq /\ frame'[u].last = last /\ frame'[u].blob = frame[u].blob
  BY <1>2
<1>5. Pulled(u)' <=> Pulled(u)
  BY DEF Pulled, Pulls
<1>6. ASSUME pc[u] \in {"snapshot", "scan"} \/ Pulled(u)
      PROVE  /\ last \in -1 .. seq /\ seq \in -1 .. (n - 1) /\ seq \in -1 .. (m - 1)
             /\ Known(seq)' = Known(seq) /\ Known(last)' = Known(last)
  <2>1. last \in -1 .. seq /\ seq \in -1 .. (n - 1)
    BY <1>2, <1>6 DEF PullRight
  <2>2. seq < n /\ last < n /\ seq \in -1 .. (m - 1)
    BY <1>3, <2>1
  <2> QED BY <1>2, <1>3, <2>1, <2>2
<1>7. Overtaken(u) => Overtaken(u)'
  <2>1. Overtaken(u) <=> last >= 0 /\ s > last
    BY <1>1, <1>2 DEF Overtaken, Store!Current, First
  <2>2. Overtaken(u)' <=> last >= 0 /\ r > last
    BY <1>2, <1>4 DEF Overtaken, Store!Current, First
  <2> QED BY <1>3, <2>1, <2>2
<1>8. Known(frame[u].seq)' = Known(seq)' /\ Known(frame[u].last)' = Known(last)'
  BY <1>4 DEF Known
<1>9. Pulled(u) => Known(seq) \subseteq Known(last) \cup frame[u].blob \/ Overtaken(u)
  BY <1>2 DEF PullRight
<1>10. pc[u] = "scan" => last >= 0
  BY <1>2 DEF PullRight
<1>11. Len(log') = m
  BY <1>2
<1> QED BY <1>4, <1>5, <1>6, <1>7, <1>8, <1>9, <1>10, <1>11 DEF PullRight

LEMMA CreatePull ==
  ASSUME PullInv, NEW t \in Task, Create(t)
  PROVE  (Intact => \A u \in Task : PullRight(u))'
<1>1. /\ TypeOK /\ OneBlock /\ Asked(t) /\ pc \in [Task -> Place] /\ Rest(t) /\ pc[t] = "create"
      /\ outcome \in [Task -> {"none", "ok"} \cup Failure] /\ frame' = frame /\ op' = op
  BY StepRest, OldTask DEF PullInv, HistoryInv, LatestInv, BlocksInv, Basic, Step, Create
<1>2. CASE Store!Has
  <2>1. Quiet(t) /\ pc'[t] = "done" /\ outcome'[t] # "ok"
    BY <1>1, <1>2 DEF Create, Answer, Quiet
  <2>2. PullRight(t)'
    BY <2>1, NotPulling DEF Pulled
  <2> QED BY <2>1, <2>2, QuietPull
<1>3. CASE ~Store!Has
  <2> SUFFICES ASSUME Intact', NEW u \in Task PROVE PullRight(u)'
    OBVIOUS
  <2>1. ~removed /\ block = 0
    BY <1>1, <1>3 DEF Intact, Create, Store!Has
  <2>2. PICK patches \in {{}, {t}} :
          /\ log' = IF patches = {} THEN <<>> ELSE <<t>>
          /\ pc' = [pc EXCEPT ![t] = "done"] /\ outcome' = [outcome EXCEPT ![t] = "ok"]
    BY <1>1, <1>3, <2>1, CreateFirst
  <2>3. ~Found(u) /\ ~Pulled(u)
    BY <1>1, <2>1 DEF OneBlock
  <2>4. CASE u # t
    <3>1. pc'[u] = pc[u] /\ outcome'[u] = outcome[u]
      BY <1>1, <2>4 DEF Rest
    <3> QED BY <1>1, <2>3, <3>1, NotPulling DEF Found, Pulled, Pulls
  <2>5. CASE u = t
    <3>1. pc'[t] = "done" /\ frame'[t].seq = -1 /\ frame'[t].last = -1
      BY <1>1, <2>2 DEF Asked, EmptyFrame
    <3>2. Len(log') \in Nat
      BY <2>2
    <3>3. -1 \in -1 .. (Len(log') - 1) /\ -1 \in -1 .. -1
      BY <3>2
    <3> QED BY <2>5, <3>1, <3>3 DEF PullRight
  <2> QED BY <2>4, <2>5
<1> QED BY <1>2, <1>3

LEMMA PushPull ==
  ASSUME PullInv, NEW t \in Task, EditPush(t)
  PROVE  (Intact => \A u \in Task : PullRight(u))'
<1>1. /\ TypeOK /\ LatestInv /\ OneBlock /\ Asked(t) /\ pc \in [Task -> Place] /\ Rest(t)
      /\ pc[t] = "push" /\ ~Pulls(t) /\ op' = op /\ Len(log) \in Nat
  BY StepRest, OldTask
     DEF PullInv, HistoryInv, LatestInv, BlocksInv, Basic, Step, EditPush, Asked, Holding
<1>2. PullRight(t)'
  <2>1. pc'[t] \in {"compact", "done"}
    BY <1>1 DEF EditPush, Answer
  <2> QED BY <1>1, <2>1, NotPulling DEF Pulled, Pulls
<1>3. CASE ~Store!Has \/ ~Store!NextSeq(frame[t].seq)
  <2>1. Quiet(t)
    BY <1>1, <1>3, PushQuiet
  <2> QED BY <1>2, <2>1, QuietPull
<1>4. CASE Store!Has /\ Store!NextSeq(frame[t].seq)
  <2> SUFFICES ASSUME Intact', NEW u \in Task, u # t PROVE PullRight(u)'
    BY <1>2
  <2>1. /\ Intact /\ DocumentRight /\ log' = Append(log, t) /\ block' = 1 /\ block = 1
        /\ First'.start = IF First.shared THEN First'.latest ELSE First.start
        /\ First'.latest.seq = Len(log)
    <3>1. Intact
      BY <1>1, <1>4, PushedIntact
    <3> QED BY <1>1, <1>4, PushedIntact, Zenon
  <2>2. PullRight(u)
    BY <2>1 DEF PullInv
  <2>3. PICK n \in Nat : n = Len(log)
    BY <1>1
  <2>4. Len(log') = n + 1 /\ \A x \in Int : x < n => Known(x)' = Known(x)
    BY <1>1, <2>1, <2>3, KnownGrows
  <2>5. First.start.seq \in Int
    <3>1. First \in Store!MemoryBlock
      BY <1>1, <2>1, HistoryLength DEF Intact
    <3> QED BY <3>1 DEF Store!MemoryBlock, Store!Snapshot
  <2>6. First'.start.seq \in Int /\ First.start.seq <= First'.start.seq
    <3>1. CASE First.shared
      <4>1. First.start.seq = n - 1
        BY <2>1, <2>3, <3>1 DEF DocumentRight, LatestRight
      <4>2. First'.start.seq = n
        BY <2>1, <2>3, <3>1
      <4> QED BY <4>1, <4>2
    <3>2. CASE ~First.shared
      <4>1. First'.start.seq = First.start.seq
        BY <2>1, <3>2
      <4> QED BY <2>5, <4>1
    <3> QED BY <3>1, <3>2
  <2>7. op'[u] = op[u] /\ pc'[u] = pc[u] /\ frame'[u] = frame[u] /\ outcome'[u] = outcome[u]
    BY <1>1 DEF Rest
  <2>8. Len(log') \in Nat /\ Len(log) <= Len(log')
    BY <2>3, <2>4
  <2> QED BY <1>1, <2>1, <2>2, <2>3, <2>4, <2>6, <2>7, <2>8, KeptPull
<1> QED BY <1>3, <1>4

LEMMA MovePull ==
  ASSUME PullInv, NEW t \in Task, CompactMove(t)
  PROVE  (Intact => \A u \in Task : PullRight(u))'
<1>1. /\ TypeOK /\ LatestInv /\ OneBlock /\ Asked(t) /\ pc \in [Task -> Place] /\ Rest(t)
      /\ pc[t] = "move" /\ ~Pulls(t) /\ op' = op /\ Len(log) \in Nat /\ Compacting(t)
      /\ historyPerBlock \in Nat
  BY StepRest, OldTask
     DEF PullInv, HistoryInv, LatestInv, BlocksInv, Basic, Step, CompactMove, Asked, Compacting
<1> SUFFICES ASSUME Intact', NEW u \in Task PROVE PullRight(u)'
  OBVIOUS
<1>2. PICK f, to, b : f = frame[t].seq /\ to = f - historyPerBlock /\ b = frame[t].blob
  OBVIOUS
<1>3. /\ Intact /\ DocumentRight /\ ~First.shared
      /\ First'.start = [seq |-> to, blob |-> b]
      /\ pc' = [pc EXCEPT ![t] = "done"] /\ outcome' = outcome
      /\ frame' = frame /\ log' = log /\ block = 1 /\ block' = 1
  <2>1. Intact
    BY <1>1, MovedIntact
  <2> QED BY <1>1, <1>2, MovedIntact, Zenon
<1>4. HistoryRight /\ PullRight(u)
  BY <1>3 DEF PullInv, HistoryInv
<1>5. CASE u = t
  <2>1. pc'[t] = "done" /\ ~Pulled(t)'
    BY <1>1, <1>3 DEF Pulled, Pulls
  <2> QED BY <1>5, <2>1, NotPulling
<1>6. CASE u # t
  <2>1. First.start.seq <= to
    BY <1>1, <1>2, <1>3, <1>4 DEF HistoryRight, MergeRight
  <2>2. to \in Int
    <3>1. f \in (historyPerBlock + 1) .. (Len(log) - 1)
      BY <1>1, <1>2, <1>3 DEF DocumentRight, CompactionRight
    <3> QED BY <1>1, <1>2, <3>1
  <2>3. First'.start.seq = to
    BY <1>3
  <2>4. op'[u] = op[u] /\ pc'[u] = pc[u] /\ frame'[u] = frame[u] /\ outcome'[u] = outcome[u]
    BY <1>1, <1>6 DEF Rest
  <2>5. (\A x \in Int : x < Len(log) => Known(x)' = Known(x)) /\ Len(log') = Len(log)
    BY <1>3 DEF Known
  <2>6. Len(log') \in Nat /\ Len(log) <= Len(log')
    BY <1>1, <2>5
  <2> QED BY <1>1, <1>3, <1>4, <2>1, <2>2, <2>3, <2>4, <2>5, <2>6, KeptPull
<1> QED BY <1>5, <1>6

LEMMA StepPull ==
  ASSUME PullInv, OneCompaction, [Next]_vars
  PROVE  PullInv'
<1>1. HistoryInv'
  BY StepHistory DEF PullInv
<1>2. ASSUME NEW t \in Task, Step(t) PROVE (Intact => \A u \in Task : PullRight(u))'
  BY <1>2, CreatePull, EditsPull, SeqPull, SnapshotPull, ScanPull, MovePull, PushPull, RemoveLatest
     DEF Step
<1>3. ASSUME UNCHANGED vars PROVE (Intact => \A u \in Task : PullRight(u))'
  <2>1. /\ UNCHANGED <<block, objects, op, pc, frame, outcome, log, removed>>
        /\ (Intact' <=> Intact) /\ \A x : Known(x)' = Known(x)
    BY <1>3 DEF vars, Intact, First, Known
  <2>2. \A u \in Task : PullRight(u)' <=> PullRight(u)
    BY <2>1 DEF PullRight, Pulled, Pulls, Overtaken, Store!Current, Known
  <2> QED BY <2>1, <2>2 DEF PullInv
<1>4. (Intact => \A u \in Task : PullRight(u))'
  BY <1>2, <1>3 DEF Next, Step
<1> QED BY <1>1, <1>4 DEF PullInv

-----------------------------------------------------------------------------
(* Compactions are of different edits: that starts none twice.              *)
LEMMA ApartUnlessPush ==
  ASSUME TypeOK, CompactionsApart, NEW t \in Task, Rest(t), Intact' => Intact,
         Compacting(t)' => Compacting(t) /\ frame'[t].seq = frame[t].seq
  PROVE  CompactionsApart'
<1>1. \A u \in Task : Compacting(u)' => Compacting(u) /\ frame'[u].seq = frame[u].seq
  BY DEF Rest, Compacting
<1> QED BY <1>1 DEF CompactionsApart

LEMMA QuietApart ==
  ASSUME TypeOK, CompactionsApart, NEW t \in Task, Quiet(t),
         \/ EditExists(t) \/ EditGet(t) \/ EditCompute(t) \/ CompactStart(t) \/ CompactMerge(t)
         \/ PullSeq(t) \/ PullSnapshot(t) \/ PullScan(t)
  PROVE  CompactionsApart'
<1>1. /\ Rest(t) /\ (Intact' => Intact) /\ pc \in [Task -> Place]
      /\ frame \in [Task -> Frame] /\ frame[t] \in Frame
  BY QuietIntact, OldTask DEF Quiet
<1>2. CASE \/ EditExists(t) \/ EditGet(t) \/ EditCompute(t)
           \/ PullSeq(t) \/ PullSnapshot(t) \/ PullScan(t)
  <2>1. ~Compacting(t)'
    BY <1>1, <1>2
       DEF EditExists, EditGet, EditCompute, PullSeq, PullSnapshot, PullScan, Goto, Answer, Compacting
  <2> QED BY <1>1, <2>1, ApartUnlessPush
<1>3. CASE CompactStart(t) \/ CompactMerge(t)
  <2>1. PICK k, b, n :
          \/ frame' = frame
          \/ frame' = [frame EXCEPT ![t] = [frame[t] EXCEPT !.ref = block, !.blob = b, !.pos = 0, !.len = n]]
          \/ frame' = [frame EXCEPT ![t] = [frame[t] EXCEPT !.pos = k]]
          \/ frame' = [frame EXCEPT ![t] = [frame[t] EXCEPT !.pos = k, !.blob = b]]
    <3>1. CASE CompactStart(t)
      BY <3>1 DEF CompactStart, Remember
    <3>2. CASE CompactMerge(t)
      <4> DEFINE k == NextBatch(t)
                 history == objects[frame[t].ref].history
      <4>1. \/ frame' = frame
            \/ frame' = [frame EXCEPT ![t] = [frame[t] EXCEPT !.pos = k]]
            \/ frame' = [frame EXCEPT ![t] = [frame[t] EXCEPT !.pos = k + 1,
                            !.blob = @ \cup history[k + 1].patches]]
        BY <3>2 DEF CompactMerge, Remember
      <4> HIDE DEF k, history
      <4> QED BY <4>1
    <3> QED BY <1>3, <3>1, <3>2
  <2>2. frame'[t].seq = frame[t].seq
    BY <1>1, <2>1 DEF Frame
  <2>3. Compacting(t)
    BY <1>3 DEF CompactStart, CompactMerge, Compacting
  <2> QED BY <1>1, <2>2, <2>3, ApartUnlessPush
<1> QED BY <1>2, <1>3

LEMMA StepApart ==
  ASSUME LatestInv, CompactionsApart, [Next]_vars
  PROVE  CompactionsApart'
<1>1. TypeOK /\ OneBlock /\ pc \in [Task -> Place]
  BY DEF LatestInv, BlocksInv, Basic, TypeOK
<1>2. ASSUME NEW t \in Task, Step(t) PROVE CompactionsApart'
  <2>1. Rest(t)
    BY <1>1, <1>2, StepRest
  <2>2. CASE \/ EditExists(t) \/ EditGet(t) \/ EditCompute(t) \/ CompactStart(t) \/ CompactMerge(t)
             \/ PullSeq(t) \/ PullSnapshot(t) \/ PullScan(t)
    BY <1>1, <2>2, StepQuiet, QuietApart
  <2>3. CASE Create(t)
    <3>1. ~Compacting(t)'
      BY <1>1, <2>3 DEF Create, Answer, Compacting
    <3>2. CASE Store!Has
      <4>1. Intact' => Intact
        BY <2>3, <3>2 DEF Create, storeVars, Intact, First
      <4> QED BY <1>1, <2>1, <3>1, <4>1, ApartUnlessPush
    <3>3. CASE ~Store!Has
      <4>1. SUFFICES ASSUME ~removed PROVE CompactionsApart'
        BY <2>3 DEF Create, CompactionsApart, Intact
      <4>2. \A u \in Task : ~Compacting(u)
        BY <1>1, <3>3, <4>1, NoBlockYet DEF OneBlock, Found, Holding, Compacting
      <4>3. \A u \in Task : ~Compacting(u)'
        BY <2>1, <3>1, <4>2 DEF Rest, Compacting
      <4> QED BY <4>3 DEF CompactionsApart
    <3> QED BY <3>2, <3>3
  <2>4. CASE CompactMove(t)
    <3>1. ~Compacting(t)'
      BY <1>1, <2>4 DEF CompactMove, Goto, Compacting
    <3>2. Intact' => Intact
      BY <2>4, MovedIntact
    <3> QED BY <1>1, <2>1, <3>1, <3>2, ApartUnlessPush
  <2>5. CASE EditPush(t)
    <3>1. CASE ~Store!Has \/ ~Store!NextSeq(frame[t].seq)
      <4>1. Quiet(t) /\ ~Compacting(t)'
        BY <1>1, <2>5, <3>1, PushQuiet DEF Compacting
      <4> QED BY <1>1, <2>1, <4>1, QuietIntact, ApartUnlessPush
    <3>2. CASE Store!Has /\ Store!NextSeq(frame[t].seq)
      <4> SUFFICES ASSUME Intact', NEW u \in Task, NEW v \in Task, Compacting(u)', Compacting(v)',
                          frame'[u].seq = frame'[v].seq
                   PROVE  u = v
        BY DEF CompactionsApart
      <4>1. Intact /\ DocumentRight /\ frame[t].seq = Len(log) /\ frame' = frame
        <5>1. Intact
          BY <2>5, <3>2, PushedIntact
        <5> QED BY <2>5, <3>2, <5>1, PushedIntact, Zenon
      <4>2. ASSUME NEW w \in Task \ {t}, Compacting(w)'
            PROVE  Compacting(w) /\ frame[w].seq # Len(log)
        <5>1. Compacting(w)
          BY <2>1, <4>2 DEF Rest, Compacting
        <5>2. frame[w].seq \in (historyPerBlock + 1) .. (Len(log) - 1)
          BY <4>1, <5>1 DEF DocumentRight, CompactionRight
        <5>3. Len(log) \in Nat
          BY <1>1, OldTask
        <5> QED BY <5>1, <5>2, <5>3
      <4> QED BY <4>1, <4>2 DEF CompactionsApart
    <3> QED BY <3>1, <3>2
  <2>6. CASE Remove(t)
    BY <2>6, RemoveLatest DEF CompactionsApart
  <2> QED BY <1>2, <2>2, <2>3, <2>4, <2>5, <2>6 DEF Step
<1>3. CASE UNCHANGED vars
  BY <1>3 DEF vars, CompactionsApart, Intact, First, Compacting
<1> QED BY <1>2, <1>3 DEF Next, Step

-----------------------------------------------------------------------------
(* The theorems.                                                            *)
LEMMA UndisturbedIntact ==
  ASSUME LatestInv, Undisturbed
  PROVE  /\ Intact /\ DocumentRight /\ Store!Current = First
         /\ First.history \in Seq(Store!Batch) /\ Len(log) \in Nat
<1>1. TypeOK /\ OneBlock /\ ~removed /\ block = 1
  BY DEF LatestInv, BlocksInv, Basic, OneBlock, Undisturbed, Store!Has
<1>2. Store!Current = First
  BY <1>1 DEF Store!Current, First
<1>3. Intact
  BY <1>1, <1>2 DEF Undisturbed, Intact
<1> QED BY <1>1, <1>2, <1>3, HistoryLength DEF LatestInv

(* Types, for any requests in any order.                                    *)
THEOREM BlocksTyped == Spec => []TypeOK
<1>1. Init => LatestInv
  BY InitLatest
<1>2. LatestInv /\ [Next]_vars => LatestInv'
  BY StepLatest
<1>3. LatestInv => TypeOK
  BY DEF LatestInv, BlocksInv, Basic
<1> QED BY <1>1, <1>2, <1>3, PTL DEF Spec

(* No accepted edit is lost or overwritten, however requests and            *)
(* compactions interleave: the check of push() is enough, although an edit  *)
(* computes its snapshot before an await, from the store's own object.      *)
THEOREM EditsAreNotLost == Spec => []LatestIsWholeLog
<1>1. Init => LatestInv
  BY InitLatest
<1>2. LatestInv /\ [Next]_vars => LatestInv'
  BY StepLatest
<1>3. LatestInv => LatestIsWholeLog
  BY UndisturbedIntact DEF LatestIsWholeLog, DocumentRight, LatestRight
<1> QED BY <1>1, <1>2, <1>3, PTL DEF Spec

LEMMA InitPull == Init => PullInv /\ CompactionsApart
<1>1. Init => ~Intact
  BY DEF Init, Store!StoreInit, Intact
<1> QED BY <1>1, InitLatest DEF PullInv, HistoryInv, CompactionsApart

LEMMA HistoryAsPromised ==
  ASSUME HistoryInv
  PROVE  HistoryReplays
<1> SUFFICES ASSUME Undisturbed, NEW seq \in Store!Current.start.seq .. (Len(log) - 1)
             PROVE  Store!SnapshotAt(seq) = Known(seq)
  BY DEF HistoryReplays
<1>1. /\ Intact /\ DocumentRight /\ HistoryRight /\ Store!Current = First
      /\ First.history \in Seq(Store!Batch) /\ Len(log) \in Nat
  BY UndisturbedIntact DEF HistoryInv
<1>2. PICK s, h : s = First.start.seq /\ h = First.history
  OBVIOUS
<1>3. Store!SnapshotAt(seq) = First.start.blob \cup Store!PatchesOf(Store!Between(h, s + 1, seq))
  BY <1>1, <1>2 DEF Store!SnapshotAt
<1>4. CASE First.shared
  <2>1. s = Len(log) - 1 /\ First.start.blob = Known(Len(log) - 1)
    BY <1>1, <1>2, <1>4 DEF DocumentRight, LatestRight
  <2>2. seq = s
    BY <1>1, <1>2, <2>1
  <2>3. Store!PatchesOf(Store!Between(h, s + 1, seq)) = {}
    <3>1. ASSUME NEW k \in DOMAIN h
          PROVE  ~(s + 1 <= h[k].seq /\ h[k].seq <= seq)
      <4>1. h \in Seq(Store!Batch)
        BY <1>1, <1>2
      <4>2. h[k] \in Store!Batch
        BY <4>1
      <4>3. h[k].seq \in Nat
        BY <4>2 DEF Store!Batch
      <4> QED BY <1>1, <2>1, <2>2, <4>3
    <3> QED BY <3>1 DEF Store!PatchesOf, Store!Between, Store!InHistory
  <2> QED BY <1>3, <2>1, <2>2, <2>3
<1>5. CASE ~First.shared
  <2>1. Numbered(h, s) /\ First.start.blob = Known(s) /\ s \in Int /\ s >= -1
    BY <1>1, <1>2, <1>5 DEF HistoryRight, Numbered
  <2>2. PICK q \in Int : q = seq /\ s <= q /\ q < Len(log)
    BY <1>1, <1>2, <2>1
  <2>3. Store!PatchesOf(Store!Between(h, s + 1, q)) = {log[k] : k \in (s + 1 + 1) .. (q + 1)}
    <3>1. PICK a \in Int : a = s + 1 /\ s < a
      BY <2>1
    <3>2. h \in Seq(Store!Batch)
      BY <1>1, <1>2
    <3>3. Store!PatchesOf(Store!Between(h, a, q)) = {log[k] : k \in (a + 1) .. (q + 1)}
      BY <1>1, <2>1, <2>2, <3>1, <3>2, Replayed
    <3> QED BY <3>1, <3>3
  <2>4. Known(q) = Known(s) \cup {log[k] : k \in (s + 1 + 1) .. (q + 1)}
    <3>1. 1 .. (q + 1) = (1 .. (s + 1)) \cup ((s + 1 + 1) .. (q + 1))
      BY <2>1, <2>2
    <3> QED BY <3>1 DEF Known
  <2> QED BY <1>3, <2>1, <2>2, <2>3, <2>4
<1> QED BY <1>4, <1>5

(* The contract of getSnapshot(): the start snapshot and the history give   *)
(* back every later state, if no edit starts a compaction before the one    *)
(* before has ended.                                                        *)
THEOREM HistoryIsReplayed == Spec /\ []OneCompaction => []HistoryReplays
<1>1. Init => HistoryInv
  BY InitPull DEF PullInv
<1>2. HistoryInv /\ OneCompaction /\ [Next]_vars => HistoryInv'
  BY StepHistory
<1>3. HistoryInv => HistoryReplays
  BY HistoryAsPromised
<1> QED BY <1>1, <1>2, <1>3, PTL DEF Spec

(* Under the same condition a pull brings the client up to the sequence     *)
(* number it is told, whatever happens between the server's awaits, unless  *)
(* a compaction has gone past what the client knew.                         *)
THEOREM PullsCatchUpWith == Spec /\ []OneCompaction => []PullCatchesUp
<1>1. Init => PullInv
  BY InitPull
<1>2. PullInv /\ OneCompaction /\ [Next]_vars => PullInv'
  BY StepPull
<1>3. PullInv => PullCatchesUp
  <2> SUFFICES ASSUME PullInv, Undisturbed, NEW t \in Task, Pulled(t)
               PROVE  Known(frame[t].seq) \subseteq Known(frame[t].last) \cup frame[t].blob
                        \/ Overtaken(t)
    BY DEF PullCatchesUp, Pulled, Pulls
  <2>1. PullRight(t)
    BY UndisturbedIntact DEF PullInv, HistoryInv
  <2> QED BY <2>1 DEF PullRight
<1> QED BY <1>1, <1>2, <1>3, PTL DEF Spec

(* The condition holds where the policy compacts at one sequence number: no *)
(* two edits of the log have the same one.                                  *)
THEOREM OnePolicyOneCompaction ==
  (\A a, b \in CompactAt : a = b) /\ Spec => []OneCompaction
<1>1. Init => LatestInv /\ CompactionsApart
  BY InitLatest, InitPull
<1>2. LatestInv /\ CompactionsApart /\ [Next]_vars => (LatestInv /\ CompactionsApart)'
  BY StepLatest, StepApart
<1>3. ASSUME \A a, b \in CompactAt : a = b
      PROVE  LatestInv /\ CompactionsApart => OneCompaction
  <2> SUFFICES ASSUME LatestInv, CompactionsApart, Undisturbed, NEW t \in Task, NEW u \in Task,
                      Compacting(t), Compacting(u)
               PROVE  t = u
    BY DEF OneCompaction
  <2>1. Intact /\ DocumentRight
    BY UndisturbedIntact
  <2>2. frame[t].seq \in CompactAt /\ frame[u].seq \in CompactAt
    BY <2>1 DEF DocumentRight, CompactionRight
  <2> QED BY <1>3, <2>1, <2>2 DEF CompactionsApart
<1>4. SUFFICES ASSUME \A a, b \in CompactAt : a = b PROVE Spec => []OneCompaction
  OBVIOUS
<1> QED BY <1>1, <1>2, <1>3, <1>4, PTL DEF Spec
=============================================================================
