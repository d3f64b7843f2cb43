--------------------------- MODULE StaticRpcProof ---------------------------
(***************************************************************************)
(* Theorems about StaticRpcClient and the queue it sends through. The      *)
(* first part is about the queue alone: it loses, repeats and reorders     *)
(* nothing, strands nothing and bounds its batches, for every itemLimit    *)
(* and any number of pushes. The second part is about the client, its HTTP *)
(* requests and the server: an answer reaches the call it is for, what a   *)
(* batch that fails to encode leaves in the server's writer spoils at most *)
(* one reply, a call fails only with the request that carried it, and no   *)
(* entry outlives its request.                                             *)
(***************************************************************************)
EXTENDS StaticRpc, SequenceTheorems, TLAPS

(* The three properties and the types are inductive together: the batches   *)
(* are bounded because the list is, the history grows by the whole list.    *)
QueueInv == TypeOK /\ NothingLost /\ NoStrandedItem /\ BatchesBounded

LEMMA EmptyList ==
  /\ <<>> \in Seq(Nat) /\ <<>> \in Seq(Batch) /\ Len(<<>>) = 0
  /\ \A s \in Seq(Nat) : s = <<>> <=> Len(s) = 0
BY EmptySeq

(* flush() of the list items: what it hands over, and what the history of   *)
(* it shows.                                                                *)
LEMMA FlushHandsOver ==
  ASSUME NEW items \in Seq(Nat), TypeOK, BatchesBounded,
         Len(items) <= itemLimit,
         FlushList(items), RecordFlush
  PROVE  /\ list' = <<>> /\ timer' = FALSE
         /\ out' \in Seq(Batch)
         /\ \A i \in 1 .. Len(out') : Len(out'[i]) \in 1 .. itemLimit
         /\ flushed' = flushed \o items
<1>1. CASE items = <<>>
  <2>1. out' = out /\ flushed' = flushed
    BY <1>1 DEF FlushList, RecordFlush
  <2>2. flushed \o items = flushed
    BY <1>1, ConcatEmptySeq DEF TypeOK
  <2> QED BY <2>1, <2>2 DEF FlushList, TypeOK, BatchesBounded
<1>2. CASE items # <<>>
  <2>1. out' = Append(out, items)
    BY <1>2 DEF FlushList
  <2>2. /\ Len(out') = Len(out) + 1
        /\ out'[Len(out')] = items
        /\ \A i \in 1 .. Len(out) : out'[i] = out[i]
        /\ out' \in Seq(Batch)
    <3>1. items \in Batch
      BY <1>2 DEF Batch
    <3> QED BY <2>1, <3>1 DEF TypeOK
  <2>3. out' # out
    BY <2>2 DEF TypeOK
  <2>4. Len(items) \in 1 .. itemLimit
    BY <1>2
  <2>5. ASSUME NEW i \in 1 .. Len(out')
        PROVE  Len(out'[i]) \in 1 .. itemLimit
    <3>1. CASE i = Len(out')
      BY <2>2, <2>4, <3>1
    <3>2. CASE i \in 1 .. Len(out)
      BY <2>2, <3>2 DEF BatchesBounded
    <3>3. i = Len(out') \/ i \in 1 .. Len(out)
      BY <2>2 DEF TypeOK
    <3> QED BY <3>1, <3>2, <3>3
  <2> QED BY <2>2, <2>3, <2>5 DEF FlushList, RecordFlush
<1> QED BY <1>1, <1>2

(* Handing over the whole list keeps everything in order.                   *)
LEMMA FlushKeepsOrder ==
  ASSUME NEW items \in Seq(Nat), NEW n \in Nat, TypeOK,
         Len(flushed) + Len(items) = n,
         \A i \in 1 .. Len(flushed) : flushed[i] = i,
         \A i \in 1 .. Len(items) : items[i] = Len(flushed) + i,
         flushed' = flushed \o items, list' = <<>>, pushed' = n
  PROVE  NothingLost' /\ flushed' \in Seq(Nat)
<1>1. /\ flushed' \in Seq(Nat)
      /\ Len(flushed') = Len(flushed) + Len(items)
      /\ \A i \in 1 .. Len(flushed') :
           flushed'[i] = IF i <= Len(flushed) THEN flushed[i] ELSE items[i - Len(flushed)]
  BY ConcatProperties DEF TypeOK
<1>2. ASSUME NEW i \in 1 .. Len(flushed')
      PROVE  flushed'[i] = i
  <2>1. CASE i <= Len(flushed)
    BY <1>1, <2>1 DEF TypeOK
  <2>2. CASE i > Len(flushed)
    <3>1. i - Len(flushed) \in 1 .. Len(items)
      BY <1>1, <2>2 DEF TypeOK
    <3> QED BY <1>1, <2>2, <3>1 DEF TypeOK
  <2> QED BY <2>1, <2>2 DEF TypeOK
<1> QED BY <1>1, <1>2 DEF NothingLost

(* A push of the next number.                                               *)
LEMMA PushPreserves ==
  ASSUME QueueInv, ProducerPushes
  PROVE  QueueInv'
<1> USE ItemLimitAssumption, MaxPushesAssumption
<1> DEFINE items == Append(list, pushed + 1)
<1>1. /\ pushed' = pushed + 1 /\ pushed' \in 0 .. MaxPushes
      /\ items \in Seq(Nat) /\ Len(items) = Len(list) + 1
      /\ \A i \in 1 .. Len(list) : items[i] = list[i]
      /\ items[Len(items)] = pushed + 1
  BY DEF QueueInv, TypeOK, ProducerPushes
<1>2. Len(items) <= itemLimit
  BY <1>1 DEF QueueInv, NoStrandedItem, TypeOK
<1>3. /\ Len(flushed) + Len(items) = pushed + 1
      /\ \A i \in 1 .. Len(flushed) : flushed[i] = i
      /\ \A i \in 1 .. Len(items) : items[i] = Len(flushed) + i
  BY <1>1 DEF QueueInv, NothingLost, TypeOK
<1>4. CASE Len(items) >= itemLimit /\ FlushList(items)
  <2>1. /\ list' = <<>> /\ timer' = FALSE /\ out' \in Seq(Batch)
        /\ \A i \in 1 .. Len(out') : Len(out'[i]) \in 1 .. itemLimit
        /\ flushed' = flushed \o items
    <3> HIDE DEF items
    <3> QED BY <1>1, <1>2, <1>4, FlushHandsOver DEF QueueInv, ProducerPushes
  <2>2. NothingLost' /\ flushed' \in Seq(Nat)
    <3>1. pushed + 1 \in Nat
      BY DEF QueueInv, TypeOK
    <3> HIDE DEF items
    <3> QED BY <1>1, <1>3, <2>1, <3>1, FlushKeepsOrder DEF QueueInv
  <2>3. TypeOK'
    <3>1. list' \in Seq(Nat) /\ timer' \in BOOLEAN
      BY <2>1, EmptyList
    <3> QED BY <1>1, <2>1, <2>2, <3>1 DEF TypeOK
  <2>4. NoStrandedItem' /\ BatchesBounded'
    BY <2>1 DEF NoStrandedItem, BatchesBounded
  <2> QED BY <2>2, <2>3, <2>4 DEF QueueInv
<1>5. CASE /\ Len(items) < itemLimit
           /\ list' = items /\ timer' = TRUE /\ out' = out
  <2>1. flushed' = flushed
    BY <1>5 DEF ProducerPushes, RecordFlush
  <2>2. TypeOK'
    BY <1>1, <1>5, <2>1 DEF QueueInv, TypeOK
  <2>3. NothingLost'
    BY <1>1, <1>3, <1>5, <2>1 DEF NothingLost
  <2>4. NoStrandedItem'
    <3>1. items # <<>>
      <4>1. items \in Seq(Nat) /\ Len(items) # 0
        BY <1>1 DEF QueueInv, TypeOK
      <4> HIDE DEF items
      <4> QED BY <4>1, EmptyList
    <3>2. list' # <<>> /\ timer'
      BY <1>5, <3>1
    <3>3. Len(list') < itemLimit
      BY <1>5
    <3> QED BY <3>2, <3>3 DEF NoStrandedItem
  <2>5. BatchesBounded'
    BY <1>5 DEF QueueInv, BatchesBounded
  <2> QED BY <2>2, <2>3, <2>4, <2>5 DEF QueueInv
<1> QED
  <2>1. \/ Len(items) >= itemLimit /\ FlushList(items)
        \/ Len(items) < itemLimit /\ list' = items /\ timer' = TRUE /\ out' = out
    BY <1>1 DEF ProducerPushes, Push
  <2> QED BY <1>4, <1>5, <2>1

(* A flush by the timer or by hand.                                         *)
LEMMA FlushPreserves ==
  ASSUME QueueInv, FlushList(list), RecordFlush, UNCHANGED pushed
  PROVE  QueueInv'
<1> USE ItemLimitAssumption, MaxPushesAssumption
<1>1. list \in Seq(Nat) /\ Len(list) <= itemLimit /\ pushed \in Nat
  BY DEF QueueInv, TypeOK, NoStrandedItem
<1>2. /\ list' = <<>> /\ timer' = FALSE /\ out' \in Seq(Batch)
      /\ \A i \in 1 .. Len(out') : Len(out'[i]) \in 1 .. itemLimit
      /\ flushed' = flushed \o list
  BY <1>1, FlushHandsOver DEF QueueInv
<1>3. NothingLost' /\ flushed' \in Seq(Nat)
  BY <1>1, <1>2, FlushKeepsOrder DEF QueueInv, NothingLost
<1>4. TypeOK'
  <2>1. list' \in Seq(Nat) /\ timer' \in BOOLEAN
    BY <1>2, EmptyList
  <2> QED BY <1>2, <1>3, <2>1 DEF QueueInv, TypeOK
<1>5. NoStrandedItem' /\ BatchesBounded'
  BY <1>2 DEF NoStrandedItem, BatchesBounded
<1> QED BY <1>3, <1>4, <1>5 DEF QueueInv

LEMMA TakePreserves ==
  ASSUME QueueInv, TransportTakes
  PROVE  QueueInv'
<1>1. /\ Tail(out) \in Seq(Batch) /\ Len(Tail(out)) = Len(out) - 1
      /\ \A i \in 1 .. Len(Tail(out)) : Tail(out)[i] = out[i + 1]
  BY HeadTailProperties DEF QueueInv, TypeOK, TransportTakes
<1>2. \A i \in 1 .. Len(Tail(out)) : i + 1 \in 1 .. Len(out)
  BY <1>1 DEF QueueInv, TypeOK
<1>3. BatchesBounded'
  BY <1>1, <1>2 DEF QueueInv, BatchesBounded, TransportTakes
<1>4. TypeOK'
  BY <1>1 DEF QueueInv, TypeOK, TransportTakes
<1>5. NothingLost' /\ NoStrandedItem'
  BY DEF QueueInv, NothingLost, NoStrandedItem, TransportTakes
<1> QED BY <1>3, <1>4, <1>5 DEF QueueInv

LEMMA QueueInductive == Spec => []QueueInv
<1> USE ItemLimitAssumption, MaxPushesAssumption
<1>1. Init => QueueInv
  <2> SUFFICES ASSUME Init PROVE QueueInv
    OBVIOUS
  <2>1. TypeOK
    <3>1. list \in Seq(Nat) /\ out \in Seq(Batch) /\ flushed \in Seq(Nat)
      BY EmptyList DEF Init, QueueInit
    <3>2. timer \in BOOLEAN
      BY DEF Init, QueueInit
    <3>3. pushed \in 0 .. MaxPushes
      BY DEF Init
    <3> QED BY <3>1, <3>2, <3>3 DEF TypeOK
  <2>2. NothingLost
    BY EmptyList DEF Init, QueueInit, NothingLost
  <2>3. NoStrandedItem
    BY EmptyList DEF Init, QueueInit, NoStrandedItem
  <2>4. BatchesBounded
    BY EmptyList DEF Init, QueueInit, BatchesBounded
  <2> QED BY <2>1, <2>2, <2>3, <2>4 DEF QueueInv
<1>2. QueueInv /\ [Next]_vars => QueueInv'
  <2> SUFFICES ASSUME QueueInv, [Next]_vars
               PROVE  QueueInv'
    OBVIOUS
  <2>1. CASE ProducerPushes
    BY <2>1, PushPreserves
  <2>2. CASE OwnerFlushes
    BY <2>2, FlushPreserves DEF OwnerFlushes
  <2>3. CASE TimeoutFlushes
    BY <2>3, FlushPreserves DEF TimeoutFlushes, TimerFires
  <2>4. CASE TransportTakes
    BY <2>4, TakePreserves
  <2>5. CASE UNCHANGED vars
    BY <2>5 DEF vars, QueueInv, TypeOK, NothingLost, NoStrandedItem, BatchesBounded
  <2> QED BY <2>1, <2>2, <2>3, <2>4, <2>5 DEF Next
<1> QED BY <1>1, <1>2, PTL DEF Spec

(* The queue's variables keep their types.                                  *)
THEOREM QueueTypes == Spec => []TypeOK
<1>1. QueueInv => TypeOK BY DEF QueueInv
<1> QED BY <1>1, QueueInductive, PTL

(* What was handed to onFlush and what is still queued are exactly the      *)
(* items pushed, in order: push(), the timer and flush() lose nothing.      *)
THEOREM QueueLosesNothing == Spec => []NothingLost
<1>1. QueueInv => NothingLost BY DEF QueueInv
<1> QED BY <1>1, QueueInductive, PTL

(* Items wait only under an armed timer and below the limit.                *)
THEOREM QueueStrandsNothing == Spec => []NoStrandedItem
<1>1. QueueInv => NoStrandedItem BY DEF QueueInv
<1> QED BY <1>1, QueueInductive, PTL

(* onFlush gets batches of 1 to itemLimit items.                            *)
THEOREM QueueBatchesBounded == Spec => []BatchesBounded
<1>1. QueueInv => BatchesBounded BY DEF QueueInv
<1> QED BY <1>1, QueueInductive, PTL

-----------------------------------------------------------------------------
(* The client and its server.                                               *)

(* What the client does with its queue is what the queue allows: the        *)
(* theorems above hold of the client's queue too.                           *)
THEOREM ClientUsesQueue == StaticSpec => Spec
<1>1. StaticInit => Init
  BY DEF StaticInit
<1>2. [StaticNext]_staticVars => [Next]_vars
  BY DEF StaticNext, staticVars, vars, Next, UserPushes, UserFlushes, BufferTimer, Fetch,
         Http1Refuses, RpcAppRefuses, Process, Http1Replies, RpcAppReplies, RpcAppFails,
         OtherUse, Arrives, Breaks
<1> QED BY <1>1, <1>2, PTL DEF StaticSpec, Spec

(* So it loses and strands nothing either.                                  *)
THEOREM ClientLosesNothing == StaticSpec => [](NothingLost /\ NoStrandedItem)
BY ClientUsesQueue, QueueLosesNothing, QueueStrandsNothing, PTL

Outcomes == [what : {"none", "pending", "answered", "misled", "failed"}, by : Nat]
Phases == {"requested", "processing", "failing", "replied", "done"}
Bodies == {"none", "garbled", "error", "minusOne", "misread", "responses", "failed"}
Exchange == [items : Seq(Nat), phase : Phases, body : Bodies, after : Nat]

StaticTyped ==
  /\ codec \in Clients
  /\ kind \in [Items -> Kinds \cup {"none"}]
  /\ id \in [Items -> 0 .. IdLimit]
  /\ nextId \in 0 .. IdLimit - 1
  /\ calls \in [0 .. IdLimit - 1 -> 0 .. pushed]
  /\ outcome \in [Items -> Outcomes]
  /\ exchanges \in Seq(Exchange)
  /\ reused \subseteq 0 .. IdLimit - 1
  /\ writer \in [of : Nat, readable : BOOLEAN]

(* An item is in one batch only, whether that waits for onsend or was sent. *)
Carried(e) == ToSet(exchanges[e].items)

BatchesApart ==
  /\ \A b \in 1 .. Len(out) : ToSet(out[b]) \subseteq 1 .. Len(flushed)
  /\ \A e \in 1 .. Len(exchanges) : Carried(e) \subseteq 1 .. Len(flushed)
  /\ \A b, c \in 1 .. Len(out) : b # c => ToSet(out[b]) \cap ToSet(out[c]) = {}
  /\ \A e, f \in 1 .. Len(exchanges) : e # f => Carried(e) \cap Carried(f) = {}
  /\ \A e \in 1 .. Len(exchanges), b \in 1 .. Len(out) : Carried(e) \cap ToSet(out[b]) = {}

(* An entry of calls is of a call that was made, under the id it was given. *)
EntriesRight ==
  /\ \A n \in Items : n > pushed => kind[n] = "none" /\ outcome[n].what = "none"
  /\ \A n \in Items : IsCall(n) => id[n] \in 0 .. IdLimit - 1
  /\ \A i \in 0 .. IdLimit - 1 : calls[i] # 0 => IsCall(calls[i]) /\ id[calls[i]] = i

(* Two calls in flight have different ids, unless one was given again.      *)
IdsApart ==
  \A n, m \in Items :
    (n # m /\ IsCall(n) /\ IsCall(m) /\ ~Over(n) /\ ~Over(m) /\ id[n] = id[m])
      => id[n] \in reused

(* What failed a call is a request that is over; what misled one was the    *)
(* reply to a request that is over, behind a batch with a call of its id.   *)
FailuresOver ==
  \A n \in Items : outcome[n].what \in {"failed", "misled"} =>
    /\ outcome[n].by \in 1 .. Len(exchanges)
    /\ exchanges[outcome[n].by].phase = "done"

MisledById ==
  \A n \in Items : outcome[n].what = "misled" =>
    LET g == exchanges[outcome[n].by].after
    IN  g \in 1 .. Len(exchanges) /\ \E k \in CallsOf(g) : id[k] = id[n]

(* A batch that left octets in the writer failed to encode: it is past its  *)
(* answer, which went past the writer.                                      *)
Spoilt == {"none", "error", "garbled", "failed"}

LeftOctets(g) ==
  /\ g \in 1 .. Len(exchanges)
  /\ exchanges[g].phase \notin {"requested", "processing"}
  /\ exchanges[g].after = 0 /\ exchanges[g].body \in Spoilt

(* Octets in the writer have spoilt no reply yet, no two replies are behind *)
(* those of the same batch, and what was not answered is behind none.       *)
WriterInv ==
  /\ writer.of # 0 => LeftOctets(writer.of)
  /\ \A e \in 1 .. Len(exchanges) : LET g == exchanges[e].after IN
       /\ g # 0 => LeftOctets(g) /\ g # writer.of
       /\ \A f \in 1 .. Len(exchanges) : (g # 0 /\ exchanges[f].after = g) => f = e
       /\ exchanges[e].body = "misread" => g # 0
       /\ exchanges[e].phase \in {"requested", "processing", "failing"}
            => g = 0 /\ exchanges[e].body = "none"

(* The call that a request's failure fails was its own.                     *)
FailsOwn ==
  \A n \in Items :
    (outcome[n].what = "failed" /\ id[n] \notin reused)
      => n \in CallsOf(outcome[n].by) /\ exchanges[outcome[n].by].body # "responses"

AnswersOwn ==
  \A n \in Items : (outcome[n].what = "answered" /\ id[n] \notin reused) => outcome[n].by = n

EntriesInv == EntriesRight /\ IdsApart /\ NothingKept
AnswersInv == AnswersOwn /\ FailuresOver /\ MisledById /\ FailsOwn
StaticInv == StaticTyped /\ BatchesApart /\ EntriesInv /\ AnswersInv /\ WriterInv

LEMMA ItemSets ==
  ASSUME NEW s \in Seq(Nat)
  PROVE  /\ ToSet(s) \subseteq Nat
         /\ \A x : x \in ToSet(s) <=> \E i \in 1 .. Len(s) : s[i] = x
BY DEF ToSet

(* The two ends understand each other.                                      *)
LEMMA CodecsAgree ==
  ASSUME codec \in Clients
  PROVE  ServerCodecs = codec
<1>1. /\ codec = [msg |-> codec.msg, req |-> codec.req, res |-> codec.res]
      /\ codec.msg \in {"compact", "jsonRpc2"}
      /\ codec.req \in ValueCodecs /\ codec.res \in ValueCodecs
  BY ClientsAssumption
<1>2. ServerCodecs.msg = codec.msg
  BY <1>1 DEF ServerCodecs, SetCodecs, ContentType
<1>3. ServerCodecs.req = codec.req
  BY <1>1 DEF ServerCodecs, SetCodecs, ContentType
<1>4. ServerCodecs.res = codec.res
  BY <1>1 DEF ServerCodecs, SetCodecs, ContentType, ValueCodecs
<1>5. ServerCodecs = [msg |-> ServerCodecs.msg, req |-> ServerCodecs.req, res |-> ServerCodecs.res]
  BY DEF ServerCodecs, SetCodecs
<1> QED BY <1>1, <1>2, <1>3, <1>4, <1>5

(* The domain of the exchanges, and what is in range of the other tables.   *)
LEMMA Ranges ==
  ASSUME QueueInv, StaticInv
  PROVE  /\ Len(exchanges) \in Nat /\ DOMAIN exchanges = 1 .. Len(exchanges)
         /\ DOMAIN calls = 0 .. IdLimit - 1
         /\ Len(flushed) \in Nat /\ pushed \in Nat /\ pushed <= MaxPushes
         /\ Len(flushed) <= pushed
         /\ \A e \in 1 .. Len(exchanges) : exchanges[e] \in Exchange
         /\ \A e \in 1 .. Len(exchanges) : Carried(e) \subseteq 1 .. pushed
         /\ 1 .. pushed \subseteq Items
         /\ \A n : Over(n) <=>
              \E e \in 1 .. Len(exchanges) : exchanges[e].phase = "done" /\ n \in Carried(e)
<1>1. /\ Len(exchanges) \in Nat /\ DOMAIN exchanges = 1 .. Len(exchanges)
      /\ DOMAIN calls = 0 .. IdLimit - 1
      /\ \A e \in 1 .. Len(exchanges) : exchanges[e] \in Exchange
  BY DEF StaticInv, StaticTyped
<1>2. Len(flushed) \in Nat /\ pushed \in Nat /\ pushed <= MaxPushes /\ Len(flushed) <= pushed
  BY MaxPushesAssumption DEF QueueInv, TypeOK, NothingLost
<1>3. \A e \in 1 .. Len(exchanges) : Carried(e) \subseteq 1 .. Len(flushed)
  BY DEF StaticInv, BatchesApart
<1>4. 1 .. Len(flushed) \subseteq 1 .. pushed /\ 1 .. pushed \subseteq Items
  BY <1>2, MaxPushesAssumption DEF Items
<1>5. \A n : Over(n) <=>
        \E e \in 1 .. Len(exchanges) : exchanges[e].phase = "done" /\ n \in Carried(e)
  BY <1>1 DEF Over, Carried
<1> QED BY <1>1, <1>2, <1>3, <1>4, <1>5

LEMMA StaticStart == StaticInit => StaticInv
<1> SUFFICES ASSUME StaticInit PROVE StaticInv
  OBVIOUS
<1> USE IdLimitAssumption, MaxPushesAssumption
<1>1. out = <<>> /\ Len(out) = 0 /\ exchanges = <<>> /\ Len(exchanges) = 0 /\ pushed = 0
  BY EmptySeq DEF StaticInit, Init, QueueInit
<1>2. StaticTyped
  <2>1. exchanges \in Seq(Exchange)
    BY <1>1, EmptySeq
  <2>2. [what |-> "none", by |-> 0] \in Outcomes
    BY DEF Outcomes
  <2>3. outcome \in [Items -> Outcomes]
    BY <2>2 DEF StaticInit
  <2>4. kind \in [Items -> Kinds \cup {"none"}] /\ id \in [Items -> 0 .. IdLimit]
    BY DEF StaticInit
  <2>5. nextId \in 0 .. IdLimit - 1 /\ calls \in [0 .. IdLimit - 1 -> 0 .. pushed]
    BY <1>1 DEF StaticInit
  <2>6. writer \in [of : Nat, readable : BOOLEAN]
    BY DEF StaticInit, NothingLeft
  <2> QED BY <2>1, <2>3, <2>4, <2>5, <2>6 DEF StaticTyped, StaticInit
<1>3. BatchesApart
  BY <1>1 DEF BatchesApart
<1>4. EntriesInv
  <2>1. NothingKept
    <3>1. DOMAIN exchanges = {}
      BY <1>1
    <3> QED BY <3>1 DEF NothingKept
  <2> QED BY <2>1 DEF EntriesInv, EntriesRight, IdsApart, StaticInit, IsCall
<1>5. AnswersInv
  BY DEF AnswersInv, AnswersOwn, FailuresOver, MisledById, FailsOwn, StaticInit
<1>6. WriterInv
  BY <1>1 DEF WriterInv, StaticInit, NothingLeft
<1> QED BY <1>2, <1>3, <1>4, <1>5, <1>6 DEF StaticInv

(* A step of the queue alone: it hands over nothing, or a batch of items    *)
(* that no other batch has.                                                 *)
Handed ==
  /\ Len(flushed') \in Nat /\ Len(flushed) <= Len(flushed')
  /\ \/ out' = out
     \/ \E s \in Seq(Nat) :
          /\ out' = Append(out, s)
          /\ ToSet(s) \subseteq (Len(flushed) + 1) .. Len(flushed')

LEMMA FlushHands ==
  ASSUME QueueInv, QueueInv', NEW items \in Seq(Nat),
         FlushList(items), RecordFlush,
         pushed' = Len(flushed) + Len(items),
         \A i \in 1 .. Len(items) : items[i] = Len(flushed) + i
  PROVE  Handed
<1>1. list' = <<>> /\ Len(list') = 0
  BY EmptySeq DEF FlushList
<1>2. Len(flushed') \in Nat /\ Len(flushed') = Len(flushed) + Len(items) /\ Len(flushed) \in Nat
  BY <1>1 DEF QueueInv, NothingLost, TypeOK
<1>3. \A x \in ToSet(items) : x \in (Len(flushed) + 1) .. Len(flushed')
  BY <1>2, ItemSets
<1>4. out' = out \/ out' = Append(out, items)
  BY DEF FlushList
<1> QED BY <1>2, <1>3, <1>4 DEF Handed

LEMMA PushHands ==
  ASSUME QueueInv, QueueInv', ProducerPushes
  PROVE  Handed
<1> DEFINE items == Append(list, pushed + 1)
<1>1. /\ pushed' = pushed + 1 /\ pushed \in Nat
      /\ items \in Seq(Nat) /\ Len(items) = Len(list) + 1
      /\ \A i \in 1 .. Len(list) : items[i] = list[i]
      /\ items[Len(items)] = pushed + 1
  BY MaxPushesAssumption DEF QueueInv, TypeOK, ProducerPushes
<1>2. /\ pushed' = Len(flushed) + Len(items)
      /\ \A i \in 1 .. Len(items) : items[i] = Len(flushed) + i
  <2>1. /\ pushed = Len(flushed) + Len(list)
        /\ Len(flushed) \in Nat /\ Len(list) \in Nat
        /\ \A i \in 1 .. Len(list) : list[i] = Len(flushed) + i
    BY DEF QueueInv, NothingLost, TypeOK
  <2> HIDE DEF items
  <2> QED BY <1>1, <2>1, SMTT(30)
<1>3. \/ FlushList(items)
      \/ out' = out /\ list' = items
  BY <1>1 DEF ProducerPushes, Push
<1>4. CASE FlushList(items)
  <2>1. RecordFlush
    BY DEF ProducerPushes
  <2> HIDE DEF items
  <2> QED BY <1>1, <1>2, <1>4, <2>1, FlushHands
<1>5. CASE out' = out
  BY <1>5 DEF Handed, ProducerPushes, RecordFlush, QueueInv, TypeOK
<1> QED BY <1>3, <1>4, <1>5

LEMMA FlushByHandOrTimer ==
  ASSUME QueueInv, QueueInv', OwnerFlushes \/ TimeoutFlushes
  PROVE  Handed
<1>1. FlushList(list) /\ RecordFlush /\ pushed' = pushed /\ list \in Seq(Nat)
  BY DEF OwnerFlushes, TimeoutFlushes, TimerFires, QueueInv, TypeOK
<1>2. /\ pushed' = Len(flushed) + Len(list)
      /\ \A i \in 1 .. Len(list) : list[i] = Len(flushed) + i
  BY <1>1 DEF QueueInv, NothingLost
<1> QED BY <1>1, <1>2, FlushHands

(* Then the batches are still apart.                                        *)
LEMMA HandedApart ==
  ASSUME QueueInv, BatchesApart, Handed, UNCHANGED exchanges,
         exchanges \in Seq(Exchange)
  PROVE  BatchesApart'
<1>1. \A e : Carried(e)' = Carried(e)
  BY DEF Carried
<1>2. 1 .. Len(flushed) \subseteq 1 .. Len(flushed')
  BY DEF Handed, QueueInv, TypeOK
<1>3. Len(exchanges') = Len(exchanges)
  OBVIOUS
<1>4. CASE out' = out
  BY <1>1, <1>2, <1>3, <1>4 DEF BatchesApart
<1>5. ASSUME NEW s \in Seq(Nat), out' = Append(out, s),
             ToSet(s) \subseteq (Len(flushed) + 1) .. Len(flushed')
      PROVE  BatchesApart'
  <2>1. /\ Len(out) \in Nat /\ Len(out') = Len(out) + 1
        /\ \A b \in 1 .. Len(out) : out'[b] = out[b]
        /\ out'[Len(out')] = s
    BY <1>5 DEF QueueInv, TypeOK
  <2>2. \A b \in 1 .. Len(out') : b \in 1 .. Len(out) \/ (out'[b] = s /\ b = Len(out'))
    BY <2>1
  <2>3. ToSet(s) \subseteq 1 .. Len(flushed')
    BY <1>5 DEF Handed, QueueInv, TypeOK
  <2>4. ToSet(s) \cap 1 .. Len(flushed) = {}
    BY <1>5 DEF Handed, QueueInv, TypeOK
  <2>5. \A b \in 1 .. Len(out) : ToSet(out[b]) \subseteq 1 .. Len(flushed)
    BY DEF BatchesApart
  <2>6. \A e \in 1 .. Len(exchanges) : Carried(e) \subseteq 1 .. Len(flushed)
    BY DEF BatchesApart
  <2>7. \A b \in 1 .. Len(out') : ToSet(out'[b]) \subseteq 1 .. Len(flushed')
    BY <1>2, <2>1, <2>2, <2>3, <2>5
  <2>8. \A e \in 1 .. Len(exchanges') : Carried(e)' \subseteq 1 .. Len(flushed')
    BY <1>1, <1>2, <1>3, <2>6
  <2>9. \A b, c \in 1 .. Len(out') : b # c => ToSet(out'[b]) \cap ToSet(out'[c]) = {}
    <3> SUFFICES ASSUME NEW b \in 1 .. Len(out'), NEW c \in 1 .. Len(out'), b # c
                 PROVE  ToSet(out'[b]) \cap ToSet(out'[c]) = {}
      OBVIOUS
    <3>1. CASE b \in 1 .. Len(out) /\ c \in 1 .. Len(out)
      BY <2>1, <3>1 DEF BatchesApart
    <3>2. CASE b \in 1 .. Len(out) /\ out'[c] = s
      BY <2>1, <2>4, <2>5, <3>2
    <3>3. CASE c \in 1 .. Len(out) /\ out'[b] = s
      BY <2>1, <2>4, <2>5, <3>3
    <3> QED BY <2>2, <3>1, <3>2, <3>3
  <2>10. \A e, f \in 1 .. Len(exchanges') : e # f => Carried(e)' \cap Carried(f)' = {}
    BY <1>1, <1>3 DEF BatchesApart
  <2>11. \A e \in 1 .. Len(exchanges'), b \in 1 .. Len(out') :
           Carried(e)' \cap ToSet(out'[b]) = {}
    <3> SUFFICES ASSUME NEW e \in 1 .. Len(exchanges'), NEW b \in 1 .. Len(out')
                 PROVE  Carried(e) \cap ToSet(out'[b]) = {}
      BY <1>1
    <3>1. CASE b \in 1 .. Len(out)
      BY <1>3, <2>1, <3>1 DEF BatchesApart
    <3>2. CASE out'[b] = s
      BY <1>3, <2>4, <2>6, <3>2
    <3> QED BY <2>2, <3>1, <3>2
  <2> QED BY <2>7, <2>8, <2>9, <2>10, <2>11 DEF BatchesApart
<1> QED BY <1>4, <1>5 DEF Handed

(* BufferTimer and UserFlushes: the client's own state is left alone.       *)
LEMMA FlushKeepsStatic ==
  ASSUME QueueInv, QueueInv', StaticInv, BufferTimer \/ UserFlushes
  PROVE  StaticInv'
<1>1. /\ UNCHANGED <<codec, kind, id, nextId, calls, outcome, reused, writer, exchanges, pushed>>
      /\ OwnerFlushes \/ TimeoutFlushes
  BY DEF BufferTimer, UserFlushes, rpcVars, clientVars, OwnerFlushes, TimeoutFlushes
<1>2. BatchesApart'
  BY <1>1, FlushByHandOrTimer, HandedApart DEF StaticInv, StaticTyped
<1>3. StaticTyped'
  BY <1>1 DEF StaticInv, StaticTyped
<1>4. EntriesInv'
  BY <1>1 DEF StaticInv, EntriesInv, EntriesRight, IdsApart, NothingKept, IsCall, Over
<1>5. AnswersInv'
  BY <1>1 DEF StaticInv, AnswersInv, AnswersOwn, FailuresOver, MisledById, FailsOwn, CallsOf, IsCall
<1>6. WriterInv'
  BY <1>1 DEF StaticInv, WriterInv, LeftOctets
<1> QED BY <1>2, <1>3, <1>4, <1>5, <1>6 DEF StaticInv

(* Fetch: the oldest batch becomes a request.                               *)
LEMMA FetchGrows ==
  ASSUME QueueInv, StaticInv, Fetch
  PROVE  /\ Len(out) \in Nat /\ Len(out') = Len(out) - 1
         /\ \A b \in 1 .. Len(out') : b + 1 \in 1 .. Len(out) /\ out'[b] = out[b + 1]
         /\ 1 \in 1 .. Len(out)
         /\ exchanges' \in Seq(Exchange)
         /\ Len(exchanges') = Len(exchanges) + 1
         /\ \A e \in 1 .. Len(exchanges) :
              e \in 1 .. Len(exchanges') /\ exchanges'[e] = exchanges[e] /\ Carried(e)' = Carried(e)
         /\ exchanges'[Len(exchanges) + 1].phase = "requested"
         /\ exchanges'[Len(exchanges) + 1].body = "none"
         /\ exchanges'[Len(exchanges) + 1].after = 0
         /\ \A e : e = Len(exchanges) + 1 => Carried(e)' = ToSet(out[1])
         /\ \A e \in 1 .. Len(exchanges') : e \in 1 .. Len(exchanges) \/ e = Len(exchanges) + 1
<1>1. out \in Seq(Batch) /\ out # <<>> /\ out' = Tail(out)
  BY DEF QueueInv, TypeOK, Fetch, TransportTakes
<1>2. /\ Len(out) \in Nat /\ Len(out) # 0 /\ Head(out) = out[1]
      /\ Len(out') = Len(out) - 1
      /\ \A b \in 1 .. Len(out') : out'[b] = out[b + 1]
  BY <1>1, HeadTailProperties, EmptySeq
<1>3. 1 \in 1 .. Len(out) /\ \A b \in 1 .. Len(out') : b + 1 \in 1 .. Len(out)
  BY <1>2
<1>4. Head(out) \in Seq(Nat)
  BY <1>1, <1>2, <1>3 DEF Batch
<1>5. PICK x : x = [items |-> Head(out), phase |-> "requested", body |-> "none", after |-> 0]
  OBVIOUS
<1>6. /\ x \in Exchange /\ x.items = out[1]
      /\ x.phase = "requested" /\ x.body = "none" /\ x.after = 0
  BY <1>2, <1>4, <1>5 DEF Exchange, Phases, Bodies
<1>7. exchanges' = Append(exchanges, x) /\ exchanges \in Seq(Exchange)
  BY <1>5 DEF Fetch, StaticInv, StaticTyped
<1>8. /\ exchanges' \in Seq(Exchange)
      /\ Len(exchanges) \in Nat /\ Len(exchanges') = Len(exchanges) + 1
      /\ \A e \in 1 .. Len(exchanges) : exchanges'[e] = exchanges[e]
      /\ exchanges'[Len(exchanges) + 1] = x
  BY <1>6, <1>7
<1>9. \A e \in 1 .. Len(exchanges) : e \in 1 .. Len(exchanges')
  BY <1>8
<1>10. \A e \in 1 .. Len(exchanges') : e \in 1 .. Len(exchanges) \/ e = Len(exchanges) + 1
  BY <1>8
<1>11. \A e \in 1 .. Len(exchanges) : Carried(e)' = Carried(e)
  BY <1>8 DEF Carried
<1>12. \A e : e = Len(exchanges) + 1 => Carried(e)' = ToSet(out[1])
  <2>1. exchanges'[Len(exchanges) + 1].items = out[1]
    BY <1>6, <1>8
  <2> QED BY <2>1 DEF Carried
<1> QED BY <1>2, <1>3, <1>6, <1>8, <1>9, <1>10, <1>11, <1>12

LEMMA FetchKeepsStatic ==
  ASSUME QueueInv, StaticInv, Fetch
  PROVE  StaticInv'
<1> USE FetchGrows
<1>0. UNCHANGED <<codec, kind, id, nextId, calls, outcome, reused, writer, pushed, flushed>>
  BY DEF Fetch, TransportTakes, clientVars
<1>1. Len(exchanges) \in Nat /\ DOMAIN exchanges = 1 .. Len(exchanges)
  BY Ranges
<1>2. DOMAIN exchanges' = 1 .. Len(exchanges')
  OBVIOUS
<1>3. \A e \in 1 .. Len(exchanges') :
        (e \in 1 .. Len(exchanges) /\ Carried(e)' = Carried(e)) \/ Carried(e)' = ToSet(out[1])
  OBVIOUS
<1>4. StaticTyped'
  BY <1>0 DEF StaticInv, StaticTyped
<1>5. BatchesApart'
  <2>1. \A b \in 1 .. Len(out') : ToSet(out'[b]) \subseteq 1 .. Len(flushed')
    BY <1>0 DEF StaticInv, BatchesApart
  <2>2. \A e \in 1 .. Len(exchanges') : Carried(e)' \subseteq 1 .. Len(flushed')
    BY <1>0, <1>3 DEF StaticInv, BatchesApart
  <2>3. \A b, c \in 1 .. Len(out') : b # c => ToSet(out'[b]) \cap ToSet(out'[c]) = {}
    <3> SUFFICES ASSUME NEW b \in 1 .. Len(out'), NEW c \in 1 .. Len(out'), b # c
                 PROVE  ToSet(out'[b]) \cap ToSet(out'[c]) = {}
      OBVIOUS
    <3>1. /\ b + 1 \in 1 .. Len(out) /\ c + 1 \in 1 .. Len(out)
          /\ out'[b] = out[b + 1] /\ out'[c] = out[c + 1]
      OBVIOUS
    <3>2. b + 1 # c + 1
      OBVIOUS
    <3> QED BY <3>1, <3>2 DEF StaticInv, BatchesApart
  <2>4. \A e, f \in 1 .. Len(exchanges') : e # f => Carried(e)' \cap Carried(f)' = {}
    <3> SUFFICES ASSUME NEW e \in 1 .. Len(exchanges'), NEW f \in 1 .. Len(exchanges'), e # f
                 PROVE  Carried(e)' \cap Carried(f)' = {}
      OBVIOUS
    <3>1. CASE e \in 1 .. Len(exchanges) /\ f \in 1 .. Len(exchanges)
      <4>1. Carried(e)' = Carried(e) /\ Carried(f)' = Carried(f)
        BY <3>1
      <4>2. Carried(e) \cap Carried(f) = {}
        BY <3>1 DEF StaticInv, BatchesApart
      <4> QED BY <4>1, <4>2
    <3>2. \A g \in 1 .. Len(exchanges) : Carried(g)' \cap ToSet(out[1]) = {}
      BY DEF StaticInv, BatchesApart
    <3>3. CASE e \in 1 .. Len(exchanges) /\ f = Len(exchanges) + 1
      BY <3>2, <3>3
    <3>4. CASE f \in 1 .. Len(exchanges) /\ e = Len(exchanges) + 1
      BY <3>2, <3>4
    <3> QED BY <3>1, <3>3, <3>4
  <2>5. \A e \in 1 .. Len(exchanges'), b \in 1 .. Len(out') : Carried(e)' \cap ToSet(out'[b]) = {}
    <3> SUFFICES ASSUME NEW e \in 1 .. Len(exchanges'), NEW b \in 1 .. Len(out')
                 PROVE  Carried(e)' \cap ToSet(out'[b]) = {}
      OBVIOUS
    <3>1. b + 1 \in 1 .. Len(out) /\ out'[b] = out[b + 1] /\ b + 1 # 1
      OBVIOUS
    <3>2. CASE e \in 1 .. Len(exchanges)
      BY <3>1, <3>2 DEF StaticInv, BatchesApart
    <3>3. CASE e = Len(exchanges) + 1
      <4>1. Carried(e)' = ToSet(out[1])
        BY <3>3
      <4>2. ToSet(out[1]) \cap ToSet(out[b + 1]) = {}
        BY <3>1 DEF StaticInv, BatchesApart
      <4> QED BY <3>1, <4>1, <4>2
    <3> QED BY <3>2, <3>3
  <2> QED BY <2>1, <2>2, <2>3, <2>4, <2>5 DEF BatchesApart
<1>6. \A n : Over(n) => Over(n)'
  <2> SUFFICES ASSUME NEW n, Over(n) PROVE Over(n)'
    OBVIOUS
  <2>1. PICK e \in 1 .. Len(exchanges) : exchanges[e].phase = "done" /\ n \in Carried(e)
    BY Ranges
  <2>2. e \in DOMAIN exchanges' /\ exchanges'[e].phase = "done" /\ n \in Carried(e)'
    BY <1>2, <2>1
  <2> QED BY <2>2 DEF Over, Carried
<1>7. EntriesInv'
  <2>1. \A n : IsCall(n)' <=> IsCall(n)
    BY <1>0 DEF IsCall
  <2>2. EntriesRight'
    BY <1>0, <2>1 DEF StaticInv, EntriesInv, EntriesRight
  <2>3. IdsApart'
    BY <1>0, <1>6, <2>1 DEF StaticInv, EntriesInv, IdsApart
  <2>4. NothingKept'
    <3> SUFFICES ASSUME NEW e \in 1 .. Len(exchanges'), NEW i \in DOMAIN calls,
                        exchanges'[e].phase = "done"
                 PROVE  calls[i] \notin Carried(e)'
      BY <1>0, <1>2 DEF NothingKept, Carried
    <3>1. e \in 1 .. Len(exchanges)
      OBVIOUS
    <3> QED BY <1>1, <3>1 DEF StaticInv, EntriesInv, NothingKept, Carried
  <2> QED BY <2>2, <2>3, <2>4 DEF EntriesInv
<1>8. \A e \in 1 .. Len(exchanges) : exchanges'[e] = exchanges[e] /\ CallsOf(e)' = CallsOf(e)
  BY <1>0 DEF CallsOf, IsCall
<1>9. AnswersInv'
  <2>1. AnswersOwn'
    BY <1>0 DEF StaticInv, AnswersInv, AnswersOwn
  <2>2. FailuresOver'
    BY <1>0 DEF StaticInv, AnswersInv, FailuresOver
  <2>3. MisledById'
    <3> SUFFICES ASSUME NEW n \in Items, outcome[n].what = "misled",
                        NEW e, e = outcome[n].by, NEW g, g = exchanges'[e].after
                 PROVE  g \in 1 .. Len(exchanges') /\ \E k \in CallsOf(g)' : id[k] = id[n]
      BY <1>0 DEF MisledById, CallsOf
    <3>1. e \in 1 .. Len(exchanges)
      BY DEF StaticInv, AnswersInv, FailuresOver
    <3>2. g = exchanges[e].after
      BY <1>8, <3>1
    <3>3. g \in 1 .. Len(exchanges) /\ \E k \in CallsOf(g) : id[k] = id[n]
      BY <3>2 DEF StaticInv, AnswersInv, MisledById
    <3> QED BY <1>8, <3>3
  <2>4. FailsOwn'
    <3> SUFFICES ASSUME NEW n \in Items, outcome[n].what = "failed", id[n] \notin reused,
                        NEW e, e = outcome[n].by
                 PROVE  n \in CallsOf(e)' /\ exchanges'[e].body # "responses"
      BY <1>0 DEF FailsOwn, CallsOf
    <3>1. e \in 1 .. Len(exchanges) /\ n \in CallsOf(e) /\ exchanges[e].body # "responses"
      BY DEF StaticInv, AnswersInv, FailuresOver, FailsOwn
    <3> QED BY <1>8, <3>1
  <2> QED BY <2>1, <2>2, <2>3, <2>4 DEF AnswersInv
<1>10. WriterInv'
  <2> DEFINE last == Len(exchanges) + 1
  <2>1. \A g : LeftOctets(g) => LeftOctets(g)' /\ g # last
    BY <1>1, <1>8 DEF LeftOctets
  <2>2. \A e \in 1 .. Len(exchanges') :
          \/ e \in 1 .. Len(exchanges) /\ exchanges'[e] = exchanges[e]
          \/ /\ e = last /\ exchanges'[e].after = 0 /\ exchanges'[e].body = "none"
             /\ exchanges'[e].phase = "requested"
    BY <1>8
  <2>3. WriterInv
    BY DEF StaticInv
  <2> HIDE DEF last
  <2> QED BY <1>0, <2>1, <2>2, <2>3 DEF WriterInv
<1> QED BY <1>4, <1>5, <1>7, <1>9, <1>10 DEF StaticInv

(* A step of one request: it carries what it carried.                       *)
LEMMA ExchangeStep ==
  ASSUME QueueInv, StaticInv, NEW e \in DOMAIN exchanges, NEW x \in Exchange,
         x.items = exchanges[e].items, exchanges' = [exchanges EXCEPT ![e] = x],
         UNCHANGED vars
  PROVE  /\ exchanges' \in Seq(Exchange) /\ Len(exchanges') = Len(exchanges)
         /\ DOMAIN exchanges' = 1 .. Len(exchanges) /\ e \in 1 .. Len(exchanges)
         /\ exchanges'[e] = x
         /\ \A f \in 1 .. Len(exchanges) : f # e => exchanges'[f] = exchanges[f]
         /\ \A f \in 1 .. Len(exchanges) : Carried(f)' = Carried(f)
         /\ BatchesApart'
<1>1. DOMAIN exchanges = 1 .. Len(exchanges) /\ exchanges \in Seq(Exchange)
  BY Ranges DEF StaticInv, StaticTyped
<1>2. /\ exchanges' \in Seq(Exchange) /\ Len(exchanges') = Len(exchanges)
      /\ DOMAIN exchanges' = 1 .. Len(exchanges) /\ e \in 1 .. Len(exchanges)
  BY <1>1
<1>3. /\ exchanges'[e] = x
      /\ \A f \in 1 .. Len(exchanges) : f # e => exchanges'[f] = exchanges[f]
  BY <1>1
<1>4. \A f \in 1 .. Len(exchanges) : exchanges'[f].items = exchanges[f].items
  BY <1>3
<1>5. \A f \in 1 .. Len(exchanges) : Carried(f)' = Carried(f)
  BY <1>4 DEF Carried
<1>6. out' = out /\ flushed' = flushed
  BY DEF vars
<1>7. BatchesApart'
  <2>1. BatchesApart
    BY DEF StaticInv
  <2>2. /\ \A b \in 1 .. Len(out') : ToSet(out'[b]) \subseteq 1 .. Len(flushed')
        /\ \A b, c \in 1 .. Len(out') : b # c => ToSet(out'[b]) \cap ToSet(out'[c]) = {}
    BY <1>6, <2>1 DEF BatchesApart
  <2>3. \A f \in 1 .. Len(exchanges') : Carried(f)' \subseteq 1 .. Len(flushed')
    BY <1>2, <1>5, <1>6, <2>1 DEF BatchesApart
  <2>4. \A f, g \in 1 .. Len(exchanges') : f # g => Carried(f)' \cap Carried(g)' = {}
    BY <1>2, <1>5, <2>1 DEF BatchesApart
  <2>5. \A f \in 1 .. Len(exchanges'), b \in 1 .. Len(out') :
          Carried(f)' \cap ToSet(out'[b]) = {}
    BY <1>2, <1>5, <1>6, <2>1 DEF BatchesApart
  <2> QED BY <2>2, <2>3, <2>4, <2>5 DEF BatchesApart
<1> QED BY <1>2, <1>3, <1>5, <1>7

(* The writer's octets after a step of a request: they are what they were,  *)
(* they went out with its reply, or it failed to encode and left them.      *)
LEMMA WriterKept ==
  ASSUME QueueInv, StaticInv, NEW e \in DOMAIN exchanges, NEW x \in Exchange,
         x.items = exchanges[e].items, exchanges' = [exchanges EXCEPT ![e] = x],
         UNCHANGED vars,
         x.phase \notin {"requested"},
         x.phase \in {"processing", "failing"} => x.after = 0 /\ x.body = "none",
         x.body = "misread" => x.after # 0,
         exchanges[e].phase \notin {"requested", "processing"} =>
           /\ x.phase \notin {"requested", "processing"}
           /\ x.after = exchanges[e].after
           /\ exchanges[e].body \in Spoilt /\ x.after = 0 => x.body \in Spoilt,
         \/ x.after \in {0, exchanges[e].after} /\ writer'.of \in {0, writer.of}
         \/ x.after = writer.of /\ writer'.of = 0 /\ exchanges[e].phase \in {"requested", "processing"}
         \/ /\ x.after = 0 /\ x.body \in Spoilt /\ x.phase # "processing"
            /\ exchanges[e].phase = "processing" /\ writer'.of \in {e, writer.of}
  PROVE  WriterInv'
<1>1. /\ Len(exchanges') = Len(exchanges)
      /\ e \in 1 .. Len(exchanges) /\ exchanges'[e] = x
      /\ \A f \in 1 .. Len(exchanges) : f # e => exchanges'[f] = exchanges[f]
  BY ExchangeStep
<1>2. WriterInv
  BY DEF StaticInv
<1>3. \A g : LeftOctets(g) => LeftOctets(g)'
  BY <1>1 DEF LeftOctets
<1>4. exchanges[e].phase \in {"requested", "processing"} =>
        ~LeftOctets(e) /\ exchanges[e].after = 0
  BY <1>1, <1>2 DEF LeftOctets, WriterInv
<1>5. writer'.of # 0 => LeftOctets(writer.of)'
  <2> SUFFICES ASSUME NEW w, w = writer'.of, w # 0
               PROVE  LeftOctets(w)'
    BY DEF LeftOctets
  <2>1. CASE w = writer.of
    BY <1>2, <1>3, <2>1 DEF WriterInv
  <2>2. CASE w = e /\ w # writer.of
    BY <1>1, <2>2 DEF LeftOctets
  <2> QED BY <2>1, <2>2
<1>6. ASSUME NEW f \in 1 .. Len(exchanges), exchanges'[f].after # 0
      PROVE  /\ LeftOctets(exchanges'[f].after) /\ exchanges'[f].after # writer'.of
             /\ exchanges'[f].after = exchanges[f].after
                \/ (f = e /\ exchanges'[f].after = writer.of)
  <2>1. CASE f # e
    <3>1. exchanges'[f] = exchanges[f]
      BY <1>1, <2>1
    <3>2. LeftOctets(exchanges[f].after) /\ exchanges[f].after # writer.of
      BY <1>2, <1>6, <3>1 DEF WriterInv
    <3> QED BY <1>4, <1>6, <3>1, <3>2
  <2>2. CASE f = e
    <3>1. exchanges'[f] = x /\ x.after # 0
      BY <1>1, <1>6, <2>2
    <3>2. CASE x.after = exchanges[e].after
      <4>1. LeftOctets(x.after) /\ x.after # writer.of
        BY <1>1, <1>2, <3>1, <3>2 DEF WriterInv
      <4> QED BY <1>4, <2>2, <3>1, <3>2, <4>1
    <3>3. CASE x.after = writer.of /\ writer'.of = 0
      BY <1>2, <2>2, <3>1, <3>3 DEF WriterInv
    <3> QED BY <3>1, <3>2, <3>3
  <2> QED BY <2>1, <2>2
<1>7. ASSUME NEW f \in 1 .. Len(exchanges), NEW h \in 1 .. Len(exchanges),
             exchanges'[f].after # 0, exchanges'[h].after = exchanges'[f].after
      PROVE  h = f
  <2>1. CASE exchanges'[f].after = exchanges[f].after /\ exchanges'[h].after = exchanges[h].after
    BY <1>2, <1>7, <2>1 DEF WriterInv
  <2>2. CASE f = e /\ exchanges'[f].after = writer.of /\ h # e
    BY <1>1, <1>2, <1>7, <2>2 DEF WriterInv
  <2>3. CASE h = e /\ exchanges'[h].after = writer.of /\ f # e
    BY <1>1, <1>2, <1>7, <2>3 DEF WriterInv
  <2> QED BY <1>6, <1>7, <2>1, <2>2, <2>3
<1>8. ASSUME NEW f \in 1 .. Len(exchanges)
      PROVE  /\ exchanges'[f].body = "misread" => exchanges'[f].after # 0
             /\ exchanges'[f].phase \in {"requested", "processing", "failing"}
                  => exchanges'[f].after = 0 /\ exchanges'[f].body = "none"
  <2>1. CASE f = e
    BY <1>1, <2>1
  <2>2. CASE f # e
    BY <1>1, <1>2, <2>2 DEF WriterInv
  <2> QED BY <2>1, <2>2
<1> QED BY <1>1, <1>3, <1>5, <1>6, <1>7, <1>8 DEF WriterInv

(* The server takes, processes or answers a request.                        *)
LEMMA ServerKeepsStatic ==
  ASSUME QueueInv, StaticInv, NEW e \in DOMAIN exchanges, NEW x \in Exchange,
         exchanges[e].phase # "done", x.phase # "done",
         x.items = exchanges[e].items, exchanges' = [exchanges EXCEPT ![e] = x],
         UNCHANGED <<vars, clientVars>>,
         writer' \in [of : Nat, readable : BOOLEAN], WriterInv'
  PROVE  StaticInv'
<1> USE DEF clientVars
<1>0. pushed' = pushed /\ DOMAIN calls = 0 .. IdLimit - 1 /\ DOMAIN exchanges = 1 .. Len(exchanges)
  BY Ranges DEF vars
<1>1. /\ exchanges' \in Seq(Exchange) /\ Len(exchanges') = Len(exchanges)
      /\ DOMAIN exchanges' = 1 .. Len(exchanges) /\ e \in 1 .. Len(exchanges)
      /\ exchanges'[e] = x
      /\ \A f \in 1 .. Len(exchanges) : f # e => exchanges'[f] = exchanges[f]
      /\ \A f \in 1 .. Len(exchanges) : Carried(f)' = Carried(f)
      /\ BatchesApart'
  BY ExchangeStep
<1>2. \A f \in 1 .. Len(exchanges) :
        (exchanges[f].phase = "done" \/ exchanges'[f].phase = "done") => exchanges'[f] = exchanges[f]
  BY <1>1
<1>3. StaticTyped'
  BY <1>0, <1>1 DEF StaticInv, StaticTyped
<1>4. \A n : Over(n) => Over(n)'
  BY <1>0, <1>1, <1>2 DEF Over
<1>5. /\ \A n : IsCall(n)' <=> IsCall(n)
      /\ \A f \in 1 .. Len(exchanges) : CallsOf(f)' = CallsOf(f)
  BY <1>1 DEF IsCall, CallsOf, Carried
<1>6. EntriesInv'
  <2>1. EntriesRight'
    BY <1>0, <1>5 DEF StaticInv, EntriesInv, EntriesRight
  <2>2. IdsApart'
    BY <1>4, <1>5 DEF StaticInv, EntriesInv, IdsApart
  <2>3. NothingKept'
    BY <1>0, <1>1, <1>2 DEF StaticInv, EntriesInv, NothingKept
  <2> QED BY <2>1, <2>2, <2>3 DEF EntriesInv
<1>7. AnswersInv'
  <2>1. AnswersOwn'
    BY DEF StaticInv, AnswersInv, AnswersOwn
  <2>2. FailuresOver'
    BY <1>1, <1>2 DEF StaticInv, AnswersInv, FailuresOver
  <2>3. MisledById'
    <3> SUFFICES ASSUME NEW n \in Items, outcome[n].what = "misled",
                        NEW f, f = outcome[n].by, NEW g, g = exchanges'[f].after
                 PROVE  g \in 1 .. Len(exchanges) /\ \E k \in CallsOf(g)' : id[k] = id[n]
      BY <1>1 DEF MisledById, CallsOf
    <3>1. f \in 1 .. Len(exchanges) /\ exchanges[f].phase = "done"
      BY DEF StaticInv, AnswersInv, FailuresOver
    <3>2. g = exchanges[f].after
      BY <1>2, <3>1
    <3>3. g \in 1 .. Len(exchanges) /\ \E k \in CallsOf(g) : id[k] = id[n]
      BY <3>2 DEF StaticInv, AnswersInv, MisledById
    <3> QED BY <1>5, <3>3
  <2>4. FailsOwn'
    <3> SUFFICES ASSUME NEW n \in Items, outcome[n].what = "failed", id[n] \notin reused,
                        NEW f, f = outcome[n].by
                 PROVE  n \in CallsOf(f)' /\ exchanges'[f].body # "responses"
      BY DEF FailsOwn, CallsOf
    <3>1. /\ f \in 1 .. Len(exchanges) /\ exchanges[f].phase = "done"
          /\ n \in CallsOf(f) /\ exchanges[f].body # "responses"
      BY DEF StaticInv, AnswersInv, FailuresOver, FailsOwn
    <3> QED BY <1>2, <1>5, <3>1
  <2> QED BY <2>1, <2>2, <2>3, <2>4 DEF AnswersInv
<1> QED BY <1>1, <1>3, <1>6, <1>7 DEF StaticInv

(* It answers past the writer, which stays or is reset.                     *)
LEMMA RepliesPast ==
  ASSUME QueueInv, StaticInv, NEW e \in DOMAIN exchanges, NEW body \in {"error", "garbled"},
         exchanges[e].phase \in {"requested", "processing", "failing"},
         Replies(e, body, 0), UNCHANGED <<vars, clientVars>>,
         writer' \in [of : Nat, readable : BOOLEAN],
         \/ writer'.of \in {0, writer.of}
         \/ exchanges[e].phase = "processing" /\ writer'.of = e
  PROVE  StaticInv'
<1>1. exchanges[e] \in Exchange
  BY Ranges
<1>2. PICK x : x = [exchanges[e] EXCEPT !.phase = "replied", !.body = body, !.after = 0]
  OBVIOUS
<1>3. /\ x \in Exchange /\ x.items = exchanges[e].items
      /\ x.phase = "replied" /\ x.body = body /\ x.after = 0
  BY <1>1, <1>2 DEF Exchange, Phases, Bodies
<1>4. exchanges' = [exchanges EXCEPT ![e] = x]
  BY <1>2 DEF Replies
<1>5. exchanges[e].after = 0
  BY Ranges DEF StaticInv, WriterInv
<1>6. UNCHANGED vars /\ exchanges[e].phase # "done"
  OBVIOUS
<1>7. x.body \in Spoilt
  BY <1>3 DEF Spoilt
<1>8. WriterInv'
  BY <1>3, <1>4, <1>5, <1>6, <1>7, WriterKept
<1> QED BY <1>3, <1>4, <1>6, <1>8, ServerKeepsStatic

(* It answers through the writer.                                           *)
LEMMA FlushesStep ==
  ASSUME QueueInv, StaticInv, NEW e \in DOMAIN exchanges,
         NEW body \in {"minusOne", "responses", "garbled"},
         exchanges[e].phase \in {"requested", "processing"},
         Flushes(e, body), UNCHANGED <<vars, clientVars>>
  PROVE  StaticInv'
<1>1. exchanges[e] \in Exchange /\ writer.of \in Nat
  BY Ranges DEF StaticInv, StaticTyped
<1>2. PICK read : /\ read \in {body, "misread", "garbled"}
                  /\ read = "misread" => writer.of # 0
                  /\ Replies(e, read, writer.of)
  BY DEF Flushes
<1>3. PICK x : x = [exchanges[e] EXCEPT !.phase = "replied", !.body = read, !.after = writer.of]
  OBVIOUS
<1>4. /\ x \in Exchange /\ x.items = exchanges[e].items
      /\ x.phase = "replied" /\ x.body = read /\ x.after = writer.of
  BY <1>1, <1>2, <1>3 DEF Exchange, Phases, Bodies
<1>5. exchanges' = [exchanges EXCEPT ![e] = x]
  BY <1>2, <1>3 DEF Replies
<1>6. writer'.of = 0 /\ writer' \in [of : Nat, readable : BOOLEAN]
  BY DEF Flushes, NothingLeft
<1>7. UNCHANGED vars /\ exchanges[e].phase # "done"
  OBVIOUS
<1>8. WriterInv'
  BY <1>2, <1>4, <1>5, <1>6, <1>7, WriterKept
<1> QED BY <1>4, <1>5, <1>6, <1>7, <1>8, ServerKeepsStatic

(* Its methods run, or it throws while it encodes.                          *)
LEMMA GoesStep ==
  ASSUME QueueInv, StaticInv, NEW e \in DOMAIN exchanges, UNCHANGED <<vars, clientVars>>,
         writer' \in [of : Nat, readable : BOOLEAN],
         \/ /\ exchanges[e].phase = "requested" /\ Goes(e, "processing")
            /\ writer' = writer
         \/ /\ exchanges[e].phase = "processing" /\ Goes(e, "failing")
            /\ writer'.of \in {e, writer.of}
  PROVE  StaticInv'
<1>1. exchanges[e] \in Exchange /\ exchanges[e].after = 0 /\ exchanges[e].body = "none"
  BY Ranges DEF StaticInv, WriterInv
<1>2. PICK phase \in {"processing", "failing"} :
        /\ Goes(e, phase)
        /\ phase = "processing" => exchanges[e].phase = "requested" /\ writer' = writer
        /\ phase = "failing" => exchanges[e].phase = "processing" /\ writer'.of \in {e, writer.of}
  OBVIOUS
<1>3. PICK x : x = [exchanges[e] EXCEPT !.phase = phase]
  OBVIOUS
<1>4. /\ x \in Exchange /\ x.items = exchanges[e].items
      /\ x.phase = phase /\ x.body = "none" /\ x.after = 0
  BY <1>1, <1>2, <1>3 DEF Exchange, Phases
<1>5. exchanges' = [exchanges EXCEPT ![e] = x]
  BY <1>2, <1>3 DEF Goes
<1>6. UNCHANGED vars /\ exchanges[e].phase # "done" /\ x.phase # "done"
  BY <1>2, <1>4
<1>7. x.body \in Spoilt
  BY <1>4 DEF Spoilt
<1>8. WriterInv'
  BY <1>1, <1>2, <1>4, <1>5, <1>6, <1>7, WriterKept
<1> QED BY <1>4, <1>5, <1>6, <1>8, ServerKeepsStatic

LEMMA ServerSteps ==
  ASSUME QueueInv, StaticInv, NEW e \in DOMAIN exchanges,
         \/ Http1Refuses(e) \/ RpcAppRefuses(e) \/ Process(e)
         \/ Http1Replies(e) \/ RpcAppReplies(e) \/ RpcAppFails(e)
  PROVE  StaticInv'
<1>0. writer \in [of : Nat, readable : BOOLEAN] /\ e \in Nat
  BY Ranges DEF StaticInv, StaticTyped
<1>1. NothingLeft \in [of : Nat, readable : BOOLEAN] /\ NothingLeft.of = 0
  BY DEF NothingLeft
<1>2. CASE Http1Refuses(e)
  BY <1>0, <1>2, RepliesPast DEF Http1Refuses
<1>3. CASE RpcAppRefuses(e)
  BY <1>1, <1>3, RepliesPast DEF RpcAppRefuses
<1>4. CASE RpcAppFails(e)
  BY <1>1, <1>4, RepliesPast DEF RpcAppFails
<1>5. CASE Process(e)
  <2>1. CASE Flushes(e, "minusOne")
    BY <1>5, <2>1, FlushesStep DEF Process
  <2>2. CASE Goes(e, "processing") /\ writer' = writer
    BY <1>0, <1>5, <2>2, GoesStep DEF Process
  <2> QED BY <1>5, <2>1, <2>2 DEF Process
<1>6. ASSUME FailsToEncode(e)
      PROVE  writer' \in [of : Nat, readable : BOOLEAN] /\ writer'.of \in {e, writer.of}
  BY <1>0, <1>6 DEF FailsToEncode
<1>7. Encodes(e) \subseteq {"minusOne", "responses", "garbled"}
  BY DEF Encodes, CompactEncodes, JsonRpc2Encodes
<1>8. CASE Http1Replies(e)
  <2>1. exchanges[e].phase = "processing" /\ UNCHANGED <<vars, clientVars>>
    BY <1>8 DEF Http1Replies
  <2>2. CASE FailsToEncode(e) /\ Replies(e, "error", 0)
    BY <1>6, <2>1, <2>2, RepliesPast
  <2>3. ASSUME NEW body \in Encodes(e), Flushes(e, body) PROVE StaticInv'
    BY <1>7, <2>1, <2>3, FlushesStep
  <2> QED BY <1>8, <2>2, <2>3 DEF Http1Replies
<1>9. CASE RpcAppReplies(e)
  <2>1. exchanges[e].phase = "processing" /\ UNCHANGED <<vars, clientVars>>
    BY <1>9 DEF RpcAppReplies
  <2>2. CASE FailsToEncode(e) /\ Goes(e, "failing")
    BY <1>6, <2>1, <2>2, GoesStep
  <2>3. ASSUME NEW body \in Encodes(e), Flushes(e, body) PROVE StaticInv'
    BY <1>7, <2>1, <2>3, FlushesStep
  <2> QED BY <1>9, <2>2, <2>3 DEF RpcAppReplies
<1> QED BY <1>2, <1>3, <1>4, <1>5, <1>8, <1>9

(* The writer is reset by something else.                                   *)
LEMMA OtherUseKeepsStatic ==
  ASSUME StaticInv, OtherUse
  PROVE  StaticInv'
<1>1. /\ UNCHANGED <<pushed, flushed, out, codec, kind, id, nextId, calls, outcome, exchanges, reused>>
      /\ writer' \in [of : Nat, readable : BOOLEAN] /\ writer'.of = 0
  BY DEF OtherUse, vars, clientVars, NothingLeft
<1>2. StaticTyped'
  BY <1>1 DEF StaticInv, StaticTyped
<1>3. BatchesApart'
  BY <1>1 DEF StaticInv, BatchesApart, Carried
<1>4. EntriesInv'
  BY <1>1 DEF StaticInv, EntriesInv, EntriesRight, IdsApart, NothingKept, IsCall, Over
<1>5. AnswersInv'
  BY <1>1 DEF StaticInv, AnswersInv, AnswersOwn, FailuresOver, MisledById, FailsOwn, CallsOf, IsCall
<1>6. WriterInv'
  BY <1>1 DEF StaticInv, WriterInv, LeftOctets
<1> QED BY <1>2, <1>3, <1>4, <1>5, <1>6 DEF StaticInv

(* A call of any request, and who has the entry of its id.                  *)
LEMMA CalledId ==
  ASSUME QueueInv, StaticInv, NEW g \in 1 .. Len(exchanges), NEW n \in CallsOf(g)
  PROVE  /\ n \in Items /\ n \in Carried(g) /\ IsCall(n) /\ id[n] \in 0 .. IdLimit - 1
         /\ calls[id[n]] # 0 => /\ id[calls[id[n]]] = id[n] /\ IsCall(calls[id[n]])
                               /\ calls[id[n]] \in 1 .. pushed /\ calls[id[n]] \in Items
<1>1. n \in Carried(g) /\ IsCall(n)
  BY DEF CallsOf, Carried
<1>2. n \in Items
  BY <1>1, Ranges
<1>3. id[n] \in 0 .. IdLimit - 1
  BY <1>1, <1>2 DEF StaticInv, EntriesInv, EntriesRight
<1>4. calls[id[n]] # 0 => id[calls[id[n]]] = id[n] /\ IsCall(calls[id[n]])
  BY <1>3 DEF StaticInv, EntriesInv, EntriesRight
<1>5. calls[id[n]] \in 0 .. pushed
  BY <1>3 DEF StaticInv, StaticTyped
<1> QED BY <1>1, <1>2, <1>3, <1>4, <1>5, Ranges

(* Nobody else has the entry of a call whose request is not over, unless its*)
(* id was given again.                                                      *)
LEMMA CarriedCall ==
  ASSUME QueueInv, StaticInv, NEW e \in DOMAIN exchanges, exchanges[e].phase # "done",
         NEW n \in CallsOf(e), calls[id[n]] # 0
  PROVE  /\ calls[id[n]] = n \/ id[n] \in reused
         /\ id[calls[id[n]]] = id[n]
<1> DEFINE m == calls[id[n]]
<1>1. /\ n \in Items /\ n \in Carried(e) /\ IsCall(n) /\ id[n] \in 0 .. IdLimit - 1
      /\ id[m] = id[n] /\ IsCall(m) /\ m \in Items
      /\ e \in 1 .. Len(exchanges)
  BY CalledId, Ranges
<1>2. ~Over(n)
  BY <1>1, Ranges DEF StaticInv, BatchesApart
<1>3. ~Over(m)
  <2> SUFFICES ASSUME NEW f \in 1 .. Len(exchanges), exchanges[f].phase = "done", m \in Carried(f)
               PROVE  FALSE
    BY Ranges
  <2>1. f \in DOMAIN exchanges /\ id[n] \in DOMAIN calls
    BY <1>1, Ranges
  <2> QED BY <2>1 DEF StaticInv, EntriesInv, NothingKept, Carried
<1> HIDE DEF m
<1>4. m = n \/ id[n] \in reused
  BY <1>1, <1>2, <1>3 DEF StaticInv, EntriesInv, IdsApart
<1> QED BY <1>1, <1>4 DEF m

(* What a request that ends may do to the outcomes: it answers or fails the *)
(* calls that have the entries of its ids, or, behind what another batch    *)
(* left, misleads those that have the entries of the ids of that.           *)
SettledBy(e, x, m) ==
  \/ /\ \E n \in CallsOf(e) : calls[id[n]] = m /\ m # 0
     /\ outcome'[m].what = "answered"
     /\ outcome'[m].by \in CallsOf(e)
     /\ calls[id[outcome'[m].by]] = m
  \/ /\ \E n \in CallsOf(e) : calls[id[n]] = m /\ m # 0
     /\ outcome'[m].what = "failed" /\ outcome'[m].by = e
     /\ x.body # "responses"
  \/ /\ x.after \in 1 .. Len(exchanges)
     /\ \E n \in CallsOf(x.after) : calls[id[n]] = m /\ m # 0
     /\ outcome'[m].what = "misled" /\ outcome'[m].by = e

(* finally: the entries of its ids are deleted, others may be.              *)
Drops(e) ==
  /\ calls' \in [0 .. IdLimit - 1 -> 0 .. pushed]
  /\ \A i \in 0 .. IdLimit - 1 : calls'[i] # 0 => calls'[i] = calls[i] /\ i \notin IdsOf(e)

LEMMA ForgetDrops ==
  ASSUME QueueInv, StaticInv, NEW e, NEW dropped,
         \/ calls' = Forget(e)
         \/ calls' = [i \in DOMAIN calls |-> IF i \in dropped THEN 0 ELSE Forget(e)[i]]
  PROVE  Drops(e)
<1>1. DOMAIN calls = 0 .. IdLimit - 1 /\ 0 \in 0 .. pushed
  BY Ranges
<1>2. \A i \in 0 .. IdLimit - 1 : calls[i] \in 0 .. pushed
  BY DEF StaticInv, StaticTyped
<1>3. \A i \in 0 .. IdLimit - 1 : Forget(e)[i] = IF i \in IdsOf(e) THEN 0 ELSE calls[i]
  BY <1>1 DEF Forget
<1>4. CASE calls' = Forget(e)
  <2>1. Forget(e) \in [0 .. IdLimit - 1 -> 0 .. pushed]
    BY <1>1, <1>2 DEF Forget
  <2> QED BY <1>3, <1>4, <2>1 DEF Drops
<1>5. CASE calls' = [i \in DOMAIN calls |-> IF i \in dropped THEN 0 ELSE Forget(e)[i]]
  <2>1. \A i \in 0 .. IdLimit - 1 : calls'[i] = IF i \in dropped THEN 0 ELSE Forget(e)[i]
    BY <1>1, <1>5
  <2>2. calls' \in [0 .. IdLimit - 1 -> 0 .. pushed]
    BY <1>1, <1>2, <1>3, <1>5
  <2> QED BY <1>3, <2>1, <2>2 DEF Drops
<1> QED BY <1>4, <1>5

LEMMA EndForgets ==
  ASSUME QueueInv, StaticInv, NEW e \in DOMAIN exchanges, NEW x \in Exchange,
         exchanges[e].phase # "done", x.phase = "done",
         x.items = exchanges[e].items, exchanges' = [exchanges EXCEPT ![e] = x],
         Drops(e), UNCHANGED <<vars, codec, kind, id, nextId, reused>>
  PROVE  IdsApart' /\ NothingKept'
<1>0. pushed' = pushed /\ DOMAIN calls = 0 .. IdLimit - 1 /\ DOMAIN exchanges = 1 .. Len(exchanges)
  BY Ranges DEF vars
<1>1. /\ DOMAIN exchanges' = 1 .. Len(exchanges)
      /\ e \in 1 .. Len(exchanges) /\ exchanges'[e] = x
      /\ \A f \in 1 .. Len(exchanges) : f # e => exchanges'[f] = exchanges[f]
      /\ \A f \in 1 .. Len(exchanges) : Carried(f)' = Carried(f)
  BY ExchangeStep
<1>2. \A n : IsCall(n)' <=> IsCall(n)
  BY DEF IsCall
<1>3. \A n : Over(n) => Over(n)'
  <2> SUFFICES ASSUME NEW n, Over(n) PROVE Over(n)'
    OBVIOUS
  <2>1. PICK f \in 1 .. Len(exchanges) : exchanges[f].phase = "done" /\ n \in Carried(f)
    BY Ranges
  <2>2. f \in DOMAIN exchanges' /\ exchanges'[f].phase = "done" /\ n \in Carried(f)'
    BY <1>1, <2>1
  <2> QED BY <2>2 DEF Over, Carried
<1>4. IdsApart'
  BY <1>2, <1>3 DEF StaticInv, EntriesInv, IdsApart
<1>5. NothingKept'
  <2> SUFFICES ASSUME NEW f \in 1 .. Len(exchanges), NEW i \in 0 .. IdLimit - 1,
                      exchanges'[f].phase = "done", calls'[i] \in Carried(f)
               PROVE  FALSE
    BY <1>1 DEF NothingKept, Carried, Drops
  <2>1. calls'[i] # 0
    BY Ranges
  <2>2. i \notin IdsOf(e) /\ calls'[i] = calls[i]
    BY <2>1 DEF Drops
  <2>3. CASE f = e
    <3>1. IsCall(calls[i]) /\ id[calls[i]] = i
      BY <2>1, <2>2 DEF StaticInv, EntriesInv, EntriesRight
    <3>2. calls[i] \in CallsOf(e)
      BY <2>2, <2>3, <3>1 DEF CallsOf, Carried
    <3> QED BY <2>2, <3>1, <3>2 DEF IdsOf
  <2>4. CASE f # e
    <3>1. exchanges[f].phase = "done"
      BY <1>1, <2>4
    <3> QED BY <1>0, <2>2, <3>1 DEF StaticInv, EntriesInv, NothingKept, Carried
  <2> QED BY <2>3, <2>4
<1> QED BY <1>4, <1>5

(* A request is over.                                                       *)
LEMMA EndKeepsStatic ==
  ASSUME QueueInv, StaticInv, NEW e \in DOMAIN exchanges, NEW x \in Exchange,
         exchanges[e].phase # "done", x.phase = "done",
         x.items = exchanges[e].items, exchanges' = [exchanges EXCEPT ![e] = x],
         Drops(e), UNCHANGED <<vars, codec, kind, id, nextId, reused>>,
         writer' = writer, WriterInv',
         outcome' \in [Items -> Outcomes],
         \A m \in Items : outcome'[m] = outcome[m] \/ SettledBy(e, x, m)
  PROVE  StaticInv'
<1>0. pushed' = pushed /\ DOMAIN calls = 0 .. IdLimit - 1 /\ DOMAIN exchanges = 1 .. Len(exchanges)
  BY Ranges DEF vars
<1>1. /\ exchanges' \in Seq(Exchange) /\ Len(exchanges') = Len(exchanges)
      /\ e \in 1 .. Len(exchanges) /\ exchanges'[e] = x
      /\ \A f \in 1 .. Len(exchanges) : f # e => exchanges'[f] = exchanges[f]
      /\ \A f \in 1 .. Len(exchanges) : Carried(f)' = Carried(f)
      /\ BatchesApart'
  BY ExchangeStep
<1>2. IdsApart' /\ NothingKept'
  BY EndForgets
<1>3. StaticTyped'
  BY <1>0, <1>1 DEF StaticInv, StaticTyped, Drops
<1>4. \A n : IsCall(n)' <=> IsCall(n)
  BY DEF IsCall
<1>5. \A f \in 1 .. Len(exchanges) : CallsOf(f)' = CallsOf(f)
  BY <1>1, <1>4 DEF CallsOf, Carried
<1>6. \A m \in Items : SettledBy(e, x, m) => m \in 1 .. pushed
  BY <1>1, CalledId DEF SettledBy
<1>7. EntriesRight'
  <2>1. \A n \in Items : n > pushed => kind[n] = "none" /\ outcome'[n].what = "none"
    BY <1>6, Ranges DEF StaticInv, EntriesInv, EntriesRight
  <2>2. \A n \in Items : IsCall(n) => id[n] \in 0 .. IdLimit - 1
    BY DEF StaticInv, EntriesInv, EntriesRight
  <2>3. \A i \in 0 .. IdLimit - 1 : calls'[i] # 0 => IsCall(calls'[i]) /\ id[calls'[i]] = i
    BY DEF StaticInv, EntriesInv, EntriesRight, Drops
  <2>4. \A i \in 0 .. IdLimit - 1 : calls'[i] # 0 => kind'[calls'[i]] \in {"call", "invalidCall"}
    BY <2>3 DEF IsCall
  <2> QED BY <1>0, <1>4, <2>1, <2>2, <2>3, <2>4 DEF EntriesRight, IsCall
<1>8. AnswersOwn'
  <2> SUFFICES ASSUME NEW n \in Items, outcome'[n].what = "answered", id[n] \notin reused
               PROVE  outcome'[n].by = n
    BY DEF AnswersOwn
  <2>1. CASE outcome'[n] = outcome[n]
    BY <2>1 DEF StaticInv, AnswersInv, AnswersOwn
  <2>2. CASE SettledBy(e, x, n)
    <3>1. PICK m : m = outcome'[n].by
      OBVIOUS
    <3>2. m \in CallsOf(e) /\ calls[id[m]] = n /\ n # 0
      BY <2>2, <3>1 DEF SettledBy
    <3>3. (calls[id[m]] = m \/ id[m] \in reused) /\ id[n] = id[m]
      BY <3>2, CarriedCall
    <3> QED BY <3>1, <3>2, <3>3
  <2> QED BY <2>1, <2>2
<1>9. FailuresOver'
  <2> SUFFICES ASSUME NEW n \in Items, outcome'[n].what \in {"failed", "misled"}
               PROVE  /\ outcome'[n].by \in 1 .. Len(exchanges)
                      /\ exchanges'[outcome'[n].by].phase = "done"
    BY <1>1 DEF FailuresOver
  <2>1. CASE outcome'[n] = outcome[n]
    BY <1>1, <2>1 DEF StaticInv, AnswersInv, FailuresOver
  <2>2. CASE SettledBy(e, x, n)
    BY <1>1, <2>2 DEF SettledBy
  <2> QED BY <2>1, <2>2
<1>10. MisledById'
  <2> SUFFICES ASSUME NEW n \in Items, outcome'[n].what = "misled",
                      NEW f, f = outcome'[n].by, NEW g, g = exchanges'[f].after
               PROVE  g \in 1 .. Len(exchanges) /\ \E k \in CallsOf(g)' : id[k] = id[n]
    BY <1>1 DEF MisledById, CallsOf
  <2>1. CASE outcome'[n] = outcome[n]
    <3>1. f \in 1 .. Len(exchanges) /\ exchanges[f].phase = "done"
      BY <2>1 DEF StaticInv, AnswersInv, FailuresOver
    <3>2. g = exchanges[f].after
      BY <1>1, <3>1
    <3>3. g \in 1 .. Len(exchanges) /\ \E k \in CallsOf(g) : id[k] = id[n]
      BY <2>1, <3>2 DEF StaticInv, AnswersInv, MisledById
    <3> QED BY <1>5, <3>3
  <2>2. CASE SettledBy(e, x, n)
    <3>1. f = e /\ g = x.after /\ g \in 1 .. Len(exchanges)
      BY <1>1, <2>2 DEF SettledBy
    <3>2. PICK k \in CallsOf(g) : calls[id[k]] = n /\ n # 0
      BY <2>2, <3>1 DEF SettledBy
    <3>3. id[k] = id[n]
      BY <3>1, <3>2, CalledId
    <3> QED BY <1>5, <3>1, <3>2, <3>3
  <2> QED BY <2>1, <2>2
<1>11. FailsOwn'
  <2> SUFFICES ASSUME NEW n \in Items, outcome'[n].what = "failed", id[n] \notin reused,
                      NEW f, f = outcome'[n].by
               PROVE  n \in CallsOf(f)' /\ exchanges'[f].body # "responses"
    BY DEF FailsOwn, CallsOf
  <2>1. CASE outcome'[n] = outcome[n]
    <3>1. /\ f \in 1 .. Len(exchanges) /\ exchanges[f].phase = "done"
          /\ n \in CallsOf(f) /\ exchanges[f].body # "responses"
      BY <2>1 DEF StaticInv, AnswersInv, FailuresOver, FailsOwn
    <3>2. exchanges'[f] = exchanges[f]
      BY <1>1, <3>1
    <3> QED BY <1>5, <3>1, <3>2
  <2>2. CASE SettledBy(e, x, n)
    <3>1. f = e /\ x.body # "responses"
      BY <2>2 DEF SettledBy
    <3>2. PICK m \in CallsOf(e) : calls[id[m]] = n /\ n # 0
      BY <2>2 DEF SettledBy
    <3>3. id[n] = id[m] /\ (calls[id[m]] = m \/ id[m] \in reused)
      BY <3>2, CarriedCall
    <3>4. n \in CallsOf(e)
      BY <3>2, <3>3
    <3> QED BY <1>1, <1>5, <3>1, <3>4
  <2> QED BY <2>1, <2>2
<1> QED BY <1>1, <1>2, <1>3, <1>7, <1>8, <1>9, <1>10, <1>11 DEF StaticInv, EntriesInv, AnswersInv

(* catch: the calls of the batch that have an entry fail.                   *)
LEMMA RejectSettles ==
  ASSUME QueueInv, StaticInv, NEW e \in DOMAIN exchanges, NEW x, x.body # "responses",
         RejectBatch(e)
  PROVE  /\ outcome' \in [Items -> Outcomes]
         /\ \A m \in Items : outcome'[m] = outcome[m] \/ SettledBy(e, x, m)
<1>1. e \in Nat
  BY Ranges
<1>2. PICK failed : failed = [what |-> "failed", by |-> e]
  OBVIOUS
<1>3. failed \in Outcomes /\ failed.what = "failed" /\ failed.by = e
  BY <1>1, <1>2 DEF Outcomes
<1>4. outcome' = [m \in Items |-> IF m \in Rejected(e) THEN failed ELSE outcome[m]]
  BY <1>2 DEF RejectBatch
<1>5. outcome \in [Items -> Outcomes]
  BY DEF StaticInv, StaticTyped
<1>6. outcome' \in [Items -> Outcomes]
  BY <1>3, <1>4, <1>5
<1>7. ASSUME NEW m \in Items
      PROVE  outcome'[m] = outcome[m] \/ SettledBy(e, x, m)
  <2>1. CASE m \in Rejected(e)
    <3>1. \E n \in CallsOf(e) : calls[id[n]] = m /\ m # 0
      BY <2>1 DEF Rejected, IdsOf
    <3>2. outcome'[m] = failed
      BY <1>4, <2>1
    <3> QED BY <1>3, <3>1, <3>2 DEF SettledBy
  <2>2. CASE m \notin Rejected(e)
    BY <1>4, <2>2
  <2> QED BY <2>1, <2>2
<1> QED BY <1>6, <1>7

(* then: the calls of the batch that have an entry are answered.            *)
LEMMA RespondSettles ==
  ASSUME QueueInv, StaticInv, NEW e \in DOMAIN exchanges, NEW x,
         Respond(e)
  PROVE  /\ outcome' \in [Items -> Outcomes]
         /\ \A m \in Items : outcome'[m] = outcome[m] \/ SettledBy(e, x, m)
<1> DEFINE Source(m) == CHOOSE n \in CallsOf(e) : Answered(e, n) = m
           Got(m) == [what |-> "answered", by |-> Source(m)]
<1>1. CallsOf(e) \subseteq Nat
  <2>1. e \in 1 .. Len(exchanges)
    BY Ranges
  <2>2. Carried(e) \subseteq 1 .. pushed
    BY <2>1, Ranges
  <2>3. 1 .. pushed \subseteq Nat
    BY Ranges
  <2> QED BY <2>2, <2>3 DEF CallsOf, Carried
<1>2. outcome' = [m \in Items |->
        IF m \in {Answered(e, n) : n \in CallsOf(e)} THEN Got(m) ELSE outcome[m]]
  BY DEF Respond
<1>3. outcome \in [Items -> Outcomes]
  BY DEF StaticInv, StaticTyped
<1>4. ASSUME NEW m \in Items, m \in {Answered(e, n) : n \in CallsOf(e)}
      PROVE  Source(m) \in CallsOf(e) /\ Answered(e, Source(m)) = m
  <2>1. \E n \in CallsOf(e) : Answered(e, n) = m
    BY <1>4
  <2> QED BY <2>1
<1> HIDE DEF Source
<1>5. \A m \in Items : outcome'[m] \in Outcomes
  <2> SUFFICES ASSUME NEW m \in Items PROVE outcome'[m] \in Outcomes
    OBVIOUS
  <2>1. CASE m \in {Answered(e, n) : n \in CallsOf(e)}
    <3>1. Source(m) \in Nat
      BY <1>1, <1>4, <2>1
    <3>2. Got(m) \in Outcomes
      BY <3>1 DEF Outcomes
    <3>3. outcome'[m] = Got(m)
      BY <1>2, <2>1
    <3> QED BY <3>2, <3>3
  <2>2. CASE m \notin {Answered(e, n) : n \in CallsOf(e)}
    BY <1>2, <1>3, <2>2
  <2> QED BY <2>1, <2>2
<1>6. outcome' \in [Items -> Outcomes]
  <2>1. outcome' = [m \in Items |-> outcome'[m]]
    BY <1>2
  <2> QED BY <1>5, <2>1
<1>7. ASSUME NEW m \in Items
      PROVE  outcome'[m] = outcome[m] \/ SettledBy(e, x, m)
  <2>1. CASE m \in {Answered(e, n) : n \in CallsOf(e)}
    <3>1. PICK n : n = Source(m)
      OBVIOUS
    <3>2. n \in CallsOf(e) /\ calls[id[n]] = m
      BY <1>4, <2>1, <3>1 DEF Answered
    <3>3. outcome'[m].what = "answered" /\ outcome'[m].by = n
      BY <1>2, <2>1, <3>1
    <3>4. m # 0
      BY DEF Items
    <3> QED BY <3>2, <3>3, <3>4 DEF SettledBy
  <2>2. CASE m \notin {Answered(e, n) : n \in CallsOf(e)}
    BY <1>2, <2>2
  <2> QED BY <2>1, <2>2
<1> QED BY <1>6, <1>7

(* then, of what is read as another batch's responses.                      *)
LEMMA MisleadSettles ==
  ASSUME QueueInv, StaticInv, NEW e \in DOMAIN exchanges, exchanges[e].body = "misread",
         NEW x, x.after = exchanges[e].after, Mislead(e)
  PROVE  /\ outcome' \in [Items -> Outcomes]
         /\ \A m \in Items : outcome'[m] = outcome[m] \/ SettledBy(e, x, m)
<1>1. e \in Nat /\ e \in 1 .. Len(exchanges)
  BY Ranges
<1>2. x.after \in 1 .. Len(exchanges)
  BY <1>1 DEF StaticInv, WriterInv, LeftOctets
<1>3. PICK misled : misled = [what |-> "misled", by |-> e]
  OBVIOUS
<1>4. misled \in Outcomes /\ misled.what = "misled" /\ misled.by = e
  BY <1>1, <1>3 DEF Outcomes
<1> DEFINE S == {calls[i] : i \in IdsOf(exchanges[e].after)}
<1>5. outcome' = [m \in Items |-> IF m \in S THEN misled ELSE outcome[m]]
  BY <1>3 DEF Mislead
<1>6. outcome \in [Items -> Outcomes]
  BY DEF StaticInv, StaticTyped
<1>7. outcome' \in [Items -> Outcomes]
  <2> HIDE DEF S
  <2> QED BY <1>4, <1>5, <1>6
<1>8. ASSUME NEW m \in Items
      PROVE  outcome'[m] = outcome[m] \/ SettledBy(e, x, m)
  <2>1. CASE m \in S
    <3>1. m # 0
      BY DEF Items
    <3>2. \E n \in CallsOf(x.after) : calls[id[n]] = m /\ m # 0
      BY <2>1, <3>1 DEF IdsOf
    <3>3. outcome'[m] = misled
      BY <1>5, <2>1
    <3> QED BY <1>2, <1>4, <3>2, <3>3 DEF SettledBy
  <2>2. CASE m \notin S
    BY <1>5, <2>2
  <2> QED BY <2>1, <2>2
<1> QED BY <1>7, <1>8

LEMMA ArrivesKeepsStatic ==
  ASSUME QueueInv, StaticInv, NEW e \in DOMAIN exchanges, Arrives(e)
  PROVE  StaticInv'
<1>1. exchanges[e] \in Exchange /\ exchanges[e].phase = "replied"
  BY Ranges DEF Arrives
<1>2. PICK x : x = [exchanges[e] EXCEPT !.phase = "done"]
  OBVIOUS
<1>3. /\ x \in Exchange /\ x.items = exchanges[e].items /\ x.phase = "done"
      /\ x.body = exchanges[e].body /\ x.after = exchanges[e].after
  BY <1>1, <1>2 DEF Exchange, Phases
<1>4. exchanges' = [exchanges EXCEPT ![e] = x]
  BY <1>2 DEF Arrives, Goes
<1>5. UNCHANGED <<vars, codec, kind, id, nextId, reused>> /\ writer' = writer
  BY DEF Arrives
<1>6. /\ outcome' \in [Items -> Outcomes]
      /\ \A m \in Items : outcome'[m] = outcome[m] \/ SettledBy(e, x, m)
  <2>1. CASE ~Decodes(x.body) /\ RejectBatch(e)
    <3>1. Decodes("responses")
      BY CodecsAgree DEF Decodes, CompactDecodes, JsonRpc2Decodes, StaticInv, StaticTyped
    <3>2. x.body # "responses"
      BY <2>1, <3>1
    <3> QED BY <2>1, <3>2, RejectSettles
  <2>2. CASE Respond(e)
    BY <2>2, RespondSettles
  <2>3. CASE exchanges[e].body = "misread" /\ Mislead(e)
    BY <1>3, <2>3, MisleadSettles
  <2>4. CASE UNCHANGED outcome
    BY <2>4 DEF StaticInv, StaticTyped
  <2> QED BY <1>3, <2>1, <2>2, <2>3, <2>4 DEF Arrives
<1>7. Drops(e)
  <2>1. PICK dropped : dropped = IdsOf(exchanges[e].after)
    OBVIOUS
  <2>2. \/ calls' = Forget(e)
        \/ calls' = [i \in DOMAIN calls |-> IF i \in dropped THEN 0 ELSE Forget(e)[i]]
    BY <2>1 DEF Arrives
  <2> QED BY <2>2, ForgetDrops
<1>8. WriterInv'
  <2>1. exchanges[e].body = "misread" => exchanges[e].after # 0
    BY Ranges DEF StaticInv, WriterInv
  <2> QED BY <1>1, <1>3, <1>4, <1>5, <2>1, WriterKept
<1> QED BY <1>1, <1>3, <1>4, <1>5, <1>6, <1>7, <1>8, EndKeepsStatic

LEMMA BreaksKeepsStatic ==
  ASSUME QueueInv, StaticInv, NEW e \in DOMAIN exchanges, Breaks(e)
  PROVE  StaticInv'
<1>1. exchanges[e] \in Exchange /\ exchanges[e].phase # "done"
  BY Ranges DEF Breaks
<1>2. PICK x : x = [exchanges[e] EXCEPT !.phase = "done", !.body = "failed"]
  OBVIOUS
<1>3. /\ x \in Exchange /\ x.items = exchanges[e].items /\ x.phase = "done"
      /\ x.body = "failed" /\ x.after = exchanges[e].after
  BY <1>1, <1>2 DEF Exchange, Phases, Bodies
<1>4. exchanges' = [exchanges EXCEPT ![e] = x]
  BY <1>2 DEF Breaks
<1>5. UNCHANGED <<vars, codec, kind, id, nextId, reused>> /\ writer' = writer
  BY DEF Breaks
<1>6. /\ outcome' \in [Items -> Outcomes]
      /\ \A m \in Items : outcome'[m] = outcome[m] \/ SettledBy(e, x, m)
  BY <1>3, RejectSettles DEF Breaks
<1>7. Drops(e)
  BY ForgetDrops DEF Breaks
<1>8. WriterInv'
  <2>1. x.body \in Spoilt
    BY <1>3 DEF Spoilt
  <2> QED BY <1>3, <1>4, <1>5, <2>1, WriterKept
<1> QED BY <1>1, <1>3, <1>4, <1>5, <1>6, <1>7, <1>8, EndKeepsStatic

(* A notification, or a call under the next id.                             *)
LEMMA UserPushesStep ==
  ASSUME QueueInv, StaticInv, UserPushes
  PROVE  \E p, k :
           /\ p = pushed + 1 /\ pushed' = p /\ p \in Items /\ p \in Nat
           /\ k \in Kinds /\ kind' = [kind EXCEPT ![p] = k]
           /\ \/ /\ k \in {"call", "invalidCall"}
                 /\ id' = [id EXCEPT ![p] = nextId]
                 /\ nextId' \in 0 .. IdLimit - 1
                 /\ calls' = [calls EXCEPT ![nextId] = p]
                 /\ outcome' = [outcome EXCEPT ![p] = [what |-> "pending", by |-> 0]]
                 /\ reused' = IF InFlight(nextId) THEN reused \cup {nextId} ELSE reused
              \/ /\ k \notin {"call", "invalidCall"}
                 /\ UNCHANGED <<id, nextId, calls, outcome, reused>>
<1>1. PICK p : p = pushed + 1
  OBVIOUS
<1>2. pushed' = p /\ pushed < MaxPushes
  BY <1>1 DEF UserPushes, ProducerPushes
<1>3. p \in Items /\ p \in Nat
  BY <1>1, <1>2, MaxPushesAssumption DEF Items, QueueInv, TypeOK
<1>4. (nextId + 1) % IdLimit \in 0 .. IdLimit - 1
  BY IdLimitAssumption DEF StaticInv, StaticTyped
<1> QED BY <1>1, <1>2, <1>3, <1>4, ZenonT(40) DEF UserPushes

LEMMA PushKeepsStatic ==
  ASSUME QueueInv, QueueInv', StaticInv, UserPushes
  PROVE  StaticInv'
<1>1. PICK p, k :
        /\ p = pushed + 1 /\ pushed' = p /\ p \in Items /\ p \in Nat
        /\ k \in Kinds /\ kind' = [kind EXCEPT ![p] = k]
        /\ \/ /\ k \in {"call", "invalidCall"}
              /\ id' = [id EXCEPT ![p] = nextId]
              /\ nextId' \in 0 .. IdLimit - 1
              /\ calls' = [calls EXCEPT ![nextId] = p]
              /\ outcome' = [outcome EXCEPT ![p] = [what |-> "pending", by |-> 0]]
              /\ reused' = IF InFlight(nextId) THEN reused \cup {nextId} ELSE reused
           \/ /\ k \notin {"call", "invalidCall"}
              /\ UNCHANGED <<id, nextId, calls, outcome, reused>>
  BY UserPushesStep
<1> DEFINE Called == k \in {"call", "invalidCall"}
<1>2. UNCHANGED <<codec, exchanges, writer>> /\ ProducerPushes
  BY DEF UserPushes
<1>3. /\ kind \in [Items -> Kinds \cup {"none"}] /\ id \in [Items -> 0 .. IdLimit]
      /\ nextId \in 0 .. IdLimit - 1 /\ calls \in [0 .. IdLimit - 1 -> 0 .. pushed]
      /\ outcome \in [Items -> Outcomes] /\ exchanges \in Seq(Exchange)
      /\ codec \in Clients /\ reused \subseteq 0 .. IdLimit - 1
      /\ writer \in [of : Nat, readable : BOOLEAN]
  BY DEF StaticInv, StaticTyped
<1>4. pushed \in Nat /\ p > pushed /\ 0 .. pushed \subseteq 0 .. p /\ p \in 0 .. p
  BY <1>1 DEF QueueInv, TypeOK
<1>5. BatchesApart'
  BY <1>2, <1>3, PushHands, HandedApart DEF StaticInv
<1>6. StaticTyped'
  <2>1. kind' \in [Items -> Kinds \cup {"none"}]
    BY <1>1, <1>3
  <2>2. id' \in [Items -> 0 .. IdLimit]
    <3>1. nextId \in 0 .. IdLimit
      BY <1>3, IdLimitAssumption
    <3> QED BY <1>1, <1>3, <3>1
  <2>3. nextId' \in 0 .. IdLimit - 1 /\ reused' \subseteq 0 .. IdLimit - 1
    BY <1>1, <1>3
  <2>4. calls' \in [0 .. IdLimit - 1 -> 0 .. p]
    <3>1. calls \in [0 .. IdLimit - 1 -> 0 .. p]
      BY <1>3, <1>4
    <3> QED BY <1>1, <1>3, <1>4, <3>1
  <2>5. outcome' \in [Items -> Outcomes]
    <3>1. [what |-> "pending", by |-> 0] \in Outcomes
      BY DEF Outcomes
    <3> QED BY <1>1, <1>3, <3>1
  <2> QED BY <1>1, <1>2, <1>3, <2>1, <2>2, <2>3, <2>4, <2>5 DEF StaticTyped
<1>7. /\ \A n \in Items : n # p => (IsCall(n)' <=> IsCall(n)) /\ kind'[n] = kind[n] /\ id'[n] = id[n]
                                   /\ outcome'[n] = outcome[n]
      /\ IsCall(p)' <=> Called
      /\ Called => id'[p] = nextId /\ outcome'[p].what = "pending"
      /\ ~Called => outcome'[p] = outcome[p]
      /\ reused \subseteq reused'
  BY <1>1, <1>3 DEF IsCall
<1>8. /\ \A e \in 1 .. Len(exchanges) : p \notin Carried(e)
      /\ \A e \in 1 .. Len(exchanges) : Carried(e) \subseteq Items
      /\ Len(exchanges') = Len(exchanges) /\ DOMAIN exchanges = 1 .. Len(exchanges)
      /\ DOMAIN calls = 0 .. IdLimit - 1
  BY <1>1, <1>2, <1>4, Ranges
<1>9. /\ kind[p] = "none" /\ outcome[p].what = "none"
      /\ \A i \in 0 .. IdLimit - 1 : calls[i] # 0 => calls[i] \in Items /\ calls[i] # p
  <2>1. kind[p] = "none" /\ outcome[p].what = "none"
    BY <1>1, <1>4 DEF StaticInv, EntriesInv, EntriesRight
  <2>2. \A i \in 0 .. IdLimit - 1 : calls[i] # 0 => calls[i] \in 1 .. pushed
    BY <1>3, <1>4
  <2> QED BY <1>4, <2>1, <2>2, Ranges
<1>10. /\ \A i \in 0 .. IdLimit - 1 : calls'[i] = calls[i] \/ (Called /\ i = nextId /\ calls'[i] = p)
       /\ Called => calls'[nextId] = p
  BY <1>1, <1>3
<1>11. \A n : Over(n)' <=> Over(n)
  BY <1>2 DEF Over
<1>12. EntriesRight'
  <2>1. \A n \in Items : n > p => kind'[n] = "none" /\ outcome'[n].what = "none"
    <3> SUFFICES ASSUME NEW n \in Items, n > p
                 PROVE  kind'[n] = "none" /\ outcome'[n].what = "none"
      OBVIOUS
    <3>1. n # p /\ n > pushed
      BY <1>1, <1>4 DEF Items
    <3> QED BY <1>7, <3>1 DEF StaticInv, EntriesInv, EntriesRight
  <2>2. \A n \in Items : IsCall(n)' => id'[n] \in 0 .. IdLimit - 1
    <3> SUFFICES ASSUME NEW n \in Items, IsCall(n)' PROVE id'[n] \in 0 .. IdLimit - 1
      OBVIOUS
    <3>1. CASE n = p
      BY <1>3, <1>7, <3>1
    <3>2. CASE n # p
      BY <1>7, <3>2 DEF StaticInv, EntriesInv, EntriesRight
    <3> QED BY <3>1, <3>2
  <2>3. \A i \in 0 .. IdLimit - 1 : \A n : (n = calls'[i] /\ n # 0) => IsCall(n)' /\ id'[n] = i
    <3> SUFFICES ASSUME NEW i \in 0 .. IdLimit - 1, NEW n, n = calls'[i], n # 0
                 PROVE  IsCall(n)' /\ id'[n] = i
      OBVIOUS
    <3>1. CASE calls'[i] = calls[i]
      BY <1>7, <1>9, <3>1 DEF StaticInv, EntriesInv, EntriesRight
    <3>2. CASE Called /\ i = nextId /\ calls'[i] = p
      BY <1>7, <3>2
    <3> QED BY <1>10, <3>1, <3>2
  <2> QED BY <1>1, <2>1, <2>2, <2>3 DEF EntriesRight, IsCall
<1>13. IdsApart'
  <2> SUFFICES ASSUME NEW n \in Items, NEW m \in Items, n # m, IsCall(n)', IsCall(m)',
                      ~Over(n), ~Over(m), id'[n] = id'[m]
               PROVE  id'[n] \in reused'
    BY <1>11 DEF IdsApart
  <2>1. ASSUME NEW q \in Items, q # p, IsCall(q)', ~Over(q), id'[q] = id'[p], IsCall(p)'
        PROVE  id'[q] \in reused'
    <3>1. IsCall(q) /\ id[q] = nextId /\ Called
      BY <1>7, <2>1
    <3>2. q \in 1 .. pushed
      <4>1. kind[q] # "none"
        BY <3>1 DEF IsCall
      <4>2. ~(q > pushed)
        BY <4>1 DEF StaticInv, EntriesInv, EntriesRight
      <4> QED BY <1>4, <4>2 DEF Items
    <3>3. InFlight(nextId)
      BY <2>1, <3>1, <3>2 DEF InFlight
    <3>4. id'[q] = nextId
      BY <1>7, <2>1, <3>1
    <3>5. nextId \in reused'
      BY <1>1, <3>1, <3>3
    <3> QED BY <3>4, <3>5
  <2>2. CASE n = p
    BY <2>1, <2>2
  <2>3. CASE m = p
    BY <2>1, <2>3
  <2>4. CASE n # p /\ m # p
    <3>1. IsCall(n) /\ IsCall(m) /\ id[n] = id[m] /\ id'[n] = id[n]
      BY <1>7, <2>4
    <3>2. id[n] \in reused
      BY <3>1 DEF StaticInv, EntriesInv, IdsApart
    <3> QED BY <1>7, <3>1, <3>2
  <2> QED BY <2>2, <2>3, <2>4
<1>14. NothingKept'
  <2> SUFFICES ASSUME NEW e \in 1 .. Len(exchanges), NEW i \in 0 .. IdLimit - 1,
                      exchanges[e].phase = "done"
               PROVE  calls'[i] \notin Carried(e)
    <3>1. DOMAIN calls' = 0 .. IdLimit - 1
      BY <1>1, <1>3
    <3> QED BY <1>2, <1>8, <3>1 DEF NothingKept, Carried
  <2>1. calls[i] \notin Carried(e)
    BY <1>8 DEF StaticInv, EntriesInv, NothingKept, Carried
  <2> QED BY <1>8, <1>10, <2>1
<1>15. AnswersOwn'
  <2> SUFFICES ASSUME NEW n \in Items, outcome'[n].what = "answered", id'[n] \notin reused'
               PROVE  outcome'[n].by = n
    BY DEF AnswersOwn
  <2>1. n # p
    BY <1>7, <1>9
  <2> QED BY <1>7, <2>1 DEF StaticInv, AnswersInv, AnswersOwn
<1>16. FailuresOver'
  <2> SUFFICES ASSUME NEW n \in Items, outcome'[n].what \in {"failed", "misled"}
               PROVE  /\ outcome'[n].by \in 1 .. Len(exchanges)
                      /\ exchanges[outcome'[n].by].phase = "done"
    BY <1>2 DEF FailuresOver
  <2>1. n # p
    BY <1>7, <1>9
  <2> QED BY <1>7, <2>1 DEF StaticInv, AnswersInv, FailuresOver
<1>17. MisledById'
  <2> SUFFICES ASSUME NEW n \in Items, outcome'[n].what = "misled",
                      NEW f, f = outcome'[n].by, NEW g, g = exchanges[f].after
               PROVE  g \in 1 .. Len(exchanges) /\ \E q \in CallsOf(g)' : id'[q] = id'[n]
    BY <1>2 DEF MisledById, CallsOf
  <2>1. n # p
    BY <1>7, <1>9
  <2>2. g \in 1 .. Len(exchanges) /\ \E q \in CallsOf(g) : id[q] = id[n]
    BY <1>7, <2>1 DEF StaticInv, AnswersInv, MisledById
  <2>3. PICK q \in CallsOf(g) : id[q] = id[n]
    BY <2>2
  <2>4. q \in Items /\ q \in Carried(g) /\ IsCall(q) /\ q # p
    BY <1>8, <2>2, CalledId
  <2>5. q \in CallsOf(g)'
    BY <1>2, <1>7, <2>4 DEF CallsOf, Carried
  <2>6. id'[q] = id'[n]
    BY <1>7, <2>1, <2>3, <2>4
  <2> QED BY <2>2, <2>5, <2>6
<1>18. FailsOwn'
  <2> SUFFICES ASSUME NEW n \in Items, outcome'[n].what = "failed", id'[n] \notin reused',
                      NEW f, f = outcome'[n].by
               PROVE  n \in CallsOf(f)' /\ exchanges[f].body # "responses"
    BY <1>2 DEF FailsOwn, CallsOf
  <2>1. n # p
    BY <1>7, <1>9
  <2>2. n \in CallsOf(f) /\ exchanges[f].body # "responses"
    BY <1>7, <2>1 DEF StaticInv, AnswersInv, FailsOwn
  <2>3. IsCall(n)'
    BY <1>7, <2>1, <2>2 DEF CallsOf
  <2> QED BY <1>2, <2>2, <2>3 DEF CallsOf
<1>19. WriterInv'
  BY <1>2 DEF StaticInv, WriterInv, LeftOctets
<1> QED BY <1>5, <1>6, <1>12, <1>13, <1>14, <1>15, <1>16, <1>17, <1>18, <1>19
        DEF StaticInv, EntriesInv, AnswersInv

LEMMA StaticInductive == StaticSpec => [](QueueInv /\ StaticInv)
<1>1. StaticInit => StaticInv
  BY StaticStart
<1>2. QueueInv /\ QueueInv' /\ StaticInv /\ [StaticNext]_staticVars => StaticInv'
  <2> SUFFICES ASSUME QueueInv, QueueInv', StaticInv, [StaticNext]_staticVars
               PROVE  StaticInv'
    OBVIOUS
  <2>1. CASE UserPushes
    BY <2>1, PushKeepsStatic
  <2>2. CASE UserFlushes \/ BufferTimer
    BY <2>2, FlushKeepsStatic
  <2>3. CASE Fetch
    BY <2>3, FetchKeepsStatic
  <2>4. ASSUME NEW e \in DOMAIN exchanges,
               \/ Http1Refuses(e) \/ RpcAppRefuses(e) \/ Process(e)
               \/ Http1Replies(e) \/ RpcAppReplies(e) \/ RpcAppFails(e)
        PROVE  StaticInv'
    BY <2>4, ServerSteps
  <2>5. ASSUME NEW e \in DOMAIN exchanges, Arrives(e)
        PROVE  StaticInv'
    BY <2>5, ArrivesKeepsStatic
  <2>6. ASSUME NEW e \in DOMAIN exchanges, Breaks(e)
        PROVE  StaticInv'
    BY <2>6, BreaksKeepsStatic
  <2>7. CASE UNCHANGED staticVars
    <3>1. UNCHANGED <<pushed, flushed, out, codec, kind, id, nextId, calls, outcome, exchanges,
                      reused, writer>>
      BY <2>7 DEF staticVars, vars, rpcVars, clientVars
    <3>2. StaticTyped'
      BY <3>1 DEF StaticInv, StaticTyped
    <3>3. BatchesApart'
      BY <3>1 DEF StaticInv, BatchesApart, Carried
    <3>4. EntriesInv'
      BY <3>1 DEF StaticInv, EntriesInv, EntriesRight, IdsApart, NothingKept, IsCall, Over
    <3>5. AnswersInv'
      BY <3>1 DEF StaticInv, AnswersInv, AnswersOwn, FailuresOver, MisledById, FailsOwn, CallsOf, IsCall
    <3>6. WriterInv'
      BY <3>1 DEF StaticInv, WriterInv, LeftOctets
    <3> QED BY <3>2, <3>3, <3>4, <3>5, <3>6 DEF StaticInv
  <2>8. CASE OtherUse
    BY <2>8, OtherUseKeepsStatic
  <2> QED BY <2>1, <2>2, <2>3, <2>4, <2>5, <2>6, <2>7, <2>8 DEF StaticNext
<1>3. StaticSpec => []QueueInv
  BY ClientUsesQueue, QueueInductive, PTL
<1> QED BY <1>1, <1>2, <1>3, PTL DEF StaticSpec

(* A call that was answered got the result of its own method, whatever the  *)
(* order and the failures of the requests, as long as its id was not given  *)
(* again while it was in flight; one that got what is no answer was in a    *)
(* batch that failed to encode, as long as no other item has its id.        *)
THEOREM AnswersAreOwn == StaticSpec => []OwnAnswer
<1>1. QueueInv /\ StaticInv => OwnAnswer
  <2> SUFFICES ASSUME QueueInv, StaticInv, NEW n \in Items
               PROVE  /\ (outcome[n].what = "answered" /\ id[n] \notin reused) => outcome[n].by = n
                      /\ (outcome[n].what = "misled" /\ \A m \in Items \ {n} : id[m] # id[n])
                           => n \in CallsOf(exchanges[outcome[n].by].after)
    BY DEF OwnAnswer
  <2>1. (outcome[n].what = "answered" /\ id[n] \notin reused) => outcome[n].by = n
    BY DEF StaticInv, AnswersInv, AnswersOwn
  <2>2. ASSUME outcome[n].what = "misled", \A m \in Items \ {n} : id[m] # id[n],
               NEW g, g = exchanges[outcome[n].by].after
        PROVE  n \in CallsOf(g)
    <3>1. g \in 1 .. Len(exchanges) /\ \E k \in CallsOf(g) : id[k] = id[n]
      BY <2>2 DEF StaticInv, AnswersInv, MisledById
    <3>2. PICK k \in CallsOf(g) : id[k] = id[n]
      BY <3>1
    <3>3. k \in Items
      BY <3>1, CalledId
    <3> QED BY <2>2, <3>2, <3>3
  <2> QED BY <2>1, <2>2
<1> QED BY <1>1, StaticInductive, PTL

(* A call fails only with the request that carried it, and what a batch that*)
(* failed to encode left in the writer spoils at most one reply.            *)
THEOREM FailuresAreContained == StaticSpec => []FailureContained
<1>1. QueueInv /\ StaticInv => FailureContained
  <2> SUFFICES ASSUME QueueInv, StaticInv PROVE FailureContained
    OBVIOUS
  <2>1. DOMAIN exchanges = 1 .. Len(exchanges)
    BY Ranges
  <2> QED BY <2>1 DEF StaticInv, AnswersInv, FailsOwn, WriterInv, LeftOctets, Spoilt, FailureContained
<1> QED BY <1>1, StaticInductive, PTL

(* No entry of calls outlives its request.                                  *)
THEOREM EntriesAreForgotten == StaticSpec => []NothingKept
<1>1. QueueInv /\ StaticInv => NothingKept BY DEF StaticInv, EntriesInv
<1> QED BY <1>1, StaticInductive, PTL
=============================================================================
