---------------------- MODULE OpenStreamProcessorProof -----------------------
(***************************************************************************)
(* What the stream processor keeps true whatever the client sends: its     *)
(* types, no entry for a call that has ended, and one end to a response,   *)
(* after which it sends nothing for it. Its last parts say what a step     *)
(* reads from the client's messages, what it sends (ServerReads,           *)
(* ServerSends), and that the end of a response is sent when its time has  *)
(* come (Entered, Settles): that is how StreamingRpcProof joins it to a    *)
(* client.                                                                 *)
(***************************************************************************)
EXTENDS OpenStreamProcessor, FiniteSetTheorems, SequenceTheorems, TLAPS

MicroTask == [call: Nat \ {0}, kind: {"next", "complete", "error"}, val: Nat]

(* The counters of one call: what subscribeCompleteObserver was told is how *)
(* the response ended; static calls have no observer.                       *)
RecordOK(r) ==
  /\ r.obs.completed => r.res = "completed"
  /\ r.obs.completeCalled => r.obs.completed /\ r.obs.tasks = 0
  /\ r.kind = "static" => r.obs = NewObserver

(* A waiting value is among the last obs.tasks of those emitted; the final  *)
(* task tells how the response ended.                                       *)
TaskOK(t, r) ==
  /\ r.kind = "stream"
  /\ t.kind = "next" => t.val <= r.emitted /\ t.val + r.obs.tasks > r.emitted
  /\ t.kind = "complete" => r.res = "completed"
  /\ t.kind = "error" => r.res = "errored"

(* The values of a call wait in order, and the end after them.              *)
Ordered(ms) ==
  \A j, k \in 1 .. Len(ms) : j < k /\ ms[j].call = ms[k].call =>
    /\ ms[j].kind = "next"
    /\ ms[k].kind = "next" => ms[j].val < ms[k].val

FinalWaits(ms, i) ==
  \E k \in 1 .. Len(ms) : ms[k].call = i /\ ms[k].kind # "next"

(* The call i an entry refers to, its record being r: once the response has *)
(* ended, only its final task keeps the entry.                              *)
EntryOK(id, i, r, ms) ==
  /\ r.kind = "stream" /\ r.id = id /\ ~r.unsubscribed
  /\ r.res # "open" => ~r.obs.completeCalled /\ FinalWaits(ms, i)

CallsOK(cs) == \A i \in 1 .. Len(cs) : RecordOK(cs[i])

TasksOK(ms, cs) ==
  /\ \A k \in 1 .. Len(ms) : ms[k].call \in 1 .. Len(cs) /\ TaskOK(ms[k], cs[ms[k].call])
  /\ Ordered(ms)

EntriesOK(act, cs, ms) ==
  \A id \in Id : act[id] # 0 => act[id] \in 1 .. Len(cs) /\ EntryOK(id, act[id], cs[act[id]], ms)

SendTypeOK == srvBuf \in Seq(ServerMessage) /\ srvTimer \in BOOLEAN /\ s2c \in Seq(Seq(ServerMessage))

ServerTyped ==
  /\ srvCalls \in Seq(ServerCall)
  /\ activeStreamCalls \in [Id -> Nat]
  /\ srvMicrotasks \in Seq(MicroTask)
  /\ srvInbox \in Seq(ClientMessage) /\ c2s \in Seq(Seq(ClientMessage))
  /\ srvStopped \in BOOLEAN
  /\ SendTypeOK

ServerInv ==
  /\ ServerTyped
  /\ CallsOK(srvCalls)
  /\ TasksOK(srvMicrotasks, srvCalls)
  /\ EntriesOK(activeStreamCalls, srvCalls, srvMicrotasks)

(* What the action property says of a step.                                 *)
EndsOnce ==
  \A m \in SentMessages :
    /\ m.by \in DOMAIN srvCalls => ~ResponseEnded(m.by)
    /\ m.type # "ResponseData" /\ m.by # 0 => ResponseEnded(m.by)'

-----------------------------------------------------------------------------
(* Sequences.                                                               *)
LEMMA AppendOne ==
  ASSUME NEW S, NEW s \in Seq(S), NEW e \in S
  PROVE  /\ Append(s, e) \in Seq(S)
         /\ Len(s) \in Nat /\ Len(Append(s, e)) = Len(s) + 1
         /\ \A i \in 1 .. Len(s) : Append(s, e)[i] = s[i]
         /\ Append(s, e)[Len(s) + 1] = e
OBVIOUS

LEMMA TakeOne ==
  ASSUME NEW S, NEW s \in Seq(S), s # <<>>
  PROVE  /\ Head(s) = s[1] /\ Head(s) \in S
         /\ Tail(s) \in Seq(S)
         /\ Len(s) \in Nat \ {0} /\ Len(Tail(s)) = Len(s) - 1
         /\ \A i \in 1 .. Len(Tail(s)) : Tail(s)[i] = s[i + 1]
BY HeadTailProperties, EmptySeq

LEMMA ReplaceOne ==
  ASSUME NEW S, NEW s \in Seq(S), NEW i \in 1 .. Len(s), NEW e \in S
  PROVE  /\ [s EXCEPT ![i] = e] \in Seq(S)
         /\ Len([s EXCEPT ![i] = e]) = Len(s)
         /\ [s EXCEPT ![i] = e][i] = e
         /\ \A j \in 1 .. Len(s) : j # i => [s EXCEPT ![i] = e][j] = s[j]
OBVIOUS

LEMMA ReplaceLast ==
  ASSUME NEW S, NEW s \in Seq(S), NEW a \in S, NEW b \in S
  PROVE  [Append(s, a) EXCEPT ![Len(s) + 1] = b] = Append(s, b)
<1>1. PICK t \in Seq(S) :
        /\ t = Append(s, a) /\ Len(t) = Len(s) + 1
        /\ \A i \in 1 .. Len(s) : t[i] = s[i]
  <2>1. Append(s, a) \in Seq(S)
    BY AppendOne
  <2>2. /\ Len(Append(s, a)) = Len(s) + 1
        /\ \A i \in 1 .. Len(s) : Append(s, a)[i] = s[i]
    BY AppendOne
  <2> QED BY <2>1, <2>2
<1>2. PICK n \in 1 .. Len(t) : n = Len(s) + 1
  BY <1>1
<1> DEFINE f == [t EXCEPT ![n] = b]
           g == Append(s, b)
<1>3. /\ f \in Seq(S) /\ Len(f) = Len(t) /\ f[n] = b
      /\ \A i \in 1 .. Len(t) : i # n => f[i] = t[i]
  BY ReplaceOne
<1>4. /\ g \in Seq(S) /\ Len(s) \in Nat /\ Len(g) = Len(s) + 1 /\ g[Len(s) + 1] = b
      /\ \A i \in 1 .. Len(s) : g[i] = s[i]
  BY AppendOne
<1> HIDE DEF f, g
<1>5. Len(f) = Len(g) /\ \A i \in 1 .. Len(f) : f[i] = g[i]
  BY <1>1, <1>2, <1>3, <1>4
<1>6. f = g
  BY <1>3, <1>4, <1>5, SeqEqual
<1> QED BY <1>1, <1>2, <1>6 DEF f, g

LEMMA Indices ==
  ASSUME NEW S, NEW s \in Seq(S)
  PROVE  /\ Len(s) \in Nat /\ DOMAIN s = 1 .. Len(s)
         /\ \A i \in 1 .. Len(s) : s[i] \in S
OBVIOUS

-----------------------------------------------------------------------------
(* Sending.                                                                 *)
LEMMA SendTypes ==
  ASSUME SendTypeOK, NEW m \in ServerMessage, Send(m)
  PROVE  SendTypeOK' /\ SentMessages \subseteq {m}
<1> DEFINE items == Append(srvBuf, m)
<1>1. /\ srvBuf \in Seq(ServerMessage) /\ s2c \in Seq(Seq(ServerMessage))
      /\ Len(srvBuf) \in Nat /\ Len(s2c) \in Nat
  BY DEF SendTypeOK
<1>2. /\ items \in Seq(ServerMessage) /\ Len(items) = Len(srvBuf) + 1 /\ items[Len(srvBuf) + 1] = m
  BY <1>1, AppendOne
<1>3. items # <<>>
  BY <1>1, <1>2
<1> HIDE DEF items
<1>4. CASE SrvBuffer!FlushList(items)
  <2>1. srvBuf' = <<>> /\ srvTimer' = FALSE /\ s2c' = Append(s2c, items)
    BY <1>3, <1>4 DEF SrvBuffer!FlushList
  <2>2. s2c' \in Seq(Seq(ServerMessage)) /\ Len(s2c') = Len(s2c) + 1 /\ s2c'[Len(s2c')] = items
    BY <1>1, <1>2, <2>1, AppendOne
  <2>3. SendTypeOK'
    BY <2>1, <2>2, EmptySeq DEF SendTypeOK
  <2>4. SentMessages = {items[k] : k \in (Len(srvBuf) + 1) .. Len(items)}
    BY <1>1, <2>2 DEF SentMessages
  <2> QED BY <1>1, <1>2, <2>3, <2>4
<1>5. CASE srvBuf' = items /\ srvTimer' = TRUE /\ s2c' = s2c
  <2>1. SentMessages = {items[k] : k \in (Len(srvBuf) + 1) .. Len(items)}
    BY <1>1, <1>5 DEF SentMessages
  <2> QED BY <1>1, <1>2, <1>5, <2>1 DEF SendTypeOK
<1>6. CASE UNCHANGED <<srvBuf, srvTimer, s2c>>
  <2>1. SentMessages = {}
    BY <1>1, <1>6 DEF SentMessages
  <2> QED BY <1>6, <2>1 DEF SendTypeOK
<1> QED BY <1>4, <1>5, <1>6 DEF Send, SrvBuffer!Push, items

LEMMA NothingSentTypes ==
  ASSUME SendTypeOK, NothingSent
  PROVE  SendTypeOK' /\ EndsOnce
<1>1. Len(srvBuf) \in Nat /\ Len(s2c) \in Nat
  BY DEF SendTypeOK
<1>2. SentMessages = {}
  BY <1>1 DEF SentMessages, NothingSent
<1> QED BY <1>2 DEF SendTypeOK, NothingSent, EndsOnce

LEMMA TimerTypes ==
  ASSUME SendTypeOK, SrvBuffer!TimerFires
  PROVE  SendTypeOK' /\ EndsOnce
<1>1. /\ srvBuf \in Seq(ServerMessage) /\ s2c \in Seq(Seq(ServerMessage))
      /\ Len(srvBuf) \in Nat /\ Len(s2c) \in Nat
  BY DEF SendTypeOK
<1>2. /\ srvBuf' = <<>> /\ srvTimer' = FALSE
      /\ s2c' = IF srvBuf = <<>> THEN s2c ELSE Append(s2c, srvBuf)
  BY DEF SrvBuffer!TimerFires, SrvBuffer!FlushList
<1>3. CASE srvBuf = <<>>
  <2>1. s2c' = s2c /\ Len(srvBuf) = 0 /\ Len(srvBuf') = 0
    BY <1>2, <1>3
  <2>2. SentMessages = {}
    BY <1>1, <2>1 DEF SentMessages
  <2> QED BY <1>1, <1>2, <2>1, <2>2, EmptySeq DEF SendTypeOK, EndsOnce
<1>4. CASE srvBuf # <<>>
  <2>1. s2c' \in Seq(Seq(ServerMessage)) /\ Len(s2c') = Len(s2c) + 1 /\ s2c'[Len(s2c')] = srvBuf
    BY <1>1, <1>2, <1>4, AppendOne
  <2>2. SentMessages = {}
    BY <1>1, <2>1 DEF SentMessages
  <2> QED BY <1>2, <2>1, <2>2, EmptySeq DEF SendTypeOK, EndsOnce
<1> QED BY <1>3, <1>4

LEMMA ResponseTypes ==
  ASSUME NEW type \in ResponseType, NEW i \in Nat, NEW rec \in ServerCall, NEW val \in Nat
  PROVE  /\ Response(type, i, rec, val) \in ServerMessage
         /\ Response(type, i, rec, val).type = type /\ Response(type, i, rec, val).by = i
BY DEF ServerCall, Response, ServerMessage

(* A message of execution i, whose response had not ended; if it is final,  *)
(* the response has ended now.                                              *)
LEMMA ResponseSent ==
  ASSUME SendTypeOK, NEW type \in ResponseType, NEW i \in Nat, NEW rec \in ServerCall,
         NEW val \in Nat, Send(Response(type, i, rec, val)),
         i \in DOMAIN srvCalls => ~ResponseEnded(i),
         type # "ResponseData" => ResponseEnded(i)'
  PROVE  SendTypeOK' /\ EndsOnce
<1> DEFINE m == Response(type, i, rec, val)
<1>1. m \in ServerMessage /\ m.type = type /\ m.by = i
  BY ResponseTypes
<1> HIDE DEF m
<1>2. SendTypeOK' /\ SentMessages \subseteq {m}
  BY <1>1, SendTypes DEF m
<1>3. ASSUME NEW n \in SentMessages
      PROVE  /\ n.by \in DOMAIN srvCalls => ~ResponseEnded(n.by)
             /\ n.type # "ResponseData" /\ n.by # 0 => ResponseEnded(n.by)'
  <2>1. n.type = type /\ n.by = i
    BY <1>1, <1>2
  <2> QED BY <2>1
<1> QED BY <1>2, <1>3 DEF EndsOnce

LEMMA RefusalSent ==
  ASSUME SendTypeOK, NEW m \in ClientMessage, srvCalls \in Seq(ServerCall), SendError(m)
  PROVE  SendTypeOK' /\ EndsOnce
<1> DEFINE e == [type |-> "ResponseError", id |-> m.id, val |-> NoValue, of |-> m.of, by |-> 0]
<1>1. e \in ServerMessage /\ e.by = 0
  BY DEF ClientMessage, ServerMessage, ResponseType, NoValue
<1> HIDE DEF e
<1>2. SendTypeOK' /\ SentMessages \subseteq {e}
  BY <1>1, SendTypes DEF SendError, e
<1>3. 0 \notin DOMAIN srvCalls
  BY Indices
<1> QED BY <1>1, <1>2, <1>3 DEF EndsOnce

-----------------------------------------------------------------------------
(* What a step that concerns only the request stream leaves as it is.       *)
Alike(old, new) ==
  /\ new.kind = old.kind /\ new.id = old.id /\ new.emitted = old.emitted
  /\ new.obs = old.obs /\ new.res = old.res

(* A static call settles, and no microtask tells of that.                   *)
Follows(old, new) == Alike(old, new) \/ (old.kind = "static" /\ RecordOK(new))

LEMMA AlikeKept ==
  ASSUME ServerInv, srvCalls' \in Seq(ServerCall), Len(srvCalls') >= Len(srvCalls),
         \A i \in 1 .. Len(srvCalls) : Follows(srvCalls[i], srvCalls'[i])
  PROVE  TasksOK(srvMicrotasks, srvCalls') /\ \A i \in 1 .. Len(srvCalls) : RecordOK(srvCalls'[i])
<1>1. Len(srvCalls) \in Nat /\ Len(srvCalls') \in Nat
  BY Indices DEF ServerInv, ServerTyped
<1>2. ASSUME NEW k \in 1 .. Len(srvMicrotasks)
      PROVE  /\ srvMicrotasks[k].call \in 1 .. Len(srvCalls')
             /\ TaskOK(srvMicrotasks[k], srvCalls'[srvMicrotasks[k].call])
  <2> DEFINE i == srvMicrotasks[k].call
  <2>1. i \in 1 .. Len(srvCalls) /\ TaskOK(srvMicrotasks[k], srvCalls[i])
    BY DEF ServerInv, TasksOK
  <2>2. i \in 1 .. Len(srvCalls')
    BY <1>1, <2>1
  <2>3. Alike(srvCalls[i], srvCalls'[i])
    BY <2>1 DEF TaskOK, Follows
  <2> HIDE DEF i
  <2>4. TaskOK(srvMicrotasks[k], srvCalls'[i])
    BY <2>1, <2>3 DEF TaskOK, Alike
  <2> QED BY <2>2, <2>4 DEF i
<1>3. ASSUME NEW i \in 1 .. Len(srvCalls) PROVE RecordOK(srvCalls'[i])
  BY DEF ServerInv, CallsOK, RecordOK, Alike, Follows
<1> QED BY <1>2, <1>3 DEF TasksOK, ServerInv

LEMMA EntryAlike ==
  ASSUME NEW id, NEW i, NEW old, NEW new, NEW ms, EntryOK(id, i, old, ms),
         Alike(old, new), new.unsubscribed = old.unsubscribed
  PROVE  EntryOK(id, i, new, ms)
BY DEF EntryOK, Alike

LEMMA CallTypes ==
  ASSUME NEW m \in ClientMessage
  PROVE  /\ \A kind \in {"static", "stream"} :
              /\ NewCall(m, kind) \in ServerCall
              /\ NewCall(m, kind).kind = kind /\ NewCall(m, kind).id = m.id
              /\ NewCall(m, kind).res = "open" /\ NewCall(m, kind).obs = NewObserver
              /\ ~NewCall(m, kind).unsubscribed
         /\ m.id \in Id /\ m.val \in Nat
<1>1. <<>> \in Seq(Nat) /\ 0 \in 0 .. MaxResponseValues /\ NewObserver \in ObserverState
  BY ServerAssumption, EmptySeq DEF NewObserver, ObserverState
<1>2. m.id \in Id /\ m.val \in Nat /\ m.of \in Call \cup {NoCall}
  BY DEF ClientMessage
<1> QED BY <1>1, <1>2 DEF NewCall, ServerCall

LEMMA ValueTypes ==
  ASSUME NEW rec \in ServerCall, NEW val \in Nat
  PROVE  /\ RequestValue(rec, val) \in ServerCall
         /\ Alike(rec, RequestValue(rec, val)) /\ RequestValue(rec, val).unsubscribed = rec.unsubscribed
         /\ RequestValue(rec, val).req = rec.req
<1>1. rec.got \in Seq(Nat) /\ Append(rec.got, val) \in Seq(Nat)
  BY DEF ServerCall
<1> QED BY <1>1 DEF RequestValue, Alike, ServerCall

LEMMA EndTypes ==
  ASSUME NEW rec \in ServerCall, NEW how \in {"completed", "errored"}
  PROVE  /\ RequestEnd(rec, how) \in ServerCall
         /\ Alike(rec, RequestEnd(rec, how)) /\ RequestEnd(rec, how).unsubscribed = rec.unsubscribed
BY DEF RequestEnd, Alike, ServerCall

LEMMA NewIsAlike ==
  ASSUME NEW m \in ClientMessage, NEW new \in ServerCall, Alike(NewCall(m, "stream"), new),
         new.unsubscribed = FALSE
  PROVE  RecordOK(new) /\ \A ms : EntryOK(m.id, Len(srvCalls) + 1, new, ms)
<1>1. new.kind = "stream" /\ new.id = m.id /\ new.res = "open" /\ new.obs = NewObserver
  BY CallTypes DEF Alike
<1>2. ~NewObserver.completed /\ ~NewObserver.completeCalled
  BY DEF NewObserver
<1> QED BY <1>1, <1>2 DEF RecordOK, EntryOK

-----------------------------------------------------------------------------
(* Steps that replace the record of one call, or add one.                   *)

(* Only the request stream changes, and perhaps entries go.                 *)
LEMMA RequestStep ==
  ASSUME ServerInv, NEW i \in 1 .. Len(srvCalls), NEW rec \in ServerCall,
         Alike(srvCalls[i], rec), srvCalls' = [srvCalls EXCEPT ![i] = rec],
         srvMicrotasks' = srvMicrotasks, activeStreamCalls' \in [Id -> Nat],
         \A id \in Id : activeStreamCalls'[id] # 0 =>
            /\ activeStreamCalls'[id] = activeStreamCalls[id]
            /\ activeStreamCalls[id] = i => rec.unsubscribed = srvCalls[i].unsubscribed
  PROVE  /\ srvCalls' \in Seq(ServerCall) /\ CallsOK(srvCalls')
         /\ TasksOK(srvMicrotasks', srvCalls')
         /\ EntriesOK(activeStreamCalls', srvCalls', srvMicrotasks')
<1>1. srvCalls \in Seq(ServerCall) /\ srvMicrotasks \in Seq(MicroTask)
  BY DEF ServerInv, ServerTyped
<1>2. /\ srvCalls' \in Seq(ServerCall) /\ Len(srvCalls') = Len(srvCalls) /\ srvCalls'[i] = rec
      /\ \A j \in 1 .. Len(srvCalls) : j # i => srvCalls'[j] = srvCalls[j]
  BY <1>1, ReplaceOne
<1>3. \A j \in 1 .. Len(srvCalls) : Alike(srvCalls[j], srvCalls'[j])
  BY <1>2 DEF Alike
<1>4. Len(srvCalls') >= Len(srvCalls)
  BY <1>1, <1>2
<1>5. TasksOK(srvMicrotasks, srvCalls') /\ \A j \in 1 .. Len(srvCalls) : RecordOK(srvCalls'[j])
  <2>1. \A j \in 1 .. Len(srvCalls) : Follows(srvCalls[j], srvCalls'[j])
    BY <1>3 DEF Follows
  <2> QED BY <1>2, <1>4, <2>1, AlikeKept
<1>6. ASSUME NEW id \in Id, activeStreamCalls'[id] # 0
      PROVE  /\ activeStreamCalls'[id] \in 1 .. Len(srvCalls')
             /\ EntryOK(id, activeStreamCalls'[id], srvCalls'[activeStreamCalls'[id]], srvMicrotasks')
  <2> DEFINE j == activeStreamCalls[id]
  <2>1. activeStreamCalls'[id] = j /\ j # 0
    BY <1>6
  <2>2. j \in 1 .. Len(srvCalls) /\ EntryOK(id, j, srvCalls[j], srvMicrotasks)
    BY <2>1 DEF ServerInv, EntriesOK
  <2>3. srvCalls'[j].unsubscribed = srvCalls[j].unsubscribed
    BY <1>2, <1>6, <2>2
  <2> HIDE DEF j
  <2>4. EntryOK(id, j, srvCalls'[j], srvMicrotasks)
    BY <1>3, <2>2, <2>3, EntryAlike
  <2> QED BY <1>2, <2>1, <2>2, <2>4
<1>7. CallsOK(srvCalls')
  BY <1>2, <1>5 DEF CallsOK
<1>8. EntriesOK(activeStreamCalls', srvCalls', srvMicrotasks')
  BY <1>6 DEF EntriesOK
<1>9. TasksOK(srvMicrotasks', srvCalls')
  BY <1>5
<1> QED BY <1>2, <1>7, <1>8, <1>9

(* A new call.                                                              *)
LEMMA NewCallStep ==
  ASSUME ServerInv, NEW rec \in ServerCall, RecordOK(rec),
         srvCalls' = Append(srvCalls, rec), srvMicrotasks' = srvMicrotasks,
         activeStreamCalls' \in [Id -> Nat],
         \A id \in Id : \/ activeStreamCalls'[id] \in {0, activeStreamCalls[id]}
                        \/ /\ activeStreamCalls'[id] = Len(srvCalls) + 1
                           /\ EntryOK(id, Len(srvCalls) + 1, rec, srvMicrotasks)
  PROVE  /\ srvCalls' \in Seq(ServerCall) /\ CallsOK(srvCalls')
         /\ TasksOK(srvMicrotasks', srvCalls')
         /\ EntriesOK(activeStreamCalls', srvCalls', srvMicrotasks')
<1>1. srvCalls \in Seq(ServerCall) /\ srvMicrotasks \in Seq(MicroTask)
  BY DEF ServerInv, ServerTyped
<1>2. /\ srvCalls' \in Seq(ServerCall) /\ Len(srvCalls) \in Nat /\ Len(srvCalls') = Len(srvCalls) + 1
      /\ srvCalls'[Len(srvCalls) + 1] = rec
      /\ \A j \in 1 .. Len(srvCalls) : srvCalls'[j] = srvCalls[j]
  BY <1>1, AppendOne
<1>3. \A j \in 1 .. Len(srvCalls) : Alike(srvCalls[j], srvCalls'[j])
  BY <1>2 DEF Alike
<1>4. Len(srvCalls') >= Len(srvCalls)
  BY <1>2
<1>5. TasksOK(srvMicrotasks, srvCalls') /\ \A j \in 1 .. Len(srvCalls) : RecordOK(srvCalls'[j])
  <2>1. \A j \in 1 .. Len(srvCalls) : Follows(srvCalls[j], srvCalls'[j])
    BY <1>3 DEF Follows
  <2> QED BY <1>2, <1>4, <2>1, AlikeKept
<1>6. ASSUME NEW j \in 1 .. Len(srvCalls') PROVE RecordOK(srvCalls'[j])
  BY <1>2, <1>5
<1>7. ASSUME NEW id \in Id, activeStreamCalls'[id] # 0
      PROVE  /\ activeStreamCalls'[id] \in 1 .. Len(srvCalls')
             /\ EntryOK(id, activeStreamCalls'[id], srvCalls'[activeStreamCalls'[id]], srvMicrotasks')
  <2>1. CASE activeStreamCalls'[id] = Len(srvCalls) + 1 /\ EntryOK(id, Len(srvCalls) + 1, rec, srvMicrotasks)
    BY <1>2, <2>1
  <2>2. CASE activeStreamCalls'[id] = activeStreamCalls[id]
    <3>1. activeStreamCalls[id] \in 1 .. Len(srvCalls)
          /\ EntryOK(id, activeStreamCalls[id], srvCalls[activeStreamCalls[id]], srvMicrotasks)
      BY <1>7, <2>2 DEF ServerInv, EntriesOK
    <3>2. activeStreamCalls[id] \in 1 .. Len(srvCalls')
      BY <1>2, <3>1
    <3> QED BY <1>2, <2>2, <3>1, <3>2
  <2> QED BY <1>7, <2>1, <2>2
<1>8. CallsOK(srvCalls')
  BY <1>6 DEF CallsOK
<1>9. EntriesOK(activeStreamCalls', srvCalls', srvMicrotasks')
  BY <1>7 DEF EntriesOK
<1>10. TasksOK(srvMicrotasks', srvCalls')
  BY <1>5
<1> QED BY <1>2, <1>8, <1>9, <1>10

-----------------------------------------------------------------------------
(* The response stream ends.                                                *)
FinalKind(how) == IF how = "completed" THEN "complete" ELSE "error"

Ends(old, new, how) ==
  /\ old.kind = "stream" /\ old.res = "open"
  /\ new.kind = old.kind /\ new.id = old.id /\ new.emitted = old.emitted
  /\ new.unsubscribed = old.unsubscribed
  /\ new.res = how
  /\ new.obs = IF how = "completed" THEN SourceCompleted(old.obs) ELSE old.obs

LEMMA EndsRecord ==
  ASSUME NEW old \in ServerCall, NEW new \in ServerCall, NEW how \in {"completed", "errored"},
         Ends(old, new, how), RecordOK(old)
  PROVE  /\ RecordOK(new) /\ ~old.obs.completeCalled /\ ~new.obs.completeCalled
         /\ new.obs.tasks = old.obs.tasks /\ old.obs.tasks \in Nat
         /\ old.kind = "stream" /\ old.res = "open" /\ new.res = how /\ new.id = old.id
         /\ new.kind = "stream" /\ new.emitted = old.emitted /\ new.unsubscribed = old.unsubscribed
<1>1. old.obs \in ObserverState /\ ~old.obs.completed /\ ~old.obs.completeCalled
  BY DEF RecordOK, Ends, ServerCall
<1>2. /\ SourceCompleted(old.obs).completed
      /\ SourceCompleted(old.obs).completeCalled = old.obs.completeCalled
      /\ SourceCompleted(old.obs).tasks = old.obs.tasks
  BY <1>1 DEF SourceCompleted, ObserverState
<1>3. old.obs.tasks \in Nat
  BY <1>1 DEF ObserverState
<1> QED BY <1>1, <1>2, <1>3 DEF RecordOK, Ends

(* The tasks of a call whose response is open are values; none waits when   *)
(* the counter is zero.                                                     *)
LEMMA OpenCallTasks ==
  ASSUME ServerInv, NEW i \in 1 .. Len(srvCalls), srvCalls[i].res = "open",
         NEW k \in 1 .. Len(srvMicrotasks), srvMicrotasks[k].call = i
  PROVE  srvMicrotasks[k].kind = "next" /\ srvCalls[i].obs.tasks # 0
<1>1. srvCalls[i] \in ServerCall /\ srvMicrotasks[k] \in MicroTask
  BY Indices DEF ServerInv, ServerTyped
<1>2. TaskOK(srvMicrotasks[k], srvCalls[i])
  BY DEF ServerInv, TasksOK
<1>3. srvMicrotasks[k].kind = "next"
  BY <1>1, <1>2 DEF TaskOK, MicroTask
<1>4. srvMicrotasks[k].val \in Nat /\ srvCalls[i].emitted \in Nat
  BY <1>1, ServerAssumption DEF MicroTask, ServerCall
<1> QED BY <1>2, <1>3, <1>4 DEF TaskOK

LEMMA EndAtOnce ==
  ASSUME ServerInv, NEW i \in 1 .. Len(srvCalls), NEW rec \in ServerCall,
         NEW how \in {"completed", "errored"}, Ends(srvCalls[i], rec, how),
         srvCalls[i].obs.tasks = 0, srvCalls' = [srvCalls EXCEPT ![i] = rec],
         srvMicrotasks' = srvMicrotasks,
         activeStreamCalls' = [activeStreamCalls EXCEPT ![rec.id] = 0]
  PROVE  /\ srvCalls' \in Seq(ServerCall) /\ CallsOK(srvCalls')
         /\ TasksOK(srvMicrotasks', srvCalls')
         /\ activeStreamCalls' \in [Id -> Nat]
         /\ EntriesOK(activeStreamCalls', srvCalls', srvMicrotasks')
         /\ ~ResponseEnded(i) /\ ResponseEnded(i)'
<1>1. /\ srvCalls \in Seq(ServerCall) /\ srvMicrotasks \in Seq(MicroTask)
      /\ activeStreamCalls \in [Id -> Nat] /\ srvCalls[i] \in ServerCall /\ RecordOK(srvCalls[i])
      /\ DOMAIN srvMicrotasks = 1 .. Len(srvMicrotasks)
  BY Indices DEF ServerInv, ServerTyped, CallsOK
<1>2. /\ srvCalls' \in Seq(ServerCall) /\ Len(srvCalls') = Len(srvCalls) /\ srvCalls'[i] = rec
      /\ \A j \in 1 .. Len(srvCalls) : j # i => srvCalls'[j] = srvCalls[j]
  BY <1>1, ReplaceOne
<1>3. /\ RecordOK(rec) /\ srvCalls[i].res = "open" /\ rec.res = how /\ rec.id = srvCalls[i].id
      /\ rec.id \in Id
  <2>1. rec.id \in Id
    BY DEF ServerCall
  <2> QED BY <1>1, <2>1, EndsRecord
<1>4. \A k \in 1 .. Len(srvMicrotasks) : srvMicrotasks[k].call # i
  BY <1>3, OpenCallTasks
<1>5. CallsOK(srvCalls')
  BY <1>2, <1>3 DEF CallsOK, ServerInv
<1>6. TasksOK(srvMicrotasks', srvCalls')
  <2>1. ASSUME NEW k \in 1 .. Len(srvMicrotasks)
        PROVE  /\ srvMicrotasks[k].call \in 1 .. Len(srvCalls')
               /\ TaskOK(srvMicrotasks[k], srvCalls'[srvMicrotasks[k].call])
    BY <1>2, <1>4 DEF ServerInv, TasksOK
  <2>2. Ordered(srvMicrotasks)
    BY DEF ServerInv, TasksOK
  <2> QED BY <2>1, <2>2 DEF TasksOK
<1>7. /\ activeStreamCalls' \in [Id -> Nat] /\ activeStreamCalls'[rec.id] = 0
      /\ \A id \in Id : id # rec.id => activeStreamCalls'[id] = activeStreamCalls[id]
  BY <1>1, <1>3
<1>8. ASSUME NEW id \in Id, activeStreamCalls'[id] # 0
      PROVE  /\ activeStreamCalls'[id] \in 1 .. Len(srvCalls')
             /\ EntryOK(id, activeStreamCalls'[id], srvCalls'[activeStreamCalls'[id]], srvMicrotasks')
  <2> DEFINE j == activeStreamCalls[id]
  <2>1. id # rec.id /\ activeStreamCalls'[id] = j /\ j # 0
    BY <1>7, <1>8
  <2>2. j \in 1 .. Len(srvCalls) /\ EntryOK(id, j, srvCalls[j], srvMicrotasks)
    BY <2>1 DEF ServerInv, EntriesOK
  <2> HIDE DEF j
  <2>3. j # i
    BY <1>3, <2>1, <2>2 DEF EntryOK
  <2> QED BY <1>2, <2>1, <2>2, <2>3
<1>9. EntriesOK(activeStreamCalls', srvCalls', srvMicrotasks')
  BY <1>8 DEF EntriesOK
<1>10. ~ResponseEnded(i)
  BY <1>3 DEF ResponseEnded
<1>11. ResponseEnded(i)'
  BY <1>1, <1>2, <1>3, <1>4 DEF ResponseEnded
<1> QED BY <1>2, <1>5, <1>6, <1>7, <1>9, <1>10, <1>11

(* A task joins the queue.                                                  *)
LEMMA QueueOne ==
  ASSUME ServerInv, NEW t \in MicroTask, srvMicrotasks' = Append(srvMicrotasks, t),
         \A k \in 1 .. Len(srvMicrotasks) : srvMicrotasks[k].call = t.call =>
           /\ srvMicrotasks[k].kind = "next"
           /\ t.kind = "next" => srvMicrotasks[k].val < t.val
  PROVE  /\ srvMicrotasks' \in Seq(MicroTask)
         /\ Len(srvMicrotasks) \in Nat /\ Len(srvMicrotasks') = Len(srvMicrotasks) + 1
         /\ \A k \in 1 .. Len(srvMicrotasks) : srvMicrotasks'[k] = srvMicrotasks[k]
         /\ srvMicrotasks'[Len(srvMicrotasks) + 1] = t
         /\ Ordered(srvMicrotasks')
         /\ \A i : FinalWaits(srvMicrotasks, i) => FinalWaits(srvMicrotasks', i)
         /\ t.kind # "next" => FinalWaits(srvMicrotasks', t.call)
<1>1. /\ srvMicrotasks' \in Seq(MicroTask)
      /\ Len(srvMicrotasks) \in Nat /\ Len(srvMicrotasks') = Len(srvMicrotasks) + 1
      /\ \A k \in 1 .. Len(srvMicrotasks) : srvMicrotasks'[k] = srvMicrotasks[k]
      /\ srvMicrotasks'[Len(srvMicrotasks) + 1] = t
  BY AppendOne DEF ServerInv, ServerTyped
<1>2. ASSUME NEW j \in 1 .. Len(srvMicrotasks'), NEW k \in 1 .. Len(srvMicrotasks'), j < k,
             srvMicrotasks'[j].call = srvMicrotasks'[k].call
      PROVE  /\ srvMicrotasks'[j].kind = "next"
             /\ srvMicrotasks'[k].kind = "next" => srvMicrotasks'[j].val < srvMicrotasks'[k].val
  <2>1. j \in 1 .. Len(srvMicrotasks) /\ srvMicrotasks'[j] = srvMicrotasks[j]
    BY <1>1, <1>2
  <2>2. CASE k \in 1 .. Len(srvMicrotasks)
    BY <1>1, <1>2, <2>1, <2>2 DEF ServerInv, TasksOK, Ordered
  <2>3. CASE k = Len(srvMicrotasks) + 1
    BY <1>1, <1>2, <2>1, <2>3
  <2> QED BY <1>1, <2>2, <2>3
<1>3. \A k \in 1 .. Len(srvMicrotasks) : k \in 1 .. Len(srvMicrotasks')
  BY <1>1
<1>4. \A i : FinalWaits(srvMicrotasks, i) => FinalWaits(srvMicrotasks', i)
  BY <1>1, <1>3 DEF FinalWaits
<1>5. t.kind # "next" => FinalWaits(srvMicrotasks', t.call)
  <2>1. Len(srvMicrotasks) + 1 \in 1 .. Len(srvMicrotasks')
    BY <1>1
  <2> QED BY <1>1, <2>1 DEF FinalWaits
<1>6. Ordered(srvMicrotasks')
  BY <1>2 DEF Ordered
<1> QED BY <1>1, <1>4, <1>5, <1>6

LEMMA EndLater ==
  ASSUME ServerInv, NEW i \in 1 .. Len(srvCalls), NEW rec \in ServerCall,
         NEW how \in {"completed", "errored"}, Ends(srvCalls[i], rec, how),
         srvCalls' = [srvCalls EXCEPT ![i] = rec],
         srvMicrotasks' = Append(srvMicrotasks, SrvTask(i, FinalKind(how), NoValue)),
         activeStreamCalls' = activeStreamCalls
  PROVE  /\ srvCalls' \in Seq(ServerCall) /\ CallsOK(srvCalls')
         /\ srvMicrotasks' \in Seq(MicroTask) /\ TasksOK(srvMicrotasks', srvCalls')
         /\ EntriesOK(activeStreamCalls', srvCalls', srvMicrotasks')
<1> DEFINE t == SrvTask(i, FinalKind(how), NoValue)
<1>1. /\ srvCalls \in Seq(ServerCall) /\ srvMicrotasks \in Seq(MicroTask)
      /\ srvCalls[i] \in ServerCall /\ RecordOK(srvCalls[i])
  BY Indices DEF ServerInv, ServerTyped, CallsOK
<1>2. /\ srvCalls' \in Seq(ServerCall) /\ Len(srvCalls') = Len(srvCalls) /\ srvCalls'[i] = rec
      /\ \A j \in 1 .. Len(srvCalls) : j # i => srvCalls'[j] = srvCalls[j]
  BY <1>1, ReplaceOne
<1>3. /\ RecordOK(rec) /\ srvCalls[i].res = "open" /\ rec.res = how /\ rec.id = srvCalls[i].id
      /\ ~rec.obs.completeCalled /\ rec.obs.tasks = srvCalls[i].obs.tasks
      /\ rec.kind = "stream" /\ rec.emitted = srvCalls[i].emitted
      /\ rec.unsubscribed = srvCalls[i].unsubscribed
  BY <1>1, EndsRecord
<1>4. i \in Nat \ {0}
  BY Indices, <1>1
<1>5. t \in MicroTask /\ t.call = i /\ t.kind = FinalKind(how) /\ t.kind # "next"
  BY <1>4 DEF SrvTask, MicroTask, FinalKind, NoValue
<1>6. \A k \in 1 .. Len(srvMicrotasks) : srvMicrotasks[k].call = i => srvMicrotasks[k].kind = "next"
  BY <1>3, OpenCallTasks
<1> HIDE DEF t
<1>7. /\ srvMicrotasks' \in Seq(MicroTask)
      /\ Len(srvMicrotasks) \in Nat /\ Len(srvMicrotasks') = Len(srvMicrotasks) + 1
      /\ \A k \in 1 .. Len(srvMicrotasks) : srvMicrotasks'[k] = srvMicrotasks[k]
      /\ srvMicrotasks'[Len(srvMicrotasks) + 1] = t
      /\ Ordered(srvMicrotasks')
      /\ \A j : FinalWaits(srvMicrotasks, j) => FinalWaits(srvMicrotasks', j)
      /\ FinalWaits(srvMicrotasks', i)
  BY <1>5, <1>6, QueueOne DEF t
<1>8. CallsOK(srvCalls')
  BY <1>2, <1>3 DEF CallsOK, ServerInv
<1>9. ASSUME NEW k \in 1 .. Len(srvMicrotasks')
      PROVE  /\ srvMicrotasks'[k].call \in 1 .. Len(srvCalls')
             /\ TaskOK(srvMicrotasks'[k], srvCalls'[srvMicrotasks'[k].call])
  <2>1. CASE k = Len(srvMicrotasks) + 1
    <3>1. TaskOK(t, rec)
      BY <1>3, <1>5 DEF TaskOK, FinalKind
    <3> QED BY <1>2, <1>5, <1>7, <2>1, <3>1
  <2>2. CASE k \in 1 .. Len(srvMicrotasks) /\ srvMicrotasks[k].call = i
    <3>1. TaskOK(srvMicrotasks[k], srvCalls[i]) /\ srvMicrotasks[k].kind = "next"
      BY <1>6, <2>2 DEF ServerInv, TasksOK
    <3>2. TaskOK(srvMicrotasks[k], rec)
      BY <1>3, <3>1 DEF TaskOK
    <3> QED BY <1>2, <1>7, <2>2, <3>2
  <2>3. CASE k \in 1 .. Len(srvMicrotasks) /\ srvMicrotasks[k].call # i
    BY <1>2, <1>7, <2>3 DEF ServerInv, TasksOK
  <2> QED BY <1>7, <2>1, <2>2, <2>3
<1>10. TasksOK(srvMicrotasks', srvCalls')
  BY <1>7, <1>9 DEF TasksOK
<1>11. ASSUME NEW id \in Id, activeStreamCalls'[id] # 0
       PROVE  /\ activeStreamCalls'[id] \in 1 .. Len(srvCalls')
              /\ EntryOK(id, activeStreamCalls'[id], srvCalls'[activeStreamCalls'[id]], srvMicrotasks')
  <2> DEFINE j == activeStreamCalls[id]
  <2>1. j \in 1 .. Len(srvCalls) /\ EntryOK(id, j, srvCalls[j], srvMicrotasks)
    BY <1>11 DEF ServerInv, EntriesOK
  <2> HIDE DEF j
  <2>2. CASE j = i
    <3>1. EntryOK(id, j, rec, srvMicrotasks')
      BY <1>3, <1>7, <2>1, <2>2 DEF EntryOK
    <3> QED BY <1>2, <2>1, <2>2, <3>1 DEF j
  <2>3. CASE j # i
    <3>1. EntryOK(id, j, srvCalls[j], srvMicrotasks')
      BY <1>7, <2>1 DEF EntryOK
    <3> QED BY <1>2, <2>1, <2>3, <3>1 DEF j
  <2> QED BY <2>2, <2>3
<1>12. EntriesOK(activeStreamCalls', srvCalls', srvMicrotasks')
  BY <1>11 DEF EntriesOK
<1> QED BY <1>2, <1>7, <1>8, <1>10, <1>12

-----------------------------------------------------------------------------
(* Steps of the method and of its microtasks.                               *)
LEMMA EmitStep ==
  ASSUME ServerInv, NEW i \in 1 .. Len(srvCalls), MethodEmits(i)
  PROVE  ServerInv' /\ EndsOnce
<1> DEFINE rec == [srvCalls[i] EXCEPT !.emitted = @ + 1, !.obs = ValueQueued(@)]
           t == SrvTask(i, "next", srvCalls[i].emitted + 1)
<1>1. /\ srvCalls \in Seq(ServerCall) /\ srvMicrotasks \in Seq(MicroTask)
      /\ srvCalls[i] \in ServerCall /\ RecordOK(srvCalls[i])
  BY Indices DEF ServerInv, ServerTyped, CallsOK
<1>2. /\ srvCalls[i].kind = "stream" /\ srvCalls[i].res = "open"
      /\ srvCalls[i].emitted < MaxResponseValues
      /\ srvCalls' = [srvCalls EXCEPT ![i] = rec] /\ srvMicrotasks' = Append(srvMicrotasks, t)
      /\ NothingSent /\ UNCHANGED <<activeStreamCalls, srvInbox, srvStopped, c2s>>
  <2>1. [srvCalls EXCEPT ![i].emitted = @ + 1, ![i].obs = ValueQueued(@)] = [srvCalls EXCEPT ![i] = rec]
    BY <1>1 DEF ServerCall
  <2> QED BY <2>1 DEF MethodEmits, Invoked
<1>3. /\ srvCalls[i].obs \in ObserverState /\ ~srvCalls[i].obs.completed
      /\ ~srvCalls[i].obs.completeCalled /\ srvCalls[i].obs.tasks \in Nat
      /\ srvCalls[i].emitted \in Nat
  BY <1>1, <1>2, ServerAssumption, SMTT(30) DEF RecordOK, ServerCall, ObserverState
<1>4. /\ ValueQueued(srvCalls[i].obs) \in ObserverState
      /\ ValueQueued(srvCalls[i].obs).tasks = srvCalls[i].obs.tasks + 1
      /\ ValueQueued(srvCalls[i].obs).completed = srvCalls[i].obs.completed
      /\ ValueQueued(srvCalls[i].obs).completeCalled = srvCalls[i].obs.completeCalled
  BY <1>3 DEF ValueQueued, ObserverState
<1>5. /\ rec \in ServerCall /\ rec.kind = "stream" /\ rec.res = "open" /\ rec.id = srvCalls[i].id
      /\ rec.emitted = srvCalls[i].emitted + 1 /\ rec.obs.tasks = srvCalls[i].obs.tasks + 1
      /\ ~rec.obs.completed /\ ~rec.obs.completeCalled /\ rec.unsubscribed = srvCalls[i].unsubscribed
  <2>1. srvCalls[i].emitted + 1 \in 0 .. MaxResponseValues
    BY <1>2, <1>3, ServerAssumption
  <2>2. /\ rec.kind = "stream" /\ rec.res = "open" /\ rec.id = srvCalls[i].id
        /\ rec.emitted = srvCalls[i].emitted + 1 /\ rec.obs = ValueQueued(srvCalls[i].obs)
        /\ rec.unsubscribed = srvCalls[i].unsubscribed
    BY <1>1, <1>2 DEF ServerCall
  <2>3. rec \in ServerCall
    BY <1>1, <1>4, <2>1 DEF ServerCall
  <2> QED BY <1>3, <1>4, <2>2, <2>3
<1>6. i \in Nat \ {0}
  BY Indices, <1>1
<1>7. t \in MicroTask /\ t.call = i /\ t.kind = "next" /\ t.val = srvCalls[i].emitted + 1
  BY <1>3, <1>6 DEF SrvTask, MicroTask
<1> HIDE DEF rec, t
<1>8. /\ srvCalls' \in Seq(ServerCall) /\ Len(srvCalls') = Len(srvCalls) /\ srvCalls'[i] = rec
      /\ \A j \in 1 .. Len(srvCalls) : j # i => srvCalls'[j] = srvCalls[j]
  BY <1>1, <1>2, <1>5, ReplaceOne
<1>9. ASSUME NEW k \in 1 .. Len(srvMicrotasks), srvMicrotasks[k].call = i
      PROVE  /\ srvMicrotasks[k].kind = "next" /\ srvMicrotasks[k].val \in Nat
             /\ srvMicrotasks[k].val <= srvCalls[i].emitted
             /\ srvMicrotasks[k].val + srvCalls[i].obs.tasks > srvCalls[i].emitted
  <2>1. srvMicrotasks[k].kind = "next" /\ TaskOK(srvMicrotasks[k], srvCalls[i])
    BY <1>2, <1>9, OpenCallTasks DEF ServerInv, TasksOK
  <2>2. srvMicrotasks[k] \in MicroTask
    BY <1>1
  <2> QED BY <2>1, <2>2 DEF TaskOK, MicroTask
<1>10. \A k \in 1 .. Len(srvMicrotasks) : srvMicrotasks[k].call = t.call =>
         srvMicrotasks[k].kind = "next" /\ (t.kind = "next" => srvMicrotasks[k].val < t.val)
  BY <1>3, <1>7, <1>9
<1>11. /\ srvMicrotasks' \in Seq(MicroTask)
       /\ Len(srvMicrotasks) \in Nat /\ Len(srvMicrotasks') = Len(srvMicrotasks) + 1
       /\ \A k \in 1 .. Len(srvMicrotasks) : srvMicrotasks'[k] = srvMicrotasks[k]
       /\ srvMicrotasks'[Len(srvMicrotasks) + 1] = t
       /\ Ordered(srvMicrotasks')
       /\ \A j : FinalWaits(srvMicrotasks, j) => FinalWaits(srvMicrotasks', j)
  BY <1>2, <1>7, <1>10, QueueOne
<1>12. CallsOK(srvCalls')
  <2>1. RecordOK(rec)
    BY <1>5 DEF RecordOK
  <2> QED BY <1>8, <2>1 DEF CallsOK, ServerInv
<1>13. ASSUME NEW k \in 1 .. Len(srvMicrotasks')
       PROVE  /\ srvMicrotasks'[k].call \in 1 .. Len(srvCalls')
              /\ TaskOK(srvMicrotasks'[k], srvCalls'[srvMicrotasks'[k].call])
  <2>1. CASE k = Len(srvMicrotasks) + 1
    <3>1. TaskOK(t, rec)
      BY <1>3, <1>5, <1>7, SMTT(30) DEF TaskOK
    <3> QED BY <1>7, <1>8, <1>11, <2>1, <3>1
  <2>2. CASE k \in 1 .. Len(srvMicrotasks) /\ srvMicrotasks[k].call = i
    <3>1. /\ srvMicrotasks[k].kind = "next" /\ srvMicrotasks[k].val \in Nat
          /\ srvMicrotasks[k].val <= srvCalls[i].emitted
          /\ srvMicrotasks[k].val + srvCalls[i].obs.tasks > srvCalls[i].emitted
      BY <1>9, <2>2
    <3>2. /\ srvMicrotasks[k].val <= rec.emitted
          /\ srvMicrotasks[k].val + rec.obs.tasks > rec.emitted
      BY <1>3, <1>5, <3>1, SMTT(30)
    <3>3. TaskOK(srvMicrotasks[k], rec)
      BY <1>5, <3>1, <3>2 DEF TaskOK
    <3> QED BY <1>8, <1>11, <2>2, <3>3
  <2>3. CASE k \in 1 .. Len(srvMicrotasks) /\ srvMicrotasks[k].call # i
    BY <1>8, <1>11, <2>3 DEF ServerInv, TasksOK
  <2> QED BY <1>11, <2>1, <2>2, <2>3
<1>14. TasksOK(srvMicrotasks', srvCalls')
  BY <1>11, <1>13 DEF TasksOK
<1>15. ASSUME NEW id \in Id, activeStreamCalls'[id] # 0
       PROVE  /\ activeStreamCalls'[id] \in 1 .. Len(srvCalls')
              /\ EntryOK(id, activeStreamCalls'[id], srvCalls'[activeStreamCalls'[id]], srvMicrotasks')
  <2> DEFINE j == activeStreamCalls[id]
  <2>0. activeStreamCalls'[id] = j
    BY <1>2
  <2>1. j \in 1 .. Len(srvCalls) /\ EntryOK(id, j, srvCalls[j], srvMicrotasks)
    BY <1>15, <2>0 DEF ServerInv, EntriesOK
  <2> HIDE DEF j
  <2>2. CASE j = i
    <3>1. EntryOK(id, j, rec, srvMicrotasks')
      BY <1>5, <2>1, <2>2, <1>2 DEF EntryOK
    <3> QED BY <1>8, <2>0, <2>1, <2>2, <3>1
  <2>3. CASE j # i
    <3>1. EntryOK(id, j, srvCalls[j], srvMicrotasks')
      BY <1>11, <2>1 DEF EntryOK
    <3> QED BY <1>8, <2>0, <2>1, <2>3, <3>1
  <2> QED BY <2>2, <2>3
<1>16. EntriesOK(activeStreamCalls', srvCalls', srvMicrotasks')
  BY <1>15 DEF EntriesOK
<1>17. SendTypeOK' /\ EndsOnce
  BY <1>2, NothingSentTypes DEF ServerInv, ServerTyped
<1>18. ServerTyped'
  BY <1>2, <1>8, <1>11, <1>17 DEF ServerInv, ServerTyped
<1> QED BY <1>12, <1>14, <1>16, <1>17, <1>18 DEF ServerInv

(* The oldest microtask leaves the queue.                                   *)
LEMMA QueueRest ==
  ASSUME ServerInv, srvMicrotasks # <<>>, srvMicrotasks' = Tail(srvMicrotasks)
  PROVE  LET t == Head(srvMicrotasks) IN
         /\ t \in MicroTask /\ t.call \in 1 .. Len(srvCalls) /\ TaskOK(t, srvCalls[t.call])
         /\ srvMicrotasks' \in Seq(MicroTask) /\ Ordered(srvMicrotasks')
         /\ \A k \in 1 .. Len(srvMicrotasks') :
              /\ srvMicrotasks'[k] \in MicroTask /\ srvMicrotasks'[k].call \in 1 .. Len(srvCalls)
              /\ TaskOK(srvMicrotasks'[k], srvCalls[srvMicrotasks'[k].call])
              /\ srvMicrotasks'[k].call = t.call =>
                   /\ t.kind = "next"
                   /\ srvMicrotasks'[k].kind = "next" => t.val < srvMicrotasks'[k].val
         /\ \A i : FinalWaits(srvMicrotasks, i) /\ (t.kind = "next" \/ t.call # i)
                     => FinalWaits(srvMicrotasks', i)
         /\ ~ResponseEnded(t.call) \/ srvCalls[t.call].obs.completeCalled
<1> DEFINE t == Head(srvMicrotasks)
<1>1. /\ srvMicrotasks \in Seq(MicroTask) /\ t = srvMicrotasks[1] /\ t \in MicroTask
      /\ srvMicrotasks' \in Seq(MicroTask) /\ Len(srvMicrotasks) \in Nat \ {0}
      /\ Len(srvMicrotasks') = Len(srvMicrotasks) - 1
      /\ \A k \in 1 .. Len(srvMicrotasks') : srvMicrotasks'[k] = srvMicrotasks[k + 1]
      /\ DOMAIN srvMicrotasks = 1 .. Len(srvMicrotasks)
  BY TakeOne, Indices DEF ServerInv, ServerTyped
<1> HIDE DEF t
<1>2. 1 \in 1 .. Len(srvMicrotasks)
  BY <1>1
<1>3. \A k \in 1 .. Len(srvMicrotasks') : k + 1 \in 1 .. Len(srvMicrotasks) /\ 1 < k + 1
  BY <1>1
<1>4. t.call \in 1 .. Len(srvCalls) /\ TaskOK(t, srvCalls[t.call])
  BY <1>1, <1>2 DEF ServerInv, TasksOK
<1>5. ASSUME NEW k \in 1 .. Len(srvMicrotasks')
      PROVE  /\ srvMicrotasks'[k] \in MicroTask /\ srvMicrotasks'[k].call \in 1 .. Len(srvCalls)
             /\ TaskOK(srvMicrotasks'[k], srvCalls[srvMicrotasks'[k].call])
             /\ srvMicrotasks'[k].call = t.call =>
                  /\ t.kind = "next"
                  /\ srvMicrotasks'[k].kind = "next" => t.val < srvMicrotasks'[k].val
  <2> DEFINE u == srvMicrotasks[k + 1]
  <2>1. srvMicrotasks'[k] = u /\ k + 1 \in 1 .. Len(srvMicrotasks) /\ 1 < k + 1 /\ u \in MicroTask
    BY <1>1, <1>3
  <2>2. u.call \in 1 .. Len(srvCalls) /\ TaskOK(u, srvCalls[u.call])
    BY <2>1 DEF ServerInv, TasksOK
  <2>3. u.call = t.call => t.kind = "next" /\ (u.kind = "next" => t.val < u.val)
    BY <1>1, <1>2, <2>1 DEF ServerInv, TasksOK, Ordered
  <2> HIDE DEF u
  <2> QED BY <2>1, <2>2, <2>3
<1>6. ASSUME NEW j \in 1 .. Len(srvMicrotasks'), NEW k \in 1 .. Len(srvMicrotasks'), j < k,
             srvMicrotasks'[j].call = srvMicrotasks'[k].call
      PROVE  /\ srvMicrotasks'[j].kind = "next"
             /\ srvMicrotasks'[k].kind = "next" => srvMicrotasks'[j].val < srvMicrotasks'[k].val
  <2>1. j + 1 \in 1 .. Len(srvMicrotasks) /\ k + 1 \in 1 .. Len(srvMicrotasks) /\ j + 1 < k + 1
    BY <1>3, <1>6
  <2>2. srvMicrotasks'[j] = srvMicrotasks[j + 1] /\ srvMicrotasks'[k] = srvMicrotasks[k + 1]
    BY <1>1
  <2> QED BY <1>6, <2>1, <2>2 DEF ServerInv, TasksOK, Ordered
<1>7. Ordered(srvMicrotasks')
  BY <1>6 DEF Ordered
<1>8. ASSUME NEW i, FinalWaits(srvMicrotasks, i), t.kind = "next" \/ t.call # i
      PROVE  FinalWaits(srvMicrotasks', i)
  <2>1. PICK k \in 1 .. Len(srvMicrotasks) : srvMicrotasks[k].call = i /\ srvMicrotasks[k].kind # "next"
    BY <1>8 DEF FinalWaits
  <2>2. k # 1
    BY <1>1, <1>8, <2>1
  <2>3. k - 1 \in 1 .. Len(srvMicrotasks') /\ srvMicrotasks'[k - 1] = srvMicrotasks[k]
    BY <1>1, <2>2
  <2> QED BY <2>1, <2>3 DEF FinalWaits
<1>9. ~ResponseEnded(t.call) \/ srvCalls[t.call].obs.completeCalled
  BY <1>1, <1>2 DEF ResponseEnded
<1> QED BY <1>1, <1>4, <1>5, <1>7, <1>8, <1>9 DEF t

LEMMA ValueStep ==
  ASSUME ServerInv, srvMicrotasks # <<>>, srvMicrotasks' = Tail(srvMicrotasks),
         NEW t, NEW i, t = Head(srvMicrotasks), i = t.call, t.kind = "next",
         ResponseValueTask(i, t.val),
         UNCHANGED <<srvInbox, srvStopped, c2s>>
  PROVE  ServerInv' /\ EndsOnce
<1> DEFINE last == IsLastValue(srvCalls[i].obs)
           new == [srvCalls[i] EXCEPT !.obs = ValueHandled(@)]
<1>1. /\ t \in MicroTask /\ i \in 1 .. Len(srvCalls) /\ TaskOK(t, srvCalls[i])
      /\ srvMicrotasks' \in Seq(MicroTask) /\ Ordered(srvMicrotasks')
      /\ \A k \in 1 .. Len(srvMicrotasks') :
           /\ srvMicrotasks'[k] \in MicroTask /\ srvMicrotasks'[k].call \in 1 .. Len(srvCalls)
           /\ TaskOK(srvMicrotasks'[k], srvCalls[srvMicrotasks'[k].call])
           /\ srvMicrotasks'[k].call = i =>
                (srvMicrotasks'[k].kind = "next" => t.val < srvMicrotasks'[k].val)
      /\ \A j : FinalWaits(srvMicrotasks, j) => FinalWaits(srvMicrotasks', j)
      /\ ~ResponseEnded(i) \/ srvCalls[i].obs.completeCalled
      /\ t.kind = "next"
  BY QueueRest
<1>2. /\ srvCalls' = [srvCalls EXCEPT ![i].obs = ValueHandled(@)]
      /\ \/ /\ last
            /\ activeStreamCalls' = [activeStreamCalls EXCEPT ![srvCalls[i].id] = 0]
            /\ Send(Response("ResponseComplete", i, srvCalls[i], t.val))
         \/ /\ ~last
            /\ Send(Response("ResponseData", i, srvCalls[i], t.val))
            /\ activeStreamCalls' = activeStreamCalls
  BY DEF ResponseValueTask, OnStreamComplete
<1>3. /\ srvCalls \in Seq(ServerCall) /\ activeStreamCalls \in [Id -> Nat]
      /\ srvCalls[i] \in ServerCall /\ RecordOK(srvCalls[i]) /\ SendTypeOK
      /\ i \in Nat \ {0} /\ DOMAIN srvCalls = 1 .. Len(srvCalls)
  BY <1>1, Indices DEF ServerInv, ServerTyped, CallsOK
<1>4. /\ srvCalls[i].obs \in ObserverState /\ srvCalls[i].obs.tasks \in Nat
      /\ srvCalls[i].emitted \in Nat /\ t.val \in Nat /\ srvCalls[i].id \in Id
  <2>1. srvCalls[i].obs \in ObserverState /\ srvCalls[i].emitted \in Nat /\ srvCalls[i].id \in Id
    <3>1. /\ srvCalls[i].obs \in ObserverState /\ srvCalls[i].id \in Id
          /\ srvCalls[i].emitted \in 0 .. MaxResponseValues
      BY <1>3 DEF ServerCall
    <3> QED BY <3>1, ServerAssumption
  <2>2. srvCalls[i].obs.tasks \in Nat /\ t.val \in Nat
    BY <1>1, <2>1 DEF ObserverState, MicroTask
  <2> QED BY <2>1, <2>2
<1>5. /\ srvCalls[i].obs.tasks > 0 /\ t.val + srvCalls[i].obs.tasks > srvCalls[i].emitted
  BY <1>1, <1>4 DEF TaskOK
<1>6. ~srvCalls[i].obs.completeCalled
  BY <1>3, <1>5 DEF RecordOK
<1>7. /\ ValueHandled(srvCalls[i].obs) \in ObserverState
      /\ ValueHandled(srvCalls[i].obs).tasks = srvCalls[i].obs.tasks - 1
      /\ ValueHandled(srvCalls[i].obs).completed = srvCalls[i].obs.completed
      /\ ValueHandled(srvCalls[i].obs).completeCalled <=> last
  <2> DEFINE o == srvCalls[i].obs
  <2>1. o \in ObserverState /\ o.tasks - 1 \in Nat /\ o.completeCalled = FALSE
    BY <1>4, <1>5, <1>6 DEF ObserverState
  <2>2. (o.completeCalled \/ last) \in BOOLEAN
    OBVIOUS
  <2> HIDE DEF o
  <2>3. ValueHandled(o) = [o EXCEPT !.tasks = @ - 1, !.completeCalled = @ \/ last]
    BY DEF ValueHandled, o
  <2> HIDE DEF last
  <2>4. ValueHandled(o) \in ObserverState
    BY <2>1, <2>2, <2>3, Zenon DEF ObserverState
  <2>5. ValueHandled(o).tasks = o.tasks - 1
    BY <2>1, <2>3 DEF ObserverState
  <2>6. ValueHandled(o).completed = o.completed
    BY <2>1, <2>3, Zenon DEF ObserverState
  <2>7. ValueHandled(o).completeCalled <=> last
    BY <2>1, <2>3, Zenon DEF ObserverState
  <2> QED BY <2>4, <2>5, <2>6, <2>7 DEF o
<1>8. /\ new \in ServerCall /\ new.kind = srvCalls[i].kind /\ new.res = srvCalls[i].res
      /\ new.id = srvCalls[i].id /\ new.emitted = srvCalls[i].emitted
      /\ new.unsubscribed = srvCalls[i].unsubscribed
      /\ new.obs.tasks = srvCalls[i].obs.tasks - 1
      /\ new.obs.completed = srvCalls[i].obs.completed
      /\ new.obs.completeCalled <=> last
  <2>1. /\ new.kind = srvCalls[i].kind /\ new.res = srvCalls[i].res
        /\ new.id = srvCalls[i].id /\ new.emitted = srvCalls[i].emitted
        /\ new.unsubscribed = srvCalls[i].unsubscribed /\ new.obs = ValueHandled(srvCalls[i].obs)
    BY <1>3 DEF ServerCall
  <2>2. new \in ServerCall
    BY <1>3, <1>7 DEF ServerCall
  <2> QED BY <1>7, <2>1, <2>2
<1>9. last => srvCalls[i].obs.completed /\ srvCalls[i].obs.tasks = 1 /\ srvCalls[i].res = "completed"
  BY <1>3 DEF IsLastValue, RecordOK
<1>10. srvCalls' = [srvCalls EXCEPT ![i] = new]
  BY <1>1, <1>2, <1>3 DEF ServerCall
<1> HIDE DEF new, last
<1>11. /\ srvCalls' \in Seq(ServerCall) /\ Len(srvCalls') = Len(srvCalls) /\ srvCalls'[i] = new
       /\ \A j \in 1 .. Len(srvCalls) : j # i => srvCalls'[j] = srvCalls[j]
  BY <1>1, <1>3, <1>8, <1>10, ReplaceOne
<1>12. CallsOK(srvCalls')
  <2>1. RecordOK(new)
    <3>1. new.obs.completed => new.res = "completed"
      BY <1>3, <1>8 DEF RecordOK
    <3>2. new.obs.completeCalled => new.obs.completed /\ new.obs.tasks = 0
      BY <1>8, <1>9
    <3>3. new.kind # "static"
      BY <1>3, <1>5, <1>8 DEF RecordOK, NewObserver
    <3> QED BY <3>1, <3>2, <3>3 DEF RecordOK
  <2> QED BY <1>11, <2>1 DEF CallsOK, ServerInv
<1>13. ASSUME NEW k \in 1 .. Len(srvMicrotasks')
       PROVE  /\ srvMicrotasks'[k].call \in 1 .. Len(srvCalls')
              /\ TaskOK(srvMicrotasks'[k], srvCalls'[srvMicrotasks'[k].call])
  <2> DEFINE u == srvMicrotasks'[k]
  <2>1. u \in MicroTask /\ u.call \in 1 .. Len(srvCalls) /\ TaskOK(u, srvCalls[u.call])
        /\ (u.call = i => (u.kind = "next" => t.val < u.val))
    BY <1>1
  <2> HIDE DEF u
  <2>2. CASE u.call = i
    <3>1. u.kind = "next" => u.val \in Nat /\ u.val + new.obs.tasks > new.emitted
      <4>1. u.val \in Nat
        BY <2>1 DEF MicroTask
      <4>2. new.obs.tasks = srvCalls[i].obs.tasks - 1 /\ new.emitted = srvCalls[i].emitted
        BY <1>8
      <4>3. u.kind = "next" => t.val < u.val
        BY <2>1, <2>2
      <4>4. \A v, w, n, e \in Nat : v < w /\ v + n > e => w + (n - 1) > e
        OBVIOUS
      <4> QED BY <1>4, <1>5, <4>1, <4>2, <4>3, <4>4
    <3>2. TaskOK(u, new)
      BY <1>8, <2>1, <2>2, <3>1 DEF TaskOK
    <3> QED BY <1>11, <2>1, <2>2, <3>2 DEF u
  <2>3. CASE u.call # i
    BY <1>11, <2>1, <2>3 DEF u
  <2> QED BY <2>2, <2>3
<1>14. TasksOK(srvMicrotasks', srvCalls')
  BY <1>1, <1>13 DEF TasksOK
<1>15. /\ activeStreamCalls' \in [Id -> Nat]
       /\ \A id \in Id : activeStreamCalls'[id] # 0 =>
            activeStreamCalls'[id] = activeStreamCalls[id] /\ (last => id # srvCalls[i].id)
  <2>1. CASE activeStreamCalls' = [activeStreamCalls EXCEPT ![srvCalls[i].id] = 0]
    BY <1>3, <1>4, <2>1
  <2>2. CASE activeStreamCalls' = activeStreamCalls /\ ~last
    BY <1>3, <2>2
  <2> QED BY <1>2, <2>1, <2>2
<1>16. ASSUME NEW id \in Id, activeStreamCalls'[id] # 0
       PROVE  /\ activeStreamCalls'[id] \in 1 .. Len(srvCalls')
              /\ EntryOK(id, activeStreamCalls'[id], srvCalls'[activeStreamCalls'[id]], srvMicrotasks')
  <2> DEFINE j == activeStreamCalls[id]
  <2>1. activeStreamCalls'[id] = j /\ (last => id # srvCalls[i].id)
    BY <1>15, <1>16
  <2>2. j \in 1 .. Len(srvCalls) /\ EntryOK(id, j, srvCalls[j], srvMicrotasks)
    BY <1>16, <2>1 DEF ServerInv, EntriesOK
  <2> HIDE DEF j
  <2>3. CASE j = i
    <3>1. ~last
      BY <2>1, <2>2, <2>3 DEF EntryOK
    <3>2. EntryOK(id, j, new, srvMicrotasks')
      BY <1>1, <1>8, <2>2, <2>3, <3>1 DEF EntryOK
    <3> QED BY <1>11, <2>1, <2>2, <2>3, <3>2
  <2>4. CASE j # i
    <3>1. EntryOK(id, j, srvCalls[j], srvMicrotasks')
      BY <1>1, <2>2 DEF EntryOK
    <3> QED BY <1>11, <2>1, <2>2, <2>4, <3>1
  <2> QED BY <2>3, <2>4
<1>17. EntriesOK(activeStreamCalls', srvCalls', srvMicrotasks')
  BY <1>16 DEF EntriesOK
<1>18. SendTypeOK' /\ EndsOnce
  <2>1. i \in Nat /\ ~ResponseEnded(i)
    BY <1>1, <1>3, <1>6
  <2>2. CASE last
    <3>1. ResponseEnded(i)'
      BY <1>8, <1>9, <1>11, <2>2 DEF ResponseEnded
    <3>2. "ResponseComplete" \in ResponseType
      BY DEF ResponseType
    <3> QED BY <1>2, <1>3, <1>4, <2>1, <2>2, <3>1, <3>2, ResponseSent
  <2>3. CASE ~last
    <3>1. "ResponseData" \in ResponseType
      BY DEF ResponseType
    <3> QED BY <1>2, <1>3, <1>4, <2>1, <2>3, <3>1, ResponseSent
  <2> QED BY <2>2, <2>3
<1>19. ServerTyped'
  BY <1>1, <1>11, <1>15, <1>18 DEF ServerInv, ServerTyped
<1> QED BY <1>12, <1>14, <1>17, <1>18, <1>19 DEF ServerInv

LEMMA FinalStep ==
  ASSUME ServerInv, srvMicrotasks # <<>>, srvMicrotasks' = Tail(srvMicrotasks),
         NEW t, NEW i, t = Head(srvMicrotasks), i = t.call, t.kind # "next",
         ResponseFinalTask(i, t.kind),
         srvCalls' = srvCalls, UNCHANGED <<srvInbox, srvStopped, c2s>>
  PROVE  ServerInv' /\ EndsOnce
<1>1. /\ t \in MicroTask /\ i \in 1 .. Len(srvCalls) /\ TaskOK(t, srvCalls[i])
      /\ srvMicrotasks' \in Seq(MicroTask) /\ Ordered(srvMicrotasks')
      /\ \A k \in 1 .. Len(srvMicrotasks') :
           /\ srvMicrotasks'[k].call \in 1 .. Len(srvCalls)
           /\ TaskOK(srvMicrotasks'[k], srvCalls[srvMicrotasks'[k].call])
           /\ srvMicrotasks'[k].call # i
      /\ \A j : FinalWaits(srvMicrotasks, j) /\ i # j => FinalWaits(srvMicrotasks', j)
      /\ ~ResponseEnded(i) \/ srvCalls[i].obs.completeCalled
      /\ t.kind # "next"
  BY QueueRest
<1>2. \/ /\ t.kind = "error"
         /\ Send(Response("ResponseError", i, srvCalls[i], NoValue))
         /\ activeStreamCalls' = [activeStreamCalls EXCEPT ![srvCalls[i].id] = 0]
      \/ /\ t.kind # "error" /\ srvCalls[i].obs.completeCalled
         /\ NothingSent /\ activeStreamCalls' = activeStreamCalls
      \/ /\ t.kind # "error" /\ ~srvCalls[i].obs.completeCalled
         /\ activeStreamCalls' = [activeStreamCalls EXCEPT ![srvCalls[i].id] = 0]
         /\ Send(Response("ResponseComplete", i, srvCalls[i], NoValue))
  BY DEF ResponseFinalTask, OnStreamError, OnStreamComplete
<1>3. /\ srvCalls \in Seq(ServerCall) /\ activeStreamCalls \in [Id -> Nat]
      /\ srvCalls[i] \in ServerCall /\ RecordOK(srvCalls[i]) /\ SendTypeOK
      /\ i \in Nat /\ srvCalls[i].id \in Id
  <2>1. srvCalls \in Seq(ServerCall) /\ srvCalls[i] \in ServerCall
    BY <1>1, Indices DEF ServerInv, ServerTyped
  <2>2. srvCalls[i].id \in Id
    BY <2>1 DEF ServerCall
  <2>3. i \in Nat
    BY <1>1, <2>1, Indices
  <2> QED BY <1>1, <2>1, <2>2, <2>3 DEF ServerInv, ServerTyped, CallsOK
<1>4. /\ t.kind = "error" \/ t.kind = "complete"
      /\ srvCalls[i].res # "open"
      /\ t.kind = "error" => ~srvCalls[i].obs.completeCalled
  BY <1>1, <1>3 DEF MicroTask, TaskOK, RecordOK
<1>5. /\ activeStreamCalls' \in [Id -> Nat]
      /\ \A id \in Id : activeStreamCalls'[id] # 0 => activeStreamCalls'[id] = activeStreamCalls[id]
      /\ \A id \in Id : activeStreamCalls'[id] = i => srvCalls[i].id # id \/ srvCalls[i].obs.completeCalled
  <2>1. i # 0
    BY <1>1
  <2>2. CASE activeStreamCalls' = activeStreamCalls /\ srvCalls[i].obs.completeCalled
    BY <1>3, <2>2
  <2>3. CASE activeStreamCalls' = [activeStreamCalls EXCEPT ![srvCalls[i].id] = 0]
    BY <1>3, <2>1, <2>3
  <2> QED BY <1>2, <2>2, <2>3
<1>6. ASSUME NEW id \in Id, activeStreamCalls'[id] # 0
      PROVE  /\ activeStreamCalls'[id] \in 1 .. Len(srvCalls')
             /\ EntryOK(id, activeStreamCalls'[id], srvCalls'[activeStreamCalls'[id]], srvMicrotasks')
  <2> DEFINE j == activeStreamCalls[id]
  <2>1. activeStreamCalls'[id] = j
    BY <1>5, <1>6
  <2>2. j \in 1 .. Len(srvCalls) /\ EntryOK(id, j, srvCalls[j], srvMicrotasks)
    BY <1>6, <2>1 DEF ServerInv, EntriesOK
  <2> HIDE DEF j
  <2>3. j # i
    BY <1>4, <1>5, <2>1, <2>2 DEF EntryOK
  <2>4. EntryOK(id, j, srvCalls[j], srvMicrotasks')
    BY <1>1, <2>2, <2>3 DEF EntryOK
  <2> QED BY <2>1, <2>2, <2>4
<1>7. EntriesOK(activeStreamCalls', srvCalls', srvMicrotasks')
  BY <1>6 DEF EntriesOK
<1>8. TasksOK(srvMicrotasks', srvCalls')
  BY <1>1 DEF TasksOK
<1>9. ResponseEnded(i)'
  <2>1. DOMAIN srvMicrotasks' = 1 .. Len(srvMicrotasks')
    BY <1>1, Indices
  <2> QED BY <1>1, <1>4, <2>1 DEF ResponseEnded
<1>10. SendTypeOK' /\ EndsOnce
  <2>1. "ResponseError" \in ResponseType /\ "ResponseComplete" \in ResponseType /\ NoValue \in Nat
    BY DEF ResponseType, NoValue
  <2>2. CASE NothingSent
    BY <1>3, <2>2, NothingSentTypes
  <2>3. CASE t.kind = "error" /\ Send(Response("ResponseError", i, srvCalls[i], NoValue))
    BY <1>1, <1>3, <1>4, <1>9, <2>1, <2>3, ResponseSent
  <2>4. CASE ~srvCalls[i].obs.completeCalled /\ Send(Response("ResponseComplete", i, srvCalls[i], NoValue))
    BY <1>1, <1>3, <1>9, <2>1, <2>4, ResponseSent
  <2> QED BY <1>2, <2>2, <2>3, <2>4
<1>11. ServerTyped' /\ CallsOK(srvCalls')
  BY <1>1, <1>3, <1>5, <1>10 DEF ServerInv, ServerTyped
<1> QED BY <1>7, <1>8, <1>10, <1>11 DEF ServerInv

LEMMA MicrotaskStep ==
  ASSUME ServerInv, ServerMicrotaskRuns
  PROVE  ServerInv' /\ EndsOnce
BY ValueStep, FinalStep DEF ServerMicrotaskRuns

(* The response of call i ends in a record rec, at once or by a microtask.  *)
LEMMA EndingStep ==
  ASSUME ServerInv, NEW i \in 1 .. Len(srvCalls), NEW rec \in ServerCall,
         NEW how \in {"completed", "errored"}, Ends(srvCalls[i], rec, how),
         srvCalls' = [srvCalls EXCEPT ![i] = rec],
         \/ /\ srvCalls[i].obs.tasks = 0
            /\ activeStreamCalls' = [activeStreamCalls EXCEPT ![rec.id] = 0]
            /\ \E type \in ResponseType : Send(Response(type, i, rec, NoValue))
            /\ srvMicrotasks' = srvMicrotasks
         \/ /\ srvMicrotasks' = Append(srvMicrotasks, SrvTask(i, FinalKind(how), NoValue))
            /\ NothingSent
            /\ activeStreamCalls' = activeStreamCalls,
         srvInbox' \in Seq(ClientMessage), UNCHANGED <<srvStopped, c2s>>
  PROVE  ServerInv' /\ EndsOnce
<1>1. CASE /\ srvCalls[i].obs.tasks = 0
           /\ activeStreamCalls' = [activeStreamCalls EXCEPT ![rec.id] = 0]
           /\ \E type \in ResponseType : Send(Response(type, i, rec, NoValue))
           /\ srvMicrotasks' = srvMicrotasks
  <2>1. /\ srvCalls' \in Seq(ServerCall) /\ CallsOK(srvCalls')
        /\ TasksOK(srvMicrotasks', srvCalls')
        /\ activeStreamCalls' \in [Id -> Nat]
        /\ EntriesOK(activeStreamCalls', srvCalls', srvMicrotasks')
        /\ ~ResponseEnded(i) /\ ResponseEnded(i)'
    BY <1>1, EndAtOnce
  <2>2. PICK type \in ResponseType : Send(Response(type, i, rec, NoValue))
    BY <1>1
  <2>3. i \in Nat /\ NoValue \in Nat /\ SendTypeOK
    BY Indices DEF ServerInv, ServerTyped, NoValue
  <2>4. SendTypeOK' /\ EndsOnce
    BY <2>1, <2>2, <2>3, ResponseSent
  <2>5. ServerTyped'
    BY <1>1, <2>1, <2>4 DEF ServerInv, ServerTyped
  <2> QED BY <2>1, <2>4, <2>5 DEF ServerInv
<1>2. CASE /\ srvMicrotasks' = Append(srvMicrotasks, SrvTask(i, FinalKind(how), NoValue))
           /\ NothingSent
           /\ activeStreamCalls' = activeStreamCalls
  <2>1. /\ srvCalls' \in Seq(ServerCall) /\ CallsOK(srvCalls')
        /\ srvMicrotasks' \in Seq(MicroTask) /\ TasksOK(srvMicrotasks', srvCalls')
        /\ EntriesOK(activeStreamCalls', srvCalls', srvMicrotasks')
    BY <1>2, EndLater
  <2>2. SendTypeOK' /\ EndsOnce
    BY <1>2, NothingSentTypes DEF ServerInv, ServerTyped
  <2>3. ServerTyped'
    BY <1>2, <2>1, <2>2 DEF ServerInv, ServerTyped
  <2> QED BY <2>1, <2>2, <2>3 DEF ServerInv
<1> QED BY <1>1, <1>2

LEMMA CompletesStep ==
  ASSUME ServerInv, NEW i \in 1 .. Len(srvCalls), MethodCompletes(i)
  PROVE  ServerInv' /\ EndsOnce
<1> DEFINE rec == [srvCalls[i] EXCEPT !.res = "completed", !.obs = SourceCompleted(@)]
<1>1. /\ srvCalls[i] \in ServerCall /\ srvCalls[i].obs \in ObserverState
      /\ srvCalls[i].kind = "stream" /\ srvCalls[i].res = "open" /\ srvInbox \in Seq(ClientMessage)
  <2>1. srvCalls[i] \in ServerCall
    BY Indices DEF ServerInv, ServerTyped
  <2> QED BY <2>1 DEF MethodCompletes, Invoked, ServerCall, ServerInv, ServerTyped
<1>2. /\ SourceCompleted(srvCalls[i].obs) \in ObserverState
      /\ SourceCompleted(srvCalls[i].obs).tasks = srvCalls[i].obs.tasks
  BY <1>1 DEF SourceCompleted, ObserverState
<1>3. /\ rec \in ServerCall /\ rec.obs = SourceCompleted(srvCalls[i].obs)
      /\ Ends(srvCalls[i], rec, "completed")
  BY <1>1, <1>2 DEF ServerCall, Ends
<1> HIDE DEF rec
<1>4. /\ srvCalls' = [srvCalls EXCEPT ![i] = rec]
      /\ \/ /\ srvCalls[i].obs.tasks = 0
            /\ activeStreamCalls' = [activeStreamCalls EXCEPT ![rec.id] = 0]
            /\ Send(Response("ResponseComplete", i, rec, NoValue))
            /\ srvMicrotasks' = srvMicrotasks
         \/ /\ srvMicrotasks' = Append(srvMicrotasks, SrvTask(i, FinalKind("completed"), NoValue))
            /\ NothingSent
            /\ activeStreamCalls' = activeStreamCalls
      /\ UNCHANGED <<srvInbox, srvStopped, c2s>>
  BY <1>2, <1>3 DEF MethodCompletes, OnStreamComplete, PassedOnAtOnce, FinalKind, rec
<1>5. "ResponseComplete" \in ResponseType
  BY DEF ResponseType
<1> QED BY <1>1, <1>3, <1>4, <1>5, EndingStep

LEMMA ErrorsStep ==
  ASSUME ServerInv, NEW i \in 1 .. Len(srvCalls), NEW rec \in ServerCall,
         Alike(srvCalls[i], rec), rec.unsubscribed = srvCalls[i].unsubscribed,
         srvCalls[i].kind = "stream", srvCalls[i].res = "open",
         ResponseErrors(i, rec, srvCalls),
         srvInbox' \in Seq(ClientMessage), UNCHANGED <<srvStopped, c2s>>
  PROVE  ServerInv' /\ EndsOnce
<1> DEFINE failed == [rec EXCEPT !.res = "errored"]
<1>1. /\ failed \in ServerCall /\ Ends(srvCalls[i], failed, "errored")
      /\ failed.id = rec.id /\ rec.obs = srvCalls[i].obs
  BY DEF ServerCall, Ends, Alike
<1> HIDE DEF failed
<1>2. /\ srvCalls' = [srvCalls EXCEPT ![i] = failed]
      /\ \/ /\ srvCalls[i].obs.tasks = 0
            /\ activeStreamCalls' = [activeStreamCalls EXCEPT ![failed.id] = 0]
            /\ Send(Response("ResponseError", i, failed, NoValue))
            /\ srvMicrotasks' = srvMicrotasks
         \/ /\ srvMicrotasks' = Append(srvMicrotasks, SrvTask(i, FinalKind("errored"), NoValue))
            /\ NothingSent
            /\ activeStreamCalls' = activeStreamCalls
  BY <1>1 DEF ResponseErrors, OnStreamError, PassedOnAtOnce, FinalKind, failed
<1>3. "ResponseError" \in ResponseType
  BY DEF ResponseType
<1> QED BY <1>1, <1>2, <1>3, EndingStep

LEMMA FailsStep ==
  ASSUME ServerInv, NEW i \in 1 .. Len(srvCalls), MethodFails(i)
  PROVE  ServerInv' /\ EndsOnce
<1>1. srvCalls[i] \in ServerCall /\ srvInbox \in Seq(ClientMessage)
  BY Indices DEF ServerInv, ServerTyped
<1>2. Alike(srvCalls[i], srvCalls[i])
  BY DEF Alike
<1> QED BY <1>1, <1>2, ErrorsStep DEF MethodFails, Invoked

LEMMA SettleStep ==
  ASSUME ServerInv, NEW i \in 1 .. Len(srvCalls),
         NEW type \in {"ResponseComplete", "ResponseError"}, StaticCallSettles(i, type)
  PROVE  ServerInv' /\ EndsOnce
<1> DEFINE failed == type = "ResponseError"
           rec == [srvCalls[i] EXCEPT !.res = IF failed THEN "errored" ELSE "completed",
                                      !.emitted = IF failed THEN @ ELSE 1]
           val == IF failed THEN NoValue ELSE 1
<1>1. /\ srvCalls \in Seq(ServerCall) /\ srvMicrotasks \in Seq(MicroTask)
      /\ srvCalls[i] \in ServerCall /\ RecordOK(srvCalls[i]) /\ SendTypeOK /\ i \in Nat
      /\ DOMAIN srvMicrotasks = 1 .. Len(srvMicrotasks) /\ activeStreamCalls \in [Id -> Nat]
  BY Indices DEF ServerInv, ServerTyped, CallsOK
<1>2. /\ srvCalls[i].kind = "static" /\ srvCalls[i].res = "open"
      /\ Send(Response(type, i, srvCalls[i], val))
      /\ UNCHANGED <<activeStreamCalls, srvMicrotasks, srvInbox, srvStopped, c2s>>
  BY DEF StaticCallSettles
<1>3. srvCalls' = [srvCalls EXCEPT ![i] = rec]
  BY <1>1 DEF StaticCallSettles, ServerCall
<1>4. /\ rec \in ServerCall /\ rec.kind = "static" /\ rec.res # "open" /\ rec.obs = srvCalls[i].obs
  <2>1. 1 \in 0 .. MaxResponseValues
    BY ServerAssumption
  <2> QED BY <1>1, <1>2, <2>1 DEF ServerCall
<1>5. val \in Nat /\ type \in ResponseType
  BY DEF ResponseType, NoValue
<1> HIDE DEF rec, val
<1>6. /\ srvCalls' \in Seq(ServerCall) /\ Len(srvCalls') = Len(srvCalls) /\ srvCalls'[i] = rec
      /\ \A j \in 1 .. Len(srvCalls) : j # i => srvCalls'[j] = srvCalls[j]
  BY <1>1, <1>3, <1>4, ReplaceOne
<1>7. RecordOK(rec)
  <2>1. srvCalls[i].obs = NewObserver
    BY <1>1, <1>2 DEF RecordOK
  <2> QED BY <1>4, <2>1 DEF RecordOK, NewObserver
<1>8. \A j \in 1 .. Len(srvCalls) : Follows(srvCalls[j], srvCalls'[j])
  BY <1>2, <1>6, <1>7 DEF Follows, Alike
<1>9. Len(srvCalls') >= Len(srvCalls)
  BY <1>1, <1>6
<1>10. TasksOK(srvMicrotasks, srvCalls') /\ \A j \in 1 .. Len(srvCalls) : RecordOK(srvCalls'[j])
  BY <1>6, <1>8, <1>9, AlikeKept
<1>11. CallsOK(srvCalls')
  BY <1>6, <1>10 DEF CallsOK
<1>12. EntriesOK(activeStreamCalls', srvCalls', srvMicrotasks')
  <2>1. ASSUME NEW id \in Id, activeStreamCalls[id] # 0
        PROVE  /\ activeStreamCalls[id] \in 1 .. Len(srvCalls')
               /\ EntryOK(id, activeStreamCalls[id], srvCalls'[activeStreamCalls[id]], srvMicrotasks)
    <3> DEFINE j == activeStreamCalls[id]
    <3>1. j \in 1 .. Len(srvCalls) /\ EntryOK(id, j, srvCalls[j], srvMicrotasks)
      BY <2>1 DEF ServerInv, EntriesOK
    <3> HIDE DEF j
    <3>2. j # i
      BY <1>2, <3>1 DEF EntryOK
    <3> QED BY <1>6, <3>1, <3>2 DEF j
  <2> QED BY <1>2, <2>1 DEF EntriesOK
<1>13. \A k \in 1 .. Len(srvMicrotasks) : srvMicrotasks[k].call # i
  BY <1>2 DEF ServerInv, TasksOK, TaskOK
<1>14. ~ResponseEnded(i)
  BY <1>2 DEF ResponseEnded
<1>15. ResponseEnded(i)'
  BY <1>1, <1>2, <1>4, <1>6, <1>13 DEF ResponseEnded
<1>16. SendTypeOK' /\ EndsOnce
  BY <1>1, <1>2, <1>5, <1>14, <1>15, ResponseSent
<1>17. ServerTyped'
  BY <1>1, <1>2, <1>6, <1>16 DEF ServerInv, ServerTyped
<1>18. TasksOK(srvMicrotasks', srvCalls')
  BY <1>2, <1>10
<1> QED BY <1>11, <1>12, <1>16, <1>17, <1>18 DEF ServerInv

LEMMA MethodStep ==
  ASSUME ServerInv, MethodAction
  PROVE  ServerInv' /\ EndsOnce
<1>1. DOMAIN srvCalls = 1 .. Len(srvCalls)
  BY Indices DEF ServerInv, ServerTyped
<1> QED BY <1>1, EmitStep, CompletesStep, FailsStep, SettleStep DEF MethodAction

-----------------------------------------------------------------------------
(* Messages from the client.                                                *)
LEMMA QuietStep ==
  ASSUME ServerInv, UNCHANGED <<srvCalls, activeStreamCalls, srvMicrotasks, srvStopped>>,
         srvInbox' \in Seq(ClientMessage), c2s' \in Seq(Seq(ClientMessage)), SendTypeOK'
  PROVE  ServerInv'
<1>1. ServerTyped'
  BY DEF ServerInv, ServerTyped
<1>2. CallsOK(srvCalls') /\ TasksOK(srvMicrotasks', srvCalls')
  BY DEF ServerInv
<1>3. EntriesOK(activeStreamCalls', srvCalls', srvMicrotasks')
  BY DEF ServerInv
<1> QED BY <1>1, <1>2, <1>3 DEF ServerInv

LEMMA UpdateStep ==
  ASSUME ServerInv, NEW i \in 1 .. Len(srvCalls), NEW rec \in ServerCall,
         Alike(srvCalls[i], rec), rec.unsubscribed = srvCalls[i].unsubscribed,
         UpdateServerCall(i, rec),
         srvInbox' \in Seq(ClientMessage), UNCHANGED <<srvStopped, c2s>>
  PROVE  ServerInv' /\ EndsOnce
<1>1. /\ srvCalls' = [srvCalls EXCEPT ![i] = rec] /\ NothingSent
      /\ activeStreamCalls' = activeStreamCalls /\ srvMicrotasks' = srvMicrotasks
  BY DEF UpdateServerCall
<1>2. activeStreamCalls' \in [Id -> Nat]
  BY <1>1 DEF ServerInv, ServerTyped
<1>3. /\ srvCalls' \in Seq(ServerCall) /\ CallsOK(srvCalls')
      /\ TasksOK(srvMicrotasks', srvCalls')
      /\ EntriesOK(activeStreamCalls', srvCalls', srvMicrotasks')
  BY <1>1, <1>2, RequestStep
<1>4. SendTypeOK' /\ EndsOnce
  BY <1>1, NothingSentTypes DEF ServerInv, ServerTyped
<1>5. ServerTyped'
  BY <1>1, <1>3, <1>4 DEF ServerInv, ServerTyped
<1> QED BY <1>3, <1>4, <1>5 DEF ServerInv

LEMMA RefusedStep ==
  ASSUME ServerInv, NEW m \in ClientMessage, Refused(m),
         srvInbox' \in Seq(ClientMessage), UNCHANGED <<srvStopped, c2s>>
  PROVE  ServerInv' /\ EndsOnce
<1>1. SendTypeOK' /\ EndsOnce
  BY RefusalSent DEF Refused, ServerInv, ServerTyped
<1>2. UNCHANGED <<srvCalls, activeStreamCalls, srvMicrotasks>> /\ c2s' \in Seq(Seq(ClientMessage))
  BY DEF Refused, ServerInv, ServerTyped
<1> QED BY <1>1, <1>2, QuietStep

LEMMA StaticStep ==
  ASSUME ServerInv, NEW m \in ClientMessage, ExecStaticCall(m),
         srvInbox' \in Seq(ClientMessage), UNCHANGED <<srvStopped, c2s>>
  PROVE  ServerInv' /\ EndsOnce
<1> DEFINE new == NewCall(m, "static")
           rec == [new EXCEPT !.req = "completed", !.got = <<m.val>>]
<1>1. /\ new \in ServerCall /\ new.kind = "static" /\ new.obs = NewObserver /\ m.val \in Nat
  BY CallTypes
<1>2. /\ srvCalls' = Append(srvCalls, rec) /\ NothingSent
      /\ activeStreamCalls' = activeStreamCalls /\ srvMicrotasks' = srvMicrotasks
  BY DEF ExecStaticCall
<1> HIDE DEF new
<1>3. rec \in ServerCall /\ rec.obs = NewObserver
  <2>1. <<m.val>> \in Seq(Nat)
    BY <1>1
  <2> QED BY <1>1, <2>1 DEF ServerCall
<1> HIDE DEF rec
<1>4. RecordOK(rec)
  BY <1>3 DEF RecordOK, NewObserver
<1>5. /\ activeStreamCalls' \in [Id -> Nat]
      /\ \A id \in Id : activeStreamCalls'[id] \in {0, activeStreamCalls[id]}
  BY <1>2 DEF ServerInv, ServerTyped
<1>6. /\ srvCalls' \in Seq(ServerCall) /\ CallsOK(srvCalls')
      /\ TasksOK(srvMicrotasks', srvCalls')
      /\ EntriesOK(activeStreamCalls', srvCalls', srvMicrotasks')
  BY <1>2, <1>3, <1>4, <1>5, NewCallStep
<1>7. SendTypeOK' /\ EndsOnce
  BY <1>2, NothingSentTypes DEF ServerInv, ServerTyped
<1>8. ServerTyped'
  BY <1>2, <1>5, <1>6, <1>7 DEF ServerInv, ServerTyped
<1> QED BY <1>6, <1>7, <1>8 DEF ServerInv

LEMMA CreateStep ==
  ASSUME ServerInv, NEW m \in ClientMessage, NEW rec \in ServerCall,
         Alike(NewCall(m, "stream"), rec), rec.unsubscribed = FALSE, CreateStreamCall(m, rec),
         srvInbox' \in Seq(ClientMessage), UNCHANGED <<srvStopped, c2s>>
  PROVE  ServerInv' /\ EndsOnce
<1>1. /\ srvCalls' = Append(srvCalls, rec) /\ NothingSent /\ srvMicrotasks' = srvMicrotasks
      /\ activeStreamCalls' = [activeStreamCalls EXCEPT ![m.id] = Len(srvCalls) + 1]
  BY DEF CreateStreamCall
<1>2. RecordOK(rec) /\ EntryOK(m.id, Len(srvCalls) + 1, rec, srvMicrotasks)
  BY NewIsAlike
<1>3. /\ m.id \in Id /\ Len(srvCalls) \in Nat /\ activeStreamCalls \in [Id -> Nat]
  BY CallTypes, Indices DEF ServerInv, ServerTyped
<1>4. /\ activeStreamCalls' \in [Id -> Nat]
      /\ \A id \in Id : \/ activeStreamCalls'[id] \in {0, activeStreamCalls[id]}
                        \/ /\ activeStreamCalls'[id] = Len(srvCalls) + 1
                           /\ EntryOK(id, Len(srvCalls) + 1, rec, srvMicrotasks)
  BY <1>1, <1>2, <1>3
<1>5. /\ srvCalls' \in Seq(ServerCall) /\ CallsOK(srvCalls')
      /\ TasksOK(srvMicrotasks', srvCalls')
      /\ EntriesOK(activeStreamCalls', srvCalls', srvMicrotasks')
  BY <1>1, <1>2, <1>4, NewCallStep
<1>6. SendTypeOK' /\ EndsOnce
  BY <1>1, NothingSentTypes DEF ServerInv, ServerTyped
<1>7. ServerTyped'
  BY <1>1, <1>4, <1>5, <1>6 DEF ServerInv, ServerTyped
<1> QED BY <1>5, <1>6, <1>7 DEF ServerInv

(* The call an entry refers to.                                             *)
LEMMA ActiveCall ==
  ASSUME ServerInv, NEW id \in Id, activeStreamCalls[id] # 0
  PROVE  /\ activeStreamCalls[id] \in 1 .. Len(srvCalls)
         /\ srvCalls[activeStreamCalls[id]] \in ServerCall
         /\ srvCalls[activeStreamCalls[id]].kind = "stream"
         /\ srvCalls[activeStreamCalls[id]].id = id
<1>1. /\ activeStreamCalls[id] \in 1 .. Len(srvCalls)
      /\ EntryOK(id, activeStreamCalls[id], srvCalls[activeStreamCalls[id]], srvMicrotasks)
  BY DEF ServerInv, EntriesOK
<1>2. srvCalls[activeStreamCalls[id]] \in ServerCall
  BY <1>1, Indices DEF ServerInv, ServerTyped
<1> QED BY <1>1, <1>2 DEF EntryOK

LEMMA DataStep ==
  ASSUME ServerInv, NEW m \in ClientMessage, OnRequestData(m),
         srvInbox' \in Seq(ClientMessage), UNCHANGED <<srvStopped, c2s>>
  PROVE  ServerInv' /\ EndsOnce
<1> DEFINE i == activeStreamCalls[m.id]
           new == NewCall(m, "stream")
<1>1. m.id \in Id /\ m.val \in Nat /\ new \in ServerCall /\ new.unsubscribed = FALSE
  BY CallTypes DEF ServerCall
<1>2. CASE i # 0 /\ UpdateServerCall(i, RequestValue(srvCalls[i], m.val))
  BY <1>1, <1>2, ActiveCall, ValueTypes, UpdateStep, ZenonT(40)
<1>3. CASE Refused(m)
  BY <1>3, RefusedStep
<1>4. CASE ExecStaticCall(m)
  BY <1>4, StaticStep
<1>5. CASE CreateStreamCall(m, RequestValue(new, m.val))
  BY <1>1, <1>5, ValueTypes, CreateStep
<1> QED BY <1>2, <1>3, <1>4, <1>5 DEF OnRequestData

LEMMA AlikeTwice ==
  ASSUME NEW r, NEW s, NEW t, Alike(r, s), Alike(s, t)
  PROVE  Alike(r, t)
BY DEF Alike

LEMMA CompleteStep ==
  ASSUME ServerInv, NEW m \in ClientMessage, OnRequestComplete(m),
         srvInbox' \in Seq(ClientMessage), UNCHANGED <<srvStopped, c2s>>
  PROVE  ServerInv' /\ EndsOnce
<1> DEFINE i == activeStreamCalls[m.id]
           new == NewCall(m, "stream")
           first == RequestValue(new, m.val)
<1>1. /\ m.id \in Id /\ m.val \in Nat /\ new \in ServerCall /\ new.unsubscribed = FALSE
      /\ "completed" \in {"completed", "errored"}
  BY CallTypes DEF ServerCall
<1>2. CASE i # 0 /\ UpdateServerCall(i, RequestEnd(RequestValue(srvCalls[i], m.val), "completed"))
  <2> DEFINE rec == RequestValue(srvCalls[i], m.val)
             end == RequestEnd(rec, "completed")
  <2>1. i \in 1 .. Len(srvCalls) /\ srvCalls[i] \in ServerCall
    BY <1>1, <1>2, ActiveCall
  <2>2. rec \in ServerCall /\ Alike(srvCalls[i], rec) /\ rec.unsubscribed = srvCalls[i].unsubscribed
    BY <1>1, <2>1, ValueTypes
  <2> HIDE DEF rec
  <2>3. end \in ServerCall /\ Alike(rec, end) /\ end.unsubscribed = srvCalls[i].unsubscribed
    BY <1>1, <2>2, EndTypes
  <2>4. UpdateServerCall(i, end)
    BY <1>2 DEF rec
  <2> HIDE DEF end
  <2>5. Alike(srvCalls[i], end)
    BY <2>2, <2>3, AlikeTwice
  <2> QED BY <2>1, <2>3, <2>4, <2>5, UpdateStep
<1>3. CASE Refused(m)
  BY <1>3, RefusedStep
<1>4. CASE ExecStaticCall(m)
  BY <1>4, StaticStep
<1>5. CASE CreateStreamCall(m, IF m.val = NoValue THEN first ELSE RequestEnd(first, "completed"))
  <2> DEFINE rec == IF m.val = NoValue THEN first ELSE RequestEnd(first, "completed")
  <2>1. first \in ServerCall /\ Alike(new, first) /\ first.unsubscribed = FALSE
    BY <1>1, ValueTypes
  <2> HIDE DEF first, new
  <2>2. rec \in ServerCall /\ Alike(first, rec) /\ rec.unsubscribed = FALSE
    BY <1>1, <2>1, EndTypes DEF Alike
  <2>3. CreateStreamCall(m, rec)
    BY <1>5
  <2> HIDE DEF rec
  <2>4. Alike(new, rec)
    BY <2>1, <2>2, AlikeTwice
  <2> QED BY <2>2, <2>3, <2>4, CreateStep DEF new
<1> QED BY <1>2, <1>3, <1>4, <1>5 DEF OnRequestComplete

LEMMA ErrorStep ==
  ASSUME ServerInv, NEW m \in ClientMessage, OnRequestError(m),
         srvInbox' \in Seq(ClientMessage), UNCHANGED <<srvStopped, c2s>>
  PROVE  ServerInv' /\ EndsOnce
<1> DEFINE i == activeStreamCalls[m.id]
           new == RequestEnd(NewCall(m, "stream"), "errored")
<1>1. /\ m.id \in Id /\ NewCall(m, "stream") \in ServerCall
      /\ NewCall(m, "stream").unsubscribed = FALSE /\ "errored" \in {"completed", "errored"}
  BY CallTypes DEF ServerCall
<1>2. CASE i # 0 /\ srvCalls[i].res = "open" /\ ResponseErrors(i, RequestEnd(srvCalls[i], "errored"), srvCalls)
  BY <1>1, <1>2, ActiveCall, EndTypes, ErrorsStep
<1>3. CASE i # 0 /\ UpdateServerCall(i, RequestEnd(srvCalls[i], "errored"))
  BY <1>1, <1>3, ActiveCall, EndTypes, UpdateStep
<1>4. CASE Refused(m)
  BY <1>4, RefusedStep
<1>5. CASE ResponseErrors(Len(srvCalls) + 1, new, Append(srvCalls, new))
  <2> DEFINE failed == [new EXCEPT !.res = "errored"]
             n == Len(srvCalls) + 1
  <2>1. new \in ServerCall /\ Alike(NewCall(m, "stream"), new) /\ new.unsubscribed = FALSE
    BY <1>1, EndTypes
  <2>2. new.obs = NewObserver /\ new.id = m.id /\ new.kind = "stream"
    BY <1>1, <2>1, CallTypes DEF Alike
  <2> HIDE DEF new
  <2>3. /\ failed \in ServerCall /\ failed.id = m.id /\ failed.obs = NewObserver
        /\ failed.res = "errored" /\ failed.kind = "stream"
    BY <2>1, <2>2 DEF ServerCall
  <2> HIDE DEF failed
  <2>4. /\ srvCalls \in Seq(ServerCall) /\ Len(srvCalls) \in Nat /\ activeStreamCalls \in [Id -> Nat]
        /\ srvMicrotasks \in Seq(MicroTask) /\ SendTypeOK
        /\ DOMAIN srvCalls = 1 .. Len(srvCalls)
        /\ DOMAIN srvMicrotasks = 1 .. Len(srvMicrotasks)
    BY Indices DEF ServerInv, ServerTyped
  <2>5. NewObserver.tasks = 0 /\ ~NewObserver.completed /\ ~NewObserver.completeCalled
    BY DEF NewObserver
  <2>6. srvCalls' = Append(srvCalls, failed)
    <3>1. srvCalls' = [Append(srvCalls, new) EXCEPT ![n] = failed]
      BY <1>5 DEF ResponseErrors, failed
    <3> QED BY <2>1, <2>3, <2>4, <3>1, ReplaceLast
  <2>7. /\ srvMicrotasks' = srvMicrotasks
        /\ activeStreamCalls' = [activeStreamCalls EXCEPT ![m.id] = 0]
        /\ Send(Response("ResponseError", n, failed, NoValue))
    BY <1>5, <2>2, <2>3, <2>5 DEF ResponseErrors, OnStreamError, PassedOnAtOnce, failed
  <2>8. RecordOK(failed)
    BY <2>3, <2>5 DEF RecordOK
  <2>9. /\ activeStreamCalls' \in [Id -> Nat]
        /\ \A id \in Id : activeStreamCalls'[id] \in {0, activeStreamCalls[id]}
    BY <1>1, <2>4, <2>7
  <2>10. /\ srvCalls' \in Seq(ServerCall) /\ CallsOK(srvCalls')
         /\ TasksOK(srvMicrotasks', srvCalls')
         /\ EntriesOK(activeStreamCalls', srvCalls', srvMicrotasks')
    BY <2>3, <2>6, <2>7, <2>8, <2>9, NewCallStep
  <2>11. PICK k \in Nat : k = n /\ k \notin DOMAIN srvCalls
    BY <2>4
  <2>12. \A j \in 1 .. Len(srvMicrotasks) : srvMicrotasks[j].call # k
    BY <2>4, <2>11 DEF ServerInv, TasksOK
  <2>13. srvCalls'[k] = failed
    BY <2>3, <2>4, <2>6, <2>11, AppendOne
  <2>14. ResponseEnded(k)'
    BY <2>3, <2>4, <2>7, <2>12, <2>13 DEF ResponseEnded
  <2>15. SendTypeOK' /\ EndsOnce
    <3>1. "ResponseError" \in ResponseType /\ NoValue \in Nat
      BY DEF ResponseType, NoValue
    <3>2. Send(Response("ResponseError", k, failed, NoValue))
      BY <2>7, <2>11
    <3> QED BY <2>3, <2>4, <2>11, <2>14, <3>1, <3>2, ResponseSent
  <2>16. ServerTyped'
    BY <2>4, <2>7, <2>9, <2>10, <2>15 DEF ServerInv, ServerTyped
  <2> QED BY <2>10, <2>15, <2>16 DEF ServerInv
<1> QED BY <1>2, <1>3, <1>4, <1>5 DEF OnRequestError

LEMMA UnsubscribeStep ==
  ASSUME ServerInv, NEW m \in ClientMessage, OnUnsubscribe(m),
         srvInbox' \in Seq(ClientMessage), UNCHANGED <<srvStopped, c2s>>
  PROVE  ServerInv' /\ EndsOnce
<1> DEFINE i == activeStreamCalls[m.id]
<1>1. m.id \in Id /\ activeStreamCalls \in [Id -> Nat] /\ srvCalls \in Seq(ServerCall)
  BY CallTypes DEF ServerInv, ServerTyped
<1>2. NothingSent
  BY DEF OnUnsubscribe
<1>3. SendTypeOK' /\ EndsOnce
  BY <1>2, NothingSentTypes DEF ServerInv, ServerTyped
<1>4. CASE i = 0
  <2>1. UNCHANGED <<srvCalls, activeStreamCalls, srvMicrotasks>> /\ c2s' \in Seq(Seq(ClientMessage))
    BY <1>4 DEF OnUnsubscribe, ServerInv, ServerTyped
  <2> QED BY <1>3, <2>1, QuietStep
<1>5. CASE i # 0
  <2> DEFINE old == srvCalls[i]
             end == RequestEnd(old, "completed")
             rec == [end EXCEPT !.unsubscribed = TRUE]
  <2>1. i \in 1 .. Len(srvCalls) /\ old \in ServerCall /\ old.id = m.id
    BY <1>1, <1>5, ActiveCall
  <2>2. end \in ServerCall /\ Alike(old, end)
    BY <2>1, EndTypes
  <2>3. /\ activeStreamCalls' = [activeStreamCalls EXCEPT ![m.id] = 0]
        /\ srvCalls' = [srvCalls EXCEPT ![i] = rec] /\ srvMicrotasks' = srvMicrotasks
    BY <1>5, <2>1 DEF OnUnsubscribe
  <2> HIDE DEF end
  <2>4. rec \in ServerCall /\ Alike(end, rec)
    BY <2>2 DEF ServerCall, Alike
  <2> HIDE DEF rec
  <2>5. Alike(old, rec)
    BY <2>2, <2>4, AlikeTwice
  <2>6. activeStreamCalls' \in [Id -> Nat]
    BY <1>1, <2>3
  <2>7. ASSUME NEW id \in Id, activeStreamCalls'[id] # 0
        PROVE  /\ activeStreamCalls'[id] = activeStreamCalls[id]
               /\ activeStreamCalls[id] # i
    <3>1. id # m.id /\ activeStreamCalls'[id] = activeStreamCalls[id]
      BY <1>1, <2>3, <2>7
    <3> QED BY <2>1, <2>7, <3>1, ActiveCall
  <2>8. /\ srvCalls' \in Seq(ServerCall) /\ CallsOK(srvCalls')
        /\ TasksOK(srvMicrotasks', srvCalls')
        /\ EntriesOK(activeStreamCalls', srvCalls', srvMicrotasks')
    BY <2>1, <2>3, <2>4, <2>5, <2>6, <2>7, RequestStep
  <2>9. ServerTyped'
    BY <1>3, <2>3, <2>6, <2>8 DEF ServerInv, ServerTyped
  <2> QED BY <1>3, <2>8, <2>9 DEF ServerInv
<1> QED BY <1>4, <1>5

LEMMA MessageStep ==
  ASSUME ServerInv, ServerOnMessage
  PROVE  ServerInv' /\ EndsOnce
<1> DEFINE m == Head(srvInbox)
<1>1. /\ m \in ClientMessage /\ Tail(srvInbox) \in Seq(ClientMessage) /\ <<>> \in Seq(ClientMessage)
      /\ UNCHANGED <<srvStopped, c2s>>
  BY TakeOne, EmptySeq DEF ServerOnMessage, ServerInv, ServerTyped
<1>2. srvInbox' \in Seq(ClientMessage)
  BY <1>1 DEF ServerOnMessage
<1>3. CASE OnRequestDataThrows(m)
  <2>1. UNCHANGED <<srvCalls, activeStreamCalls, srvMicrotasks>> /\ NothingSent
    BY <1>3 DEF OnRequestDataThrows
  <2>2. SendTypeOK' /\ EndsOnce
    BY <2>1, NothingSentTypes DEF ServerInv, ServerTyped
  <2>3. c2s' \in Seq(Seq(ClientMessage))
    BY <1>1 DEF ServerInv, ServerTyped
  <2> QED BY <1>1, <1>2, <2>1, <2>2, <2>3, QuietStep
<1> HIDE DEF m
<1>4. CASE OnRequestData(m)
  BY <1>1, <1>2, <1>4, DataStep
<1>5. CASE OnRequestComplete(m)
  BY <1>1, <1>2, <1>5, CompleteStep
<1>6. CASE OnRequestError(m)
  BY <1>1, <1>2, <1>6, ErrorStep
<1>7. CASE OnUnsubscribe(m)
  BY <1>1, <1>2, <1>7, UnsubscribeStep
<1> QED BY <1>3, <1>4, <1>5, <1>6, <1>7 DEF ServerOnMessage, m

-----------------------------------------------------------------------------
(* stop().                                                                  *)
LEMMA ListsAll ==
  ASSUME NEW S, IsFiniteSet(S)
  PROVE  /\ SetToSeq(S) \in Seq(S)
         /\ \A j, k \in 1 .. Len(SetToSeq(S)) : SetToSeq(S)[j] = SetToSeq(S)[k] => j = k
<1> DEFINE n == Cardinality(S)
<1>1. n \in Nat /\ ExistsBijection(1 .. n, S)
  BY FS_CardinalityType
<1>2. PICK f \in [1 .. n -> S] : IsInjective(f)
  BY <1>1 DEF ExistsBijection, Bijection, Injection
<1>3. SetToSeq(S) \in [1 .. n -> S] /\ IsInjective(SetToSeq(S))
  BY <1>2 DEF SetToSeq
<1> HIDE DEF n
<1> QED BY <1>1, <1>3 DEF IsInjective

(* stop() ends a response that is open, and changes no other.               *)
LEMMA StoppedTypes ==
  ASSUME NEW rec \in ServerCall, RecordOK(rec), rec.kind = "stream"
  PROVE  /\ StoppedCall(rec) \in ServerCall /\ RecordOK(StoppedCall(rec))
         /\ StoppedCall(rec).kind = "stream" /\ StoppedCall(rec).emitted = rec.emitted
         /\ StoppedCall(rec).obs.tasks = rec.obs.tasks
         /\ rec.res # "open" => StoppedCall(rec).res = rec.res
         /\ rec.res = "open" =>
              StoppedCall(rec).res = IF rec.req = "open" THEN "errored" ELSE "completed"
<1>1. CASE rec.res # "open"
  <2> DEFINE new == RequestEnd(rec, "errored")
  <2>1. new \in ServerCall /\ Alike(rec, new)
    BY EndTypes
  <2>2. StoppedCall(rec) = new
    BY <1>1 DEF StoppedCall
  <2> HIDE DEF new
  <2> QED BY <1>1, <2>1, <2>2 DEF Alike, RecordOK
<1>2. CASE rec.res = "open" /\ rec.req = "open"
  <2> DEFINE new == [rec EXCEPT !.req = "errored", !.res = "errored"]
  <2>1. /\ new \in ServerCall /\ new.kind = rec.kind /\ new.emitted = rec.emitted
        /\ new.obs = rec.obs /\ new.res = "errored"
    BY DEF ServerCall
  <2>2. StoppedCall(rec) = new
    BY <1>2 DEF StoppedCall
  <2> HIDE DEF new
  <2>3. ~rec.obs.completed /\ ~rec.obs.completeCalled
    BY <1>2 DEF RecordOK
  <2> QED BY <1>2, <2>1, <2>2, <2>3 DEF RecordOK
<1>3. CASE rec.res = "open" /\ rec.req # "open"
  <2> DEFINE o == SourceCompleted(rec.obs)
             new == [rec EXCEPT !.res = "completed", !.obs = o]
  <2>1. /\ o \in ObserverState /\ o.tasks = rec.obs.tasks /\ o.completed
        /\ (o.completeCalled => o.tasks = 0)
    BY DEF ServerCall, RecordOK, SourceCompleted, ObserverState, PassedOnAtOnce
  <2> HIDE DEF o
  <2>2. /\ new \in ServerCall /\ new.kind = rec.kind /\ new.emitted = rec.emitted
        /\ new.obs = o /\ new.res = "completed"
    BY <2>1 DEF ServerCall
  <2>3. StoppedCall(rec) = new
    BY <1>3 DEF StoppedCall, o
  <2> HIDE DEF new
  <2> QED BY <1>3, <2>1, <2>2, <2>3 DEF RecordOK
<1> QED BY <1>1, <1>2, <1>3

LEMMA StopStep ==
  ASSUME ServerInv, ServerStop
  PROVE  ServerInv' /\ EndsOnce
<1> DEFINE active == {activeStreamCalls[id] : id \in Id} \ {0}
           late == {i \in active : srvCalls[i].res = "open" /\ ~PassedOnAtOnce(srvCalls[i].obs)}
           ends == [k \in DOMAIN SetToSeq(late) |-> StopTask(SetToSeq(late)[k])]
           cs == [i \in DOMAIN srvCalls |->
                    IF i \in active THEN StoppedCall(srvCalls[i]) ELSE srvCalls[i]]
<1>1. /\ srvCalls \in Seq(ServerCall) /\ Len(srvCalls) \in Nat /\ DOMAIN srvCalls = 1 .. Len(srvCalls)
      /\ srvMicrotasks \in Seq(MicroTask) /\ Len(srvMicrotasks) \in Nat
      /\ \A i \in 1 .. Len(srvCalls) : srvCalls[i] \in ServerCall /\ RecordOK(srvCalls[i])
      /\ \A k \in 1 .. Len(srvMicrotasks) : srvMicrotasks[k] \in MicroTask
  BY Indices DEF ServerInv, ServerTyped, CallsOK
<1>2. /\ srvStopped' = TRUE /\ srvCalls' = cs /\ srvMicrotasks' = srvMicrotasks \o ends
      /\ activeStreamCalls' = [id \in Id |-> 0]
      /\ UNCHANGED <<srvInbox, srvBuf, srvTimer, s2c, c2s>>
  BY DEF ServerStop
<1>3. \A i \in active : i \in 1 .. Len(srvCalls) /\ srvCalls[i].kind = "stream"
  BY DEF ServerInv, EntriesOK, EntryOK
<1>4. IsFiniteSet(late)
  <2>1. IsFiniteSet(1 .. Len(srvCalls))
    BY <1>1, FS_Interval
  <2> QED BY <1>3, <2>1, FS_Subset
<1> HIDE DEF active
<1>5. /\ SetToSeq(late) \in Seq(late)
      /\ \A j, k \in 1 .. Len(SetToSeq(late)) : SetToSeq(late)[j] = SetToSeq(late)[k] => j = k
  BY <1>4, ListsAll
<1>6. PICK l \in Seq(late) :
        /\ \A j, k \in 1 .. Len(l) : l[j] = l[k] => j = k
        /\ ends = [k \in DOMAIN l |-> StopTask(l[k])]
  BY <1>5
<1>7. /\ Len(l) \in Nat /\ DOMAIN l = 1 .. Len(l)
      /\ \A k \in 1 .. Len(l) :
           /\ l[k] \in 1 .. Len(srvCalls) /\ l[k] \in active
           /\ srvCalls[l[k]].res = "open" /\ srvCalls[l[k]].kind = "stream"
  BY <1>3
<1> HIDE DEF ends, late
<1>8. \A k \in 1 .. Len(l) :
        /\ ends[k].call = l[k]
        /\ ends[k].kind = IF srvCalls[l[k]].req = "open" THEN "error" ELSE "complete"
        /\ ends[k] \in MicroTask
  <2>1. NoValue \in Nat
    BY DEF NoValue
  <2>2. ASSUME NEW k \in 1 .. Len(l)
        PROVE  /\ ends[k].call = l[k]
               /\ ends[k].kind = IF srvCalls[l[k]].req = "open" THEN "error" ELSE "complete"
               /\ ends[k] \in MicroTask
    <3>1. ends[k] = StopTask(l[k])
      BY <1>6, <1>7
    <3>2. l[k] \in Nat \ {0}
      BY <1>1, <1>7
    <3> QED BY <2>1, <3>1, <3>2 DEF StopTask, SrvTask, MicroTask
  <2> QED BY <2>2
<1>9. ends \in Seq(MicroTask) /\ Len(ends) = Len(l)
  <2>1. ends = [k \in 1 .. Len(l) |-> ends[k]]
    BY <1>6, <1>7
  <2>2. ends \in [1 .. Len(l) -> MicroTask]
    BY <1>8, <2>1
  <2> QED BY <1>7, <2>2
<1>10. /\ srvMicrotasks' \in Seq(MicroTask)
       /\ Len(srvMicrotasks') = Len(srvMicrotasks) + Len(l)
       /\ \A k \in 1 .. Len(srvMicrotasks') :
            \/ k \in 1 .. Len(srvMicrotasks) /\ srvMicrotasks'[k] = srvMicrotasks[k]
            \/ k - Len(srvMicrotasks) \in 1 .. Len(l) /\ srvMicrotasks'[k] = ends[k - Len(srvMicrotasks)]
  <2>1. /\ srvMicrotasks \o ends \in Seq(MicroTask)
        /\ Len(srvMicrotasks \o ends) = Len(srvMicrotasks) + Len(ends)
        /\ \A k \in 1 .. Len(srvMicrotasks) + Len(ends) :
             (srvMicrotasks \o ends)[k] = IF k <= Len(srvMicrotasks) THEN srvMicrotasks[k]
                                          ELSE ends[k - Len(srvMicrotasks)]
    BY <1>1, <1>9, ConcatProperties
  <2> QED BY <1>1, <1>2, <1>7, <1>9, <2>1
<1>11. ASSUME NEW i \in 1 .. Len(srvCalls)
       PROVE  /\ cs[i] \in ServerCall /\ RecordOK(cs[i])
              /\ cs[i].kind = srvCalls[i].kind /\ cs[i].emitted = srvCalls[i].emitted
              /\ cs[i].obs.tasks = srvCalls[i].obs.tasks
              /\ srvCalls[i].res # "open" => cs[i].res = srvCalls[i].res
              /\ i \in active /\ srvCalls[i].res = "open" =>
                   cs[i].res = IF srvCalls[i].req = "open" THEN "errored" ELSE "completed"
  <2>1. CASE i \in active
    <3>1. cs[i] = StoppedCall(srvCalls[i])
      BY <1>1, <2>1
    <3>2. srvCalls[i].kind = "stream"
      BY <1>3, <2>1
    <3> HIDE DEF cs
    <3> QED BY <1>1, <2>1, <3>1, <3>2, StoppedTypes
  <2>2. CASE i \notin active
    <3>1. cs[i] = srvCalls[i]
      BY <1>1, <2>2
    <3> HIDE DEF cs
    <3> QED BY <1>1, <2>2, <3>1
  <2> QED BY <2>1, <2>2
<1>12. cs \in Seq(ServerCall) /\ Len(cs) = Len(srvCalls)
  <2>1. cs = [i \in 1 .. Len(srvCalls) |-> cs[i]]
    BY <1>1
  <2>2. cs \in [1 .. Len(srvCalls) -> ServerCall]
    BY <1>11, <2>1
  <2> QED BY <1>1, <2>2
<1> HIDE DEF cs
<1>13. ASSUME NEW k \in 1 .. Len(srvMicrotasks')
       PROVE  /\ srvMicrotasks'[k].call \in 1 .. Len(srvCalls)
              /\ TaskOK(srvMicrotasks'[k], cs[srvMicrotasks'[k].call])
  <2>1. CASE k \in 1 .. Len(srvMicrotasks) /\ srvMicrotasks'[k] = srvMicrotasks[k]
    <3>1. PICK t \in MicroTask : t = srvMicrotasks[k]
      BY <1>1, <2>1
    <3>2. PICK i \in 1 .. Len(srvCalls) : i = t.call /\ TaskOK(t, srvCalls[i])
      BY <2>1, <3>1 DEF ServerInv, TasksOK
    <3>3. TaskOK(t, cs[i])
      BY <1>11, <3>2 DEF TaskOK
    <3> QED BY <2>1, <3>1, <3>2, <3>3
  <2>2. CASE k - Len(srvMicrotasks) \in 1 .. Len(l) /\ srvMicrotasks'[k] = ends[k - Len(srvMicrotasks)]
    <3>1. PICK j \in 1 .. Len(l) : srvMicrotasks'[k] = ends[j]
      BY <2>2
    <3>2. PICK i \in 1 .. Len(srvCalls) : i = l[j]
      BY <1>7
    <3>3. /\ cs[i].kind = "stream"
          /\ cs[i].res = IF srvCalls[i].req = "open" THEN "errored" ELSE "completed"
      BY <1>7, <1>11, <3>1, <3>2
    <3>4. TaskOK(ends[j], cs[i])
      BY <1>8, <3>1, <3>2, <3>3 DEF TaskOK
    <3> QED BY <1>8, <3>1, <3>2, <3>4
  <2> QED BY <1>10, <2>1, <2>2
<1>14. Ordered(srvMicrotasks')
  <2> SUFFICES ASSUME NEW j \in 1 .. Len(srvMicrotasks'), NEW k \in 1 .. Len(srvMicrotasks'), j < k,
                      srvMicrotasks'[j].call = srvMicrotasks'[k].call
               PROVE  /\ srvMicrotasks'[j].kind = "next"
                      /\ srvMicrotasks'[k].kind = "next" =>
                           srvMicrotasks'[j].val < srvMicrotasks'[k].val
    BY DEF Ordered
  <2>1. Ordered(srvMicrotasks)
    BY DEF ServerInv, TasksOK
  <2>2. CASE k \in 1 .. Len(srvMicrotasks) /\ srvMicrotasks'[k] = srvMicrotasks[k]
    <3>1. j \in 1 .. Len(srvMicrotasks) /\ srvMicrotasks'[j] = srvMicrotasks[j]
      BY <1>1, <1>7, <1>10, <2>2
    <3> QED BY <2>1, <2>2, <3>1 DEF Ordered
  <2>3. CASE k - Len(srvMicrotasks) \in 1 .. Len(l) /\ srvMicrotasks'[k] = ends[k - Len(srvMicrotasks)]
    <3>1. PICK kk \in 1 .. Len(l) : kk = k - Len(srvMicrotasks) /\ srvMicrotasks'[k] = ends[kk]
      BY <2>3
    <3>2. /\ srvMicrotasks'[k].call = l[kk] /\ srvMicrotasks'[k].kind # "next"
          /\ l[kk] \in 1 .. Len(srvCalls) /\ srvCalls[l[kk]].res = "open"
      BY <1>7, <1>8, <3>1
    <3>3. CASE j \in 1 .. Len(srvMicrotasks) /\ srvMicrotasks'[j] = srvMicrotasks[j]
      <4>1. TaskOK(srvMicrotasks[j], srvCalls[l[kk]]) /\ srvMicrotasks[j] \in MicroTask
        BY <1>1, <3>2, <3>3 DEF ServerInv, TasksOK
      <4> QED BY <3>2, <3>3, <4>1 DEF TaskOK, MicroTask
    <3>4. CASE /\ j - Len(srvMicrotasks) \in 1 .. Len(l)
               /\ srvMicrotasks'[j] = ends[j - Len(srvMicrotasks)]
      <4>1. PICK jj \in 1 .. Len(l) : jj = j - Len(srvMicrotasks) /\ srvMicrotasks'[j] = ends[jj]
        BY <3>4
      <4>2. l[jj] = l[kk]
        BY <1>8, <3>2, <4>1
      <4>3. jj = kk
        BY <1>6, <4>2
      <4> QED BY <1>1, <3>1, <4>1, <4>3
    <3> QED BY <1>10, <3>3, <3>4
  <2> QED BY <1>10, <2>2, <2>3
<1>15. /\ CallsOK(srvCalls') /\ TasksOK(srvMicrotasks', srvCalls')
       /\ EntriesOK(activeStreamCalls', srvCalls', srvMicrotasks')
  <2>1. CallsOK(srvCalls')
    BY <1>2, <1>11, <1>12 DEF CallsOK
  <2>2. TasksOK(srvMicrotasks', srvCalls')
    BY <1>2, <1>12, <1>13, <1>14 DEF TasksOK
  <2>3. EntriesOK(activeStreamCalls', srvCalls', srvMicrotasks')
    BY <1>2 DEF EntriesOK
  <2> QED BY <2>1, <2>2, <2>3
<1>16. SendTypeOK' /\ EndsOnce
  <2>1. NothingSent
    BY <1>2 DEF NothingSent
  <2> QED BY <2>1, NothingSentTypes DEF ServerInv, ServerTyped
<1>17. ServerTyped'
  <2>1. activeStreamCalls' \in [Id -> Nat] /\ srvStopped' \in BOOLEAN
    BY <1>2
  <2> QED BY <1>2, <1>10, <1>12, <1>16, <2>1 DEF ServerInv, ServerTyped
<1> QED BY <1>15, <1>16, <1>17 DEF ServerInv

-----------------------------------------------------------------------------
(* The other steps, and all of them.                                        *)
LEMMA ReceiveStep ==
  ASSUME ServerInv, ServerReceivesBatch
  PROVE  ServerInv' /\ EndsOnce
<1>1. /\ c2s \in Seq(Seq(ClientMessage)) /\ c2s # <<>> /\ NothingSent
      /\ srvInbox' = Head(c2s) /\ c2s' = Tail(c2s)
      /\ UNCHANGED <<srvCalls, activeStreamCalls, srvMicrotasks, srvStopped>>
  BY DEF ServerReceivesBatch, ServerInv, ServerTyped
<1>2. srvInbox' \in Seq(ClientMessage) /\ c2s' \in Seq(Seq(ClientMessage))
  BY <1>1, TakeOne
<1>3. SendTypeOK' /\ EndsOnce
  BY <1>1, NothingSentTypes DEF ServerInv, ServerTyped
<1> QED BY <1>1, <1>2, <1>3, QuietStep

LEMMA TimerStep ==
  ASSUME ServerInv, ServerTimerFires
  PROVE  ServerInv' /\ EndsOnce
<1>1. /\ UNCHANGED <<srvCalls, activeStreamCalls, srvMicrotasks, srvStopped>>
      /\ srvInbox' \in Seq(ClientMessage) /\ c2s' \in Seq(Seq(ClientMessage))
  BY DEF ServerTimerFires, ServerInv, ServerTyped
<1>2. SendTypeOK' /\ EndsOnce
  BY TimerTypes DEF ServerTimerFires, ServerInv, ServerTyped
<1> QED BY <1>1, <1>2, QuietStep

LEMMA ClientSendsStep ==
  ASSUME ServerInv, ClientSends
  PROVE  ServerInv' /\ EndsOnce
<1>1. PICK batch \in ClientBatch : c2s' = <<batch>>
  BY DEF ClientSends
<1>2. c2s' \in Seq(Seq(ClientMessage))
  BY <1>1, ClientBatchAssumption
<1>3. /\ UNCHANGED <<srvCalls, activeStreamCalls, srvMicrotasks, srvStopped>> /\ NothingSent
      /\ srvInbox' \in Seq(ClientMessage)
  BY DEF ClientSends, serverVars, NothingSent, ServerInv, ServerTyped
<1>4. SendTypeOK' /\ EndsOnce
  BY <1>3, NothingSentTypes DEF ServerInv, ServerTyped
<1> QED BY <1>2, <1>3, <1>4, QuietStep

LEMMA ClientTakesStep ==
  ASSUME ServerInv, ClientTakes
  PROVE  ServerInv' /\ EndsOnce
<1>1. /\ srvBuf \in Seq(ServerMessage) /\ srvTimer \in BOOLEAN /\ s2c \in Seq(Seq(ServerMessage))
      /\ s2c # <<>> /\ s2c' = Tail(s2c) /\ UNCHANGED <<srvBuf, srvTimer>>
  BY DEF ClientTakes, ServerInv, ServerTyped, SendTypeOK
<1>2. /\ s2c' \in Seq(Seq(ServerMessage)) /\ Len(s2c) \in Nat \ {0}
      /\ Len(s2c') = Len(s2c) - 1 /\ Len(srvBuf) \in Nat
  BY <1>1, TakeOne
<1>3. SentMessages = {}
  BY <1>1, <1>2 DEF SentMessages
<1>4. SendTypeOK' /\ EndsOnce
  BY <1>1, <1>2, <1>3 DEF SendTypeOK, EndsOnce
<1>5. /\ UNCHANGED <<srvCalls, activeStreamCalls, srvMicrotasks, srvStopped>>
      /\ srvInbox' \in Seq(ClientMessage) /\ c2s' \in Seq(Seq(ClientMessage))
  BY DEF ClientTakes, ServerInv, ServerTyped
<1> QED BY <1>4, <1>5, QuietStep

LEMMA InitInv == Init => ServerInv
<1> SUFFICES ASSUME Init PROVE ServerInv
  OBVIOUS
<1>1. ServerTyped
  BY EmptySeq DEF Init, ServerInit, SrvBuffer!QueueInit, ServerTyped, SendTypeOK
<1>2. CallsOK(srvCalls) /\ TasksOK(srvMicrotasks, srvCalls)
  BY DEF Init, ServerInit, CallsOK, TasksOK, Ordered
<1>3. EntriesOK(activeStreamCalls, srvCalls, srvMicrotasks)
  BY DEF Init, ServerInit, EntriesOK
<1> QED BY <1>1, <1>2, <1>3 DEF ServerInv

LEMMA NextInv == ServerInv /\ [Next]_openVars => ServerInv' /\ EndsOnce
<1> SUFFICES ASSUME ServerInv, [Next]_openVars PROVE ServerInv' /\ EndsOnce
  OBVIOUS
<1>1. CASE ServerMicrotaskRuns
  BY <1>1, MicrotaskStep
<1>2. CASE ServerReceivesBatch
  BY <1>2, ReceiveStep
<1>3. CASE ServerOnMessage
  BY <1>3, MessageStep
<1>4. CASE ServerTimerFires
  BY <1>4, TimerStep
<1>5. CASE MethodAction
  BY <1>5, MethodStep
<1>6. CASE ServerStop
  BY <1>6, StopStep
<1>7. CASE ClientSends
  BY <1>7, ClientSendsStep
<1>8. CASE ClientTakes
  BY <1>8, ClientTakesStep
<1>9. CASE UNCHANGED openVars
  <2>1. /\ UNCHANGED <<srvCalls, activeStreamCalls, srvMicrotasks, srvStopped>> /\ NothingSent
        /\ srvInbox' \in Seq(ClientMessage) /\ c2s' \in Seq(Seq(ClientMessage))
    BY <1>9 DEF openVars, serverVars, NothingSent, ServerInv, ServerTyped
  <2>2. SendTypeOK' /\ EndsOnce
    BY <2>1, NothingSentTypes DEF ServerInv, ServerTyped
  <2> QED BY <2>1, <2>2, QuietStep
<1> QED BY <1>1, <1>2, <1>3, <1>4, <1>5, <1>6, <1>7, <1>8, <1>9 DEF Next, ServerNext, ServerCallback

-----------------------------------------------------------------------------
(* Every execution keeps to the types of its variables, whatever the client *)
(* sends: an entry refers to a call that exists, a microtask to its call.   *)
THEOREM ServerTypes == Spec => []TypeOK
<1>1. ServerInv => TypeOK
  <2> SUFFICES ASSUME ServerInv PROVE TypeOK
    OBVIOUS
  <2>1. /\ srvCalls \in Seq(ServerCall) /\ Len(srvCalls) \in Nat /\ DOMAIN srvCalls = 1 .. Len(srvCalls)
        /\ srvMicrotasks \in Seq(MicroTask) /\ Len(srvMicrotasks) \in Nat
        /\ \A k \in 1 .. Len(srvMicrotasks) : srvMicrotasks[k] \in MicroTask
    BY Indices DEF ServerInv, ServerTyped
  <2>2. activeStreamCalls \in [Id -> 0 .. Len(srvCalls)]
    <3>1. \A id \in Id : activeStreamCalls[id] \in 0 .. Len(srvCalls)
      BY <2>1 DEF ServerInv, EntriesOK
    <3> QED BY <3>1 DEF ServerInv, ServerTyped
  <2> DEFINE Task == [call: DOMAIN srvCalls, kind: {"next", "complete", "error"}, val: Nat]
  <2>3. \A k \in 1 .. Len(srvMicrotasks) : srvMicrotasks[k] \in Task
    <3>1. \A k \in 1 .. Len(srvMicrotasks) : srvMicrotasks[k].call \in DOMAIN srvCalls
      BY <2>1 DEF ServerInv, TasksOK
    <3> QED BY <2>1, <3>1 DEF MicroTask
  <2>4. srvMicrotasks \in Seq(Task)
    <3> HIDE DEF Task
    <3>1. srvMicrotasks = [k \in 1 .. Len(srvMicrotasks) |-> srvMicrotasks[k]]
      BY <2>1
    <3>2. srvMicrotasks \in [1 .. Len(srvMicrotasks) -> Task]
      BY <2>3, <3>1
    <3> QED BY <2>1, <3>2
  <2> QED BY <2>2, <2>4 DEF ServerInv, ServerTyped, SendTypeOK, TypeOK, ServerTypeOK
<1> QED BY <1>1, InitInv, NextInv, PTL DEF Spec

(* No entry of activeStreamCalls outlives its call: in every state, each of *)
(* them is a streaming call under its own id, not unsubscribed, whose last  *)
(* response message has not been sent.                                      *)
THEOREM NoStaleEntries == Spec => []ActiveCallsUnended
<1>1. ServerInv => ActiveCallsUnended
  <2> SUFFICES ASSUME ServerInv, NEW id \in Id, NEW i, i = activeStreamCalls[id], i # 0
               PROVE  /\ srvCalls[i].kind = "stream" /\ srvCalls[i].id = id
                      /\ ~srvCalls[i].unsubscribed
                      /\ ~ResponseEnded(i)
    BY DEF ActiveCallsUnended
  <2>1. EntryOK(id, i, srvCalls[i], srvMicrotasks)
    BY DEF ServerInv, EntriesOK
  <2>2. DOMAIN srvMicrotasks = 1 .. Len(srvMicrotasks)
    BY Indices DEF ServerInv, ServerTyped
  <2>3. ~ResponseEnded(i)
    BY <2>1, <2>2 DEF EntryOK, ResponseEnded, FinalWaits
  <2> QED BY <2>1, <2>3 DEF EntryOK
<1> QED BY <1>1, InitInv, NextInv, PTL DEF Spec

(* A response ends once and with its last message: no step sends anything   *)
(* for an execution whose end went out before, and a message that says it   *)
(* is the end is followed by no other.                                      *)
THEOREM ResponsesEndOnce == Spec => NoResponseAfterItsEnd
<1>1. ServerInv /\ [Next]_openVars => [EndsOnce]_serverVars
  BY NextInv
<1>2. Spec => [][EndsOnce]_serverVars
  BY <1>1, InitInv, NextInv, PTL DEF Spec
<1> QED BY <1>2 DEF NoResponseAfterItsEnd, EndsOnce

-----------------------------------------------------------------------------
(* What a step does to the executions and to the messages, as one who joins *)
(* the processor to a client needs it.                                      *)

SameCall(old, new) == new.of = old.of /\ new.id = old.id /\ new.kind = old.kind

(* The method gets nothing, and its request stream can only fail.           *)
GetsNothing(old, new) ==
  /\ SameCall(old, new) /\ new.got = old.got /\ new.unsubscribed = old.unsubscribed
  /\ new.req \in {old.req, "errored"}

(* Entries may go.                                                          *)
EntriesGo == \A id \in Id : activeStreamCalls'[id] \in {0, activeStreamCalls[id]}

NothingGot ==
  /\ Len(srvCalls') = Len(srvCalls)
  /\ \A i \in 1 .. Len(srvCalls) : GetsNothing(srvCalls[i], srvCalls'[i])
  /\ EntriesGo

(* A step of execution i alone.                                             *)
StepOf(i) ==
  /\ i \in 1 .. Len(srvCalls) /\ Len(srvCalls') = Len(srvCalls)
  /\ SameCall(srvCalls[i], srvCalls'[i])
  /\ \A j \in 1 .. Len(srvCalls) : j # i => srvCalls'[j] = srvCalls[j]

(* Message m reaches execution i: with a value, the end or both, ...        *)
Takes(m, i) ==
  LET old == srvCalls[i]
      new == srvCalls'[i]
  IN  /\ m.type \in {"RequestData", "RequestComplete"}
      /\ StepOf(i) /\ activeStreamCalls' = activeStreamCalls
      /\ new.unsubscribed = old.unsubscribed
      /\ old.req # "open" => new.got = old.got /\ new.req = old.req
      /\ old.req = "open" =>
           /\ new.got = IF m.val = NoValue THEN old.got ELSE Append(old.got, m.val)
           /\ new.req = IF m.type = "RequestComplete" THEN "completed" ELSE "open"

(* ... with an error ...                                                    *)
Fails(m, i) ==
  /\ m.type = "RequestError"
  /\ StepOf(i) /\ EntriesGo
  /\ GetsNothing(srvCalls[i], srvCalls'[i]) /\ srvCalls'[i].req # "open"

(* ... or with the unsubscription of the client.                            *)
Left(m, i) ==
  /\ m.type = "ResponseUnsubscribe"
  /\ StepOf(i) /\ EntriesGo /\ activeStreamCalls'[m.id] = 0
  /\ srvCalls'[i].got = srvCalls[i].got /\ srvCalls'[i].unsubscribed

(* Message m starts an execution.                                           *)
Begins(m) ==
  LET new == srvCalls'[Len(srvCalls) + 1]
  IN  /\ m.type \in RequestType /\ m.method # NoMethod
      /\ Len(srvCalls') = Len(srvCalls) + 1
      /\ \A j \in 1 .. Len(srvCalls) : srvCalls'[j] = srvCalls[j]
      /\ new.of = m.of /\ new.id = m.id
      /\ \A id \in Id : \/ activeStreamCalls'[id] \in {0, activeStreamCalls[id]}
                        \/ id = m.id /\ activeStreamCalls'[id] = Len(srvCalls) + 1
      /\ new.kind = "stream" =>
           /\ new.got = IF m.type = "RequestError" \/ m.val = NoValue THEN <<>> ELSE <<m.val>>
           /\ new.req = "completed" => m.type = "RequestComplete" /\ m.val # NoValue
           /\ m.type = "RequestError" => new.req # "open"
           /\ m.type = "RequestComplete" /\ m.val # NoValue => new.req # "open"

(* The end of a response goes to the call that r, a message or a record,    *)
(* is of.                                                                   *)
EndsResponse(r) == r.type \in {"ResponseComplete", "ResponseError"}

EndGoes(r) ==
  \E e \in ServerMessage : EndsResponse(e) /\ e.of = r.of /\ e.id = r.id /\ Send(e)

(* What onMessage does with m; the entry for its id decides. A request that *)
(* reaches no execution and starts none is refused.                         *)
Handled(m) ==
  LET i == activeStreamCalls[m.id]
  IN  \/ i # 0 /\ (Takes(m, i) \/ Fails(m, i) \/ Left(m, i))
      \/ i = 0 /\ Begins(m)
      \/ i = 0 /\ NothingGot /\ (m.type \in RequestType => EndGoes(m))

(* The client's batches are read from the first message to the last, unless *)
(* the rest of one is lost.                                                 *)
ServerReads ==
  \/ /\ srvInbox # <<>> /\ srvInbox' = Tail(srvInbox) /\ c2s' = c2s
     /\ Handled(Head(srvInbox))
  \/ /\ srvInbox # <<>> /\ srvInbox' = <<>> /\ c2s' = c2s
     /\ Head(srvInbox).method \in UnknownMethod /\ NothingGot
  \/ /\ c2s # <<>> /\ srvInbox = <<>> /\ srvInbox' = Head(c2s) /\ c2s' = Tail(c2s)
     /\ NothingGot
  \/ srvInbox' = srvInbox /\ c2s' = c2s /\ NothingGot

(* Every message sent is for an execution or answers the message read.      *)
AddressOf(r) ==
  \/ \E i \in 1 .. Len(srvCalls) : r.id = srvCalls[i].id /\ r.of = srvCalls[i].of
  \/ srvInbox # <<>> /\ r.id = Head(srvInbox).id /\ r.of = Head(srvInbox).of

ServerSends ==
  \/ NothingSent
  \/ SrvBuffer!TimerFires
  \/ \E r \in ServerMessage : AddressOf(r) /\ Send(r)

LEMMA StepOfOne ==
  ASSUME ServerInv, NEW i \in 1 .. Len(srvCalls), NEW rec \in ServerCall,
         SameCall(srvCalls[i], rec), srvCalls' = [srvCalls EXCEPT ![i] = rec]
  PROVE  StepOf(i) /\ srvCalls'[i] = rec
<1>1. srvCalls \in Seq(ServerCall)
  BY DEF ServerInv, ServerTyped
<1> QED BY <1>1, ReplaceOne DEF StepOf

LEMMA OneGetsNothing ==
  ASSUME NEW i, StepOf(i), GetsNothing(srvCalls[i], srvCalls'[i]), EntriesGo
  PROVE  NothingGot
<1>1. \A j \in 1 .. Len(srvCalls) : j # i => GetsNothing(srvCalls[j], srvCalls'[j])
  BY DEF StepOf, GetsNothing, SameCall
<1> QED BY <1>1 DEF StepOf, NothingGot

LEMMA SameGetNothing ==
  ASSUME ServerInv, srvCalls' = srvCalls, EntriesGo
  PROVE  NothingGot
BY DEF NothingGot, GetsNothing, SameCall

LEMMA EntryGoes ==
  ASSUME ServerInv
  PROVE  /\ activeStreamCalls' = activeStreamCalls => EntriesGo
         /\ \A id \in Id : activeStreamCalls' = [activeStreamCalls EXCEPT ![id] = 0] =>
              EntriesGo /\ activeStreamCalls'[id] = 0
<1>1. activeStreamCalls \in [Id -> Nat]
  BY DEF ServerInv, ServerTyped
<1> QED BY <1>1 DEF EntriesGo

LEMMA ExecutionAnswers ==
  ASSUME ServerInv, NEW i \in 1 .. Len(srvCalls), NEW rec \in ServerCall,
         rec.id = srvCalls[i].id, rec.of = srvCalls[i].of,
         NEW type \in ResponseType, NEW val \in Nat, Send(Response(type, i, rec, val))
  PROVE  ServerSends
<1> DEFINE r == Response(type, i, rec, val)
<1>1. i \in Nat
  BY Indices DEF ServerInv, ServerTyped
<1>2. r \in ServerMessage
  BY <1>1, ResponseTypes
<1>3. AddressOf(r)
  BY DEF AddressOf, Response
<1> QED BY <1>2, <1>3 DEF ServerSends

(* The response of execution i errors.                                      *)
LEMMA ErrorsGet ==
  ASSUME ServerInv, NEW i \in 1 .. Len(srvCalls), NEW rec \in ServerCall,
         GetsNothing(srvCalls[i], rec), ResponseErrors(i, rec, srvCalls)
  PROVE  /\ StepOf(i) /\ EntriesGo /\ GetsNothing(srvCalls[i], srvCalls'[i])
         /\ srvCalls'[i].req = rec.req /\ ServerSends
<1> DEFINE failed == [rec EXCEPT !.res = "errored"]
<1>1. /\ failed \in ServerCall /\ GetsNothing(srvCalls[i], failed) /\ failed.req = rec.req
      /\ failed.id \in Id
  BY DEF ServerCall, GetsNothing, SameCall
<1>2. /\ srvCalls' = [srvCalls EXCEPT ![i] = failed]
      /\ \/ OnStreamError(i, failed)
         \/ NothingSent /\ activeStreamCalls' = activeStreamCalls
  BY DEF ResponseErrors
<1> HIDE DEF failed
<1>3. StepOf(i) /\ srvCalls'[i] = failed
  BY <1>1, <1>2, StepOfOne DEF GetsNothing
<1>4. EntriesGo /\ ServerSends
  <2>1. CASE NothingSent /\ activeStreamCalls' = activeStreamCalls
    BY <2>1, EntryGoes DEF ServerSends
  <2>2. CASE OnStreamError(i, failed)
    <3>1. "ResponseError" \in ResponseType /\ NoValue \in Nat
      BY DEF ResponseType, NoValue
    <3>2. failed.id = srvCalls[i].id /\ failed.of = srvCalls[i].of
      BY <1>1 DEF GetsNothing, SameCall
    <3> QED BY <1>1, <2>2, <3>1, <3>2, EntryGoes, ExecutionAnswers DEF OnStreamError
  <2> QED BY <1>2, <2>1, <2>2
<1> QED BY <1>1, <1>3, <1>4

LEMMA MicrotaskReads ==
  ASSUME ServerInv, ServerMicrotaskRuns
  PROVE  ServerReads /\ ServerSends
<1>1. PICK t \in MicroTask : t = Head(srvMicrotasks)
  BY TakeOne DEF ServerMicrotaskRuns, ServerInv, ServerTyped
<1>2. PICK i \in 1 .. Len(srvCalls) : i = t.call
  <2>1. srvMicrotasks \in Seq(MicroTask) /\ srvMicrotasks # <<>>
    BY DEF ServerMicrotaskRuns, ServerInv, ServerTyped
  <2>2. t = srvMicrotasks[1] /\ 1 \in 1 .. Len(srvMicrotasks)
    BY <1>1, <2>1, TakeOne
  <2> QED BY <2>2 DEF ServerInv, TasksOK
<1>3. /\ srvCalls[i] \in ServerCall /\ srvCalls[i].id \in Id /\ t.val \in Nat /\ NoValue \in Nat
      /\ \A type \in {"ResponseData", "ResponseComplete", "ResponseError"} : type \in ResponseType
  <2>1. srvCalls[i] \in ServerCall
    BY Indices DEF ServerInv, ServerTyped
  <2> QED BY <2>1 DEF ServerCall, MicroTask, ResponseType, NoValue
<1>4. srvInbox' = srvInbox /\ c2s' = c2s
  BY DEF ServerMicrotaskRuns
<1>5. ASSUME NEW type \in {"ResponseData", "ResponseComplete", "ResponseError"}, NEW val \in Nat,
             Send(Response(type, i, srvCalls[i], val))
      PROVE  ServerSends
  BY <1>3, <1>5, ExecutionAnswers
<1>6. CASE t.kind = "next" /\ ResponseValueTask(i, t.val)
  <2> DEFINE new == [srvCalls[i] EXCEPT !.obs = ValueHandled(@)]
  <2>1. srvCalls' = [srvCalls EXCEPT ![i] = new]
    BY <1>6 DEF ResponseValueTask
  <2>2. GetsNothing(srvCalls[i], new)
    BY <1>3 DEF GetsNothing, SameCall, ServerCall
  <2> HIDE DEF new
  <2>3. srvCalls \in Seq(ServerCall)
    BY DEF ServerInv, ServerTyped
  <2>4. /\ StepOf(i) /\ GetsNothing(srvCalls[i], srvCalls'[i])
    <3>1. /\ Len(srvCalls') = Len(srvCalls) /\ srvCalls'[i] = new
          /\ \A j \in 1 .. Len(srvCalls) : j # i => srvCalls'[j] = srvCalls[j]
      BY <2>1, <2>3
    <3> QED BY <2>2, <3>1 DEF StepOf, GetsNothing
  <2>5. EntriesGo /\ ServerSends
    BY <1>3, <1>5, <1>6, EntryGoes DEF ResponseValueTask, OnStreamComplete
  <2> QED BY <1>4, <2>4, <2>5, OneGetsNothing DEF ServerReads
<1>7. CASE ResponseFinalTask(i, t.kind) /\ srvCalls' = srvCalls
  <2>1. EntriesGo /\ ServerSends
    <3>1. CASE OnStreamError(i, srvCalls[i])
      BY <1>3, <1>5, <3>1, EntryGoes DEF OnStreamError
    <3>2. CASE OnStreamComplete(i, srvCalls[i], NoValue)
      BY <1>3, <1>5, <3>2, EntryGoes DEF OnStreamComplete
    <3>3. CASE NothingSent /\ activeStreamCalls' = activeStreamCalls
      BY <3>3, EntryGoes DEF ServerSends
    <3> QED BY <1>7, <3>1, <3>2, <3>3 DEF ResponseFinalTask
  <2> QED BY <1>4, <1>7, <2>1, SameGetNothing DEF ServerReads
<1> QED BY <1>1, <1>2, <1>6, <1>7 DEF ServerMicrotaskRuns

LEMMA MethodReads ==
  ASSUME ServerInv, MethodAction
  PROVE  ServerReads /\ ServerSends
<1>1. srvCalls \in Seq(ServerCall) /\ DOMAIN srvCalls = 1 .. Len(srvCalls)
  BY Indices DEF ServerInv, ServerTyped
<1>2. PICK i \in 1 .. Len(srvCalls) :
        \/ MethodEmits(i) \/ MethodCompletes(i) \/ MethodFails(i)
        \/ \E type \in {"ResponseComplete", "ResponseError"} : StaticCallSettles(i, type)
  BY <1>1 DEF MethodAction
<1>3. /\ srvCalls[i] \in ServerCall /\ srvCalls[i].id \in Id /\ NoValue \in Nat
      /\ \A type \in {"ResponseData", "ResponseComplete", "ResponseError"} : type \in ResponseType
  <2>1. srvCalls[i] \in ServerCall
    BY Indices DEF ServerInv, ServerTyped
  <2> QED BY <2>1 DEF ServerCall, ResponseType, NoValue
<1>4. srvInbox' = srvInbox /\ c2s' = c2s
  BY <1>2 DEF MethodEmits, MethodCompletes, MethodFails, StaticCallSettles
<1>5. ASSUME NEW rec, GetsNothing(srvCalls[i], rec), srvCalls' = [srvCalls EXCEPT ![i] = rec],
             EntriesGo
      PROVE  ServerReads
  <2>1. /\ Len(srvCalls') = Len(srvCalls) /\ srvCalls'[i] = rec
        /\ \A j \in 1 .. Len(srvCalls) : j # i => srvCalls'[j] = srvCalls[j]
    BY <1>1, <1>5
  <2>2. StepOf(i) /\ GetsNothing(srvCalls[i], srvCalls'[i])
    BY <1>5, <2>1 DEF StepOf, GetsNothing
  <2> QED BY <1>4, <1>5, <2>2, OneGetsNothing DEF ServerReads
<1>6. CASE MethodEmits(i)
  <2> DEFINE rec == [srvCalls[i] EXCEPT !.emitted = @ + 1, !.obs = ValueQueued(@)]
  <2>1. srvCalls' = [srvCalls EXCEPT ![i] = rec]
    BY <1>1, <1>3, <1>6 DEF MethodEmits, ServerCall
  <2>2. GetsNothing(srvCalls[i], rec)
    BY <1>3 DEF GetsNothing, SameCall, ServerCall
  <2> HIDE DEF rec
  <2> QED BY <1>5, <1>6, <2>1, <2>2, EntryGoes DEF MethodEmits, ServerSends
<1>7. CASE MethodCompletes(i)
  <2> DEFINE rec == [srvCalls[i] EXCEPT !.res = "completed", !.obs = SourceCompleted(@)]
  <2>1. /\ srvCalls' = [srvCalls EXCEPT ![i] = rec]
        /\ \/ OnStreamComplete(i, rec, NoValue)
           \/ NothingSent /\ activeStreamCalls' = activeStreamCalls
    BY <1>7 DEF MethodCompletes
  <2>2. GetsNothing(srvCalls[i], rec) /\ rec.id = srvCalls[i].id /\ rec.of = srvCalls[i].of
    BY <1>3 DEF GetsNothing, SameCall, ServerCall
  <2>3. rec \in ServerCall
    <3>1. SourceCompleted(srvCalls[i].obs) \in ObserverState
      BY <1>3 DEF ServerCall, SourceCompleted, ObserverState, PassedOnAtOnce
    <3> QED BY <1>3, <3>1 DEF ServerCall
  <2> HIDE DEF rec
  <2>4. EntriesGo /\ ServerSends
    <3>1. CASE OnStreamComplete(i, rec, NoValue)
      BY <1>3, <2>2, <2>3, <3>1, EntryGoes, ExecutionAnswers DEF OnStreamComplete
    <3>2. CASE NothingSent /\ activeStreamCalls' = activeStreamCalls
      BY <3>2, EntryGoes DEF ServerSends
    <3> QED BY <2>1, <3>1, <3>2
  <2> QED BY <1>5, <2>1, <2>2, <2>4
<1>8. CASE MethodFails(i)
  <2>1. GetsNothing(srvCalls[i], srvCalls[i])
    BY DEF GetsNothing, SameCall
  <2>2. StepOf(i) /\ EntriesGo /\ GetsNothing(srvCalls[i], srvCalls'[i]) /\ ServerSends
    BY <1>3, <1>8, <2>1, ErrorsGet DEF MethodFails
  <2> QED BY <1>4, <2>2, OneGetsNothing DEF ServerReads
<1>9. ASSUME NEW type \in {"ResponseComplete", "ResponseError"}, StaticCallSettles(i, type)
      PROVE  ServerReads /\ ServerSends
  <2> DEFINE rec == [srvCalls[i] EXCEPT !.res = IF type = "ResponseError" THEN "errored" ELSE "completed",
                                        !.emitted = IF type = "ResponseError" THEN @ ELSE 1]
             val == IF type = "ResponseError" THEN NoValue ELSE 1
  <2>1. srvCalls' = [srvCalls EXCEPT ![i] = rec]
    BY <1>1, <1>3, <1>9 DEF StaticCallSettles, ServerCall
  <2>2. GetsNothing(srvCalls[i], rec)
    BY <1>3 DEF GetsNothing, SameCall, ServerCall
  <2>3. val \in Nat /\ Send(Response(type, i, srvCalls[i], val)) /\ activeStreamCalls' = activeStreamCalls
    BY <1>3, <1>9 DEF StaticCallSettles
  <2> HIDE DEF rec, val
  <2>4. ServerSends
    BY <1>3, <2>3, ExecutionAnswers
  <2> QED BY <1>5, <2>1, <2>2, <2>3, <2>4, EntryGoes
<1> QED BY <1>2, <1>6, <1>7, <1>8, <1>9

LEMMA StopReads ==
  ASSUME ServerInv, ServerStop
  PROVE  ServerReads /\ ServerSends
<1> DEFINE active == {activeStreamCalls[id] : id \in Id} \ {0}
<1>1. srvCalls \in Seq(ServerCall) /\ Len(srvCalls) \in Nat /\ DOMAIN srvCalls = 1 .. Len(srvCalls)
  BY Indices DEF ServerInv, ServerTyped
<1>2. /\ srvCalls' = [i \in DOMAIN srvCalls |->
           IF i \in active THEN StoppedCall(srvCalls[i]) ELSE srvCalls[i]]
      /\ activeStreamCalls' = [id \in Id |-> 0]
      /\ UNCHANGED <<srvInbox, srvBuf, srvTimer, s2c, c2s>>
  BY DEF ServerStop
<1> HIDE DEF active
<1>3. ASSUME NEW i \in 1 .. Len(srvCalls) PROVE GetsNothing(srvCalls[i], srvCalls'[i])
  <2>1. srvCalls[i] \in ServerCall
    BY <1>1
  <2>2. GetsNothing(srvCalls[i], StoppedCall(srvCalls[i]))
    BY <2>1 DEF GetsNothing, SameCall, StoppedCall, RequestEnd, ServerCall
  <2>3. GetsNothing(srvCalls[i], srvCalls[i])
    BY DEF GetsNothing, SameCall
  <2>4. srvCalls'[i] \in {StoppedCall(srvCalls[i]), srvCalls[i]}
    BY <1>1, <1>2
  <2> QED BY <2>2, <2>3, <2>4
<1>4. Len(srvCalls') = Len(srvCalls)
  BY <1>1, <1>2
<1>5. EntriesGo
  BY <1>2 DEF EntriesGo
<1> QED BY <1>2, <1>3, <1>4, <1>5 DEF ServerReads, NothingGot, ServerSends, NothingSent

LEMMA RefusalSends ==
  ASSUME NEW m \in ClientMessage, srvInbox # <<>>, m = Head(srvInbox), SendError(m)
  PROVE  ServerSends /\ EndGoes(m)
<1> DEFINE e == [type |-> "ResponseError", id |-> m.id, val |-> NoValue, of |-> m.of, by |-> 0]
<1>1. e \in ServerMessage
  BY DEF ClientMessage, ServerMessage, ResponseType, NoValue
<1>2. AddressOf(e) /\ Send(e)
  BY DEF AddressOf, SendError
<1> QED BY <1>1, <1>2 DEF ServerSends, EndGoes, EndsResponse

(* The record a message makes of the one it reaches.                        *)
LEMMA ValueTaken ==
  ASSUME NEW rec \in ServerCall, NEW val \in Nat, NEW new, new = RequestValue(rec, val)
  PROVE  /\ new \in ServerCall /\ SameCall(rec, new) /\ new.unsubscribed = rec.unsubscribed
         /\ new.req = rec.req
         /\ rec.req # "open" => new = rec
         /\ rec.req = "open" =>
              new.got = IF val = NoValue THEN rec.got ELSE Append(rec.got, val)
<1>1. rec.got \in Seq(Nat) /\ Append(rec.got, val) \in Seq(Nat)
  BY DEF ServerCall
<1> QED BY <1>1 DEF RequestValue, SameCall, ServerCall

LEMMA EndTaken ==
  ASSUME NEW rec \in ServerCall, NEW how \in {"completed", "errored"}, NEW new,
         new = RequestEnd(rec, how)
  PROVE  /\ new \in ServerCall /\ SameCall(rec, new) /\ new.unsubscribed = rec.unsubscribed
         /\ new.got = rec.got
         /\ rec.req # "open" => new = rec
         /\ rec.req = "open" => new.req = how
BY DEF RequestEnd, SameCall, ServerCall

LEMMA LastTaken ==
  ASSUME NEW rec \in ServerCall, NEW val \in Nat, NEW one, one = RequestValue(rec, val),
         NEW new, new = RequestEnd(one, "completed")
  PROVE  /\ new \in ServerCall /\ SameCall(rec, new) /\ new.unsubscribed = rec.unsubscribed
         /\ rec.req # "open" => new.got = rec.got /\ new.req = rec.req
         /\ rec.req = "open" =>
              /\ new.got = IF val = NoValue THEN rec.got ELSE Append(rec.got, val)
              /\ new.req = "completed"
<1>1. /\ one \in ServerCall /\ SameCall(rec, one) /\ one.unsubscribed = rec.unsubscribed
      /\ one.req = rec.req
      /\ rec.req # "open" => one = rec
      /\ rec.req = "open" =>
           one.got = IF val = NoValue THEN rec.got ELSE Append(rec.got, val)
  BY ValueTaken
<1>2. /\ new \in ServerCall /\ SameCall(one, new) /\ new.unsubscribed = one.unsubscribed
      /\ new.got = one.got
      /\ one.req # "open" => new = one
      /\ one.req = "open" => new.req = "completed"
  BY <1>1, EndTaken
<1>3. SameCall(rec, new)
  BY <1>1, <1>2 DEF SameCall
<1> QED BY <1>1, <1>2, <1>3

(* A new execution.                                                         *)
LEMMA BeginsOne ==
  ASSUME ServerInv, NEW m \in ClientMessage, m.type \in RequestType, m.method # NoMethod,
         activeStreamCalls[m.id] = 0,
         NEW rec \in ServerCall, srvCalls' = Append(srvCalls, rec), rec.of = m.of, rec.id = m.id,
         \/ EntriesGo
         \/ activeStreamCalls' = [activeStreamCalls EXCEPT ![m.id] = Len(srvCalls) + 1],
         rec.kind = "stream" =>
           /\ rec.got = IF m.type = "RequestError" \/ m.val = NoValue THEN <<>> ELSE <<m.val>>
           /\ rec.req = "completed" => m.type = "RequestComplete" /\ m.val # NoValue
           /\ m.type = "RequestError" => rec.req # "open"
           /\ m.type = "RequestComplete" /\ m.val # NoValue => rec.req # "open"
  PROVE  Handled(m)
<1>1. /\ srvCalls \in Seq(ServerCall) /\ activeStreamCalls \in [Id -> Nat]
      /\ Len(srvCalls) \in Nat /\ m.id \in Id
  BY CallTypes DEF ServerInv, ServerTyped
<1>2. /\ Len(srvCalls') = Len(srvCalls) + 1 /\ srvCalls'[Len(srvCalls) + 1] = rec
      /\ \A j \in 1 .. Len(srvCalls) : srvCalls'[j] = srvCalls[j]
  BY <1>1, AppendOne
<1>3. \A id \in Id : \/ activeStreamCalls'[id] \in {0, activeStreamCalls[id]}
                     \/ id = m.id /\ activeStreamCalls'[id] = Len(srvCalls) + 1
  BY <1>1 DEF EntriesGo
<1>4. Begins(m)
  BY <1>2, <1>3 DEF Begins
<1> QED BY <1>4 DEF Handled

LEMMA StaticReads ==
  ASSUME ServerInv, NEW m \in ClientMessage, m.type \in RequestType,
         activeStreamCalls[m.id] = 0, IsStatic(m), ExecStaticCall(m)
  PROVE  Handled(m) /\ ServerSends
<1> DEFINE new == NewCall(m, "static")
           rec == [new EXCEPT !.req = "completed", !.got = <<m.val>>]
<1>1. new \in ServerCall /\ new.kind = "static" /\ new.of = m.of /\ new.id = m.id
  BY CallTypes DEF NewCall
<1>2. srvCalls' = Append(srvCalls, rec) /\ NothingSent /\ activeStreamCalls' = activeStreamCalls
  BY DEF ExecStaticCall
<1> HIDE DEF new
<1>3. rec \in ServerCall /\ rec.of = m.of /\ rec.id = m.id /\ rec.kind = "static"
  <2>1. <<m.val>> \in Seq(Nat)
    BY CallTypes
  <2> QED BY <1>1, <2>1 DEF ServerCall
<1> HIDE DEF rec
<1>4. m.method # NoMethod
  BY MessagesAssumption DEF IsStatic
<1>5. EntriesGo
  BY <1>2, EntryGoes
<1>6. Handled(m)
  BY <1>2, <1>3, <1>4, <1>5, BeginsOne
<1> QED BY <1>2, <1>6 DEF ServerSends

LEMMA StreamReads ==
  ASSUME ServerInv, NEW m \in ClientMessage, m.type \in RequestType,
         activeStreamCalls[m.id] = 0, IsStreaming(m),
         NEW rec \in ServerCall, CreateStreamCall(m, rec), SameCall(NewCall(m, "stream"), rec),
         rec.got = IF m.type = "RequestError" \/ m.val = NoValue THEN <<>> ELSE <<m.val>>,
         rec.req = "completed" => m.type = "RequestComplete" /\ m.val # NoValue,
         m.type = "RequestError" => rec.req # "open",
         m.type = "RequestComplete" /\ m.val # NoValue => rec.req # "open"
  PROVE  Handled(m) /\ ServerSends
<1>1. rec.of = m.of /\ rec.id = m.id
  BY DEF SameCall, NewCall
<1>2. m.method # NoMethod
  BY MessagesAssumption, ServerAssumption DEF IsStreaming
<1>3. /\ srvCalls' = Append(srvCalls, rec) /\ NothingSent
      /\ activeStreamCalls' = [activeStreamCalls EXCEPT ![m.id] = Len(srvCalls) + 1]
  BY DEF CreateStreamCall
<1>4. Handled(m)
  BY <1>1, <1>2, <1>3, BeginsOne
<1> QED BY <1>3, <1>4 DEF ServerSends

(* The first value of a new execution.                                      *)
LEMMA FirstValue ==
  ASSUME NEW m \in ClientMessage, NEW new, new = RequestValue(NewCall(m, "stream"), m.val)
  PROVE  /\ new \in ServerCall /\ SameCall(NewCall(m, "stream"), new) /\ new.req = "open"
         /\ new.got = IF m.val = NoValue THEN <<>> ELSE <<m.val>>
<1>1. PICK rec \in ServerCall : rec = NewCall(m, "stream")
  BY CallTypes
<1>2. rec.got = <<>> /\ rec.req = "open" /\ m.val \in Nat
  BY <1>1, CallTypes DEF NewCall
<1>3. /\ new \in ServerCall /\ SameCall(rec, new) /\ new.req = rec.req
      /\ new.got = IF m.val = NoValue THEN rec.got ELSE Append(rec.got, m.val)
  BY <1>1, <1>2, ValueTaken
<1>4. m.val # NoValue => Append(rec.got, m.val) = <<m.val>>
  BY <1>2
<1> QED BY <1>1, <1>2, <1>3, <1>4

LEMMA DataReads ==
  ASSUME ServerInv, NEW m \in ClientMessage, srvInbox # <<>>, m = Head(srvInbox),
         m.type = "RequestData", OnRequestData(m)
  PROVE  Handled(m) /\ ServerSends
<1> DEFINE i == activeStreamCalls[m.id]
<1>1. m.id \in Id /\ m.val \in Nat /\ m.type \in RequestType
  BY CallTypes DEF RequestType
<1>2. CASE i # 0 /\ UpdateServerCall(i, RequestValue(srvCalls[i], m.val))
  <2>1. i \in 1 .. Len(srvCalls) /\ srvCalls[i] \in ServerCall
    BY <1>1, <1>2, ActiveCall
  <2> DEFINE rec == RequestValue(srvCalls[i], m.val)
  <2>3. /\ rec \in ServerCall
        /\ SameCall(srvCalls[i], rec) /\ rec.unsubscribed = srvCalls[i].unsubscribed
        /\ rec.req = srvCalls[i].req
        /\ srvCalls[i].req # "open" => rec = srvCalls[i]
        /\ srvCalls[i].req = "open" =>
             rec.got = IF m.val = NoValue THEN srvCalls[i].got ELSE Append(srvCalls[i].got, m.val)
    BY <1>1, <2>1, ValueTaken
  <2>4. /\ srvCalls' = [srvCalls EXCEPT ![i] = rec] /\ activeStreamCalls' = activeStreamCalls
        /\ NothingSent
    BY <1>2 DEF UpdateServerCall
  <2> HIDE DEF rec
  <2>5. StepOf(i) /\ srvCalls'[i] = rec
    BY <2>1, <2>3, <2>4, StepOfOne
  <2>6. Takes(m, i)
    BY <2>3, <2>4, <2>5 DEF Takes
  <2> QED BY <1>2, <2>4, <2>6 DEF Handled, ServerSends
<1>3. CASE i = 0 /\ Refused(m)
  BY <1>3, RefusalSends, SameGetNothing, EntryGoes DEF Refused, Handled
<1>4. CASE i = 0 /\ IsStatic(m) /\ ExecStaticCall(m)
  BY <1>1, <1>4, StaticReads
<1>5. CASE i = 0 /\ IsStreaming(m) /\ CreateStreamCall(m, RequestValue(NewCall(m, "stream"), m.val))
  BY <1>1, <1>5, FirstValue, StreamReads
<1> QED BY <1>2, <1>3, <1>4, <1>5 DEF OnRequestData

LEMMA CompleteReads ==
  ASSUME ServerInv, NEW m \in ClientMessage, srvInbox # <<>>, m = Head(srvInbox),
         m.type = "RequestComplete", OnRequestComplete(m)
  PROVE  Handled(m) /\ ServerSends
<1> DEFINE i == activeStreamCalls[m.id]
           first == RequestValue(NewCall(m, "stream"), m.val)
<1>1. m.id \in Id /\ m.val \in Nat /\ m.type \in RequestType
  BY CallTypes DEF RequestType
<1>2. CASE i # 0 /\ UpdateServerCall(i, RequestEnd(RequestValue(srvCalls[i], m.val), "completed"))
  <2>1. i \in 1 .. Len(srvCalls) /\ srvCalls[i] \in ServerCall
    BY <1>1, <1>2, ActiveCall
  <2>2. PICK one, rec : one = RequestValue(srvCalls[i], m.val) /\ rec = RequestEnd(one, "completed")
    OBVIOUS
  <2>3. /\ srvCalls' = [srvCalls EXCEPT ![i] = rec] /\ activeStreamCalls' = activeStreamCalls
        /\ NothingSent
    BY <1>2, <2>2 DEF UpdateServerCall
  <2>4. /\ rec \in ServerCall
        /\ SameCall(srvCalls[i], rec) /\ rec.unsubscribed = srvCalls[i].unsubscribed
        /\ srvCalls[i].req # "open" => rec.got = srvCalls[i].got /\ rec.req = srvCalls[i].req
        /\ srvCalls[i].req = "open" =>
             /\ rec.got = IF m.val = NoValue THEN srvCalls[i].got ELSE Append(srvCalls[i].got, m.val)
             /\ rec.req = "completed"
    <3> HIDE DEF i, first
    <3> PICK old \in ServerCall, val \in Nat : old = srvCalls[i] /\ val = m.val
      BY <1>1, <2>1
    <3>1. one = RequestValue(old, val) /\ rec = RequestEnd(one, "completed")
      BY <2>2
    <3>2. /\ rec \in ServerCall /\ SameCall(old, rec) /\ rec.unsubscribed = old.unsubscribed
          /\ old.req # "open" => rec.got = old.got /\ rec.req = old.req
          /\ old.req = "open" =>
               /\ rec.got = IF val = NoValue THEN old.got ELSE Append(old.got, val)
               /\ rec.req = "completed"
      BY <3>1, LastTaken, SMTT(30)
    <3> QED BY <3>2
  <2>6. StepOf(i) /\ srvCalls'[i] = rec
    BY <2>1, <2>3, <2>4, StepOfOne
  <2>7. Takes(m, i)
    BY <2>3, <2>4, <2>6 DEF Takes
  <2> QED BY <1>2, <2>3, <2>7 DEF Handled, ServerSends
<1>3. CASE i = 0 /\ Refused(m)
  BY <1>3, RefusalSends, SameGetNothing, EntryGoes DEF Refused, Handled
<1>4. CASE i = 0 /\ IsStatic(m) /\ ExecStaticCall(m)
  BY <1>1, <1>4, StaticReads
<1>5. CASE i = 0 /\ IsStreaming(m)
             /\ CreateStreamCall(m, IF m.val = NoValue THEN first ELSE RequestEnd(first, "completed"))
  <2>1. /\ first \in ServerCall /\ SameCall(NewCall(m, "stream"), first) /\ first.req = "open"
        /\ first.got = IF m.val = NoValue THEN <<>> ELSE <<m.val>>
    BY FirstValue
  <2> HIDE DEF first
  <2>2. CASE m.val = NoValue
    BY <1>1, <1>5, <2>1, <2>2, StreamReads
  <2>3. CASE m.val # NoValue
    <3> DEFINE rec == RequestEnd(first, "completed")
    <3>1. rec \in ServerCall /\ SameCall(first, rec) /\ rec.got = first.got /\ rec.req = "completed"
      BY <2>1, EndTaken
    <3>2. CreateStreamCall(m, rec)
      BY <1>5, <2>3
    <3> HIDE DEF rec
    <3>3. SameCall(NewCall(m, "stream"), rec)
      BY <2>1, <3>1 DEF SameCall
    <3> QED BY <1>1, <1>5, <2>1, <2>3, <3>1, <3>2, <3>3, StreamReads
  <2> QED BY <2>2, <2>3
<1> QED BY <1>2, <1>3, <1>4, <1>5 DEF OnRequestComplete

LEMMA ErrorReads ==
  ASSUME ServerInv, NEW m \in ClientMessage, srvInbox # <<>>, m = Head(srvInbox),
         m.type = "RequestError", OnRequestError(m)
  PROVE  Handled(m) /\ ServerSends
<1> DEFINE i == activeStreamCalls[m.id]
<1>1. m.id \in Id /\ m.type \in RequestType
  BY CallTypes DEF RequestType
<1>2. ASSUME i # 0
      PROVE  /\ i \in 1 .. Len(srvCalls) /\ srvCalls[i] \in ServerCall
             /\ RequestEnd(srvCalls[i], "errored") \in ServerCall
             /\ GetsNothing(srvCalls[i], RequestEnd(srvCalls[i], "errored"))
             /\ RequestEnd(srvCalls[i], "errored").req # "open"
  <2>1. i \in 1 .. Len(srvCalls) /\ srvCalls[i] \in ServerCall
    BY <1>1, <1>2, ActiveCall
  <2>2. PICK rec : rec = RequestEnd(srvCalls[i], "errored")
    OBVIOUS
  <2>3. /\ rec \in ServerCall /\ SameCall(srvCalls[i], rec)
        /\ rec.unsubscribed = srvCalls[i].unsubscribed /\ rec.got = srvCalls[i].got
        /\ srvCalls[i].req # "open" => rec = srvCalls[i]
        /\ srvCalls[i].req = "open" => rec.req = "errored"
    BY <2>1, <2>2, EndTaken
  <2>4. GetsNothing(srvCalls[i], rec) /\ rec.req # "open"
    BY <2>3 DEF GetsNothing
  <2> QED BY <2>1, <2>2, <2>3, <2>4
<1>3. CASE i # 0 /\ ResponseErrors(i, RequestEnd(srvCalls[i], "errored"), srvCalls)
  BY <1>2, <1>3, ErrorsGet DEF Handled, Fails
<1>4. CASE i # 0 /\ UpdateServerCall(i, RequestEnd(srvCalls[i], "errored"))
  <2>1. PICK rec : rec = RequestEnd(srvCalls[i], "errored")
    OBVIOUS
  <2>2. /\ srvCalls' = [srvCalls EXCEPT ![i] = rec] /\ activeStreamCalls' = activeStreamCalls
        /\ NothingSent
    BY <1>4, <2>1 DEF UpdateServerCall
  <2>3. rec \in ServerCall /\ GetsNothing(srvCalls[i], rec) /\ rec.req # "open"
    BY <1>2, <1>4, <2>1
  <2>4. StepOf(i) /\ srvCalls'[i] = rec
    BY <1>2, <1>4, <2>2, <2>3, StepOfOne DEF GetsNothing
  <2> QED BY <1>4, <2>2, <2>3, <2>4, EntryGoes DEF Handled, Fails, ServerSends
<1>5. CASE i = 0 /\ Refused(m)
  BY <1>5, RefusalSends, SameGetNothing, EntryGoes DEF Refused, Handled
<1>6. CASE i = 0 /\ IsStreaming(m)
           /\ ResponseErrors(Len(srvCalls) + 1, RequestEnd(NewCall(m, "stream"), "errored"),
                             Append(srvCalls, RequestEnd(NewCall(m, "stream"), "errored")))
  <2>1. PICK new \in ServerCall : new = RequestEnd(NewCall(m, "stream"), "errored")
    BY CallTypes, EndTypes
  <2>2. new.of = m.of /\ new.id = m.id /\ new.got = <<>> /\ new.req = "errored"
    BY <2>1 DEF NewCall, RequestEnd
  <2>3. PICK failed \in ServerCall : failed = [new EXCEPT !.res = "errored"]
    BY DEF ServerCall
  <2>4. failed.of = m.of /\ failed.id = m.id /\ failed.got = <<>> /\ failed.req = "errored"
    BY <2>2, <2>3 DEF ServerCall
  <2>5. srvCalls' = Append(srvCalls, failed)
    <3>1. srvCalls' = [Append(srvCalls, new) EXCEPT ![Len(srvCalls) + 1] = failed]
      BY <1>6, <2>1, <2>3 DEF ResponseErrors
    <3> QED BY <3>1, ReplaceLast DEF ServerInv, ServerTyped
  <2>6. \/ OnStreamError(Len(srvCalls) + 1, failed)
        \/ NothingSent /\ activeStreamCalls' = activeStreamCalls
    BY <1>6, <2>1, <2>3 DEF ResponseErrors
  <2>7. EntriesGo /\ ServerSends
    <3>1. CASE OnStreamError(Len(srvCalls) + 1, failed)
      <4> DEFINE r == Response("ResponseError", Len(srvCalls) + 1, failed, NoValue)
      <4>1. Len(srvCalls) + 1 \in Nat /\ "ResponseError" \in ResponseType /\ NoValue \in Nat
        BY Indices DEF ServerInv, ServerTyped, ResponseType, NoValue
      <4>2. r \in ServerMessage
        BY <4>1, ResponseTypes
      <4>3. AddressOf(r)
        BY <2>4 DEF AddressOf, Response
      <4> QED BY <1>1, <2>4, <3>1, <4>2, <4>3, EntryGoes DEF OnStreamError, ServerSends
    <3>2. CASE NothingSent /\ activeStreamCalls' = activeStreamCalls
      BY <3>2, EntryGoes DEF ServerSends
    <3> QED BY <2>6, <3>1, <3>2
  <2>8. m.method # NoMethod
    BY <1>6, MessagesAssumption, ServerAssumption DEF IsStreaming
  <2>9. Handled(m)
    BY <1>1, <1>6, <2>4, <2>5, <2>7, <2>8, BeginsOne
  <2> QED BY <2>7, <2>9
<1> QED BY <1>3, <1>4, <1>5, <1>6 DEF OnRequestError

LEMMA UnsubscribeReads ==
  ASSUME ServerInv, NEW m \in ClientMessage, m.type = "ResponseUnsubscribe", OnUnsubscribe(m)
  PROVE  Handled(m) /\ ServerSends
<1>1. m.id \in Id
  BY CallTypes
<1>2. NothingSent
  BY DEF OnUnsubscribe
<1>3. CASE activeStreamCalls[m.id] = 0
  BY <1>2, <1>3, SameGetNothing, EntryGoes DEF OnUnsubscribe, Handled, ServerSends, RequestType
<1>4. ASSUME NEW i, i = activeStreamCalls[m.id], i # 0 PROVE Left(m, i)
  <2>1. i \in 1 .. Len(srvCalls) /\ srvCalls[i] \in ServerCall
    BY <1>1, <1>4, ActiveCall
  <2>2. PICK end : end = RequestEnd(srvCalls[i], "completed")
    OBVIOUS
  <2>3. end \in ServerCall /\ SameCall(srvCalls[i], end) /\ end.got = srvCalls[i].got
    BY <2>1, <2>2, EndTaken
  <2>4. PICK rec \in ServerCall : rec = [end EXCEPT !.unsubscribed = TRUE]
    BY <2>3 DEF ServerCall
  <2>5. SameCall(end, rec) /\ rec.got = end.got /\ rec.unsubscribed
    BY <2>3, <2>4 DEF ServerCall, SameCall
  <2>6. /\ srvCalls' = [srvCalls EXCEPT ![i] = rec]
        /\ activeStreamCalls' = [activeStreamCalls EXCEPT ![m.id] = 0]
    BY <1>4, <2>2, <2>4 DEF OnUnsubscribe
  <2>7. SameCall(srvCalls[i], rec)
    BY <2>3, <2>5 DEF SameCall
  <2>8. StepOf(i) /\ srvCalls'[i] = rec
    BY <2>1, <2>6, <2>7, StepOfOne
  <2> QED BY <1>1, <2>3, <2>5, <2>6, <2>8, EntryGoes DEF Left
<1> QED BY <1>2, <1>3, <1>4 DEF Handled, ServerSends

LEMMA MessageReads ==
  ASSUME ServerInv, ServerOnMessage
  PROVE  ServerReads /\ ServerSends
<1>1. PICK m \in ClientMessage : m = Head(srvInbox)
  BY TakeOne DEF ServerOnMessage, ServerInv, ServerTyped
<1>2. srvInbox # <<>> /\ c2s' = c2s
  BY DEF ServerOnMessage
<1>3. CASE OnRequestDataThrows(m) /\ srvInbox' = <<>>
  <2>1. NothingGot /\ m.method \in UnknownMethod /\ NothingSent
    BY <1>3, SameGetNothing, EntryGoes DEF OnRequestDataThrows
  <2> QED BY <1>1, <1>2, <1>3, <2>1 DEF ServerReads, ServerSends
<1>4. CASE srvInbox' = Tail(srvInbox) /\ Handled(m) /\ ServerSends
  BY <1>1, <1>2, <1>4 DEF ServerReads
<1> QED BY <1>1, <1>2, <1>3, <1>4, DataReads, CompleteReads, ErrorReads, UnsubscribeReads
     DEF ServerOnMessage

(* Every step of the server.                                                *)
LEMMA ServerLine ==
  ASSUME ServerInv, ServerNext
  PROVE  ServerReads /\ ServerSends
<1>1. CASE ServerMicrotaskRuns
  BY <1>1, MicrotaskReads
<1>2. CASE ServerOnMessage
  BY <1>2, MessageReads
<1>3. CASE MethodAction
  BY <1>3, MethodReads
<1>4. CASE ServerStop
  BY <1>4, StopReads
<1>5. CASE ServerReceivesBatch
  BY <1>5, SameGetNothing, EntryGoes DEF ServerReceivesBatch, ServerReads, ServerSends
<1>6. CASE ServerTimerFires
  BY <1>6, SameGetNothing, EntryGoes DEF ServerTimerFires, ServerReads, ServerSends
<1> QED BY <1>1, <1>2, <1>3, <1>4, <1>5, <1>6 DEF ServerNext, ServerCallback

(* What goes on around the server only takes and brings batches.            *)
LEMMA OthersServer ==
  ASSUME ServerInv,
         UNCHANGED <<srvCalls, activeStreamCalls, srvMicrotasks, srvInbox, srvStopped, srvBuf, srvTimer>>,
         c2s' \in Seq(Seq(ClientMessage)), s2c' \in Seq(Seq(ServerMessage))
  PROVE  ServerInv'
<1>1. SendTypeOK' /\ srvInbox' \in Seq(ClientMessage)
  BY DEF ServerInv, ServerTyped, SendTypeOK
<1> QED BY <1>1, QuietStep

-----------------------------------------------------------------------------
(* Which executions hold an entry, and that the end of a response goes to   *)
(* the client.                                                              *)

(* The request stream of an execution no message can reach any more is over.*)
RequestOK(r) == r.unsubscribed \/ r.kind = "static" => r.req # "open"

(* The end of a response that ended and was not sent waits for its task.    *)
EndWaits(i) ==
  srvCalls[i].kind = "stream" /\ srvCalls[i].res # "open" /\ ~ResponseEnded(i) =>
    FinalWaits(srvMicrotasks, i)

(* A call that goes on at both ends.                                        *)
Waits(i) == srvCalls[i].kind = "stream" /\ ~srvCalls[i].unsubscribed /\ ~ResponseEnded(i)

IdsApart == \A i, j \in 1 .. Len(srvCalls) : srvCalls[i].id = srvCalls[j].id => i = j

Entered ==
  /\ \A i \in 1 .. Len(srvCalls) : RequestOK(srvCalls[i])
  /\ ~srvStopped => \A i \in 1 .. Len(srvCalls) : EndWaits(i)
  /\ ~srvStopped /\ IdsApart =>
       \A i \in 1 .. Len(srvCalls) : Waits(i) => activeStreamCalls[srvCalls[i].id] = i

(* Execution i is the newest, or it was there and its response ended only   *)
(* if its end goes.                                                         *)
Old(i) == i \in 1 .. Len(srvCalls) /\ SameCall(srvCalls[i], srvCalls'[i])

EndIsSent(i) == ResponseEnded(i)' => (Old(i) /\ ResponseEnded(i)) \/ EndGoes(srvCalls'[i])

EntryStays(i) ==
  Waits(i)' => \/ activeStreamCalls'[srvCalls'[i].id] = i
               \/ /\ Old(i) /\ Waits(i)
                  /\ activeStreamCalls'[srvCalls[i].id] = activeStreamCalls[srvCalls[i].id]

(* What a step does to the responses.                                       *)
Settles ==
  /\ Len(srvCalls) <= Len(srvCalls') /\ \A i \in 1 .. Len(srvCalls) : Old(i)
  /\ \A i \in 1 .. Len(srvCalls') : RequestOK(srvCalls'[i])
  /\ \A i \in 1 .. Len(srvCalls) : srvCalls[i].res # "open" => srvCalls'[i].res # "open"
  /\ ~srvStopped' =>
       /\ ~srvStopped
       /\ \A i \in 1 .. Len(srvCalls') : EndWaits(i)' /\ EndIsSent(i)
       /\ IdsApart' => \A i \in 1 .. Len(srvCalls') : EntryStays(i)

LEMMA SettlesKeeps ==
  ASSUME ServerInv, Entered, Settles
  PROVE  Entered'
<1>1. Len(srvCalls) \in Nat /\ Len(srvCalls) <= Len(srvCalls')
  BY DEF Settles, ServerInv, ServerTyped
<1>2. ASSUME ~srvStopped', IdsApart', NEW i \in 1 .. Len(srvCalls'), Waits(i)'
      PROVE  activeStreamCalls'[srvCalls'[i].id] = i
  <2>1. IdsApart
    <3>1. ASSUME NEW j \in 1 .. Len(srvCalls), NEW k \in 1 .. Len(srvCalls),
                 srvCalls[j].id = srvCalls[k].id
          PROVE  j = k
      <4>1. j \in 1 .. Len(srvCalls') /\ k \in 1 .. Len(srvCalls')
        BY <1>1
      <4>2. srvCalls'[j].id = srvCalls'[k].id
        BY <3>1 DEF Settles, Old, SameCall
      <4> QED BY <1>2, <4>1, <4>2 DEF IdsApart
    <3> QED BY <3>1 DEF IdsApart
  <2>2. CASE Old(i) /\ Waits(i) /\ activeStreamCalls'[srvCalls[i].id] = activeStreamCalls[srvCalls[i].id]
    <3>1. i \in 1 .. Len(srvCalls) /\ srvCalls'[i].id = srvCalls[i].id /\ ~srvStopped
      BY <1>2, <2>2 DEF Settles, Old, SameCall
    <3>2. activeStreamCalls[srvCalls[i].id] = i
      BY <2>1, <2>2, <3>1 DEF Entered
    <3> QED BY <2>2, <3>1, <3>2
  <2>3. EntryStays(i)
    BY <1>2 DEF Settles
  <2> QED BY <1>2, <2>2, <2>3 DEF EntryStays
<1>3. /\ \A i \in 1 .. Len(srvCalls') : RequestOK(srvCalls'[i])
      /\ ~srvStopped' => \A i \in 1 .. Len(srvCalls') : EndWaits(i)'
  BY DEF Settles
<1> QED BY <1>2, <1>3 DEF Entered

(* A step of execution i alone: the tasks of the others stay.               *)
Others(i) ==
  \A j \in 1 .. Len(srvCalls) : j # i =>
    /\ ResponseEnded(j)' <=> ResponseEnded(j)
    /\ FinalWaits(srvMicrotasks, j) => FinalWaits(srvMicrotasks', j)

StepAlone(i) ==
  /\ StepOf(i) /\ Others(i) /\ srvStopped' = srvStopped
  /\ RequestOK(srvCalls'[i])
  /\ srvCalls[i].res # "open" => srvCalls'[i].res # "open"
  /\ ~srvStopped => EndWaits(i)' /\ EndIsSent(i)
  /\ Waits(i)' => Waits(i)
  /\ \/ activeStreamCalls' = activeStreamCalls
     \/ /\ activeStreamCalls' = [activeStreamCalls EXCEPT ![srvCalls[i].id] = 0]
        /\ ~Waits(i)'

LEMMA AloneSettles ==
  ASSUME ServerInv, Entered, NEW i, StepAlone(i)
  PROVE  Settles
<1>1. /\ i \in 1 .. Len(srvCalls) /\ Len(srvCalls') = Len(srvCalls) /\ Len(srvCalls) \in Nat
      /\ SameCall(srvCalls[i], srvCalls'[i])
      /\ \A j \in 1 .. Len(srvCalls) : j # i => srvCalls'[j] = srvCalls[j]
      /\ activeStreamCalls \in [Id -> Nat]
  BY DEF StepAlone, StepOf, ServerInv, ServerTyped
<1>2. \A j \in 1 .. Len(srvCalls) : Old(j)
  BY <1>1 DEF Old, SameCall
<1>3. ASSUME NEW j \in 1 .. Len(srvCalls), j # i
      PROVE  /\ RequestOK(srvCalls'[j])
             /\ ~srvStopped' => EndWaits(j)' /\ EndIsSent(j)
             /\ Waits(j)' <=> Waits(j)
  <2>1. /\ srvCalls'[j] = srvCalls[j] /\ (ResponseEnded(j)' <=> ResponseEnded(j))
        /\ FinalWaits(srvMicrotasks, j) => FinalWaits(srvMicrotasks', j)
    BY <1>1, <1>3 DEF StepAlone, Others
  <2>2. RequestOK(srvCalls[j]) /\ (~srvStopped => EndWaits(j))
    BY DEF Entered
  <2>3. ~srvStopped' => EndWaits(j)'
    BY <2>1, <2>2 DEF EndWaits, StepAlone
  <2>4. EndIsSent(j)
    BY <1>2, <2>1 DEF EndIsSent
  <2>5. Waits(j)' <=> Waits(j)
    BY <2>1 DEF Waits
  <2> QED BY <2>1, <2>2, <2>3, <2>4, <2>5
<1>4. ASSUME IdsApart', NEW j \in 1 .. Len(srvCalls), Waits(j)'
      PROVE  Old(j) /\ Waits(j) /\ activeStreamCalls'[srvCalls[j].id] = activeStreamCalls[srvCalls[j].id]
  <2>1. Waits(j)
    BY <1>3, <1>4 DEF StepAlone
  <2>2. CASE activeStreamCalls' = activeStreamCalls
    BY <1>2, <2>1, <2>2
  <2>3. CASE activeStreamCalls' = [activeStreamCalls EXCEPT ![srvCalls[i].id] = 0] /\ ~Waits(i)'
    <3>1. j # i
      BY <1>4, <2>3
    <3>2. srvCalls'[i].id = srvCalls[i].id /\ srvCalls'[j].id = srvCalls[j].id
      BY <1>1, <3>1 DEF SameCall
    <3>3. srvCalls[j].id # srvCalls[i].id
      BY <1>1, <1>4, <3>1, <3>2 DEF IdsApart
    <3> QED BY <1>1, <1>2, <2>1, <2>3, <3>3
  <2> QED BY <2>2, <2>3 DEF StepAlone
<1>5. IdsApart' => \A j \in 1 .. Len(srvCalls') : EntryStays(j)
  BY <1>1, <1>4 DEF EntryStays
<1>6. \A j \in 1 .. Len(srvCalls) :
        /\ RequestOK(srvCalls'[j])
        /\ srvCalls[j].res # "open" => srvCalls'[j].res # "open"
        /\ ~srvStopped' => EndWaits(j)' /\ EndIsSent(j)
  BY <1>1, <1>3 DEF StepAlone
<1>7. ~srvStopped' => ~srvStopped
  BY DEF StepAlone
<1> QED BY <1>1, <1>2, <1>5, <1>6, <1>7 DEF Settles

(* Step that starts execution n under id and leaves the others.             *)
StepAdds(n, id) ==
  /\ n = Len(srvCalls) + 1 /\ Len(srvCalls') = n
  /\ srvStopped' = srvStopped /\ srvMicrotasks' = srvMicrotasks
  /\ \A j \in 1 .. Len(srvCalls) : srvCalls'[j] = srvCalls[j]
  /\ srvCalls'[n].id = id /\ RequestOK(srvCalls'[n])
  /\ \A d \in Id : d # id => activeStreamCalls'[d] = activeStreamCalls[d]
  /\ \/ srvCalls'[n].kind = "static" /\ srvCalls'[n].res = "open"
     \/ srvCalls'[n].res = "open" /\ activeStreamCalls'[id] = n
     \/ ResponseEnded(n)' /\ EndGoes(srvCalls'[n])

LEMMA AddsSettles ==
  ASSUME ServerInv, Entered, NEW n, NEW id \in Id, StepAdds(n, id)
  PROVE  Settles
<1>1. /\ Len(srvCalls) \in Nat /\ n = Len(srvCalls) + 1 /\ Len(srvCalls') = n
      /\ \A j \in 1 .. n : j \in 1 .. Len(srvCalls) \/ j = n
      /\ \A j \in 1 .. Len(srvCalls) : srvCalls'[j] = srvCalls[j] /\ j # n /\ j \in 1 .. Len(srvCalls')
      /\ n \in 1 .. Len(srvCalls')
  BY DEF StepAdds, ServerInv, ServerTyped
<1>2. srvStopped' = srvStopped /\ srvMicrotasks' = srvMicrotasks
  BY DEF StepAdds
<1>3. \A j \in 1 .. Len(srvCalls) : Old(j)
  BY <1>1 DEF Old, SameCall
<1>4. ASSUME NEW j \in 1 .. Len(srvCalls)
      PROVE  /\ RequestOK(srvCalls'[j])
             /\ srvCalls[j].res # "open" => srvCalls'[j].res # "open"
             /\ ~srvStopped' => EndWaits(j)' /\ EndIsSent(j)
             /\ IdsApart' => EntryStays(j)
  <2>1. srvCalls'[j] = srvCalls[j] /\ (ResponseEnded(j)' <=> ResponseEnded(j))
    BY <1>1, <1>2 DEF ResponseEnded
  <2>2. RequestOK(srvCalls[j]) /\ (~srvStopped => EndWaits(j))
    BY DEF Entered
  <2>3. ~srvStopped' => EndWaits(j)'
    BY <1>2, <2>1, <2>2 DEF EndWaits
  <2>4. EndIsSent(j)
    BY <1>3, <2>1 DEF EndIsSent
  <2>5. ASSUME IdsApart' PROVE EntryStays(j)
    <3>1. Waits(j)' => Waits(j)
      BY <2>1 DEF Waits
    <3>2. srvCalls[j].id \in Id
      <4>1. srvCalls[j] \in ServerCall
        BY Indices DEF ServerInv, ServerTyped
      <4> QED BY <4>1 DEF ServerCall
    <3>3. srvCalls[j].id # id
      <4>1. srvCalls'[n].id = id
        BY DEF StepAdds
      <4> QED BY <1>1, <2>1, <2>5, <4>1 DEF IdsApart
    <3>4. activeStreamCalls'[srvCalls[j].id] = activeStreamCalls[srvCalls[j].id]
      BY <3>2, <3>3 DEF StepAdds
    <3> QED BY <1>3, <3>1, <3>4 DEF EntryStays
  <2> QED BY <2>1, <2>2, <2>3, <2>4, <2>5
<1>5. RequestOK(srvCalls'[n]) /\ EndWaits(n)' /\ EndIsSent(n) /\ EntryStays(n)
  <2>1. CASE srvCalls'[n].kind = "static" /\ srvCalls'[n].res = "open"
    BY <2>1 DEF EndWaits, EndIsSent, EntryStays, Waits, ResponseEnded, StepAdds
  <2>2. CASE srvCalls'[n].res = "open" /\ activeStreamCalls'[id] = n
    BY <2>2 DEF EndWaits, EndIsSent, EntryStays, ResponseEnded, StepAdds
  <2>3. CASE ResponseEnded(n)' /\ EndGoes(srvCalls'[n])
    BY <2>3 DEF EndWaits, EndIsSent, EntryStays, Waits, StepAdds
  <2> QED BY <2>1, <2>2, <2>3 DEF StepAdds
<1>6. \A j \in 1 .. Len(srvCalls') :
        /\ RequestOK(srvCalls'[j])
        /\ ~srvStopped' => EndWaits(j)' /\ EndIsSent(j)
        /\ IdsApart' => EntryStays(j)
  BY <1>1, <1>4, <1>5
<1> QED BY <1>1, <1>2, <1>3, <1>4, <1>6 DEF Settles

(* A step that touches no execution.                                        *)
LEMMA NoneSettles ==
  ASSUME ServerInv, Entered, UNCHANGED <<srvCalls, activeStreamCalls, srvMicrotasks, srvStopped>>
  PROVE  Settles
<1>1. /\ Len(srvCalls) \in Nat /\ srvCalls' = srvCalls /\ activeStreamCalls' = activeStreamCalls
      /\ srvMicrotasks' = srvMicrotasks /\ srvStopped' = srvStopped
  BY DEF ServerInv, ServerTyped
<1>2. ASSUME NEW j \in 1 .. Len(srvCalls)
      PROVE  /\ Old(j) /\ RequestOK(srvCalls'[j])
             /\ ~srvStopped' => EndWaits(j)' /\ EndIsSent(j)
             /\ EntryStays(j)
  <2>1. Old(j) /\ (ResponseEnded(j)' <=> ResponseEnded(j)) /\ (Waits(j)' <=> Waits(j))
    BY <1>1 DEF Old, SameCall, ResponseEnded, Waits
  <2>2. RequestOK(srvCalls[j]) /\ (~srvStopped => EndWaits(j))
    BY DEF Entered
  <2>3. ~srvStopped' => EndWaits(j)'
    BY <1>1, <2>1, <2>2 DEF EndWaits
  <2> QED BY <1>1, <2>1, <2>2, <2>3 DEF EndIsSent, EntryStays
<1> QED BY <1>1, <1>2 DEF Settles

(* The tasks of one execution come and go alone.                            *)
TasksOf(i, ms, new) ==
  \/ new = ms
  \/ \E t \in MicroTask : t.call = i /\ new = Append(ms, t)
  \/ ms # <<>> /\ new = Tail(ms) /\ Head(ms).call = i

LEMMA TasksOfOthers ==
  ASSUME NEW ms \in Seq(MicroTask), NEW new, NEW i, NEW j, j # i, TasksOf(i, ms, new)
  PROVE  /\ (\A k \in DOMAIN new : new[k].call # j) <=> (\A k \in DOMAIN ms : ms[k].call # j)
         /\ FinalWaits(ms, j) => FinalWaits(new, j)
<1>1. CASE new = ms
  BY <1>1
<1>2. ASSUME NEW t \in MicroTask, t.call = i, new = Append(ms, t)
      PROVE  /\ (\A k \in DOMAIN new : new[k].call # j) <=> (\A k \in DOMAIN ms : ms[k].call # j)
             /\ FinalWaits(ms, j) => FinalWaits(new, j)
  <2>1. /\ new \in Seq(MicroTask) /\ Len(ms) \in Nat /\ Len(new) = Len(ms) + 1
        /\ \A k \in 1 .. Len(ms) : new[k] = ms[k]
        /\ new[Len(ms) + 1] = t
    BY <1>2, AppendOne
  <2>2. DOMAIN new = 1 .. Len(new) /\ DOMAIN ms = 1 .. Len(ms)
    BY <2>1, Indices
  <2>3. \A k \in 1 .. Len(new) : k \in 1 .. Len(ms) \/ k = Len(ms) + 1
    BY <2>1
  <2>4. \A k \in 1 .. Len(ms) : k \in 1 .. Len(new)
    BY <2>1
  <2> QED BY <1>2, <2>1, <2>2, <2>3, <2>4 DEF FinalWaits
<1>3. CASE ms # <<>> /\ new = Tail(ms) /\ Head(ms).call = i
  <2>1. /\ new \in Seq(MicroTask) /\ Len(ms) \in Nat \ {0} /\ Len(new) = Len(ms) - 1
        /\ \A k \in 1 .. Len(new) : new[k] = ms[k + 1]
        /\ ms[1].call = i
    BY <1>3, TakeOne
  <2>2. DOMAIN new = 1 .. Len(new) /\ DOMAIN ms = 1 .. Len(ms)
    BY <2>1, Indices
  <2>3. \A k \in 1 .. Len(new) : k + 1 \in 1 .. Len(ms)
    BY <2>1
  <2>4. \A k \in 1 .. Len(ms) : k = 1 \/ (k - 1 \in 1 .. Len(new) /\ ms[k] = new[k - 1])
    BY <2>1
  <2>5. ASSUME NEW k \in 1 .. Len(ms), ms[k].call = j
        PROVE  k - 1 \in 1 .. Len(new) /\ ms[k] = new[k - 1]
    BY <2>1, <2>4, <2>5
  <2>6. (\A k \in 1 .. Len(new) : new[k].call # j) <=> (\A k \in 1 .. Len(ms) : ms[k].call # j)
    <3>1. ASSUME NEW k \in 1 .. Len(new), new[k].call = j
          PROVE  \E l \in 1 .. Len(ms) : ms[l].call = j
      BY <2>1, <2>3, <3>1
    <3>2. ASSUME NEW k \in 1 .. Len(ms), ms[k].call = j
          PROVE  \E l \in 1 .. Len(new) : new[l].call = j
      BY <2>5, <3>2
    <3> QED BY <3>1, <3>2
  <2>7. FinalWaits(ms, j) => FinalWaits(new, j)
    BY <2>5 DEF FinalWaits
  <2> QED BY <2>2, <2>6, <2>7
<1> QED BY <1>1, <1>2, <1>3 DEF TasksOf

LEMMA OthersStay ==
  ASSUME ServerInv, NEW i, StepOf(i), TasksOf(i, srvMicrotasks, srvMicrotasks')
  PROVE  Others(i)
<1>1. PICK ms \in Seq(MicroTask) : ms = srvMicrotasks
  BY DEF ServerInv, ServerTyped
<1> PICK new : new = srvMicrotasks'
  OBVIOUS
<1>2. ASSUME NEW j \in 1 .. Len(srvCalls), j # i
      PROVE  /\ ResponseEnded(j)' <=> ResponseEnded(j)
             /\ FinalWaits(srvMicrotasks, j) => FinalWaits(srvMicrotasks', j)
  <2>1. /\ (\A k \in DOMAIN new : new[k].call # j) <=> (\A k \in DOMAIN ms : ms[k].call # j)
        /\ FinalWaits(ms, j) => FinalWaits(new, j)
    BY <1>1, <1>2, TasksOfOthers
  <2>2. srvCalls'[j] = srvCalls[j]
    BY <1>2 DEF StepOf
  <2> QED BY <1>1, <2>1, <2>2 DEF ResponseEnded
<1> QED BY <1>2 DEF Others

LEMMA EndSent ==
  ASSUME NEW i \in Nat, NEW rec \in ServerCall, NEW type \in {"ResponseComplete", "ResponseError"},
         NEW val \in Nat, Send(Response(type, i, rec, val)), NEW r, r.of = rec.of, r.id = rec.id
  PROVE  EndGoes(r)
<1>1. type \in ResponseType
  BY DEF ResponseType
<1>2. Response(type, i, rec, val) \in ServerMessage
  BY <1>1, ResponseTypes
<1>3. /\ Response(type, i, rec, val).type = type /\ Response(type, i, rec, val).of = rec.of
      /\ Response(type, i, rec, val).id = rec.id
  BY DEF Response
<1> QED BY <1>2, <1>3 DEF EndGoes, EndsResponse

(* A response ends, at once or by a task.                                   *)
LEMMA EndingSettles ==
  ASSUME ServerInv, Entered, NEW i \in 1 .. Len(srvCalls), NEW rec \in ServerCall,
         NEW how \in {"completed", "errored"}, Ends(srvCalls[i], rec, how),
         rec.of = srvCalls[i].of, RequestOK(rec), srvCalls' = [srvCalls EXCEPT ![i] = rec],
         \/ /\ srvCalls[i].obs.tasks = 0
            /\ activeStreamCalls' = [activeStreamCalls EXCEPT ![rec.id] = 0]
            /\ \E type \in {"ResponseComplete", "ResponseError"} : Send(Response(type, i, rec, NoValue))
            /\ srvMicrotasks' = srvMicrotasks
         \/ /\ srvMicrotasks' = Append(srvMicrotasks, SrvTask(i, FinalKind(how), NoValue))
            /\ activeStreamCalls' = activeStreamCalls,
         srvStopped' = srvStopped
  PROVE  Settles
<1>1. /\ srvMicrotasks \in Seq(MicroTask) /\ srvCalls[i] \in ServerCall /\ RecordOK(srvCalls[i])
      /\ i \in Nat \ {0} /\ NoValue \in Nat
  BY Indices DEF ServerInv, ServerTyped, CallsOK, NoValue
<1>2. /\ ~rec.obs.completeCalled /\ srvCalls[i].res = "open" /\ rec.res = how
      /\ rec.id = srvCalls[i].id /\ srvCalls[i].kind = "stream" /\ rec.kind = "stream"
      /\ rec.unsubscribed = srvCalls[i].unsubscribed
  BY <1>1, EndsRecord
<1>3. StepOf(i) /\ srvCalls'[i] = rec
  BY <1>2, StepOfOne DEF SameCall
<1>4. ~ResponseEnded(i)
  BY <1>2 DEF ResponseEnded
<1>5. CASE /\ srvCalls[i].obs.tasks = 0
           /\ activeStreamCalls' = [activeStreamCalls EXCEPT ![rec.id] = 0]
           /\ \E type \in {"ResponseComplete", "ResponseError"} : Send(Response(type, i, rec, NoValue))
           /\ srvMicrotasks' = srvMicrotasks
  <2>1. ResponseEnded(i)'
    BY <1>5, EndAtOnce
  <2>2. EndGoes(srvCalls'[i])
    BY <1>1, <1>3, <1>5, EndSent
  <2>3. Others(i)
    BY <1>3, <1>5, OthersStay DEF TasksOf
  <2>4. StepAlone(i)
    BY <1>2, <1>3, <1>5, <2>1, <2>2, <2>3 DEF StepAlone, EndWaits, EndIsSent, Waits
  <2> QED BY <2>4, AloneSettles
<1>6. CASE /\ srvMicrotasks' = Append(srvMicrotasks, SrvTask(i, FinalKind(how), NoValue))
           /\ activeStreamCalls' = activeStreamCalls
  <2>1. PICK t \in MicroTask : /\ t = SrvTask(i, FinalKind(how), NoValue)
                               /\ t.call = i /\ t.kind # "next"
    <3>1. FinalKind(how) \in {"complete", "error"}
      BY DEF FinalKind
    <3>2. SrvTask(i, FinalKind(how), NoValue) \in MicroTask
      BY <1>1, <3>1 DEF SrvTask, MicroTask
    <3> QED BY <3>1, <3>2 DEF SrvTask
  <2>2. /\ srvMicrotasks' \in Seq(MicroTask) /\ Len(srvMicrotasks) \in Nat
        /\ Len(srvMicrotasks') = Len(srvMicrotasks) + 1 /\ srvMicrotasks'[Len(srvMicrotasks) + 1] = t
    BY <1>1, <1>6, <2>1, AppendOne
  <2>3. PICK k \in 1 .. Len(srvMicrotasks') : srvMicrotasks'[k] = t
    BY <2>2
  <2>4. FinalWaits(srvMicrotasks', i) /\ DOMAIN srvMicrotasks' = 1 .. Len(srvMicrotasks')
    BY <2>1, <2>2, <2>3, Indices DEF FinalWaits
  <2>5. ~ResponseEnded(i)'
    BY <1>2, <1>3, <2>1, <2>3, <2>4 DEF ResponseEnded
  <2>6. Others(i)
    BY <1>3, <1>6, <2>1, OthersStay DEF TasksOf
  <2>7. Waits(i)' => Waits(i)
    BY <1>2, <1>3, <1>4 DEF Waits
  <2>8. EndWaits(i)' /\ EndIsSent(i)
    BY <2>4, <2>5 DEF EndWaits, EndIsSent
  <2>9. StepAlone(i)
    BY <1>2, <1>3, <1>6, <2>6, <2>7, <2>8 DEF StepAlone
  <2> QED BY <2>9, AloneSettles
<1> QED BY <1>5, <1>6

LEMMA CompletesSettles ==
  ASSUME ServerInv, Entered, NEW i \in 1 .. Len(srvCalls), MethodCompletes(i)
  PROVE  Settles
<1> DEFINE rec == [srvCalls[i] EXCEPT !.res = "completed", !.obs = SourceCompleted(@)]
<1>1. /\ srvCalls[i] \in ServerCall /\ srvCalls[i].obs \in ObserverState
      /\ srvCalls[i].kind = "stream" /\ srvCalls[i].res = "open" /\ RequestOK(srvCalls[i])
  <2>1. srvCalls[i] \in ServerCall
    BY Indices DEF ServerInv, ServerTyped
  <2> QED BY <2>1 DEF MethodCompletes, Invoked, ServerCall, Entered
<1>2. /\ SourceCompleted(srvCalls[i].obs) \in ObserverState
      /\ SourceCompleted(srvCalls[i].obs).tasks = srvCalls[i].obs.tasks
  BY <1>1 DEF SourceCompleted, ObserverState
<1>3. /\ rec \in ServerCall /\ rec.obs = SourceCompleted(srvCalls[i].obs)
      /\ Ends(srvCalls[i], rec, "completed") /\ rec.of = srvCalls[i].of /\ rec.req = srvCalls[i].req
  BY <1>1, <1>2 DEF ServerCall, Ends
<1> HIDE DEF rec
<1>4. RequestOK(rec)
  BY <1>1, <1>3 DEF RequestOK, Ends
<1>5. /\ srvCalls' = [srvCalls EXCEPT ![i] = rec]
      /\ \/ /\ srvCalls[i].obs.tasks = 0
            /\ activeStreamCalls' = [activeStreamCalls EXCEPT ![rec.id] = 0]
            /\ Send(Response("ResponseComplete", i, rec, NoValue))
            /\ srvMicrotasks' = srvMicrotasks
         \/ /\ srvMicrotasks' = Append(srvMicrotasks, SrvTask(i, FinalKind("completed"), NoValue))
            /\ activeStreamCalls' = activeStreamCalls
      /\ srvStopped' = srvStopped
  BY <1>2, <1>3 DEF MethodCompletes, OnStreamComplete, PassedOnAtOnce, FinalKind, rec
<1> QED BY <1>3, <1>4, <1>5, EndingSettles

LEMMA ErrorsSettles ==
  ASSUME ServerInv, Entered, NEW i \in 1 .. Len(srvCalls), NEW rec \in ServerCall,
         Alike(srvCalls[i], rec), rec.unsubscribed = srvCalls[i].unsubscribed,
         rec.of = srvCalls[i].of, RequestOK(rec),
         srvCalls[i].kind = "stream", srvCalls[i].res = "open",
         ResponseErrors(i, rec, srvCalls), srvStopped' = srvStopped
  PROVE  Settles
<1> DEFINE failed == [rec EXCEPT !.res = "errored"]
<1>1. /\ failed \in ServerCall /\ Ends(srvCalls[i], failed, "errored")
      /\ failed.id = rec.id /\ rec.obs = srvCalls[i].obs /\ failed.of = srvCalls[i].of
      /\ failed.req = rec.req /\ failed.kind = rec.kind /\ failed.unsubscribed = rec.unsubscribed
  BY DEF ServerCall, Ends, Alike
<1> HIDE DEF failed
<1>2. RequestOK(failed)
  BY <1>1 DEF RequestOK
<1>3. /\ srvCalls' = [srvCalls EXCEPT ![i] = failed]
      /\ \/ /\ srvCalls[i].obs.tasks = 0
            /\ activeStreamCalls' = [activeStreamCalls EXCEPT ![failed.id] = 0]
            /\ Send(Response("ResponseError", i, failed, NoValue))
            /\ srvMicrotasks' = srvMicrotasks
         \/ /\ srvMicrotasks' = Append(srvMicrotasks, SrvTask(i, FinalKind("errored"), NoValue))
            /\ activeStreamCalls' = activeStreamCalls
  BY <1>1 DEF ResponseErrors, OnStreamError, PassedOnAtOnce, FinalKind, failed
<1> QED BY <1>1, <1>2, <1>3, EndingSettles

LEMMA EmitSettles ==
  ASSUME ServerInv, Entered, NEW i \in 1 .. Len(srvCalls), MethodEmits(i)
  PROVE  Settles
<1> DEFINE rec == [srvCalls[i] EXCEPT !.emitted = @ + 1, !.obs = ValueQueued(@)]
           t == SrvTask(i, "next", srvCalls[i].emitted + 1)
<1>1. /\ srvCalls \in Seq(ServerCall) /\ srvCalls[i] \in ServerCall /\ i \in Nat \ {0}
      /\ srvCalls[i].emitted \in Nat /\ Len(srvCalls) \in Nat /\ RequestOK(srvCalls[i])
  <2>1. srvCalls \in Seq(ServerCall) /\ srvCalls[i] \in ServerCall /\ i \in Nat \ {0} /\ Len(srvCalls) \in Nat
    BY Indices DEF ServerInv, ServerTyped
  <2>2. srvCalls[i].emitted \in 0 .. MaxResponseValues
    BY <2>1 DEF ServerCall
  <2> QED BY <2>1, <2>2, ServerAssumption DEF Entered
<1>2. /\ srvCalls[i].kind = "stream" /\ srvCalls[i].res = "open"
      /\ srvMicrotasks' = Append(srvMicrotasks, t)
      /\ activeStreamCalls' = activeStreamCalls /\ srvStopped' = srvStopped
  BY DEF MethodEmits, Invoked
<1>3. srvCalls' = [srvCalls EXCEPT ![i] = rec]
  BY <1>1 DEF MethodEmits, ServerCall
<1>4. /\ rec.of = srvCalls[i].of /\ rec.id = srvCalls[i].id /\ rec.kind = srvCalls[i].kind
      /\ rec.res = "open" /\ rec.req = srvCalls[i].req /\ rec.unsubscribed = srvCalls[i].unsubscribed
  BY <1>1, <1>2 DEF ServerCall
<1> HIDE DEF rec
<1>5. /\ Len(srvCalls') = Len(srvCalls) /\ srvCalls'[i] = rec
      /\ \A j \in 1 .. Len(srvCalls) : j # i => srvCalls'[j] = srvCalls[j]
  BY <1>1, <1>3
<1>6. StepOf(i)
  BY <1>4, <1>5 DEF StepOf, SameCall
<1>7. Others(i)
  <2>1. t \in MicroTask /\ t.call = i
    BY <1>1 DEF SrvTask, MicroTask
  <2> HIDE DEF t
  <2> QED BY <1>2, <1>6, <2>1, OthersStay DEF TasksOf
<1>8. ~ResponseEnded(i) /\ ~ResponseEnded(i)'
  BY <1>2, <1>4, <1>5 DEF ResponseEnded
<1>9. EndWaits(i)' /\ EndIsSent(i) /\ (Waits(i)' => Waits(i))
  BY <1>2, <1>4, <1>5, <1>8 DEF EndWaits, EndIsSent, Waits
<1>10. RequestOK(rec)
  BY <1>1, <1>4 DEF RequestOK
<1>11. StepAlone(i)
  BY <1>2, <1>5, <1>6, <1>7, <1>9, <1>10 DEF StepAlone
<1> QED BY <1>11, AloneSettles

LEMMA StaticSettles ==
  ASSUME ServerInv, Entered, NEW i \in 1 .. Len(srvCalls),
         NEW type \in {"ResponseComplete", "ResponseError"}, StaticCallSettles(i, type)
  PROVE  Settles
<1> DEFINE failed == type = "ResponseError"
           rec == [srvCalls[i] EXCEPT !.res = IF failed THEN "errored" ELSE "completed",
                                      !.emitted = IF failed THEN @ ELSE 1]
           val == IF failed THEN NoValue ELSE 1
<1>1. /\ srvCalls \in Seq(ServerCall) /\ srvCalls[i] \in ServerCall /\ i \in Nat \ {0}
      /\ Len(srvCalls) \in Nat /\ RequestOK(srvCalls[i])
  BY Indices DEF ServerInv, ServerTyped, Entered
<1>2. /\ srvCalls[i].kind = "static" /\ srvCalls[i].res = "open"
      /\ Send(Response(type, i, srvCalls[i], val))
      /\ UNCHANGED <<activeStreamCalls, srvMicrotasks, srvStopped>>
  BY DEF StaticCallSettles
<1>3. srvCalls' = [srvCalls EXCEPT ![i] = rec]
  BY <1>1 DEF StaticCallSettles, ServerCall
<1>4. /\ rec.of = srvCalls[i].of /\ rec.id = srvCalls[i].id /\ rec.kind = srvCalls[i].kind
      /\ rec.res # "open" /\ rec.req = srvCalls[i].req /\ rec.unsubscribed = srvCalls[i].unsubscribed
  BY <1>1, <1>2 DEF ServerCall
<1>5. val \in Nat
  BY DEF NoValue
<1> HIDE DEF rec, val
<1>6. /\ Len(srvCalls') = Len(srvCalls) /\ srvCalls'[i] = rec
      /\ \A j \in 1 .. Len(srvCalls) : j # i => srvCalls'[j] = srvCalls[j]
  BY <1>1, <1>3
<1>7. StepOf(i)
  BY <1>4, <1>6 DEF StepOf, SameCall
<1>8. Others(i)
  BY <1>2, <1>7, OthersStay DEF TasksOf
<1>9. EndIsSent(i)
  BY <1>1, <1>2, <1>4, <1>5, <1>6, EndSent DEF EndIsSent
<1>10. EndWaits(i)' /\ ~Waits(i)'
  BY <1>2, <1>4, <1>6 DEF EndWaits, Waits
<1>11. RequestOK(rec)
  BY <1>1, <1>4 DEF RequestOK
<1>12. StepAlone(i)
  BY <1>2, <1>4, <1>6, <1>7, <1>8, <1>9, <1>10, <1>11 DEF StepAlone
<1> QED BY <1>12, AloneSettles

LEMMA MethodSettles ==
  ASSUME ServerInv, Entered, MethodAction
  PROVE  Settles
<1>1. DOMAIN srvCalls = 1 .. Len(srvCalls)
  BY Indices DEF ServerInv, ServerTyped
<1>2. ASSUME NEW i \in 1 .. Len(srvCalls), MethodFails(i) PROVE Settles
  <2>1. srvCalls[i] \in ServerCall /\ RequestOK(srvCalls[i])
    BY Indices DEF ServerInv, ServerTyped, Entered
  <2>2. Alike(srvCalls[i], srvCalls[i])
    BY DEF Alike
  <2> QED BY <1>2, <2>1, <2>2, ErrorsSettles DEF MethodFails, Invoked
<1> QED BY <1>1, <1>2, EmitSettles, CompletesSettles, StaticSettles DEF MethodAction

(* A value of a response is passed on.                                      *)
LEMMA ValueSettles ==
  ASSUME ServerInv, Entered, srvMicrotasks # <<>>, srvMicrotasks' = Tail(srvMicrotasks),
         NEW t, NEW i, t = Head(srvMicrotasks), i = t.call, t.kind = "next",
         ResponseValueTask(i, t.val), srvStopped' = srvStopped
  PROVE  Settles
<1> DEFINE last == IsLastValue(srvCalls[i].obs)
           new == [srvCalls[i] EXCEPT !.obs = ValueHandled(@)]
<1>1. /\ t \in MicroTask /\ i \in 1 .. Len(srvCalls) /\ TaskOK(t, srvCalls[i])
      /\ \A j : FinalWaits(srvMicrotasks, j) => FinalWaits(srvMicrotasks', j)
      /\ ~ResponseEnded(i) \/ srvCalls[i].obs.completeCalled
      /\ srvMicrotasks' \in Seq(MicroTask)
  BY QueueRest
<1>2. /\ \/ /\ last
            /\ activeStreamCalls' = [activeStreamCalls EXCEPT ![srvCalls[i].id] = 0]
            /\ Send(Response("ResponseComplete", i, srvCalls[i], t.val))
         \/ /\ ~last
            /\ activeStreamCalls' = activeStreamCalls
      /\ srvCalls' = [srvCalls EXCEPT ![i] = new]
  BY DEF ResponseValueTask, OnStreamComplete
<1>3. /\ srvCalls \in Seq(ServerCall) /\ srvCalls[i] \in ServerCall /\ RecordOK(srvCalls[i])
      /\ i \in Nat \ {0} /\ Len(srvCalls) \in Nat /\ RequestOK(srvCalls[i])
      /\ ~srvStopped => EndWaits(i)
      /\ DOMAIN srvMicrotasks' = 1 .. Len(srvMicrotasks')
  BY <1>1, Indices DEF ServerInv, ServerTyped, CallsOK, Entered
<1>4. srvCalls[i].obs \in ObserverState /\ t.val \in Nat
  BY <1>1, <1>3 DEF MicroTask, ServerCall
<1>5. ~srvCalls[i].obs.completeCalled
  <2>1. srvCalls[i].emitted \in Nat
    <3>1. srvCalls[i].emitted \in 0 .. MaxResponseValues
      BY <1>3 DEF ServerCall
    <3> QED BY <3>1, ServerAssumption
  <2> QED BY <1>1, <1>3, <1>4, <2>1 DEF TaskOK, RecordOK
<1>6. last => ValueHandled(srvCalls[i].obs).completeCalled
  BY <1>4 DEF ValueHandled, ObserverState
<1>7. /\ new.of = srvCalls[i].of /\ new.id = srvCalls[i].id /\ new.kind = srvCalls[i].kind
      /\ new.res = srvCalls[i].res /\ new.req = srvCalls[i].req
      /\ new.unsubscribed = srvCalls[i].unsubscribed /\ new.obs = ValueHandled(srvCalls[i].obs)
  BY <1>3 DEF ServerCall
<1>8. last => srvCalls[i].res # "open"
  BY <1>3 DEF IsLastValue, RecordOK
<1>9. ~last => ValueHandled(srvCalls[i].obs).completeCalled = FALSE
  BY <1>4, <1>5 DEF ValueHandled, ObserverState
<1> HIDE DEF new, last
<1>10. /\ Len(srvCalls') = Len(srvCalls) /\ srvCalls'[i] = new
       /\ \A j \in 1 .. Len(srvCalls) : j # i => srvCalls'[j] = srvCalls[j]
  BY <1>1, <1>2, <1>3
<1>11. StepOf(i)
  BY <1>1, <1>7, <1>10 DEF StepOf, SameCall
<1>12. Others(i)
  BY <1>11, OthersStay DEF TasksOf
<1>13. ~ResponseEnded(i) /\ RequestOK(new)
  BY <1>1, <1>3, <1>5, <1>7 DEF RequestOK
<1>14. CASE last
  <2>1. ResponseEnded(i)'
    BY <1>6, <1>7, <1>8, <1>10, <1>14 DEF ResponseEnded
  <2>2. EndGoes(srvCalls'[i])
    BY <1>2, <1>3, <1>4, <1>7, <1>10, <1>14, EndSent
  <2>3. EndWaits(i)' /\ EndIsSent(i) /\ ~Waits(i)'
    BY <2>1, <2>2 DEF EndWaits, EndIsSent, Waits
  <2>4. StepAlone(i)
    BY <1>2, <1>7, <1>10, <1>11, <1>12, <1>13, <1>14, <2>3 DEF StepAlone
  <2> QED BY <2>4, AloneSettles
<1>15. CASE ~last
  <2>1. ASSUME ~srvStopped, srvCalls[i].kind = "stream", srvCalls[i].res # "open"
        PROVE  FinalWaits(srvMicrotasks', i) /\ ~ResponseEnded(i)'
    <3>1. FinalWaits(srvMicrotasks', i)
      BY <1>1, <1>3, <1>13, <2>1 DEF EndWaits
    <3>2. ~srvCalls'[i].obs.completeCalled
      BY <1>7, <1>9, <1>10, <1>15
    <3>3. \E k \in DOMAIN srvMicrotasks' : srvMicrotasks'[k].call = i
      BY <1>3, <3>1 DEF FinalWaits
    <3> QED BY <3>1, <3>2, <3>3 DEF ResponseEnded
  <2>2. srvCalls[i].kind = "stream"
    BY <1>1 DEF TaskOK
  <2>3. srvCalls[i].res = "open" => ~ResponseEnded(i)'
    BY <1>7, <1>10 DEF ResponseEnded
  <2>4. ~srvStopped => EndWaits(i)' /\ EndIsSent(i)
    BY <1>7, <1>10, <2>1, <2>2, <2>3 DEF EndWaits, EndIsSent
  <2>5. Waits(i)' => Waits(i)
    BY <1>7, <1>10, <1>13 DEF Waits
  <2>6. StepAlone(i)
    BY <1>2, <1>7, <1>10, <1>11, <1>12, <1>13, <1>15, <2>4, <2>5 DEF StepAlone
  <2> QED BY <2>6, AloneSettles
<1> QED BY <1>14, <1>15

LEMMA FinalSettles ==
  ASSUME ServerInv, Entered, srvMicrotasks # <<>>, srvMicrotasks' = Tail(srvMicrotasks),
         NEW t, NEW i, t = Head(srvMicrotasks), i = t.call, t.kind # "next",
         ResponseFinalTask(i, t.kind), srvCalls' = srvCalls, srvStopped' = srvStopped
  PROVE  Settles
<1>1. /\ t \in MicroTask /\ i \in 1 .. Len(srvCalls) /\ TaskOK(t, srvCalls[i])
      /\ \A k \in 1 .. Len(srvMicrotasks') : srvMicrotasks'[k].call # i
      /\ srvMicrotasks' \in Seq(MicroTask)
  BY QueueRest
<1>2. /\ srvCalls[i] \in ServerCall /\ RecordOK(srvCalls[i])
      /\ i \in Nat \ {0} /\ Len(srvCalls) \in Nat /\ RequestOK(srvCalls[i])
      /\ DOMAIN srvMicrotasks' = 1 .. Len(srvMicrotasks') /\ NoValue \in Nat
  BY <1>1, Indices DEF ServerInv, ServerTyped, CallsOK, Entered, NoValue
<1>3. srvCalls[i].res # "open"
  BY <1>1, <1>2 DEF MicroTask, TaskOK
<1>4. ResponseEnded(i)'
  BY <1>1, <1>2, <1>3 DEF ResponseEnded
<1>5. StepOf(i)
  BY <1>1 DEF StepOf, SameCall
<1>6. Others(i)
  BY <1>5, OthersStay DEF TasksOf
<1>7. Old(i)
  BY <1>1 DEF Old, SameCall
<1>8. \/ /\ EndGoes(srvCalls'[i])
         /\ activeStreamCalls' = [activeStreamCalls EXCEPT ![srvCalls[i].id] = 0]
      \/ ResponseEnded(i) /\ activeStreamCalls' = activeStreamCalls
  <2>1. CASE OnStreamError(i, srvCalls[i])
    BY <1>2, <2>1, EndSent DEF OnStreamError
  <2>2. CASE OnStreamComplete(i, srvCalls[i], NoValue)
    BY <1>2, <2>2, EndSent DEF OnStreamComplete
  <2>3. CASE srvCalls[i].obs.completeCalled /\ activeStreamCalls' = activeStreamCalls
    BY <1>3, <2>3 DEF ResponseEnded
  <2> QED BY <2>1, <2>2, <2>3 DEF ResponseFinalTask
<1>9. EndWaits(i)' /\ EndIsSent(i) /\ ~Waits(i)'
  BY <1>4, <1>7, <1>8 DEF EndWaits, EndIsSent, Waits
<1>10. StepAlone(i)
  BY <1>2, <1>3, <1>5, <1>6, <1>8, <1>9 DEF StepAlone
<1> QED BY <1>10, AloneSettles

LEMMA MicrotaskSettles ==
  ASSUME ServerInv, Entered, ServerMicrotaskRuns
  PROVE  Settles
BY ValueSettles, FinalSettles DEF ServerMicrotaskRuns

(* Messages from the client.                                                *)
LEMMA UpdateSettles ==
  ASSUME ServerInv, Entered, NEW i \in 1 .. Len(srvCalls), NEW rec \in ServerCall,
         SameCall(srvCalls[i], rec), Alike(srvCalls[i], rec), RequestOK(rec),
         srvCalls' = [srvCalls EXCEPT ![i] = rec],
         \/ rec.unsubscribed = srvCalls[i].unsubscribed /\ activeStreamCalls' = activeStreamCalls
         \/ rec.unsubscribed /\ activeStreamCalls' = [activeStreamCalls EXCEPT ![srvCalls[i].id] = 0],
         srvMicrotasks' = srvMicrotasks, srvStopped' = srvStopped
  PROVE  Settles
<1>1. StepOf(i) /\ srvCalls'[i] = rec
  BY StepOfOne
<1>2. Others(i)
  BY <1>1, OthersStay DEF TasksOf
<1>3. ResponseEnded(i)' <=> ResponseEnded(i)
  BY <1>1 DEF ResponseEnded, Alike
<1>4. Old(i) /\ (~srvStopped => EndWaits(i))
  BY <1>1 DEF Old, Entered
<1>5. ~srvStopped => EndWaits(i)' /\ EndIsSent(i)
  BY <1>1, <1>3, <1>4 DEF EndWaits, EndIsSent, Alike
<1>6. \/ (Waits(i)' => Waits(i)) /\ activeStreamCalls' = activeStreamCalls
      \/ ~Waits(i)' /\ activeStreamCalls' = [activeStreamCalls EXCEPT ![srvCalls[i].id] = 0]
  BY <1>1, <1>3 DEF Waits, Alike
<1>7. srvCalls[i].res # "open" => srvCalls'[i].res # "open"
  BY <1>1 DEF Alike
<1>8. StepAlone(i)
  BY <1>1, <1>2, <1>5, <1>6, <1>7 DEF StepAlone
<1> QED BY <1>8, AloneSettles

(* The call an entry refers to takes a request message.                     *)
LEMMA EntrySettles ==
  ASSUME ServerInv, Entered, NEW id \in Id, NEW i, i = activeStreamCalls[id], i # 0,
         NEW rec \in ServerCall, SameCall(srvCalls[i], rec), Alike(srvCalls[i], rec),
         rec.unsubscribed = srvCalls[i].unsubscribed,
         UpdateServerCall(i, rec), srvStopped' = srvStopped
  PROVE  Settles
<1>1. i \in 1 .. Len(srvCalls) /\ EntryOK(id, i, srvCalls[i], srvMicrotasks)
  BY DEF ServerInv, EntriesOK
<1>2. RequestOK(rec)
  BY <1>1 DEF RequestOK, SameCall, EntryOK
<1> QED BY <1>1, <1>2, UpdateSettles DEF UpdateServerCall

LEMMA CreateSettles ==
  ASSUME ServerInv, Entered, NEW m \in ClientMessage, NEW rec \in ServerCall,
         Alike(NewCall(m, "stream"), rec), rec.unsubscribed = FALSE, CreateStreamCall(m, rec),
         srvStopped' = srvStopped
  PROVE  Settles
<1>1. m.id \in Id /\ activeStreamCalls \in [Id -> Nat] /\ srvCalls \in Seq(ServerCall)
  BY CallTypes DEF ServerInv, ServerTyped
<1>2. rec.kind = "stream" /\ rec.id = m.id /\ rec.res = "open"
  BY CallTypes DEF Alike
<1>3. PICK n : n = Len(srvCalls) + 1
  OBVIOUS
<1>4. /\ Len(srvCalls') = n /\ srvCalls'[n] = rec
      /\ \A j \in 1 .. Len(srvCalls) : srvCalls'[j] = srvCalls[j]
  BY <1>1, <1>3, AppendOne DEF CreateStreamCall
<1>5. activeStreamCalls' = [activeStreamCalls EXCEPT ![m.id] = n] /\ srvMicrotasks' = srvMicrotasks
  BY <1>3 DEF CreateStreamCall
<1>6. StepAdds(n, m.id)
  BY <1>1, <1>2, <1>3, <1>4, <1>5 DEF StepAdds, RequestOK
<1> QED BY <1>1, <1>6, AddsSettles

LEMMA StaticBegins ==
  ASSUME ServerInv, Entered, NEW m \in ClientMessage, ExecStaticCall(m), srvStopped' = srvStopped
  PROVE  Settles
<1> DEFINE new == NewCall(m, "static")
           rec == [new EXCEPT !.req = "completed", !.got = <<m.val>>]
<1>1. /\ new \in ServerCall /\ new.kind = "static" /\ new.id = m.id /\ new.res = "open"
      /\ m.id \in Id /\ m.val \in Nat /\ srvCalls \in Seq(ServerCall)
  BY CallTypes DEF ServerInv, ServerTyped
<1>2. /\ srvCalls' = Append(srvCalls, rec)
      /\ activeStreamCalls' = activeStreamCalls /\ srvMicrotasks' = srvMicrotasks
  BY DEF ExecStaticCall
<1> HIDE DEF new
<1>3. /\ rec \in ServerCall /\ rec.kind = "static" /\ rec.id = m.id /\ rec.res = "open"
      /\ rec.req = "completed"
  <2>1. <<m.val>> \in Seq(Nat)
    BY <1>1
  <2> QED BY <1>1, <2>1 DEF ServerCall
<1> HIDE DEF rec
<1>4. PICK n : n = Len(srvCalls) + 1
  OBVIOUS
<1>5. /\ Len(srvCalls') = n /\ srvCalls'[n] = rec
      /\ \A j \in 1 .. Len(srvCalls) : srvCalls'[j] = srvCalls[j]
  BY <1>1, <1>2, <1>3, <1>4, AppendOne
<1>6. RequestOK(rec)
  BY <1>3 DEF RequestOK
<1>7. StepAdds(n, m.id)
  BY <1>1, <1>2, <1>3, <1>4, <1>5, <1>6 DEF StepAdds
<1> QED BY <1>1, <1>7, AddsSettles

LEMMA DataSettles ==
  ASSUME ServerInv, Entered, NEW m \in ClientMessage, OnRequestData(m), srvStopped' = srvStopped
  PROVE  Settles
<1> DEFINE i == activeStreamCalls[m.id]
           new == NewCall(m, "stream")
<1>1. m.id \in Id /\ m.val \in Nat /\ new \in ServerCall /\ new.unsubscribed = FALSE
  BY CallTypes DEF ServerCall
<1>2. CASE i # 0 /\ UpdateServerCall(i, RequestValue(srvCalls[i], m.val))
  <2>1. srvCalls[i] \in ServerCall
    BY <1>1, <1>2, ActiveCall
  <2>2. PICK rec : rec = RequestValue(srvCalls[i], m.val)
    OBVIOUS
  <2>3. /\ rec \in ServerCall /\ SameCall(srvCalls[i], rec) /\ Alike(srvCalls[i], rec)
        /\ rec.unsubscribed = srvCalls[i].unsubscribed
    BY <1>1, <2>1, <2>2, ValueTypes, ValueTaken
  <2> QED BY <1>1, <1>2, <2>2, <2>3, EntrySettles
<1>3. CASE Refused(m)
  BY <1>3, NoneSettles DEF Refused
<1>4. CASE ExecStaticCall(m)
  BY <1>4, StaticBegins
<1>5. CASE CreateStreamCall(m, RequestValue(new, m.val))
  BY <1>1, <1>5, ValueTypes, CreateSettles
<1> QED BY <1>2, <1>3, <1>4, <1>5 DEF OnRequestData

LEMMA CompleteSettles ==
  ASSUME ServerInv, Entered, NEW m \in ClientMessage, OnRequestComplete(m), srvStopped' = srvStopped
  PROVE  Settles
<1> DEFINE i == activeStreamCalls[m.id]
           new == NewCall(m, "stream")
           first == RequestValue(new, m.val)
<1>1. /\ m.id \in Id /\ m.val \in Nat /\ new \in ServerCall /\ new.unsubscribed = FALSE
      /\ "completed" \in {"completed", "errored"}
  BY CallTypes DEF ServerCall
<1>2. CASE i # 0 /\ UpdateServerCall(i, RequestEnd(RequestValue(srvCalls[i], m.val), "completed"))
  <2>1. srvCalls[i] \in ServerCall
    BY <1>1, <1>2, ActiveCall
  <2>2. PICK one : one = RequestValue(srvCalls[i], m.val)
    OBVIOUS
  <2>3. /\ one \in ServerCall /\ SameCall(srvCalls[i], one) /\ Alike(srvCalls[i], one)
        /\ one.unsubscribed = srvCalls[i].unsubscribed
    BY <1>1, <2>1, <2>2, ValueTypes, ValueTaken
  <2>4. PICK rec : rec = RequestEnd(one, "completed")
    OBVIOUS
  <2>5. /\ rec \in ServerCall /\ SameCall(one, rec) /\ Alike(one, rec)
        /\ rec.unsubscribed = one.unsubscribed
    BY <1>1, <2>3, <2>4, EndTypes, EndTaken
  <2>6. Alike(srvCalls[i], rec) /\ SameCall(srvCalls[i], rec)
    BY <2>3, <2>5, AlikeTwice DEF SameCall
  <2> QED BY <1>1, <1>2, <2>2, <2>3, <2>4, <2>5, <2>6, EntrySettles
<1>3. CASE Refused(m)
  BY <1>3, NoneSettles DEF Refused
<1>4. CASE ExecStaticCall(m)
  BY <1>4, StaticBegins
<1>5. CASE CreateStreamCall(m, IF m.val = NoValue THEN first ELSE RequestEnd(first, "completed"))
  <2>1. PICK rec : rec = IF m.val = NoValue THEN first ELSE RequestEnd(first, "completed")
    OBVIOUS
  <2>2. first \in ServerCall /\ Alike(new, first) /\ first.unsubscribed = FALSE
    BY <1>1, ValueTypes
  <2>3. CreateStreamCall(m, rec)
    BY <1>5, <2>1
  <2> HIDE DEF first, new
  <2>4. rec \in ServerCall /\ Alike(first, rec) /\ rec.unsubscribed = FALSE
    BY <1>1, <2>1, <2>2, EndTypes DEF Alike
  <2>5. Alike(new, rec)
    BY <2>2, <2>4, AlikeTwice
  <2> QED BY <2>3, <2>4, <2>5, CreateSettles DEF new
<1> QED BY <1>2, <1>3, <1>4, <1>5 DEF OnRequestComplete

LEMMA ErrorSettles ==
  ASSUME ServerInv, Entered, NEW m \in ClientMessage, OnRequestError(m), srvStopped' = srvStopped
  PROVE  Settles
<1> DEFINE i == activeStreamCalls[m.id]
           new == RequestEnd(NewCall(m, "stream"), "errored")
<1>1. /\ m.id \in Id /\ NewCall(m, "stream") \in ServerCall
      /\ NewCall(m, "stream").unsubscribed = FALSE /\ "errored" \in {"completed", "errored"}
  BY CallTypes DEF ServerCall
<1>2. ASSUME i # 0
      PROVE  /\ i \in 1 .. Len(srvCalls) /\ srvCalls[i].kind = "stream"
             /\ RequestEnd(srvCalls[i], "errored") \in ServerCall
             /\ Alike(srvCalls[i], RequestEnd(srvCalls[i], "errored"))
             /\ SameCall(srvCalls[i], RequestEnd(srvCalls[i], "errored"))
             /\ RequestEnd(srvCalls[i], "errored").unsubscribed = srvCalls[i].unsubscribed
             /\ RequestOK(RequestEnd(srvCalls[i], "errored"))
  <2>1. /\ i \in 1 .. Len(srvCalls) /\ srvCalls[i] \in ServerCall
        /\ EntryOK(m.id, i, srvCalls[i], srvMicrotasks)
    BY <1>1, <1>2, ActiveCall DEF ServerInv, EntriesOK
  <2>2. PICK rec : rec = RequestEnd(srvCalls[i], "errored")
    OBVIOUS
  <2>3. /\ rec \in ServerCall /\ SameCall(srvCalls[i], rec) /\ Alike(srvCalls[i], rec)
        /\ rec.unsubscribed = srvCalls[i].unsubscribed
    BY <1>1, <2>1, <2>2, EndTypes, EndTaken
  <2>4. RequestOK(rec) /\ srvCalls[i].kind = "stream"
    BY <2>1, <2>3 DEF RequestOK, SameCall, EntryOK
  <2> QED BY <2>1, <2>2, <2>3, <2>4
<1>3. CASE i # 0 /\ srvCalls[i].res = "open" /\ ResponseErrors(i, RequestEnd(srvCalls[i], "errored"), srvCalls)
  BY <1>2, <1>3, ErrorsSettles DEF SameCall
<1>4. CASE i # 0 /\ UpdateServerCall(i, RequestEnd(srvCalls[i], "errored"))
  BY <1>1, <1>2, <1>4, EntrySettles
<1>5. CASE Refused(m)
  BY <1>5, NoneSettles DEF Refused
<1>6. CASE ResponseErrors(Len(srvCalls) + 1, new, Append(srvCalls, new))
  <2> DEFINE failed == [new EXCEPT !.res = "errored"]
  <2>1. new \in ServerCall /\ Alike(NewCall(m, "stream"), new) /\ new.unsubscribed = FALSE
    BY <1>1, EndTypes
  <2>2. new.obs = NewObserver /\ new.id = m.id /\ new.kind = "stream"
    BY <1>1, <2>1, CallTypes DEF Alike
  <2> HIDE DEF new
  <2>3. /\ failed \in ServerCall /\ failed.id = m.id /\ failed.obs = NewObserver
        /\ failed.res = "errored" /\ failed.kind = "stream" /\ failed.unsubscribed = FALSE
    BY <2>1, <2>2 DEF ServerCall
  <2> HIDE DEF failed
  <2>4. PICK n \in Nat : n = Len(srvCalls) + 1
    BY Indices DEF ServerInv, ServerTyped
  <2>5. /\ srvCalls \in Seq(ServerCall) /\ activeStreamCalls \in [Id -> Nat]
        /\ DOMAIN srvMicrotasks = 1 .. Len(srvMicrotasks) /\ n \notin 1 .. Len(srvCalls)
        /\ NoValue \in Nat
    BY <2>4, Indices DEF ServerInv, ServerTyped, NoValue
  <2>6. srvCalls' = Append(srvCalls, failed)
    <3>1. srvCalls' = [Append(srvCalls, new) EXCEPT ![Len(srvCalls) + 1] = failed]
      BY <1>6 DEF ResponseErrors, failed
    <3> QED BY <2>1, <2>3, <2>5, <3>1, ReplaceLast
  <2>7. /\ srvMicrotasks' = srvMicrotasks
        /\ activeStreamCalls' = [activeStreamCalls EXCEPT ![m.id] = 0]
        /\ Send(Response("ResponseError", n, failed, NoValue))
    <3>1. NewObserver.tasks = 0
      BY DEF NewObserver
    <3> QED BY <1>6, <2>2, <2>3, <2>4, <3>1 DEF ResponseErrors, OnStreamError, PassedOnAtOnce, failed
  <2>8. /\ Len(srvCalls') = n /\ srvCalls'[n] = failed
        /\ \A j \in 1 .. Len(srvCalls) : srvCalls'[j] = srvCalls[j]
    BY <2>3, <2>4, <2>5, <2>6, AppendOne
  <2>9. \A k \in 1 .. Len(srvMicrotasks) : srvMicrotasks[k].call # n
    BY <2>5 DEF ServerInv, TasksOK
  <2>10. ResponseEnded(n)'
    BY <2>3, <2>5, <2>7, <2>8, <2>9 DEF ResponseEnded
  <2>11. EndGoes(srvCalls'[n])
    BY <2>3, <2>5, <2>7, <2>8, EndSent
  <2>12. RequestOK(failed)
    BY <2>3 DEF RequestOK
  <2>13. \A d \in Id : d # m.id => activeStreamCalls'[d] = activeStreamCalls[d]
    BY <2>5, <2>7
  <2>14. StepAdds(n, m.id)
    BY <2>3, <2>4, <2>7, <2>8, <2>10, <2>11, <2>12, <2>13 DEF StepAdds
  <2> QED BY <1>1, <2>14, AddsSettles
<1> QED BY <1>3, <1>4, <1>5, <1>6 DEF OnRequestError

LEMMA UnsubscribeSettles ==
  ASSUME ServerInv, Entered, NEW m \in ClientMessage, OnUnsubscribe(m), srvStopped' = srvStopped
  PROVE  Settles
<1>1. m.id \in Id /\ "completed" \in {"completed", "errored"}
  BY CallTypes
<1>2. CASE activeStreamCalls[m.id] = 0
  BY <1>2, NoneSettles DEF OnUnsubscribe
<1>3. ASSUME NEW i, i = activeStreamCalls[m.id], i # 0 PROVE Settles
  <2>1. i \in 1 .. Len(srvCalls) /\ srvCalls[i] \in ServerCall /\ srvCalls[i].id = m.id
    BY <1>1, <1>3, ActiveCall
  <2>2. PICK end : end = RequestEnd(srvCalls[i], "completed")
    OBVIOUS
  <2>3. end \in ServerCall /\ SameCall(srvCalls[i], end) /\ Alike(srvCalls[i], end) /\ end.req # "open"
    BY <1>1, <2>1, <2>2, EndTypes, EndTaken
  <2>4. PICK rec \in ServerCall : rec = [end EXCEPT !.unsubscribed = TRUE]
    BY <2>3 DEF ServerCall
  <2>5. SameCall(end, rec) /\ Alike(end, rec) /\ rec.unsubscribed /\ rec.req = end.req
    BY <2>3, <2>4 DEF ServerCall, SameCall, Alike
  <2>6. SameCall(srvCalls[i], rec) /\ Alike(srvCalls[i], rec) /\ RequestOK(rec)
    BY <2>3, <2>5, AlikeTwice DEF SameCall, RequestOK
  <2>7. /\ srvCalls' = [srvCalls EXCEPT ![i] = rec] /\ srvMicrotasks' = srvMicrotasks
        /\ activeStreamCalls' = [activeStreamCalls EXCEPT ![srvCalls[i].id] = 0]
    BY <1>3, <2>1, <2>2, <2>4 DEF OnUnsubscribe
  <2> QED BY <2>1, <2>5, <2>6, <2>7, UpdateSettles
<1> QED BY <1>2, <1>3

LEMMA MessageSettles ==
  ASSUME ServerInv, Entered, ServerOnMessage
  PROVE  Settles
<1>1. PICK m \in ClientMessage : m = Head(srvInbox)
  BY TakeOne DEF ServerOnMessage, ServerInv, ServerTyped
<1>2. srvStopped' = srvStopped
  BY DEF ServerOnMessage
<1>3. CASE OnRequestDataThrows(m)
  BY <1>2, <1>3, NoneSettles DEF OnRequestDataThrows
<1> QED BY <1>1, <1>2, <1>3, DataSettles, CompleteSettles, ErrorSettles, UnsubscribeSettles
     DEF ServerOnMessage

(* After stop() nothing is sent, and a request stream that was over stays so. *)
LEMMA StopSettles ==
  ASSUME ServerInv, Entered, ServerStop
  PROVE  Settles
<1>1. srvCalls \in Seq(ServerCall) /\ Len(srvCalls) \in Nat /\ DOMAIN srvCalls = 1 .. Len(srvCalls)
  BY Indices DEF ServerInv, ServerTyped
<1>2. /\ \A i \in 1 .. Len(srvCalls) : srvCalls'[i] \in {StoppedCall(srvCalls[i]), srvCalls[i]}
      /\ Len(srvCalls') = Len(srvCalls) /\ srvStopped'
  BY <1>1 DEF ServerStop
<1>3. ASSUME NEW i \in 1 .. Len(srvCalls)
      PROVE  /\ Old(i) /\ RequestOK(srvCalls'[i])
             /\ srvCalls[i].res # "open" => srvCalls'[i].res # "open"
  <2>1. srvCalls[i] \in ServerCall /\ RequestOK(srvCalls[i])
    BY <1>1 DEF Entered
  <2>2. PICK new : new = StoppedCall(srvCalls[i])
    OBVIOUS
  <2>3. /\ SameCall(srvCalls[i], new) /\ RequestOK(new)
        /\ srvCalls[i].res # "open" => new.res # "open"
    BY <2>1, <2>2 DEF StoppedCall, RequestEnd, SameCall, RequestOK, ServerCall
  <2>4. SameCall(srvCalls[i], srvCalls[i])
    BY DEF SameCall
  <2>5. SameCall(srvCalls[i], srvCalls'[i]) /\ RequestOK(srvCalls'[i])
        /\ (srvCalls[i].res # "open" => srvCalls'[i].res # "open")
    BY <1>2, <2>1, <2>2, <2>3, <2>4
  <2> QED BY <2>5 DEF Old
<1> QED BY <1>1, <1>2, <1>3 DEF Settles

(* Every step of the server.                                                *)
LEMMA ServerSettles ==
  ASSUME ServerInv, Entered, ServerNext
  PROVE  Settles /\ Entered'
<1>1. Settles
  <2>1. CASE ServerReceivesBatch
    BY <2>1, NoneSettles DEF ServerReceivesBatch
  <2>2. CASE ServerTimerFires
    BY <2>2, NoneSettles DEF ServerTimerFires
  <2> QED BY <2>1, <2>2, MicrotaskSettles, MethodSettles, MessageSettles, StopSettles
       DEF ServerNext, ServerCallback
<1> QED BY <1>1, SettlesKeeps

LEMMA NothingEntered == ServerInit => Entered
BY DEF ServerInit, Entered
=============================================================================
