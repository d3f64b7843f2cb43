---------------------- MODULE StreamingRpcClientProof -----------------------
(***************************************************************************)
(* What StreamingRpcClient keeps true whatever the server sends: its types,*)
(* an id per call for exactly as long as the call lives, an unsubscribe    *)
(* message for every subscription that ends before the server ended the    *)
(* response and for no other, and one end to each request stream, with     *)
(* nothing after it. Its last parts say what a step                        *)
(* does to the messages on their way to the server (LineStep) and what it  *)
(* makes of the server's (Delivery, Reading): that is how                  *)
(* StreamingRpcProof joins the client to the server.                       *)
(***************************************************************************)
EXTENDS OpenStreamingRpcClient, SequenceTheorems, TLAPS

(* A call that was not made is as it was in the beginning; one that was has *)
(* an id.                                                                   *)
CallsStarted ==
  \A c \in Call :
    /\ ~Started(c) => call[c] = IdleCall
    /\ Started(c) => call[c].id \in Id

(* The map and the calls' own view of their ids.                            *)
IdsMatch ==
  /\ \A id \in Id : calls[id] # NoCall =>
       /\ Started(calls[id])
       /\ call[calls[id]].id = id
       /\ call[calls[id]].finalizedStreams < 2
  /\ ~stopped => \A c \in Call :
       Started(c) /\ call[c].finalizedStreams < 2 => calls[call[c].id] = c

(* Only started calls have microtasks, and the value of a waiting microtask *)
(* is among the last obs.tasks values of the stream, in order: the counter  *)
(* cannot run below zero.                                                   *)
TasksMatch ==
  /\ \A k \in 1 .. Len(microtasks) : Started(microtasks[k].of)
  /\ \A k \in 1 .. Len(microtasks) : microtasks[k].kind = "next" =>
       /\ microtasks[k].val <= call[microtasks[k].of].sent
       /\ microtasks[k].val + call[microtasks[k].of].obs.tasks > call[microtasks[k].of].sent
  /\ \A j, k \in 1 .. Len(microtasks) :
       /\ j < k /\ microtasks[j].of = microtasks[k].of
       /\ microtasks[j].kind = "next" /\ microtasks[k].kind = "next"
       => microtasks[j].val < microtasks[k].val

(* Who listens, listens to a call that was made; only the server's end      *)
(* finishes a response, and it closes it for good.                          *)
ListenersOpen ==
  \A c \in Call :
    /\ \A k \in Subscriber : Listening(c, k) => Started(c)
    /\ call[c].resFinalized => call[c].res # "open"
    /\ call[c].res \in {"completed", "errored"} => call[c].resFinalized

ClientInv == TypeOK /\ CallsStarted /\ IdsMatch /\ TasksMatch /\ ListenersOpen

-----------------------------------------------------------------------------
(* Sequences.                                                               *)
LEMMA AppendOne ==
  ASSUME NEW S, NEW s \in Seq(S), NEW e \in S
  PROVE  /\ Append(s, e) \in Seq(S)
         /\ Len(s) \in Nat /\ Len(Append(s, e)) = Len(s) + 1
         /\ \A i \in 1 .. Len(s) : Append(s, e)[i] = s[i]
         /\ Append(s, e)[Len(s) + 1] = e
OBVIOUS

LEMMA TakeOne ==
  ASSUME NEW S, NEW s \in Seq(S), s # <<>>
  PROVE  /\ Head(s) = s[1] /\ Head(s) \in S
         /\ Tail(s) \in Seq(S)
         /\ Len(s) \in Nat \ {0} /\ Len(Tail(s)) = Len(s) - 1
         /\ \A i \in 1 .. Len(Tail(s)) : Tail(s)[i] = s[i + 1]
BY HeadTailProperties, EmptySeq

-----------------------------------------------------------------------------
(* Types of the pieces.                                                     *)
LEMMA ObserverSteps ==
  ASSUME NEW o \in ObserverState
  PROVE  /\ ValueQueued(o) \in ObserverState /\ ValueQueued(o).tasks = o.tasks + 1
         /\ SourceCompleted(o) \in ObserverState /\ SourceCompleted(o).tasks = o.tasks
         /\ o.tasks > 0 => /\ ValueHandled(o) \in ObserverState
                           /\ ValueHandled(o).tasks = o.tasks - 1
         /\ o.tasks \in Nat
<1>1. o.tasks \in Nat /\ o.completeCalled \in BOOLEAN
  BY DEF ObserverState
<1>2. (o.completeCalled \/ IsLastValue(o)) \in BOOLEAN
  OBVIOUS
<1>3. ASSUME o.tasks > 0
      PROVE  ValueHandled(o) \in ObserverState /\ ValueHandled(o).tasks = o.tasks - 1
  <2>1. o.tasks - 1 \in Nat
    BY <1>1, <1>3
  <2>2. ValueHandled(o) \in ObserverState
    BY <1>2, <2>1, Zenon DEF ValueHandled, ObserverState
  <2>3. ValueHandled(o).tasks = o.tasks - 1
    BY DEF ValueHandled, ObserverState
  <2> QED BY <2>2, <2>3
<1>4. ValueQueued(o) \in ObserverState /\ ValueQueued(o).tasks = o.tasks + 1
  BY <1>1 DEF ValueQueued, ObserverState
<1>5. SourceCompleted(o) \in ObserverState /\ SourceCompleted(o).tasks = o.tasks
  BY <1>1 DEF SourceCompleted, ObserverState
<1> QED BY <1>1, <1>3, <1>4, <1>5

(* What no step changes of a call that was made: kind, method and id; and   *)
(* the count of its ended streams, which grows by one at most.              *)
Evolves(old, new) ==
  /\ new.kind = old.kind /\ new.id = old.id
  /\ new.finalizedStreams \in {old.finalizedStreams, old.finalizedStreams + 1}

(* What only the request stream and its microtasks change.                  *)
SameTasks(old, new) == new.sent = old.sent /\ new.obs.tasks = old.obs.tasks

LEMMA CleanupType ==
  ASSUME NEW rec \in CallRecord
  PROVE  /\ Cleanup(rec) \in CallRecord
         /\ Evolves(rec, Cleanup(rec)) /\ SameTasks(rec, Cleanup(rec))
         /\ Cleanup(rec).res = rec.res /\ Cleanup(rec).resFinalized = rec.resFinalized
         /\ Cleanup(rec).finalizedStreams = rec.finalizedStreams + 1
BY DEF CallRecord, Cleanup, Evolves, SameTasks

LEMMA EndResponseType ==
  ASSUME NEW rec \in CallRecord, NEW how \in {"completed", "errored", "left"}
  PROVE  /\ EndResponse(rec, how) \in CallRecord
         /\ Evolves(rec, EndResponse(rec, how)) /\ SameTasks(rec, EndResponse(rec, how))
         /\ EndResponse(rec, how).res # "open"
         /\ EndResponse(rec, how).res = IF rec.res = "open" THEN how ELSE rec.res
         /\ EndResponse(rec, how).resFinalized = rec.resFinalized
BY CleanupType, SMTT(30) DEF CallRecord, EndResponse, Evolves, SameTasks

LEMMA RequestTypeOK ==
  ASSUME NEW rec \in CallRecord, rec.id \in Id, NEW c \in Call, NEW val \in Nat,
         NEW type \in RequestType
  PROVE  Request(type, rec, c, val) \in ClientMessage
BY DEF CallRecord, Request, ClientMessage, RequestType

LEMMA UnsubscribeTypeOK ==
  ASSUME NEW rec \in CallRecord, rec.id \in Id, NEW c \in Call
  PROVE  Unsubscribe(rec, c) \in ClientMessage
BY DEF CallRecord, Unsubscribe, ClientMessage, NoValue

LEMMA IdleTypes == IdleCall \in CallRecord /\ IdleUser \in UserRecord
<1>1. IdleCall \in CallRecord
  BY ClientAssumption DEF IdleCall, CallRecord, NewObserver, ObserverState
<1>2. <<>> \in Seq([val: Nat, of: Call \cup {NoCall}])
  BY EmptySeq
<1> QED BY <1>1, <1>2 DEF IdleUser, UserRecord

(* The buffer.                                                              *)
BufferTypeOK ==
  buf \in Seq(ClientMessage) /\ bufTimer \in BOOLEAN /\ c2s \in Seq(Seq(ClientMessage))

LEMMA PushTypes ==
  ASSUME BufferTypeOK, NEW m \in ClientMessage, PushMessage(m)
  PROVE  BufferTypeOK'
<1>1. Append(buf, m) \in Seq(ClientMessage)
  BY AppendOne DEF BufferTypeOK
<1>2. <<>> \in Seq(ClientMessage)
  BY EmptySeq
<1>3. CASE Buffer!FlushList(Append(buf, m))
  <2>1. c2s' \in Seq(Seq(ClientMessage))
    BY <1>1, <1>3, AppendOne DEF Buffer!FlushList, BufferTypeOK
  <2> QED BY <1>2, <1>3, <2>1 DEF Buffer!FlushList, BufferTypeOK
<1>4. CASE buf' = Append(buf, m) /\ bufTimer' = TRUE /\ c2s' = c2s
  BY <1>1, <1>4 DEF BufferTypeOK
<1>5. CASE UNCHANGED <<buf, bufTimer, c2s>>
  BY <1>5 DEF BufferTypeOK
<1> QED BY <1>3, <1>4, <1>5 DEF PushMessage, Buffer!Push

LEMMA NothingTypes ==
  ASSUME BufferTypeOK, NothingPushed
  PROVE  BufferTypeOK'
BY DEF BufferTypeOK, NothingPushed

LEMMA TimerTypes ==
  ASSUME BufferTypeOK, Buffer!TimerFires
  PROVE  BufferTypeOK'
<1>1. c2s' \in Seq(Seq(ClientMessage))
  BY AppendOne DEF Buffer!TimerFires, Buffer!FlushList, BufferTypeOK
<1>2. <<>> \in Seq(ClientMessage)
  BY EmptySeq
<1> QED BY <1>1, <1>2 DEF Buffer!TimerFires, Buffer!FlushList, BufferTypeOK

-----------------------------------------------------------------------------
(* Steps that replace the record of one call.                               *)

LEMMA IdsKept ==
  ASSUME ClientInv, NEW c \in Call, NEW rec \in CallRecord, Started(c),
         Evolves(call[c], rec), UpdateCall(c, rec), stopped' = stopped
  PROVE  /\ call' \in [Call -> CallRecord] /\ calls' \in [Id -> Call \cup {NoCall}]
         /\ CallsStarted' /\ IdsMatch'
<1>1. /\ call \in [Call -> CallRecord] /\ calls \in [Id -> Call \cup {NoCall}]
      /\ call[c].id \in Id /\ rec.id = call[c].id /\ rec.kind = call[c].kind
      /\ call[c].kind # "idle"
      /\ call[c].finalizedStreams \in Nat /\ rec.finalizedStreams \in Nat
      /\ rec.finalizedStreams \in {call[c].finalizedStreams, call[c].finalizedStreams + 1}
      /\ NoCall \notin Call
  BY MessagesAssumption
    DEF ClientInv, TypeOK, ClientTypeOK, CallsStarted, Evolves, Started, CallRecord
<1>2. /\ call' = [call EXCEPT ![c] = rec] /\ call' \in [Call -> CallRecord]
      /\ call'[c] = rec /\ \A d \in Call : d # c => call'[d] = call[d]
      /\ calls' = IF rec.finalizedStreams = 2 /\ call[c].finalizedStreams # 2
                    THEN [calls EXCEPT ![rec.id] = NoCall] ELSE calls
  BY <1>1 DEF UpdateCall
<1>3. calls' \in [Id -> Call \cup {NoCall}]
  BY <1>1, <1>2
<1>4. CallsStarted'
  BY <1>1, <1>2 DEF ClientInv, CallsStarted, Started
<1>5. ASSUME NEW id \in Id, calls'[id] # NoCall
      PROVE  /\ call'[calls'[id]].kind # "idle" /\ call'[calls'[id]].id = id
             /\ call'[calls'[id]].finalizedStreams < 2
  <2>1. calls'[id] = calls[id]
    BY <1>1, <1>2, <1>5
  <2>2. /\ calls[id] \in Call /\ call[calls[id]].kind # "idle"
        /\ call[calls[id]].id = id /\ call[calls[id]].finalizedStreams < 2
    BY <1>1, <1>5, <2>1 DEF ClientInv, IdsMatch, Started
  <2>3. CASE calls[id] = c
    <3>1. rec.finalizedStreams # 2
      BY <1>1, <1>2, <1>5, <2>2, <2>3
    <3> QED BY <1>1, <1>2, <2>1, <2>2, <2>3, <3>1
  <2>4. CASE calls[id] # c
    BY <1>2, <2>1, <2>2, <2>4
  <2> QED BY <2>3, <2>4
<1>6. ASSUME ~stopped, NEW d \in Call, call'[d].kind # "idle", call'[d].finalizedStreams < 2
      PROVE  calls'[call'[d].id] = d
  <2>1. call[d].kind # "idle" /\ call[d].finalizedStreams < 2 /\ call'[d].id = call[d].id
    BY <1>1, <1>2, <1>6
  <2>2. calls[call[d].id] = d /\ call[d].id \in Id
    BY <1>6, <2>1 DEF ClientInv, IdsMatch, CallsStarted, Started
  <2>3. CASE d = c
    BY <1>1, <1>2, <1>6, <2>1, <2>2, <2>3
  <2>4. CASE d # c
    <3>1. ASSUME rec.finalizedStreams = 2, call[c].finalizedStreams # 2
          PROVE  call[d].id # call[c].id
      <4>1. call[c].finalizedStreams < 2
        BY <1>1, <3>1
      <4>2. calls[call[c].id] = c
        BY <1>1, <1>6, <4>1 DEF ClientInv, IdsMatch, Started
      <4> QED BY <2>2, <2>4, <4>2
    <3>2. call'[d] = call[d]
      BY <1>2, <2>4
    <3>3. CASE rec.finalizedStreams = 2 /\ call[c].finalizedStreams # 2
      <4>1. calls' = [calls EXCEPT ![call[c].id] = NoCall] /\ call[d].id # call[c].id
        BY <1>1, <1>2, <3>1, <3>3
      <4> QED BY <1>1, <2>2, <3>2, <4>1
    <3>4. CASE ~(rec.finalizedStreams = 2 /\ call[c].finalizedStreams # 2)
      BY <1>2, <2>2, <3>2, <3>4
    <3> QED BY <3>3, <3>4
  <2> QED BY <2>3, <2>4
<1>7. IdsMatch'
  BY <1>5, <1>6 DEF IdsMatch, Started
<1> QED BY <1>2, <1>3, <1>4, <1>7

(* How the microtask queue changes in a step that leaves the counters alone.*)
QueueStep(c) ==
  \/ microtasks' = microtasks
  \/ microtasks # <<>> /\ microtasks' = Tail(microtasks)
  \/ \E kind \in {"complete", "error"} :
       microtasks' = Append(microtasks, Task(c, kind, NoValue))

LEMMA TasksKept ==
  ASSUME ClientInv, NEW c \in Call, Started(c), QueueStep(c),
         \A d \in Call : SameTasks(call[d], call'[d]) /\ call'[d].kind = call[d].kind
  PROVE  microtasks' \in Seq(ClientMicrotask) /\ TasksMatch'
<1>1. microtasks \in Seq(ClientMicrotask)
  BY DEF ClientInv, TypeOK, ClientTypeOK
<1>2. \A k \in 1 .. Len(microtasks) : microtasks[k] \in ClientMicrotask
  BY <1>1
<1>3. \A k \in 1 .. Len(microtasks) : microtasks[k].of \in Call
  BY <1>2 DEF ClientMicrotask
<1>4. CASE microtasks' = microtasks
  BY <1>1, <1>3, <1>4 DEF ClientInv, TasksMatch, SameTasks, Started
<1>5. CASE microtasks # <<>> /\ microtasks' = Tail(microtasks)
  <2>1. /\ microtasks' \in Seq(ClientMicrotask)
        /\ Len(microtasks) \in Nat /\ Len(microtasks') = Len(microtasks) - 1
        /\ \A k \in 1 .. Len(microtasks') : microtasks'[k] = microtasks[k + 1]
    BY <1>1, <1>5, TakeOne
  <2>2. \A k \in 1 .. Len(microtasks') : k + 1 \in 1 .. Len(microtasks)
    BY <2>1
  <2>3. ASSUME NEW k \in 1 .. Len(microtasks')
        PROVE  /\ call'[microtasks'[k].of].kind # "idle"
               /\ microtasks'[k].kind = "next" =>
                    /\ microtasks'[k].val <= call'[microtasks'[k].of].sent
                    /\ microtasks'[k].val + call'[microtasks'[k].of].obs.tasks
                         > call'[microtasks'[k].of].sent
    <3>1. k + 1 \in 1 .. Len(microtasks) /\ microtasks'[k] = microtasks[k + 1]
      BY <2>1, <2>2
    <3> QED BY <1>3, <3>1 DEF ClientInv, TasksMatch, SameTasks, Started
  <2>4. ASSUME NEW j \in 1 .. Len(microtasks'), NEW k \in 1 .. Len(microtasks'),
               j < k, microtasks'[j].of = microtasks'[k].of,
               microtasks'[j].kind = "next", microtasks'[k].kind = "next"
        PROVE  microtasks'[j].val < microtasks'[k].val
    <3>1. /\ j + 1 \in 1 .. Len(microtasks) /\ microtasks'[j] = microtasks[j + 1]
          /\ k + 1 \in 1 .. Len(microtasks) /\ microtasks'[k] = microtasks[k + 1]
          /\ j + 1 < k + 1
      BY <2>1, <2>2, <2>4
    <3> QED BY <2>4, <3>1 DEF ClientInv, TasksMatch
  <2> QED BY <2>1, <2>3, <2>4 DEF TasksMatch, Started
<1>6. ASSUME NEW kind \in {"complete", "error"},
             microtasks' = Append(microtasks, Task(c, kind, NoValue))
      PROVE  microtasks' \in Seq(ClientMicrotask) /\ TasksMatch'
  <2> DEFINE t == Task(c, kind, NoValue)
  <2>1. t \in ClientMicrotask /\ t.of = c /\ t.kind # "next"
    BY DEF Task, ClientMicrotask, NoValue
  <2> HIDE DEF t
  <2>2. /\ microtasks' \in Seq(ClientMicrotask)
        /\ Len(microtasks) \in Nat /\ Len(microtasks') = Len(microtasks) + 1
        /\ \A k \in 1 .. Len(microtasks) : microtasks'[k] = microtasks[k]
        /\ microtasks'[Len(microtasks) + 1] = t
    BY <1>1, <1>6, <2>1, AppendOne DEF t
  <2>3. \A k \in 1 .. Len(microtasks') :
          k \in 1 .. Len(microtasks) \/ k = Len(microtasks) + 1
    BY <2>2
  <2> QED BY <1>3, <2>1, <2>2, <2>3, SMTT(30) DEF ClientInv, TasksMatch, SameTasks, Started
<1> QED BY <1>4, <1>5, <1>6 DEF QueueStep

(* Only subscribers of c, a call that was made, notice the step.            *)
UserStep(c) ==
  /\ user' \in [Call -> [Subscriber -> UserRecord]]
  /\ \A d \in Call : d # c => user'[d] = user[d]

(* A step of one call that does not touch the counters of its request       *)
(* stream.                                                                  *)
LEMMA CallStep ==
  ASSUME ClientInv, NEW c \in Call, NEW rec \in CallRecord, Started(c),
         Evolves(call[c], rec), SameTasks(call[c], rec), UpdateCall(c, rec), QueueStep(c),
         rec.resFinalized => rec.res # "open",
         rec.res \in {"completed", "errored"} => rec.resFinalized,
         UserStep(c),
         nextId' = nextId, stopped' = stopped,
         inbox' \in Seq(ServerMessage), s2c' \in Seq(Seq(ServerMessage)), BufferTypeOK'
  PROVE  ClientInv'
<1>1. /\ call' \in [Call -> CallRecord] /\ calls' \in [Id -> Call \cup {NoCall}]
      /\ CallsStarted' /\ IdsMatch'
  BY IdsKept
<1>2. /\ call \in [Call -> CallRecord]
      /\ call'[c] = rec /\ \A d \in Call : d # c => call'[d] = call[d]
  BY DEF UpdateCall, ClientInv, TypeOK, ClientTypeOK
<1>3. \A d \in Call : SameTasks(call[d], call'[d]) /\ call'[d].kind = call[d].kind
  BY <1>2 DEF SameTasks, Evolves
<1>4. microtasks' \in Seq(ClientMicrotask) /\ TasksMatch'
  BY <1>3, TasksKept
<1>5. TypeOK'
  BY <1>1, <1>4 DEF ClientInv, TypeOK, ClientTypeOK, BufferTypeOK, UserStep
<1>6. ListenersOpen'
  <2> SUFFICES ASSUME NEW d \in Call
               PROVE  /\ \A k \in Subscriber :
                           user'[d][k].sub \in {"all", "first"} => call'[d].kind # "idle"
                      /\ call'[d].resFinalized => call'[d].res # "open"
                      /\ call'[d].res \in {"completed", "errored"} => call'[d].resFinalized
    BY DEF ListenersOpen, Listening, Started
  <2>1. CASE d = c
    BY <1>2, <2>1 DEF Evolves, Started
  <2>2. CASE d # c
    BY <1>2, <2>2 DEF ClientInv, ListenersOpen, Listening, Started, UserStep
  <2> QED BY <2>1, <2>2
<1> QED BY <1>1, <1>4, <1>5, <1>6 DEF ClientInv

(* A step that changes no call.                                             *)
LEMMA QuietStep ==
  ASSUME ClientInv, UNCHANGED <<nextId, calls, call, user, microtasks, stopped>>,
         inbox' \in Seq(ServerMessage), s2c' \in Seq(Seq(ServerMessage)), BufferTypeOK'
  PROVE  ClientInv'
<1>1. TypeOK'
  BY DEF ClientInv, TypeOK, ClientTypeOK, BufferTypeOK
<1>2. CallsStarted' /\ IdsMatch'
  BY DEF ClientInv, CallsStarted, IdsMatch, Started
<1>3. TasksMatch' /\ ListenersOpen'
  BY DEF ClientInv, TasksMatch, ListenersOpen, Started, Listening
<1> QED BY <1>1, <1>2, <1>3 DEF ClientInv

-----------------------------------------------------------------------------
(* The request stream.                                                      *)

(* Everything the other invariants look at is as before.                    *)
Alike(old, new) ==
  /\ new.kind = old.kind /\ new.id = old.id /\ new.finalizedStreams = old.finalizedStreams
  /\ new.res = old.res /\ new.resFinalized = old.resFinalized
  /\ SameTasks(old, new)

LEMMA KeepRequestPreserves ==
  ASSUME ClientInv, NEW c \in Call, NEW rec \in CallRecord, Started(c), Alike(call[c], rec),
         call' = [call EXCEPT ![c] = rec], calls' = calls, QueueStep(c), user' = user,
         nextId' = nextId, stopped' = stopped,
         inbox' \in Seq(ServerMessage), s2c' \in Seq(Seq(ServerMessage)), BufferTypeOK'
  PROVE  ClientInv'
<1>1. Evolves(call[c], rec) /\ SameTasks(call[c], rec)
  BY DEF Alike, Evolves
<1>2. UpdateCall(c, rec)
  BY DEF UpdateCall, Alike
<1>3. /\ rec.resFinalized => rec.res # "open"
      /\ rec.res \in {"completed", "errored"} => rec.resFinalized
  BY DEF Alike, ClientInv, ListenersOpen
<1>4. UserStep(c)
  BY DEF ClientInv, TypeOK, ClientTypeOK, UserStep
<1> QED BY <1>1, <1>2, <1>3, <1>4, CallStep

LEMMA EndRequestPreserves ==
  ASSUME ClientInv, NEW c \in Call, NEW rec \in CallRecord, Started(c), Alike(call[c], rec),
         NEW type \in RequestType, NEW val \in Nat, EndRequest(c, rec, type, val),
         QueueStep(c), user' = user, nextId' = nextId, stopped' = stopped,
         inbox' \in Seq(ServerMessage), s2c' \in Seq(Seq(ServerMessage))
  PROVE  ClientInv'
<1> DEFINE new == Cleanup(rec)
<1>1. /\ new \in CallRecord /\ new.res = rec.res /\ new.resFinalized = rec.resFinalized
      /\ Evolves(call[c], new) /\ SameTasks(call[c], new)
  BY CleanupType DEF Alike, Evolves, SameTasks
<1>2. UpdateCall(c, new) /\ PushMessage(Request(type, rec, c, val))
  BY DEF EndRequest
<1>3. rec.id \in Id
  BY DEF ClientInv, CallsStarted, Alike
<1>4. BufferTypeOK'
  BY <1>2, <1>3, RequestTypeOK, PushTypes DEF ClientInv, TypeOK, ClientTypeOK, BufferTypeOK
<1>5. /\ new.resFinalized => new.res # "open"
      /\ new.res \in {"completed", "errored"} => new.resFinalized
      /\ UserStep(c)
  BY <1>1 DEF ClientInv, TypeOK, ClientTypeOK, ListenersOpen, UserStep, Alike
<1> HIDE DEF new
<1> QED BY <1>1, <1>2, <1>4, <1>5, CallStep

LEMMA StreamCallTypes ==
  ASSUME ClientInv, NEW c \in Call, Started(c)
  PROVE  /\ call[c] \in CallRecord /\ call[c].obs \in ObserverState
         /\ call[c].sent \in 0 .. MaxRequestValues
         /\ BufferTypeOK /\ user \in [Call -> [Subscriber -> UserRecord]]
BY DEF ClientInv, TypeOK, ClientTypeOK, CallRecord, BufferTypeOK

LEMMA EndTypes == "RequestComplete" \in RequestType /\ "RequestError" \in RequestType /\ NoValue \in Nat
BY DEF RequestType, NoValue

LEMMA CompleteRequestPreserves ==
  ASSUME ClientInv, NEW c \in Call, Started(c), CompleteRequest(c),
         user' = user, nextId' = nextId, stopped' = stopped,
         inbox' \in Seq(ServerMessage), s2c' \in Seq(Seq(ServerMessage))
  PROVE  ClientInv'
<1> DEFINE rec == [call[c] EXCEPT !.req = "completed", !.obs = SourceCompleted(@)]
<1>1. rec \in CallRecord /\ Alike(call[c], rec)
  BY StreamCallTypes, ObserverSteps DEF CallRecord, Alike, SameTasks
<1> HIDE DEF rec
<1>2. CASE EndRequest(c, rec, "RequestComplete", NoValue) /\ microtasks' = microtasks
  BY <1>1, <1>2, EndTypes, EndRequestPreserves DEF QueueStep
<1>3. CASE /\ microtasks' = Append(microtasks, Task(c, "complete", NoValue))
           /\ call' = [call EXCEPT ![c] = rec] /\ calls' = calls /\ NothingPushed
  BY <1>1, <1>3, StreamCallTypes, NothingTypes, KeepRequestPreserves DEF QueueStep
<1> QED BY <1>2, <1>3 DEF CompleteRequest, rec

LEMMA SourceErrorPreserves ==
  ASSUME ClientInv, NEW c \in Call, SourceError(c)
  PROVE  ClientInv'
<1> DEFINE rec == [call[c] EXCEPT !.req = "errored"]
<1>1. /\ Started(c) /\ user' = user /\ nextId' = nextId /\ stopped' = stopped
      /\ inbox' \in Seq(ServerMessage) /\ s2c' \in Seq(Seq(ServerMessage))
  BY DEF SourceError, StreamOpen, Started, ClientInv, TypeOK, ClientTypeOK
<1>2. rec \in CallRecord /\ Alike(call[c], rec)
  BY <1>1, StreamCallTypes DEF CallRecord, Alike, SameTasks
<1> HIDE DEF rec
<1>3. CASE EndRequest(c, rec, "RequestError", NoValue) /\ microtasks' = microtasks
  BY <1>1, <1>2, <1>3, EndTypes, EndRequestPreserves DEF QueueStep
<1>4. CASE /\ microtasks' = Append(microtasks, Task(c, "error", NoValue))
           /\ call' = [call EXCEPT ![c] = rec] /\ calls' = calls /\ NothingPushed
  BY <1>1, <1>2, <1>4, StreamCallTypes, NothingTypes, KeepRequestPreserves DEF QueueStep
<1> QED BY <1>3, <1>4 DEF SourceError, rec

LEMMA SourceCompletePreserves ==
  ASSUME ClientInv, NEW c \in Call, SourceComplete(c)
  PROVE  ClientInv'
BY CompleteRequestPreserves
  DEF SourceComplete, StreamOpen, Started, ClientInv, TypeOK, ClientTypeOK

LEMMA SourceNextPreserves ==
  ASSUME ClientInv, NEW c \in Call, SourceNext(c)
  PROVE  ClientInv'
<1> DEFINE rec == [call[c] EXCEPT !.sent = @ + 1, !.obs = ValueQueued(@)]
           t == Task(c, "next", call[c].sent + 1)
<1>1. /\ call[c].kind = "stream" /\ Started(c) /\ call[c].sent < MaxRequestValues
      /\ call' = [call EXCEPT ![c] = rec] /\ microtasks' = Append(microtasks, t)
      /\ NothingPushed
      /\ UNCHANGED <<nextId, calls, user, inbox, stopped, s2c>>
  BY DEF SourceNext, StreamOpen, Started
<1>2. /\ rec \in CallRecord /\ rec.kind = call[c].kind /\ rec.id = call[c].id
      /\ rec.finalizedStreams = call[c].finalizedStreams
      /\ rec.res = call[c].res /\ rec.resFinalized = call[c].resFinalized
      /\ call[c].sent \in Nat /\ rec.sent = call[c].sent + 1
      /\ call[c].obs.tasks \in Nat /\ rec.obs.tasks = call[c].obs.tasks + 1
  <2>1. /\ call[c].sent \in Nat /\ call[c].sent + 1 \in 0 .. MaxRequestValues
        /\ call[c].obs.tasks \in Nat /\ ValueQueued(call[c].obs) \in ObserverState
        /\ ValueQueued(call[c].obs).tasks = call[c].obs.tasks + 1
    BY <1>1, StreamCallTypes, ObserverSteps, ClientAssumption, SMTT(30)
  <2>2. call[c] \in CallRecord
    BY <1>1, StreamCallTypes
  <2>3. /\ rec \in CallRecord /\ rec.sent = call[c].sent + 1
        /\ rec.obs = ValueQueued(call[c].obs)
    BY <2>1, <2>2 DEF CallRecord
  <2>4. /\ rec.kind = call[c].kind /\ rec.id = call[c].id
        /\ rec.finalizedStreams = call[c].finalizedStreams
        /\ rec.res = call[c].res /\ rec.resFinalized = call[c].resFinalized
    BY <2>2 DEF CallRecord
  <2> QED BY <2>1, <2>3, <2>4
<1>3. t \in ClientMicrotask /\ t.of = c /\ t.kind = "next" /\ t.val = call[c].sent + 1
  BY <1>2 DEF Task, ClientMicrotask
<1> HIDE DEF rec, t
<1>4. /\ microtasks \in Seq(ClientMicrotask) /\ call \in [Call -> CallRecord]
      /\ \A k \in 1 .. Len(microtasks) : microtasks[k] \in ClientMicrotask
  BY DEF ClientInv, TypeOK, ClientTypeOK
<1>5. /\ call' \in [Call -> CallRecord]
      /\ call'[c] = rec /\ \A d \in Call : d # c => call'[d] = call[d]
  BY <1>1, <1>2, <1>4
<1>6. /\ microtasks' \in Seq(ClientMicrotask)
      /\ Len(microtasks) \in Nat /\ Len(microtasks') = Len(microtasks) + 1
      /\ \A k \in 1 .. Len(microtasks) : microtasks'[k] = microtasks[k]
      /\ microtasks'[Len(microtasks) + 1] = t
  BY <1>1, <1>3, <1>4, AppendOne
<1>7. TypeOK'
  <2>1. BufferTypeOK'
    BY <1>1, StreamCallTypes, NothingTypes
  <2> QED BY <1>1, <1>5, <1>6, <2>1 DEF ClientInv, TypeOK, ClientTypeOK, BufferTypeOK
<1>8. CallsStarted' /\ IdsMatch' /\ ListenersOpen'
  <2>1. \A d \in Call :
          /\ call'[d].kind = call[d].kind /\ call'[d].id = call[d].id
          /\ call'[d].finalizedStreams = call[d].finalizedStreams
          /\ call'[d].res = call[d].res /\ call'[d].resFinalized = call[d].resFinalized
          /\ call[d].kind = "idle" => call'[d] = call[d]
    BY <1>1, <1>2, <1>5
  <2>2. CallsStarted'
    BY <2>1 DEF ClientInv, CallsStarted, Started
  <2>3. IdsMatch'
    BY <1>1, <2>1 DEF ClientInv, TypeOK, ClientTypeOK, IdsMatch, Started
  <2>4. ListenersOpen'
    BY <1>1, <2>1 DEF ClientInv, ListenersOpen, Listening, Started
  <2> QED BY <2>2, <2>3, <2>4
<1>9. TasksMatch'
  <2>1. ASSUME NEW k \in 1 .. Len(microtasks')
        PROVE  /\ call'[microtasks'[k].of].kind # "idle"
               /\ microtasks'[k].kind = "next" =>
                    /\ microtasks'[k].val <= call'[microtasks'[k].of].sent
                    /\ microtasks'[k].val + call'[microtasks'[k].of].obs.tasks
                         > call'[microtasks'[k].of].sent
    <3>1. CASE k = Len(microtasks) + 1
      BY <1>1, <1>2, <1>3, <1>5, <1>6, <3>1, SMTT(30)
    <3>2. CASE k \in 1 .. Len(microtasks)
      <4>1. /\ microtasks'[k] = microtasks[k] /\ microtasks[k].of \in Call
            /\ microtasks[k].val \in Nat
        BY <1>4, <1>6, <3>2 DEF ClientMicrotask
      <4>2. CASE microtasks[k].of = c
        <5>1. /\ microtasks[k].kind = "next" =>
                   /\ microtasks[k].val <= call[c].sent
                   /\ microtasks[k].val + call[c].obs.tasks > call[c].sent
              /\ call'[c].kind # "idle"
          BY <1>1, <1>2, <1>5, <3>2, <4>2 DEF ClientInv, TasksMatch
        <5> QED BY <1>2, <1>5, <4>1, <4>2, <5>1, SMTT(30)
      <4>3. CASE microtasks[k].of # c
        BY <1>5, <3>2, <4>1, <4>3 DEF ClientInv, TasksMatch, Started
      <4> QED BY <4>2, <4>3
    <3> QED BY <1>6, <3>1, <3>2
  <2>2. ASSUME NEW j \in 1 .. Len(microtasks'), NEW k \in 1 .. Len(microtasks'),
               j < k, microtasks'[j].of = microtasks'[k].of,
               microtasks'[j].kind = "next", microtasks'[k].kind = "next"
        PROVE  microtasks'[j].val < microtasks'[k].val
    <3>1. j \in 1 .. Len(microtasks) /\ microtasks'[j] = microtasks[j]
      BY <1>6, <2>2
    <3>2. CASE k = Len(microtasks) + 1
      <4>1. microtasks[j].of = c /\ microtasks[j].kind = "next" /\ microtasks[j].val \in Nat
        BY <1>3, <1>4, <1>6, <2>2, <3>1, <3>2 DEF ClientMicrotask
      <4>2. microtasks[j].val <= call[c].sent
        BY <3>1, <4>1 DEF ClientInv, TasksMatch
      <4> QED BY <1>2, <1>3, <1>6, <3>1, <3>2, <4>1, <4>2
    <3>3. CASE k \in 1 .. Len(microtasks)
      BY <1>6, <2>2, <3>1, <3>3 DEF ClientInv, TasksMatch
    <3> QED BY <1>6, <3>2, <3>3
  <2> QED BY <2>1, <2>2 DEF TasksMatch, Started
<1> QED BY <1>7, <1>8, <1>9 DEF ClientInv

-----------------------------------------------------------------------------
(* A new call.                                                              *)
LEMMA SuccessorIsId ==
  ASSUME NEW id \in Id
  PROVE  Successor(id) \in Id
BY MessagesAssumption DEF Successor, Id

(* The record of a call that has just been made.                            *)
Fresh(rec) ==
  /\ rec \in CallRecord /\ rec.kind # "idle" /\ rec.id \in Id
  /\ rec.finalizedStreams < 2 /\ ~rec.resFinalized /\ rec.res = "open"

LEMMA StartCallPreserves ==
  ASSUME ClientInv, NEW c \in Call, NEW rec, Fresh(rec), StartCall(c, rec), BufferTypeOK'
  PROVE  ClientInv'
<1>1. /\ call[c].kind = "idle" /\ calls[rec.id] = NoCall
      /\ nextId' = Successor(rec.id) /\ calls' = [calls EXCEPT ![rec.id] = c]
      /\ call' = [call EXCEPT ![c] = rec]
      /\ UNCHANGED <<user, microtasks, inbox, stopped, s2c>>
  BY DEF StartCall, FirstFree
<1>2. /\ call \in [Call -> CallRecord] /\ calls \in [Id -> Call \cup {NoCall}]
      /\ microtasks \in Seq(ClientMicrotask)
      /\ \A k \in 1 .. Len(microtasks) : microtasks[k] \in ClientMicrotask
  BY DEF ClientInv, TypeOK, ClientTypeOK
<1>3. /\ call' \in [Call -> CallRecord] /\ call'[c] = rec
      /\ \A d \in Call : d # c => call'[d] = call[d]
      /\ calls' \in [Id -> Call \cup {NoCall}] /\ calls'[rec.id] = c
      /\ \A id \in Id : id # rec.id => calls'[id] = calls[id]
  BY <1>1, <1>2 DEF Fresh
<1>4. TypeOK'
  BY <1>1, <1>3, SuccessorIsId DEF Fresh, ClientInv, TypeOK, ClientTypeOK, BufferTypeOK
<1>5. CallsStarted'
  BY <1>3 DEF ClientInv, CallsStarted, Started, Fresh
<1>6. IdsMatch'
  <2>1. ASSUME NEW id \in Id, calls'[id] # NoCall
        PROVE  /\ call'[calls'[id]].kind # "idle" /\ call'[calls'[id]].id = id
               /\ call'[calls'[id]].finalizedStreams < 2
    <3>1. CASE id = rec.id
      BY <1>3, <3>1 DEF Fresh
    <3>2. CASE id # rec.id
      <4>1. calls'[id] = calls[id] /\ calls[id] \in Call
        BY <1>2, <1>3, <2>1, <3>2
      <4>2. /\ call[calls[id]].kind # "idle" /\ call[calls[id]].id = id
            /\ call[calls[id]].finalizedStreams < 2
        BY <2>1, <4>1 DEF ClientInv, IdsMatch, Started
      <4> QED BY <1>1, <1>3, <4>1, <4>2
    <3> QED BY <3>1, <3>2
  <2>2. ASSUME ~stopped, NEW d \in Call, call'[d].kind # "idle",
               call'[d].finalizedStreams < 2
        PROVE  calls'[call'[d].id] = d
    <3>1. CASE d = c
      BY <1>3, <3>1
    <3>2. CASE d # c
      <4>1. call'[d] = call[d] /\ calls[call[d].id] = d /\ call[d].id \in Id
        BY <1>3, <2>2, <3>2 DEF ClientInv, IdsMatch, CallsStarted, Started
      <4>2. call[d].id # rec.id
        BY <1>1, <4>1, MessagesAssumption
      <4> QED BY <1>3, <4>1, <4>2
    <3> QED BY <3>1, <3>2
  <2> QED BY <1>1, <2>1, <2>2 DEF IdsMatch, Started
<1>7. TasksMatch'
  <2>1. \A k \in 1 .. Len(microtasks) :
          microtasks[k].of \in Call /\ microtasks[k].of # c
    BY <1>1, <1>2 DEF ClientInv, TasksMatch, Started, ClientMicrotask
  <2>2. \A k \in 1 .. Len(microtasks) : call'[microtasks[k].of] = call[microtasks[k].of]
    BY <1>3, <2>1
  <2> QED BY <1>1, <2>2 DEF ClientInv, TasksMatch, Started
<1>8. ListenersOpen'
  BY <1>1, <1>3 DEF ClientInv, ListenersOpen, Listening, Started, Fresh
<1> QED BY <1>4, <1>5, <1>6, <1>7, <1>8 DEF ClientInv

LEMMA CallStreamPreserves ==
  ASSUME ClientInv, NEW c \in Call, NEW id \in Id, NEW m \in Method, CallStream(c, id, m)
  PROVE  ClientInv'
<1> DEFINE rec == [IdleCall EXCEPT !.kind = "stream", !.id = id, !.method = m]
<1>1. Fresh(rec)
  <2>1. /\ rec.kind = "stream" /\ rec.id = id /\ rec.finalizedStreams = 0
        /\ ~rec.resFinalized /\ rec.res = "open"
    BY DEF IdleCall
  <2>2. rec \in CallRecord
    BY IdleTypes DEF CallRecord
  <2> HIDE DEF rec
  <2> QED BY <2>1, <2>2 DEF Fresh
<1>2. BufferTypeOK'
  BY NothingTypes DEF CallStream, ClientInv, TypeOK, ClientTypeOK, BufferTypeOK
<1> HIDE DEF rec
<1> QED BY <1>1, <1>2, StartCallPreserves DEF CallStream, rec

LEMMA CallStaticPreserves ==
  ASSUME ClientInv, NEW c \in Call, NEW id \in Id, NEW m \in Method,
         NEW val \in StaticPayload, CallStatic(c, id, m, val)
  PROVE  ClientInv'
<1> DEFINE rec == [IdleCall EXCEPT !.kind = "static", !.id = id, !.method = m]
           done == [rec EXCEPT !.req = "completed"]
<1>1. /\ done \in CallRecord /\ rec \in CallRecord /\ rec.id = id /\ done.id = id
      /\ done.kind = "static" /\ done.finalizedStreams = 0 /\ ~done.resFinalized
      /\ done.res = "open"
  <2>1. /\ rec.id = id /\ done.id = id /\ done.kind = "static"
        /\ done.finalizedStreams = 0 /\ ~done.resFinalized /\ done.res = "open"
    BY DEF IdleCall
  <2>2. done \in CallRecord /\ rec \in CallRecord
    BY IdleTypes DEF CallRecord
  <2> HIDE DEF rec, done
  <2> QED BY <2>1, <2>2
<1>2. StartCall(c, Cleanup(done)) /\ PushMessage(Request("RequestComplete", rec, c, val))
  BY DEF CallStatic
<1> HIDE DEF done
<1>3. Fresh(Cleanup(done))
  BY <1>1, CleanupType DEF Fresh, Evolves
<1>4. Request("RequestComplete", rec, c, val) \in ClientMessage
  <2> HIDE DEF rec
  <2> QED BY <1>1, EndTypes, ClientAssumption, RequestTypeOK
<1>5. BufferTypeOK'
  BY <1>2, <1>4, PushTypes DEF ClientInv, TypeOK, ClientTypeOK, BufferTypeOK
<1> QED BY <1>2, <1>3, <1>5, StartCallPreserves

-----------------------------------------------------------------------------
(* Microtasks.                                                              *)

LEMMA LaterValue ==
  ASSUME NEW a \in Nat, NEW b \in Nat, NEW n \in Nat, NEW s \in Nat, a + n > s, a < b
  PROVE  b + (n - 1) > s
OBVIOUS

(* The task at the head of the queue handled a value.                       *)
LEMMA ValueHandledPreserves ==
  ASSUME ClientInv, NEW c \in Call, NEW rec \in CallRecord,
         microtasks # <<>>, microtasks' = Tail(microtasks),
         microtasks[1].of = c, microtasks[1].kind = "next",
         Evolves(call[c], rec), UpdateCall(c, rec),
         rec.sent = call[c].sent, rec.obs.tasks = call[c].obs.tasks - 1,
         rec.res = call[c].res, rec.resFinalized = call[c].resFinalized,
         UNCHANGED <<nextId, user, inbox, stopped, s2c>>, BufferTypeOK'
  PROVE  ClientInv'
<1>1. /\ microtasks \in Seq(ClientMicrotask) /\ call \in [Call -> CallRecord]
      /\ microtasks' \in Seq(ClientMicrotask)
      /\ Len(microtasks) \in Nat \ {0} /\ Len(microtasks') = Len(microtasks) - 1
      /\ \A k \in 1 .. Len(microtasks') :
           k + 1 \in 2 .. Len(microtasks) /\ microtasks'[k] = microtasks[k + 1]
  BY TakeOne DEF ClientInv, TypeOK, ClientTypeOK
<1>2. \A k \in 1 .. Len(microtasks) : /\ microtasks[k].of \in Call
                                      /\ microtasks[k].val \in Nat
  <2>1. \A k \in 1 .. Len(microtasks) : microtasks[k] \in ClientMicrotask
    BY <1>1
  <2> QED BY <2>1 DEF ClientMicrotask
<1>3. Started(c)
  BY <1>1 DEF ClientInv, TasksMatch
<1>4. /\ call' \in [Call -> CallRecord] /\ calls' \in [Id -> Call \cup {NoCall}]
      /\ CallsStarted' /\ IdsMatch'
  BY <1>3, IdsKept
<1>5. call'[c] = rec /\ \A d \in Call : d # c => call'[d] = call[d]
  BY <1>1 DEF UpdateCall
<1>6. TypeOK'
  BY <1>1, <1>4 DEF ClientInv, TypeOK, ClientTypeOK, BufferTypeOK
<1>7. ListenersOpen'
  BY <1>5 DEF ClientInv, ListenersOpen, Listening, Started, Evolves
<1>8. TasksMatch'
  <2>1. /\ call[c].sent \in Nat /\ call[c].obs.tasks \in Nat
        /\ call[c].kind # "idle" /\ rec.kind = call[c].kind
    BY <1>1, <1>3, ClientAssumption DEF CallRecord, ObserverState, Started, Evolves
  <2>2. ASSUME NEW k \in 1 .. Len(microtasks')
        PROVE  /\ call'[microtasks'[k].of].kind # "idle"
               /\ microtasks'[k].kind = "next" =>
                    /\ microtasks'[k].val <= call'[microtasks'[k].of].sent
                    /\ microtasks'[k].val + call'[microtasks'[k].of].obs.tasks
                         > call'[microtasks'[k].of].sent
    <3> DEFINE t == microtasks[k + 1]
    <3>1. /\ k + 1 \in 2 .. Len(microtasks) /\ k + 1 \in 1 .. Len(microtasks)
          /\ 1 \in 1 .. Len(microtasks) /\ 1 < k + 1
          /\ microtasks'[k] = t /\ t.of \in Call /\ t.val \in Nat
      BY <1>1, <1>2
    <3>2. /\ call[t.of].kind # "idle"
          /\ t.kind = "next" => /\ t.val <= call[t.of].sent
                                /\ t.val + call[t.of].obs.tasks > call[t.of].sent
      BY <3>1 DEF ClientInv, TasksMatch, Started
    <3>3. CASE t.of # c
      BY <1>5, <3>1, <3>2, <3>3
    <3>4. CASE t.of = c
      <4>1. microtasks[1].val + call[c].obs.tasks > call[c].sent
        BY <3>1 DEF ClientInv, TasksMatch
      <4>2. t.kind = "next" => microtasks[1].val < t.val
        BY <3>1, <3>4 DEF ClientInv, TasksMatch
      <4>3. microtasks[1].val \in Nat
        BY <1>2, <3>1
      <4>4. t.kind = "next" => t.val + (call[c].obs.tasks - 1) > call[c].sent
        BY <2>1, <3>1, <4>1, <4>2, <4>3, LaterValue
      <4>5. /\ call'[t.of] = rec /\ rec.kind # "idle"
            /\ t.kind = "next" => t.val <= rec.sent /\ t.val + rec.obs.tasks > rec.sent
        BY <1>5, <2>1, <3>2, <3>4, <4>4
      <4> QED BY <3>1, <4>5
    <3> QED BY <3>3, <3>4
  <2>3. ASSUME NEW j \in 1 .. Len(microtasks'), NEW k \in 1 .. Len(microtasks'),
               j < k, microtasks'[j].of = microtasks'[k].of,
               microtasks'[j].kind = "next", microtasks'[k].kind = "next"
        PROVE  microtasks'[j].val < microtasks'[k].val
    <3>1. /\ j + 1 \in 1 .. Len(microtasks) /\ microtasks'[j] = microtasks[j + 1]
          /\ k + 1 \in 1 .. Len(microtasks) /\ microtasks'[k] = microtasks[k + 1]
          /\ j + 1 < k + 1
      BY <1>1, <2>3
    <3> QED BY <2>3, <3>1 DEF ClientInv, TasksMatch
  <2> QED BY <2>2, <2>3 DEF TasksMatch, Started
<1> QED BY <1>4, <1>6, <1>7, <1>8 DEF ClientInv

LEMMA ValueTaskPreserves ==
  ASSUME ClientInv, NEW c \in Call, NEW val \in Nat,
         microtasks # <<>>, microtasks' = Tail(microtasks),
         microtasks[1].of = c, microtasks[1].kind = "next", microtasks[1].val = val,
         RequestValueTask(c, val), UNCHANGED <<nextId, user, inbox, stopped, s2c>>
  PROVE  ClientInv'
<1> DEFINE rec == [call[c] EXCEPT !.obs = ValueHandled(@)]
           kept == [rec EXCEPT !.firstMessageSent = TRUE]
           ended == Cleanup(rec)
<1>1. 1 \in 1 .. Len(microtasks)
  BY EmptySeq, TakeOne DEF ClientInv, TypeOK, ClientTypeOK
<1>2. Started(c) /\ val <= call[c].sent /\ val + call[c].obs.tasks > call[c].sent
  BY <1>1 DEF ClientInv, TasksMatch
<1>3. /\ call[c] \in CallRecord /\ call[c].id \in Id /\ BufferTypeOK
      /\ ValueHandled(call[c].obs) \in ObserverState
      /\ ValueHandled(call[c].obs).tasks = call[c].obs.tasks - 1
  <2>1. call[c].obs.tasks \in Nat /\ call[c].sent \in Nat /\ call[c].obs \in ObserverState
    BY <1>2, StreamCallTypes, ObserverSteps, ClientAssumption
  <2>2. call[c].obs.tasks > 0
    BY <1>2, <2>1
  <2> QED BY <1>2, <2>1, <2>2, StreamCallTypes, ObserverSteps DEF ClientInv, CallsStarted
<1>4. /\ rec \in CallRecord /\ rec.obs = ValueHandled(call[c].obs)
      /\ rec.sent = call[c].sent /\ rec.id = call[c].id /\ rec.kind = call[c].kind
      /\ rec.finalizedStreams = call[c].finalizedStreams
      /\ rec.res = call[c].res /\ rec.resFinalized = call[c].resFinalized
  BY <1>3 DEF CallRecord
<1>5. /\ kept \in CallRecord /\ kept.obs = rec.obs
      /\ kept.sent = rec.sent /\ kept.id = rec.id /\ kept.kind = rec.kind
      /\ kept.finalizedStreams = rec.finalizedStreams
      /\ kept.res = rec.res /\ kept.resFinalized = rec.resFinalized
  <2> HIDE DEF rec
  <2> QED BY <1>4 DEF CallRecord
<1>6. CASE EndRequest(c, rec, "RequestComplete", val)
  <2> HIDE DEF rec
  <2>1. UpdateCall(c, ended) /\ PushMessage(Request("RequestComplete", rec, c, val))
    BY <1>6 DEF EndRequest
  <2>2. BufferTypeOK'
    BY <1>3, <1>4, <2>1, EndTypes, RequestTypeOK, PushTypes
  <2>3. /\ ended \in CallRecord /\ Evolves(call[c], ended)
        /\ ended.sent = call[c].sent /\ ended.obs.tasks = call[c].obs.tasks - 1
        /\ ended.res = call[c].res /\ ended.resFinalized = call[c].resFinalized
    BY <1>3, <1>4, CleanupType DEF Evolves, SameTasks
  <2> HIDE DEF ended
  <2> QED BY <2>1, <2>2, <2>3, ValueHandledPreserves
<1>7. CASE /\ call' = [call EXCEPT ![c] = kept] /\ calls' = calls
           /\ PushMessage(Request("RequestData", rec, c, val))
  <2> HIDE DEF rec, kept
  <2>1. BufferTypeOK'
    BY <1>3, <1>4, <1>7, RequestTypeOK, PushTypes DEF RequestType
  <2>2. UpdateCall(c, kept)
    BY <1>4, <1>5, <1>7 DEF UpdateCall
  <2>3. /\ Evolves(call[c], kept) /\ kept.sent = call[c].sent
        /\ kept.obs.tasks = call[c].obs.tasks - 1
        /\ kept.res = call[c].res /\ kept.resFinalized = call[c].resFinalized
    BY <1>3, <1>4, <1>5 DEF Evolves
  <2> QED BY <1>5, <2>1, <2>2, <2>3, ValueHandledPreserves
<1> QED BY <1>6, <1>7 DEF RequestValueTask

LEMMA FinalTaskPreserves ==
  ASSUME ClientInv, NEW c \in Call, NEW kind, Started(c),
         microtasks # <<>>, microtasks' = Tail(microtasks),
         RequestFinalTask(c, kind), UNCHANGED <<nextId, user, inbox, stopped, s2c>>
  PROVE  ClientInv'
<1>1. /\ call[c] \in CallRecord /\ Alike(call[c], call[c]) /\ QueueStep(c)
      /\ inbox' \in Seq(ServerMessage) /\ s2c' \in Seq(Seq(ServerMessage))
      /\ BufferTypeOK
  BY StreamCallTypes DEF Alike, SameTasks, QueueStep, ClientInv, TypeOK, ClientTypeOK
<1>2. CASE NothingPushed /\ UNCHANGED <<call, calls>>
  <2>1. call' = [call EXCEPT ![c] = call[c]] /\ calls' = calls
    BY <1>2 DEF ClientInv, TypeOK, ClientTypeOK
  <2>2. BufferTypeOK'
    BY <1>1, <1>2, NothingTypes
  <2> QED BY <1>1, <2>1, <2>2, KeepRequestPreserves
<1>3. CASE EndRequest(c, call[c], "RequestError", NoValue)
  BY <1>1, <1>3, EndTypes, EndRequestPreserves
<1>4. CASE EndRequest(c, call[c], "RequestComplete", NoValue)
  BY <1>1, <1>4, EndTypes, EndRequestPreserves
<1> QED BY <1>2, <1>3, <1>4 DEF RequestFinalTask

LEMMA MicrotaskPreserves ==
  ASSUME ClientInv, ClientMicrotaskRuns
  PROVE  ClientInv'
<1> DEFINE t == microtasks[1]
<1>1. /\ microtasks # <<>> /\ microtasks' = Tail(microtasks)
      /\ UNCHANGED <<nextId, user, inbox, stopped, s2c>>
  BY DEF ClientMicrotaskRuns
<1>2. t \in ClientMicrotask /\ Head(microtasks) = t /\ Started(t.of)
  <2>1. 1 \in 1 .. Len(microtasks) /\ t \in ClientMicrotask /\ Head(microtasks) = t
    BY <1>1, TakeOne DEF ClientInv, TypeOK, ClientTypeOK
  <2> QED BY <2>1 DEF ClientInv, TasksMatch
<1>3. t.of \in Call /\ t.val \in Nat
  BY <1>2 DEF ClientMicrotask
<1>4. CASE t.kind = "next" /\ RequestValueTask(t.of, t.val)
  BY <1>1, <1>3, <1>4, ValueTaskPreserves
<1>5. CASE t.kind # "next" /\ RequestFinalTask(t.of, t.kind)
  BY <1>1, <1>2, <1>3, <1>5, FinalTaskPreserves
<1> QED BY <1>2, <1>4, <1>5 DEF ClientMicrotaskRuns

-----------------------------------------------------------------------------
(* The response and its subscribers.                                        *)
Got == [val: Nat, of: Call \cup {NoCall}]

LEMMA EndedTypes ==
  ASSUME NEW u \in UserRecord, NEW how
  PROVE  /\ Ended(u, how) \in UserRecord
         /\ Ended(u, how).sub = "done" /\ Ended(u, how).got = u.got
<1> DEFINE G == Seq([val: Nat, of: Call \cup {NoCall}])
<1>1. UserRecord = [sub: {"none", "all", "first", "done"}, got: G,
        outcome: {"none", "completed", "errored", "unsubscribed", "resolved"}]
  BY DEF UserRecord
<1> HIDE DEF G
<1> QED BY <1>1 DEF Ended

LEMMA HearsTypes ==
  ASSUME NEW u \in UserRecord, NEW m \in ServerMessage, NEW leaves \in BOOLEAN
  PROVE  /\ Hears(u, m, leaves) \in UserRecord
         /\ Hears(u, m, leaves).got = Append(u.got, [val |-> m.val, of |-> m.of])
         /\ Hears(u, m, leaves).sub = IF leaves THEN "done" ELSE u.sub
<1> DEFINE got == Append(u.got, [val |-> m.val, of |-> m.of])
<1>1. UserRecord = [sub: {"none", "all", "first", "done"}, got: Seq(Got),
        outcome: {"none", "completed", "errored", "unsubscribed", "resolved"}]
  BY DEF UserRecord, Got
<1>2. got \in Seq(Got)
  <2>1. [val |-> m.val, of |-> m.of] \in Got
    BY DEF ServerMessage, Got
  <2>2. u.got \in Seq(Got)
    BY <1>1
  <2> QED BY <2>1, <2>2, AppendOne
<1>3. Hears(u, m, leaves).got = got
  BY DEF Hears
<1>4. Hears(u, m, leaves) \in UserRecord
  <2> HIDE DEF got
  <2>1. Hears(u, m, leaves) =
          [sub |-> IF leaves THEN "done" ELSE u.sub, got |-> got,
           outcome |-> IF ~leaves THEN u.outcome
                       ELSE IF u.sub = "first" THEN "resolved" ELSE "unsubscribed"]
    BY DEF Hears, got
  <2> QED BY <1>1, <1>2, <2>1
<1> QED BY <1>3, <1>4 DEF Hears

LEMMA TeardownTypes ==
  ASSUME ClientInv, NEW c \in Call, NEW rec \in CallRecord, rec.id \in Id,
         TeardownMessage(c, rec)
  PROVE  BufferTypeOK'
BY UnsubscribeTypeOK, PushTypes, NothingTypes
  DEF TeardownMessage, ClientInv, TypeOK, ClientTypeOK, BufferTypeOK

(* A step that ends the response, if it is still open.                      *)
LEMMA EndResponsePreserves ==
  ASSUME ClientInv, NEW c \in Call, NEW rec \in CallRecord, Started(c),
         rec.kind = call[c].kind, rec.id = call[c].id,
         rec.finalizedStreams = call[c].finalizedStreams, SameTasks(call[c], rec),
         rec.res = call[c].res, call[c].resFinalized => rec.resFinalized,
         NEW how \in {"completed", "errored", "left"}, how = "left" \/ rec.resFinalized,
         UpdateCall(c, EndResponse(rec, how)),
         UserStep(c),
         microtasks' = microtasks, nextId' = nextId, stopped' = stopped,
         inbox' \in Seq(ServerMessage), s2c' \in Seq(Seq(ServerMessage)), BufferTypeOK'
  PROVE  ClientInv'
<1> DEFINE new == EndResponse(rec, how)
<1>1. /\ new \in CallRecord /\ Evolves(rec, new) /\ SameTasks(rec, new)
      /\ new.res # "open" /\ new.res = IF rec.res = "open" THEN how ELSE rec.res
      /\ new.resFinalized = rec.resFinalized
  BY EndResponseType
<1>2. UpdateCall(c, new)
  OBVIOUS
<1> HIDE DEF new
<1>3. Evolves(call[c], new) /\ SameTasks(call[c], new)
  BY <1>1 DEF Evolves, SameTasks
<1>4. QueueStep(c)
  BY DEF QueueStep
<1>5. new.res \in {"completed", "errored"} => new.resFinalized
  BY <1>1 DEF ClientInv, ListenersOpen
<1> QED BY <1>1, <1>2, <1>3, <1>4, <1>5, CallStep

(* The teardown of one of c's subscriptions.                                *)
LEMMA TeardownPreserves ==
  ASSUME ClientInv, NEW c \in Call, Started(c), Teardown(c, call[c]), UserStep(c),
         microtasks' = microtasks, nextId' = nextId, stopped' = stopped,
         inbox' \in Seq(ServerMessage), s2c' \in Seq(Seq(ServerMessage))
  PROVE  ClientInv'
<1>1. /\ call[c] \in CallRecord /\ call[c].id \in Id
      /\ UpdateCall(c, EndResponse(call[c], "left")) /\ TeardownMessage(c, call[c])
  BY StreamCallTypes DEF ClientInv, CallsStarted, Teardown
<1>2. BufferTypeOK' /\ SameTasks(call[c], call[c])
  BY <1>1, TeardownTypes DEF SameTasks
<1> QED BY <1>1, <1>2, EndResponsePreserves

(* A step after which the call is as before.                                *)
LEMMA SameCallPreserves ==
  ASSUME ClientInv, NEW c \in Call, Started(c),
         UNCHANGED <<nextId, calls, call, microtasks, stopped>>, UserStep(c),
         inbox' \in Seq(ServerMessage), s2c' \in Seq(Seq(ServerMessage)), BufferTypeOK'
  PROVE  ClientInv'
<1>1. TypeOK'
  BY DEF ClientInv, TypeOK, ClientTypeOK, BufferTypeOK, UserStep
<1>2. CallsStarted' /\ IdsMatch'
  BY DEF ClientInv, CallsStarted, IdsMatch, Started
<1>3. TasksMatch' /\ ListenersOpen'
  BY DEF ClientInv, TasksMatch, ListenersOpen, Started, Listening, UserStep
<1> QED BY <1>1, <1>2, <1>3 DEF ClientInv

(* A step that changes one subscription.                                    *)
Becomes(c, k, u) == user' = [user EXCEPT ![c][k] = u]

LEMMA OneSubscriber ==
  ASSUME ClientInv, NEW c \in Call, NEW k \in Subscriber, NEW u \in UserRecord,
         Becomes(c, k, u)
  PROVE  /\ UserStep(c)
         /\ user'[c][k] = u /\ \A j \in Subscriber : j # k => user'[c][j] = user[c][j]
BY DEF Becomes, UserStep, ClientInv, TypeOK, ClientTypeOK

(* How a subscription may start and end without a message.                  *)
LEMMA SubscriptionTypes ==
  ASSUME NEW u \in UserRecord, NEW mode \in {"all", "first"}
  PROVE  /\ [u EXCEPT !.sub = mode] \in UserRecord
         /\ [u EXCEPT !.sub = mode].sub = mode /\ [u EXCEPT !.sub = mode].got = u.got
         /\ [u EXCEPT !.sub = "done", !.outcome = "unsubscribed"] \in UserRecord
         /\ [u EXCEPT !.sub = "done", !.outcome = "unsubscribed"].sub = "done"
         /\ [u EXCEPT !.sub = "done", !.outcome = "unsubscribed"].got = u.got
<1> DEFINE G == Seq([val: Nat, of: Call \cup {NoCall}])
<1>1. UserRecord = [sub: {"none", "all", "first", "done"}, got: G,
        outcome: {"none", "completed", "errored", "unsubscribed", "resolved"}]
  BY DEF UserRecord
<1> HIDE DEF G
<1> QED BY <1>1

(* What a subscriber's step does to its subscription, and to the call.      *)
SubscriptionEnds(c, k) ==
  /\ Started(c) /\ Teardown(c, call[c])
  /\ user[c][k].sub # "done"
  /\ \E u \in UserRecord :
       /\ u.sub = "done" /\ u.got = user[c][k].got
       /\ Becomes(c, k, u)
  /\ UNCHANGED <<nextId, microtasks, inbox, stopped, s2c>>

SubscriptionStarts(c, k) ==
  /\ Started(c) /\ NothingPushed
  /\ \E u \in UserRecord :
       /\ u.sub # "done" /\ u.got = user[c][k].got
       /\ Becomes(c, k, u)
  /\ UNCHANGED <<nextId, calls, call, microtasks, inbox, stopped, s2c>>

LEMMA SubscriberSteps ==
  ASSUME ClientInv, NEW c \in Call, NEW k \in Subscriber
  PROVE  /\ \A mode \in SubscribeMode :
              Subscribe(c, k, mode) => SubscriptionStarts(c, k) \/ SubscriptionEnds(c, k)
         /\ UserUnsubscribes(c, k) => SubscriptionEnds(c, k)
         /\ SubscriberTold(c, k) => SubscriptionEnds(c, k)
<1>1. /\ user \in [Call -> [Subscriber -> UserRecord]] /\ user[c][k] \in UserRecord
      /\ Listening(c, k) => Started(c) /\ user[c][k].sub # "done"
  BY DEF ClientInv, TypeOK, ClientTypeOK, ListenersOpen, Listening
<1>2. ASSUME NEW mode \in SubscribeMode, Subscribe(c, k, mode)
      PROVE  SubscriptionStarts(c, k) \/ SubscriptionEnds(c, k)
  <2> DEFINE u == [user[c][k] EXCEPT !.sub = mode]
  <2>1. u \in UserRecord /\ u.sub = mode /\ u.got = user[c][k].got /\ mode # "done"
    BY <1>1, ClientAssumption, SubscriptionTypes
  <2>2. Started(c) /\ user[c][k].sub = "none"
    BY <1>2 DEF Subscribe, Started
  <2>3. CASE user' = [user EXCEPT ![c][k].sub = mode] /\ NothingPushed /\ UNCHANGED <<calls, call>>
    <3>1. Becomes(c, k, u)
      BY <1>1, <2>3 DEF Becomes
    <3> HIDE DEF u
    <3> QED BY <1>2, <2>1, <2>2, <2>3, <3>1 DEF Subscribe, SubscriptionStarts
  <2>4. CASE user' = [user EXCEPT ![c][k] = Ended([@ EXCEPT !.sub = mode], call[c].res)]
             /\ Teardown(c, call[c])
    <3>1. Becomes(c, k, Ended(u, call[c].res))
      BY <1>1, <2>4 DEF Becomes
    <3> HIDE DEF u
    <3>2. /\ Ended(u, call[c].res) \in UserRecord /\ Ended(u, call[c].res).sub = "done"
          /\ Ended(u, call[c].res).got = user[c][k].got
      BY <2>1, EndedTypes
    <3> QED BY <1>2, <2>2, <2>4, <3>1, <3>2 DEF Subscribe, SubscriptionEnds
  <2> QED BY <1>2, <2>3, <2>4 DEF Subscribe
<1>3. ASSUME UserUnsubscribes(c, k)
      PROVE  SubscriptionEnds(c, k)
  <2> DEFINE u == [user[c][k] EXCEPT !.sub = "done", !.outcome = "unsubscribed"]
  <2>1. u \in UserRecord /\ u.sub = "done" /\ u.got = user[c][k].got
    BY <1>1, SubscriptionTypes
  <2>2. Becomes(c, k, u)
    BY <1>1, <1>3 DEF UserUnsubscribes, Becomes
  <2> HIDE DEF u
  <2> QED BY <1>1, <1>3, <2>1, <2>2 DEF UserUnsubscribes, SubscriptionEnds, Listening
<1>4. ASSUME SubscriberTold(c, k)
      PROVE  SubscriptionEnds(c, k)
  <2>1. /\ Ended(user[c][k], call[c].res) \in UserRecord
        /\ Ended(user[c][k], call[c].res).sub = "done"
        /\ Ended(user[c][k], call[c].res).got = user[c][k].got
    BY <1>1, EndedTypes
  <2> QED BY <1>1, <1>4, <2>1 DEF SubscriberTold, SubscriptionEnds, Becomes
<1> QED BY <1>2, <1>3, <1>4

LEMMA SubscriptionPreserves ==
  ASSUME ClientInv, NEW c \in Call, NEW k \in Subscriber,
         SubscriptionStarts(c, k) \/ SubscriptionEnds(c, k)
  PROVE  ClientInv'
<1>1. /\ Started(c) /\ UserStep(c)
      /\ UNCHANGED <<nextId, microtasks, inbox, stopped, s2c>>
      /\ inbox' \in Seq(ServerMessage) /\ s2c' \in Seq(Seq(ServerMessage))
  <2>1. PICK u \in UserRecord : Becomes(c, k, u)
    BY DEF SubscriptionStarts, SubscriptionEnds
  <2>2. UserStep(c)
    BY <2>1, OneSubscriber
  <2> QED BY <2>2
    DEF SubscriptionStarts, SubscriptionEnds, ClientInv, TypeOK, ClientTypeOK
<1>2. CASE SubscriptionStarts(c, k)
  <2>1. BufferTypeOK' /\ UNCHANGED <<calls, call>>
    BY <1>1, <1>2, StreamCallTypes, NothingTypes DEF SubscriptionStarts
  <2> QED BY <1>1, <2>1, SameCallPreserves
<1>3. CASE SubscriptionEnds(c, k)
  BY <1>1, <1>3, TeardownPreserves DEF SubscriptionEnds
<1> QED BY <1>2, <1>3

-----------------------------------------------------------------------------
(* Messages from the server.                                                *)

(* What a step of onMessage leaves alone, whatever the message.             *)
Receiving ==
  /\ UNCHANGED <<nextId, stopped, s2c>>
  /\ inbox' \in Seq(ServerMessage) /\ s2c' \in Seq(Seq(ServerMessage))

(* What handing out a value does to the subscriptions.                      *)
LEMMA HandOutTypes ==
  ASSUME ClientInv, NEW c \in Call, NEW m \in ServerMessage, NEW f \in MayLeaveWith(c),
         HandOut(c, m, f)
  PROVE  /\ UserStep(c)
         /\ \A k \in Subscriber :
              /\ \/ user'[c][k].got = user[c][k].got
                 \/ user'[c][k].got = Append(user[c][k].got, [val |-> m.val, of |-> m.of])
              /\ user[c][k].sub # "done" /\ user'[c][k].sub = "done" => k = f
         /\ f # 0 => f \in Subscriber /\ user[c][f].sub # "done" /\ user'[c][f].sub = "done"
<1> DEFINE new == [k \in Subscriber |-> IF Listening(c, k) /\ (f = 0 \/ k <= f)
                            THEN Hears(user[c][k], m, k = f) ELSE user[c][k]]
<1>1. user \in [Call -> [Subscriber -> UserRecord]] /\ user' = [user EXCEPT ![c] = new]
  BY DEF HandOut, ClientInv, TypeOK, ClientTypeOK
<1>2. ASSUME NEW k \in Subscriber
      PROVE  /\ new[k] \in UserRecord
             /\ \/ new[k].got = user[c][k].got
                \/ new[k].got = Append(user[c][k].got, [val |-> m.val, of |-> m.of])
             /\ user[c][k].sub # "done" /\ new[k].sub = "done" => k = f
             /\ Listening(c, k) /\ k = f => new[k].sub = "done"
  <2>1. user[c][k] \in UserRecord /\ (k = f) \in BOOLEAN
    BY <1>1
  <2>2. /\ Hears(user[c][k], m, k = f) \in UserRecord
        /\ Hears(user[c][k], m, k = f).got
             = Append(user[c][k].got, [val |-> m.val, of |-> m.of])
        /\ Hears(user[c][k], m, k = f).sub = IF k = f THEN "done" ELSE user[c][k].sub
    BY <2>1, HearsTypes
  <2>3. k <= k
    BY DEF Subscriber
  <2> QED BY <2>1, <2>2, <2>3
<1>3. new \in [Subscriber -> UserRecord]
  BY <1>2
<1> HIDE DEF new
<1>4. user'[c] = new /\ \A d \in Call : d # c => user'[d] = user[d]
  BY <1>1
<1>5. UserStep(c)
  BY <1>1, <1>3, <1>4 DEF UserStep
<1>6. f # 0 => f \in Subscriber /\ Listening(c, f)
  BY DEF MayLeaveWith
<1> QED BY <1>2, <1>4, <1>5, <1>6 DEF Listening

LEMMA ResponseDataPreserves ==
  ASSUME ClientInv, NEW c \in Call, Started(c), NEW m \in ServerMessage,
         OnResponseData(c, m), Receiving
  PROVE  ClientInv'
<1>1. BufferTypeOK /\ microtasks' = microtasks
  BY StreamCallTypes DEF OnResponseData
<1>2. CASE NothingPushed /\ UNCHANGED <<calls, call, user>>
  <2>1. BufferTypeOK'
    BY <1>1, <1>2, NothingTypes
  <2> QED BY <1>1, <1>2, <2>1, QuietStep DEF Receiving
<1>3. ASSUME NEW f \in MayLeaveWith(c), HandOut(c, m, f),
             \/ NothingPushed /\ UNCHANGED <<calls, call>>
             \/ Teardown(c, call[c])
      PROVE  ClientInv'
  <2>1. UserStep(c)
    BY <1>3, HandOutTypes
  <2>2. CASE NothingPushed /\ UNCHANGED <<calls, call>>
    <3>1. BufferTypeOK'
      BY <1>1, <2>2, NothingTypes
    <3> QED BY <1>1, <2>1, <2>2, <3>1, SameCallPreserves DEF Receiving
  <2>3. CASE Teardown(c, call[c])
    BY <1>1, <2>1, <2>3, TeardownPreserves DEF Receiving
  <2> QED BY <1>3, <2>2, <2>3
<1> QED BY <1>2, <1>3 DEF OnResponseData

LEMMA FinalizePreserves ==
  ASSUME ClientInv, NEW c \in Call, Started(c), NEW how \in {"completed", "errored", "left"},
         Finalize(c, how), UserStep(c), Receiving
  PROVE  ClientInv'
<1> DEFINE rec == [call[c] EXCEPT !.resFinalized = TRUE]
<1>1. call[c] \in CallRecord /\ BufferTypeOK
  BY StreamCallTypes
<1>2. /\ rec \in CallRecord /\ rec.kind = call[c].kind /\ rec.id = call[c].id
      /\ rec.finalizedStreams = call[c].finalizedStreams /\ SameTasks(call[c], rec)
      /\ rec.res = call[c].res /\ rec.resFinalized
  BY <1>1 DEF CallRecord, SameTasks
<1>3. UpdateCall(c, EndResponse(rec, how)) /\ microtasks' = microtasks /\ NothingPushed
  BY DEF Finalize
<1> HIDE DEF rec
<1>4. BufferTypeOK'
  BY <1>1, <1>3, NothingTypes
<1> QED BY <1>2, <1>3, <1>4, EndResponsePreserves DEF Receiving

(* The server's end of a response, with or without a last value.            *)
LEMMA EndOfResponse ==
  ASSUME ClientInv, NEW c \in Call, NEW m \in ServerMessage,
         OnResponseComplete(c, m) \/ OnResponseError(c, m)
  PROVE  /\ UserStep(c)
         /\ \E how \in {"completed", "errored", "left"} : Finalize(c, how)
         /\ \A k \in Subscriber :
              \/ user'[c][k].got = user[c][k].got
              \/ user'[c][k].got = Append(user[c][k].got, [val |-> m.val, of |-> m.of])
<1>1. CASE user' = user /\ \E how \in {"completed", "errored"} : Finalize(c, how)
  BY <1>1 DEF UserStep, ClientInv, TypeOK, ClientTypeOK
<1>2. CASE \E f \in MayLeaveWith(c) :
             HandOut(c, m, f) /\ Finalize(c, IF f = 0 THEN "completed" ELSE "left")
  <2>1. PICK f \in MayLeaveWith(c) :
          HandOut(c, m, f) /\ Finalize(c, IF f = 0 THEN "completed" ELSE "left")
    BY <1>2
  <2>2. \E how \in {"completed", "errored", "left"} : Finalize(c, how)
    BY <2>1
  <2> QED BY <2>1, <2>2, HandOutTypes
<1> QED BY <1>1, <1>2 DEF OnResponseComplete, OnResponseError

LEMMA OnMessagePreserves ==
  ASSUME ClientInv, ClientOnMessage
  PROVE  ClientInv'
<1> DEFINE m == inbox[1]
           c == calls[m.id]
<1>1. /\ inbox # <<>> /\ inbox' = Tail(inbox) /\ UNCHANGED <<nextId, stopped, s2c>>
  BY DEF ClientOnMessage
<1>2. /\ m \in ServerMessage /\ m = Head(inbox) /\ Receiving
  BY <1>1, TakeOne DEF Receiving, ClientInv, TypeOK, ClientTypeOK
<1>3. c \in Call \cup {NoCall}
  BY <1>2 DEF ServerMessage, ClientInv, TypeOK, ClientTypeOK
<1>4. CASE c = NoCall /\ NothingPushed /\ UNCHANGED <<calls, call, user, microtasks>>
  <2>1. BufferTypeOK'
    BY <1>4, NothingTypes DEF ClientInv, TypeOK, ClientTypeOK, BufferTypeOK
  <2> QED BY <1>2, <1>4, <2>1, QuietStep DEF Receiving
<1>5. CASE c # NoCall
  <2>1. c \in Call /\ Started(c)
    BY <1>2, <1>3, <1>5 DEF ServerMessage, ClientInv, IdsMatch
  <2> HIDE DEF c
  <2>3. CASE OnResponseData(c, m)
    BY <1>2, <2>1, <2>3, ResponseDataPreserves
  <2>4. CASE OnResponseComplete(c, m) \/ OnResponseError(c, m)
    BY <1>2, <2>1, <2>4, EndOfResponse, FinalizePreserves
  <2>6. CASE OnRequestUnsubscribe(c, m)
    <3>1. CASE CompleteRequest(c)
      BY <1>2, <2>1, <2>6, <3>1, CompleteRequestPreserves
        DEF OnRequestUnsubscribe, Receiving
    <3>2. CASE NothingPushed /\ UNCHANGED <<calls, call, microtasks>>
      <4>1. BufferTypeOK' /\ user' = user
        BY <2>6, <3>2, NothingTypes
          DEF OnRequestUnsubscribe, ClientInv, TypeOK, ClientTypeOK, BufferTypeOK
      <4> QED BY <1>2, <3>2, <4>1, QuietStep DEF Receiving
    <3> QED BY <2>6, <3>1, <3>2 DEF OnRequestUnsubscribe
  <2> QED BY <1>2, <1>5, <2>3, <2>4, <2>6 DEF ClientOnMessage, c
<1> QED BY <1>2, <1>4, <1>5 DEF ClientOnMessage

-----------------------------------------------------------------------------
(* Batches, timers and stop().                                              *)
LEMMA TransportPreserves ==
  ASSUME ClientInv, ClientReceivesBatch \/ ClientTimerFires \/ ServerSends \/ ServerTakes
  PROVE  ClientInv'
<1>1. /\ BufferTypeOK /\ inbox \in Seq(ServerMessage) /\ s2c \in Seq(Seq(ServerMessage))
  BY DEF ClientInv, TypeOK, ClientTypeOK, BufferTypeOK
<1>2. CASE ClientReceivesBatch
  <2>1. inbox' \in Seq(ServerMessage) /\ s2c' \in Seq(Seq(ServerMessage))
    BY <1>1, <1>2, TakeOne DEF ClientReceivesBatch
  <2>2. BufferTypeOK'
    BY <1>1, <1>2, NothingTypes DEF ClientReceivesBatch
  <2> QED BY <1>2, <2>1, <2>2, QuietStep DEF ClientReceivesBatch
<1>3. CASE ClientTimerFires
  <2>1. BufferTypeOK'
    BY <1>1, <1>3, TimerTypes DEF ClientTimerFires
  <2> QED BY <1>1, <1>3, <2>1, QuietStep DEF ClientTimerFires
<1>4. CASE ServerSends
  <2>1. PICK batch \in ServerBatch : s2c' = <<batch>>
    BY <1>4 DEF ServerSends
  <2>2. batch \in Seq(ServerMessage)
    BY ServerBatchAssumption
  <2>3. s2c' \in Seq(Seq(ServerMessage))
    BY <2>1, <2>2
  <2> QED BY <1>1, <1>4, <2>3, QuietStep DEF ServerSends, clientVars, BufferTypeOK
<1>5. CASE ServerTakes
  <2>1. c2s' \in Seq(Seq(ClientMessage))
    BY <1>1, <1>5, TakeOne DEF ServerTakes, BufferTypeOK
  <2> QED BY <1>1, <1>5, <2>1, QuietStep DEF ServerTakes, BufferTypeOK
<1> QED BY <1>2, <1>3, <1>4, <1>5

LEMMA StopPreserves ==
  ASSUME ClientInv, Stop
  PROVE  ClientInv'
<1>1. /\ call \in [Call -> CallRecord] /\ stopped' = TRUE
      /\ calls' = [id \in Id |-> NoCall]
      /\ call' = [c \in Call |-> IF StreamOpen(c) THEN [call[c] EXCEPT !.req = "errored"]
                                                  ELSE call[c]]
      /\ buf' = <<>> /\ bufTimer' = FALSE /\ microtasks' = <<>>
      /\ UNCHANGED <<nextId, user, inbox, c2s, s2c>>
  BY DEF Stop, ClientInv, TypeOK, ClientTypeOK
<1>2. ASSUME NEW c \in Call
      PROVE  /\ call'[c] \in CallRecord
             /\ call'[c].kind = call[c].kind /\ call'[c].id = call[c].id
             /\ call'[c].res = call[c].res /\ call'[c].resFinalized = call[c].resFinalized
             /\ call[c].kind = "idle" => call'[c] = call[c]
  <2>1. call'[c] = call[c] \/ (StreamOpen(c) /\ call'[c] = [call[c] EXCEPT !.req = "errored"])
    BY <1>1
  <2>2. call[c] \in CallRecord /\ (StreamOpen(c) => call[c].kind = "stream")
    BY <1>1 DEF StreamOpen
  <2>3. CASE call'[c] = call[c]
    BY <2>2, <2>3
  <2>4. CASE StreamOpen(c) /\ call'[c] = [call[c] EXCEPT !.req = "errored"]
    <3> DEFINE old == call[c]
               new == [old EXCEPT !.req = "errored"]
    <3>1. old \in CallRecord /\ old.kind = "stream" /\ call'[c] = new
      BY <2>2, <2>4
    <3> HIDE DEF old
    <3>2. /\ new.kind = old.kind /\ new.id = old.id
          /\ new.res = old.res /\ new.resFinalized = old.resFinalized
      BY <3>1 DEF CallRecord
    <3>3. new \in CallRecord
      BY <3>1 DEF CallRecord
    <3> HIDE DEF new
    <3>4. QED BY <3>1, <3>2, <3>3 DEF old
  <2> QED BY <2>1, <2>3, <2>4
<1>3. TypeOK'
  <2>1. buf' \in Seq(ClientMessage) /\ microtasks' \in Seq(ClientMicrotask)
    BY <1>1, EmptySeq
  <2>2. call' \in [Call -> CallRecord] /\ calls' \in [Id -> Call \cup {NoCall}]
    BY <1>1, <1>2
  <2> QED BY <1>1, <2>1, <2>2 DEF ClientInv, TypeOK, ClientTypeOK
<1>4. CallsStarted' /\ ListenersOpen'
  BY <1>1, <1>2 DEF ClientInv, CallsStarted, ListenersOpen, Listening, Started
<1>5. IdsMatch'
  BY <1>1 DEF IdsMatch
<1>6. TasksMatch'
  <2>1. 1 .. Len(microtasks') = {}
    BY <1>1, EmptySeq
  <2> QED BY <2>1 DEF TasksMatch
<1> QED BY <1>3, <1>4, <1>5, <1>6 DEF ClientInv

LEMMA InitInv ==
  ASSUME Init
  PROVE  ClientInv
<1>1. /\ nextId = 1 /\ calls = [id \in Id |-> NoCall]
      /\ call = [c \in Call |-> IdleCall]
      /\ user = [c \in Call |-> [k \in Subscriber |-> IdleUser]]
      /\ microtasks = <<>> /\ inbox = <<>> /\ stopped = FALSE /\ s2c = <<>>
      /\ buf = <<>> /\ bufTimer = FALSE /\ c2s = <<>>
  BY DEF Init, ClientInit, Buffer!QueueInit
<1>2. TypeOK
  <2>1. /\ microtasks \in Seq(ClientMicrotask) /\ inbox \in Seq(ServerMessage)
        /\ s2c \in Seq(Seq(ServerMessage)) /\ buf \in Seq(ClientMessage)
        /\ c2s \in Seq(Seq(ClientMessage))
    BY <1>1, EmptySeq
  <2>2. 1 \in Id
    BY MessagesAssumption DEF Id
  <2> QED BY <1>1, <2>1, <2>2, IdleTypes DEF TypeOK, ClientTypeOK
<1>3. \A c \in Call : /\ call[c] = IdleCall /\ call[c].kind = "idle"
                      /\ ~call[c].resFinalized /\ call[c].res = "open"
                      /\ \A k \in Subscriber : user[c][k].sub = "none"
  BY <1>1 DEF IdleCall, IdleUser
<1>4. 1 .. Len(microtasks) = {}
  BY <1>1, EmptySeq
<1>5. CallsStarted /\ ListenersOpen
  BY <1>3 DEF CallsStarted, ListenersOpen, Started, Listening
<1>6. IdsMatch
  BY <1>1, <1>3 DEF IdsMatch, Started
<1>7. TasksMatch
  BY <1>4 DEF TasksMatch
<1> QED BY <1>2, <1>5, <1>6, <1>7 DEF ClientInv

-----------------------------------------------------------------------------
(* What a step may push.                                                    *)
BufferQuiet ==
  \/ NothingPushed
  \/ ~stopped /\ Buffer!TimerFires
  \/ UNCHANGED <<buf, bufTimer>> /\ c2s # <<>> /\ c2s' = Tail(c2s)
  \/ buf' = <<>> /\ c2s' = c2s

RequestPushed == \E m \in ClientMessage : m.type \in RequestType /\ PushMessage(m)

(* A message of a request stream or none goes.                              *)
NoLeaverPushes == BufferQuiet \/ RequestPushed

NobodyLeaves ==
  \A c \in Call, k \in Subscriber : Leaving(c, k) => call'[c].resFinalized

UnsubscribePushed ==
  \E c \in Call :
    /\ ~call'[c].resFinalized /\ call'[c].res = "left" /\ stopped' = stopped
    /\ \E k \in Subscriber : Leaving(c, k)
    /\ \A d \in Call, k \in Subscriber : Leaving(d, k) => d = c
    /\ Unsubscribe(call[c], c) \in ClientMessage /\ PushMessage(Unsubscribe(call[c], c))

StepPushes == (NoLeaverPushes /\ NobodyLeaves) \/ UnsubscribePushed

LEMMA RequestIsPushed ==
  ASSUME NEW rec \in CallRecord, rec.id \in Id, NEW c \in Call, NEW val \in Nat,
         NEW type \in RequestType, PushMessage(Request(type, rec, c, val))
  PROVE  NoLeaverPushes
<1>1. Request(type, rec, c, val).type = type
  BY DEF Request
<1>2. Request(type, rec, c, val) \in ClientMessage
  BY RequestTypeOK
<1> QED BY <1>1, <1>2 DEF NoLeaverPushes, RequestPushed

(* A subscription ends.                                                     *)
LEMMA TeardownPushes ==
  ASSUME ClientInv, NEW c \in Call, Started(c), Teardown(c, call[c]), UserStep(c),
         stopped' = stopped, \E k \in Subscriber : Leaving(c, k)
  PROVE  StepPushes
<1>1. /\ call \in [Call -> CallRecord] /\ call[c] \in CallRecord /\ call[c].id \in Id
      /\ call[c].resFinalized \in BOOLEAN
  BY DEF ClientInv, CallsStarted, TypeOK, ClientTypeOK, CallRecord
<1> DEFINE new == EndResponse(call[c], "left")
<1>2. /\ new.resFinalized = call[c].resFinalized /\ new.res # "open"
      /\ new.res = IF call[c].res = "open" THEN "left" ELSE call[c].res
      /\ new \in CallRecord
  BY <1>1, EndResponseType
<1>3. call' = [call EXCEPT ![c] = new]
  BY DEF Teardown, UpdateCall
<1> HIDE DEF new
<1>4. /\ call'[c].resFinalized = call[c].resFinalized
      /\ call[c].resFinalized \/ call'[c].res = "left"
  BY <1>1, <1>2, <1>3 DEF ClientInv, ListenersOpen, CallRecord
<1>5. \A d \in Call, k \in Subscriber : Leaving(d, k) => d = c
  BY DEF UserStep, Leaving
<1>6. CASE call[c].resFinalized
  BY <1>4, <1>5, <1>6
    DEF Teardown, TeardownMessage, StepPushes, NoLeaverPushes, BufferQuiet, NobodyLeaves
<1>7. CASE ~call[c].resFinalized
  <2>1. PushMessage(Unsubscribe(call[c], c))
    BY <1>7 DEF Teardown, TeardownMessage
  <2> QED BY <1>1, <1>4, <1>5, <1>7, <2>1, UnsubscribeTypeOK DEF StepPushes, UnsubscribePushed
<1> QED BY <1>6, <1>7

LEMMA CompleteRequestPushes ==
  ASSUME ClientInv, NEW c \in Call, Started(c), CompleteRequest(c)
  PROVE  NoLeaverPushes
<1> DEFINE rec == [call[c] EXCEPT !.req = "completed", !.obs = SourceCompleted(@)]
<1>1. rec \in CallRecord /\ rec.id = call[c].id /\ call[c].id \in Id
  BY StreamCallTypes, ObserverSteps DEF CallRecord, ClientInv, CallsStarted
<1> HIDE DEF rec
<1>2. CASE EndRequest(c, rec, "RequestComplete", NoValue)
  BY <1>1, <1>2, EndTypes, RequestIsPushed DEF EndRequest
<1>3. CASE NothingPushed
  BY <1>3 DEF NoLeaverPushes, BufferQuiet
<1> QED BY <1>2, <1>3 DEF CompleteRequest, rec

(* Nobody leaves in a step the users do not notice.                         *)
LEMMA SameUsers ==
  ASSUME NoLeaverPushes, user' = user
  PROVE  StepPushes
BY DEF StepPushes, NobodyLeaves, Leaving

LEMMA SubscriptionPushes ==
  ASSUME ClientInv, NEW c \in Call, NEW k \in Subscriber,
         SubscriptionStarts(c, k) \/ SubscriptionEnds(c, k)
  PROVE  StepPushes
<1>1. CASE SubscriptionStarts(c, k)
  <2>1. PICK u \in UserRecord : u.sub # "done" /\ Becomes(c, k, u)
    BY <1>1 DEF SubscriptionStarts
  <2>2. /\ UserStep(c) /\ user'[c][k] = u
        /\ \A j \in Subscriber : j # k => user'[c][j] = user[c][j]
    BY <2>1, OneSubscriber
  <2>3. NobodyLeaves
    BY <2>1, <2>2 DEF UserStep, NobodyLeaves, Leaving
  <2> QED BY <1>1, <2>3 DEF SubscriptionStarts, StepPushes, NoLeaverPushes, BufferQuiet
<1>2. CASE SubscriptionEnds(c, k)
  <2>1. PICK u \in UserRecord : u.sub = "done" /\ Becomes(c, k, u)
    BY <1>2 DEF SubscriptionEnds
  <2>2. UserStep(c) /\ user'[c][k] = u
    BY <2>1, OneSubscriber
  <2>3. Leaving(c, k)
    BY <1>2, <2>1, <2>2 DEF SubscriptionEnds, Leaving
  <2> QED BY <1>2, <2>2, <2>3, TeardownPushes DEF SubscriptionEnds
<1> QED BY <1>1, <1>2

LEMMA UserActionPushes ==
  ASSUME ClientInv, UserAction
  PROVE  StepPushes
<1>1. PICK c \in Call :
        \/ \E id \in Id, m \in Method : CallStream(c, id, m)
        \/ \E id \in Id, m \in Method : \E val \in StaticPayload : CallStatic(c, id, m, val)
        \/ SourceNext(c) \/ SourceComplete(c) \/ SourceError(c)
        \/ \E k \in Subscriber : SubscriptionStarts(c, k) \/ SubscriptionEnds(c, k)
  BY SubscriberSteps DEF UserAction
<1>2. ASSUME \E id \in Id, m \in Method : CallStream(c, id, m)
      PROVE  NoLeaverPushes
  BY <1>2 DEF CallStream, NoLeaverPushes, BufferQuiet
<1>3. ASSUME NEW id \in Id, NEW m \in Method, NEW val \in StaticPayload,
             CallStatic(c, id, m, val)
      PROVE  NoLeaverPushes
  <2> DEFINE rec == [IdleCall EXCEPT !.kind = "static", !.id = id, !.method = m]
  <2>1. rec \in CallRecord
    BY IdleTypes DEF CallRecord
  <2>2. rec.id = id
    BY DEF IdleCall
  <2>3. PushMessage(Request("RequestComplete", rec, c, val)) /\ val \in Nat
    BY <1>3, ClientAssumption DEF CallStatic
  <2> HIDE DEF rec
  <2> QED BY <2>1, <2>2, <2>3, EndTypes, RequestIsPushed
<1>4. ASSUME SourceNext(c)
      PROVE  NoLeaverPushes
  BY <1>4 DEF SourceNext, NoLeaverPushes, BufferQuiet
<1>5. ASSUME SourceComplete(c)
      PROVE  NoLeaverPushes
  BY <1>5, CompleteRequestPushes DEF SourceComplete, StreamOpen, Started
<1>6. ASSUME SourceError(c)
      PROVE  NoLeaverPushes
  <2> DEFINE rec == [call[c] EXCEPT !.req = "errored"]
  <2>1. rec \in CallRecord /\ rec.id = call[c].id /\ call[c].id \in Id
    BY <1>6, StreamCallTypes
      DEF SourceError, StreamOpen, Started, CallRecord, ClientInv, CallsStarted
  <2> HIDE DEF rec
  <2>2. EndRequest(c, rec, "RequestError", NoValue) \/ NothingPushed
    BY <1>6 DEF SourceError, rec
  <2> QED BY <2>1, <2>2, EndTypes, RequestIsPushed DEF EndRequest, NoLeaverPushes, BufferQuiet
<1>7. CASE \E k \in Subscriber : SubscriptionStarts(c, k) \/ SubscriptionEnds(c, k)
  BY <1>7, SubscriptionPushes
<1>8. user' = user \/ \E k \in Subscriber : SubscriptionStarts(c, k) \/ SubscriptionEnds(c, k)
  BY <1>1 DEF CallStream, CallStatic, StartCall, SourceNext, SourceComplete, SourceError
<1> QED BY <1>1, <1>2, <1>3, <1>4, <1>5, <1>6, <1>7, <1>8, SameUsers

LEMMA MicrotaskPushes ==
  ASSUME ClientInv, ClientMicrotaskRuns
  PROVE  NoLeaverPushes
<1> DEFINE t == microtasks[1]
           c == t.of
           rec == [call[c] EXCEPT !.obs = ValueHandled(@)]
<1>1. /\ Head(microtasks) = t /\ t \in ClientMicrotask /\ Started(c)
  <2>1. 1 \in 1 .. Len(microtasks) /\ t \in ClientMicrotask /\ Head(microtasks) = t
    BY TakeOne DEF ClientMicrotaskRuns, ClientInv, TypeOK, ClientTypeOK
  <2> QED BY <2>1 DEF ClientInv, TasksMatch
<1>2. c \in Call /\ t.val \in Nat
  BY <1>1 DEF ClientMicrotask
<1> HIDE DEF t, c
<1>3. call[c] \in CallRecord /\ call[c].id \in Id
  BY <1>1, <1>2, StreamCallTypes DEF ClientInv, CallsStarted
<1>4. CASE t.kind = "next" /\ RequestValueTask(c, t.val)
  <2>1. c \in Call /\ t \in ClientMicrotask /\ t.kind = "next" /\ Started(c)
    BY <1>1, <1>2, <1>4
  <2>2. call[c].obs.tasks > 0
    <3>1. 1 \in 1 .. Len(microtasks)
      BY TakeOne DEF ClientMicrotaskRuns, ClientInv, TypeOK, ClientTypeOK
    <3>2. t.val <= call[c].sent /\ t.val + call[c].obs.tasks > call[c].sent
      BY <1>4, <3>1 DEF ClientInv, TasksMatch, t, c
    <3>3. call[c].obs.tasks \in Nat /\ call[c].sent \in Nat
      BY <1>1, <1>2, StreamCallTypes, ObserverSteps, ClientAssumption
    <3> QED BY <1>2, <3>2, <3>3
  <2>3. ValueHandled(call[c].obs) \in ObserverState
    BY <1>1, <1>2, <2>2, StreamCallTypes, ObserverSteps
  <2>4. rec \in CallRecord /\ rec.id = call[c].id
    BY <1>3, <2>3 DEF CallRecord
  <2> HIDE DEF rec
  <2>5. \/ PushMessage(Request("RequestComplete", rec, c, t.val))
        \/ PushMessage(Request("RequestData", rec, c, t.val))
    BY <1>4 DEF RequestValueTask, EndRequest, rec
  <2> QED BY <1>2, <1>3, <2>4, <2>5, RequestIsPushed DEF RequestType
<1>5. CASE t.kind # "next" /\ RequestFinalTask(c, t.kind)
  <2>1. \/ NothingPushed
        \/ PushMessage(Request("RequestError", call[c], c, NoValue))
        \/ PushMessage(Request("RequestComplete", call[c], c, NoValue))
    BY <1>5 DEF RequestFinalTask, EndRequest
  <2> QED BY <1>2, <1>3, <2>1, EndTypes, RequestIsPushed DEF NoLeaverPushes, BufferQuiet
<1> QED BY <1>1, <1>4, <1>5 DEF ClientMicrotaskRuns, c

LEMMA OnMessagePushes ==
  ASSUME ClientInv, ClientOnMessage
  PROVE  StepPushes
<1> DEFINE m == inbox[1]
           c == calls[m.id]
<1>1. /\ m \in ServerMessage /\ m = Head(inbox) /\ stopped' = stopped
  BY TakeOne DEF ClientOnMessage, ClientInv, TypeOK, ClientTypeOK
<1>2. CASE NothingPushed /\ user' = user
  BY <1>2, SameUsers DEF NoLeaverPushes, BufferQuiet
<1>3. CASE c # NoCall
  <2>1. c \in Call /\ Started(c) /\ call \in [Call -> CallRecord] /\ call[c] \in CallRecord
    BY <1>1, <1>3 DEF ServerMessage, ClientInv, IdsMatch, TypeOK, ClientTypeOK
  <2> HIDE DEF c, m
  <2>2. ASSUME NEW f \in MayLeaveWith(c), HandOut(c, m, f),
               \/ f = 0 /\ NothingPushed
               \/ f # 0 /\ Teardown(c, call[c])
        PROVE  StepPushes
    <3>1. /\ UserStep(c)
          /\ \A k \in Subscriber :
               user[c][k].sub # "done" /\ user'[c][k].sub = "done" => k = f
          /\ f # 0 => f \in Subscriber /\ user[c][f].sub # "done" /\ user'[c][f].sub = "done"
      BY <1>1, <2>1, <2>2, HandOutTypes
    <3>2. CASE f = 0 /\ NothingPushed
      <4>1. NobodyLeaves
        <5>1. 0 \notin Subscriber
          BY DEF Subscriber
        <5> QED BY <3>1, <3>2, <5>1 DEF NobodyLeaves, Leaving, UserStep
      <4> QED BY <3>2, <4>1 DEF StepPushes, NoLeaverPushes, BufferQuiet
    <3>3. CASE f # 0 /\ Teardown(c, call[c])
      BY <1>1, <2>1, <3>1, <3>3, TeardownPushes DEF Leaving
    <3> QED BY <2>2, <3>2, <3>3
  <2>3. CASE OnResponseData(c, m)
    BY <1>2, <2>2, <2>3 DEF OnResponseData
  <2>4. CASE OnResponseComplete(c, m) \/ OnResponseError(c, m)
    <3>1. PICK how \in {"completed", "errored", "left"} : Finalize(c, how)
      BY <1>1, <2>1, <2>4, EndOfResponse
    <3>2. UserStep(c)
      BY <1>1, <2>1, <2>4, EndOfResponse
    <3>3. call'[c].resFinalized
      <4> DEFINE rec == [call[c] EXCEPT !.resFinalized = TRUE]
                 new == EndResponse(rec, how)
      <4>1. rec \in CallRecord /\ rec.resFinalized
        BY <2>1 DEF CallRecord
      <4>2. call' = [call EXCEPT ![c] = new]
        BY <3>1 DEF Finalize, UpdateCall
      <4> HIDE DEF rec
      <4>3. new.resFinalized
        BY <4>1, EndResponseType
      <4> HIDE DEF new
      <4> QED BY <2>1, <4>2, <4>3
    <3>4. NobodyLeaves
      BY <3>2, <3>3 DEF NobodyLeaves, Leaving, UserStep
    <3> QED BY <3>1, <3>4 DEF Finalize, StepPushes, NoLeaverPushes, BufferQuiet
  <2>5. CASE OnRequestUnsubscribe(c, m)
    BY <1>2, <2>1, <2>5, CompleteRequestPushes, SameUsers DEF OnRequestUnsubscribe
  <2> QED BY <1>1, <1>2, <1>3, <2>3, <2>4, <2>5 DEF ClientOnMessage, c
<1> QED BY <1>1, <1>2, <1>3 DEF ClientOnMessage

LEMMA EveryStepPushes ==
  ASSUME ClientInv, [Next]_openVars
  PROVE  StepPushes
<1>1. CASE UserAction
  BY <1>1, UserActionPushes
<1>2. CASE ClientMicrotaskRuns
  BY <1>2, MicrotaskPushes, SameUsers DEF ClientMicrotaskRuns
<1>3. CASE ClientOnMessage
  BY <1>3, OnMessagePushes
<1>4. CASE ClientReceivesBatch \/ ClientTimerFires
  BY <1>4, SameUsers DEF ClientReceivesBatch, ClientTimerFires, NoLeaverPushes, BufferQuiet
<1>5. CASE Stop \/ ServerSends \/ ServerTakes \/ UNCHANGED openVars
  BY <1>5, SameUsers
    DEF Stop, ServerSends, ServerTakes, openVars, clientVars, NoLeaverPushes, BufferQuiet,
        NothingPushed
<1>6. CASE \E c \in Call, k \in Subscriber : SubscriberTold(c, k)
  BY <1>6, SubscriberSteps, SubscriptionPushes
<1> QED BY <1>1, <1>2, <1>3, <1>4, <1>5, <1>6 DEF Next, ClientNext, ClientCallback

(* What PushedMessages makes of it.                                         *)
LEMMA QuietPushesNothing ==
  ASSUME BufferTypeOK, BufferQuiet
  PROVE  PushedMessages = {}
<1>1. /\ buf \in Seq(ClientMessage) /\ c2s \in Seq(Seq(ClientMessage))
      /\ Len(buf) \in Nat /\ Len(c2s) \in Nat
      /\ (Len(buf) + 1) .. Len(buf) = {} /\ (Len(buf) + 1) .. 0 = {}
  BY DEF BufferTypeOK
<1>2. CASE NothingPushed
  BY <1>1, <1>2 DEF NothingPushed, PushedMessages
<1>3. CASE ~stopped /\ Buffer!TimerFires
  <2>1. c2s' = Append(c2s, buf) \/ (c2s' = c2s /\ buf' = <<>>)
    BY <1>3 DEF Buffer!TimerFires, Buffer!FlushList
  <2>2. CASE c2s' = Append(c2s, buf)
    <3>1. Len(c2s') = Len(c2s) + 1 /\ c2s'[Len(c2s')] = buf
      BY <1>1, <2>2
    <3> QED BY <1>1, <1>3, <3>1 DEF PushedMessages
  <2> QED BY <1>1, <1>3, <2>1, <2>2 DEF PushedMessages
<1>4. CASE UNCHANGED <<buf, bufTimer>> /\ c2s # <<>> /\ c2s' = Tail(c2s)
  <2>1. ~(Len(c2s') > Len(c2s))
    BY <1>1, <1>4, TakeOne
  <2> QED BY <1>1, <1>4, <2>1 DEF PushedMessages
<1>5. CASE buf' = <<>> /\ c2s' = c2s
  BY <1>1, <1>5 DEF PushedMessages
<1> QED BY <1>2, <1>3, <1>4, <1>5 DEF BufferQuiet

LEMMA PushPushesOne ==
  ASSUME BufferTypeOK, NEW m \in ClientMessage, PushMessage(m)
  PROVE  /\ PushedMessages \subseteq {m}
         /\ ~stopped => m \in PushedMessages
         /\ stopped => PushedMessages = {}
<1> DEFINE new == Append(buf, m)
<1>1. /\ buf \in Seq(ClientMessage) /\ c2s \in Seq(Seq(ClientMessage))
      /\ Len(buf) \in Nat /\ Len(c2s) \in Nat
  BY DEF BufferTypeOK
<1>2. /\ new \in Seq(ClientMessage) /\ Len(new) = Len(buf) + 1
      /\ new[Len(buf) + 1] = m
  BY <1>1, AppendOne
<1> HIDE DEF new
<1>3. {new[k] : k \in (Len(buf) + 1) .. Len(new)} = {m}
  <2>1. (Len(buf) + 1) .. Len(new) = {Len(buf) + 1}
    BY <1>1, <1>2
  <2> QED BY <1>2, <2>1
<1>4. CASE stopped /\ UNCHANGED <<buf, bufTimer, c2s>>
  BY <1>4, QuietPushesNothing DEF BufferQuiet, NothingPushed
<1>5. CASE ~stopped /\ c2s' = Append(c2s, new)
  <2>1. Len(c2s') = Len(c2s) + 1 /\ c2s'[Len(c2s')] = new
    BY <1>1, <1>2, <1>5
  <2>2. Len(c2s') > Len(c2s)
    BY <1>1, <2>1
  <2> QED BY <1>3, <1>5, <2>1, <2>2 DEF PushedMessages
<1>6. CASE ~stopped /\ c2s' = c2s /\ buf' = new
  <2>1. ~(Len(c2s') > Len(c2s))
    BY <1>1, <1>6
  <2> QED BY <1>3, <1>6, <2>1 DEF PushedMessages
<1> QED BY <1>4, <1>5, <1>6 DEF PushMessage, Buffer!Push, Buffer!FlushList, new

-----------------------------------------------------------------------------
(* The theorems.                                                            *)

(* ClientInv is an inductive invariant of the client against any server.    *)
LEMMA NextPreserves ==
  ASSUME ClientInv, [Next]_openVars
  PROVE  ClientInv'
<1>1. CASE ClientMicrotaskRuns
  BY <1>1, MicrotaskPreserves
<1>2. CASE ClientOnMessage
  BY <1>2, OnMessagePreserves
<1>3. CASE UserAction
  <2>1. PICK c \in Call :
          \/ \E id \in Id, m \in Method : CallStream(c, id, m)
          \/ \E id \in Id, m \in Method : \E val \in StaticPayload : CallStatic(c, id, m, val)
          \/ SourceNext(c) \/ SourceComplete(c) \/ SourceError(c)
          \/ \E k \in Subscriber : SubscriptionStarts(c, k) \/ SubscriptionEnds(c, k)
    BY <1>3, SubscriberSteps DEF UserAction
  <2> QED BY <2>1, CallStreamPreserves, CallStaticPreserves, SourceNextPreserves,
             SourceCompletePreserves, SourceErrorPreserves, SubscriptionPreserves
<1>4. CASE Stop
  BY <1>4, StopPreserves
<1>5. CASE ClientReceivesBatch \/ ClientTimerFires \/ ServerSends \/ ServerTakes
  BY <1>5, TransportPreserves
<1>6. CASE UNCHANGED openVars
  <2>1. /\ UNCHANGED <<nextId, calls, call, user, microtasks, stopped>>
        /\ inbox' = inbox /\ s2c' = s2c /\ NothingPushed
    BY <1>6 DEF openVars, clientVars, NothingPushed
  <2>2. BufferTypeOK'
    BY <2>1, NothingTypes DEF ClientInv, TypeOK, ClientTypeOK, BufferTypeOK
  <2> QED BY <2>1, <2>2, QuietStep DEF ClientInv, TypeOK, ClientTypeOK
<1>7. CASE \E c \in Call, k \in Subscriber : SubscriberTold(c, k)
  BY <1>7, SubscriberSteps, SubscriptionPreserves
<1> QED BY <1>1, <1>2, <1>3, <1>4, <1>5, <1>6, <1>7 DEF Next, ClientNext, ClientCallback

LEMMA ClientInductive == Spec => []ClientInv
<1>1. Init => ClientInv
  BY InitInv
<1>2. ClientInv /\ [Next]_openVars => ClientInv'
  BY NextPreserves
<1> QED BY <1>1, <1>2, PTL DEF Spec

(* Every variable keeps its type for any number of calls, any ids and any   *)
(* server: the counter of waiting microtasks never falls below zero, every  *)
(* message sent carries a valid id.                                         *)
THEOREM ClientTypes == Spec => []TypeOK
<1>1. ClientInv => TypeOK
  BY DEF ClientInv
<1> QED BY <1>1, ClientInductive, PTL

(* No id is shared by two calls, freed while its call lives or kept after   *)
(* both of its streams have ended, whatever the server sends.               *)
THEOREM IdsAlwaysOccupied == Spec => []IdsOccupied
<1>1. ClientInv => IdsOccupied
  <2> SUFFICES ASSUME ClientInv, ~stopped, NEW c \in Call, Started(c)
               PROVE  call[c].finalizedStreams < 2 <=> calls[call[c].id] = c
    BY DEF IdsOccupied
  <2>1. call[c].id \in Id /\ c # NoCall
    BY MessagesAssumption DEF ClientInv, CallsStarted
  <2>2. ASSUME calls[call[c].id] = c
        PROVE  call[c].finalizedStreams < 2
    BY <2>1, <2>2 DEF ClientInv, IdsMatch
  <2> QED BY <2>2 DEF ClientInv, IdsMatch
<1> QED BY <1>1, ClientInductive, PTL

(* Every subscription that ends while the server has not ended the response *)
(* sends one unsubscribe, whatever ended it, and nothing else sends one;    *)
(* with the first of them the response is closed for good, whatever the     *)
(* server sends.                                                            *)
THEOREM UnsubscribesAreOwed == Spec => UnsubscribesMatchLeavers
<1> DEFINE Match ==
      \A c \in Call :
        /\ Tells(c) <=> /\ \E k \in Subscriber : Leaving(c, k)
                        /\ ~call'[c].resFinalized /\ ~stopped
        /\ Tells(c) => call'[c].res = "left"
<1>1. ASSUME ClientInv, [Next]_openVars
      PROVE  Match
  <2>1. StepPushes /\ BufferTypeOK
    BY <1>1, EveryStepPushes DEF ClientInv, TypeOK, ClientTypeOK, BufferTypeOK
  <2>2. CASE NoLeaverPushes /\ NobodyLeaves
    <3>1. \A m \in PushedMessages : m.type # "ResponseUnsubscribe"
      <4>1. CASE BufferQuiet
        BY <2>1, <4>1, QuietPushesNothing
      <4>2. CASE RequestPushed
        <5>1. PICK m \in ClientMessage : m.type \in RequestType /\ PushMessage(m)
          BY <4>2 DEF RequestPushed
        <5>2. m.type # "ResponseUnsubscribe" /\ PushedMessages \subseteq {m}
          BY <2>1, <5>1, PushPushesOne DEF RequestType
        <5> QED BY <5>2
      <4> QED BY <2>2, <4>1, <4>2 DEF NoLeaverPushes
    <3> QED BY <2>2, <3>1 DEF NobodyLeaves, Tells
  <2>3. CASE UnsubscribePushed
    <3>1. PICK c \in Call :
            /\ ~call'[c].resFinalized /\ call'[c].res = "left"
            /\ \E k \in Subscriber : Leaving(c, k)
            /\ \A d \in Call, k \in Subscriber : Leaving(d, k) => d = c
            /\ Unsubscribe(call[c], c) \in ClientMessage
            /\ PushMessage(Unsubscribe(call[c], c))
      BY <2>3 DEF UnsubscribePushed
    <3>2. PICK m \in ClientMessage : m = Unsubscribe(call[c], c)
      BY <3>1
    <3>3. m.of = c /\ m.type = "ResponseUnsubscribe"
      BY <3>2 DEF Unsubscribe
    <3>4. /\ PushedMessages \subseteq {m}
          /\ ~stopped => m \in PushedMessages
          /\ stopped => PushedMessages = {}
      BY <2>1, <3>1, <3>2, PushPushesOne
    <3>5. \A d \in Call : Tells(d) <=> d = c /\ ~stopped
      BY <3>3, <3>4 DEF Tells
    <3> QED BY <3>1, <3>5
  <2> QED BY <2>1, <2>2, <2>3 DEF StepPushes
<1>2. ClientInv /\ [Next]_openVars => [Match]_clientVars
  BY <1>1
<1> QED BY <1>2, ClientInductive, PTL DEF Spec, UnsubscribesMatchLeavers

-----------------------------------------------------------------------------
(* The end of the request stream: what subscribeCompleteObserver was told   *)
(* is how the stream ended, the task of the end waits behind the values and *)
(* is the only one, and complete(value) leaves nothing waiting.             *)
EndOK(r) ==
  /\ r.obs.completed => r.req = "completed"
  /\ r.obs.completeCalled => r.obs.completed /\ r.obs.tasks = 0

EndTaskOK(t, r) ==
  /\ t.kind = "complete" => r.req = "completed"
  /\ t.kind = "error" => r.req = "errored"

EndsLast(ms) ==
  \A j, k \in 1 .. Len(ms) : j < k /\ ms[j].of = ms[k].of => ms[j].kind = "next"

EndsInv ==
  /\ \A c \in Call : EndOK(call[c])
  /\ \A k \in 1 .. Len(microtasks) : EndTaskOK(microtasks[k], call[microtasks[k].of])
  /\ EndsLast(microtasks)

(* What NoRequestAfterItsEnd says of a step.                                *)
RequestEndsOnce ==
  \A m \in PushedMessages :
    /\ m.type \in RequestType => ~RequestEnded(m.of)
    /\ m.type \in {"RequestComplete", "RequestError"} => RequestEnded(m.of)'

LEMMA QuietEnds ==
  ASSUME ClientInv, BufferQuiet
  PROVE  RequestEndsOnce
BY QuietPushesNothing DEF RequestEndsOnce, ClientInv, TypeOK, ClientTypeOK, BufferTypeOK

LEMMA UnsubscribeEnds ==
  ASSUME ClientInv, NEW rec \in CallRecord, rec.id \in Id, NEW c \in Call, TeardownMessage(c, rec)
  PROVE  RequestEndsOnce
<1>1. CASE NothingPushed
  BY <1>1, QuietEnds DEF BufferQuiet
<1>2. CASE PushMessage(Unsubscribe(rec, c))
  <2>1. /\ Unsubscribe(rec, c) \in ClientMessage
        /\ Unsubscribe(rec, c).type = "ResponseUnsubscribe"
    BY UnsubscribeTypeOK DEF Unsubscribe
  <2>2. PushedMessages \subseteq {Unsubscribe(rec, c)}
    BY <1>2, <2>1, PushPushesOne DEF ClientInv, TypeOK, ClientTypeOK, BufferTypeOK
  <2> QED BY <2>1, <2>2 DEF RequestEndsOnce, RequestType
<1> QED BY <1>1, <1>2 DEF TeardownMessage

(* A message of the request stream of call c, which had not ended; if it is *)
(* final, the stream has ended now.                                         *)
LEMMA RequestEnds ==
  ASSUME ClientInv, NEW rec \in CallRecord, rec.id \in Id, NEW c \in Call, NEW val \in Nat,
         NEW type \in RequestType, PushMessage(Request(type, rec, c, val)),
         ~RequestEnded(c), type # "RequestData" => RequestEnded(c)'
  PROVE  RequestEndsOnce
<1> DEFINE m == Request(type, rec, c, val)
<1>1. m \in ClientMessage /\ m.type = type /\ m.of = c
  BY RequestTypeOK DEF Request
<1> HIDE DEF m
<1>2. PushedMessages \subseteq {m}
  BY <1>1, PushPushesOne DEF m, ClientInv, TypeOK, ClientTypeOK, BufferTypeOK
<1>3. ASSUME NEW n \in PushedMessages
      PROVE  /\ n.type \in RequestType => ~RequestEnded(n.of)
             /\ n.type \in {"RequestComplete", "RequestError"} => RequestEnded(n.of)'
  <2>1. n.type = type /\ n.of = c
    BY <1>1, <1>2
  <2> QED BY <2>1
<1> QED BY <1>3 DEF RequestEndsOnce

(* The queue stays as it is, runs its first task or gets a task of call c,  *)
(* whose record becomes rec.                                                *)
LEMMA EndsKept ==
  ASSUME ClientInv, EndsInv, NEW c \in Call, NEW rec, EndOK(rec),
         call[c].req # "open" => rec.req = call[c].req,
         call' = [call EXCEPT ![c] = rec],
         \/ microtasks' = microtasks
         \/ microtasks # <<>> /\ microtasks' = Tail(microtasks)
         \/ /\ call[c].req = "open"
            /\ \E t \in ClientMicrotask :
                 t.of = c /\ EndTaskOK(t, rec) /\ microtasks' = Append(microtasks, t)
  PROVE  EndsInv'
<1>1. /\ microtasks \in Seq(ClientMicrotask) /\ Len(microtasks) \in Nat
      /\ \A k \in 1 .. Len(microtasks) : microtasks[k] \in ClientMicrotask
  BY DEF ClientInv, TypeOK, ClientTypeOK
<1>2. \A k \in 1 .. Len(microtasks) :
        /\ microtasks[k].of \in Call
        /\ microtasks[k].kind \in {"next", "complete", "error"}
  BY <1>1 DEF ClientMicrotask
<1>3. call'[c] = rec /\ \A d \in Call : d # c => call'[d] = call[d]
  BY DEF ClientInv, TypeOK, ClientTypeOK
<1>4. \A d \in Call : EndOK(call'[d])
  BY <1>3 DEF EndsInv
<1>5. ASSUME NEW k \in 1 .. Len(microtasks)
      PROVE  EndTaskOK(microtasks[k], call'[microtasks[k].of])
  <2>1. EndTaskOK(microtasks[k], call[microtasks[k].of])
    BY DEF EndsInv
  <2>2. CASE microtasks[k].of = c
    BY <1>3, <2>1, <2>2 DEF EndTaskOK
  <2>3. CASE microtasks[k].of # c
    BY <1>2, <1>3, <2>1, <2>3
  <2> QED BY <2>2, <2>3
<1>6. EndsLast(microtasks)
  BY DEF EndsInv
<1>7. CASE microtasks' = microtasks
  BY <1>4, <1>5, <1>6, <1>7 DEF EndsInv
<1>8. CASE microtasks # <<>> /\ microtasks' = Tail(microtasks)
  <2>1. /\ Len(microtasks') = Len(microtasks) - 1
        /\ \A k \in 1 .. Len(microtasks') : microtasks'[k] = microtasks[k + 1]
    BY <1>1, <1>8, TakeOne
  <2>2. \A k \in 1 .. Len(microtasks') : k + 1 \in 1 .. Len(microtasks)
    BY <1>1, <2>1
  <2>3. \A k \in 1 .. Len(microtasks') : EndTaskOK(microtasks'[k], call'[microtasks'[k].of])
    BY <1>5, <2>1, <2>2
  <2>4. ASSUME NEW j \in 1 .. Len(microtasks'), NEW k \in 1 .. Len(microtasks'), j < k,
               microtasks'[j].of = microtasks'[k].of
        PROVE  microtasks'[j].kind = "next"
    <3>1. /\ j + 1 \in 1 .. Len(microtasks) /\ microtasks'[j] = microtasks[j + 1]
          /\ k + 1 \in 1 .. Len(microtasks) /\ microtasks'[k] = microtasks[k + 1]
          /\ j + 1 < k + 1
      BY <2>1, <2>2, <2>4
    <3> QED BY <1>6, <2>4, <3>1 DEF EndsLast
  <2> QED BY <1>4, <2>3, <2>4 DEF EndsInv, EndsLast
<1>9. ASSUME call[c].req = "open", NEW t \in ClientMicrotask, t.of = c, EndTaskOK(t, rec),
             microtasks' = Append(microtasks, t)
      PROVE  EndsInv'
  <2>1. /\ Len(microtasks') = Len(microtasks) + 1
        /\ \A k \in 1 .. Len(microtasks) : microtasks'[k] = microtasks[k]
        /\ microtasks'[Len(microtasks) + 1] = t
    BY <1>1, <1>9, AppendOne
  <2>2. \A k \in 1 .. Len(microtasks') :
          k \in 1 .. Len(microtasks) \/ k = Len(microtasks) + 1
    BY <1>1, <2>1
  <2>3. \A k \in 1 .. Len(microtasks') : EndTaskOK(microtasks'[k], call'[microtasks'[k].of])
    BY <1>3, <1>5, <1>9, <2>1, <2>2
  <2>4. \A k \in 1 .. Len(microtasks) : microtasks[k].of = c => microtasks[k].kind = "next"
    BY <1>2, <1>9 DEF EndsInv, EndTaskOK
  <2>5. ASSUME NEW j \in 1 .. Len(microtasks'), NEW k \in 1 .. Len(microtasks'), j < k,
               microtasks'[j].of = microtasks'[k].of
        PROVE  microtasks'[j].kind = "next"
    <3>1. j \in 1 .. Len(microtasks) /\ microtasks'[j] = microtasks[j]
      BY <1>1, <2>1, <2>2, <2>5
    <3>2. CASE k \in 1 .. Len(microtasks)
      BY <1>6, <2>1, <2>5, <3>1, <3>2 DEF EndsLast
    <3>3. CASE k = Len(microtasks) + 1
      BY <1>9, <2>1, <2>4, <2>5, <3>1, <3>3
    <3> QED BY <2>2, <3>2, <3>3
  <2> QED BY <1>4, <2>3, <2>5 DEF EndsInv, EndsLast
<1> QED BY <1>7, <1>8, <1>9

(* A step that changes at most the response side of a call.                 *)
LEMMA EndsAlike ==
  ASSUME ClientInv, EndsInv, NEW c \in Call, NEW rec,
         rec.obs = call[c].obs, rec.req = call[c].req,
         call' = [call EXCEPT ![c] = rec],
         microtasks' = microtasks \/ (microtasks # <<>> /\ microtasks' = Tail(microtasks))
  PROVE  EndsInv'
<1>1. EndOK(rec)
  BY DEF EndsInv, EndOK
<1> QED BY <1>1, EndsKept

LEMMA EndsSame ==
  ASSUME EndsInv, UNCHANGED <<call, microtasks>>
  PROVE  EndsInv'
BY DEF EndsInv

LEMMA NothingWaits ==
  ASSUME ClientInv, EndsInv, NEW c \in Call, Started(c),
         call[c].req = "open", call[c].obs.tasks = 0
  PROVE  \A k \in 1 .. Len(microtasks) : microtasks[k].of # c
<1> SUFFICES ASSUME NEW k \in 1 .. Len(microtasks), microtasks[k].of = c PROVE FALSE
  OBVIOUS
<1>1. microtasks[k] \in ClientMicrotask
  BY DEF ClientInv, TypeOK, ClientTypeOK
<1>2. microtasks[k].kind = "next" /\ microtasks[k].val \in Nat
  BY <1>1 DEF ClientMicrotask, EndsInv, EndTaskOK
<1>3. microtasks[k].val <= call[c].sent /\ microtasks[k].val + 0 > call[c].sent
  BY <1>2 DEF ClientInv, TasksMatch
<1>4. call[c].sent \in Nat
  BY StreamCallTypes, ClientAssumption
<1> QED BY <1>2, <1>3, <1>4

(* The last message of c's request stream, sent when nothing of it waits.   *)
LEMMA EndRequestEnds ==
  ASSUME ClientInv, NEW c \in Call, NEW rec \in CallRecord, Started(c), Alike(call[c], rec),
         NEW type \in RequestType, NEW val \in Nat, EndRequest(c, rec, type, val),
         ~RequestEnded(c), rec.req # "open",
         microtasks' \in Seq(ClientMicrotask),
         rec.obs.completeCalled \/ \A k \in 1 .. Len(microtasks') : microtasks'[k].of # c
  PROVE  RequestEndsOnce /\ call' = [call EXCEPT ![c] = Cleanup(rec)]
<1> DEFINE new == Cleanup(rec)
<1>1. /\ new.kind = call[c].kind /\ new.req = rec.req /\ new.obs = rec.obs
      /\ rec.id \in Id
  BY DEF Cleanup, CallRecord, Alike, ClientInv, CallsStarted
<1>2. call' = [call EXCEPT ![c] = new] /\ PushMessage(Request(type, rec, c, val))
  BY DEF EndRequest, UpdateCall
<1> HIDE DEF new
<1>3. call'[c] = new /\ DOMAIN microtasks' = 1 .. Len(microtasks')
  BY <1>2 DEF ClientInv, TypeOK, ClientTypeOK
<1>4. RequestEnded(c)'
  BY <1>1, <1>3 DEF RequestEnded, Started
<1>5. RequestEndsOnce
  BY <1>1, <1>2, <1>4, RequestEnds
<1> QED BY <1>2, <1>5 DEF new

LEMMA CleanupEnds ==
  ASSUME NEW rec \in CallRecord
  PROVE  Cleanup(rec).req = rec.req /\ Cleanup(rec).obs = rec.obs
BY DEF Cleanup, CallRecord

LEMMA CompleteRequestEnds ==
  ASSUME ClientInv, EndsInv, NEW c \in Call, StreamOpen(c), CompleteRequest(c)
  PROVE  EndsInv' /\ RequestEndsOnce
<1> DEFINE rec == [call[c] EXCEPT !.req = "completed", !.obs = SourceCompleted(@)]
           t == Task(c, "complete", NoValue)
<1>1. /\ Started(c) /\ call[c].req = "open" /\ call[c] \in CallRecord
      /\ call[c].obs \in ObserverState /\ microtasks \in Seq(ClientMicrotask)
      /\ call[c].obs.completeCalled \in BOOLEAN
  BY StreamCallTypes DEF StreamOpen, Started, ClientInv, TypeOK, ClientTypeOK, ObserverState
<1>2. ~call[c].obs.completed /\ ~call[c].obs.completeCalled
  BY <1>1 DEF EndsInv, EndOK
<1>3. /\ SourceCompleted(call[c].obs) \in ObserverState
      /\ SourceCompleted(call[c].obs).tasks = call[c].obs.tasks
      /\ SourceCompleted(call[c].obs).completed
      /\ SourceCompleted(call[c].obs).completeCalled = call[c].obs.completeCalled
  BY <1>1 DEF SourceCompleted, ObserverState
<1>4. /\ rec \in CallRecord /\ Alike(call[c], rec) /\ rec.req = "completed"
      /\ rec.obs = SourceCompleted(call[c].obs)
  BY <1>1, <1>3 DEF CallRecord, Alike, SameTasks
<1> HIDE DEF rec
<1>5. EndOK(rec)
  BY <1>2, <1>3, <1>4 DEF EndOK
<1>6. ~RequestEnded(c)
  BY <1>1 DEF RequestEnded
<1>7. CASE /\ PassedOnAtOnce(rec.obs) /\ EndRequest(c, rec, "RequestComplete", NoValue)
           /\ microtasks' = microtasks
  <2>1. \A k \in 1 .. Len(microtasks) : microtasks[k].of # c
    BY <1>1, <1>3, <1>4, <1>7, NothingWaits DEF PassedOnAtOnce
  <2>2. RequestEndsOnce /\ call' = [call EXCEPT ![c] = Cleanup(rec)]
    BY <1>1, <1>4, <1>6, <1>7, <2>1, EndTypes, EndRequestEnds
  <2>3. EndOK(Cleanup(rec))
    BY <1>4, <1>5, CleanupEnds DEF EndOK
  <2> QED BY <1>1, <1>7, <2>2, <2>3, EndsKept
<1>8. CASE /\ microtasks' = Append(microtasks, t)
           /\ call' = [call EXCEPT ![c] = rec] /\ NothingPushed
  <2>1. t \in ClientMicrotask /\ t.of = c /\ EndTaskOK(t, rec)
    BY <1>4 DEF Task, ClientMicrotask, NoValue, EndTaskOK
  <2> HIDE DEF t
  <2>2. EndsInv'
    BY <1>1, <1>5, <1>8, <2>1, EndsKept
  <2> QED BY <1>8, <2>2, QuietEnds DEF BufferQuiet
<1> QED BY <1>7, <1>8 DEF CompleteRequest, rec

LEMMA SourceErrorEnds ==
  ASSUME ClientInv, EndsInv, NEW c \in Call, SourceError(c)
  PROVE  EndsInv' /\ RequestEndsOnce
<1> DEFINE rec == [call[c] EXCEPT !.req = "errored"]
           t == Task(c, "error", NoValue)
<1>1. /\ Started(c) /\ call[c].req = "open" /\ call[c] \in CallRecord
      /\ microtasks \in Seq(ClientMicrotask)
  BY StreamCallTypes DEF SourceError, StreamOpen, Started, ClientInv, TypeOK, ClientTypeOK
<1>2. ~call[c].obs.completed /\ ~call[c].obs.completeCalled
  BY <1>1 DEF EndsInv, EndOK
<1>3. /\ rec \in CallRecord /\ Alike(call[c], rec) /\ rec.req = "errored"
      /\ rec.obs = call[c].obs
  BY <1>1 DEF CallRecord, Alike, SameTasks
<1> HIDE DEF rec
<1>4. EndOK(rec) /\ ~RequestEnded(c)
  BY <1>1, <1>2, <1>3 DEF EndOK, RequestEnded
<1>5. CASE /\ PassedOnAtOnce(rec.obs) /\ EndRequest(c, rec, "RequestError", NoValue)
           /\ microtasks' = microtasks
  <2>1. \A k \in 1 .. Len(microtasks) : microtasks[k].of # c
    BY <1>1, <1>3, <1>5, NothingWaits DEF PassedOnAtOnce
  <2>2. RequestEndsOnce /\ call' = [call EXCEPT ![c] = Cleanup(rec)]
    BY <1>1, <1>3, <1>4, <1>5, <2>1, EndTypes, EndRequestEnds
  <2>3. EndOK(Cleanup(rec))
    BY <1>3, <1>4, CleanupEnds DEF EndOK
  <2> QED BY <1>1, <1>5, <2>2, <2>3, EndsKept
<1>6. CASE /\ microtasks' = Append(microtasks, t)
           /\ call' = [call EXCEPT ![c] = rec] /\ NothingPushed
  <2>1. t \in ClientMicrotask /\ t.of = c /\ EndTaskOK(t, rec)
    BY <1>3 DEF Task, ClientMicrotask, NoValue, EndTaskOK
  <2> HIDE DEF t
  <2>2. EndsInv'
    BY <1>1, <1>4, <1>6, <2>1, EndsKept
  <2> QED BY <1>6, <2>2, QuietEnds DEF BufferQuiet
<1> QED BY <1>5, <1>6 DEF SourceError, rec

LEMMA SourceNextEnds ==
  ASSUME ClientInv, EndsInv, NEW c \in Call, SourceNext(c)
  PROVE  EndsInv' /\ RequestEndsOnce
<1> DEFINE rec == [call[c] EXCEPT !.sent = @ + 1, !.obs = ValueQueued(@)]
           t == Task(c, "next", call[c].sent + 1)
<1>1. /\ Started(c) /\ call[c].req = "open" /\ call[c] \in CallRecord
      /\ call[c].sent \in Nat /\ call[c].obs \in ObserverState
      /\ call' = [call EXCEPT ![c] = rec] /\ microtasks' = Append(microtasks, t)
      /\ NothingPushed
  <2>1. /\ Started(c) /\ call[c].req = "open"
        /\ call' = [call EXCEPT ![c] = rec] /\ microtasks' = Append(microtasks, t)
        /\ NothingPushed
    BY DEF SourceNext, StreamOpen, Started
  <2> QED BY <2>1, StreamCallTypes, ClientAssumption
<1>2. ~call[c].obs.completed /\ ~call[c].obs.completeCalled
  BY <1>1 DEF EndsInv, EndOK
<1>3. /\ ~ValueQueued(call[c].obs).completed /\ ~ValueQueued(call[c].obs).completeCalled
  BY <1>1, <1>2 DEF ValueQueued, ObserverState
<1>4. rec.req = "open" /\ rec.obs = ValueQueued(call[c].obs)
  BY <1>1 DEF CallRecord
<1> HIDE DEF rec
<1>5. t \in ClientMicrotask /\ t.of = c /\ EndTaskOK(t, rec)
  BY <1>1 DEF Task, ClientMicrotask, EndTaskOK
<1> HIDE DEF t
<1>6. EndOK(rec)
  BY <1>3, <1>4 DEF EndOK
<1>7. EndsInv'
  BY <1>1, <1>5, <1>6, EndsKept
<1> QED BY <1>1, <1>7, QuietEnds DEF BufferQuiet

LEMMA CallStreamEnds ==
  ASSUME ClientInv, EndsInv, NEW c \in Call, NEW id \in Id, NEW m \in Method, CallStream(c, id, m)
  PROVE  EndsInv' /\ RequestEndsOnce
<1> DEFINE rec == [IdleCall EXCEPT !.kind = "stream", !.id = id, !.method = m]
<1>1. /\ call[c] = IdleCall /\ call' = [call EXCEPT ![c] = rec]
      /\ microtasks' = microtasks /\ NothingPushed
  BY DEF CallStream, StartCall, ClientInv, CallsStarted, Started
<1>2. rec.obs = call[c].obs /\ rec.req = call[c].req
  BY <1>1 DEF IdleCall
<1> HIDE DEF rec
<1>3. EndsInv'
  BY <1>1, <1>2, EndsAlike
<1> QED BY <1>1, <1>3, QuietEnds DEF BufferQuiet

LEMMA CallStaticEnds ==
  ASSUME ClientInv, EndsInv, NEW c \in Call, NEW id \in Id, NEW m \in Method,
         NEW val \in StaticPayload, CallStatic(c, id, m, val)
  PROVE  EndsInv' /\ RequestEndsOnce
<1> DEFINE rec == [IdleCall EXCEPT !.kind = "static", !.id = id, !.method = m]
           done == [rec EXCEPT !.req = "completed"]
           new == Cleanup(done)
<1>1. /\ ~Started(c) /\ call[c] = IdleCall /\ call' = [call EXCEPT ![c] = new]
      /\ microtasks' = microtasks /\ PushMessage(Request("RequestComplete", rec, c, val))
  BY DEF CallStatic, StartCall, ClientInv, CallsStarted, Started
<1>2. /\ rec.id = id /\ rec.obs = NewObserver /\ rec.kind = "static"
      /\ rec \in CallRecord /\ done \in CallRecord
      /\ done.obs = NewObserver /\ done.req = "completed" /\ done.kind = "static"
  <2>1. /\ rec.id = id /\ rec.obs = NewObserver /\ rec.kind = "static"
        /\ done.obs = NewObserver /\ done.req = "completed" /\ done.kind = "static"
    BY DEF IdleCall
  <2>2. rec \in CallRecord /\ done \in CallRecord
    BY IdleTypes DEF CallRecord
  <2> HIDE DEF rec, done
  <2> QED BY <2>1, <2>2
<1> HIDE DEF rec, done
<1>3. new.obs = NewObserver /\ new.req = "completed" /\ new.kind = "static"
  BY <1>2, CleanupType, CleanupEnds DEF Evolves
<1> HIDE DEF new
<1>4. EndOK(new) /\ call[c].req = "open"
  BY <1>1, <1>3 DEF EndOK, NewObserver, IdleCall
<1>5. EndsInv'
  BY <1>1, <1>4, EndsKept
<1>6. /\ call'[c] = new /\ DOMAIN microtasks' = 1 .. Len(microtasks)
      /\ \A k \in 1 .. Len(microtasks') : microtasks'[k].of # c
  BY <1>1 DEF ClientInv, TypeOK, ClientTypeOK, TasksMatch
<1>7. ~RequestEnded(c) /\ RequestEnded(c)'
  BY <1>1, <1>3, <1>6 DEF RequestEnded, Started
<1>8. val \in Nat
  BY ClientAssumption
<1>9. RequestEndsOnce
  BY <1>1, <1>2, <1>7, <1>8, EndTypes, RequestEnds
<1> QED BY <1>5, <1>9

(* The first task of the queue: c's stream has not ended before, and a      *)
(* final task leaves nothing of c behind.                                   *)
LEMMA FirstTask ==
  ASSUME ClientInv, EndsInv, microtasks # <<>>, NEW c, c = microtasks[1].of
  PROVE  /\ c \in Call /\ Started(c) /\ Len(microtasks) \in Nat \ {0}
         /\ ~call[c].obs.completeCalled => ~RequestEnded(c)
         /\ EndTaskOK(microtasks[1], call[c])
         /\ Tail(microtasks) \in Seq(ClientMicrotask)
         /\ microtasks[1].kind # "next" =>
              \A k \in 1 .. Len(Tail(microtasks)) : Tail(microtasks)[k].of # c
<1>1. /\ microtasks \in Seq(ClientMicrotask) /\ Len(microtasks) \in Nat \ {0}
      /\ microtasks[1] \in ClientMicrotask /\ 1 \in 1 .. Len(microtasks)
      /\ DOMAIN microtasks = 1 .. Len(microtasks)
      /\ Tail(microtasks) \in Seq(ClientMicrotask)
      /\ Len(Tail(microtasks)) = Len(microtasks) - 1
      /\ \A k \in 1 .. Len(Tail(microtasks)) : Tail(microtasks)[k] = microtasks[k + 1]
  BY TakeOne DEF ClientInv, TypeOK, ClientTypeOK
<1>2. c \in Call /\ Started(c) /\ EndTaskOK(microtasks[1], call[c])
  BY <1>1 DEF ClientMicrotask, ClientInv, TasksMatch, EndsInv
<1>3. ~call[c].obs.completeCalled => ~RequestEnded(c)
  BY <1>1 DEF RequestEnded
<1>4. ASSUME microtasks[1].kind # "next", NEW k \in 1 .. Len(Tail(microtasks)),
             Tail(microtasks)[k].of = c
      PROVE  FALSE
  <2>1. k + 1 \in 1 .. Len(microtasks) /\ 1 < k + 1 /\ microtasks[k + 1].of = c
    BY <1>1, <1>4
  <2> QED BY <1>1, <1>4, <2>1 DEF EndsInv, EndsLast
<1> QED BY <1>1, <1>2, <1>3, <1>4

LEMMA ValueTaskEnds ==
  ASSUME ClientInv, EndsInv, NEW c \in Call, NEW val \in Nat,
         microtasks # <<>>, microtasks' = Tail(microtasks),
         microtasks[1].of = c, microtasks[1].kind = "next", microtasks[1].val = val,
         RequestValueTask(c, val)
  PROVE  EndsInv' /\ RequestEndsOnce
<1> DEFINE rec == [call[c] EXCEPT !.obs = ValueHandled(@)]
           kept == [rec EXCEPT !.firstMessageSent = TRUE]
           o == call[c].obs
<1>1. /\ Started(c) /\ 1 \in 1 .. Len(microtasks) /\ microtasks' \in Seq(ClientMicrotask)
      /\ (~o.completeCalled => ~RequestEnded(c))
  BY FirstTask
<1>2. val <= call[c].sent /\ val + o.tasks > call[c].sent
  BY <1>1 DEF ClientInv, TasksMatch
<1>3. o.tasks \in Nat /\ call[c].sent \in Nat /\ o \in ObserverState /\ call[c] \in CallRecord
      /\ call[c].id \in Id
  BY <1>1, StreamCallTypes, ObserverSteps, ClientAssumption DEF ClientInv, CallsStarted
<1>4. o.tasks > 0
  BY <1>2, <1>3
<1>5. ~o.completeCalled
  BY <1>4 DEF EndsInv, EndOK
<1>6. /\ ValueHandled(o) \in ObserverState /\ ValueHandled(o).tasks = o.tasks - 1
      /\ ValueHandled(o).completed = o.completed
      /\ ValueHandled(o).completeCalled = IsLastValue(o)
  <2>1. ValueHandled(o) \in ObserverState /\ ValueHandled(o).tasks = o.tasks - 1
    BY <1>3, <1>4, ObserverSteps
  <2>2. ValueHandled(o).completed = o.completed
    BY <1>3 DEF ValueHandled, ObserverState
  <2>3. IsLastValue(o) \in BOOLEAN
    BY DEF IsLastValue
  <2>4. ValueHandled(o).completeCalled = (o.completeCalled \/ IsLastValue(o))
    BY <1>3 DEF ValueHandled, ObserverState
  <2> QED BY <1>5, <2>1, <2>2, <2>3, <2>4
<1>7. /\ rec \in CallRecord /\ rec.obs = ValueHandled(o) /\ rec.req = call[c].req
      /\ rec.id = call[c].id
  BY <1>3, <1>6 DEF CallRecord
<1> HIDE DEF rec
<1>8. EndOK(rec)
  <2>1. EndOK(call[c])
    BY DEF EndsInv
  <2>2. rec.obs.completed = o.completed /\ rec.obs.tasks = o.tasks - 1
    BY <1>6, <1>7
  <2>3. rec.obs.completeCalled => o.completed /\ o.tasks = 1
    BY <1>6, <1>7 DEF IsLastValue
  <2> QED BY <1>7, <2>1, <2>2, <2>3 DEF EndOK
<1>9. CASE IsLastValue(o) /\ EndRequest(c, rec, "RequestComplete", val)
  <2> DEFINE new == Cleanup(rec)
  <2>1. call' = [call EXCEPT ![c] = new] /\ PushMessage(Request("RequestComplete", rec, c, val))
    BY <1>9 DEF EndRequest, UpdateCall
  <2>2. new.obs = rec.obs /\ new.req = rec.req /\ new.kind = rec.kind
    BY <1>7, CleanupEnds, CleanupType DEF Evolves
  <2> HIDE DEF new
  <2>3. EndOK(new)
    BY <1>8, <2>2 DEF EndOK
  <2>4. EndsInv'
    BY <1>7, <2>1, <2>2, <2>3, EndsKept
  <2>5. call'[c] = new
    BY <2>1 DEF ClientInv, TypeOK, ClientTypeOK
  <2>6. new.obs.completeCalled /\ new.req # "open" /\ new.kind # "idle"
    <3>1. new.obs.completeCalled /\ new.req = "completed"
      BY <1>6, <1>7, <1>9, <2>2, <2>3 DEF EndOK
    <3>2. rec.kind = call[c].kind
      BY <1>3 DEF rec, CallRecord
    <3> QED BY <1>1, <2>2, <3>1, <3>2 DEF Started
  <2>7. RequestEnded(c)'
    BY <2>5, <2>6 DEF RequestEnded, Started
  <2>8. RequestEndsOnce
    BY <1>1, <1>3, <1>5, <1>7, <2>1, <2>7, EndTypes, RequestEnds
  <2> QED BY <2>4, <2>8
<1>10. CASE /\ call' = [call EXCEPT ![c] = kept]
            /\ PushMessage(Request("RequestData", rec, c, val))
  <2>1. kept.obs = rec.obs /\ kept.req = rec.req
    BY <1>7 DEF CallRecord
  <2> HIDE DEF kept
  <2>2. EndOK(kept)
    BY <1>8, <2>1 DEF EndOK
  <2>3. EndsInv'
    BY <1>7, <1>10, <2>1, <2>2, EndsKept
  <2>4. RequestEndsOnce
    BY <1>1, <1>3, <1>5, <1>7, <1>10, RequestEnds DEF RequestType
  <2> QED BY <2>3, <2>4
<1> QED BY <1>9, <1>10 DEF RequestValueTask, rec

LEMMA FinalTaskEnds ==
  ASSUME ClientInv, EndsInv, NEW c \in Call, NEW kind,
         microtasks # <<>>, microtasks' = Tail(microtasks),
         microtasks[1].of = c, microtasks[1].kind = kind, kind # "next",
         RequestFinalTask(c, kind)
  PROVE  EndsInv' /\ RequestEndsOnce
<1>1. /\ Started(c) /\ call[c] \in CallRecord /\ Alike(call[c], call[c])
      /\ (~call[c].obs.completeCalled => ~RequestEnded(c))
      /\ EndTaskOK(microtasks[1], call[c]) /\ microtasks' \in Seq(ClientMicrotask)
      /\ \A k \in 1 .. Len(microtasks') : microtasks'[k].of # c
  BY FirstTask, StreamCallTypes DEF Alike, SameTasks
<1>2. kind \in {"complete", "error"}
  <2>1. microtasks[1] \in ClientMicrotask
    BY TakeOne DEF ClientInv, TypeOK, ClientTypeOK
  <2> QED BY <2>1 DEF ClientMicrotask
<1>3. call[c].req # "open" /\ EndOK(call[c])
  BY <1>1, <1>2 DEF EndTaskOK, EndsInv
<1>4. CASE NothingPushed /\ UNCHANGED <<call, calls>>
  <2>1. call' = [call EXCEPT ![c] = call[c]]
    BY <1>4 DEF ClientInv, TypeOK, ClientTypeOK
  <2>2. EndsInv'
    BY <2>1, EndsAlike
  <2> QED BY <1>4, <2>2, QuietEnds DEF BufferQuiet
<1>5. ASSUME NEW type \in RequestType, EndRequest(c, call[c], type, NoValue),
             ~call[c].obs.completeCalled
      PROVE  EndsInv' /\ RequestEndsOnce
  <2>1. RequestEndsOnce /\ call' = [call EXCEPT ![c] = Cleanup(call[c])]
    BY <1>1, <1>3, <1>5, EndTypes, EndRequestEnds
  <2>2. Cleanup(call[c]).obs = call[c].obs /\ Cleanup(call[c]).req = call[c].req
    BY <1>1, CleanupEnds
  <2>3. EndsInv'
    BY <2>1, <2>2, EndsAlike
  <2> QED BY <2>1, <2>3
<1>6. CASE kind = "error"
  <2>1. ~call[c].obs.completeCalled
    BY <1>1, <1>3, <1>6 DEF EndTaskOK, EndOK
  <2> QED BY <1>5, <1>6, <2>1, EndTypes DEF RequestFinalTask
<1> QED BY <1>4, <1>5, <1>6, EndTypes DEF RequestFinalTask

LEMMA MicrotaskEnds ==
  ASSUME ClientInv, EndsInv, ClientMicrotaskRuns
  PROVE  EndsInv' /\ RequestEndsOnce
<1>1. PICK t \in ClientMicrotask :
        /\ t = microtasks[1] /\ t = Head(microtasks) /\ t.of \in Call /\ t.val \in Nat
  <2>1. Head(microtasks) = microtasks[1] /\ Head(microtasks) \in ClientMicrotask
    BY TakeOne DEF ClientMicrotaskRuns, ClientInv, TypeOK, ClientTypeOK
  <2> QED BY <2>1 DEF ClientMicrotask
<1>2. microtasks # <<>> /\ microtasks' = Tail(microtasks)
  BY DEF ClientMicrotaskRuns
<1>3. CASE t.kind = "next" /\ RequestValueTask(t.of, t.val)
  BY <1>1, <1>2, <1>3, ValueTaskEnds
<1>4. CASE t.kind # "next" /\ RequestFinalTask(t.of, t.kind)
  BY <1>1, <1>2, <1>4, FinalTaskEnds
<1> QED BY <1>1, <1>3, <1>4 DEF ClientMicrotaskRuns

(* The end of the response touches neither the request nor its tasks.       *)
LEMMA ResponseEnds ==
  ASSUME ClientInv, EndsInv, NEW c \in Call, NEW rec \in CallRecord, NEW how,
         rec.obs = call[c].obs, rec.req = call[c].req,
         UpdateCall(c, EndResponse(rec, how)), microtasks' = microtasks
  PROVE  EndsInv'
<1> DEFINE new == EndResponse(rec, how)
<1>1. new.obs = rec.obs /\ new.req = rec.req
  BY DEF EndResponse, Cleanup, CallRecord
<1>2. call' = [call EXCEPT ![c] = new]
  BY DEF UpdateCall
<1> HIDE DEF new
<1> QED BY <1>1, <1>2, EndsAlike

LEMMA TeardownEnds ==
  ASSUME ClientInv, EndsInv, NEW c \in Call, Started(c), Teardown(c, call[c]),
         microtasks' = microtasks
  PROVE  EndsInv' /\ RequestEndsOnce
<1>1. call[c] \in CallRecord /\ call[c].id \in Id
  BY StreamCallTypes DEF ClientInv, CallsStarted
<1> QED BY <1>1, ResponseEnds, UnsubscribeEnds DEF Teardown

LEMMA SubscriptionKeepsEnds ==
  ASSUME ClientInv, EndsInv, NEW c \in Call, NEW k \in Subscriber,
         SubscriptionStarts(c, k) \/ SubscriptionEnds(c, k)
  PROVE  EndsInv' /\ RequestEndsOnce
<1>1. CASE SubscriptionStarts(c, k)
  BY <1>1, EndsSame, QuietEnds DEF SubscriptionStarts, BufferQuiet
<1>2. CASE SubscriptionEnds(c, k)
  BY <1>2, TeardownEnds DEF SubscriptionEnds
<1> QED BY <1>1, <1>2

LEMMA OnMessageEnds ==
  ASSUME ClientInv, EndsInv, ClientOnMessage
  PROVE  EndsInv' /\ RequestEndsOnce
<1>1. PICK m \in ServerMessage : m = Head(inbox)
  BY TakeOne DEF ClientOnMessage, ClientInv, TypeOK, ClientTypeOK
<1>2. PICK c : c = calls[m.id]
  OBVIOUS
<1>3. CASE NothingPushed /\ UNCHANGED <<call, microtasks>>
  BY <1>3, EndsSame, QuietEnds DEF BufferQuiet
<1>4. CASE c # NoCall
  <2>1. c \in Call /\ Started(c) /\ call[c] \in CallRecord /\ call[c].id \in Id
    BY <1>1, <1>2, <1>4
      DEF ServerMessage, ClientInv, IdsMatch, CallsStarted, TypeOK, ClientTypeOK
  <2>2. CASE OnResponseData(c, m)
    BY <1>3, <2>1, <2>2, TeardownEnds DEF OnResponseData
  <2>3. ASSUME NEW how, Finalize(c, how)
        PROVE  EndsInv' /\ RequestEndsOnce
    <3> DEFINE rec == [call[c] EXCEPT !.resFinalized = TRUE]
    <3>1. /\ rec \in CallRecord /\ rec.obs = call[c].obs /\ rec.req = call[c].req
          /\ rec.id = call[c].id
      BY <2>1 DEF CallRecord
    <3>2. UpdateCall(c, EndResponse(rec, how)) /\ microtasks' = microtasks /\ NothingPushed
      BY <2>3 DEF Finalize
    <3> HIDE DEF rec
    <3>3. EndsInv'
      BY <2>1, <3>1, <3>2, ResponseEnds
    <3> QED BY <3>2, <3>3, QuietEnds DEF BufferQuiet
  <2>4. CASE OnResponseComplete(c, m) \/ OnResponseError(c, m)
    BY <2>3, <2>4 DEF OnResponseComplete, OnResponseError
  <2>5. CASE OnRequestUnsubscribe(c, m)
    BY <1>3, <2>1, <2>5, CompleteRequestEnds DEF OnRequestUnsubscribe
  <2> QED BY <1>1, <1>2, <1>4, <2>2, <2>4, <2>5 DEF ClientOnMessage
<1> QED BY <1>1, <1>2, <1>3, <1>4 DEF ClientOnMessage

LEMMA StopEnds ==
  ASSUME ClientInv, EndsInv, Stop
  PROVE  EndsInv' /\ RequestEndsOnce
<1>1. /\ call' = [c \in Call |-> IF StreamOpen(c) THEN [call[c] EXCEPT !.req = "errored"]
                                                  ELSE call[c]]
      /\ microtasks' = <<>> /\ buf' = <<>> /\ c2s' = c2s
  BY DEF Stop
<1>2. ASSUME NEW c \in Call PROVE EndOK(call'[c])
  <2>1. EndOK(call[c]) /\ call[c] \in CallRecord
    BY DEF EndsInv, ClientInv, TypeOK, ClientTypeOK
  <2>2. CASE StreamOpen(c)
    <3>1. call'[c] = [call[c] EXCEPT !.req = "errored"] /\ call[c].req = "open"
      BY <1>1, <2>2 DEF StreamOpen
    <3>2. call'[c].obs = call[c].obs /\ call'[c].req = "errored"
      BY <2>1, <3>1 DEF CallRecord
    <3> QED BY <2>1, <3>1, <3>2 DEF EndOK
  <2>3. CASE ~StreamOpen(c)
    BY <1>1, <2>1, <2>3
  <2> QED BY <2>2, <2>3
<1>3. 1 .. Len(microtasks') = {}
  BY <1>1
<1>4. EndsInv'
  BY <1>2, <1>3 DEF EndsInv, EndsLast
<1> QED BY <1>1, <1>4, QuietEnds DEF BufferQuiet

LEMMA UserActionEnds ==
  ASSUME ClientInv, EndsInv, UserAction
  PROVE  EndsInv' /\ RequestEndsOnce
<1>1. PICK c \in Call :
        \/ \E id \in Id, m \in Method : CallStream(c, id, m)
        \/ \E id \in Id, m \in Method : \E val \in StaticPayload : CallStatic(c, id, m, val)
        \/ SourceNext(c) \/ SourceComplete(c) \/ SourceError(c)
        \/ \E k \in Subscriber : SubscriptionStarts(c, k) \/ SubscriptionEnds(c, k)
  BY SubscriberSteps DEF UserAction
<1>3. CASE \E k \in Subscriber : SubscriptionStarts(c, k) \/ SubscriptionEnds(c, k)
  BY <1>3, SubscriptionKeepsEnds
<1>4. CASE SourceComplete(c)
  BY <1>4, CompleteRequestEnds DEF SourceComplete
<1> QED BY <1>1, <1>3, <1>4, CallStreamEnds, CallStaticEnds, SourceNextEnds, SourceErrorEnds

LEMMA NextEnds ==
  ASSUME ClientInv, EndsInv, [Next]_openVars
  PROVE  EndsInv' /\ RequestEndsOnce
<1>1. CASE UserAction
  BY <1>1, UserActionEnds
<1>2. CASE ClientMicrotaskRuns
  BY <1>2, MicrotaskEnds
<1>3. CASE ClientOnMessage
  BY <1>3, OnMessageEnds
<1>4. CASE Stop
  BY <1>4, StopEnds
<1>5. CASE ClientReceivesBatch \/ ClientTimerFires
  BY <1>5, EndsSame, QuietEnds DEF ClientReceivesBatch, ClientTimerFires, BufferQuiet
<1>6. CASE ServerSends \/ ServerTakes \/ UNCHANGED openVars
  BY <1>6, EndsSame, QuietEnds
    DEF ServerSends, ServerTakes, openVars, clientVars, BufferQuiet, NothingPushed
<1>7. CASE \E c \in Call, k \in Subscriber : SubscriberTold(c, k)
  BY <1>7, SubscriberSteps, SubscriptionKeepsEnds
<1> QED BY <1>1, <1>2, <1>3, <1>4, <1>5, <1>6, <1>7 DEF Next, ClientNext, ClientCallback

(* A request stream ends once and with its last message, whoever ends it:   *)
(* the user's observable, its last value, or the server's RequestUnsubscribe.*)
THEOREM RequestsEndOnce == Spec => NoRequestAfterItsEnd
<1>1. Init => ClientInv /\ EndsInv
  <2> SUFFICES ASSUME Init PROVE ClientInv /\ EndsInv
    OBVIOUS
  <2>1. call = [c \in Call |-> IdleCall] /\ 1 .. Len(microtasks) = {}
    BY DEF Init, ClientInit
  <2>2. EndOK(IdleCall)
    BY DEF EndOK, IdleCall, NewObserver
  <2> QED BY <2>1, <2>2, InitInv DEF EndsInv, EndsLast
<1>2. ClientInv /\ EndsInv /\ [Next]_openVars => ClientInv' /\ EndsInv'
  BY NextPreserves, NextEnds
<1>3. ClientInv /\ EndsInv /\ [Next]_openVars => [RequestEndsOnce]_clientVars
  BY NextEnds
<1>4. Spec => [][RequestEndsOnce]_clientVars
  BY <1>1, <1>2, <1>3, PTL DEF Spec
<1> QED BY <1>4 DEF NoRequestAfterItsEnd, RequestEndsOnce

-----------------------------------------------------------------------------
(* What a step does to the line of request messages on their way to the     *)
(* server, as one who joins the client to a server needs it.                *)

(* A message of c's request stream was pushed.                              *)
NameSent(c) == call[c].firstMessageSent \/ RequestEnded(c)

(* The values of the request stream that messages have carried.             *)
Passed(c) == call[c].sent - call[c].obs.tasks

(* The end of a request stream that was not passed on waits, too.           *)
FinalWaits(c) ==
  ~stopped /\ Started(c) /\ call[c].req # "open" /\ ~RequestEnded(c) =>
    \E k \in 1 .. Len(microtasks) : microtasks[k].of = c /\ microtasks[k].kind # "next"

(* While the response is open, the count of ended streams tells whether the *)
(* request stream is one.                                                   *)
CountOK(c) ==
  ~stopped /\ Started(c) /\ call[c].res = "open" =>
    call[c].finalizedStreams = IF RequestEnded(c) THEN 1 ELSE 0

(* Every value not passed on waits for its microtask, and the first message *)
(* of a call, which can carry the name of its method, goes before or with   *)
(* its first value.                                                         *)
PassOK(c) ==
  /\ Started(c) => call[c].method # NoMethod
  /\ FinalWaits(c) /\ CountOK(c)
  /\ call[c].obs.tasks <= call[c].sent
  /\ ~stopped => \A v \in (Passed(c) + 1) .. call[c].sent :
       \E k \in 1 .. Len(microtasks) :
         microtasks[k].of = c /\ microtasks[k].kind = "next" /\ microtasks[k].val = v
  /\ Passed(c) > 0 => NameSent(c)

(* stop() leaves no request stream open and no task behind.                 *)
Muted == stopped => microtasks = <<>> /\ \A c \in Call : ~StreamOpen(c)

PassInv == Muted /\ \A c \in Call : PassOK(c)

(* What was done for a call stays done.                                     *)
Kept(c) ==
  /\ Started(c) =>
       Started(c)' /\ call'[c].kind = call[c].kind /\ call'[c].id = call[c].id
  /\ call[c].req # "open" => call'[c].req = call[c].req /\ call'[c].sent = call[c].sent
  /\ NameSent(c) => NameSent(c)'
  /\ RequestEnded(c) => RequestEnded(c)'
  /\ call[c].res # "open" => call'[c].res # "open"

(* No message of c's request stream goes, and none is due (unless stop()    *)
(* mutes the client).                                                       *)
Calm(c) ==
  /\ Passed(c)' = Passed(c)
  /\ ~stopped' => (RequestEnded(c)' => RequestEnded(c)) /\ (NameSent(c)' => NameSent(c))

(* Message m of c's request stream goes: the first one with the method's    *)
(* name, the one that ends it as its end.                                   *)
Goes(m, c) ==
  /\ m \in ClientMessage /\ m.type \in RequestType /\ m.of = c /\ PushMessage(m)
  /\ Started(c)' /\ call'[c].id = m.id
  /\ ~RequestEnded(c) /\ NameSent(c)'
  /\ m.method # NoMethod <=> ~NameSent(c)
  /\ m.type # "RequestData" <=> RequestEnded(c)'
  /\ call'[c].kind = "stream" =>
       /\ m.val # NoValue => m.val = Passed(c) + 1 /\ Passed(c)' = m.val
       /\ m.val = NoValue => Passed(c)' = Passed(c)
       /\ m.type = "RequestComplete" =>
            call'[c].req = "completed" /\ Passed(c)' = call'[c].sent

(* An unsubscribe message goes, and no other.                               *)
Leaves(c) == Started(c) /\ call[c].id \in Id /\ PushMessage(Unsubscribe(call[c], c))

(* No message is pushed.                                                    *)
NoneGoes ==
  \/ NothingPushed
  \/ ~stopped /\ Buffer!TimerFires
  \/ stopped' /\ buf' = <<>> /\ c2s' = c2s

LineStep ==
  /\ PassInv'
  /\ \A d \in Call : Kept(d)
  /\ \/ \E c \in Call, m \in ClientMessage : Goes(m, c) /\ \A d \in Call \ {c} : Calm(d)
     \/ (NoneGoes \/ \E c \in Call : Leaves(c)) /\ \A d \in Call : Calm(d)

LineInv == ClientInv /\ EndsInv /\ PassInv

SameResponse(old, new) ==
  new.res = old.res /\ new.finalizedStreams = old.finalizedStreams

(* A step that leaves the request streams alone, and may end the response.  *)
SameRequest(old, new) ==
  /\ new.res # "open" \/ SameResponse(old, new)
  /\ new.kind = old.kind /\ new.id = old.id /\ new.method = old.method
  /\ new.req = old.req /\ new.sent = old.sent
  /\ new.obs = old.obs /\ new.firstMessageSent = old.firstMessageSent

LEMMA SameCalls ==
  ASSUME LineInv, \A d \in Call : SameRequest(call[d], call'[d]),
         microtasks' = microtasks, stopped' = stopped
  PROVE  PassInv' /\ \A d \in Call : Kept(d) /\ Calm(d)
<1>4. Muted'
  BY DEF LineInv, PassInv, Muted, SameRequest, StreamOpen
<1> SUFFICES ASSUME NEW d \in Call PROVE PassOK(d)' /\ Kept(d) /\ Calm(d)
  BY <1>4 DEF PassInv
<1>1. RequestEnded(d)' = RequestEnded(d) /\ NameSent(d)' = NameSent(d)
      /\ Passed(d)' = Passed(d) /\ Started(d)' = Started(d)
  BY DEF SameRequest, RequestEnded, NameSent, Passed, Started
<1>2. PassOK(d)
  BY DEF LineInv, PassInv
<1>3. PassOK(d)'
  BY <1>1, <1>2 DEF PassOK, FinalWaits, CountOK, SameRequest, SameResponse
<1> QED BY <1>1, <1>3 DEF Kept, Calm, SameRequest, SameResponse

(* The tasks of other calls than c stay in the queue as they are.           *)
OthersWait(c) ==
  /\ \A k \in 1 .. Len(microtasks) : microtasks[k].of # c =>
       \E n \in 1 .. Len(microtasks') : microtasks'[n] = microtasks[k]
  /\ \A k \in 1 .. Len(microtasks') : microtasks'[k].of # c =>
       \E n \in 1 .. Len(microtasks) : microtasks[n] = microtasks'[k]

LEMMA QueueSteps ==
  ASSUME microtasks \in Seq(ClientMicrotask), NEW c,
         \/ microtasks' = microtasks
         \/ microtasks # <<>> /\ microtasks' = Tail(microtasks) /\ microtasks[1].of = c
         \/ \E t \in ClientMicrotask : t.of = c /\ microtasks' = Append(microtasks, t)
  PROVE  microtasks' \in Seq(ClientMicrotask) /\ OthersWait(c)
<1>1. CASE microtasks' = microtasks
  BY <1>1 DEF OthersWait
<1>2. CASE microtasks # <<>> /\ microtasks' = Tail(microtasks) /\ microtasks[1].of = c
  <2>1. /\ microtasks' \in Seq(ClientMicrotask)
        /\ Len(microtasks) \in Nat \ {0} /\ Len(microtasks') = Len(microtasks) - 1
        /\ \A i \in 1 .. Len(microtasks') : microtasks'[i] = microtasks[i + 1]
    BY <1>2, TakeOne
  <2>2. ASSUME NEW k \in 1 .. Len(microtasks), microtasks[k].of # c
        PROVE  \E n \in 1 .. Len(microtasks') : microtasks'[n] = microtasks[k]
    <3>1. k # 1
      BY <1>2, <2>2
    <3>2. k - 1 \in 1 .. Len(microtasks') /\ (k - 1) + 1 = k
      BY <2>1, <3>1
    <3> QED BY <2>1, <3>2
  <2>3. \A k \in 1 .. Len(microtasks') : k + 1 \in 1 .. Len(microtasks)
    BY <2>1
  <2> QED BY <2>1, <2>2, <2>3 DEF OthersWait
<1>3. ASSUME NEW t \in ClientMicrotask, t.of = c, microtasks' = Append(microtasks, t)
      PROVE  microtasks' \in Seq(ClientMicrotask) /\ OthersWait(c)
  <2>1. /\ microtasks' \in Seq(ClientMicrotask)
        /\ Len(microtasks) \in Nat /\ Len(microtasks') = Len(microtasks) + 1
        /\ \A i \in 1 .. Len(microtasks) : microtasks'[i] = microtasks[i]
        /\ microtasks'[Len(microtasks) + 1] = t
    BY <1>3, AppendOne
  <2>2. \A k \in 1 .. Len(microtasks) : k \in 1 .. Len(microtasks')
    BY <2>1
  <2>3. \A k \in 1 .. Len(microtasks') : k \in 1 .. Len(microtasks) \/ k = Len(microtasks) + 1
    BY <2>1
  <2> QED BY <1>3, <2>1, <2>2, <2>3 DEF OthersWait
<1> QED BY <1>1, <1>2, <1>3

(* A step of one call: the other calls see at most that the queue of tasks  *)
(* lost one or got one that is not theirs.                                  *)
LEMMA OtherCalls ==
  ASSUME LineInv, NEW c \in Call, NEW rec, call' = [call EXCEPT ![c] = rec], stopped => stopped',
         OthersWait(c), microtasks' \in Seq(ClientMicrotask)
  PROVE  /\ call'[c] = rec
         /\ \A d \in Call \ {c} : PassOK(d)' /\ Kept(d) /\ Calm(d)
<1>1. call'[c] = rec /\ \A d \in Call \ {c} : call'[d] = call[d]
  BY DEF LineInv, ClientInv, TypeOK, ClientTypeOK
<1> SUFFICES ASSUME NEW d \in Call \ {c} PROVE PassOK(d)' /\ Kept(d) /\ Calm(d)
  BY <1>1
<1>2. /\ microtasks \in Seq(ClientMicrotask) /\ DOMAIN microtasks = 1 .. Len(microtasks)
      /\ DOMAIN microtasks' = 1 .. Len(microtasks') /\ d # c /\ call'[d] = call[d]
  BY <1>1 DEF LineInv, ClientInv, TypeOK, ClientTypeOK
<1>3. Passed(d)' = Passed(d) /\ Started(d)' = Started(d) /\ PassOK(d)
  BY <1>2 DEF Passed, Started, LineInv, PassInv
<1>4. RequestEnded(d)' <=> RequestEnded(d)
  <2>1. (\A k \in DOMAIN microtasks : microtasks[k].of # d)
          <=> (\A k \in DOMAIN microtasks' : microtasks'[k].of # d)
    BY <1>2 DEF OthersWait
  <2> QED BY <1>2, <1>3, <2>1 DEF RequestEnded
<1>5. NameSent(d)' <=> NameSent(d)
  BY <1>2, <1>4 DEF NameSent
<1>6. ASSUME ~stopped, NEW v \in (Passed(d) + 1) .. call[d].sent
      PROVE  \E k \in 1 .. Len(microtasks') :
               microtasks'[k].of = d /\ microtasks'[k].kind = "next" /\ microtasks'[k].val = v
  <2>1. PICK k \in 1 .. Len(microtasks) :
          microtasks[k].of = d /\ microtasks[k].kind = "next" /\ microtasks[k].val = v
    BY <1>3, <1>6 DEF PassOK
  <2> QED BY <1>2, <2>1 DEF OthersWait
<1>7. FinalWaits(d)'
  BY <1>2, <1>3, <1>4 DEF PassOK, FinalWaits, OthersWait
<1>8. PassOK(d)'
  <2>1. CountOK(d)'
    BY <1>2, <1>3, <1>4 DEF PassOK, CountOK
  <2> QED BY <1>2, <1>3, <1>5, <1>6, <1>7, <2>1 DEF PassOK
<1> QED BY <1>2, <1>3, <1>4, <1>5, <1>8 DEF Kept, Calm

LEMMA OneCall ==
  ASSUME LineInv, NEW c \in Call, NEW rec, call' = [call EXCEPT ![c] = rec], ~stopped, ~stopped',
         OthersWait(c), microtasks' \in Seq(ClientMicrotask), PassOK(c)', Kept(c),
         \/ \E m \in ClientMessage : Goes(m, c)
         \/ NoneGoes /\ Calm(c)
  PROVE  LineStep
<1>1. \A d \in Call \ {c} : PassOK(d)' /\ Kept(d) /\ Calm(d)
  BY OtherCalls DEF LineInv, PassInv, ClientInv, TypeOK, ClientTypeOK
<1>2. PassInv'
  BY <1>1 DEF PassInv, Muted
<1> QED BY <1>1, <1>2 DEF LineStep

(* A message of the request stream of c, which becomes rec.                 *)
LEMMA RequestGoes ==
  ASSUME NEW rec \in CallRecord, rec.id \in Id, NEW c \in Call, NEW val \in Nat,
         NEW type \in RequestType, PushMessage(Request(type, rec, c, val)),
         Started(c)', call'[c].id = rec.id, rec.firstMessageSent = call[c].firstMessageSent,
         rec.method # NoMethod,
         ~RequestEnded(c), NameSent(c)', type # "RequestData" <=> RequestEnded(c)',
         call'[c].kind = "stream" =>
           /\ val # NoValue => val = Passed(c) + 1 /\ Passed(c)' = val
           /\ val = NoValue => Passed(c)' = Passed(c)
           /\ type = "RequestComplete" =>
                call'[c].req = "completed" /\ Passed(c)' = call'[c].sent
  PROVE  \E m \in ClientMessage : Goes(m, c)
<1> DEFINE m == Request(type, rec, c, val)
<1>1. /\ m \in ClientMessage /\ m.type = type /\ m.of = c /\ m.id = rec.id /\ m.val = val
      /\ m.method # NoMethod <=> ~rec.firstMessageSent
  <2>1. rec.firstMessageSent \in BOOLEAN
    BY DEF CallRecord
  <2> QED BY <2>1, RequestTypeOK DEF Request
<1>2. PushMessage(m)
  OBVIOUS
<1> HIDE DEF m
<1>3. m.method # NoMethod <=> ~NameSent(c)
  BY <1>1 DEF NameSent
<1>4. Goes(m, c)
  BY <1>1, <1>2, <1>3 DEF Goes
<1> QED BY <1>1, <1>4

LEMMA Amounts ==
  ASSUME LineInv, NEW c \in Call
  PROVE  /\ call[c] \in CallRecord /\ call[c].sent \in Nat /\ call[c].obs \in ObserverState
         /\ call[c].obs.tasks \in Nat /\ call[c].obs.tasks <= call[c].sent /\ Passed(c) \in Nat
         /\ microtasks \in Seq(ClientMicrotask) /\ DOMAIN microtasks = 1 .. Len(microtasks)
         /\ call \in [Call -> CallRecord]
<1>1. /\ call[c] \in CallRecord /\ call[c].sent \in Nat /\ call[c].obs \in ObserverState
      /\ microtasks \in Seq(ClientMicrotask) /\ call \in [Call -> CallRecord]
  BY ClientAssumption DEF LineInv, ClientInv, TypeOK, ClientTypeOK, CallRecord
<1>2. call[c].obs.tasks \in Nat /\ call[c].obs.tasks <= call[c].sent
  BY <1>1, ObserverSteps DEF LineInv, PassInv, PassOK
<1> QED BY <1>1, <1>2 DEF Passed

(* The last message of the request stream of c goes, with nothing waiting.  *)
LEMMA EndRequestLine ==
  ASSUME LineInv, NEW c \in Call, NEW rec \in CallRecord, Started(c), ~stopped, ~stopped',
         rec.kind = call[c].kind, rec.id = call[c].id, rec.sent = call[c].sent,
         rec.method = call[c].method, SameResponse(call[c], rec),
         rec.firstMessageSent = call[c].firstMessageSent, rec.req # "open",
         call[c].req # "open" => rec.req = call[c].req, rec.obs.tasks = 0,
         NEW type \in RequestType \ {"RequestData"}, type = "RequestComplete" => rec.req = "completed",
         NEW val \in Nat, EndRequest(c, rec, type, val), ~RequestEnded(c),
         OthersWait(c), microtasks' \in Seq(ClientMicrotask),
         rec.obs.completeCalled \/ \A k \in 1 .. Len(microtasks') : microtasks'[k].of # c,
         IF val = NoValue THEN call[c].obs.tasks = 0
                          ELSE val = call[c].sent /\ call[c].obs.tasks = 1
  PROVE  LineStep
<1> DEFINE new == Cleanup(rec)
<1>1. /\ new \in CallRecord /\ new.kind = call[c].kind /\ new.id = call[c].id
      /\ new.method = call[c].method
      /\ new.sent = call[c].sent /\ new.req = rec.req /\ new.obs = rec.obs
      /\ new.firstMessageSent = call[c].firstMessageSent
      /\ new.res = call[c].res /\ new.finalizedStreams = call[c].finalizedStreams + 1
  BY DEF Cleanup, CallRecord, SameResponse
<1>2. call' = [call EXCEPT ![c] = new] /\ PushMessage(Request(type, rec, c, val))
  BY DEF EndRequest, UpdateCall
<1> HIDE DEF new
<1>3. call'[c] = new /\ DOMAIN microtasks' = 1 .. Len(microtasks')
  BY <1>2, Amounts
<1>4. RequestEnded(c)' /\ Started(c)' /\ NameSent(c)'
  BY <1>1, <1>3 DEF RequestEnded, Started, NameSent
<1>5. /\ call[c].sent \in Nat /\ call[c].obs.tasks \in Nat /\ call[c].id \in Id
      /\ Passed(c)' = call[c].sent
      /\ Passed(c) = call[c].sent - call[c].obs.tasks
  BY <1>1, <1>3, Amounts DEF Passed, LineInv, ClientInv, CallsStarted
<1>11. rec.method # NoMethod
  BY DEF LineInv, PassInv, PassOK
<1>12. CountOK(c)'
  <2>1. CountOK(c)
    BY DEF LineInv, PassInv, PassOK
  <2>2. call[c].res = "open" => call[c].finalizedStreams = 0
    BY <2>1 DEF CountOK
  <2> QED BY <1>1, <1>3, <1>4, <2>2 DEF CountOK
<1>6. PassOK(c)'
  BY <1>1, <1>3, <1>4, <1>5, <1>11, <1>12 DEF PassOK, FinalWaits
<1>7. Kept(c)
  BY <1>1, <1>3, <1>4 DEF Kept
<1>8. /\ val # NoValue => val = Passed(c) + 1 /\ Passed(c)' = val
      /\ val = NoValue => Passed(c)' = Passed(c)
  BY <1>5
<1>9. type = "RequestComplete" => call'[c].req = "completed" /\ Passed(c)' = call'[c].sent
  BY <1>1, <1>3, <1>5
<1>10. \E m \in ClientMessage : Goes(m, c)
  BY <1>1, <1>2, <1>3, <1>4, <1>5, <1>8, <1>9, <1>11, RequestGoes
<1> QED BY <1>2, <1>6, <1>7, <1>10, OneCall

(* A step of c's request stream that only queues the task of its end.       *)
LEMMA EndWaits ==
  ASSUME LineInv, NEW c \in Call, StreamOpen(c), ~stopped, ~stopped', NEW rec \in CallRecord,
         rec.kind = call[c].kind, rec.id = call[c].id, rec.sent = call[c].sent,
         rec.method = call[c].method, rec.req # "open", SameResponse(call[c], rec),
         rec.firstMessageSent = call[c].firstMessageSent, rec.obs.tasks = call[c].obs.tasks,
         rec.obs.completeCalled = call[c].obs.completeCalled,
         call' = [call EXCEPT ![c] = rec], NEW t \in ClientMicrotask, t.of = c, t.kind # "next",
         microtasks' = Append(microtasks, t), NothingPushed
  PROVE  LineStep
<1>1. /\ microtasks' \in Seq(ClientMicrotask) /\ OthersWait(c)
      /\ \A k \in 1 .. Len(microtasks) : k \in 1 .. Len(microtasks') /\ microtasks'[k] = microtasks[k]
      /\ Len(microtasks) + 1 \in 1 .. Len(microtasks') /\ microtasks'[Len(microtasks) + 1] = t
      /\ DOMAIN microtasks' = 1 .. Len(microtasks')
  <2>1. microtasks \in Seq(ClientMicrotask)
    BY Amounts
  <2> QED BY <2>1, AppendOne, QueueSteps
<1>2. call'[c] = rec
  BY Amounts
<1>3. Passed(c)' = Passed(c) /\ Started(c)' /\ ~RequestEnded(c) /\ call[c].req = "open"
  BY <1>2 DEF Passed, Started, StreamOpen, RequestEnded
<1>8. ~call[c].obs.completeCalled
  BY <1>3 DEF LineInv, EndsInv, EndOK
<1>9. ~RequestEnded(c)'
  BY <1>1, <1>2, <1>8 DEF RequestEnded
<1>4. NameSent(c)' = NameSent(c)
  BY <1>2, <1>3, <1>9 DEF NameSent
<1>5. PassOK(c)
  BY DEF LineInv, PassInv
<1>10. FinalWaits(c)'
  BY <1>1 DEF FinalWaits
<1>11. Started(c)
  BY DEF StreamOpen, Started
<1>12. CountOK(c)'
  BY <1>2, <1>3, <1>5, <1>9, <1>11 DEF PassOK, CountOK, SameResponse
<1>6. PassOK(c)'
  BY <1>1, <1>2, <1>3, <1>4, <1>5, <1>10, <1>11, <1>12 DEF PassOK
<1>7. Kept(c) /\ Calm(c)
  BY <1>2, <1>3, <1>4, <1>9 DEF Kept, Calm, SameResponse
<1> QED BY <1>1, <1>6, <1>7, OneCall DEF NoneGoes

LEMMA OpenIsLive ==
  ASSUME LineInv, NEW c \in Call, StreamOpen(c)
  PROVE  ~stopped /\ Started(c) /\ call[c].req = "open" /\ ~RequestEnded(c)
BY DEF LineInv, PassInv, Muted, StreamOpen, Started, RequestEnded

LEMMA CompleteRequestLine ==
  ASSUME LineInv, NEW c \in Call, StreamOpen(c), CompleteRequest(c), stopped' = stopped
  PROVE  LineStep
<1> DEFINE rec == [call[c] EXCEPT !.req = "completed", !.obs = SourceCompleted(@)]
           t == Task(c, "complete", NoValue)
<1>1. /\ call[c] \in CallRecord /\ call[c].obs \in ObserverState
      /\ SourceCompleted(call[c].obs) \in ObserverState
      /\ SourceCompleted(call[c].obs).tasks = call[c].obs.tasks
      /\ SourceCompleted(call[c].obs).completeCalled = call[c].obs.completeCalled
  <2>1. call[c] \in CallRecord /\ call[c].obs \in ObserverState
    BY Amounts
  <2>2. SourceCompleted(call[c].obs).completeCalled = call[c].obs.completeCalled
    BY <2>1 DEF SourceCompleted, ObserverState
  <2> QED BY <2>1, <2>2, ObserverSteps
<1>2. /\ rec \in CallRecord /\ rec.kind = call[c].kind /\ rec.id = call[c].id
      /\ rec.method = call[c].method
      /\ rec.sent = call[c].sent /\ rec.firstMessageSent = call[c].firstMessageSent
      /\ rec.req = "completed" /\ rec.obs.tasks = call[c].obs.tasks
      /\ rec.obs.completeCalled = call[c].obs.completeCalled /\ SameResponse(call[c], rec)
  BY <1>1 DEF CallRecord, SameResponse
<1>3. /\ ~stopped /\ Started(c) /\ call[c].req = "open" /\ ~RequestEnded(c) /\ NoValue \in Nat
      /\ "RequestComplete" \in RequestType \ {"RequestData"}
  BY OpenIsLive, EndTypes
<1> HIDE DEF rec
<1>4. CASE /\ PassedOnAtOnce(rec.obs) /\ EndRequest(c, rec, "RequestComplete", NoValue)
           /\ microtasks' = microtasks
  <2>1. rec.obs.tasks = 0 /\ call[c].obs.tasks = 0
    BY <1>2, <1>4 DEF PassedOnAtOnce
  <2>2. \A k \in 1 .. Len(microtasks) : microtasks[k].of # c
    BY <1>3, <2>1, NothingWaits DEF LineInv
  <2>3. microtasks' \in Seq(ClientMicrotask) /\ OthersWait(c)
    BY <1>4, Amounts, QueueSteps
  <2> QED BY <1>2, <1>3, <1>4, <2>1, <2>2, <2>3, EndRequestLine
<1>5. CASE /\ microtasks' = Append(microtasks, t)
           /\ call' = [call EXCEPT ![c] = rec] /\ NothingPushed
  <2>1. t \in ClientMicrotask /\ t.of = c /\ t.kind # "next"
    BY DEF Task, ClientMicrotask, NoValue
  <2>2. rec.req # "open"
    BY <1>2
  <2> HIDE DEF t
  <2> QED BY <1>2, <1>3, <1>5, <2>1, <2>2, EndWaits
<1> QED BY <1>4, <1>5 DEF CompleteRequest, rec

LEMMA SourceErrorLine ==
  ASSUME LineInv, NEW c \in Call, SourceError(c)
  PROVE  LineStep
<1> DEFINE rec == [call[c] EXCEPT !.req = "errored"]
           t == Task(c, "error", NoValue)
<1>1. call[c] \in CallRecord /\ StreamOpen(c) /\ stopped' = stopped
  BY Amounts DEF SourceError
<1>2. /\ rec \in CallRecord /\ rec.kind = call[c].kind /\ rec.id = call[c].id
      /\ rec.method = call[c].method
      /\ rec.sent = call[c].sent /\ rec.firstMessageSent = call[c].firstMessageSent
      /\ rec.req = "errored" /\ rec.obs = call[c].obs /\ SameResponse(call[c], rec)
  BY <1>1 DEF CallRecord, SameResponse
<1>3. /\ ~stopped /\ Started(c) /\ call[c].req = "open" /\ ~RequestEnded(c) /\ NoValue \in Nat
      /\ "RequestError" \in RequestType \ {"RequestData"}
  BY <1>1, OpenIsLive, EndTypes
<1> HIDE DEF rec
<1>4. CASE /\ PassedOnAtOnce(rec.obs) /\ EndRequest(c, rec, "RequestError", NoValue)
           /\ microtasks' = microtasks
  <2>1. rec.obs.tasks = 0 /\ call[c].obs.tasks = 0
    BY <1>2, <1>4 DEF PassedOnAtOnce
  <2>2. \A k \in 1 .. Len(microtasks) : microtasks[k].of # c
    BY <1>3, <2>1, NothingWaits DEF LineInv
  <2>3. microtasks' \in Seq(ClientMicrotask) /\ OthersWait(c)
    BY <1>4, Amounts, QueueSteps
  <2> QED BY <1>1, <1>2, <1>3, <1>4, <2>1, <2>2, <2>3, EndRequestLine
<1>5. CASE /\ microtasks' = Append(microtasks, t)
           /\ call' = [call EXCEPT ![c] = rec] /\ NothingPushed
  <2>1. t \in ClientMicrotask /\ t.of = c /\ t.kind # "next"
    BY DEF Task, ClientMicrotask, NoValue
  <2> HIDE DEF t
  <2>2. /\ rec.obs.tasks = call[c].obs.tasks /\ rec.req # "open"
        /\ rec.obs.completeCalled = call[c].obs.completeCalled
    BY <1>2
  <2> QED BY <1>1, <1>2, <1>3, <1>5, <2>1, <2>2, EndWaits
<1> QED BY <1>4, <1>5 DEF SourceError, rec

LEMMA SourceNextLine ==
  ASSUME LineInv, NEW c \in Call, SourceNext(c)
  PROVE  LineStep
<1> DEFINE rec == [call[c] EXCEPT !.sent = @ + 1, !.obs = ValueQueued(@)]
           t == Task(c, "next", call[c].sent + 1)
<1>1. /\ StreamOpen(c) /\ call' = [call EXCEPT ![c] = rec]
      /\ microtasks' = Append(microtasks, t) /\ NothingPushed /\ stopped' = stopped
  BY DEF SourceNext
<1>2. /\ call[c] \in CallRecord /\ call[c].sent \in Nat /\ call[c].obs \in ObserverState
      /\ call[c].obs.tasks \in Nat /\ call[c].obs.tasks <= call[c].sent
      /\ microtasks \in Seq(ClientMicrotask)
  BY Amounts
<1>3. /\ rec.kind = call[c].kind /\ rec.id = call[c].id /\ rec.req = call[c].req
      /\ rec.method = call[c].method
      /\ rec.firstMessageSent = call[c].firstMessageSent
      /\ rec.sent = call[c].sent + 1 /\ rec.obs.tasks = call[c].obs.tasks + 1
      /\ SameResponse(call[c], rec)
  BY <1>2, ObserverSteps DEF CallRecord, SameResponse
<1>4. t \in ClientMicrotask /\ t.of = c /\ t.kind = "next" /\ t.val = call[c].sent + 1
  BY <1>2 DEF Task, ClientMicrotask
<1> HIDE DEF rec, t
<1>5. /\ microtasks' \in Seq(ClientMicrotask) /\ OthersWait(c)
      /\ \A k \in 1 .. Len(microtasks) : k \in 1 .. Len(microtasks') /\ microtasks'[k] = microtasks[k]
      /\ Len(microtasks) + 1 \in 1 .. Len(microtasks') /\ microtasks'[Len(microtasks) + 1] = t
  BY <1>1, <1>2, <1>4, AppendOne, QueueSteps
<1>6. ~stopped /\ Started(c) /\ call[c].req = "open" /\ ~RequestEnded(c)
  BY <1>1, OpenIsLive
<1>7. call'[c] = rec
  BY <1>1, Amounts
<1>8. /\ Passed(c)' = Passed(c) /\ Started(c)' /\ NameSent(c)' = NameSent(c)
      /\ ~RequestEnded(c)'
  BY <1>2, <1>3, <1>6, <1>7, SMTT(30) DEF Passed, Started, NameSent, RequestEnded
<1>9. PassOK(c)
  BY DEF LineInv, PassInv
<1>10. ASSUME NEW v \in (Passed(c) + 1) .. (call[c].sent + 1)
       PROVE  \E k \in 1 .. Len(microtasks') :
                microtasks'[k].of = c /\ microtasks'[k].kind = "next" /\ microtasks'[k].val = v
  <2>1. CASE v = call[c].sent + 1
    BY <1>4, <1>5, <2>1
  <2>2. CASE v # call[c].sent + 1
    <3>1. v \in (Passed(c) + 1) .. call[c].sent
      <4>1. Passed(c) \in Nat
        BY Amounts
      <4> QED BY <1>2, <2>2, <4>1
    <3>2. PICK k \in 1 .. Len(microtasks) :
            microtasks[k].of = c /\ microtasks[k].kind = "next" /\ microtasks[k].val = v
      BY <1>6, <1>9, <3>1 DEF PassOK
    <3> QED BY <1>5, <3>2
  <2> QED BY <2>1, <2>2
<1>11. PassOK(c)'
  <2>1. FinalWaits(c)' /\ CountOK(c)' /\ (Started(c)' => call'[c].method # NoMethod)
    BY <1>1, <1>3, <1>6, <1>7, <1>8, <1>9 DEF FinalWaits, CountOK, SameResponse, PassOK
  <2> QED BY <1>2, <1>3, <1>7, <1>8, <1>9, <1>10, <2>1 DEF PassOK
<1>12. Kept(c) /\ Calm(c)
  BY <1>3, <1>6, <1>7, <1>8 DEF Kept, Calm, SameResponse
<1> QED BY <1>1, <1>5, <1>6, <1>11, <1>12, OneCall DEF NoneGoes

LEMMA CallStreamLine ==
  ASSUME LineInv, NEW c \in Call, NEW id \in Id, NEW m \in Method, CallStream(c, id, m)
  PROVE  LineStep
<1> DEFINE rec == [IdleCall EXCEPT !.kind = "stream", !.id = id, !.method = m]
<1>1. /\ ~Started(c) /\ call' = [call EXCEPT ![c] = rec] /\ microtasks' = microtasks
      /\ ~stopped /\ stopped' = stopped /\ NothingPushed
  BY DEF CallStream, StartCall, Started
<1>2. call[c] = IdleCall
  BY <1>1 DEF LineInv, ClientInv, CallsStarted
<1>3. /\ rec.sent = 0 /\ rec.obs = NewObserver /\ rec.req = "open" /\ rec.firstMessageSent = FALSE
      /\ rec.method = m /\ m # NoMethod /\ rec.res = "open" /\ rec.finalizedStreams = 0
  BY MessagesAssumption DEF IdleCall
<1> HIDE DEF rec
<1>4. call'[c] = rec /\ microtasks' \in Seq(ClientMicrotask) /\ OthersWait(c)
  BY <1>1, Amounts, QueueSteps
<1>5. /\ Passed(c) = 0 /\ Passed(c)' = 0 /\ ~NameSent(c) /\ ~RequestEnded(c)
      /\ ~NameSent(c)' /\ ~RequestEnded(c)'
  BY <1>1, <1>2, <1>3, <1>4 DEF Passed, NewObserver, IdleCall, NameSent, RequestEnded
<1>6. PassOK(c)'
  BY <1>3, <1>4, <1>5 DEF PassOK, FinalWaits, CountOK, NewObserver
<1>7. Kept(c) /\ Calm(c)
  BY <1>1, <1>2, <1>5 DEF Kept, Calm, IdleCall
<1> QED BY <1>1, <1>4, <1>6, <1>7, OneCall DEF NoneGoes

LEMMA CallStaticLine ==
  ASSUME LineInv, NEW c \in Call, NEW id \in Id, NEW m \in Method,
         NEW val \in StaticPayload, CallStatic(c, id, m, val)
  PROVE  LineStep
<1> DEFINE rec == [IdleCall EXCEPT !.kind = "static", !.id = id, !.method = m]
           done == [rec EXCEPT !.req = "completed"]
           new == Cleanup(done)
<1>1. /\ ~Started(c) /\ call' = [call EXCEPT ![c] = new] /\ microtasks' = microtasks
      /\ ~stopped /\ stopped' = stopped /\ PushMessage(Request("RequestComplete", rec, c, val))
  BY DEF CallStatic, StartCall, Started
<1>2. call[c] = IdleCall
  BY <1>1 DEF LineInv, ClientInv, CallsStarted
<1>3. /\ rec \in CallRecord /\ rec.id = id /\ rec.firstMessageSent = FALSE /\ done \in CallRecord
      /\ done.kind = "static" /\ done.id = id /\ done.sent = 0 /\ done.obs = NewObserver
      /\ done.req = "completed" /\ done.firstMessageSent = FALSE
      /\ rec.method = m /\ done.method = m /\ m # NoMethod
      /\ done.res = "open" /\ done.finalizedStreams = 0
  <2>1. rec \in CallRecord /\ done \in CallRecord
    BY IdleTypes DEF CallRecord
  <2>2. /\ rec.id = id /\ rec.firstMessageSent = FALSE
        /\ done.kind = "static" /\ done.id = id /\ done.sent = 0 /\ done.obs = NewObserver
        /\ done.req = "completed" /\ done.firstMessageSent = FALSE
        /\ rec.method = m /\ done.method = m /\ m # NoMethod
        /\ done.res = "open" /\ done.finalizedStreams = 0
    BY MessagesAssumption DEF IdleCall
  <2> HIDE DEF rec, done
  <2> QED BY <2>1, <2>2
<1> HIDE DEF rec, done
<1>4. /\ new.kind = "static" /\ new.id = id /\ new.sent = 0 /\ new.obs = NewObserver
      /\ new.req = "completed" /\ new.method = m
      /\ new.res = "open" /\ new.finalizedStreams = 1
  BY <1>3 DEF Cleanup, CallRecord
<1> HIDE DEF new
<1>5. /\ call'[c] = new /\ microtasks' \in Seq(ClientMicrotask) /\ OthersWait(c)
      /\ DOMAIN microtasks' = 1 .. Len(microtasks)
  BY <1>1, Amounts, QueueSteps
<1>6. \A k \in 1 .. Len(microtasks) : microtasks'[k].of # c
  BY <1>1 DEF LineInv, ClientInv, TasksMatch
<1>7. RequestEnded(c)' /\ NameSent(c)' /\ Started(c)'
  BY <1>4, <1>5, <1>6 DEF RequestEnded, NameSent, Started
<1>8. /\ Passed(c) = 0 /\ Passed(c)' = 0 /\ ~NameSent(c) /\ ~RequestEnded(c)
  BY <1>1, <1>2, <1>4, <1>5 DEF Passed, NewObserver, IdleCall, NameSent, RequestEnded
<1>9. PassOK(c)'
  BY <1>3, <1>4, <1>5, <1>7, <1>8 DEF PassOK, FinalWaits, CountOK, NewObserver
<1>10. Kept(c)
  BY <1>1, <1>2, <1>8 DEF Kept, IdleCall
<1>11. val \in Nat /\ call[c].firstMessageSent = FALSE
  BY <1>2, ClientAssumption DEF IdleCall
<1>12. \E msg \in ClientMessage : Goes(msg, c)
  BY <1>1, <1>3, <1>4, <1>5, <1>7, <1>8, <1>11, EndTypes, RequestGoes
<1> QED BY <1>1, <1>5, <1>9, <1>10, <1>12, OneCall

(* The task at the head of the queue belongs to call c.                     *)
LEMMA HeadTask ==
  ASSUME LineInv, microtasks # <<>>, microtasks' = Tail(microtasks), NEW c, c = microtasks[1].of
  PROVE  /\ ~stopped /\ c \in Call /\ Started(c) /\ 1 \in 1 .. Len(microtasks)
         /\ microtasks' \in Seq(ClientMicrotask) /\ OthersWait(c)
         /\ Len(microtasks') = Len(microtasks) - 1
         /\ \A k \in 1 .. Len(microtasks') : microtasks'[k] = microtasks[k + 1]
         /\ \A k \in 1 .. Len(microtasks) :
              k # 1 => k - 1 \in 1 .. Len(microtasks') /\ microtasks'[k - 1] = microtasks[k]
<1>1. /\ ~stopped /\ c \in Call /\ Started(c)
  BY FirstTask DEF LineInv, PassInv, Muted
<1>2. microtasks \in Seq(ClientMicrotask) /\ OthersWait(c)
  <2>1. microtasks \in Seq(ClientMicrotask)
    BY DEF LineInv, ClientInv, TypeOK, ClientTypeOK
  <2> QED BY <2>1, QueueSteps
<1>3. /\ Len(microtasks) \in Nat \ {0} /\ Len(microtasks') = Len(microtasks) - 1
      /\ microtasks' \in Seq(ClientMicrotask)
      /\ \A k \in 1 .. Len(microtasks') : microtasks'[k] = microtasks[k + 1]
  BY <1>2, TakeOne
<1>4. ASSUME NEW k \in 1 .. Len(microtasks), k # 1
      PROVE  k - 1 \in 1 .. Len(microtasks') /\ microtasks'[k - 1] = microtasks[k]
  <2>1. k - 1 \in 1 .. Len(microtasks') /\ (k - 1) + 1 = k
    BY <1>3, <1>4
  <2> QED BY <1>3, <2>1
<1> QED BY <1>1, <1>2, <1>3, <1>4

LEMMA NextValue ==
  ASSUME NEW u \in Nat, NEW s \in Nat, NEW t \in Nat, NEW p, p = s - t, u <= s, u + t > s
  PROVE  p \in Int /\ p + 1 \in (p + 1) .. s /\ u >= p + 1 /\ t > 0
OBVIOUS

LEMMA LaterValues ==
  ASSUME NEW p \in Int, NEW s \in Nat, NEW v \in (p + 2) .. s
  PROVE  v \in (p + 1) .. s /\ v # p + 1
OBVIOUS

LEMMA OneFewer ==
  ASSUME NEW s \in Nat, NEW t \in Nat
  PROVE  s - (t - 1) = (s - t) + 1
OBVIOUS

(* The waiting value at the head of the queue is the next to be passed on.  *)
LEMMA HeadValue ==
  ASSUME LineInv, microtasks # <<>>, microtasks' = Tail(microtasks),
         NEW c, c = microtasks[1].of, microtasks[1].kind = "next"
  PROVE  /\ microtasks[1].val = Passed(c) + 1 /\ call[c].obs.tasks > 0
         /\ \A v \in (Passed(c) + 2) .. call[c].sent : \E k \in 1 .. Len(microtasks') :
              microtasks'[k].of = c /\ microtasks'[k].kind = "next" /\ microtasks'[k].val = v
<1> DEFINE u == microtasks[1].val
<1>1. /\ ~stopped /\ c \in Call /\ 1 \in 1 .. Len(microtasks)
      /\ \A k \in 1 .. Len(microtasks) :
           k # 1 => k - 1 \in 1 .. Len(microtasks') /\ microtasks'[k - 1] = microtasks[k]
  BY HeadTask
<1>2. u \in Nat /\ call[c].sent \in Nat /\ call[c].obs.tasks \in Nat
      /\ Passed(c) = call[c].sent - call[c].obs.tasks
  <2>1. microtasks[1] \in ClientMicrotask
    BY <1>1, Amounts
  <2> QED BY <1>1, <2>1, Amounts DEF ClientMicrotask, Passed
<1>3. /\ u <= call[c].sent /\ u + call[c].obs.tasks > call[c].sent
      /\ \A k \in 1 .. Len(microtasks) :
           1 < k /\ microtasks[k].of = c /\ microtasks[k].kind = "next" => u < microtasks[k].val
  BY <1>1 DEF LineInv, ClientInv, TasksMatch
<1> HIDE DEF u
<1>4. \A v \in (Passed(c) + 1) .. call[c].sent : \E k \in 1 .. Len(microtasks) :
        microtasks[k].of = c /\ microtasks[k].kind = "next" /\ microtasks[k].val = v
  BY <1>1 DEF LineInv, PassInv, PassOK
<1>5. u = Passed(c) + 1
  <2>1. Passed(c) + 1 \in (Passed(c) + 1) .. call[c].sent /\ u >= Passed(c) + 1 /\ Passed(c) \in Int
    BY <1>2, <1>3, NextValue
  <2>2. PICK k \in 1 .. Len(microtasks) :
          /\ microtasks[k].of = c /\ microtasks[k].kind = "next"
          /\ microtasks[k].val = Passed(c) + 1
    BY <1>4, <2>1
  <2>3. CASE k = 1
    BY <2>2, <2>3 DEF u
  <2>4. CASE k # 1
    <3>1. u < Passed(c) + 1
      BY <1>3, <2>2, <2>4
    <3> QED BY <1>2, <2>1, <3>1
  <2> QED BY <2>3, <2>4
<1>6. ASSUME NEW v \in (Passed(c) + 2) .. call[c].sent
      PROVE  \E k \in 1 .. Len(microtasks') :
               microtasks'[k].of = c /\ microtasks'[k].kind = "next" /\ microtasks'[k].val = v
  <2>1. v \in (Passed(c) + 1) .. call[c].sent /\ v # u
    <3>1. Passed(c) \in Int
      BY <1>2, <1>3, NextValue
    <3> QED BY <1>2, <1>5, <3>1, LaterValues
  <2>2. PICK k \in 1 .. Len(microtasks) :
          microtasks[k].of = c /\ microtasks[k].kind = "next" /\ microtasks[k].val = v
    BY <1>4, <2>1
  <2>3. k # 1
    BY <2>1, <2>2 DEF u
  <2> QED BY <1>1, <2>2, <2>3
<1>7. call[c].obs.tasks > 0
  BY <1>2, <1>3, NextValue
<1> QED BY <1>5, <1>6, <1>7 DEF u

LEMMA ValueTaskLine ==
  ASSUME LineInv, microtasks # <<>>, microtasks' = Tail(microtasks), stopped' = stopped,
         NEW c, c = microtasks[1].of, microtasks[1].kind = "next",
         NEW val, val = microtasks[1].val, RequestValueTask(c, val)
  PROVE  LineStep
<1> DEFINE rec == [call[c] EXCEPT !.obs = ValueHandled(@)]
           kept == [rec EXCEPT !.firstMessageSent = TRUE]
           o == call[c].obs
<1>1. /\ ~stopped /\ c \in Call /\ Started(c) /\ 1 \in 1 .. Len(microtasks)
      /\ microtasks' \in Seq(ClientMicrotask) /\ OthersWait(c)
  BY HeadTask
<1>2. /\ val = Passed(c) + 1 /\ o.tasks > 0
      /\ \A v \in (Passed(c) + 2) .. call[c].sent : \E k \in 1 .. Len(microtasks') :
           microtasks'[k].of = c /\ microtasks'[k].kind = "next" /\ microtasks'[k].val = v
  BY HeadValue
<1>3. /\ call[c] \in CallRecord /\ call[c].sent \in Nat /\ o \in ObserverState
      /\ o.tasks \in Nat /\ o.tasks <= call[c].sent /\ Passed(c) = call[c].sent - o.tasks
      /\ call[c].id \in Id
  BY <1>1, Amounts DEF Passed, LineInv, ClientInv, CallsStarted
<1>4. ~o.completeCalled /\ ~RequestEnded(c)
  <2>1. ~o.completeCalled
    BY <1>1, <1>2 DEF LineInv, EndsInv, EndOK
  <2> QED BY <2>1, FirstTask DEF LineInv
<1>5. /\ ValueHandled(o) \in ObserverState /\ ValueHandled(o).tasks = o.tasks - 1
      /\ ValueHandled(o).completeCalled = IsLastValue(o)
  <2>1. ValueHandled(o) \in ObserverState /\ ValueHandled(o).tasks = o.tasks - 1
    BY <1>2, <1>3, ObserverSteps
  <2>2. IsLastValue(o) \in BOOLEAN
    BY DEF IsLastValue
  <2>3. ValueHandled(o).completeCalled = (o.completeCalled \/ IsLastValue(o))
    BY <1>3 DEF ValueHandled, ObserverState
  <2> QED BY <1>4, <2>1, <2>2, <2>3
<1>6. /\ rec \in CallRecord /\ rec.obs = ValueHandled(o) /\ rec.req = call[c].req
      /\ rec.id = call[c].id /\ rec.kind = call[c].kind /\ rec.sent = call[c].sent
      /\ rec.method = call[c].method /\ SameResponse(call[c], rec)
      /\ rec.firstMessageSent = call[c].firstMessageSent
  BY <1>3, <1>5 DEF CallRecord, SameResponse
<1>7. /\ kept.obs = rec.obs /\ kept.req = rec.req /\ kept.id = rec.id /\ kept.kind = rec.kind
      /\ kept.sent = rec.sent /\ kept.firstMessageSent = TRUE /\ kept.method = rec.method
      /\ SameResponse(call[c], kept)
  BY <1>6 DEF CallRecord, SameResponse
<1> HIDE DEF rec, kept
<1>8. val \in Nat /\ val # NoValue
  <2>1. Passed(c) \in Nat
    BY <1>1, Amounts
  <2> QED BY <1>2, <2>1 DEF NoValue
<1>9. CASE IsLastValue(o) /\ EndRequest(c, rec, "RequestComplete", val)
  <2>1. o.completed /\ o.tasks = 1
    BY <1>9 DEF IsLastValue
  <2>2. call[c].req = "completed"
    BY <1>1, <2>1 DEF LineInv, EndsInv, EndOK
  <2>3. rec.obs.tasks = 0 /\ val = call[c].sent
    <3>1. rec.obs.tasks = 1 - 1
      BY <1>5, <1>6, <2>1
    <3>2. Passed(c) = call[c].sent - 1 /\ val = Passed(c) + 1
      BY <1>2, <1>3, <2>1
    <3> QED BY <1>3, <3>1, <3>2
  <2>4. rec.obs.completeCalled
    BY <1>5, <1>6, <1>9
  <2>5. "RequestComplete" \in RequestType \ {"RequestData"}
    BY EndTypes
  <2>6. /\ rec.req = "completed" /\ val \in Nat
        /\ IF val = NoValue THEN call[c].obs.tasks = 0
                            ELSE val = call[c].sent /\ call[c].obs.tasks = 1
    BY <1>6, <1>8, <2>1, <2>2, <2>3
  <2>7. /\ rec.firstMessageSent = call[c].firstMessageSent /\ rec.req # "open"
        /\ call[c].req # "open" => rec.req = call[c].req
        /\ "RequestComplete" = "RequestComplete" => rec.req = "completed"
        /\ rec.obs.tasks = 0 /\ ~stopped' /\ microtasks' \in Seq(ClientMicrotask)
        /\ rec.obs.completeCalled \/ \A k \in 1 .. Len(microtasks') : microtasks'[k].of # c
    BY <1>1, <1>6, <2>2, <2>3, <2>4, <2>6 DEF OthersWait
  <2> HIDE DEF o
  <2> QED BY <1>1, <1>4, <1>6, <1>9, <2>5, <2>6, <2>7, EndRequestLine, ZenonT(40)
<1>10. CASE /\ ~IsLastValue(o) /\ call' = [call EXCEPT ![c] = kept]
            /\ PushMessage(Request("RequestData", rec, c, val))
  <2>1. call'[c] = kept
    BY <1>1, <1>10, Amounts
  <2>8. Started(c)' /\ NameSent(c)'
    BY <1>1, <1>6, <1>7, <2>1 DEF Started, NameSent
  <2>9. /\ call'[c].sent = call[c].sent /\ call'[c].obs.tasks = o.tasks - 1
        /\ Passed(c)' = call'[c].sent - call'[c].obs.tasks
    BY <1>5, <1>6, <1>7, <2>1 DEF Passed
  <2>2. Started(c)' /\ NameSent(c)' /\ Passed(c)' = Passed(c) + 1
    <3>1. call[c].sent - (o.tasks - 1) = (call[c].sent - o.tasks) + 1
      BY <1>3, OneFewer
    <3> QED BY <1>3, <2>8, <2>9, <3>1
  <2>10. /\ call'[c].req # "open" => \E k \in 1 .. Len(microtasks') :
                microtasks'[k].of = c /\ microtasks'[k].kind # "next"
         /\ ~RequestEnded(c)'
    <3>1. ~call'[c].obs.completeCalled /\ call'[c].req = call[c].req
      BY <1>5, <1>6, <1>7, <1>10, <2>1
    <3>2. ASSUME call[c].req # "open"
          PROVE  \E k \in 1 .. Len(microtasks') :
                   microtasks'[k].of = c /\ microtasks'[k].kind # "next"
      <4>1. PICK k \in 1 .. Len(microtasks) : microtasks[k].of = c /\ microtasks[k].kind # "next"
        BY <1>1, <1>4, <3>2 DEF LineInv, PassInv, PassOK, FinalWaits
      <4>2. k - 1 \in 1 .. Len(microtasks') /\ microtasks'[k - 1] = microtasks[k]
        BY <4>1, HeadTask
      <4> QED BY <4>1, <4>2
    <3>3. DOMAIN microtasks' = 1 .. Len(microtasks')
      BY <1>1
    <3> QED BY <3>1, <3>2, <3>3 DEF RequestEnded
  <2>3. PassOK(c)'
    <3>1. call'[c].obs.tasks <= call'[c].sent
      BY <1>3, <2>9
    <3>2. (Passed(c)' + 1) .. call'[c].sent = (Passed(c) + 2) .. call[c].sent
      <4>1. Passed(c) \in Nat
        BY <1>1, Amounts
      <4> QED BY <2>2, <2>9, <4>1
    <3>3. Started(c)' => call'[c].method # NoMethod
      BY <1>1, <1>6, <1>7, <2>1 DEF LineInv, PassInv, PassOK
    <3>4. CountOK(c)'
      <4>1. CountOK(c)
        BY <1>1 DEF LineInv, PassInv, PassOK
      <4> QED BY <1>1, <1>4, <1>7, <2>1, <2>10, <4>1 DEF CountOK, SameResponse
    <3> QED BY <1>2, <2>2, <2>10, <3>1, <3>2, <3>3, <3>4 DEF PassOK, FinalWaits
  <2>4. Kept(c)
    BY <1>4, <1>6, <1>7, <2>1, <2>2 DEF Kept, SameResponse
  <2>5. "RequestData" \in RequestType
    BY DEF RequestType
  <2>6. call'[c].id = rec.id
    BY <1>7, <2>1
  <2>7. \E m \in ClientMessage : Goes(m, c)
    <3>1. rec.id \in Id
      BY <1>3, <1>6
    <3>2. val = Passed(c) + 1 /\ Passed(c)' = val
      BY <1>2, <2>2
    <3>3. rec.method # NoMethod
      BY <1>1, <1>6 DEF LineInv, PassInv, PassOK
    <3> QED BY <1>1, <1>4, <1>6, <1>8, <1>10, <2>2, <2>5, <2>6, <2>10, <3>1, <3>2, <3>3, RequestGoes
  <2> QED BY <1>1, <1>10, <2>3, <2>4, <2>7, OneCall
<1> QED BY <1>9, <1>10 DEF RequestValueTask, rec, kept

LEMMA FinalTaskLine ==
  ASSUME LineInv, microtasks # <<>>, microtasks' = Tail(microtasks), stopped' = stopped,
         NEW c, c = microtasks[1].of, NEW kind, kind = microtasks[1].kind, kind # "next",
         RequestFinalTask(c, kind)
  PROVE  LineStep
<1>1. /\ ~stopped /\ c \in Call /\ Started(c) /\ 1 \in 1 .. Len(microtasks)
      /\ microtasks' \in Seq(ClientMicrotask) /\ OthersWait(c)
      /\ \A k \in 1 .. Len(microtasks) :
           k # 1 => k - 1 \in 1 .. Len(microtasks') /\ microtasks'[k - 1] = microtasks[k]
  BY HeadTask
<1>2. /\ (~call[c].obs.completeCalled => ~RequestEnded(c)) /\ EndTaskOK(microtasks[1], call[c])
      /\ \A k \in 1 .. Len(microtasks') : microtasks'[k].of # c
  BY FirstTask DEF LineInv
<1>3. /\ call[c] \in CallRecord /\ call[c].sent \in Nat
      /\ call[c].obs.tasks \in Nat /\ Passed(c) = call[c].sent - call[c].obs.tasks
  BY <1>1, Amounts DEF Passed
<1>4. kind \in {"complete", "error"}
  <2>1. microtasks[1] \in ClientMicrotask
    BY <1>1, Amounts
  <2> QED BY <2>1 DEF ClientMicrotask
<1>5. call[c].obs.tasks = 0
  <2>1. SUFFICES ASSUME call[c].obs.tasks # 0 PROVE FALSE
    OBVIOUS
  <2>2. call[c].sent \in (Passed(c) + 1) .. call[c].sent
    BY <1>1, <1>3, <2>1, Amounts, SMTT(30)
  <2>3. PICK k \in 1 .. Len(microtasks) : microtasks[k].of = c /\ microtasks[k].kind = "next"
    BY <1>1, <2>2 DEF LineInv, PassInv, PassOK
  <2>4. k # 1
    BY <2>3
  <2> QED BY <1>1, <1>2, <2>3, <2>4
<1>6. call[c].req # "open" /\ EndOK(call[c])
      /\ (kind = "complete" => call[c].req = "completed")
      /\ (kind = "error" => call[c].req = "errored")
  BY <1>1, <1>2, <1>4 DEF EndTaskOK, LineInv, EndsInv
<1>7. CASE NothingPushed /\ UNCHANGED <<call, calls>> /\ call[c].obs.completeCalled
  <2>1. call' = [call EXCEPT ![c] = call[c]]
    <3>1. call \in [Call -> CallRecord]
      BY <1>1, Amounts
    <3> QED BY <1>7, <3>1
  <2>2. /\ call'[c] = call[c] /\ RequestEnded(c)' /\ NameSent(c)' /\ Passed(c)' = Passed(c)
        /\ RequestEnded(c) /\ NameSent(c)
    BY <1>1, <1>6, <1>7 DEF RequestEnded, NameSent, Started, Passed
  <2>3. PassOK(c)'
    <3>1. CountOK(c)' /\ (Started(c)' => call'[c].method # NoMethod)
      BY <1>1, <2>2 DEF LineInv, PassInv, PassOK, CountOK
    <3> QED BY <1>3, <1>5, <2>2, <3>1 DEF PassOK, FinalWaits
  <2>4. Kept(c) /\ Calm(c)
    BY <2>2 DEF Kept, Calm, Started
  <2> QED BY <1>1, <1>7, <2>1, <2>3, <2>4, OneCall DEF NoneGoes
<1>8. ASSUME NEW type \in RequestType \ {"RequestData"}, EndRequest(c, call[c], type, NoValue),
             type = "RequestComplete" => kind = "complete", ~call[c].obs.completeCalled
      PROVE  LineStep
  <2>1. SameResponse(call[c], call[c])
    BY DEF SameResponse
  <2> QED BY <1>1, <1>2, <1>3, <1>5, <1>6, <1>8, <2>1, EndTypes, EndRequestLine
<1>9. CASE kind = "error"
  <2>1. ~call[c].obs.completeCalled
    BY <1>6, <1>9 DEF EndOK
  <2> QED BY <1>8, <1>9, <2>1, EndTypes DEF RequestFinalTask
<1> QED BY <1>4, <1>7, <1>8, <1>9, EndTypes DEF RequestFinalTask

LEMMA MicrotaskLine ==
  ASSUME LineInv, ClientMicrotaskRuns
  PROVE  LineStep
<1>1. PICK t \in ClientMicrotask : t = microtasks[1] /\ t = Head(microtasks)
  <2>1. Head(microtasks) = microtasks[1] /\ Head(microtasks) \in ClientMicrotask
    BY TakeOne DEF ClientMicrotaskRuns, LineInv, ClientInv, TypeOK, ClientTypeOK
  <2> QED BY <2>1
<1>2. microtasks # <<>> /\ microtasks' = Tail(microtasks) /\ stopped' = stopped
  BY DEF ClientMicrotaskRuns
<1>3. CASE t.kind = "next" /\ RequestValueTask(t.of, t.val)
  BY <1>1, <1>2, <1>3, ValueTaskLine
<1>4. CASE t.kind # "next" /\ RequestFinalTask(t.of, t.kind)
  BY <1>1, <1>2, <1>4, FinalTaskLine
<1> QED BY <1>1, <1>3, <1>4 DEF ClientMicrotaskRuns

(* The response of c ends or its listener leaves: the record of c changes   *)
(* on the response side only.                                               *)
LEMMA ResponseLine ==
  ASSUME LineInv, NEW c \in Call, NEW rec \in CallRecord, SameRequest(call[c], rec), NEW how, how # "open",
         UpdateCall(c, EndResponse(rec, how)), microtasks' = microtasks, stopped' = stopped,
         NoneGoes \/ Leaves(c)
  PROVE  LineStep
<1> DEFINE new == EndResponse(rec, how)
<1>1. SameRequest(rec, new)
  BY DEF EndResponse, Cleanup, CallRecord, SameRequest, SameResponse
<1>2. call' = [call EXCEPT ![c] = new]
  BY DEF UpdateCall
<1> HIDE DEF new
<1>3. call'[c] = new /\ \A d \in Call : d # c => call'[d] = call[d]
  BY <1>2, Amounts
<1>4. \A d \in Call : SameRequest(call[d], call'[d])
  BY <1>1, <1>3 DEF SameRequest, SameResponse
<1> QED BY <1>4, SameCalls DEF LineStep

LEMMA TeardownLine ==
  ASSUME LineInv, NEW c \in Call, Started(c), Teardown(c, call[c]),
         microtasks' = microtasks, stopped' = stopped
  PROVE  LineStep
<1>1. call[c] \in CallRecord /\ call[c].id \in Id /\ SameRequest(call[c], call[c])
  BY Amounts DEF LineInv, ClientInv, CallsStarted, SameRequest, SameResponse
<1>2. NoneGoes \/ Leaves(c)
  BY <1>1 DEF Teardown, TeardownMessage, NoneGoes, Leaves
<1> QED BY <1>1, <1>2, ResponseLine DEF Teardown

LEMMA SameCallsLine ==
  ASSUME LineInv, UNCHANGED <<call, microtasks, stopped>>, NoneGoes
  PROVE  LineStep
<1>1. \A d \in Call : SameRequest(call[d], call'[d])
  BY DEF SameRequest, SameResponse
<1> QED BY <1>1, SameCalls DEF LineStep

LEMMA OnMessageLine ==
  ASSUME LineInv, ClientOnMessage
  PROVE  LineStep
<1>1. PICK m \in ServerMessage : m = Head(inbox)
  BY TakeOne DEF ClientOnMessage, LineInv, ClientInv, TypeOK, ClientTypeOK
<1>2. PICK c : c = calls[m.id]
  OBVIOUS
<1>3. stopped' = stopped
  BY DEF ClientOnMessage
<1>4. CASE NothingPushed /\ UNCHANGED <<call, microtasks>>
  BY <1>3, <1>4, SameCallsLine DEF NoneGoes
<1>5. CASE c # NoCall
  <2>1. c \in Call /\ Started(c) /\ call[c] \in CallRecord
    BY <1>1, <1>2, <1>5
      DEF ServerMessage, LineInv, ClientInv, IdsMatch, TypeOK, ClientTypeOK
  <2>2. CASE OnResponseData(c, m)
    BY <1>3, <1>4, <2>1, <2>2, TeardownLine DEF OnResponseData
  <2>3. ASSUME NEW how, how # "open", Finalize(c, how)
        PROVE  LineStep
    <3> DEFINE rec == [call[c] EXCEPT !.resFinalized = TRUE]
    <3>1. rec \in CallRecord /\ SameRequest(call[c], rec)
      BY <2>1 DEF CallRecord, SameRequest, SameResponse
    <3>2. UpdateCall(c, EndResponse(rec, how)) /\ microtasks' = microtasks
      BY <2>3 DEF Finalize
    <3>4. NothingPushed
      BY <2>3 DEF Finalize
    <3> HIDE DEF rec
    <3> QED BY <1>3, <2>1, <2>3, <3>1, <3>2, <3>4, ResponseLine DEF NoneGoes
  <2>4. CASE OnResponseComplete(c, m) \/ OnResponseError(c, m)
    BY <2>3, <2>4 DEF OnResponseComplete, OnResponseError
  <2>5. CASE OnRequestUnsubscribe(c, m)
    BY <1>3, <1>4, <2>1, <2>5, CompleteRequestLine DEF OnRequestUnsubscribe
  <2> QED BY <1>1, <1>2, <1>5, <2>2, <2>4, <2>5 DEF ClientOnMessage
<1> QED BY <1>1, <1>2, <1>4, <1>5 DEF ClientOnMessage

LEMMA StopLine ==
  ASSUME LineInv, Stop
  PROVE  LineStep
<1>1. /\ call' = [c \in Call |-> IF StreamOpen(c) THEN [call[c] EXCEPT !.req = "errored"]
                                                  ELSE call[c]]
      /\ microtasks' = <<>> /\ buf' = <<>> /\ c2s' = c2s /\ stopped'
  BY DEF Stop
<1>2. 1 .. Len(microtasks') = {} /\ DOMAIN microtasks' = {}
  BY <1>1
<1>3. ASSUME NEW c \in Call
      PROVE  /\ call'[c].kind = call[c].kind /\ call'[c].id = call[c].id
             /\ call'[c].sent = call[c].sent /\ call'[c].obs = call[c].obs
             /\ call'[c].firstMessageSent = call[c].firstMessageSent
             /\ call'[c].method = call[c].method /\ call'[c].res = call[c].res
             /\ call[c].req # "open" => call'[c].req = call[c].req
             /\ ~(call'[c].kind = "stream" /\ call'[c].req = "open")
  <2>1. call[c] \in CallRecord
    BY Amounts
  <2>2. CASE StreamOpen(c)
    <3>1. call'[c] = [call[c] EXCEPT !.req = "errored"] /\ call[c].req = "open"
      BY <1>1, <2>2 DEF StreamOpen
    <3> QED BY <2>1, <3>1 DEF CallRecord
  <2>3. CASE ~StreamOpen(c)
    BY <1>1, <2>3 DEF StreamOpen
  <2> QED BY <2>2, <2>3
<1>4. Muted'
  BY <1>1, <1>3 DEF Muted, StreamOpen
<1>5. ASSUME NEW c \in Call PROVE PassOK(c)' /\ Kept(c) /\ Calm(c)
  <2>1. PassOK(c) /\ Passed(c)' = Passed(c) /\ Started(c)' = Started(c)
    BY <1>3 DEF LineInv, PassInv, Passed, Started
  <2>2. RequestEnded(c) => RequestEnded(c)'
    BY <1>2, <1>3, <2>1 DEF RequestEnded
  <2>3. NameSent(c) => NameSent(c)'
    BY <1>3, <2>2 DEF NameSent
  <2>4. PassOK(c)'
    BY <1>1, <1>3, <2>1, <2>3 DEF PassOK, FinalWaits, CountOK
  <2> QED BY <1>1, <1>3, <2>1, <2>2, <2>3, <2>4 DEF Kept, Calm
<1> QED BY <1>1, <1>4, <1>5 DEF LineStep, PassInv, NoneGoes

LEMMA SubscriptionLine ==
  ASSUME LineInv, NEW c \in Call, NEW k \in Subscriber,
         SubscriptionStarts(c, k) \/ SubscriptionEnds(c, k)
  PROVE  LineStep
<1>1. CASE SubscriptionStarts(c, k)
  BY <1>1, SameCallsLine DEF SubscriptionStarts, NoneGoes
<1>2. CASE SubscriptionEnds(c, k)
  BY <1>2, TeardownLine DEF SubscriptionEnds
<1> QED BY <1>1, <1>2

(* Every step of the client.                                                *)
LEMMA ClientLine ==
  ASSUME LineInv, ClientNext
  PROVE  LineStep
<1>1. CASE UserAction
  <2>1. PICK c \in Call :
          \/ \E id \in Id, m \in Method : CallStream(c, id, m)
          \/ \E id \in Id, m \in Method : \E val \in StaticPayload : CallStatic(c, id, m, val)
          \/ SourceNext(c) \/ SourceComplete(c) \/ SourceError(c)
          \/ \E k \in Subscriber : SubscriptionStarts(c, k) \/ SubscriptionEnds(c, k)
    BY <1>1, SubscriberSteps DEF UserAction, LineInv
  <2>2. CASE \E k \in Subscriber : SubscriptionStarts(c, k) \/ SubscriptionEnds(c, k)
    BY <2>2, SubscriptionLine
  <2>4. CASE SourceComplete(c)
    BY <2>4, CompleteRequestLine DEF SourceComplete
  <2> QED BY <2>1, <2>2, <2>4, CallStreamLine, CallStaticLine, SourceNextLine, SourceErrorLine
<1>2. CASE ClientMicrotaskRuns
  BY <1>2, MicrotaskLine
<1>3. CASE ClientOnMessage
  BY <1>3, OnMessageLine
<1>4. CASE Stop
  BY <1>4, StopLine
<1>5. CASE ClientReceivesBatch \/ ClientTimerFires
  BY <1>5, SameCallsLine DEF ClientReceivesBatch, ClientTimerFires, NoneGoes
<1>6. CASE \E c \in Call, k \in Subscriber : SubscriberTold(c, k)
  BY <1>6, SubscriberSteps, SubscriptionLine DEF LineInv
<1> QED BY <1>1, <1>2, <1>3, <1>4, <1>5, <1>6 DEF ClientNext, ClientCallback

LEMMA LinePreserves ==
  ASSUME LineInv, ClientNext
  PROVE  LineInv'
BY ClientLine, NextPreserves, NextEnds DEF LineInv, LineStep, Next

LEMMA LineInit ==
  ASSUME Init
  PROVE  LineInv
<1>1. call = [c \in Call |-> IdleCall] /\ microtasks = <<>> /\ stopped = FALSE
  BY DEF Init, ClientInit
<1>2. ClientInv
  BY InitInv
<1>3. EndsInv
  <2>1. EndOK(IdleCall) /\ 1 .. Len(microtasks) = {}
    BY <1>1 DEF EndOK, IdleCall, NewObserver
  <2> QED BY <1>1, <2>1 DEF EndsInv, EndsLast
<1>4. ASSUME NEW c \in Call PROVE PassOK(c)
  <2>1. call[c].sent = 0 /\ call[c].obs.tasks = 0 /\ ~Started(c)
    BY <1>1 DEF IdleCall, NewObserver, Started
  <2> QED BY <2>1 DEF PassOK, FinalWaits, CountOK, Passed
<1> QED BY <1>1, <1>2, <1>3, <1>4 DEF LineInv, PassInv, Muted

(* What goes on around the client only takes and brings batches.            *)
LEMMA OthersLine ==
  ASSUME LineInv,
         UNCHANGED <<nextId, calls, call, user, microtasks, inbox, stopped, buf, bufTimer>>,
         c2s' \in Seq(Seq(ClientMessage)), s2c' \in Seq(Seq(ServerMessage))
  PROVE  LineInv' /\ \A d \in Call : Kept(d) /\ Calm(d)
<1>1. \A d \in Call : SameRequest(call[d], call'[d])
  BY DEF SameRequest, SameResponse
<1>2. PassInv' /\ \A d \in Call : Kept(d) /\ Calm(d)
  BY <1>1, SameCalls
<1>3. inbox' \in Seq(ServerMessage) /\ BufferTypeOK'
  BY DEF LineInv, ClientInv, TypeOK, ClientTypeOK, BufferTypeOK
<1>4. ClientInv'
  BY <1>3, QuietStep DEF LineInv
<1>5. EndsInv'
  BY DEF LineInv, EndsInv
<1> QED BY <1>2, <1>4, <1>5 DEF LineInv

-----------------------------------------------------------------------------
(* What a step does to the responses.                                       *)

(* A value goes to subscribers of the call that holds the message's id.     *)
Delivery ==
  \A c \in Call, k \in Subscriber :
    \/ user'[c][k].got = user[c][k].got
    \/ /\ inbox # <<>> /\ calls[Head(inbox).id] = c
       /\ user'[c][k].got =
            Append(user[c][k].got, [val |-> Head(inbox).val, of |-> Head(inbox).of])

EndsResponse(m) == m.type \in {"ResponseComplete", "ResponseError"}

(* The end of a response ends it for the call that holds the message's id.  *)
TakesEnd(m) == \A c \in Call : EndsResponse(m) /\ calls[m.id] = c => call'[c].res # "open"

(* The server's batches are read from the first message to the last.        *)
Reading ==
  \/ inbox' = inbox /\ s2c' = s2c
  \/ inbox # <<>> /\ inbox' = Tail(inbox) /\ s2c' = s2c /\ TakesEnd(Head(inbox))
  \/ inbox = <<>> /\ s2c # <<>> /\ inbox' = Head(s2c) /\ s2c' = Tail(s2c)

LEMMA OnMessageDelivers ==
  ASSUME ClientInv, ClientOnMessage
  PROVE  Delivery
<1>1. PICK m \in ServerMessage : m = Head(inbox)
  BY TakeOne DEF ClientOnMessage, ClientInv, TypeOK, ClientTypeOK
<1>2. PICK c : c = calls[m.id]
  OBVIOUS
<1>3. inbox # <<>>
  BY DEF ClientOnMessage
<1>4. ASSUME c \in Call, UserStep(c),
             \A k \in Subscriber :
               \/ user'[c][k].got = user[c][k].got
               \/ user'[c][k].got = Append(user[c][k].got, [val |-> m.val, of |-> m.of])
      PROVE  Delivery
  BY <1>1, <1>2, <1>3, <1>4 DEF Delivery, UserStep
<1>5. CASE user' = user
  BY <1>5 DEF Delivery
<1>6. CASE c # NoCall
  <2>1. c \in Call
    BY <1>1, <1>2, <1>6 DEF ServerMessage, ClientInv, TypeOK, ClientTypeOK
  <2>2. CASE OnResponseData(c, m)
    <3>1. CASE \E f \in MayLeaveWith(c) : HandOut(c, m, f)
      BY <1>4, <2>1, <3>1, HandOutTypes
    <3> QED BY <1>5, <2>2, <3>1 DEF OnResponseData
  <2>3. CASE OnResponseComplete(c, m) \/ OnResponseError(c, m)
    BY <1>4, <2>1, <2>3, EndOfResponse
  <2>4. CASE OnRequestUnsubscribe(c, m)
    BY <1>5, <2>4 DEF OnRequestUnsubscribe
  <2> QED BY <1>1, <1>2, <1>6, <2>2, <2>3, <2>4 DEF ClientOnMessage
<1> QED BY <1>1, <1>2, <1>5, <1>6 DEF ClientOnMessage

LEMMA OnMessageEndsResponse ==
  ASSUME ClientInv, ClientOnMessage
  PROVE  TakesEnd(Head(inbox))
<1>1. PICK m \in ServerMessage : m = Head(inbox)
  BY TakeOne DEF ClientOnMessage, ClientInv, TypeOK, ClientTypeOK
<1> SUFFICES ASSUME NEW c \in Call, EndsResponse(m), calls[m.id] = c
             PROVE  call'[c].res # "open"
  BY <1>1 DEF TakesEnd
<1>2. c # NoCall /\ call \in [Call -> CallRecord] /\ call[c] \in CallRecord
  BY MessagesAssumption DEF ClientInv, TypeOK, ClientTypeOK
<1>3. ASSUME NEW how \in {"completed", "errored", "left"}, Finalize(c, how)
      PROVE  call'[c].res # "open"
  <2> DEFINE rec == [call[c] EXCEPT !.resFinalized = TRUE]
             new == EndResponse(rec, how)
  <2>1. rec \in CallRecord
    BY <1>2 DEF CallRecord
  <2>2. call' = [call EXCEPT ![c] = new]
    BY <1>3 DEF Finalize, UpdateCall
  <2> HIDE DEF rec
  <2>3. new.res # "open"
    BY <2>1, EndResponseType
  <2> HIDE DEF new
  <2> QED BY <1>2, <2>2, <2>3
<1>4. OnResponseComplete(c, m) \/ OnResponseError(c, m)
  BY <1>1, <1>2
    DEF ClientOnMessage, EndsResponse, OnResponseData, OnRequestUnsubscribe
<1> QED BY <1>1, <1>2, <1>3, <1>4, EndOfResponse

LEMMA SubscriptionKeeps ==
  ASSUME ClientInv, NEW c \in Call, NEW k \in Subscriber,
         SubscriptionStarts(c, k) \/ SubscriptionEnds(c, k)
  PROVE  /\ inbox' = inbox /\ s2c' = s2c
         /\ \A d \in Call, j \in Subscriber : user'[d][j].got = user[d][j].got
<1>1. inbox' = inbox /\ s2c' = s2c
  BY DEF SubscriptionStarts, SubscriptionEnds
<1>2. PICK u \in UserRecord : u.got = user[c][k].got /\ Becomes(c, k, u)
  BY DEF SubscriptionStarts, SubscriptionEnds
<1>3. /\ UserStep(c) /\ user'[c][k] = u
      /\ \A j \in Subscriber : j # k => user'[c][j] = user[c][j]
  BY <1>2, OneSubscriber
<1> QED BY <1>1, <1>2, <1>3 DEF UserStep

LEMMA UserKeeps ==
  ASSUME ClientInv, UserAction
  PROVE  /\ inbox' = inbox /\ s2c' = s2c
         /\ \A d \in Call, j \in Subscriber : user'[d][j].got = user[d][j].got
<1>1. PICK c \in Call :
        \/ \E id \in Id, m \in Method : CallStream(c, id, m)
        \/ \E id \in Id, m \in Method : \E val \in StaticPayload : CallStatic(c, id, m, val)
        \/ SourceNext(c) \/ SourceComplete(c) \/ SourceError(c)
        \/ \E k \in Subscriber : SubscriptionStarts(c, k) \/ SubscriptionEnds(c, k)
  BY SubscriberSteps DEF UserAction
<1>2. CASE user' = user /\ inbox' = inbox /\ s2c' = s2c
  BY <1>2
<1> QED BY <1>1, <1>2, SubscriptionKeeps
     DEF CallStream, CallStatic, StartCall, SourceNext, SourceComplete, SourceError

LEMMA ClientDelivers ==
  ASSUME ClientInv, ClientNext
  PROVE  Delivery /\ Reading
<1>1. CASE UserAction
  BY <1>1, UserKeeps DEF Delivery, Reading
<1>2. CASE ClientMicrotaskRuns \/ ClientTimerFires \/ Stop
  BY <1>2 DEF ClientMicrotaskRuns, ClientTimerFires, Stop, Delivery, Reading
<1>3. CASE ClientReceivesBatch
  BY <1>3 DEF ClientReceivesBatch, Delivery, Reading
<1>4. CASE ClientOnMessage
  BY <1>4, OnMessageDelivers, OnMessageEndsResponse DEF ClientOnMessage, Reading
<1>5. CASE \E c \in Call, k \in Subscriber : SubscriberTold(c, k)
  BY <1>5, SubscriberSteps, SubscriptionKeeps DEF Delivery, Reading
<1> QED BY <1>1, <1>2, <1>3, <1>4, <1>5 DEF ClientNext, ClientCallback
=============================================================================
