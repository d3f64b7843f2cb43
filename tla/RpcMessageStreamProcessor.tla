--------------------- MODULE RpcMessageStreamProcessor ----------------------
(***************************************************************************)
(* src/common/rpc/RpcMessageStreamProcessor.ts: the server end of the      *)
(* protocol, for one connection. Streaming calls live in activeStreamCalls *)
(* under their id until their response ends or the client unsubscribes;    *)
(* static calls are never recorded there. The methods themselves are the   *)
(* environment: a streaming method emits, completes and fails as it likes  *)
(* once RpcCaller.createCall has invoked it, which takes a first request   *)
(* value; a static method settles as it likes.                             *)
(***************************************************************************)
EXTENDS RpcMessages, Sequences, SequencesExt

CONSTANTS
  StreamingMethod,    \* the methods with isStreaming
  UnknownMethod,      \* names the caller has no method for
  serverItemLimit,    \* bufferSize; 1 also stands for bufferTime 0, no buffering
  MaxResponseValues   \* bound on the values of one response stream

ASSUME ServerAssumption ==
  /\ StreamingMethod \subseteq Method
  /\ UnknownMethod \subseteq Method \ StreamingMethod
  /\ serverItemLimit \in Nat \ {0}
  /\ MaxResponseValues \in Nat \ {0}

VARIABLES
  srvCalls,       \* every call the server started, oldest first
  activeStreamCalls, \* id -> index into srvCalls, 0 when absent
  srvMicrotasks,  \* microtasks queued by subscribeCompleteObserver
  srvInbox,       \* rest of the batch onMessages is iterating over
  srvStopped,     \* stop() was called: send does nothing
  srvBuf,         \* the TimedQueue behind send
  srvTimer,
  s2c,            \* batches passed to onSend and not yet at the client
  c2s             \* batches from the client not yet received

serverVars ==
  <<srvCalls, activeStreamCalls, srvMicrotasks, srvInbox, srvStopped, srvBuf, srvTimer, s2c>>

SrvBuffer == INSTANCE TimedQueue
               WITH itemLimit <- serverItemLimit, list <- srvBuf, timer <- srvTimer, out <- s2c

-----------------------------------------------------------------------------
(* A call on the server. got is what req$ passed on; emitted counts what    *)
(* the method emitted; unsubscribed tells that the client unsubscribed.     *)
ServerCall ==
  [id: Id, of: Call \cup {NoCall}, kind: {"static", "stream"},
   req: {"open", "completed", "errored"}, got: Seq(Nat), obs: ObserverState,
   res: {"open", "completed", "errored"}, emitted: 0 .. MaxResponseValues,
   unsubscribed: BOOLEAN]

NewCall(m, kind) ==
  [id |-> m.id, of |-> m.of, kind |-> kind, req |-> "open", got |-> <<>>,
   obs |-> NewObserver, res |-> "open", emitted |-> 0, unsubscribed |-> FALSE]

ServerInit ==
  /\ srvCalls = <<>>
  /\ activeStreamCalls = [id \in Id |-> 0]
  /\ srvMicrotasks = <<>>
  /\ srvInbox = <<>>
  /\ srvStopped = FALSE
  /\ SrvBuffer!QueueInit

(* this.send                                                                *)
Send(m) ==
  \/ ~srvStopped /\ SrvBuffer!Push(m)
  \/ srvStopped /\ UNCHANGED <<srvBuf, srvTimer, s2c>>

NothingSent == UNCHANGED <<srvBuf, srvTimer, s2c>>

Response(type, i, rec, val) ==
  [type |-> type, id |-> rec.id, val |-> val, of |-> rec.of, by |-> i]

(* sendError: METHOD_INV and METHOD_UNK in reply to a message.              *)
SendError(m) ==
  Send([type |-> "ResponseError", id |-> m.id, val |-> NoValue, of |-> m.of, by |-> 0])

(* Mutant: a message without a payload counts as a value.                   *)
MissingValueToo(rec, val) ==
  IF rec.req = "open" THEN [rec EXCEPT !.got = Append(@, val)] ELSE rec

(* request values reach the method while the request stream is open         *)
RequestValue(rec, val) ==
  IF val # NoValue /\ rec.req = "open" THEN [rec EXCEPT !.got = Append(@, val)] ELSE rec

(* Mutant: the end of the request stream is not passed on.                  *)
EndNotPassedOn(rec, how) == rec

RequestEnd(rec, how) == IF rec.req = "open" THEN [rec EXCEPT !.req = how] ELSE rec

-----------------------------------------------------------------------------
(* Mutant: the entry of a failed call is left behind.                       *)
ErrorKeepsEntry(i, rec) ==
  /\ Send(Response("ResponseError", i, rec, NoValue))
  /\ activeStreamCalls' = activeStreamCalls

(* Mutant: the call ends and the client is not told.                        *)
ErrorNotSent(i, rec) ==
  /\ NothingSent
  /\ activeStreamCalls' = [activeStreamCalls EXCEPT ![rec.id] = 0]

(* The callbacks of subscribeCompleteObserver(call.res$, ...).              *)
(* Both remove whatever call holds the id, then or before they answer.      *)
OnStreamError(i, rec) ==
  /\ Send(Response("ResponseError", i, rec, NoValue))
  /\ activeStreamCalls' = [activeStreamCalls EXCEPT ![rec.id] = 0]

OnStreamComplete(i, rec, val) ==
  /\ activeStreamCalls' = [activeStreamCalls EXCEPT ![rec.id] = 0]
  /\ Send(Response("ResponseComplete", i, rec, val))

Invoked(i) ==
  /\ srvCalls[i].kind = "stream" /\ srvCalls[i].res = "open"
  /\ srvCalls[i].got # <<>>

SrvTask(i, kind, val) == [call |-> i, kind |-> kind, val |-> val]

(* The method emits its next response value.                                *)
MethodEmits(i) ==
  /\ Invoked(i)
  /\ srvCalls[i].emitted < MaxResponseValues
  /\ srvCalls' = [srvCalls EXCEPT ![i].emitted = @ + 1, ![i].obs = ValueQueued(@)]
  /\ srvMicrotasks' = Append(srvMicrotasks, SrvTask(i, "next", srvCalls[i].emitted + 1))
  /\ NothingSent
  /\ UNCHANGED <<activeStreamCalls, srvInbox, srvStopped, c2s>>

MethodCompletes(i) ==
  LET rec == [srvCalls[i] EXCEPT !.res = "completed", !.obs = SourceCompleted(@)]
  IN  /\ Invoked(i)
      /\ srvCalls' = [srvCalls EXCEPT ![i] = rec]
      /\ \/ /\ PassedOnAtOnce(rec.obs)
            /\ OnStreamComplete(i, rec, NoValue)
            /\ srvMicrotasks' = srvMicrotasks
         \/ /\ ~PassedOnAtOnce(rec.obs)
            /\ srvMicrotasks' = Append(srvMicrotasks, SrvTask(i, "complete", NoValue))
            /\ NothingSent
            /\ activeStreamCalls' = activeStreamCalls
      /\ UNCHANGED <<srvInbox, srvStopped, c2s>>

(* res$ of call i errors, leaving the call as rec: because the method       *)
(* failed, a request value was invalid, a pre-call check failed, the        *)
(* pre-call buffer overflowed or the client's request stream errored.       *)
ResponseErrors(i, rec, others) ==
  LET failed == [rec EXCEPT !.res = "errored"]
  IN  /\ srvCalls' = [others EXCEPT ![i] = failed]
      /\ \/ /\ PassedOnAtOnce(rec.obs)
            /\ OnStreamError(i, failed)
            /\ srvMicrotasks' = srvMicrotasks
         \/ /\ ~PassedOnAtOnce(rec.obs)
            /\ srvMicrotasks' = Append(srvMicrotasks, SrvTask(i, "error", NoValue))
            /\ NothingSent
            /\ activeStreamCalls' = activeStreamCalls

MethodFails(i) ==
  /\ Invoked(i)
  /\ ResponseErrors(i, srvCalls[i], srvCalls)
  /\ UNCHANGED <<srvInbox, srvStopped, c2s>>

ResponseValueTask(i, val) ==
  LET rec == srvCalls[i]
  IN  /\ srvCalls' = [srvCalls EXCEPT ![i].obs = ValueHandled(@)]
      /\ \/ IsLastValue(rec.obs) /\ OnStreamComplete(i, rec, val)
         \/ /\ ~IsLastValue(rec.obs)
            /\ Send(Response("ResponseData", i, rec, val))
            /\ activeStreamCalls' = activeStreamCalls

(* Mutant: completion is reported again after the last value.               *)
FinalTaskTwice(i, kind) ==
  IF kind = "error"
    THEN OnStreamError(i, srvCalls[i])
    ELSE OnStreamComplete(i, srvCalls[i], NoValue)

ResponseFinalTask(i, kind) ==
  IF kind = "error"
    THEN OnStreamError(i, srvCalls[i])
    ELSE IF srvCalls[i].obs.completeCalled
           THEN NothingSent /\ activeStreamCalls' = activeStreamCalls
           ELSE OnStreamComplete(i, srvCalls[i], NoValue)

ServerMicrotaskRuns ==
  /\ srvInbox = <<>>
  /\ srvMicrotasks # <<>>
  /\ srvMicrotasks' = Tail(srvMicrotasks)
  /\ LET task == Head(srvMicrotasks)
     IN  \/ task.kind = "next" /\ ResponseValueTask(task.call, task.val)
         \/ task.kind # "next" /\ ResponseFinalTask(task.call, task.kind) /\ srvCalls' = srvCalls
  /\ UNCHANGED <<srvInbox, srvStopped, c2s>>

(* execStaticCall: the promise of the call settles.                         *)
StaticCallSettles(i, type) ==
  /\ srvInbox = <<>>
  /\ srvCalls[i].kind = "static" /\ srvCalls[i].res = "open"
  /\ srvCalls' = [srvCalls EXCEPT
       ![i].res = IF type = "ResponseError" THEN "errored" ELSE "completed",
       ![i].emitted = IF type = "ResponseError" THEN @ ELSE 1]
  /\ Send(Response(type, i, srvCalls[i], IF type = "ResponseError" THEN NoValue ELSE 1))
  /\ UNCHANGED <<activeStreamCalls, srvMicrotasks, srvInbox, srvStopped, c2s>>

-----------------------------------------------------------------------------
(* Messages from the client.                                                *)
ServerReceivesBatch ==
  /\ c2s # <<>>
  /\ srvInbox = <<>> /\ srvMicrotasks = <<>>
  /\ srvInbox' = Head(c2s)
  /\ c2s' = Tail(c2s)
  /\ NothingSent
  /\ UNCHANGED <<srvCalls, activeStreamCalls, srvMicrotasks, srvStopped>>

IsStreaming(m) == m.method \in StreamingMethod

IsStatic(m) == m.method \in Method \ (StreamingMethod \cup UnknownMethod)

(* createStreamCall, and the first message applied to the new call.         *)
CreateStreamCall(m, rec) ==
  /\ srvCalls' = Append(srvCalls, rec)
  /\ activeStreamCalls' = [activeStreamCalls EXCEPT ![m.id] = Len(srvCalls) + 1]
  /\ NothingSent
  /\ srvMicrotasks' = srvMicrotasks

ExecStaticCall(m) ==
  /\ srvCalls' = Append(srvCalls,
       [NewCall(m, "static") EXCEPT !.req = "completed", !.got = <<m.val>>])
  /\ NothingSent
  /\ UNCHANGED <<activeStreamCalls, srvMicrotasks>>

UpdateServerCall(i, rec) ==
  /\ srvCalls' = [srvCalls EXCEPT ![i] = rec]
  /\ NothingSent
  /\ UNCHANGED <<activeStreamCalls, srvMicrotasks>>

Refused(m) ==
  /\ SendError(m)
  /\ UNCHANGED <<srvCalls, activeStreamCalls, srvMicrotasks>>

OnRequestData(m) ==
  LET i == activeStreamCalls[m.id]
  IN  \/ i # 0 /\ UpdateServerCall(i, RequestValue(srvCalls[i], m.val))
      \/ i = 0 /\ m.method = NoMethod /\ Refused(m)
      \/ i = 0 /\ IsStatic(m) /\ ExecStaticCall(m)
      \/ i = 0 /\ IsStreaming(m) /\ CreateStreamCall(m, RequestValue(NewCall(m, "stream"), m.val))

(* caller.info throws for a method that does not exist, and the exception   *)
(* leaves onMessages: the rest of the batch is lost.                        *)
OnRequestDataThrows(m) ==
  /\ m.type = "RequestData"
  /\ activeStreamCalls[m.id] = 0
  /\ m.method \in UnknownMethod
  /\ NothingSent
  /\ UNCHANGED <<srvCalls, activeStreamCalls, srvMicrotasks>>

(* A new call whose only message has no payload is not completed.           *)
OnRequestComplete(m) ==
  LET i == activeStreamCalls[m.id]
      first == RequestValue(NewCall(m, "stream"), m.val)
  IN  \/ i # 0 /\ UpdateServerCall(i, RequestEnd(RequestValue(srvCalls[i], m.val), "completed"))
      \/ i = 0 /\ m.method \in {NoMethod} \cup UnknownMethod /\ Refused(m)
      \/ i = 0 /\ IsStatic(m) /\ ExecStaticCall(m)
      \/ i = 0 /\ IsStreaming(m)
           /\ CreateStreamCall(m, IF m.val = NoValue THEN first ELSE RequestEnd(first, "completed"))

(* An errored request stream errors the response, if it is still open; on a *)
(* new call it does so before any value, and the id is free again at once.  *)
OnRequestError(m) ==
  LET i == activeStreamCalls[m.id]
      new == RequestEnd(NewCall(m, "stream"), "errored")
  IN  \/ /\ i # 0 /\ srvCalls[i].req = "open" /\ srvCalls[i].res = "open"
         /\ ResponseErrors(i, RequestEnd(srvCalls[i], "errored"), srvCalls)
      \/ /\ i # 0 /\ ~(srvCalls[i].req = "open" /\ srvCalls[i].res = "open")
         /\ UpdateServerCall(i, RequestEnd(srvCalls[i], "errored"))
      \/ i = 0 /\ ~IsStreaming(m) /\ Refused(m)
      \/ i = 0 /\ IsStreaming(m) /\ ResponseErrors(Len(srvCalls) + 1, new, Append(srvCalls, new))

(* The entry goes first, then the request completes; the response stream is *)
(* not unsubscribed.                                                        *)
OnUnsubscribe(m) ==
  LET i == activeStreamCalls[m.id]
  IN  \/ /\ i # 0
         /\ activeStreamCalls' = [activeStreamCalls EXCEPT ![m.id] = 0]
         /\ srvCalls' = [srvCalls EXCEPT
              ![i] = [RequestEnd(@, "completed") EXCEPT !.unsubscribed = TRUE]]
         /\ NothingSent /\ srvMicrotasks' = srvMicrotasks
      \/ /\ i = 0
         /\ NothingSent /\ UNCHANGED <<srvCalls, activeStreamCalls, srvMicrotasks>>

ServerOnMessage ==
  /\ srvInbox # <<>>
  /\ LET m == Head(srvInbox)
     IN  \/ /\ \/ m.type = "RequestData" /\ OnRequestData(m)
               \/ m.type = "RequestComplete" /\ OnRequestComplete(m)
               \/ m.type = "RequestError" /\ OnRequestError(m)
               \/ m.type = "ResponseUnsubscribe" /\ OnUnsubscribe(m)
            /\ srvInbox' = Tail(srvInbox)
         \/ /\ OnRequestDataThrows(m)
            /\ srvInbox' = <<>>
  /\ UNCHANGED <<srvStopped, c2s>>

-----------------------------------------------------------------------------
ServerTimerFires ==
  /\ srvInbox = <<>> /\ srvMicrotasks = <<>>
  /\ SrvBuffer!TimerFires
  /\ UNCHANGED <<srvCalls, activeStreamCalls, srvMicrotasks, srvInbox, srvStopped, c2s>>

(* stop(): send is muted, but a filled buffer still goes out by its timer.  *)
(* Every active call gets an error into its request stream, which errors an *)
(* open response; stop$ then completes a response that is still open, as it *)
(* is when the request had ended before.                                    *)
StoppedCall(rec) ==
  CASE rec.res # "open" -> RequestEnd(rec, "errored")
    [] rec.res = "open" /\ rec.req = "open" ->
         [rec EXCEPT !.req = "errored", !.res = "errored"]
    [] OTHER -> [rec EXCEPT !.res = "completed", !.obs = SourceCompleted(@)]

StopTask(i) ==
  SrvTask(i, IF srvCalls[i].req = "open" THEN "error" ELSE "complete", NoValue)

(* The ends that wait for a microtask come in any order: nothing is sent any *)
(* more.                                                                    *)
ServerStop ==
  LET active == {activeStreamCalls[id] : id \in Id} \ {0}
      late == SetToSeq({i \in active : srvCalls[i].res = "open" /\ ~PassedOnAtOnce(srvCalls[i].obs)})
  IN  /\ ~srvStopped
      /\ srvStopped' = TRUE
      /\ srvCalls' = [i \in DOMAIN srvCalls |->
           IF i \in active THEN StoppedCall(srvCalls[i]) ELSE srvCalls[i]]
      /\ srvMicrotasks' = srvMicrotasks \o [k \in DOMAIN late |-> StopTask(late[k])]
      /\ activeStreamCalls' = [id \in Id |-> 0]
      /\ UNCHANGED <<srvInbox, srvBuf, srvTimer, s2c, c2s>>

ServerCallback ==
  \/ ServerMicrotaskRuns
  \/ ServerReceivesBatch
  \/ ServerOnMessage
  \/ ServerTimerFires

MethodAction ==
  \E i \in DOMAIN srvCalls :
    \/ MethodEmits(i)
    \/ MethodCompletes(i)
    \/ MethodFails(i)
    \/ \E type \in {"ResponseComplete", "ResponseError"} : StaticCallSettles(i, type)

ServerNext == ServerCallback \/ MethodAction \/ ServerStop

-----------------------------------------------------------------------------
ServerTypeOK ==
  /\ srvCalls \in Seq(ServerCall)
  /\ activeStreamCalls \in [Id -> 0 .. Len(srvCalls)]
  /\ srvMicrotasks \in Seq([call: DOMAIN srvCalls, kind: {"next", "complete", "error"}, val: Nat])
  /\ srvInbox \in Seq(ClientMessage)
  /\ srvStopped \in BOOLEAN
  /\ srvBuf \in Seq(ServerMessage)
  /\ srvTimer \in BOOLEAN
  /\ s2c \in Seq(Seq(ServerMessage))

(* The messages sent by a step: at most one.                                *)
SentMessages ==
  LET batch == IF Len(s2c') > Len(s2c) THEN s2c'[Len(s2c')] ELSE srvBuf'
  IN  {batch[k] : k \in (Len(srvBuf) + 1) .. Len(batch)}

(* The last message of execution i was sent.                                *)
ResponseEnded(i) ==
  /\ srvCalls[i].res # "open"
  /\ srvCalls[i].obs.completeCalled \/ \A k \in DOMAIN srvMicrotasks : srvMicrotasks[k].call # i

-----------------------------------------------------------------------------
(* The entries of activeStreamCalls are streaming calls with that id whose  *)
(* response has not ended and whose client has not unsubscribed: no entry   *)
(* outlives its call, in whatever order the two streams end.                *)
ActiveCallsUnended ==
  \A id \in Id : LET i == activeStreamCalls[id] IN
    i # 0 =>
      /\ srvCalls[i].kind = "stream" /\ srvCalls[i].id = id
      /\ ~srvCalls[i].unsubscribed
      /\ ~ResponseEnded(i)

(* The end of a response is its last message, and there is one end only:    *)
(* whichever of the method, the last value's microtask and the end's own    *)
(* reports it, the others will not.                                         *)
NoResponseAfterItsEnd ==
  [][\A m \in SentMessages :
       /\ m.by \in DOMAIN srvCalls => ~ResponseEnded(m.by)
       /\ m.type # "ResponseData" /\ m.by # 0 => ResponseEnded(m.by)']_serverVars
=============================================================================
