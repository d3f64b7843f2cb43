------------------------- MODULE StreamingRpcClient -------------------------
(***************************************************************************)
(* src/common/rpc/client/StreamingRpcClient.ts: the client end of the      *)
(* protocol. A call joins four parties: the user's request observable, the *)
(* in-between subjects req$ and res$, the server's messages, and those who *)
(* subscribe to the returned observable: nobody, one user, or several, each*)
(* of whom may leave. They end in any order, and the call occupies its id  *)
(* until both streams have ended.                                          *)
(*                                                                         *)
(* JavaScript runs one callback at a time. User code (a new call, a value  *)
(* of a request observable, an unsubscribe) may run inside the delivery of *)
(* a server message, in a microtask or on its own, so its actions have no  *)
(* event-loop guard; microtasks wait for the end of the current batch, and *)
(* a new batch or a timer waits for the microtasks. When res$ ends, one    *)
(* subscriber after another is told; only user code can come between.      *)
(***************************************************************************)
EXTENDS RpcMessages, Sequences

CONSTANTS
  clientItemLimit,  \* bufferSize
  MaxRequestValues, \* bound on the values of one request observable
  StaticCaller,     \* the calls that may be made with a plain value
  StreamCaller,     \* the calls that may be made with an observable
  StaticPayload,    \* payloads of calls made with a plain value
  SubscribeMode,    \* how users listen: "all" subscribes to the observable,
                    \* "first" is the firstValueFrom of call()
  MaxSubscribers,   \* bound on the subscriptions to one returned observable
  SharedCall        \* the calls that may have more than one subscription

ASSUME ClientAssumption ==
  /\ clientItemLimit \in Nat \ {0}
  /\ MaxRequestValues \in Nat
  /\ StaticCaller \subseteq Call /\ StreamCaller \subseteq Call
  /\ StaticPayload \subseteq Nat
  /\ SubscribeMode \subseteq {"all", "first"}
  /\ MaxSubscribers \in Nat
  /\ SharedCall \subseteq Call

Subscriber == 1 .. MaxSubscribers

VARIABLES
  nextId,       \* StreamingRpcClient.id
  calls,        \* StreamingRpcClient.calls: id -> call, NoCall when absent
  call,         \* closure and ObserverEntry of every call
  user,         \* the subscribers of every call and what they were told
  microtasks,   \* microtasks queued by subscribeCompleteObserver
  inbox,        \* rest of the batch onMessages is iterating over
  stopped,      \* stop() was called
  buf,          \* StreamingRpcClient.buffer: queued messages
  bufTimer,     \* StreamingRpcClient.buffer: timer armed
  c2s,          \* batches handed to send() and not yet at the server
  s2c           \* batches from the server not yet received

clientVars == <<nextId, calls, call, user, microtasks, inbox, stopped, buf, bufTimer, c2s>>

Buffer == INSTANCE TimedQueue
            WITH itemLimit <- clientItemLimit, list <- buf, timer <- bufTimer, out <- c2s

-----------------------------------------------------------------------------
(* One call$ execution. "idle" calls were not made yet. req and res are the *)
(* states of the two subjects, "left" for a res$ that the teardown of a     *)
(* subscriber completed; sent counts the values of the request stream.      *)
CallRecord ==
  [kind: {"idle", "static", "stream"}, id: Id \cup {0}, method: Method \cup {NoMethod},
   req: {"open", "completed", "errored"}, sent: 0 .. MaxRequestValues,
   obs: ObserverState, firstMessageSent: BOOLEAN,
   res: {"open", "completed", "errored", "left"}, resFinalized: BOOLEAN,
   finalizedStreams: Nat]

IdleCall ==
  [kind |-> "idle", id |-> 0, method |-> NoMethod, req |-> "open", sent |-> 0,
   obs |-> NewObserver, firstMessageSent |-> FALSE,
   res |-> "open", resFinalized |-> FALSE, finalizedStreams |-> 0]

(* A subscription: how it listens, the responses it got, how it ended.      *)
UserRecord ==
  [sub: {"none", "all", "first", "done"},
   got: Seq([val: Nat, of: Call \cup {NoCall}]),
   outcome: {"none", "completed", "errored", "unsubscribed", "resolved"}]

IdleUser == [sub |-> "none", got |-> <<>>, outcome |-> "none"]

ClientMicrotask ==
  [of: Call, kind: {"next", "complete", "error"}, val: Nat]

ClientInit ==
  /\ nextId = 1
  /\ calls = [id \in Id |-> NoCall]
  /\ call = [c \in Call |-> IdleCall]
  /\ user = [c \in Call |-> [k \in Subscriber |-> IdleUser]]
  /\ microtasks = <<>>
  /\ inbox = <<>>
  /\ stopped = FALSE
  /\ Buffer!QueueInit

-----------------------------------------------------------------------------
(* buffer.push; after stop() onFlush does nothing and so the buffer is dead. *)
PushMessage(m) ==
  \/ ~stopped /\ Buffer!Push(m)
  \/ stopped /\ UNCHANGED <<buf, bufTimer, c2s>>

NothingPushed == UNCHANGED <<buf, bufTimer, c2s>>

(* Mutant: every message carries the method name.                           *)
RequestWithMethod(type, rec, c, val) ==
  [type |-> type, id |-> rec.id, val |-> val, of |-> c, method |-> rec.method]

Request(type, rec, c, val) ==
  [type |-> type, id |-> rec.id, val |-> val, of |-> c,
   method |-> IF rec.firstMessageSent THEN NoMethod ELSE rec.method]

Unsubscribe(rec, c) ==
  [type |-> "ResponseUnsubscribe", id |-> rec.id, val |-> NoValue, of |-> c,
   method |-> NoMethod]

(* cleanup(): counts the streams that ended.                                *)
Cleanup(rec) == [rec EXCEPT !.finalizedStreams = @ + 1]

(* cleanup() frees the id when the second stream ends.                      *)
UpdateCall(c, rec) ==
  /\ call' = [call EXCEPT ![c] = rec]
  /\ calls' = IF rec.finalizedStreams = 2 /\ call[c].finalizedStreams # 2
                THEN [calls EXCEPT ![rec.id] = NoCall]
                ELSE calls

(* res$ ends; a subject that ended already ignores it.                      *)
EndResponse(rec, how) ==
  IF rec.res = "open" THEN [Cleanup(rec) EXCEPT !.res = how] ELSE rec

-----------------------------------------------------------------------------
(* Mutant: the id is never advanced.                                        *)
SameId(id) == id

(* call$: the next id that no call occupies. With every id taken the code   *)
(* recurses for ever; the guard asks for a free one.                        *)
Successor(id) == IF id + 1 >= MaxId THEN 1 ELSE id + 1

(* Mutant: an id is taken without asking whether it is free.                *)
NextInLine(id) == id = nextId

(* id is the first free one when counting up from nextId, with wrap-around. *)
FirstFree(id) ==
  /\ calls[id] = NoCall
  /\ \A other \in Id :
       (other - nextId) % (MaxId - 1) < (id - nextId) % (MaxId - 1) => calls[other] # NoCall

StartCall(c, rec) ==
  /\ call[c].kind = "idle"
  /\ ~stopped
  /\ FirstFree(rec.id)
  /\ nextId' = Successor(rec.id)
  /\ calls' = [calls EXCEPT ![rec.id] = c]
  /\ call' = [call EXCEPT ![c] = rec]
  /\ UNCHANGED <<user, microtasks, inbox, stopped, s2c>>

(* call$ with a plain value: the request stream ends within the call.       *)
CallStatic(c, id, m, val) ==
  LET rec == [IdleCall EXCEPT !.kind = "static", !.id = id, !.method = m]
  IN  /\ StartCall(c, Cleanup([rec EXCEPT !.req = "completed"]))
      /\ PushMessage(Request("RequestComplete", rec, c, val))

(* call$ with an observable.                                                *)
CallStream(c, id, m) ==
  /\ StartCall(c, [IdleCall EXCEPT !.kind = "stream", !.id = id, !.method = m])
  /\ NothingPushed

-----------------------------------------------------------------------------
(* The user's request observable, subscribed by req$.                       *)
StreamOpen(c) == call[c].kind = "stream" /\ call[c].req = "open"

Task(c, kind, val) == [of |-> c, kind |-> kind, val |-> val]

SourceNext(c) ==
  /\ StreamOpen(c)
  /\ call[c].sent < MaxRequestValues
  /\ call' = [call EXCEPT ![c].sent = @ + 1, ![c].obs = ValueQueued(@)]
  /\ microtasks' = Append(microtasks, Task(c, "next", call[c].sent + 1))
  /\ NothingPushed
  /\ UNCHANGED <<nextId, calls, user, inbox, stopped, s2c>>

(* The final callback of the request stream: cleanup and the last message.  *)
EndRequest(c, rec, type, val) ==
  /\ UpdateCall(c, Cleanup(rec))
  /\ PushMessage(Request(type, rec, c, val))

(* req$ completes, by the user's observable or by the server's message.     *)
CompleteRequest(c) ==
  LET rec == [call[c] EXCEPT !.req = "completed", !.obs = SourceCompleted(@)]
  IN  \/ /\ PassedOnAtOnce(rec.obs)
         /\ EndRequest(c, rec, "RequestComplete", NoValue)
         /\ microtasks' = microtasks
      \/ /\ ~PassedOnAtOnce(rec.obs)
         /\ microtasks' = Append(microtasks, Task(c, "complete", NoValue))
         /\ call' = [call EXCEPT ![c] = rec]
         /\ calls' = calls
         /\ NothingPushed

SourceComplete(c) ==
  /\ StreamOpen(c)
  /\ CompleteRequest(c)
  /\ UNCHANGED <<nextId, user, inbox, stopped, s2c>>

SourceError(c) ==
  LET rec == [call[c] EXCEPT !.req = "errored"]
  IN  /\ StreamOpen(c)
      /\ \/ /\ PassedOnAtOnce(rec.obs)
            /\ EndRequest(c, rec, "RequestError", NoValue)
            /\ microtasks' = microtasks
         \/ /\ ~PassedOnAtOnce(rec.obs)
            /\ microtasks' = Append(microtasks, Task(c, "error", NoValue))
            /\ call' = [call EXCEPT ![c] = rec]
            /\ calls' = calls
            /\ NothingPushed
      /\ UNCHANGED <<nextId, user, inbox, stopped, s2c>>

(* The callbacks of subscribeCompleteObserver(req$, ...).                   *)
RequestValueTask(c, val) ==
  LET rec == [call[c] EXCEPT !.obs = ValueHandled(@)]
  IN  \/ /\ IsLastValue(call[c].obs)
         /\ EndRequest(c, rec, "RequestComplete", val)
      \/ /\ ~IsLastValue(call[c].obs)
         /\ call' = [call EXCEPT ![c] = [rec EXCEPT !.firstMessageSent = TRUE]]
         /\ calls' = calls
         /\ PushMessage(Request("RequestData", rec, c, val))

(* Mutant: completion is sent again after the last value.                   *)
RequestFinalTaskTwice(c, kind) ==
  EndRequest(c, call[c], IF kind = "error" THEN "RequestError" ELSE "RequestComplete", NoValue)

RequestFinalTask(c, kind) ==
  IF kind = "error"
    THEN EndRequest(c, call[c], "RequestError", NoValue)
    ELSE IF call[c].obs.completeCalled
           THEN NothingPushed /\ UNCHANGED <<call, calls>>
           ELSE EndRequest(c, call[c], "RequestComplete", NoValue)

ClientMicrotaskRuns ==
  /\ inbox = <<>>
  /\ microtasks # <<>>
  /\ microtasks' = Tail(microtasks)
  /\ LET task == Head(microtasks)
     IN  \/ task.kind = "next" /\ RequestValueTask(task.of, task.val)
         \/ task.kind # "next" /\ RequestFinalTask(task.of, task.kind)
  /\ UNCHANGED <<nextId, user, inbox, stopped, s2c>>

-----------------------------------------------------------------------------
(* Mutant: the server is told in any case.                                  *)
TeardownTellsAlways(c, rec) == PushMessage(Unsubscribe(rec, c))

(* Teardown of the returned observable, run when a subscriber leaves and    *)
(* also when it is told the end: the server hears of it unless it ended the *)
(* response itself, and res$ is completed for all the other subscribers.    *)
TeardownMessage(c, rec) ==
  IF rec.resFinalized THEN NothingPushed ELSE PushMessage(Unsubscribe(rec, c))

Teardown(c, rec) ==
  /\ UpdateCall(c, EndResponse(rec, "left"))
  /\ TeardownMessage(c, rec)

Listening(c, k) == user[c][k].sub \in {"all", "first"}

(* complete or error on an observer, which cannot tell the two completions  *)
(* apart; a firstValueFrom that got no value is rejected in any case.       *)
Ended(u, how) ==
  [u EXCEPT !.sub = "done",
            !.outcome = IF u.sub = "first" \/ how = "errored" THEN "errored" ELSE "completed"]

(* A user subscribes, after those who did before: to a hot subject, so what *)
(* was received before is lost, and one that ended says so at once.         *)
Subscribe(c, k, mode) ==
  /\ call[c].kind # "idle"
  /\ user[c][k].sub = "none" /\ \A j \in 1 .. (k - 1) : user[c][j].sub # "none"
  /\ k = 1 \/ c \in SharedCall
  /\ \/ /\ call[c].res = "open"
        /\ user' = [user EXCEPT ![c][k].sub = mode]
        /\ NothingPushed /\ UNCHANGED <<calls, call>>
     \/ /\ call[c].res # "open"
        /\ user' = [user EXCEPT ![c][k] = Ended([@ EXCEPT !.sub = mode], call[c].res)]
        /\ Teardown(c, call[c])
  /\ UNCHANGED <<nextId, microtasks, inbox, stopped, s2c>>

UserUnsubscribes(c, k) ==
  /\ user[c][k].sub = "all"
  /\ user' = [user EXCEPT ![c][k].sub = "done", ![c][k].outcome = "unsubscribed"]
  /\ Teardown(c, call[c])
  /\ UNCHANGED <<nextId, microtasks, inbox, stopped, s2c>>

(* The ended res$ goes through its observers: the next one hears the end,   *)
(* and its own teardown follows.                                            *)
SubscriberTold(c, k) ==
  /\ call[c].res # "open"
  /\ Listening(c, k) /\ \A j \in 1 .. (k - 1) : ~Listening(c, j)
  /\ user' = [user EXCEPT ![c][k] = Ended(@, call[c].res)]
  /\ Teardown(c, call[c])
  /\ UNCHANGED <<nextId, microtasks, inbox, stopped, s2c>>

EveryoneTold == \A c \in Call, k \in Subscriber : Listening(c, k) => call[c].res = "open"

-----------------------------------------------------------------------------
(* Messages from the server.                                                *)
ClientReceivesBatch ==
  /\ s2c # <<>>
  /\ inbox = <<>> /\ microtasks = <<>>
  /\ inbox' = Head(s2c)
  /\ s2c' = Tail(s2c)
  /\ UNCHANGED <<nextId, calls, call, user, microtasks, stopped>>
  /\ NothingPushed

(* next on an observer. firstValueFrom settles and leaves with its first    *)
(* value, other users may leave from within the callback.                   *)
Hears(u, m, leaves) ==
  [sub |-> IF leaves THEN "done" ELSE u.sub,
   got |-> Append(u.got, [val |-> m.val, of |-> m.of]),
   outcome |-> IF ~leaves THEN u.outcome
               ELSE IF u.sub = "first" THEN "resolved" ELSE "unsubscribed"]

(* res$ hands a value to its observers in turn, up to the one who leaves    *)
(* with it, as this ends res$: 0 when nobody does.                          *)
MayLeaveWith(c) ==
  {f \in {0} \cup {k \in Subscriber : Listening(c, k)} :
     \A k \in Subscriber : user[c][k].sub = "first" => f # 0 /\ f <= k}

HandOut(c, m, f) ==
  user' = [user EXCEPT ![c] =
    [k \in Subscriber |-> IF Listening(c, k) /\ (f = 0 \/ k <= f)
                            THEN Hears(user[c][k], m, k = f) ELSE user[c][k]]]

OnResponseData(c, m) ==
  /\ m.type = "ResponseData"
  /\ \/ /\ call[c].res # "open"
        /\ NothingPushed /\ UNCHANGED <<calls, call, user>>
     \/ /\ call[c].res = "open"
        /\ \E f \in MayLeaveWith(c) :
             /\ HandOut(c, m, f)
             /\ \/ f = 0 /\ NothingPushed /\ UNCHANGED <<calls, call>>
                \/ f # 0 /\ Teardown(c, call[c])
  /\ microtasks' = microtasks

(* The server ends the response: res$ ends. Of this no teardown tells it.   *)
Finalize(c, how) ==
  /\ UpdateCall(c, EndResponse([call[c] EXCEPT !.resFinalized = TRUE], how))
  /\ NothingPushed
  /\ microtasks' = microtasks

(* A subscriber who leaves with the last value ends res$ before its time.   *)
OnResponseComplete(c, m) ==
  /\ m.type = "ResponseComplete"
  /\ \/ /\ m.val # NoValue /\ call[c].res = "open"
        /\ \E f \in MayLeaveWith(c) :
             HandOut(c, m, f) /\ Finalize(c, IF f = 0 THEN "completed" ELSE "left")
     \/ /\ m.val = NoValue \/ call[c].res # "open"
        /\ user' = user /\ Finalize(c, "completed")

OnResponseError(c, m) ==
  /\ m.type = "ResponseError"
  /\ Finalize(c, "errored")
  /\ user' = user

OnRequestUnsubscribe(c, m) ==
  /\ m.type = "RequestUnsubscribe"
  /\ \/ StreamOpen(c) /\ CompleteRequest(c)
     \/ ~StreamOpen(c) /\ NothingPushed /\ UNCHANGED <<calls, call, microtasks>>
  /\ user' = user

(* onMessage: messages for an id that no call occupies are dropped.         *)
ClientOnMessage ==
  /\ inbox # <<>>
  /\ inbox' = Tail(inbox)
  /\ LET m == Head(inbox)
         c == calls[m.id]
     IN  \/ /\ c = NoCall
            /\ NothingPushed /\ UNCHANGED <<calls, call, user, microtasks>>
         \/ /\ c # NoCall
            /\ \/ OnResponseData(c, m)
               \/ OnResponseComplete(c, m)
               \/ OnResponseError(c, m)
               \/ OnRequestUnsubscribe(c, m)
  /\ UNCHANGED <<nextId, stopped, s2c>>

-----------------------------------------------------------------------------
(* The buffer's timer.                                                      *)
ClientTimerFires ==
  /\ ~stopped
  /\ inbox = <<>> /\ microtasks = <<>>
  /\ Buffer!TimerFires
  /\ UNCHANGED <<nextId, calls, call, user, microtasks, inbox, stopped, s2c>>

(* stop(): mutes the buffer for good, errors the request streams and        *)
(* forgets the calls; res$ and so the users are left alone. With the buffer *)
(* muted and the map empty nothing the request streams still do can be      *)
(* observed, and their microtasks are dropped here.                         *)
Stop ==
  /\ ~stopped
  /\ stopped' = TRUE
  /\ calls' = [id \in Id |-> NoCall]
  /\ call' = [c \in Call |-> IF StreamOpen(c) THEN [call[c] EXCEPT !.req = "errored"]
                                              ELSE call[c]]
  /\ buf' = <<>> /\ bufTimer' = FALSE /\ microtasks' = <<>>
  /\ UNCHANGED <<nextId, user, inbox, c2s, s2c>>

ClientCallback ==
  \/ \E c \in Call, k \in Subscriber : SubscriberTold(c, k)
  \/ /\ EveryoneTold
     /\ \/ ClientMicrotaskRuns
        \/ ClientReceivesBatch
        \/ ClientOnMessage
        \/ ClientTimerFires

UserAction ==
  \E c \in Call :
    \/ \E id \in Id, m \in Method :
         \/ c \in StreamCaller /\ CallStream(c, id, m)
         \/ c \in StaticCaller /\ \E val \in StaticPayload : CallStatic(c, id, m, val)
    \/ SourceNext(c)
    \/ SourceComplete(c)
    \/ SourceError(c)
    \/ \E k \in Subscriber :
         \/ \E mode \in SubscribeMode : Subscribe(c, k, mode)
         \/ UserUnsubscribes(c, k)

ClientNext == ClientCallback \/ UserAction \/ Stop

-----------------------------------------------------------------------------
ClientTypeOK ==
  /\ nextId \in Id
  /\ calls \in [Id -> Call \cup {NoCall}]
  /\ call \in [Call -> CallRecord]
  /\ user \in [Call -> [Subscriber -> UserRecord]]
  /\ microtasks \in Seq(ClientMicrotask)
  /\ inbox \in Seq(ServerMessage)
  /\ stopped \in BOOLEAN
  /\ buf \in Seq(ClientMessage)
  /\ bufTimer \in BOOLEAN
  /\ c2s \in Seq(Seq(ClientMessage))

Started(c) == call[c].kind # "idle"

(* The last message of c's request stream was pushed.                       *)
RequestEnded(c) ==
  /\ Started(c) /\ call[c].req # "open"
  /\ call[c].obs.completeCalled \/ \A k \in DOMAIN microtasks : microtasks[k].of # c

(* The messages pushed by a step: at most one.                              *)
PushedMessages ==
  LET batch == IF Len(c2s') > Len(c2s) THEN c2s'[Len(c2s')] ELSE buf'
  IN  {batch[k] : k \in (Len(buf) + 1) .. Len(batch)}

-----------------------------------------------------------------------------
(* An id is in the client's map from the start of its call until both of    *)
(* the call's streams have ended, and under no other call: no id is shared, *)
(* freed too early or leaked (StreamingRpcClient.calls and cleanup()).      *)
IdsOccupied ==
  ~stopped => \A c \in Call : Started(c) =>
    (call[c].finalizedStreams < 2 <=> calls[call[c].id] = c)

(* A subscription ends in this step; the server is told of one that does.   *)
Leaving(c, k) == user[c][k].sub # "done" /\ user'[c][k].sub = "done"

Tells(c) == \E m \in PushedMessages : m.type = "ResponseUnsubscribe" /\ m.of = c

(* The server is told of a subscription's end exactly when it did not end   *)
(* the response itself: whether the subscriber leaves, settles with its     *)
(* first value, is completed because another one left, or comes too late.   *)
(* From the first of these messages on the client takes no more values.     *)
UnsubscribesMatchLeavers ==
  [][\A c \in Call :
       /\ Tells(c) <=> /\ \E k \in Subscriber : Leaving(c, k)
                       /\ ~call'[c].resFinalized /\ ~stopped
       /\ Tells(c) => call'[c].res = "left"]_clientVars

(* The client's last request message really is the last one of its call,    *)
(* and no other one says so: whichever of the source, the last value's      *)
(* microtask and the end's own reports the end, the others will not.        *)
NoRequestAfterItsEnd ==
  [][\A m \in PushedMessages :
       /\ m.type \in RequestType => ~RequestEnded(m.of)
       /\ m.type \in {"RequestComplete", "RequestError"} => RequestEnded(m.of)']_clientVars
=============================================================================
