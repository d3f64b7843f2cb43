---------------------------- MODULE StreamingRpc ----------------------------
(***************************************************************************)
(* One connection: a StreamingRpcClient and a RpcMessageStreamProcessor    *)
(* joined by two reliable FIFO channels of batches, as over a WebSocket.   *)
(* Both run in event loops of their own.                                   *)
(***************************************************************************)
EXTENDS RpcMessages, Sequences, FiniteSets

CONSTANTS
  clientItemLimit, MaxRequestValues, StaticCaller, StreamCaller, StaticPayload, SubscribeMode,
  MaxSubscribers, SharedCall,
  StreamingMethod, UnknownMethod, serverItemLimit, MaxResponseValues,
  MayStop       \* which ends may call stop(): a subset of {"client", "server"}

VARIABLES
  nextId, calls, call, user, microtasks, inbox, stopped, buf, bufTimer,
  srvCalls, activeStreamCalls, srvMicrotasks, srvInbox, srvStopped, srvBuf, srvTimer,
  c2s, s2c

Client == INSTANCE StreamingRpcClient
Server == INSTANCE RpcMessageStreamProcessor

(* The ends' own assumptions, and what a client is configured with.         *)
ASSUME StreamingRpcAssumption ==
  Client!ClientAssumption /\ Server!ServerAssumption

onlyClient == <<nextId, calls, call, user, microtasks, inbox, stopped, buf, bufTimer>>
onlyServer ==
  <<srvCalls, activeStreamCalls, srvMicrotasks, srvInbox, srvStopped, srvBuf, srvTimer>>
vars == <<onlyClient, onlyServer, c2s, s2c>>

Init == Client!ClientInit /\ Server!ServerInit

ClientCallback == Client!ClientCallback /\ UNCHANGED onlyServer
UserAction == Client!UserAction /\ UNCHANGED onlyServer
ClientStop == "client" \in MayStop /\ Client!Stop /\ UNCHANGED onlyServer
ServerCallback == Server!ServerCallback /\ UNCHANGED onlyClient
MethodAction == Server!MethodAction /\ UNCHANGED onlyClient
ServerStop == "server" \in MayStop /\ Server!ServerStop /\ UNCHANGED onlyClient

Next ==
  \/ ClientCallback \/ UserAction \/ ClientStop
  \/ ServerCallback \/ MethodAction \/ ServerStop

Spec == Init /\ [][Next]_vars

(* Event loops keep running: microtasks, timers and deliveries happen. The  *)
(* users and the methods owe nothing.                                       *)
FairSpec == Spec /\ WF_vars(ClientCallback) /\ WF_vars(ServerCallback)

-----------------------------------------------------------------------------
TypeOK == Client!ClientTypeOK /\ Server!ServerTypeOK

(* The server's executions of call c.                                       *)
Executions(c) == {i \in DOMAIN srvCalls : srvCalls[i].of = c}

Started(c) == Client!Started(c)

(* Every message, callback and microtask has been dealt with.               *)
Quiet ==
  /\ microtasks = <<>> /\ inbox = <<>> /\ buf = <<>> /\ c2s = <<>>
  /\ srvMicrotasks = <<>> /\ srvInbox = <<>> /\ srvBuf = <<>> /\ s2c = <<>>

(* A response is only ever delivered to the call it answers.                *)
NoCrossTalk ==
  \A c \in Call, k \in Client!Subscriber :
    \A n \in DOMAIN user[c][k].got : user[c][k].got[n].of = c

(* A method runs once per call, however the call's messages are spread over *)
(* data, complete, error and unsubscribe messages: only the first carries   *)
(* the method name.                                                         *)
MethodRunsOnce ==
  \A i, j \in DOMAIN srvCalls : srvCalls[i].of = srvCalls[j].of => i = j

(* A streaming method gets the request values in order from the first one,  *)
(* and sees the request complete only when it has them all.                 *)
RequestsInOrder ==
  \A i \in DOMAIN srvCalls :
    LET rec == srvCalls[i]
        c == rec.of
    IN  call[c].kind = "stream" /\ rec.kind = "stream" =>
          /\ rec.got = [k \in 1 .. Len(rec.got) |-> k]
          /\ Len(rec.got) <= call[c].sent
          /\ rec.req = "completed" /\ ~rec.unsubscribed =>
               call[c].req = "completed" /\ Len(rec.got) = call[c].sent

(* When nothing is in flight, a call whose request has begun    *)
(* and whose response is open at the client is still running at the server. *)
OpenCallsAnswerable ==
  Quiet /\ ~stopped /\ ~srvStopped => \A c \in Call :
    Started(c) /\ call[c].res = "open" /\ (call[c].sent > 0 \/ call[c].req # "open") =>
      \E i \in Executions(c) : srvCalls[i].res = "open"

(* When nothing is in flight, a running method that was invoked has been    *)
(* told of the end of its request stream.                                   *)
RequestEndReachesMethod ==
  Quiet /\ ~stopped /\ ~srvStopped => \A c \in Call :
    Started(c) /\ call[c].req # "open" =>
      \A i \in Executions(c) :
        srvCalls[i].res = "open" /\ srvCalls[i].got # <<>> => srvCalls[i].req # "open"

(* The end of a response reaches everyone who listens for it, unless an     *)
(* end stops first.                                                         *)
EndReachesUser ==
  \A c \in Call, k \in Client!Subscriber :
    ((\E i \in Executions(c) : srvCalls[i].res # "open") /\ Client!Listening(c, k))
      ~> (~Client!Listening(c, k) \/ stopped \/ srvStopped)
=============================================================================
