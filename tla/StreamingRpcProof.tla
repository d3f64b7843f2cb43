-------------------------- MODULE StreamingRpcProof --------------------------
(***************************************************************************)
(* Proofs about StreamingRpc: one connection of a client and a server.     *)
(*                                                                         *)
(* The two ends are proved about on their own, each with an environment    *)
(* that may send it any messages: this module takes what their steps keep  *)
(* and do (LineInv, LineStep and Reading of the client's proof, ServerInv, *)
(* Entered, ServerReads, ServerSends and Settles of the server's) and joins*)
(* them over the messages between them. Those to the server form one line: *)
(* what it has received and not handled, the batches on their way, and the *)
(* client's buffer. However the buffer flushes and the batches are         *)
(* delivered, the line only grows at its end by a message the client sends,*)
(* is cut off when the client stops, and loses its first message to the    *)
(* server. Of the messages to the client it matters that none is lost      *)
(* (OnWay). ConnInv says what the messages on their way, the calls and     *)
(* their executions have to do with each other.                            *)
(***************************************************************************)
EXTENDS StreamingRpc, SequenceTheorems, TLAPS

(* What each end keeps by itself, with the other end as its environment:    *)
(* the constants and variables of that environment's module are not used.   *)
CP == INSTANCE StreamingRpcClientProof WITH ServerBatch <- {}, MaxResponses <- 0
SP == INSTANCE OpenStreamProcessorProof WITH ClientBatch <- {}, MaxCalls <- 0, MaxRequests <- 0

LEMMA As ==
  /\ CP!MessagesAssumption /\ CP!ClientAssumption /\ CP!ServerBatchAssumption
  /\ SP!MessagesAssumption /\ SP!ServerAssumption /\ SP!ClientBatchAssumption
BY MessagesAssumption, StreamingRpcAssumption
   DEF CP!MessagesAssumption, CP!ClientAssumption, CP!ServerBatchAssumption,
       SP!MessagesAssumption, SP!ServerAssumption, SP!ClientBatchAssumption,
       Client!ClientAssumption, Server!ServerAssumption, MessagesAssumption


-----------------------------------------------------------------------------
(* The instances say the same of a step: expanded, the two sides of each of *)
(* these are one formula.                                                   *)

LEMMA SameClientNext ==
  Client!ClientNext <=> CP!ClientNext
BY DEF
  Client!Buffer!FlushList, CP!Buffer!FlushList, Client!Buffer!Push, CP!Buffer!Push,
  Client!Buffer!TimerFires, CP!Buffer!TimerFires, Client!CallStatic, CP!CallStatic,
  Client!CallStream, CP!CallStream, Client!Cleanup, CP!Cleanup, Client!ClientCallback,
  CP!ClientCallback, Client!ClientMicrotaskRuns, CP!ClientMicrotaskRuns,
  Client!ClientNext, CP!ClientNext, Client!ClientOnMessage, CP!ClientOnMessage,
  Client!ClientReceivesBatch, CP!ClientReceivesBatch, Client!ClientTimerFires,
  CP!ClientTimerFires, Client!CompleteRequest, CP!CompleteRequest, Client!EndRequest,
  CP!EndRequest, Client!EndResponse, CP!EndResponse, Client!Ended, CP!Ended,
  Client!EveryoneTold, CP!EveryoneTold, Client!Finalize, CP!Finalize, Client!FirstFree,
  CP!FirstFree, Client!HandOut, CP!HandOut, Client!Hears, CP!Hears, Client!Id, CP!Id,
  Client!IdleCall, CP!IdleCall, Client!IsLastValue, CP!IsLastValue, Client!Listening,
  CP!Listening, Client!MayLeaveWith, CP!MayLeaveWith, Client!NewObserver, CP!NewObserver,
  Client!NoValue, CP!NoValue, Client!NothingPushed, CP!NothingPushed,
  Client!OnRequestUnsubscribe, CP!OnRequestUnsubscribe, Client!OnResponseComplete,
  CP!OnResponseComplete, Client!OnResponseData, CP!OnResponseData, Client!OnResponseError,
  CP!OnResponseError, Client!PassedOnAtOnce, CP!PassedOnAtOnce, Client!PushMessage,
  CP!PushMessage, Client!Request, CP!Request, Client!RequestFinalTask,
  CP!RequestFinalTask, Client!RequestValueTask, CP!RequestValueTask,
  Client!SourceComplete, CP!SourceComplete, Client!SourceCompleted, CP!SourceCompleted,
  Client!SourceError, CP!SourceError, Client!SourceNext, CP!SourceNext, Client!StartCall,
  CP!StartCall, Client!Stop, CP!Stop, Client!StreamOpen, CP!StreamOpen, Client!Subscribe,
  CP!Subscribe, Client!Subscriber, CP!Subscriber, Client!SubscriberTold,
  CP!SubscriberTold, Client!Successor, CP!Successor, Client!Task, CP!Task,
  Client!Teardown, CP!Teardown, Client!TeardownMessage, CP!TeardownMessage,
  Client!Unsubscribe, CP!Unsubscribe, Client!UpdateCall, CP!UpdateCall, Client!UserAction,
  CP!UserAction, Client!UserUnsubscribes, CP!UserUnsubscribes, Client!ValueHandled,
  CP!ValueHandled, Client!ValueQueued, CP!ValueQueued

LEMMA SameClientInit ==
  Client!ClientInit <=> CP!ClientInit
BY DEF
  Client!Buffer!QueueInit, CP!Buffer!QueueInit, Client!ClientInit, CP!ClientInit, Client!Id,
  CP!Id, Client!IdleCall, CP!IdleCall, Client!IdleUser, CP!IdleUser, Client!NewObserver,
  CP!NewObserver, Client!Subscriber, CP!Subscriber

LEMMA SameCardinality ==
  ASSUME NEW S PROVE Server!Cardinality(S) = SP!Cardinality(S)
BY DEF
  Server!Cardinality, SP!Cardinality

LEMMA SameSetToSeq ==
  ASSUME NEW S PROVE Server!SetToSeq(S) = SP!SetToSeq(S)
BY SameCardinality DEF
  Server!SetToSeq, SP!SetToSeq, Server!IsInjective, SP!IsInjective

LEMMA SameServerStop ==
  Server!ServerStop <=> SP!ServerStop
BY SameSetToSeq DEF
  Server!Id, SP!Id, Server!NoValue, SP!NoValue, Server!PassedOnAtOnce, SP!PassedOnAtOnce,
  Server!RequestEnd, SP!RequestEnd, Server!ServerStop, SP!ServerStop,
  Server!SourceCompleted, SP!SourceCompleted, Server!SrvTask, SP!SrvTask, Server!StopTask,
  SP!StopTask, Server!StoppedCall, SP!StoppedCall

LEMMA SameServerCallback ==
  Server!ServerCallback <=> SP!ServerCallback
BY DEF
  Server!CreateStreamCall, SP!CreateStreamCall, Server!ExecStaticCall, SP!ExecStaticCall,
  Server!IsLastValue, SP!IsLastValue, Server!IsStatic, SP!IsStatic, Server!IsStreaming,
  SP!IsStreaming, Server!NewCall, SP!NewCall, Server!NewObserver, SP!NewObserver,
  Server!NoValue, SP!NoValue, Server!NothingSent, SP!NothingSent, Server!OnRequestComplete,
  SP!OnRequestComplete, Server!OnRequestData, SP!OnRequestData, Server!OnRequestDataThrows,
  SP!OnRequestDataThrows, Server!OnRequestError, SP!OnRequestError, Server!OnStreamComplete,
  SP!OnStreamComplete, Server!OnStreamError, SP!OnStreamError, Server!OnUnsubscribe,
  SP!OnUnsubscribe, Server!PassedOnAtOnce, SP!PassedOnAtOnce, Server!Refused, SP!Refused,
  Server!RequestEnd, SP!RequestEnd, Server!RequestValue, SP!RequestValue, Server!Response,
  SP!Response, Server!ResponseErrors, SP!ResponseErrors, Server!ResponseFinalTask,
  SP!ResponseFinalTask, Server!ResponseValueTask, SP!ResponseValueTask, Server!Send,
  SP!Send, Server!SendError, SP!SendError, Server!ServerCallback, SP!ServerCallback,
  Server!ServerMicrotaskRuns, SP!ServerMicrotaskRuns, Server!ServerOnMessage,
  SP!ServerOnMessage, Server!ServerReceivesBatch, SP!ServerReceivesBatch,
  Server!ServerTimerFires, SP!ServerTimerFires, Server!SrvBuffer!FlushList,
  SP!SrvBuffer!FlushList, Server!SrvBuffer!Push, SP!SrvBuffer!Push,
  Server!SrvBuffer!TimerFires, SP!SrvBuffer!TimerFires, Server!SrvTask, SP!SrvTask,
  Server!UpdateServerCall, SP!UpdateServerCall, Server!ValueHandled, SP!ValueHandled

LEMMA SameMethodAction ==
  Server!MethodAction <=> SP!MethodAction
BY DEF
  Server!Invoked, SP!Invoked, Server!MethodAction, SP!MethodAction, Server!MethodCompletes,
  SP!MethodCompletes, Server!MethodEmits, SP!MethodEmits, Server!MethodFails,
  SP!MethodFails, Server!NoValue, SP!NoValue, Server!NothingSent, SP!NothingSent,
  Server!OnStreamComplete, SP!OnStreamComplete, Server!OnStreamError, SP!OnStreamError,
  Server!PassedOnAtOnce, SP!PassedOnAtOnce, Server!Response, SP!Response,
  Server!ResponseErrors, SP!ResponseErrors, Server!Send, SP!Send, Server!SourceCompleted,
  SP!SourceCompleted, Server!SrvBuffer!FlushList, SP!SrvBuffer!FlushList,
  Server!SrvBuffer!Push, SP!SrvBuffer!Push, Server!SrvTask, SP!SrvTask,
  Server!StaticCallSettles, SP!StaticCallSettles, Server!ValueQueued, SP!ValueQueued

LEMMA SameServerInit ==
  Server!ServerInit <=> SP!ServerInit
BY DEF
  Server!Id, SP!Id, Server!ServerInit, SP!ServerInit, Server!SrvBuffer!QueueInit,
  SP!SrvBuffer!QueueInit

LEMMA SameServerNext ==
  Server!ServerNext <=> SP!ServerNext
BY SameServerStop, SameServerCallback, SameMethodAction DEF Server!ServerNext, SP!ServerNext

(* A step of the connection is a step of one end.                           *)
LEMMA NextIsOne ==
  Next => \/ CP!ClientNext /\ UNCHANGED onlyServer
          \/ SP!ServerNext /\ UNCHANGED onlyClient
BY SameClientNext, SameServerNext
   DEF Next, ClientCallback, UserAction, ClientStop, ServerCallback, MethodAction, ServerStop,
       Client!ClientNext, Server!ServerNext

LEMMA SameTerms ==
  /\ CP!ClientMessage = ClientMessage /\ SP!ClientMessage = ClientMessage
  /\ CP!ServerMessage = ServerMessage /\ SP!ServerMessage = ServerMessage
  /\ CP!Id = Id /\ SP!Id = Id /\ CP!RequestType = RequestType /\ SP!RequestType = RequestType
  /\ CP!NoValue = NoValue /\ SP!NoValue = NoValue
  /\ Client!Subscriber = CP!Subscriber
  /\ \A c : Started(c) <=> CP!Started(c)
BY DEF CP!ClientMessage, SP!ClientMessage, ClientMessage, CP!ServerMessage, SP!ServerMessage,
       ServerMessage, CP!Id, SP!Id, Id, CP!RequestType, SP!RequestType, RequestType,
       CP!ResponseType, SP!ResponseType, ResponseType, CP!NoValue, SP!NoValue, NoValue,
       Started, Client!Started, CP!Started, Client!Subscriber, CP!Subscriber

-----------------------------------------------------------------------------
(* A line of messages: those being read, then those of the batches on their *)
(* way, then those still collected. f tells where in q each batch ends.     *)
Line(first, mid, last, q, f) ==
  /\ f \in [0 .. Len(mid) -> Nat]
  /\ f[0] = Len(first) /\ f[Len(mid)] + Len(last) = Len(q)
  /\ \A a, b \in 0 .. Len(mid) : a <= b => f[a] <= f[b]
  /\ \A k \in 1 .. Len(first) : q[k] = first[k]
  /\ \A b \in 1 .. Len(mid) :
       /\ f[b] = f[b - 1] + Len(mid[b])
       /\ \A k \in 1 .. Len(mid[b]) : q[f[b - 1] + k] = mid[b][k]
  /\ \A k \in 1 .. Len(last) : q[f[Len(mid)] + k] = last[k]

(* p is q without its first o messages and perhaps without its last ones.   *)
PartOf(p, q, o) ==
  /\ o \in Nat /\ Len(p) + o <= Len(q)
  /\ \A k \in 1 .. Len(p) : p[k] = q[k + o]

LEMMA AppendOne ==
  ASSUME NEW S, NEW s \in Seq(S), NEW e \in S
  PROVE  /\ Append(s, e) \in Seq(S)
         /\ Len(s) \in Nat /\ Len(Append(s, e)) = Len(s) + 1
         /\ \A i \in 1 .. Len(s) : Append(s, e)[i] = s[i]
         /\ Append(s, e)[Len(s) + 1] = e
OBVIOUS

LEMMA TakeOne ==
  ASSUME NEW S, NEW s \in Seq(S), s # <<>>
  PROVE  /\ Head(s) = s[1] /\ Head(s) \in S
         /\ Tail(s) \in Seq(S)
         /\ Len(s) \in Nat \ {0} /\ Len(Tail(s)) = Len(s) - 1
         /\ \A i \in 1 .. Len(Tail(s)) : Tail(s)[i] = s[i + 1]
BY HeadTailProperties, EmptySeq

LEMMA InBatch ==
  ASSUME NEW x \in Nat, NEW y \in Nat, NEW z \in Nat, NEW l \in Nat, NEW n \in Nat, NEW a \in Nat,
         y = x + l, y <= z, z + a = n, NEW k \in 1 .. l
  PROVE  x + k \in 1 .. n
OBVIOUS

LEMMA InLast ==
  ASSUME NEW x \in Nat, NEW l \in Nat, NEW n \in Nat, x + l = n, NEW k \in 1 .. l
  PROVE  x + k \in 1 .. n
OBVIOUS

LEMMA InFirst ==
  ASSUME NEW x \in Nat, NEW l \in Nat, NEW n \in Nat, NEW a \in Nat, x <= l, l + a = n
  PROVE  x <= n /\ l <= n /\ \A k \in 1 .. x : k \in 1 .. n
OBVIOUS

LEMMA LineFacts ==
  ASSUME NEW S, NEW first \in Seq(S), NEW mid \in Seq(Seq(S)), NEW last \in Seq(S),
         NEW q \in Seq(S), NEW f, Line(first, mid, last, q, f)
  PROVE  /\ Len(first) \in Nat /\ Len(mid) \in Nat /\ Len(last) \in Nat /\ Len(q) \in Nat
         /\ 0 \in 0 .. Len(mid) /\ Len(mid) \in 0 .. Len(mid)
         /\ f[Len(mid)] \in Nat /\ f[Len(mid)] + Len(last) = Len(q) /\ f[0] = Len(first)
         /\ \A b \in 0 .. Len(mid) : f[b] \in Nat /\ Len(first) <= f[b]
                                     /\ f[b] <= f[Len(mid)] /\ f[b] <= Len(q)
         /\ \A b \in 1 .. Len(mid) :
              /\ b \in 0 .. Len(mid) /\ b - 1 \in 0 .. Len(mid)
              /\ mid[b] \in Seq(S) /\ Len(mid[b]) \in Nat
              /\ f[b] = f[b - 1] + Len(mid[b])
              /\ \A k \in 1 .. Len(mid[b]) :
                   f[b - 1] + k \in 1 .. Len(q) /\ q[f[b - 1] + k] = mid[b][k]
         /\ \A k \in 1 .. Len(last) :
              f[Len(mid)] + k \in 1 .. Len(q) /\ q[f[Len(mid)] + k] = last[k]
         /\ \A k \in 1 .. Len(first) : k \in 1 .. Len(q) /\ q[k] = first[k]
<1>1. /\ Len(first) \in Nat /\ Len(mid) \in Nat /\ Len(last) \in Nat /\ Len(q) \in Nat
      /\ \A b \in 1 .. Len(mid) : mid[b] \in Seq(S) /\ Len(mid[b]) \in Nat
  OBVIOUS
<1>2. /\ 0 \in 0 .. Len(mid) /\ Len(mid) \in 0 .. Len(mid)
      /\ \A b \in 0 .. Len(mid) : 0 <= b /\ b <= Len(mid)
      /\ \A b \in 1 .. Len(mid) : b \in 0 .. Len(mid) /\ b - 1 \in 0 .. Len(mid)
  BY <1>1
<1>3. \A b \in 0 .. Len(mid) : f[b] \in Nat
  BY DEF Line
<1>4. f[Len(mid)] \in Nat /\ f[Len(mid)] + Len(last) = Len(q) /\ f[0] = Len(first)
  BY <1>2, <1>3 DEF Line
<1>5. \A b \in 0 .. Len(mid) : Len(first) <= f[b] /\ f[b] <= f[Len(mid)]
  BY <1>2, <1>4 DEF Line
<1>6. /\ \A b \in 0 .. Len(mid) : f[b] <= Len(q)
      /\ \A k \in 1 .. Len(first) : k \in 1 .. Len(q)
  <2>1. ASSUME NEW b \in 0 .. Len(mid) PROVE f[b] <= Len(q)
    BY <1>1, <1>3, <1>4, <1>5, InFirst
  <2>2. Len(first) <= f[Len(mid)]
    BY <1>2, <1>5
  <2>3. \A k \in 1 .. Len(first) : k \in 1 .. Len(q)
    BY <1>1, <1>4, <2>2, InFirst
  <2> QED BY <2>1, <2>3
<1>7. ASSUME NEW b \in 1 .. Len(mid)
      PROVE  /\ f[b] = f[b - 1] + Len(mid[b])
             /\ \A k \in 1 .. Len(mid[b]) :
                  f[b - 1] + k \in 1 .. Len(q) /\ q[f[b - 1] + k] = mid[b][k]
  <2>1. f[b] = f[b - 1] + Len(mid[b]) /\ \A k \in 1 .. Len(mid[b]) : q[f[b - 1] + k] = mid[b][k]
    BY DEF Line
  <2>2. /\ f[b - 1] \in Nat /\ f[b] \in Nat /\ Len(mid[b]) \in Nat
        /\ f[b] <= f[Len(mid)]
    BY <1>1, <1>2, <1>3, <1>5
  <2>3. ASSUME NEW k \in 1 .. Len(mid[b]) PROVE f[b - 1] + k \in 1 .. Len(q)
    BY <1>1, <1>4, <2>1, <2>2, InBatch
  <2> QED BY <2>1, <2>3
<1>8. ASSUME NEW k \in 1 .. Len(last)
      PROVE  f[Len(mid)] + k \in 1 .. Len(q) /\ q[f[Len(mid)] + k] = last[k]
  <2>1. f[Len(mid)] + k \in 1 .. Len(q)
    BY <1>1, <1>4, InLast
  <2> QED BY <2>1 DEF Line
<1>9. \A k \in 1 .. Len(first) : q[k] = first[k]
  BY DEF Line
<1> QED BY <1>1, <1>2, <1>3, <1>4, <1>5, <1>6, <1>7, <1>8, <1>9

LEMMA LessOne ==
  ASSUME NEW x \in Nat, NEW y \in Nat, NEW l \in Nat, x - 1 \in Nat, y - 1 \in Nat
  PROVE  /\ x <= y => x - 1 <= y - 1
         /\ \A k \in Int : (y - 1) + k + 1 = y + k
         /\ \A k \in Int : y + k \in 1 .. x /\ k >= 1 => (y - 1) + k \in 1 .. x - 1
OBVIOUS

LEMMA LessSum ==
  ASSUME NEW x \in Nat, NEW y \in Nat, NEW l \in Nat, x = y + l
  PROVE  x - 1 = (y - 1) + l
OBVIOUS

LEMMA LineTail ==
  ASSUME NEW S, NEW first \in Seq(S), NEW mid \in Seq(Seq(S)), NEW last \in Seq(S),
         NEW q \in Seq(S), NEW f, Line(first, mid, last, q, f), first # <<>>
  PROVE  /\ q # <<>> /\ Head(q) = Head(first)
         /\ \E g : Line(Tail(first), mid, last, Tail(q), g)
<1>1. /\ Len(first) \in Nat \ {0} /\ Len(Tail(first)) = Len(first) - 1 /\ first[1] = Head(first)
      /\ \A k \in 1 .. Len(Tail(first)) : Tail(first)[k] = first[k + 1]
  BY TakeOne
<1>2. /\ Len(first) \in Nat /\ Len(mid) \in Nat /\ Len(last) \in Nat /\ Len(q) \in Nat
      /\ 0 \in 0 .. Len(mid) /\ Len(mid) \in 0 .. Len(mid)
      /\ f[Len(mid)] \in Nat /\ f[Len(mid)] + Len(last) = Len(q) /\ f[0] = Len(first)
  BY LineFacts
<1>3. \A b \in 0 .. Len(mid) : f[b] \in Nat /\ Len(first) <= f[b] /\ f[b] <= Len(q)
  BY LineFacts
<1>4. \A b \in 1 .. Len(mid) :
              /\ b \in 0 .. Len(mid) /\ b - 1 \in 0 .. Len(mid)
              /\ mid[b] \in Seq(S) /\ Len(mid[b]) \in Nat
              /\ f[b] = f[b - 1] + Len(mid[b])
              /\ \A k \in 1 .. Len(mid[b]) :
                   f[b - 1] + k \in 1 .. Len(q) /\ q[f[b - 1] + k] = mid[b][k]
  BY LineFacts
<1>5. \A b \in 0 .. Len(mid) : f[b] - 1 \in Nat
  BY <1>1, <1>3
<1>6. Len(q) # 0 /\ Len(q) - 1 \in Nat
  BY <1>1, <1>2, <1>3
<1>7. q # <<>> /\ Head(q) = q[1] /\ q[1] = first[1] /\ Len(Tail(q)) = Len(q) - 1
      /\ \A k \in 1 .. Len(Tail(q)) : Tail(q)[k] = q[k + 1]
  <2>1. q # <<>> /\ 1 \in 1 .. Len(first)
    BY <1>1, <1>2, <1>6
  <2>2. q[1] = first[1]
    BY <2>1, LineFacts, SMTT(30)
  <2> QED BY <2>1, <2>2, TakeOne
<1> DEFINE g == [b \in 0 .. Len(mid) |-> f[b] - 1]
<1>8. /\ g \in [0 .. Len(mid) -> Nat] /\ \A b \in 0 .. Len(mid) : g[b] = f[b] - 1
  BY <1>5
<1> HIDE DEF g
<1>9. g[0] = Len(Tail(first)) /\ g[Len(mid)] + Len(last) = Len(Tail(q))
  <2>1. g[0] = f[0] - 1 /\ g[Len(mid)] = f[Len(mid)] - 1 /\ f[Len(mid)] - 1 \in Nat
    BY <1>2, <1>5, <1>8
  <2>2. (f[Len(mid)] - 1) + Len(last) = Len(q) - 1
    BY <1>2, LessSum
  <2> QED BY <1>1, <1>2, <1>7, <2>1, <2>2
<1>10. ASSUME NEW a \in 0 .. Len(mid), NEW b \in 0 .. Len(mid), a <= b PROVE g[a] <= g[b]
  <2>1. f[a] <= f[b]
    BY <1>10 DEF Line
  <2> QED BY <1>3, <1>5, <1>8, <2>1, LessOne
<1>11. ASSUME NEW k \in 1 .. Len(Tail(first)) PROVE Tail(q)[k] = Tail(first)[k]
  <2>1. k + 1 \in 1 .. Len(first)
    BY <1>1
  <2>2. k + 1 \in 1 .. Len(q) /\ q[k + 1] = first[k + 1]
    BY <2>1, LineFacts
  <2>3. k \in 1 .. Len(Tail(q))
    BY <1>2, <1>6, <1>7, <2>2
  <2> QED BY <1>1, <1>7, <2>2, <2>3
<1>12. ASSUME NEW b \in 1 .. Len(mid)
       PROVE  /\ g[b] = g[b - 1] + Len(mid[b])
              /\ \A k \in 1 .. Len(mid[b]) : Tail(q)[g[b - 1] + k] = mid[b][k]
  <2>1. /\ b \in 0 .. Len(mid) /\ b - 1 \in 0 .. Len(mid) /\ Len(mid[b]) \in Nat
        /\ f[b] = f[b - 1] + Len(mid[b])
    BY <1>4
  <2>2. /\ f[b] \in Nat /\ f[b - 1] \in Nat /\ f[b] - 1 \in Nat /\ f[b - 1] - 1 \in Nat
        /\ g[b] = f[b] - 1 /\ g[b - 1] = f[b - 1] - 1
    BY <1>3, <1>5, <1>8, <2>1
  <2>3. ASSUME NEW k \in 1 .. Len(mid[b]) PROVE Tail(q)[g[b - 1] + k] = mid[b][k]
    <3>1. f[b - 1] + k \in 1 .. Len(q) /\ q[f[b - 1] + k] = mid[b][k] /\ k \in Int /\ k >= 1
      BY <1>4, <2>1
    <3>2. /\ (f[b - 1] - 1) + k \in 1 .. Len(q) - 1 /\ (f[b - 1] - 1) + k + 1 = f[b - 1] + k
      BY <1>2, <1>6, <2>2, <3>1, LessOne
    <3> QED BY <1>7, <2>2, <3>1, <3>2
  <2>4. g[b] = g[b - 1] + Len(mid[b])
    <3>1. f[b] - 1 = (f[b - 1] - 1) + Len(mid[b])
      BY <2>1, <2>2, LessSum
    <3> QED BY <2>2, <3>1
  <2> QED BY <2>3, <2>4
<1>13. ASSUME NEW k \in 1 .. Len(last) PROVE Tail(q)[g[Len(mid)] + k] = last[k]
  <2>1. f[Len(mid)] + k \in 1 .. Len(q) /\ q[f[Len(mid)] + k] = last[k] /\ k \in Int /\ k >= 1
    BY <1>2, LineFacts
  <2>2. f[Len(mid)] - 1 \in Nat /\ g[Len(mid)] = f[Len(mid)] - 1
    BY <1>2, <1>5, <1>8
  <2>3. /\ (f[Len(mid)] - 1) + k \in 1 .. Len(q) - 1 /\ (f[Len(mid)] - 1) + k + 1 = f[Len(mid)] + k
    BY <1>2, <1>6, <2>1, <2>2, LessOne
  <2> QED BY <1>7, <2>1, <2>2, <2>3
<1>14. Line(Tail(first), mid, last, Tail(q), g)
  BY <1>8, <1>9, <1>10, <1>11, <1>12, <1>13 DEF Line
<1> QED BY <1>1, <1>7, <1>14

LEMMA LineReceives ==
  ASSUME NEW S, NEW first \in Seq(S), NEW mid \in Seq(Seq(S)), NEW last \in Seq(S),
         NEW q \in Seq(S), NEW f, Line(first, mid, last, q, f)
  PROVE  Len(first) = 0 /\ mid # <<>> => \E g : Line(Head(mid), Tail(mid), last, q, g)
<1>3. /\ Len(last) \in Nat /\ Len(q) \in Nat /\ f[0] = Len(first)
      /\ f[Len(mid)] + Len(last) = Len(q)
  BY LineFacts
<1>4. \A b \in 1 .. Len(mid) :
              /\ b \in 0 .. Len(mid) /\ b - 1 \in 0 .. Len(mid)
              /\ mid[b] \in Seq(S) /\ Len(mid[b]) \in Nat
              /\ f[b] = f[b - 1] + Len(mid[b])
              /\ \A k \in 1 .. Len(mid[b]) :
                   f[b - 1] + k \in 1 .. Len(q) /\ q[f[b - 1] + k] = mid[b][k]
  BY LineFacts
<1> HAVE Len(first) = 0 /\ mid # <<>>
<1>1. /\ Len(mid) \in Nat \ {0} /\ Len(Tail(mid)) = Len(mid) - 1 /\ Head(mid) = mid[1]
      /\ \A b \in 1 .. Len(Tail(mid)) : Tail(mid)[b] = mid[b + 1]
  BY TakeOne
<1>2. Len(first) = 0
  OBVIOUS
<1>5. /\ \A b \in 0 .. Len(Tail(mid)) : b + 1 \in 0 .. Len(mid)
      /\ 1 \in 1 .. Len(mid) /\ 1 - 1 = 0
      /\ 0 \in 0 .. Len(Tail(mid)) /\ 0 + 1 = 1
      /\ Len(Tail(mid)) \in 0 .. Len(Tail(mid)) /\ Len(Tail(mid)) + 1 = Len(mid)
      /\ \A a, b \in 0 .. Len(Tail(mid)) : a <= b => a + 1 <= b + 1
      /\ \A b \in 1 .. Len(Tail(mid)) :
           /\ b \in 0 .. Len(Tail(mid)) /\ b - 1 \in 0 .. Len(Tail(mid)) /\ b + 1 \in 1 .. Len(mid)
           /\ (b - 1) + 1 = b /\ (b + 1) - 1 = b
  BY <1>1
<1> DEFINE g == [b \in 0 .. Len(Tail(mid)) |-> f[b + 1]]
<1>6. /\ g \in [0 .. Len(Tail(mid)) -> Nat] /\ \A b \in 0 .. Len(Tail(mid)) : g[b] = f[b + 1]
  <2>1. f \in [0 .. Len(mid) -> Nat]
    BY DEF Line
  <2>2. \A b \in 0 .. Len(Tail(mid)) : f[b + 1] \in Nat
    BY <1>5, <2>1
  <2> QED BY <2>2
<1> HIDE DEF g
<1>7. f[1] = Len(mid[1]) /\ \A k \in 1 .. Len(mid[1]) : q[k] = mid[1][k]
  <2>1. f[1] = f[0] + Len(mid[1]) /\ \A k \in 1 .. Len(mid[1]) : q[f[0] + k] = mid[1][k]
    BY <1>4, <1>5
  <2> QED BY <1>2, <1>3, <1>4, <1>5, <2>1
<1>8. g[0] = Len(Head(mid)) /\ g[Len(Tail(mid))] + Len(last) = Len(q)
      /\ g[Len(Tail(mid))] = f[Len(mid)]
  BY <1>1, <1>3, <1>5, <1>6, <1>7
<1>9. ASSUME NEW a \in 0 .. Len(Tail(mid)), NEW b \in 0 .. Len(Tail(mid)), a <= b
      PROVE  g[a] <= g[b]
  <2>1. f[a + 1] <= f[b + 1]
    BY <1>5, <1>9 DEF Line
  <2> QED BY <1>6, <2>1
<1>10. ASSUME NEW b \in 1 .. Len(Tail(mid))
      PROVE  /\ g[b] = g[b - 1] + Len(Tail(mid)[b])
             /\ \A k \in 1 .. Len(Tail(mid)[b]) : q[g[b - 1] + k] = Tail(mid)[b][k]
  <2>1. /\ f[b + 1] = f[b] + Len(mid[b + 1])
        /\ \A k \in 1 .. Len(mid[b + 1]) : q[f[b] + k] = mid[b + 1][k]
    BY <1>4, <1>5
  <2>2. g[b] = f[b + 1] /\ g[b - 1] = f[b]
    BY <1>5, <1>6
  <2> QED BY <1>1, <2>1, <2>2
<1>11. \A k \in 1 .. Len(last) : q[f[Len(mid)] + k] = last[k]
  BY DEF Line
<1>12. Line(Head(mid), Tail(mid), last, q, g)
  BY <1>1, <1>6, <1>7, <1>8, <1>9, <1>10, <1>11 DEF Line
<1> QED BY <1>12

LEMMA SumGrows ==
  ASSUME NEW x \in Nat, NEW l \in Nat, NEW n \in Nat, x + l = n
  PROVE  x + (l + 1) = n + 1
OBVIOUS

LEMMA LineGrows ==
  ASSUME NEW S, NEW first \in Seq(S), NEW mid \in Seq(Seq(S)), NEW last \in Seq(S),
         NEW q \in Seq(S), NEW f, Line(first, mid, last, q, f), NEW m \in S
  PROVE  Line(first, mid, Append(last, m), Append(q, m), f)
<1>1. /\ Len(Append(last, m)) = Len(last) + 1 /\ Append(last, m)[Len(last) + 1] = m
      /\ \A k \in 1 .. Len(last) : Append(last, m)[k] = last[k]
      /\ Len(Append(q, m)) = Len(q) + 1 /\ Append(q, m)[Len(q) + 1] = m
      /\ \A k \in 1 .. Len(q) : Append(q, m)[k] = q[k]
  BY AppendOne
<1>2. /\ Len(last) \in Nat /\ Len(q) \in Nat
      /\ f[Len(mid)] \in Nat /\ f[Len(mid)] + Len(last) = Len(q)
  BY LineFacts
<1>3. \A k \in 1 .. Len(first) : Append(q, m)[k] = first[k]
  <2>1. \A k \in 1 .. Len(first) : k \in 1 .. Len(q) /\ q[k] = first[k]
    BY LineFacts
  <2> QED BY <1>1, <2>1
<1>4. \A b \in 1 .. Len(mid) :
        \A k \in 1 .. Len(mid[b]) : Append(q, m)[f[b - 1] + k] = mid[b][k]
  <2>1. \A b \in 1 .. Len(mid) :
              /\ b \in 0 .. Len(mid) /\ b - 1 \in 0 .. Len(mid)
              /\ mid[b] \in Seq(S) /\ Len(mid[b]) \in Nat
              /\ f[b] = f[b - 1] + Len(mid[b])
              /\ \A k \in 1 .. Len(mid[b]) :
                   f[b - 1] + k \in 1 .. Len(q) /\ q[f[b - 1] + k] = mid[b][k]
    BY LineFacts, SMTT(30)
  <2> QED BY <1>1, <2>1
<1>5. f[Len(mid)] + (Len(last) + 1) = Len(q) + 1
  <2>1. PICK x \in Nat, l \in Nat, n \in Nat : x = f[Len(mid)] /\ l = Len(last) /\ n = Len(q)
    BY <1>2
  <2>2. x + l = n
    BY <1>2, <2>1
  <2>3. x + (l + 1) = n + 1
    BY <2>2, SumGrows
  <2> QED BY <2>1, <2>3
<1>6. ASSUME NEW k \in 1 .. Len(last) + 1
      PROVE  Append(q, m)[f[Len(mid)] + k] = Append(last, m)[k]
  <2>1. CASE k \in 1 .. Len(last)
    <3>1. f[Len(mid)] + k \in 1 .. Len(q) /\ q[f[Len(mid)] + k] = last[k]
      BY <2>1, LineFacts
    <3> QED BY <1>1, <2>1, <3>1
  <2>2. CASE k = Len(last) + 1
    <3> QED BY <1>1, <1>5, <2>2
  <2>3. k \in 1 .. Len(last) \/ k = Len(last) + 1
    BY <1>2
  <2> QED BY <2>1, <2>2, <2>3
<1>7. \A b \in 1 .. Len(mid) : f[b] = f[b - 1] + Len(mid[b])
  BY DEF Line
<1>8. f \in [0 .. Len(mid) -> Nat] /\ f[0] = Len(first)
      /\ \A a, b \in 0 .. Len(mid) : a <= b => f[a] <= f[b]
  BY DEF Line
<1> QED BY <1>1, <1>3, <1>4, <1>6, <1>5, <1>7, <1>8 DEF Line

LEMMA LineFlushes ==
  ASSUME NEW S, NEW first \in Seq(S), NEW mid \in Seq(Seq(S)), NEW last \in Seq(S),
         NEW q \in Seq(S), NEW f, Line(first, mid, last, q, f),
         NEW none \in Seq(S)
  PROVE  Len(none) = 0 => \E g : Line(first, Append(mid, last), none, q, g)
<1> DEFINE n == Len(mid)
<1>1. /\ Len(Append(mid, last)) = n + 1 /\ Append(mid, last)[n + 1] = last
      /\ \A k \in 1 .. n : Append(mid, last)[k] = mid[k]
  BY AppendOne
<1>2. /\ n \in Nat /\ Len(last) \in Nat /\ Len(q) \in Nat
      /\ f[n] \in Nat /\ f[n] + Len(last) = Len(q) /\ f[0] = Len(first)
      /\ \A b \in 0 .. n : f[b] \in Nat /\ f[b] <= Len(q)
  BY LineFacts
<1> HIDE DEF n
<1> HAVE Len(none) = 0
<1> DEFINE g == [b \in 0 .. n + 1 |-> IF b <= n THEN f[b] ELSE Len(q)]
<1>3. /\ g \in [0 .. n + 1 -> Nat]
      /\ \A b \in 0 .. n : b \in 0 .. n + 1 /\ g[b] = f[b]
      /\ g[n + 1] = Len(q) /\ 0 \in 0 .. n /\ n \in 0 .. n /\ n + 1 \in 0 .. n + 1
      /\ \A b \in 0 .. n + 1 : b \in 0 .. n \/ b = n + 1
      /\ \A b \in 1 .. n : b \in 0 .. n /\ b - 1 \in 0 .. n
      /\ \A b \in 1 .. n + 1 : b \in 1 .. n \/ b = n + 1
      /\ (n + 1) - 1 = n
      /\ \A b \in 0 .. n : ~(n + 1 <= b)
  <2>1. \A b \in 0 .. n + 1 : (IF b <= n THEN f[b] ELSE Len(q)) \in Nat
    BY <1>2
  <2> QED BY <1>2, <2>1
<1> HIDE DEF g
<1>4. g[0] = Len(first) /\ g[n + 1] + Len(none) = Len(q) /\ Len(none) = 0
  BY <1>2, <1>3
<1>5. ASSUME NEW a \in 0 .. n + 1, NEW b \in 0 .. n + 1, a <= b PROVE g[a] <= g[b]
  <2>1. CASE a \in 0 .. n /\ b \in 0 .. n
    <3>1. f[a] <= f[b]
      BY <1>5, <2>1 DEF Line, n
    <3> QED BY <1>3, <2>1, <3>1
  <2>2. CASE a \in 0 .. n /\ b = n + 1
    BY <1>2, <1>3, <2>2
  <2>3. CASE a = n + 1 /\ b = n + 1
    BY <1>2, <1>3, <2>3
  <2> QED BY <1>3, <1>5, <2>1, <2>2, <2>3
<1>6. ASSUME NEW b \in 1 .. n + 1
      PROVE  /\ g[b] = g[b - 1] + Len(Append(mid, last)[b])
             /\ \A k \in 1 .. Len(Append(mid, last)[b]) :
                  q[g[b - 1] + k] = Append(mid, last)[b][k]
  <2>1. CASE b \in 1 .. n
    <3>1. /\ f[b] = f[b - 1] + Len(mid[b])
          /\ \A k \in 1 .. Len(mid[b]) : q[f[b - 1] + k] = mid[b][k]
      BY <2>1 DEF Line, n
    <3> QED BY <1>1, <1>3, <2>1, <3>1
  <2>2. CASE b = n + 1
    <3>1. \A k \in 1 .. Len(last) : q[f[n] + k] = last[k]
      BY DEF Line, n
    <3>2. g[b] = Len(q) /\ g[b - 1] = f[n] /\ Append(mid, last)[b] = last
      BY <1>1, <1>3, <2>2
    <3> QED BY <1>2, <3>1, <3>2
  <2> QED BY <1>3, <2>1, <2>2
<1>7. \A k \in 1 .. Len(first) : q[k] = first[k]
  BY DEF Line
<1>8. Line(first, Append(mid, last), none, q, g)
  BY <1>1, <1>3, <1>4, <1>5, <1>6, <1>7 DEF Line
<1> QED BY <1>8

LEMMA SomePart ==
  ASSUME NEW S, NEW q \in Seq(S), NEW o \in Nat, NEW n \in Nat, n + o <= Len(q)
  PROVE  \E p \in Seq(S) : Len(p) = n /\ PartOf(p, q, o)
<1> DEFINE p == [k \in 1 .. n |-> q[k + o]]
<1>1. \A k \in 1 .. n : k + o \in 1 .. Len(q)
  OBVIOUS
<1>2. p \in Seq(S) /\ Len(p) = n
  BY <1>1
<1>3. PartOf(p, q, o)
  BY <1>2 DEF PartOf
<1> QED BY <1>2, <1>3

LEMMA InPart ==
  ASSUME NEW x \in Nat, NEW y \in Nat, NEW l \in Nat, NEW n \in Nat, y = x + l, y <= n,
         NEW k \in 1 .. l
  PROVE  x + k \in 1 .. n
OBVIOUS

LEMMA LineStops ==
  ASSUME NEW S, NEW first \in Seq(S), NEW mid \in Seq(Seq(S)), NEW last \in Seq(S),
         NEW q \in Seq(S), NEW f, Line(first, mid, last, q, f),
         NEW none \in Seq(S)
  PROVE  Len(none) = 0 => \E p \in Seq(S) : PartOf(p, q, 0) /\ Line(first, mid, none, p, f)
<1>1. /\ Len(mid) \in Nat /\ f[Len(mid)] \in Nat /\ f[Len(mid)] + 0 <= Len(q) /\ f[0] = Len(first)
      /\ Len(mid) \in 0 .. Len(mid) /\ Len(first) <= f[Len(mid)] /\ Len(first) \in Nat
  <2>1. Len(mid) \in 0 .. Len(mid) /\ f[Len(mid)] \in Nat
    BY LineFacts
  <2>2. f[Len(mid)] <= Len(q) /\ Len(first) <= f[Len(mid)] /\ f[0] = Len(first)
    BY <2>1, LineFacts
  <2> QED BY <2>1, <2>2
<1>2. PICK p \in Seq(S) : Len(p) = f[Len(mid)] /\ PartOf(p, q, 0)
  BY <1>1, SomePart
<1>3. \A k \in 1 .. f[Len(mid)] : p[k] = q[k]
  <2>1. \A k \in 1 .. f[Len(mid)] : p[k] = q[k + 0] /\ k + 0 = k
    BY <1>2 DEF PartOf
  <2> QED BY <2>1
<1>4. \A b \in 1 .. Len(mid) :
              /\ b \in 0 .. Len(mid) /\ b - 1 \in 0 .. Len(mid)
              /\ mid[b] \in Seq(S) /\ Len(mid[b]) \in Nat
              /\ f[b] = f[b - 1] + Len(mid[b])
              /\ \A k \in 1 .. Len(mid[b]) :
                   f[b - 1] + k \in 1 .. Len(q) /\ q[f[b - 1] + k] = mid[b][k]
  BY LineFacts
<1>5. \A b \in 0 .. Len(mid) : f[b] \in Nat /\ Len(first) <= f[b]
                                     /\ f[b] <= f[Len(mid)] /\ f[b] <= Len(q)
  BY LineFacts
<1>6. ASSUME NEW b \in 1 .. Len(mid)
      PROVE  /\ f[b] = f[b - 1] + Len(mid[b])
             /\ \A k \in 1 .. Len(mid[b]) : p[f[b - 1] + k] = mid[b][k]
  <2>1. /\ f[b] = f[b - 1] + Len(mid[b])
        /\ \A k \in 1 .. Len(mid[b]) : q[f[b - 1] + k] = mid[b][k]
        /\ f[b] \in Nat /\ f[b - 1] \in Nat /\ Len(mid[b]) \in Nat /\ f[b] <= f[Len(mid)]
    BY <1>4, <1>5
  <2>2. \A k \in 1 .. Len(mid[b]) : f[b - 1] + k \in 1 .. f[Len(mid)]
    BY <1>1, <2>1, InPart
  <2> QED BY <1>3, <2>1, <2>2
<1>7. \A k \in 1 .. Len(first) : p[k] = first[k]
  <2>1. \A k \in 1 .. Len(first) : q[k] = first[k] /\ k \in 1 .. f[Len(mid)]
    BY <1>1 DEF Line
  <2> QED BY <1>3, <2>1
<1>8. f \in [0 .. Len(mid) -> Nat] /\ \A a, b \in 0 .. Len(mid) : a <= b => f[a] <= f[b]
  BY DEF Line
<1> HAVE Len(none) = 0
<1>9. f[Len(mid)] + Len(none) = Len(p) /\ \A k \in 1 .. Len(none) : p[f[Len(mid)] + k] = none[k]
  BY <1>1, <1>2
<1>10. Line(first, mid, none, p, f)
  BY <1>1, <1>6, <1>7, <1>8, <1>9 DEF Line
<1> QED BY <1>2, <1>10

LEMMA LessBy ==
  ASSUME NEW o \in Nat, NEW x \in Nat, NEW y \in Nat, o <= x, o <= y
  PROVE  /\ x - o \in Nat /\ y - o \in Nat
         /\ x <= y => x - o <= y - o
OBVIOUS

LEMMA LessSumBy ==
  ASSUME NEW o \in Nat, NEW x \in Nat, NEW y \in Nat, NEW l \in Nat, x = y + l
  PROVE  x - o = (y - o) + l
OBVIOUS

LEMMA InPartBy ==
  ASSUME NEW o \in Nat, NEW n \in Nat, NEW y \in Nat, o <= y,
         NEW k \in Int, k >= 1, y + k \in 1 .. n
  PROVE  (y - o) + k \in 1 .. n - o /\ ((y - o) + k) + o = y + k
OBVIOUS

LEMMA LineLoses ==
  ASSUME NEW S, NEW first \in Seq(S), NEW mid \in Seq(Seq(S)), NEW last \in Seq(S),
         NEW q \in Seq(S), NEW f, Line(first, mid, last, q, f),
         NEW none \in Seq(S)
  PROVE  Len(none) = 0 =>
           \E p \in Seq(S) : PartOf(p, q, Len(first)) /\ \E g : Line(none, mid, last, p, g)
<1> DEFINE o == Len(first)
<1>1. /\ o \in Nat /\ Len(mid) \in Nat /\ Len(last) \in Nat /\ Len(q) \in Nat
      /\ 0 \in 0 .. Len(mid) /\ Len(mid) \in 0 .. Len(mid)
      /\ f[Len(mid)] \in Nat /\ f[Len(mid)] + Len(last) = Len(q) /\ f[0] = o
  BY LineFacts
<1>2. \A b \in 1 .. Len(mid) :
              /\ b \in 0 .. Len(mid) /\ b - 1 \in 0 .. Len(mid)
              /\ mid[b] \in Seq(S) /\ Len(mid[b]) \in Nat
              /\ f[b] = f[b - 1] + Len(mid[b])
              /\ \A k \in 1 .. Len(mid[b]) :
                   f[b - 1] + k \in 1 .. Len(q) /\ q[f[b - 1] + k] = mid[b][k]
  BY LineFacts
<1>3. \A b \in 0 .. Len(mid) : f[b] \in Nat /\ Len(first) <= f[b]
                                     /\ f[b] <= f[Len(mid)] /\ f[b] <= Len(q)
  BY LineFacts
<1>4. \A k \in 1 .. Len(last) :
              f[Len(mid)] + k \in 1 .. Len(q) /\ q[f[Len(mid)] + k] = last[k]
  BY LineFacts
<1>5. \A b \in 0 .. Len(mid) : f[b] \in Nat /\ o <= f[b] /\ f[b] <= Len(q)
  BY <1>3
<1> HIDE DEF o
<1>6. o <= f[Len(mid)] /\ o <= Len(q) /\ f[Len(mid)] - o \in Nat /\ Len(q) - o \in Nat
      /\ (Len(q) - o) + o = Len(q)
  <2>1. o <= f[Len(mid)] /\ f[Len(mid)] <= Len(q) /\ f[Len(mid)] \in Nat /\ Len(q) \in Nat
        /\ o \in Nat
    BY <1>1, <1>5
  <2> PICK x \in Nat, n \in Nat : x = f[Len(mid)] /\ n = Len(q)
    BY <2>1
  <2>2. o <= x /\ o <= n /\ x - o \in Nat /\ n - o \in Nat /\ (n - o) + o = n
    BY <2>1
  <2> QED BY <2>2
<1>7. PICK p \in Seq(S) : Len(p) = Len(q) - o /\ PartOf(p, q, o)
  <2>1. PICK n \in Nat : n = Len(q) - o
    BY <1>6
  <2>2. n + o <= Len(q)
    BY <1>1, <1>6, <2>1
  <2> QED BY <1>1, <2>1, <2>2, SomePart
<1>8. \A k \in 1 .. Len(q) - o : p[k] = q[k + o]
  BY <1>7 DEF PartOf
<1> DEFINE g == [b \in 0 .. Len(mid) |-> f[b] - o]
<1>9. /\ g \in [0 .. Len(mid) -> Nat] /\ \A b \in 0 .. Len(mid) : g[b] = f[b] - o
  <2>1. \A b \in 0 .. Len(mid) : f[b] - o \in Nat
    BY <1>1, <1>5, LessBy
  <2> QED BY <2>1
<1> HIDE DEF g
<1> HAVE Len(none) = 0
<1>10. g[0] = Len(none) /\ g[Len(mid)] + Len(last) = Len(p)
  <2>1. g[0] = f[0] - o /\ g[Len(mid)] = f[Len(mid)] - o
    BY <1>1, <1>9
  <2>2. Len(q) - o = (f[Len(mid)] - o) + Len(last)
    <3>1. PICK x \in Nat, y \in Nat, l \in Nat : x = Len(q) /\ y = f[Len(mid)] /\ l = Len(last)
      BY <1>1
    <3>2. x = y + l
      BY <1>1, <3>1
    <3>3. x - o = (y - o) + l
      BY <1>1, <3>2, LessSumBy
    <3> QED BY <3>1, <3>3
  <2> QED BY <1>1, <1>7, <2>1, <2>2
<1>11. ASSUME NEW a \in 0 .. Len(mid), NEW b \in 0 .. Len(mid), a <= b PROVE g[a] <= g[b]
  <2>1. f[a] <= f[b]
    BY <1>11 DEF Line
  <2> QED BY <1>1, <1>5, <1>9, <2>1, LessBy
<1>12. ASSUME NEW b \in 1 .. Len(mid)
       PROVE  /\ g[b] = g[b - 1] + Len(mid[b])
              /\ \A k \in 1 .. Len(mid[b]) : p[g[b - 1] + k] = mid[b][k]
  <2>1. /\ b \in 0 .. Len(mid) /\ b - 1 \in 0 .. Len(mid) /\ Len(mid[b]) \in Nat
        /\ f[b] = f[b - 1] + Len(mid[b])
    BY <1>2
  <2>2. /\ f[b] \in Nat /\ f[b - 1] \in Nat /\ o <= f[b] /\ o <= f[b - 1]
        /\ g[b] = f[b] - o /\ g[b - 1] = f[b - 1] - o
    BY <1>5, <1>9, <2>1
  <2>3. f[b] - o = (f[b - 1] - o) + Len(mid[b])
    <3>1. PICK x \in Nat, y \in Nat, l \in Nat : x = f[b] /\ y = f[b - 1] /\ l = Len(mid[b])
      BY <2>1, <2>2
    <3>2. x = y + l
      BY <2>1, <3>1
    <3>3. x - o = (y - o) + l
      BY <1>1, <3>2, LessSumBy
    <3> QED BY <3>1, <3>3
  <2>4. ASSUME NEW k \in 1 .. Len(mid[b]) PROVE p[g[b - 1] + k] = mid[b][k]
    <3>1. f[b - 1] + k \in 1 .. Len(q) /\ q[f[b - 1] + k] = mid[b][k]
      BY <1>2, <2>1
    <3>2. k \in Int /\ k >= 1
      BY <2>1
    <3>3. PICK n \in Nat, y \in Nat : n = Len(q) /\ y = f[b - 1]
      BY <1>1, <2>2
    <3>4. (y - o) + k \in 1 .. n - o /\ ((y - o) + k) + o = y + k
      <4>1. y + k \in 1 .. n /\ o <= y
        BY <2>2, <3>1, <3>3
      <4> QED BY <1>1, <3>2, <4>1, InPartBy
    <3> QED BY <1>8, <2>2, <3>1, <3>3, <3>4
  <2> QED BY <2>2, <2>3, <2>4
<1>13. ASSUME NEW k \in 1 .. Len(last) PROVE p[g[Len(mid)] + k] = last[k]
  <2>1. f[Len(mid)] + k \in 1 .. Len(q) /\ q[f[Len(mid)] + k] = last[k]
    BY <1>4
  <2>2. k \in Int /\ k >= 1
    BY <1>1
  <2>3. PICK n \in Nat, y \in Nat : n = Len(q) /\ y = f[Len(mid)]
    BY <1>1
  <2>4. (y - o) + k \in 1 .. n - o /\ ((y - o) + k) + o = y + k
    <3>1. y + k \in 1 .. n /\ o <= y
      BY <1>6, <2>1, <2>3
    <3> QED BY <1>1, <2>2, <3>1, InPartBy
  <2>5. g[Len(mid)] = f[Len(mid)] - o
    BY <1>1, <1>9
  <2> QED BY <1>8, <2>1, <2>3, <2>4, <2>5
<1>14. Line(none, mid, last, p, g)
  BY <1>7, <1>9, <1>10, <1>11, <1>12, <1>13 DEF Line
<1> QED BY <1>7, <1>14 DEF o

-----------------------------------------------------------------------------
(* The line from the client to the server: what the server reads from, the  *)
(* batches on their way and the client's buffer. A step of either end moves *)
(* it in one of a few ways.                                                 *)
IsLine(q) == q \in Seq(ClientMessage) /\ \E f : Line(srvInbox, c2s, buf, q, f)

RequestGoes(q, p) ==
  \E c \in Call, m \in ClientMessage :
    /\ CP!Goes(m, c)
    /\ \A d \in Call \ {c} : CP!Calm(d)
    /\ \/ ~stopped /\ p = Append(q, m)
       \/ stopped /\ p = q

ClientQuiet(q, p) ==
  /\ \A d \in Call : CP!Calm(d)
  /\ \/ p = q
     \/ \E c \in Call : Started(c) /\ call[c].id \in Id /\ p = Append(q, CP!Unsubscribe(call[c], c))
     \/ stopped' /\ PartOf(p, q, 0)

ClientMoves(q, p) ==
  /\ \A d \in Call : CP!Kept(d)
  /\ stopped => stopped'
  /\ UNCHANGED onlyServer
  /\ RequestGoes(q, p) \/ ClientQuiet(q, p)

ServerMoves(q, p) ==
  /\ UNCHANGED onlyClient
  /\ \/ q # <<>> /\ p = Tail(q) /\ SP!Handled(Head(q))
     \/ SP!NothingGot /\ p = q
     \/ /\ SP!NothingGot /\ q # <<>> /\ Head(q).method \in UnknownMethod
        /\ \E o : PartOf(p, q, o)

Joined == CP!LineInv /\ SP!ServerInv

LEMMA JoinedTyped ==
  ASSUME Joined
  PROVE  /\ srvInbox \in Seq(ClientMessage) /\ c2s \in Seq(Seq(ClientMessage))
         /\ buf \in Seq(ClientMessage)
BY SameTerms DEF Joined, CP!LineInv, CP!ClientInv, CP!TypeOK, CP!ClientTypeOK, CP!BufferTypeOK,
   SP!ServerInv, SP!ServerTyped

LEMMA LineFlushed ==
  ASSUME NEW first \in Seq(ClientMessage), NEW mid \in Seq(Seq(ClientMessage)),
         NEW last \in Seq(ClientMessage), NEW q \in Seq(ClientMessage),
         NEW f, Line(first, mid, last, q, f)
  PROVE  \E g : Line(first, IF last = <<>> THEN mid ELSE Append(mid, last), <<>>, q, g)
<1>1. CASE last = <<>>
  BY <1>1
<1>2. CASE last # <<>>
  <2>1. PICK none \in Seq(ClientMessage) : none = <<>> /\ Len(none) = 0
    BY EmptySeq
  <2> QED BY <1>2, <2>1, LineFlushes
<1> QED BY <1>1, <1>2

LEMMA Pushed ==
  ASSUME Joined, srvInbox' = srvInbox, NEW q, IsLine(q), NEW m \in ClientMessage, CP!Buffer!Push(m)
  PROVE  IsLine(Append(q, m))'
<1>1. PICK f : Line(srvInbox, c2s, buf, q, f)
  BY DEF IsLine
<1>2. /\ q \in Seq(ClientMessage) /\ Append(q, m) \in Seq(ClientMessage)
      /\ Append(buf, m) \in Seq(ClientMessage)
  BY JoinedTyped, AppendOne DEF IsLine
<1>3. Line(srvInbox, c2s, Append(buf, m), Append(q, m), f)
  BY <1>1, <1>2, JoinedTyped, LineGrows
<1>4. CASE CP!Buffer!FlushList(Append(buf, m))
  <2>1. buf' = <<>> /\ c2s' = IF Append(buf, m) = <<>> THEN c2s ELSE Append(c2s, Append(buf, m))
    BY <1>4 DEF CP!Buffer!FlushList
  <2>2. \E g : Line(srvInbox, c2s', <<>>, Append(q, m), g)
    BY <1>2, <1>3, <2>1, JoinedTyped, LineFlushed
  <2> QED BY <1>2, <2>1, <2>2 DEF IsLine
<1>5. CASE buf' = Append(buf, m) /\ c2s' = c2s
  BY <1>2, <1>3, <1>5 DEF IsLine
<1> QED BY <1>4, <1>5 DEF CP!Buffer!Push

LEMMA Flushed ==
  ASSUME Joined, srvInbox' = srvInbox, NEW q, IsLine(q), CP!Buffer!TimerFires
  PROVE  IsLine(q)'
<1>1. PICK f : Line(srvInbox, c2s, buf, q, f)
  BY DEF IsLine
<1>2. buf' = <<>> /\ c2s' = IF buf = <<>> THEN c2s ELSE Append(c2s, buf)
  BY DEF CP!Buffer!TimerFires, CP!Buffer!FlushList
<1>3. \E g : Line(srvInbox, c2s', <<>>, q, g)
  BY <1>1, <1>2, JoinedTyped, LineFlushed DEF IsLine
<1> QED BY <1>2, <1>3 DEF IsLine

LEMMA ClientLineMoves ==
  ASSUME Joined, CP!ClientNext, UNCHANGED onlyServer, NEW q, IsLine(q)
  PROVE  \E p : IsLine(p)' /\ ClientMoves(q, p)
<1>1. CP!LineStep
  BY As, CP!ClientLine DEF Joined
<1>2. srvInbox' = srvInbox
  BY DEF onlyServer
<1>3. stopped => stopped'
  <2>1. CASE CP!ClientCallback
    BY <2>1 DEF CP!ClientCallback, CP!SubscriberTold, CP!ClientMicrotaskRuns,
       CP!ClientReceivesBatch, CP!ClientOnMessage, CP!ClientTimerFires
  <2>2. CASE CP!UserAction
    <3>1. PICK c \in Call :
            \/ \E id \in CP!Id, m \in Method : CP!CallStream(c, id, m)
            \/ \E id \in CP!Id, m \in Method :
                 \E val \in StaticPayload : CP!CallStatic(c, id, m, val)
            \/ CP!SourceNext(c) \/ CP!SourceComplete(c) \/ CP!SourceError(c)
            \/ \E k \in CP!Subscriber : \/ \E mode \in SubscribeMode : CP!Subscribe(c, k, mode)
                                       \/ CP!UserUnsubscribes(c, k)
      BY <2>2 DEF CP!UserAction
    <3> QED BY <3>1 DEF CP!CallStream, CP!CallStatic, CP!StartCall, CP!SourceNext,
            CP!SourceComplete, CP!SourceError, CP!Subscribe, CP!UserUnsubscribes
  <2>3. CASE CP!Stop
    BY <2>3 DEF CP!Stop
  <2> QED BY <2>1, <2>2, <2>3 DEF CP!ClientNext
<1>4. q \in Seq(ClientMessage) /\ \E f : Line(srvInbox, c2s, buf, q, f)
  BY DEF IsLine
<1>5. ASSUME buf' = buf, c2s' = c2s PROVE IsLine(q)'
  BY <1>2, <1>4, <1>5 DEF IsLine
<1>6. CASE \E c \in Call, m \in CP!ClientMessage :
             CP!Goes(m, c) /\ \A d \in Call \ {c} : CP!Calm(d)
  <2>1. PICK c \in Call, m \in ClientMessage : CP!Goes(m, c) /\ \A d \in Call \ {c} : CP!Calm(d)
    BY <1>6, SameTerms
  <2>2. CP!PushMessage(m)
    BY <2>1 DEF CP!Goes
  <2>3. CASE ~stopped /\ CP!Buffer!Push(m)
    <3>1. IsLine(Append(q, m))'
      BY <1>2, <2>3, Pushed
    <3>2. RequestGoes(q, Append(q, m))
      BY <2>1, <2>3 DEF RequestGoes
    <3> QED BY <1>1, <1>3, <3>1, <3>2 DEF ClientMoves, CP!LineStep
  <2>4. CASE stopped /\ UNCHANGED <<buf, bufTimer, c2s>>
    <3>1. RequestGoes(q, q)
      BY <2>1, <2>4 DEF RequestGoes
    <3> QED BY <1>1, <1>3, <1>5, <2>4, <3>1 DEF ClientMoves, CP!LineStep
  <2> QED BY <2>2, <2>3, <2>4 DEF CP!PushMessage
<1>7. CASE (CP!NoneGoes \/ \E c \in Call : CP!Leaves(c)) /\ \A d \in Call : CP!Calm(d)
  <2>1. ASSUME IsLine(q)' PROVE \E p : IsLine(p)' /\ ClientMoves(q, p)
    <3>1. ClientQuiet(q, q)
      BY <1>7 DEF ClientQuiet
    <3> QED BY <1>1, <1>3, <2>1, <3>1 DEF ClientMoves, CP!LineStep
  <2>2. CASE CP!NothingPushed
    BY <1>5, <2>1, <2>2 DEF CP!NothingPushed
  <2>3. CASE CP!Buffer!TimerFires
    BY <1>2, <2>1, <2>3, Flushed
  <2>4. CASE stopped' /\ buf' = <<>> /\ c2s' = c2s
    <3>1. PICK f : Line(srvInbox, c2s, buf, q, f)
      BY <1>4
    <3>2. PICK none \in Seq(ClientMessage) : none = <<>> /\ Len(none) = 0
      BY EmptySeq
    <3>3. PICK p \in Seq(ClientMessage) : PartOf(p, q, 0) /\ Line(srvInbox, c2s, none, p, f)
      BY <1>4, <3>1, <3>2, JoinedTyped, LineStops
    <3>4. IsLine(p)'
      BY <1>2, <2>4, <3>2, <3>3 DEF IsLine
    <3>5. ClientQuiet(q, p)
      BY <1>7, <2>4, <3>3 DEF ClientQuiet
    <3> QED BY <1>1, <1>3, <3>4, <3>5 DEF ClientMoves, CP!LineStep
  <2>5. CASE \E c \in Call : CP!Leaves(c)
    <3>1. PICK c \in Call : CP!Leaves(c)
      BY <2>5
    <3>2. PICK m : m = CP!Unsubscribe(call[c], c)
      OBVIOUS
    <3>3. /\ Started(c) /\ call[c].id \in Id /\ CP!PushMessage(m) /\ m \in ClientMessage
      BY <3>1, <3>2, SameTerms DEF CP!Leaves, CP!Unsubscribe, ClientMessage, CP!NoValue
    <3>4. CASE ~stopped /\ CP!Buffer!Push(m)
      <4>1. IsLine(Append(q, m))'
        BY <1>2, <3>3, <3>4, Pushed
      <4>2. ClientQuiet(q, Append(q, m))
        BY <1>7, <3>2, <3>3 DEF ClientQuiet
      <4> QED BY <1>1, <1>3, <4>1, <4>2 DEF ClientMoves, CP!LineStep
    <3> QED BY <1>5, <2>1, <3>3, <3>4 DEF CP!PushMessage
  <2> QED BY <1>7, <2>2, <2>3, <2>4, <2>5 DEF CP!NoneGoes
<1> QED BY <1>1, <1>6, <1>7 DEF CP!LineStep

LEMMA LineRead ==
  ASSUME Joined, NEW q, IsLine(q), buf' = buf
  PROVE  /\ srvInbox # <<>> => q # <<>> /\ Head(q) = Head(srvInbox)
         /\ srvInbox # <<>> /\ srvInbox' = Tail(srvInbox) /\ c2s' = c2s => IsLine(Tail(q))'
         /\ srvInbox' = <<>> /\ c2s' = c2s => \E p, o : PartOf(p, q, o) /\ IsLine(p)'
         /\ srvInbox = <<>> /\ c2s # <<>> /\ srvInbox' = Head(c2s) /\ c2s' = Tail(c2s) => IsLine(q)'
         /\ srvInbox' = srvInbox /\ c2s' = c2s => IsLine(q)'
<1>1. q \in Seq(ClientMessage) /\ \E f : Line(srvInbox, c2s, buf, q, f)
  BY DEF IsLine
<1>2. PICK f : Line(srvInbox, c2s, buf, q, f)
  BY <1>1
<1>3. PICK none \in Seq(ClientMessage) : none = <<>> /\ Len(none) = 0
  BY EmptySeq
<1>4. ASSUME srvInbox # <<>>
      PROVE  /\ q # <<>> /\ Head(q) = Head(srvInbox)
             /\ srvInbox' = Tail(srvInbox) /\ c2s' = c2s => IsLine(Tail(q))'
  <2>1. /\ q # <<>> /\ Head(q) = Head(srvInbox)
        /\ \E g : Line(Tail(srvInbox), c2s, buf, Tail(q), g)
    BY <1>1, <1>2, <1>4, JoinedTyped, LineTail
  <2>2. Tail(q) \in Seq(ClientMessage)
    BY <1>1, <2>1, TakeOne
  <2> QED BY <2>1, <2>2 DEF IsLine
<1>5. ASSUME srvInbox' = <<>>, c2s' = c2s PROVE \E p, o : PartOf(p, q, o) /\ IsLine(p)'
  <2>1. PICK p \in Seq(ClientMessage) :
          PartOf(p, q, Len(srvInbox)) /\ \E g : Line(none, c2s, buf, p, g)
    BY <1>1, <1>2, <1>3, JoinedTyped, LineLoses
  <2>2. IsLine(p)'
    BY <1>3, <1>5, <2>1 DEF IsLine
  <2> QED BY <2>1, <2>2
<1>6. ASSUME srvInbox = <<>>, c2s # <<>>, srvInbox' = Head(c2s), c2s' = Tail(c2s) PROVE IsLine(q)'
  <2>1. Line(none, c2s, buf, q, f)
    BY <1>2, <1>3, <1>6
  <2>2. \E g : Line(Head(c2s), Tail(c2s), buf, q, g)
    BY <1>1, <1>3, <1>6, <2>1, JoinedTyped, LineReceives
  <2> QED BY <1>1, <1>6, <2>2 DEF IsLine
<1>7. ASSUME srvInbox' = srvInbox, c2s' = c2s PROVE IsLine(q)'
  BY <1>1, <1>7 DEF IsLine
<1> QED BY <1>4, <1>5, <1>6, <1>7

LEMMA ServerLineMoves ==
  ASSUME Joined, SP!ServerNext, UNCHANGED onlyClient, NEW q, IsLine(q)
  PROVE  \E p : IsLine(p)' /\ ServerMoves(q, p)
<1>1. SP!ServerReads
  BY As, SP!ServerLine DEF Joined
<1>2. buf' = buf
  BY DEF onlyClient
<1>3. CASE srvInbox # <<>> /\ srvInbox' = Tail(srvInbox) /\ c2s' = c2s /\ SP!Handled(Head(srvInbox))
  <2>1. IsLine(Tail(q))' /\ q # <<>> /\ Head(q) = Head(srvInbox)
    BY <1>2, <1>3, LineRead
  <2>2. ServerMoves(q, Tail(q))
    BY <1>3, <2>1 DEF ServerMoves
  <2> QED BY <2>1, <2>2
<1>4. CASE /\ srvInbox # <<>> /\ srvInbox' = <<>> /\ c2s' = c2s
           /\ Head(srvInbox).method \in UnknownMethod /\ SP!NothingGot
  <2>1. q # <<>> /\ Head(q) = Head(srvInbox)
    BY <1>2, <1>4, LineRead
  <2>2. PICK p, o : PartOf(p, q, o) /\ IsLine(p)'
    BY <1>2, <1>4, LineRead
  <2>3. ServerMoves(q, p)
    BY <1>4, <2>1, <2>2 DEF ServerMoves
  <2> QED BY <2>2, <2>3
<1>5. ASSUME IsLine(q)', SP!NothingGot PROVE \E p : IsLine(p)' /\ ServerMoves(q, p)
  BY <1>5 DEF ServerMoves
<1>6. CASE /\ c2s # <<>> /\ srvInbox = <<>> /\ srvInbox' = Head(c2s) /\ c2s' = Tail(c2s)
           /\ SP!NothingGot
  BY <1>2, <1>5, <1>6, LineRead
<1>7. CASE srvInbox' = srvInbox /\ c2s' = c2s /\ SP!NothingGot
  BY <1>2, <1>5, <1>7, LineRead
<1> QED BY <1>1, <1>3, <1>4, <1>6, <1>7 DEF SP!ServerReads

(* Both ends keep their invariants, and the line moves.                     *)
LEMMA LineMoves ==
  ASSUME Joined, Next, NEW q, IsLine(q)
  PROVE  /\ Joined'
         /\ \E p : IsLine(p)' /\ (ClientMoves(q, p) \/ ServerMoves(q, p))
<1>1. CASE CP!ClientNext /\ UNCHANGED onlyServer
  <2>1. CP!LineInv'
    BY <1>1, As, CP!LinePreserves DEF Joined
  <2>2. c2s' \in Seq(Seq(SP!ClientMessage)) /\ s2c' \in Seq(Seq(SP!ServerMessage))
    BY <2>1, SameTerms DEF CP!LineInv, CP!ClientInv, CP!TypeOK, CP!ClientTypeOK, CP!BufferTypeOK
  <2>3. SP!ServerInv'
    BY <1>1, <2>2, As, SP!OthersServer DEF Joined, onlyServer
  <2> QED BY <1>1, <2>1, <2>3, ClientLineMoves DEF Joined
<1>2. CASE SP!ServerNext /\ UNCHANGED onlyClient
  <2>1. SP!ServerInv'
    BY <1>2, As, SP!NextInv DEF Joined, SP!Next
  <2>2. c2s' \in Seq(Seq(CP!ClientMessage)) /\ s2c' \in Seq(Seq(CP!ServerMessage))
    BY <2>1, SameTerms DEF SP!ServerInv, SP!ServerTyped, SP!SendTypeOK
  <2>3. CP!LineInv'
    BY <1>2, <2>2, As, CP!OthersLine DEF Joined, onlyClient
  <2> QED BY <1>2, <2>1, <2>3, ServerLineMoves DEF Joined
<1> QED BY <1>1, <1>2, NextIsOne

LEMMA LineBegins ==
  ASSUME Init
  PROVE  /\ Joined /\ IsLine(<<>>)
         /\ call = [c \in Call |-> CP!IdleCall] /\ srvCalls = <<>>
         /\ activeStreamCalls = [id \in Id |-> 0]
         /\ user = [c \in Call |-> [k \in CP!Subscriber |-> CP!IdleUser]]
         /\ inbox = <<>> /\ s2c = <<>> /\ srvBuf = <<>>
<1>1. CP!ClientInit /\ SP!ServerInit
  BY SameClientInit, SameServerInit DEF Init
<1>2. /\ s2c = <<>> /\ srvBuf = <<>> /\ srvInbox = <<>> /\ srvCalls = <<>>
      /\ activeStreamCalls = [id \in SP!Id |-> 0]
  BY <1>1 DEF SP!ServerInit, SP!SrvBuffer!QueueInit
<1>3. /\ c2s = <<>> /\ buf = <<>> /\ inbox = <<>> /\ call = [c \in Call |-> CP!IdleCall]
      /\ user = [c \in Call |-> [k \in CP!Subscriber |-> CP!IdleUser]]
  BY <1>1 DEF CP!ClientInit, CP!Buffer!QueueInit
<1>4. Joined
  BY <1>1, <1>2, <1>3, As, CP!LineInit, SP!InitInv DEF Joined, CP!Init, SP!Init
<1>5. Line(<<>>, <<>>, <<>>, <<>>, [b \in 0 .. 0 |-> 0])
  BY DEF Line
<1>6. IsLine(<<>>)
  BY <1>2, <1>3, <1>5, EmptySeq DEF IsLine
<1> QED BY <1>2, <1>3, <1>4, <1>6, SameTerms

-----------------------------------------------------------------------------
(* What the moves do to the messages and the executions.                    *)
LEMMA PartIn ==
  ASSUME NEW S, NEW q \in Seq(S), NEW p \in Seq(S), NEW o, PartOf(p, q, o)
  PROVE  /\ o \in Nat /\ \A k \in 1 .. Len(p) : k + o \in 1 .. Len(q) /\ p[k] = q[k + o]
         /\ \A j, k \in 1 .. Len(p) : j < k <=> j + o < k + o
<1>1. o \in Nat /\ Len(p) + o <= Len(q) /\ Len(p) \in Nat /\ Len(q) \in Nat
      /\ \A k \in 1 .. Len(p) : p[k] = q[k + o]
  BY DEF PartOf
<1>2. \A k \in 1 .. Len(p) : k + o \in 1 .. Len(q)
  BY <1>1
<1>3. \A j, k \in 1 .. Len(p) : j < k <=> j + o < k + o
  BY <1>1
<1> QED BY <1>1, <1>2, <1>3

LEMMA TailPart ==
  ASSUME NEW S, NEW q \in Seq(S), q # <<>>
  PROVE  PartOf(Tail(q), q, 1) /\ Head(q) = q[1] /\ 1 \in 1 .. Len(q)
<1>1. /\ Len(q) \in Nat \ {0} /\ Len(Tail(q)) = Len(q) - 1 /\ Head(q) = q[1]
      /\ \A i \in 1 .. Len(Tail(q)) : Tail(q)[i] = q[i + 1]
  BY TakeOne
<1> QED BY <1>1 DEF PartOf

LEMMA WholePart ==
  ASSUME NEW S, NEW q \in Seq(S)
  PROVE  PartOf(q, q, 0)
BY DEF PartOf

LEMMA AppendedIn ==
  ASSUME NEW S, NEW q \in Seq(S), NEW m \in S, NEW p, p = Append(q, m)
  PROVE  /\ Len(q) \in Nat /\ Len(p) = Len(q) + 1
         /\ \A k \in 1 .. Len(p) : \/ k \in 1 .. Len(q) /\ p[k] = q[k]
                                   \/ k = Len(q) + 1 /\ p[k] = m
         /\ \A k \in 1 .. Len(q) : k \in 1 .. Len(p) /\ p[k] = q[k] /\ k < Len(q) + 1
         /\ Len(q) + 1 \in 1 .. Len(p) /\ p[Len(q) + 1] = m
<1>1. /\ Len(q) \in Nat /\ Len(p) = Len(q) + 1 /\ p[Len(q) + 1] = m
      /\ \A k \in 1 .. Len(q) : p[k] = q[k]
  BY AppendOne
<1>2. /\ \A k \in 1 .. Len(q) + 1 : k \in 1 .. Len(q) \/ k = Len(q) + 1
      /\ \A k \in 1 .. Len(q) : k \in 1 .. Len(q) + 1 /\ k < Len(q) + 1
      /\ Len(q) + 1 \in 1 .. Len(q) + 1
  BY <1>1
<1> QED BY <1>1, <1>2

(* A handled message starts an execution of its call or none.               *)
NewCall(m, i) ==
  /\ SP!Begins(m) /\ i = Len(srvCalls) + 1
  /\ srvCalls'[i].of = m.of /\ srvCalls'[i].id = m.id

LEMMA CallsAfter ==
  ASSUME Joined, NEW m, SP!NothingGot \/ SP!Handled(m)
  PROVE  \A i \in 1 .. Len(srvCalls') :
           \/ i \in 1 .. Len(srvCalls) /\ SP!SameCall(srvCalls[i], srvCalls'[i])
           \/ ~SP!NothingGot /\ NewCall(m, i)
<1>1. Len(srvCalls) \in Nat
  BY DEF Joined, SP!ServerInv, SP!ServerTyped
<1>2. CASE SP!NothingGot
  BY <1>2 DEF SP!NothingGot, SP!GetsNothing
<1>3. ASSUME NEW i, SP!StepOf(i)
      PROVE  \A j \in 1 .. Len(srvCalls') :
                j \in 1 .. Len(srvCalls) /\ SP!SameCall(srvCalls[j], srvCalls'[j])
  BY <1>3 DEF SP!StepOf, SP!SameCall
<1>4. CASE SP!Begins(m)
  <2>1. /\ Len(srvCalls') = Len(srvCalls) + 1
        /\ \A j \in 1 .. Len(srvCalls) : srvCalls'[j] = srvCalls[j]
        /\ srvCalls'[Len(srvCalls) + 1].of = m.of /\ srvCalls'[Len(srvCalls) + 1].id = m.id
    BY <1>4 DEF SP!Begins
  <2>2. ~SP!NothingGot
    BY <1>1, <2>1 DEF SP!NothingGot
  <2>3. \A i \in 1 .. Len(srvCalls') : i \in 1 .. Len(srvCalls) \/ i = Len(srvCalls) + 1
    BY <1>1, <2>1
  <2> QED BY <1>4, <2>1, <2>2, <2>3 DEF NewCall, SP!SameCall
<1>5. CASE \E i : SP!StepOf(i)
  BY <1>3, <1>5
<1>6. SP!NothingGot \/ SP!Begins(m) \/ \E i : SP!StepOf(i)
  BY DEF SP!Handled, SP!Takes, SP!Fails, SP!Left
<1> QED BY <1>2, <1>4, <1>5, <1>6

-----------------------------------------------------------------------------
(* Every request message and every execution is of a call that was made and *)
(* has its id.                                                              *)
Addr(m) == m.of \in Call /\ Started(m.of) /\ m.id = call[m.of].id

Addressed(q) ==
  /\ \A k \in 1 .. Len(q) : Addr(q[k])
  /\ \A i \in 1 .. Len(srvCalls) : Addr(srvCalls[i])

LEMMA AddrKept ==
  ASSUME NEW m, Addr(m), (\A d \in Call : CP!Kept(d)) \/ UNCHANGED onlyClient
  PROVE  Addr(m)'
BY DEF Addr, Started, Client!Started, CP!Kept, CP!Started, onlyClient

LEMMA AddrSame ==
  ASSUME NEW m, NEW n, Addr(m), n.of = m.of, n.id = m.id
  PROVE  Addr(n)
BY DEF Addr

LEMMA AddressedMoves ==
  ASSUME Joined, Joined', NEW q, NEW p, IsLine(q), IsLine(p)', Addressed(q),
         ClientMoves(q, p) \/ ServerMoves(q, p)
  PROVE  Addressed(p)'
<1>1. q \in Seq(ClientMessage) /\ p \in Seq(ClientMessage)
  BY DEF IsLine
<1>2. ASSUME NEW o, PartOf(p, q, o), NEW k \in 1 .. Len(p)
      PROVE  Addr(p[k])
  BY <1>1, <1>2, PartIn DEF Addressed
<1>3. ASSUME ClientMoves(q, p) PROVE Addressed(p)'
  <2>1. (\A d \in Call : CP!Kept(d)) /\ srvCalls' = srvCalls
    BY <1>3 DEF ClientMoves, onlyServer
  <2>2. \A i \in 1 .. Len(srvCalls) : Addr(srvCalls[i])'
    BY <2>1, AddrKept DEF Addressed
  <2>3. ASSUME NEW m \in ClientMessage, p = Append(q, m), Addr(m)'
        PROVE  \A k \in 1 .. Len(p) : Addr(p[k])'
    <3>1. \A k \in 1 .. Len(q) : Addr(q[k])'
      BY <2>1, AddrKept DEF Addressed
    <3> QED BY <1>1, <2>3, <3>1, AppendedIn
  <2>4. ASSUME NEW o, PartOf(p, q, o) PROVE \A k \in 1 .. Len(p) : Addr(p[k])'
    BY <1>2, <2>1, <2>4, AddrKept
  <2>5. PartOf(q, q, 0)
    BY <1>1, WholePart
  <2>6. CASE RequestGoes(q, p)
    <3>1. PICK c \in Call, m \in ClientMessage :
            CP!Goes(m, c) /\ (p = Append(q, m) \/ p = q)
      BY <2>6 DEF RequestGoes
    <3>2. Addr(m)'
      BY <3>1 DEF CP!Goes, Addr, Started, Client!Started, CP!Started
    <3>3. \A k \in 1 .. Len(p) : Addr(p[k])'
      BY <2>3, <2>4, <2>5, <3>1, <3>2
    <3> QED BY <2>1, <2>2, <3>3 DEF Addressed
  <2>7. CASE ClientQuiet(q, p)
    <3>1. ASSUME NEW c \in Call, Started(c), call[c].id \in Id,
                 p = Append(q, CP!Unsubscribe(call[c], c))
          PROVE  \A k \in 1 .. Len(p) : Addr(p[k])'
      <4>1. PICK m : m = CP!Unsubscribe(call[c], c)
        OBVIOUS
      <4>2. m \in ClientMessage /\ Addr(m)
        BY <3>1, <4>1 DEF CP!Unsubscribe, ClientMessage, CP!NoValue, Addr
      <4> QED BY <2>1, <2>3, <3>1, <4>1, <4>2, AddrKept
    <3>2. \A k \in 1 .. Len(p) : Addr(p[k])'
      BY <2>4, <2>5, <2>7, <3>1 DEF ClientQuiet
    <3> QED BY <2>1, <2>2, <3>2 DEF Addressed
  <2> QED BY <1>3, <2>6, <2>7 DEF ClientMoves
<1>4. ASSUME ServerMoves(q, p) PROVE Addressed(p)'
  <2>1. UNCHANGED onlyClient /\ \E o : PartOf(p, q, o)
    BY <1>1, <1>4, TailPart, WholePart DEF ServerMoves
  <2>2. \A k \in 1 .. Len(p) : Addr(p[k])'
    BY <1>2, <2>1, AddrKept
  <2>3. PICK m : /\ SP!NothingGot \/ SP!Handled(m)
                 /\ SP!NothingGot \/ Addr(m)
    BY <1>1, <1>4, TailPart DEF ServerMoves, Addressed
  <2>4. ASSUME NEW i \in 1 .. Len(srvCalls') PROVE Addr(srvCalls'[i])
    <3>1. CASE i \in 1 .. Len(srvCalls) /\ SP!SameCall(srvCalls[i], srvCalls'[i])
      BY <3>1, AddrSame DEF SP!SameCall, Addressed
    <3>2. CASE ~SP!NothingGot /\ NewCall(m, i)
      BY <2>3, <3>2, AddrSame DEF NewCall
    <3> QED BY <2>3, <3>1, <3>2, CallsAfter
  <2>5. \A i \in 1 .. Len(srvCalls') : Addr(srvCalls[i])'
    BY <2>1, <2>4 DEF Addr, Started, Client!Started, onlyClient
  <2> QED BY <2>2, <2>5 DEF Addressed
<1> QED BY <1>3, <1>4

LEMMA AllKept ==
  ASSUME Joined, Joined', NEW q, NEW p, ClientMoves(q, p) \/ ServerMoves(q, p)
  PROVE  /\ \A d \in Call : CP!Kept(d)
         /\ ServerMoves(q, p) => \A d \in Call : CP!Calm(d)
<1>1. c2s' \in Seq(Seq(CP!ClientMessage)) /\ s2c' \in Seq(Seq(CP!ServerMessage))
  BY DEF Joined, CP!LineInv, CP!ClientInv, CP!TypeOK, CP!ClientTypeOK
<1>2. CASE ServerMoves(q, p)
  BY <1>1, <1>2, As, CP!OthersLine DEF Joined, ServerMoves, onlyClient
<1>3. CASE ClientMoves(q, p) /\ ~ServerMoves(q, p)
  BY <1>3 DEF ClientMoves
<1> QED BY <1>2, <1>3

-----------------------------------------------------------------------------
(* The method name of a call is sent once: while a message with it is on    *)
(* the line there is no other and no execution of the call.                 *)
Named(m) == m.method # NoMethod

Asks(m) == m.type \in RequestType

NamesOnce(q) ==
  /\ MethodRunsOnce
  /\ \A j, k \in 1 .. Len(q) : Named(q[j]) /\ Named(q[k]) /\ q[j].of = q[k].of => j = k
  /\ \A k \in 1 .. Len(q) : Named(q[k]) => \A i \in 1 .. Len(srvCalls) : srvCalls[i].of # q[k].of
  /\ \A k \in 1 .. Len(q) : Named(q[k]) => Asks(q[k])
  /\ \A k \in 1 .. Len(q) : Asks(q[k]) => CP!NameSent(q[k].of)
  /\ \A i \in 1 .. Len(srvCalls) : CP!NameSent(srvCalls[i].of)

LEMMA NamesClient ==
  ASSUME Joined, Joined', NEW q, NEW p, IsLine(q), IsLine(p)', Addressed(q), NamesOnce(q),
         ClientMoves(q, p)
  PROVE  NamesOnce(p)'
<1>1. q \in Seq(ClientMessage) /\ p \in Seq(ClientMessage)
  BY DEF IsLine
<1>2. srvCalls' = srvCalls /\ \A c \in Call : CP!NameSent(c) => CP!NameSent(c)'
  BY DEF ClientMoves, onlyServer, CP!Kept
<1>3. /\ \A k \in 1 .. Len(q) : q[k].of \in Call
      /\ \A i \in 1 .. Len(srvCalls) : srvCalls[i].of \in Call
  BY DEF Addressed, Addr
<1>4. ASSUME NEW i \in 1 .. Len(srvCalls) PROVE CP!NameSent(srvCalls[i].of)'
  <2>1. PICK c \in Call : c = srvCalls[i].of
    BY <1>3
  <2>2. CP!NameSent(c)
    BY <2>1 DEF NamesOnce
  <2> QED BY <1>2, <2>1, <2>2
<1>5. ASSUME NEW k \in 1 .. Len(q), Asks(q[k]) PROVE CP!NameSent(q[k].of)'
  BY <1>2, <1>3, <1>5 DEF NamesOnce
<1>6. MethodRunsOnce'
  BY <1>2 DEF NamesOnce, MethodRunsOnce
<1>7. ASSUME NEW o, PartOf(p, q, o) PROVE NamesOnce(p)'
  <2>1. \A k \in 1 .. Len(p) : k + o \in 1 .. Len(q) /\ p[k] = q[k + o]
    BY <1>1, <1>7, PartIn
  <2>2. ASSUME NEW j \in 1 .. Len(p), NEW k \in 1 .. Len(p),
               Named(p[j]), Named(p[k]), p[j].of = p[k].of
        PROVE  j = k
    <3>1. j + o = k + o
      BY <2>1, <2>2 DEF NamesOnce
    <3> QED BY <1>1, <1>7, <3>1 DEF PartOf
  <2> QED BY <1>2, <1>4, <1>5, <1>6, <2>1, <2>2 DEF NamesOnce
<1>8. ASSUME NEW m \in ClientMessage, p = Append(q, m), m.of \in Call,
             Named(m) => Asks(m) /\ ~CP!NameSent(m.of), Asks(m) => CP!NameSent(m.of)'
      PROVE  NamesOnce(p)'
  <2>1. /\ \A k \in 1 .. Len(p) : \/ k \in 1 .. Len(q) /\ p[k] = q[k]
                                  \/ k = Len(q) + 1 /\ p[k] = m
    BY <1>1, <1>8, AppendedIn
  <2>2. Named(m) => /\ \A k \in 1 .. Len(q) : Named(q[k]) => q[k].of # m.of
                    /\ \A i \in 1 .. Len(srvCalls) : srvCalls[i].of # m.of
    BY <1>8 DEF NamesOnce
  <2>3. \A j, k \in 1 .. Len(p) : Named(p[j]) /\ Named(p[k]) /\ p[j].of = p[k].of => j = k
    BY <2>1, <2>2 DEF NamesOnce
  <2>4. \A k \in 1 .. Len(p) : Named(p[k]) =>
          Asks(p[k]) /\ \A i \in 1 .. Len(srvCalls) : srvCalls[i].of # p[k].of
    BY <1>8, <2>1, <2>2 DEF NamesOnce
  <2>5. \A k \in 1 .. Len(p) : Asks(p[k]) => CP!NameSent(p[k].of)'
    BY <1>5, <1>8, <2>1
  <2> QED BY <1>2, <1>4, <1>6, <2>3, <2>4, <2>5 DEF NamesOnce
<1>9. PartOf(q, q, 0)
  BY <1>1, WholePart
<1>10. CASE RequestGoes(q, p)
  <2>1. PICK c \in Call, m \in ClientMessage : CP!Goes(m, c) /\ (p = Append(q, m) \/ p = q)
    BY <1>10 DEF RequestGoes
  <2>2. /\ m.of \in Call /\ (Named(m) => Asks(m) /\ ~CP!NameSent(m.of))
        /\ CP!NameSent(m.of)'
    BY <2>1, SameTerms DEF CP!Goes, Named, Asks
  <2> QED BY <1>7, <1>8, <1>9, <2>1, <2>2
<1>11. CASE ClientQuiet(q, p)
  <2>1. ASSUME NEW c \in Call, call[c].id \in Id, p = Append(q, CP!Unsubscribe(call[c], c))
        PROVE  NamesOnce(p)'
    <3>1. PICK m : m = CP!Unsubscribe(call[c], c)
      OBVIOUS
    <3>2. m \in ClientMessage /\ m.of \in Call /\ ~Named(m) /\ ~Asks(m)
      BY <2>1, <3>1 DEF CP!Unsubscribe, ClientMessage, CP!NoValue, Named, Asks, RequestType
    <3> QED BY <1>8, <2>1, <3>1, <3>2
  <2> QED BY <1>7, <1>9, <1>11, <2>1 DEF ClientQuiet
<1> QED BY <1>10, <1>11 DEF ClientMoves

LEMMA NamesServer ==
  ASSUME Joined, Joined', NEW q, NEW p, IsLine(q), IsLine(p)', Addressed(q), NamesOnce(q),
         ServerMoves(q, p)
  PROVE  NamesOnce(p)'
<1>1. q \in Seq(ClientMessage) /\ p \in Seq(ClientMessage) /\ Len(srvCalls) \in Nat
  BY DEF IsLine, Joined, SP!ServerInv, SP!ServerTyped
<1>2. \A c \in Call : CP!NameSent(c) => CP!NameSent(c)'
  BY AllKept DEF CP!Kept
<1>3. /\ \A k \in 1 .. Len(q) : q[k].of \in Call
      /\ \A i \in 1 .. Len(srvCalls) : srvCalls[i].of \in Call
  BY DEF Addressed, Addr
<1>4. PICK o : /\ PartOf(p, q, o)
               /\ \/ SP!NothingGot
                  \/ q # <<>> /\ o = 1 /\ SP!Handled(q[1]) /\ 1 \in 1 .. Len(q)
  BY <1>1, TailPart, WholePart DEF ServerMoves
<1>5. /\ o \in Nat /\ \A k \in 1 .. Len(p) : k + o \in 1 .. Len(q) /\ p[k] = q[k + o]
  BY <1>1, <1>4, PartIn
<1>6. \A i \in 1 .. Len(srvCalls') :
        \/ i \in 1 .. Len(srvCalls) /\ srvCalls'[i].of = srvCalls[i].of
        \/ /\ i = Len(srvCalls) + 1 /\ srvCalls'[i].of = q[1].of
           /\ Named(q[1]) /\ Asks(q[1]) /\ o = 1 /\ 1 \in 1 .. Len(q)
  <2>1. CASE SP!NothingGot
    BY <2>1, CallsAfter DEF SP!SameCall
  <2>2. CASE q # <<>> /\ o = 1 /\ SP!Handled(q[1]) /\ 1 \in 1 .. Len(q)
    BY <2>2, CallsAfter, SameTerms DEF SP!SameCall, NewCall, SP!Begins, Named, Asks
  <2> QED BY <1>4, <2>1, <2>2
<1>7. ASSUME NEW i \in 1 .. Len(srvCalls') PROVE CP!NameSent(srvCalls[i].of)'
  <2>1. PICK c : c = srvCalls'[i].of
    OBVIOUS
  <2>2. c \in Call /\ CP!NameSent(c)
    BY <1>3, <1>6, <2>1 DEF NamesOnce
  <2> QED BY <1>2, <2>1, <2>2
<1>8. ASSUME NEW k \in 1 .. Len(p), Asks(p[k]) PROVE CP!NameSent(p[k].of)'
  BY <1>2, <1>3, <1>5, <1>8 DEF NamesOnce
<1>9. ASSUME NEW i \in 1 .. Len(srvCalls'), NEW j \in 1 .. Len(srvCalls'),
             srvCalls'[i].of = srvCalls'[j].of
      PROVE  i = j
  <2>1. \A k, n \in 1 .. Len(srvCalls) : srvCalls[k].of = srvCalls[n].of => k = n
    BY <1>1, SMTT(30) DEF NamesOnce, MethodRunsOnce, Joined, SP!ServerInv, SP!ServerTyped
  <2>2. Named(q[1]) /\ 1 \in 1 .. Len(q) => \A k \in 1 .. Len(srvCalls) : srvCalls[k].of # q[1].of
    BY DEF NamesOnce
  <2> QED BY <1>6, <1>9, <2>1, <2>2
<1>10. MethodRunsOnce'
  <2>1. DOMAIN srvCalls' = 1 .. Len(srvCalls')
    BY DEF Joined, SP!ServerInv, SP!ServerTyped
  <2> QED BY <1>9, <2>1 DEF MethodRunsOnce
<1>11. ASSUME NEW j \in 1 .. Len(p), NEW k \in 1 .. Len(p),
              Named(p[j]), Named(p[k]), p[j].of = p[k].of
       PROVE  j = k
  <2>1. j + o = k + o
    BY <1>5, <1>11 DEF NamesOnce
  <2> QED BY <1>1, <1>5, <2>1
<1>12. ASSUME NEW k \in 1 .. Len(p), Named(p[k])
       PROVE  Asks(p[k]) /\ \A i \in 1 .. Len(srvCalls') : srvCalls'[i].of # p[k].of
  <2>1. k + o \in 1 .. Len(q) /\ p[k] = q[k + o]
    BY <1>5
  <2>2. Asks(p[k]) /\ \A i \in 1 .. Len(srvCalls) : srvCalls[i].of # p[k].of
    BY <1>12, <2>1 DEF NamesOnce
  <2>3. o = 1 /\ Named(q[1]) /\ 1 \in 1 .. Len(q) => q[1].of # p[k].of
    <3>1. k + 1 # 1
      BY <1>1
    <3> QED BY <1>12, <2>1, <3>1 DEF NamesOnce
  <2> QED BY <1>6, <2>2, <2>3
<1> QED BY <1>7, <1>8, <1>10, <1>11, <1>12 DEF NamesOnce

-----------------------------------------------------------------------------
(* Ids wrap around after 0xffff calls and may then be given again. Until    *)
(* then they tell the calls apart.                                          *)
NoReuse ==
  \A c, d \in Call : Started(c) /\ Started(d) /\ call[c].id = call[d].id => c = d

LEMMA ReuseStays ==
  ASSUME Joined, Joined', NEW q, NEW p, ClientMoves(q, p) \/ ServerMoves(q, p), NoReuse'
  PROVE  NoReuse
<1>1. \A d \in Call : Started(d) => Started(d)' /\ call'[d].id = call[d].id
  BY AllKept DEF CP!Kept, Started, Client!Started, CP!Started
<1> QED BY <1>1 DEF NoReuse

-----------------------------------------------------------------------------
(* Every response message is of a call that was made and has its id.        *)
AllAddr(s) == \A k \in 1 .. Len(s) : Addr(s[k])

Responses ==
  /\ AllAddr(srvBuf) /\ AllAddr(inbox)
  /\ \A b \in 1 .. Len(s2c) : AllAddr(s2c[b])

LEMMA AllAddrKept ==
  ASSUME NEW s, AllAddr(s), (\A d \in Call : CP!Kept(d)) \/ UNCHANGED onlyClient
  PROVE  AllAddr(s)'
BY AddrKept DEF AllAddr

LEMMA TypedResponses ==
  ASSUME Joined
  PROVE  /\ srvBuf \in Seq(ServerMessage) /\ inbox \in Seq(ServerMessage)
         /\ s2c \in Seq(Seq(ServerMessage))
BY SameTerms DEF Joined, SP!ServerInv, SP!ServerTyped, SP!SendTypeOK,
   CP!LineInv, CP!ClientInv, CP!TypeOK, CP!ClientTypeOK

LEMMA ResponsesClient ==
  ASSUME Joined, Joined', NEW q, NEW p, ClientMoves(q, p), Responses, CP!ClientNext
  PROVE  Responses'
<1>1. srvBuf' = srvBuf /\ CP!Reading /\ \A d \in Call : CP!Kept(d)
  BY As, CP!ClientDelivers DEF ClientMoves, onlyServer, Joined, CP!LineInv
<1>2. AllAddr(srvBuf)'
  <2>1. \A s : AllAddr(s) => AllAddr(s)'
    BY <1>1, AllAddrKept
  <2>2. PICK s : s = srvBuf
    OBVIOUS
  <2>3. AllAddr(s)'
    BY <2>1, <2>2 DEF Responses
  <2> QED BY <1>1, <2>2, <2>3
<1>3. /\ AllAddr(inbox)
      /\ \A b \in 1 .. Len(s2c) : AllAddr(s2c[b])
  BY DEF Responses
<1> DEFINE Good(s, bs) == AllAddr(s) /\ \A b \in 1 .. Len(bs) : AllAddr(bs[b])
<1>4. Good(inbox', s2c')
  <2>1. CASE inbox' = inbox /\ s2c' = s2c
    BY <1>3, <2>1
  <2>2. CASE inbox # <<>> /\ inbox' = Tail(inbox) /\ s2c' = s2c
    <3>1. AllAddr(inbox')
      <4>1. /\ Len(inbox) \in Nat \ {0} /\ Len(inbox') = Len(inbox) - 1
            /\ \A k \in 1 .. Len(inbox') : inbox'[k] = inbox[k + 1]
        BY <2>2, TypedResponses, TakeOne
      <4>2. \A k \in 1 .. Len(inbox') : k + 1 \in 1 .. Len(inbox)
        BY <4>1
      <4> QED BY <1>3, <4>1, <4>2 DEF AllAddr
    <3> QED BY <1>3, <2>2, <3>1
  <2>3. CASE s2c # <<>> /\ inbox' = Head(s2c) /\ s2c' = Tail(s2c)
    <3>1. /\ Len(s2c) \in Nat \ {0} /\ Len(s2c') = Len(s2c) - 1 /\ inbox' = s2c[1]
          /\ \A k \in 1 .. Len(s2c') : s2c'[k] = s2c[k + 1]
      BY <2>3, TypedResponses, TakeOne
    <3>2. 1 \in 1 .. Len(s2c) /\ \A k \in 1 .. Len(s2c') : k + 1 \in 1 .. Len(s2c)
      BY <3>1
    <3> QED BY <1>3, <3>1, <3>2
  <2> QED BY <1>1, <2>1, <2>2, <2>3 DEF CP!Reading
<1>5. \A s, bs : Good(s, bs) => Good(s, bs)'
  BY <1>1, AllAddrKept
<1>6. PICK s, bs : s = inbox' /\ bs = s2c'
  OBVIOUS
<1>7. Good(s, bs)'
  BY <1>4, <1>5, <1>6
<1> QED BY <1>2, <1>6, <1>7 DEF Responses

LEMMA ResponsesServer ==
  ASSUME Joined, Joined', NEW q, IsLine(q), Addressed(q), Responses,
         SP!ServerNext, UNCHANGED onlyClient
  PROVE  Responses'
<1>1. SP!ServerSends
  BY As, SP!ServerLine DEF Joined
<1>2. inbox' = inbox /\ buf' = buf /\ call' = call
  BY DEF onlyClient
<1>3. \A m : Addr(m)' <=> Addr(m)
  BY <1>2 DEF Addr, Started, Client!Started
<1>4. srvInbox # <<>> => Addr(Head(srvInbox))
  <2>1. srvInbox # <<>> => q # <<>> /\ Head(q) = Head(srvInbox)
    BY <1>2, LineRead
  <2> QED BY <2>1, TailPart DEF Addressed, IsLine
<1>5. ASSUME NEW r, SP!AddressOf(r) PROVE Addr(r)
  <2>1. CASE \E i \in 1 .. Len(srvCalls) : r.id = srvCalls[i].id /\ r.of = srvCalls[i].of
    BY <2>1, AddrSame DEF Addressed
  <2>2. CASE srvInbox # <<>> /\ r.id = Head(srvInbox).id /\ r.of = Head(srvInbox).of
    BY <1>4, <2>2, AddrSame
  <2> QED BY <1>5, <2>1, <2>2 DEF SP!AddressOf
<1>6. /\ AllAddr(srvBuf) /\ AllAddr(inbox)
      /\ \A b \in 1 .. Len(s2c) : AllAddr(s2c[b])
  BY DEF Responses
<1> DEFINE Good(s, bs) == AllAddr(s) /\ \A b \in 1 .. Len(bs) : AllAddr(bs[b])
<1>7. ASSUME NEW s \in Seq(ServerMessage), AllAddr(s), SP!SrvBuffer!FlushList(s)
      PROVE  Good(srvBuf', s2c')
  <2>1. srvBuf' = <<>> /\ s2c' = IF s = <<>> THEN s2c ELSE Append(s2c, s)
    BY <1>7 DEF SP!SrvBuffer!FlushList
  <2>2. AllAddr(<<>>)
    BY DEF AllAddr
  <2>3. \A b \in 1 .. Len(Append(s2c, s)) : AllAddr(Append(s2c, s)[b])
    BY <1>6, <1>7, TypedResponses, AppendedIn, SMTT(40)
  <2> QED BY <1>6, <2>1, <2>2, <2>3
<1>8. Good(srvBuf', s2c')
  <2>1. CASE SP!NothingSent
    BY <1>6, <2>1 DEF SP!NothingSent
  <2>2. CASE SP!SrvBuffer!TimerFires
    BY <1>6, <1>7, <2>2, TypedResponses DEF SP!SrvBuffer!TimerFires
  <2>3. CASE \E r \in SP!ServerMessage : SP!AddressOf(r) /\ SP!Send(r)
    <3>1. PICK r \in ServerMessage : SP!AddressOf(r) /\ SP!Send(r)
      BY <2>3, SameTerms
    <3>2. Append(srvBuf, r) \in Seq(ServerMessage) /\ AllAddr(Append(srvBuf, r))
      <4>1. \A k \in 1 .. Len(Append(srvBuf, r)) : Addr(Append(srvBuf, r)[k])
        BY <1>5, <1>6, <3>1, TypedResponses, AppendedIn DEF AllAddr
      <4> QED BY <3>1, <4>1, TypedResponses, AppendOne DEF AllAddr
    <3> QED BY <1>6, <1>7, <3>1, <3>2 DEF SP!Send, SP!SrvBuffer!Push
  <2> QED BY <1>1, <2>1, <2>2, <2>3 DEF SP!ServerSends
<1>9. \A s : AllAddr(s)' <=> AllAddr(s)
  BY <1>3 DEF AllAddr
<1>10. PICK s, bs : s = srvBuf' /\ bs = s2c'
  OBVIOUS
<1>11. AllAddr(s)' /\ \A b \in 1 .. Len(bs) : AllAddr(bs[b])'
  BY <1>8, <1>9, <1>10
<1>12. AllAddr(inbox)'
  <2>1. PICK i : i = inbox
    OBVIOUS
  <2>2. AllAddr(i)'
    BY <1>6, <1>9, <2>1
  <2> QED BY <1>2, <2>1, <2>2
<1> QED BY <1>10, <1>11, <1>12 DEF Responses

LEMMA CrossTalkClient ==
  ASSUME Joined, Joined', Responses, CP!ClientNext, NoReuse, NoCrossTalk
  PROVE  NoCrossTalk'
<1>1. CP!Delivery /\ CP!IdsMatch /\ user \in [Call -> [CP!Subscriber -> CP!UserRecord]]
  BY As, CP!ClientDelivers DEF Joined, CP!LineInv, CP!ClientInv, CP!TypeOK, CP!ClientTypeOK
<1> SUFFICES ASSUME NEW c \in Call, NEW k \in CP!Subscriber
             PROVE  \A n \in DOMAIN user'[c][k].got : user'[c][k].got[n].of = c
  BY SameTerms DEF NoCrossTalk
<1>2. \A n \in DOMAIN user[c][k].got : user[c][k].got[n].of = c
  BY SameTerms DEF NoCrossTalk
<1>3. CASE user'[c][k].got = user[c][k].got
  BY <1>2, <1>3
<1>4. CASE /\ inbox # <<>> /\ calls[Head(inbox).id] = c
           /\ user'[c][k].got
                = Append(user[c][k].got, [val |-> Head(inbox).val, of |-> Head(inbox).of])
  <2>1. PICK m \in ServerMessage : m = Head(inbox) /\ Addr(m)
    BY <1>4, TypedResponses, TailPart DEF Responses, AllAddr
  <2>2. CP!Started(c) /\ call[c].id = m.id
    BY <1>1, <1>4, <2>1, MessagesAssumption, SameTerms
       DEF CP!IdsMatch, ServerMessage, MessagesAssumption
  <2>3. m.of = c
    BY <2>1, <2>2, SameTerms DEF NoReuse, Addr
  <2>4. PICK e : e = [val |-> m.val, of |-> m.of]
    OBVIOUS
  <2>5. e \in [val: Nat, of: Call \cup {NoCall}] /\ e.of = c
    BY <2>3, <2>4 DEF ServerMessage
  <2>6. user[c][k].got \in Seq([val: Nat, of: Call \cup {NoCall}])
    BY <1>1 DEF CP!UserRecord
  <2>7. user'[c][k].got = Append(user[c][k].got, e)
    BY <1>4, <2>1, <2>4
  <2> QED BY <1>2, <2>5, <2>6, <2>7
<1> QED BY <1>1, <1>3, <1>4 DEF CP!Delivery

-----------------------------------------------------------------------------
(* The request values of a call that is made with an observable, on their   *)
(* way: which messages of it are on the line, which execution they feed,    *)
(* and what is still to come.                                               *)
Of(q, c) == {k \in 1 .. Len(q) : q[k].of = c /\ Asks(q[k])}

HasVal(m) == m.val # NoValue

QueueOK(q, c) ==
  /\ \A j, k \in Of(q, c) : j < k => q[j].type = "RequestData" /\ ~Named(q[k])
  /\ \A j, k \in Of(q, c) : j < k /\ HasVal(q[j]) /\ HasVal(q[k]) => q[j].val < q[k].val
  /\ \A k \in Of(q, c) :
       /\ q[k].val <= CP!Passed(c)
       /\ q[k].type # "RequestData" => CP!RequestEnded(c)
       /\ q[k].type = "RequestComplete" =>
            call[c].req = "completed" /\ CP!Passed(c) = call[c].sent

(* Execution i takes the values of c.                                       *)
Fed(i, c) ==
  /\ i \in 1 .. Len(srvCalls) /\ srvCalls[i].of = c /\ srvCalls[i].req = "open"
  /\ activeStreamCalls[srvCalls[i].id] = i

Carries(q, c, v) == \E k \in Of(q, c) : q[k].val = v

(* The end of the line may be cut off by stop(), so a value is only owed to *)
(* the method if the client runs or a later message is on the line.         *)
Owed(q, c, v) ==
  ~stopped \/ \E k \in Of(q, c) : v < q[k].val \/ q[k].type = "RequestComplete"

Cover(q, c) ==
  \A v \in 1 .. CP!Passed(c) : Owed(q, c, v) =>
    /\ (\E k \in Of(q, c) : Named(q[k])) => Carries(q, c, v)
    /\ \A i \in 1 .. Len(srvCalls) :
         Fed(i, c) => v <= Len(srvCalls[i].got) \/ Carries(q, c, v)

GotOne(q, c, i) ==
  LET got == srvCalls[i].got
  IN  /\ got = [k \in 1 .. Len(got) |-> k] /\ Len(got) <= CP!Passed(c)
      /\ Fed(i, c) => \A k \in Of(q, c) : HasVal(q[k]) => Len(got) < q[k].val
      /\ srvCalls[i].req = "completed" /\ ~srvCalls[i].unsubscribed =>
           /\ call[c].req = "completed" /\ CP!Passed(c) = call[c].sent
           /\ Len(got) = call[c].sent

Got(q, c) ==
  \A i \in 1 .. Len(srvCalls) :
    srvCalls[i].of = c /\ srvCalls[i].kind = "stream" => GotOne(q, c, i)

InOrder(q) ==
  \A c \in Call : call[c].kind # "static" => QueueOK(q, c) /\ Cover(q, c) /\ Got(q, c)

LEMMA Counts ==
  ASSUME Joined, NEW c \in Call
  PROVE  /\ CP!Passed(c) \in Nat /\ call[c].sent \in Nat /\ CP!Passed(c) <= call[c].sent
         /\ CP!Passed(c) > 0 => CP!NameSent(c)
<1>1. call[c].sent \in Nat /\ call[c].obs.tasks \in Nat
  BY As DEF Joined, CP!LineInv, CP!ClientInv, CP!TypeOK, CP!ClientTypeOK, CP!CallRecord,
     CP!ObserverState, CP!ClientAssumption
<1>2. call[c].obs.tasks <= call[c].sent /\ (CP!Passed(c) > 0 => CP!NameSent(c))
  BY DEF Joined, CP!LineInv, CP!PassInv, CP!PassOK
<1> QED BY <1>1, <1>2 DEF CP!Passed

LEMMA CountsAfter ==
  ASSUME Joined', NEW c \in Call
  PROVE  CP!Passed(c)' \in Nat /\ CP!Passed(c)' <= call'[c].sent
<1>1. call'[c].sent \in Nat /\ call'[c].obs.tasks \in Nat
  BY As DEF Joined, CP!LineInv, CP!ClientInv, CP!TypeOK, CP!ClientTypeOK, CP!CallRecord,
     CP!ObserverState, CP!ClientAssumption
<1>2. call'[c].obs.tasks <= call'[c].sent
  BY DEF Joined, CP!LineInv, CP!PassInv, CP!PassOK
<1> QED BY <1>1, <1>2 DEF CP!Passed

LEMMA Lines ==
  ASSUME NEW q, IsLine(q)
  PROVE  /\ q \in Seq(ClientMessage) /\ Len(q) \in Nat
         /\ \A k \in 1 .. Len(q) : q[k] \in ClientMessage /\ q[k].val \in Nat
<1>1. q \in Seq(ClientMessage)
  BY DEF IsLine
<1>2. Len(q) \in Nat /\ \A k \in 1 .. Len(q) : q[k] \in ClientMessage
  BY <1>1
<1>3. \A m \in ClientMessage : m.val \in Nat
  BY DEF ClientMessage
<1> QED BY <1>1, <1>2, <1>3

(* Nothing of c goes, and at most the end of the line is cut off.           *)
LEMMA OrderCalm ==
  ASSUME Joined, Joined', NEW q, NEW p, IsLine(q), IsLine(p)', NEW c \in Call,
         srvCalls' = srvCalls, activeStreamCalls' = activeStreamCalls,
         CP!Kept(c), CP!Calm(c), stopped => stopped',
         QueueOK(q, c), Cover(q, c), Got(q, c),
         \A k \in Of(p, c) : k \in Of(q, c) /\ p[k] = q[k],
         \A k \in Of(q, c), n \in Of(p, c) : k <= n => k \in Of(p, c),
         stopped' \/ Of(p, c) = Of(q, c)
  PROVE  QueueOK(p, c)' /\ Cover(p, c)' /\ Got(p, c)'
<1>1. /\ CP!Passed(c)' = CP!Passed(c) /\ CP!Passed(c) \in Nat
      /\ CP!RequestEnded(c) => CP!RequestEnded(c)'
      /\ call[c].req = "completed" => call'[c].req = "completed" /\ call'[c].sent = call[c].sent
  BY Counts DEF CP!Calm, CP!Kept
<1>2. \A i : Fed(i, c)' <=> Fed(i, c)
  BY DEF Fed
<1>3. QueueOK(p, c)'
  BY <1>1 DEF QueueOK
<1>4. ASSUME NEW v \in 1 .. CP!Passed(c), Owed(p, c, v)'
      PROVE  Owed(q, c, v) /\ (Carries(q, c, v) => Carries(p, c, v))
  <2>1. CASE Of(p, c) = Of(q, c)
    BY <1>4, <2>1 DEF Owed, Carries
  <2>2. CASE stopped'
    <3>1. PICK n \in Of(p, c) : v < p[n].val \/ p[n].type = "RequestComplete"
      BY <1>4, <2>2 DEF Owed
    <3>2. ASSUME NEW k \in Of(q, c), q[k].val = v PROVE k <= n
      <4> SUFFICES ASSUME n < k PROVE FALSE
        BY <3>1 DEF Of
      <4>1. n \in Of(q, c) /\ p[n] = q[n] /\ q[n].type = "RequestData"
        BY DEF QueueOK
      <4>2. HasVal(q[n]) /\ HasVal(q[k]) /\ q[k].val < q[n].val
        BY <3>1, <3>2, <4>1, Lines DEF HasVal, NoValue, Of
      <4>3. q[n].val < q[k].val
        BY <4>1, <4>2 DEF QueueOK
      <4> QED BY <4>2, <4>3, Lines DEF Of
    <3>3. Carries(q, c, v) => Carries(p, c, v)
      BY <3>2 DEF Carries
    <3>4. Owed(q, c, v)
      BY <3>1 DEF Owed
    <3> QED BY <3>3, <3>4
  <2> QED BY <2>1, <2>2
<1>5. Cover(p, c)'
  <2> SUFFICES ASSUME NEW v \in 1 .. CP!Passed(c), Owed(p, c, v)'
               PROVE  /\ (\E k \in Of(p, c) : Named(p[k])) => Carries(p, c, v)
                      /\ \A i \in 1 .. Len(srvCalls) :
                           Fed(i, c) => v <= Len(srvCalls[i].got) \/ Carries(p, c, v)
    BY <1>1, <1>2 DEF Cover, Carries, Of
  <2> QED BY <1>4 DEF Cover
<1>6. Got(p, c)'
  BY <1>1, <1>2 DEF Got, GotOne
<1> QED BY <1>3, <1>5, <1>6

(* A message of c goes.                                                     *)
LEMMA OrderGoes ==
  ASSUME Joined, Joined', NEW q, IsLine(q), NEW c \in Call, NEW m \in ClientMessage,
         srvCalls' = srvCalls, activeStreamCalls' = activeStreamCalls,
         CP!Kept(c), CP!Goes(m, c), call'[c].kind = "stream", stopped => stopped',
         QueueOK(q, c), Cover(q, c), Got(q, c),
         \A k \in Of(q, c) : CP!NameSent(c),
         NEW p, \/ ~stopped /\ p = Append(q, m)
                \/ stopped /\ p = q
  PROVE  QueueOK(p, c)' /\ Cover(p, c)' /\ Got(p, c)'
<1> DEFINE P == CP!Passed(c)
           N == CP!Passed(c)'
<1>1. /\ m.of = c /\ Asks(m) /\ ~CP!RequestEnded(c) /\ CP!NameSent(c)'
      /\ Named(m) => ~CP!NameSent(c)
      /\ m.type # "RequestData" => CP!RequestEnded(c)'
      /\ HasVal(m) => m.val = P + 1 /\ N = m.val
      /\ ~HasVal(m) => N = P /\ m.val = 0
      /\ m.type = "RequestComplete" => call'[c].req = "completed" /\ N = call'[c].sent
  BY SameTerms DEF CP!Goes, CP!Calm, Asks, Named, HasVal, NoValue
<1>2. /\ P \in Nat /\ N \in Nat /\ P <= N /\ (N = P \/ N = P + 1)
      /\ P <= call[c].sent /\ N <= call'[c].sent /\ call[c].sent \in Nat
      /\ P > 0 => CP!NameSent(c)
      /\ CP!RequestEnded(c) => CP!RequestEnded(c)'
      /\ call[c].req # "open" => call'[c].req = call[c].req /\ call'[c].sent = call[c].sent
  <2>1. /\ P \in Nat /\ N \in Nat /\ P <= call[c].sent /\ N <= call'[c].sent /\ call[c].sent \in Nat
        /\ P > 0 => CP!NameSent(c)
    <3>1. P \in Nat /\ P <= call[c].sent /\ call[c].sent \in Nat /\ (P > 0 => CP!NameSent(c))
      BY Counts
    <3>2. N \in Nat /\ N <= call'[c].sent
      BY CountsAfter
    <3> QED BY <3>1, <3>2
  <2>2. P <= N /\ (N = P \/ N = P + 1)
    BY <1>1, <2>1
  <2> QED BY <2>1, <2>2 DEF CP!Kept
<1> HIDE DEF P, N
<1>3. \A i : Fed(i, c)' <=> Fed(i, c)
  BY DEF Fed
<1>4. \A k \in Of(q, c) :
        /\ k \in 1 .. Len(q) /\ q[k].val \in Nat /\ q[k].val <= P /\ q[k].type = "RequestData"
  BY <1>1, Lines DEF QueueOK, Of, P
<1>5. CASE ~stopped /\ p = Append(q, m)
  <2>1. /\ \A k \in Of(p, c) : \/ k \in Of(q, c) /\ p[k] = q[k]
                               \/ k = Len(q) + 1 /\ p[k] = m
        /\ \A k \in Of(q, c) : k \in Of(p, c) /\ p[k] = q[k] /\ k < Len(q) + 1
        /\ Len(q) + 1 \in Of(p, c) /\ p[Len(q) + 1] = m /\ Len(q) \in Nat
    BY <1>1, <1>5, AppendedIn, Lines DEF Of
  <2>2. QueueOK(p, c)'
    <3>1. ASSUME NEW j \in Of(p, c), NEW k \in Of(p, c), j < k
          PROVE  p[j].type = "RequestData" /\ ~Named(p[k])
      <4>1. j \in Of(q, c) /\ p[j] = q[j]
        BY <2>1, <3>1 DEF Of
      <4> QED BY <1>1, <1>4, <2>1, <3>1, <4>1 DEF QueueOK
    <3>2. ASSUME NEW j \in Of(p, c), NEW k \in Of(p, c), j < k, HasVal(p[j]), HasVal(p[k])
          PROVE  p[j].val < p[k].val
      <4>1. j \in Of(q, c) /\ p[j] = q[j]
        BY <2>1, <3>2 DEF Of
      <4>2. CASE k \in Of(q, c) /\ p[k] = q[k]
        BY <3>2, <4>1, <4>2 DEF QueueOK
      <4>3. CASE p[k] = m
        BY <1>1, <1>2, <1>4, <3>2, <4>1, <4>3
      <4> QED BY <2>1, <4>2, <4>3
    <3>3. ASSUME NEW k \in Of(p, c)
          PROVE  /\ p[k].val <= N
                 /\ p[k].type # "RequestData" => CP!RequestEnded(c)'
                 /\ p[k].type = "RequestComplete" =>
                      call'[c].req = "completed" /\ N = call'[c].sent
      <4>1. CASE k \in Of(q, c) /\ p[k] = q[k]
        BY <1>2, <1>4, <4>1
      <4>2. CASE p[k] = m
        BY <1>1, <1>2, <4>2
      <4> QED BY <2>1, <4>1, <4>2
    <3> QED BY <3>1, <3>2, <3>3 DEF QueueOK, Of, N
  <2>3. ASSUME NEW v \in 1 .. N
        PROVE  \/ v = N /\ Carries(p, c, v)
               \/ v \in 1 .. P /\ Owed(q, c, v)
                  /\ (Carries(q, c, v) => Carries(p, c, v))
    <3>1. CASE v \in 1 .. P
      BY <1>5, <2>1, <3>1 DEF Owed, Carries
    <3>2. CASE v = N /\ HasVal(m)
      BY <1>1, <2>1, <3>2 DEF Carries
    <3> QED BY <1>1, <1>2, <3>1, <3>2
  <2>4. ASSUME NEW v \in 1 .. N
        PROVE  /\ (\E k \in Of(p, c) : Named(p[k])) => Carries(p, c, v)
               /\ \A i \in 1 .. Len(srvCalls) :
                    Fed(i, c) => v <= Len(srvCalls[i].got) \/ Carries(p, c, v)
    <3>1. ASSUME v \in 1 .. P PROVE ~Named(m)
      BY <1>1, <1>2, <3>1
    <3>2. ASSUME v \in 1 .. P, Owed(q, c, v)
          PROVE  /\ (\E k \in Of(q, c) : Named(q[k])) => Carries(q, c, v)
                 /\ \A i \in 1 .. Len(srvCalls) :
                      Fed(i, c) => v <= Len(srvCalls[i].got) \/ Carries(q, c, v)
      BY <3>2 DEF Cover, P
    <3> QED BY <2>1, <2>3, <3>1, <3>2
  <2>5. Cover(p, c)'
    BY <1>3, <2>4 DEF Cover, Carries, Of, N
  <2>6. ASSUME NEW i \in 1 .. Len(srvCalls), GotOne(q, c, i) PROVE GotOne(p, c, i)'
    <3>1. Len(srvCalls[i].got) <= P /\ Len(srvCalls[i].got) \in Nat
      BY <2>6, SMTT(30) DEF GotOne, P, Joined, SP!ServerInv, SP!ServerTyped, SP!ServerCall
    <3>2. Fed(i, c) => \A k \in Of(p, c) : HasVal(p[k]) => Len(srvCalls[i].got) < p[k].val
      BY <1>1, <1>2, <2>1, <2>6, <3>1 DEF GotOne
    <3>3. srvCalls[i].req = "completed" /\ ~srvCalls[i].unsubscribed =>
            call'[c].req = "completed" /\ N = call'[c].sent /\ Len(srvCalls[i].got) = call'[c].sent
      BY <1>1, <1>2, <2>6 DEF GotOne, P
    <3>4. Len(srvCalls[i].got) <= N
      BY <1>2, <3>1
    <3> QED BY <1>3, <2>6, <3>2, <3>3, <3>4 DEF GotOne, N, Of
  <2> QED BY <2>2, <2>5, <2>6 DEF Got
<1>6. CASE stopped /\ p = q
  <2>1. QueueOK(p, c)'
    <3>1. \A k \in Of(q, c) : q[k].val <= N
      BY <1>2, <1>4
    <3> QED BY <1>2, <1>4, <1>6, <3>1 DEF QueueOK, N
  <2>2. ASSUME NEW v \in 1 .. N, Owed(p, c, v)' PROVE v \in 1 .. P /\ Owed(q, c, v)
    <3>1. PICK k \in Of(q, c) : v < q[k].val \/ q[k].type = "RequestComplete"
      BY <1>6, <2>2 DEF Owed
    <3>2. v < q[k].val /\ q[k].val <= P /\ q[k].val \in Nat
      BY <1>4, <3>1
    <3>3. v \in 1 .. P
      BY <1>2, <3>2
    <3> QED BY <3>1, <3>3 DEF Owed
  <2>3. Cover(p, c)'
    <3>1. \A v \in 1 .. N : Owed(p, c, v)' =>
            /\ (\E k \in Of(p, c) : Named(p[k])) => Carries(p, c, v)
            /\ \A i \in 1 .. Len(srvCalls) :
                 Fed(i, c) => v <= Len(srvCalls[i].got) \/ Carries(p, c, v)
      BY <1>6, <2>2 DEF Cover, P
    <3> QED BY <1>3, <3>1 DEF Cover, Carries, Of, N
  <2>4. ASSUME NEW i \in 1 .. Len(srvCalls), GotOne(q, c, i) PROVE GotOne(p, c, i)'
    <3>1. Len(srvCalls[i].got) <= P /\ Len(srvCalls[i].got) \in Nat
      BY <2>4, SMTT(30) DEF GotOne, P, Joined, SP!ServerInv, SP!ServerTyped, SP!ServerCall
    <3>2. srvCalls[i].req = "completed" /\ ~srvCalls[i].unsubscribed =>
            call'[c].req = "completed" /\ N = call'[c].sent /\ Len(srvCalls[i].got) = call'[c].sent
      BY <1>1, <1>2, <2>4 DEF GotOne, P
    <3>3. Len(srvCalls[i].got) <= N
      BY <1>2, <3>1
    <3> QED BY <1>3, <1>6, <2>4, <3>2, <3>3 DEF GotOne, N, Of
  <2> QED BY <2>1, <2>3, <2>4 DEF Got
<1> QED BY <1>5, <1>6

LEMMA OrderClient ==
  ASSUME Joined, Joined', NEW q, NEW p, IsLine(q), IsLine(p)', NamesOnce(q), InOrder(q),
         ClientMoves(q, p)
  PROVE  InOrder(p)'
<1> SUFFICES ASSUME NEW c \in Call, call'[c].kind # "static"
             PROVE  QueueOK(p, c)' /\ Cover(p, c)' /\ Got(p, c)'
  BY DEF InOrder
<1>1. /\ CP!Kept(c) /\ srvCalls' = srvCalls /\ activeStreamCalls' = activeStreamCalls
      /\ stopped => stopped'
  BY DEF ClientMoves, onlyServer
<1>2. call[c].kind # "static"
  BY <1>1 DEF CP!Kept, CP!Started
<1>3. QueueOK(q, c) /\ Cover(q, c) /\ Got(q, c)
  BY <1>2 DEF InOrder
<1>4. q \in Seq(ClientMessage) /\ p \in Seq(ClientMessage)
  BY DEF IsLine
<1>5. ASSUME CP!Calm(c), Of(p, c) = Of(q, c), \A k \in Of(p, c) : p[k] = q[k]
      PROVE  QueueOK(p, c)' /\ Cover(p, c)' /\ Got(p, c)'
  BY <1>1, <1>3, <1>5, OrderCalm
<1>6. ASSUME CP!Calm(c), NEW m \in ClientMessage, p = Append(q, m), m.of # c \/ ~Asks(m)
      PROVE  QueueOK(p, c)' /\ Cover(p, c)' /\ Got(p, c)'
  <2>1. Of(p, c) = Of(q, c) /\ \A k \in Of(p, c) : p[k] = q[k]
    BY <1>4, <1>6, AppendedIn DEF Of
  <2> QED BY <1>5, <1>6, <2>1
<1>7. CASE RequestGoes(q, p)
  <2>1. PICK d \in Call, m \in ClientMessage :
          /\ CP!Goes(m, d) /\ \A e \in Call \ {d} : CP!Calm(e)
          /\ \/ ~stopped /\ p = Append(q, m)
             \/ stopped /\ p = q
    BY <1>7 DEF RequestGoes
  <2>2. CASE d = c
    <3>1. CP!Goes(m, c) /\ CP!Started(c)'
      BY <2>1, <2>2 DEF CP!Goes
    <3>2. call'[c].kind = "stream"
      <4>1. call'[c].kind \in {"idle", "static", "stream"}
        BY DEF Joined, CP!LineInv, CP!ClientInv, CP!TypeOK, CP!ClientTypeOK, CP!CallRecord
      <4> QED BY <3>1, <4>1 DEF CP!Started
    <3>3. \A k \in Of(q, c) : CP!NameSent(c)
      BY DEF Of, NamesOnce
    <3> QED BY <1>1, <1>3, <2>1, <3>1, <3>2, <3>3, OrderGoes
  <2>3. CASE d # c
    <3>1. CP!Calm(c) /\ m.of # c
      BY <2>1, <2>3 DEF CP!Goes
    <3> QED BY <1>5, <1>6, <2>1, <3>1
  <2> QED BY <2>2, <2>3
<1>8. CASE ClientQuiet(q, p)
  <2>1. CP!Calm(c)
    BY <1>8 DEF ClientQuiet
  <2>2. ASSUME NEW d \in Call, call[d].id \in Id, p = Append(q, CP!Unsubscribe(call[d], d))
        PROVE  QueueOK(p, c)' /\ Cover(p, c)' /\ Got(p, c)'
    <3>1. PICK m : m = CP!Unsubscribe(call[d], d)
      OBVIOUS
    <3>2. m \in ClientMessage /\ ~Asks(m)
      BY <2>2, <3>1 DEF CP!Unsubscribe, ClientMessage, CP!NoValue, Asks, RequestType
    <3> QED BY <1>6, <2>1, <2>2, <3>1, <3>2
  <2>3. ASSUME stopped', PartOf(p, q, 0)
        PROVE  QueueOK(p, c)' /\ Cover(p, c)' /\ Got(p, c)'
    <3>1. /\ \A k \in 1 .. Len(p) : k \in 1 .. Len(q) /\ p[k] = q[k]
          /\ Len(p) \in Nat /\ Len(q) \in Nat
      BY <1>4, <2>3, PartIn
    <3>2. \A k \in Of(p, c) : k \in Of(q, c) /\ p[k] = q[k]
      BY <3>1 DEF Of
    <3>3. \A k \in Of(q, c), n \in Of(p, c) : k <= n => k \in Of(p, c)
      BY <3>1 DEF Of
    <3> QED BY <1>1, <1>3, <2>1, <2>3, <3>2, <3>3, OrderCalm
  <2> QED BY <1>5, <1>8, <2>1, <2>2, <2>3 DEF ClientQuiet
<1> QED BY <1>7, <1>8 DEF ClientMoves

-----------------------------------------------------------------------------
(* The server reads on: the executions of c get nothing, ...                *)
Silent(c) ==
  \A i \in 1 .. Len(srvCalls') : srvCalls'[i].of = c =>
    /\ i \in 1 .. Len(srvCalls) /\ srvCalls[i].of = c /\ srvCalls'[i].kind = srvCalls[i].kind
    /\ srvCalls'[i].got = srvCalls[i].got
    /\ Fed(i, c)' => Fed(i, c)
    /\ srvCalls'[i].req = "completed" /\ ~srvCalls'[i].unsubscribed =>
         srvCalls[i].req = "completed" /\ ~srvCalls[i].unsubscribed

LEMMA ClientStands ==
  ASSUME UNCHANGED onlyClient, NEW c \in Call
  PROVE  /\ call' = call /\ stopped' = stopped
         /\ CP!Passed(c)' = CP!Passed(c) /\ (CP!RequestEnded(c)' <=> CP!RequestEnded(c))
BY DEF onlyClient, CP!Passed, CP!RequestEnded, CP!Started

LEMMA Shrinks ==
  ASSUME UNCHANGED onlyClient, NEW q \in Seq(ClientMessage), NEW p \in Seq(ClientMessage), NEW o,
         PartOf(p, q, o), NEW c \in Call
  PROVE  /\ \A k \in Of(p, c) : k + o \in Of(q, c) /\ p[k] = q[k + o]
         /\ QueueOK(q, c) => QueueOK(p, c)'
         /\ \A v : Carries(p, c, v) => Carries(q, c, v)
         /\ \A v : Owed(p, c, v) => Owed(q, c, v)
<1>1. /\ \A k \in Of(p, c) : k + o \in Of(q, c) /\ p[k] = q[k + o]
      /\ \A j, k \in Of(p, c) : j < k => j + o < k + o
  BY PartIn DEF Of
<1>2. \A v : (Carries(p, c, v) => Carries(q, c, v)) /\ (Owed(p, c, v) => Owed(q, c, v))
  BY <1>1 DEF Carries, Owed
<1>3. ASSUME QueueOK(q, c) PROVE QueueOK(p, c)
  BY <1>1, <1>3 DEF QueueOK
<1>4. QueueOK(p, c) => QueueOK(p, c)'
  BY ClientStands DEF QueueOK, Of
<1> QED BY <1>1, <1>2, <1>3, <1>4

(* ... and either no message of c is read or none takes its values.         *)
LEMMA ServerStays ==
  ASSUME UNCHANGED onlyClient, NEW q \in Seq(ClientMessage), NEW p \in Seq(ClientMessage), NEW o,
         PartOf(p, q, o), NEW c \in Call, Silent(c),
         QueueOK(q, c), Cover(q, c), Got(q, c),
         \/ \A k \in Of(q, c) : \E j \in Of(p, c) : q[k] = p[j]
         \/ (\A i \in 1 .. Len(srvCalls') : ~Fed(i, c)') /\ \A k \in Of(p, c) : ~Named(p[k])
  PROVE  QueueOK(p, c)' /\ Cover(p, c)' /\ Got(p, c)'
<1>1. /\ \A k \in Of(p, c) : k + o \in Of(q, c) /\ p[k] = q[k + o]
      /\ QueueOK(p, c)'
      /\ \A v : Owed(p, c, v) => Owed(q, c, v)
  BY Shrinks
<1>2. /\ call' = call /\ stopped' = stopped
      /\ CP!Passed(c)' = CP!Passed(c)
  BY ClientStands
<1>3. \A i \in 1 .. Len(srvCalls') : Fed(i, c)' =>
        i \in 1 .. Len(srvCalls) /\ Fed(i, c) /\ srvCalls'[i].got = srvCalls[i].got
  BY DEF Silent, Fed
<1>4. \A v : Owed(p, c, v)' <=> Owed(p, c, v)
  BY <1>2 DEF Owed, Of
<1>5. ASSUME NEW v \in 1 .. CP!Passed(c), Owed(q, c, v)
      PROVE  /\ (\E k \in Of(p, c) : Named(p[k])) => Carries(p, c, v)
             /\ \A i \in 1 .. Len(srvCalls') :
                  Fed(i, c)' => v <= Len(srvCalls'[i].got) \/ Carries(p, c, v)
  <2>1. CASE (\A i \in 1 .. Len(srvCalls') : ~Fed(i, c)') /\ \A k \in Of(p, c) : ~Named(p[k])
    BY <2>1
  <2>2. CASE \A k \in Of(q, c) : \E j \in Of(p, c) : q[k] = p[j]
    <3>1. /\ (\E k \in Of(q, c) : Named(q[k])) => Carries(q, c, v)
          /\ \A i \in 1 .. Len(srvCalls) :
               Fed(i, c) => v <= Len(srvCalls[i].got) \/ Carries(q, c, v)
      BY <1>5 DEF Cover
    <3>2. Carries(q, c, v) => Carries(p, c, v)
      BY <2>2 DEF Carries
    <3>3. (\E k \in Of(p, c) : Named(p[k])) => \E k \in Of(q, c) : Named(q[k])
      BY <1>1
    <3> QED BY <1>3, <3>1, <3>2, <3>3
  <2> QED BY <2>1, <2>2
<1>6. Cover(p, c)'
  <2>1. \A v : Carries(p, c, v)' <=> Carries(p, c, v)
    BY DEF Carries, Of
  <2> QED BY <1>1, <1>2, <1>4, <1>5, <2>1 DEF Cover, Of
<1>7. Got(p, c)'
  <2> SUFFICES ASSUME NEW i \in 1 .. Len(srvCalls'), srvCalls'[i].of = c,
                      srvCalls'[i].kind = "stream"
               PROVE  GotOne(p, c, i)'
    BY DEF Got
  <2>1. /\ i \in 1 .. Len(srvCalls) /\ srvCalls'[i].got = srvCalls[i].got
        /\ Fed(i, c)' => Fed(i, c)
        /\ srvCalls'[i].req = "completed" /\ ~srvCalls'[i].unsubscribed =>
             srvCalls[i].req = "completed" /\ ~srvCalls[i].unsubscribed
        /\ GotOne(q, c, i)
    BY DEF Silent, Got
  <2> QED BY <1>1, <1>2, <2>1 DEF GotOne, Of
<1> QED BY <1>1, <1>6, <1>7

-----------------------------------------------------------------------------
(* The first message on the line is one of c: what the rest of the line     *)
(* holds, and that its value is the next one to come.                       *)
LEMMA HeadGone ==
  ASSUME NEW q \in Seq(ClientMessage), NEW p \in Seq(ClientMessage),
         PartOf(p, q, 1), Len(p) + 1 = Len(q),
         NEW c \in Call, 1 \in Of(q, c), QueueOK(q, c)
  PROVE  /\ \A k \in Of(p, c) :
              /\ q[1].type = "RequestData" /\ ~Named(p[k])
              /\ HasVal(q[1]) /\ HasVal(p[k]) => q[1].val < p[k].val
         /\ \A v : Carries(q, c, v) => q[1].val = v \/ Carries(p, c, v)
<1>1. \A k \in Of(p, c) : k + 1 \in Of(q, c) /\ p[k] = q[k + 1] /\ 1 < k + 1
  BY PartIn DEF Of
<1>2. \A k \in Of(p, c) :
        /\ q[1].type = "RequestData" /\ ~Named(p[k])
        /\ HasVal(q[1]) /\ HasVal(p[k]) => q[1].val < p[k].val
  BY <1>1 DEF QueueOK
<1>3. ASSUME NEW k \in Of(q, c) PROVE k = 1 \/ \E j \in Of(p, c) : p[j] = q[k]
  <2> SUFFICES ASSUME k # 1 PROVE \E j \in Of(p, c) : p[j] = q[k]
    OBVIOUS
  <2>1. k - 1 \in 1 .. Len(p) /\ (k - 1) + 1 = k
    BY DEF Of
  <2>2. p[k - 1] = q[k]
    BY <2>1 DEF PartOf
  <2> QED BY <2>1, <2>2 DEF Of
<1>4. \A v : Carries(q, c, v) => q[1].val = v \/ Carries(p, c, v)
  BY <1>3 DEF Carries
<1> QED BY <1>2, <1>4

(* Nothing is skipped: a value below that of the first message was taken.   *)
LEMMA NothingBefore ==
  ASSUME NEW q \in Seq(ClientMessage), NEW p \in Seq(ClientMessage),
         PartOf(p, q, 1), Len(p) + 1 = Len(q),
         NEW c \in Call, 1 \in Of(q, c), QueueOK(q, c), NEW v \in Nat \ {0}, v < q[1].val
  PROVE  Owed(q, c, v) /\ ~Carries(q, c, v)
<1>1. Owed(q, c, v)
  BY DEF Owed
<1>2. ASSUME Carries(q, c, v) PROVE FALSE
  <2>1. PICK k \in Of(p, c) : p[k].val = v
    BY <1>2, HeadGone, SMTT(30) DEF Carries
  <2>2. HasVal(q[1]) /\ HasVal(p[k])
    BY <2>1 DEF HasVal, NoValue
  <2>3. q[1].val < p[k].val
    BY <2>2, HeadGone
  <2>4. q[1].val \in Nat
    <3>1. q[1] \in ClientMessage
      BY DEF Of
    <3> QED BY <3>1 DEF ClientMessage
  <2> QED BY <2>1, <2>3, <2>4
<1> QED BY <1>1, <1>2

LEMMA CallTyped ==
  ASSUME Joined, NEW i \in 1 .. Len(srvCalls)
  PROVE  /\ srvCalls[i] \in SP!ServerCall
         /\ srvCalls[i].got \in Seq(Nat) /\ Len(srvCalls[i].got) \in Nat
<1>1. srvCalls[i] \in SP!ServerCall
  BY DEF Joined, SP!ServerInv, SP!ServerTyped
<1>2. srvCalls[i].got \in Seq(Nat)
  BY <1>1 DEF SP!ServerCall
<1> QED BY <1>1, <1>2

LEMMA NextValue ==
  ASSUME Joined, NEW q, IsLine(q), NEW p \in Seq(ClientMessage),
         PartOf(p, q, 1), Len(p) + 1 = Len(q),
         NEW c \in Call, 1 \in Of(q, c), QueueOK(q, c), Cover(q, c), Got(q, c), HasVal(q[1])
  PROVE  /\ q[1].val \in Nat /\ q[1].val <= CP!Passed(c)
         /\ Named(q[1]) => q[1].val = 1
         /\ \A i \in 1 .. Len(srvCalls) :
              Fed(i, c) /\ srvCalls[i].kind = "stream" => q[1].val = Len(srvCalls[i].got) + 1
<1>1. q \in Seq(ClientMessage) /\ q[1].val \in Nat /\ q[1].val > 0
  BY Lines DEF Of, HasVal, NoValue
<1>2. q[1].val <= CP!Passed(c) /\ CP!Passed(c) \in Nat
  BY Counts DEF QueueOK
<1>3. ASSUME NEW v \in Nat \ {0}, v < q[1].val
      PROVE  v \in 1 .. CP!Passed(c) /\ Owed(q, c, v) /\ ~Carries(q, c, v)
  <2>1. v \in 1 .. CP!Passed(c)
    BY <1>1, <1>2, <1>3
  <2> QED BY <1>1, <1>3, <2>1, NothingBefore
<1>4. Named(q[1]) => q[1].val = 1
  <2> SUFFICES ASSUME Named(q[1]), 1 < q[1].val PROVE FALSE
    BY <1>1
  <2>1. 1 \in 1 .. CP!Passed(c) /\ Owed(q, c, 1) /\ ~Carries(q, c, 1)
    BY <1>3
  <2> QED BY <2>1 DEF Cover
<1>5. ASSUME NEW i \in 1 .. Len(srvCalls), Fed(i, c), srvCalls[i].kind = "stream"
      PROVE  q[1].val = Len(srvCalls[i].got) + 1
  <2>1. PICK n \in Nat : n = Len(srvCalls[i].got)
    BY CallTyped
  <2>2. n < q[1].val
    BY <1>5, <2>1 DEF Got, GotOne, Fed
  <2> SUFFICES ASSUME n + 1 < q[1].val PROVE FALSE
    BY <1>1, <2>1, <2>2
  <2>3. PICK v \in Nat \ {0} : v = n + 1
    BY <2>1
  <2>4. v \in 1 .. CP!Passed(c) /\ Owed(q, c, v) /\ ~Carries(q, c, v)
    BY <1>3, <2>3
  <2>5. v <= n
    BY <1>5, <2>1, <2>4 DEF Cover
  <2> QED BY <2>1, <2>3, <2>5
<1> QED BY <1>1, <1>2, <1>4, <1>5

(* The last message of c comes when all its values are there.               *)
LEMMA LastValue ==
  ASSUME Joined, NEW q, IsLine(q), NEW p \in Seq(ClientMessage),
         PartOf(p, q, 1), Len(p) + 1 = Len(q),
         NEW c \in Call, 1 \in Of(q, c), QueueOK(q, c), Cover(q, c), q[1].type = "RequestComplete"
  PROVE  /\ call[c].req = "completed" /\ CP!Passed(c) = call[c].sent /\ CP!Passed(c) \in Nat
         /\ Named(q[1]) => CP!Passed(c) = 0 \/ CP!Passed(c) = q[1].val
         /\ \A i \in 1 .. Len(srvCalls) : Fed(i, c) =>
              \/ CP!Passed(c) = 0 \/ CP!Passed(c) = q[1].val
              \/ CP!Passed(c) <= Len(srvCalls[i].got)
<1>1. q \in Seq(ClientMessage) /\ CP!Passed(c) \in Nat
      /\ call[c].req = "completed" /\ CP!Passed(c) = call[c].sent
  BY Lines, Counts DEF QueueOK
<1>2. CASE CP!Passed(c) = 0
  BY <1>1, <1>2
<1>3. CASE CP!Passed(c) # 0
  <2>1. PICK v \in 1 .. CP!Passed(c) : v = CP!Passed(c)
    BY <1>1, <1>3
  <2>2. Owed(q, c, v)
    BY DEF Owed
  <2>3. Of(p, c) = {}
    BY <1>1, HeadGone
  <2>4. Carries(q, c, v) => q[1].val = v
    BY <1>1, <2>3, HeadGone DEF Carries
  <2>5. Named(q[1]) => Carries(q, c, v)
    BY <2>2 DEF Cover
  <2>6. \A i \in 1 .. Len(srvCalls) :
          Fed(i, c) => v <= Len(srvCalls[i].got) \/ Carries(q, c, v)
    BY <2>2 DEF Cover
  <2> QED BY <1>1, <2>1, <2>4, <2>5, <2>6
<1> QED BY <1>2, <1>3

UpTo(n) == [k \in 1 .. n |-> k]

(* The one execution of c has taken the first message on the line.          *)
LEMMA TakenWell ==
  ASSUME UNCHANGED onlyClient, NEW q \in Seq(ClientMessage), NEW p \in Seq(ClientMessage),
         PartOf(p, q, 1), Len(p) + 1 = Len(q),
         NEW c \in Call, 1 \in Of(q, c), QueueOK(q, c), CP!Passed(c) \in Nat,
         NEW j \in 1 .. Len(srvCalls'), \A i \in 1 .. Len(srvCalls') : srvCalls'[i].of = c => i = j,
         NEW n \in Nat,
         srvCalls'[j].kind = "stream" =>
           /\ srvCalls'[j].got = UpTo(n) /\ n <= CP!Passed(c)
           /\ Fed(j, c)' =>
                /\ HasVal(q[1]) => n = q[1].val
                /\ ~HasVal(q[1]) => \A k \in Of(q, c) : HasVal(q[k]) => n < q[k].val
                /\ \A v \in 1 .. CP!Passed(c) : Owed(q, c, v) => v <= n \/ Carries(q, c, v)
           /\ srvCalls'[j].req = "completed" /\ ~srvCalls'[j].unsubscribed =>
                call[c].req = "completed" /\ CP!Passed(c) = call[c].sent /\ n = call[c].sent,
         Fed(j, c)' => srvCalls'[j].kind = "stream"
  PROVE  Cover(p, c)' /\ Got(p, c)'
<1>1. /\ \A k \in Of(p, c) : k + 1 \in Of(q, c) /\ p[k] = q[k + 1]
      /\ \A v : Owed(p, c, v) => Owed(q, c, v)
  BY Shrinks
<1>2. /\ \A k \in Of(p, c) :
           ~Named(p[k]) /\ (HasVal(q[1]) /\ HasVal(p[k]) => q[1].val < p[k].val)
      /\ \A v : Carries(q, c, v) => q[1].val = v \/ Carries(p, c, v)
  BY HeadGone
<1>3. /\ call' = call /\ stopped' = stopped
      /\ CP!Passed(c)' = CP!Passed(c)
  BY ClientStands
<1>4. srvCalls'[j].kind = "stream" =>
        Len(srvCalls'[j].got) = n /\ srvCalls'[j].got = [k \in 1 .. n |-> k]
  BY DEF UpTo
<1>5. Cover(p, c)'
  <2>1. /\ \A v : Owed(p, c, v)' <=> Owed(p, c, v)
        /\ \A v : Carries(p, c, v)' <=> Carries(p, c, v)
    BY <1>3 DEF Carries, Owed, Of
  <2>2. ASSUME NEW v \in 1 .. CP!Passed(c), Owed(p, c, v), Fed(j, c)'
        PROVE  v <= Len(srvCalls'[j].got) \/ Carries(p, c, v)
    <3>1. v <= n \/ Carries(q, c, v)
      BY <1>1, <2>2
    <3>2. q[1].val = v => HasVal(q[1])
      BY DEF HasVal, NoValue
    <3> QED BY <1>2, <1>4, <2>2, <3>1, <3>2
  <2>3. \A i \in 1 .. Len(srvCalls') : Fed(i, c)' => i = j
    BY DEF Fed
  <2> QED BY <1>2, <1>3, <2>1, <2>2, <2>3 DEF Cover, Of
<1>6. Got(p, c)'
  <2> SUFFICES ASSUME srvCalls'[j].kind = "stream" PROVE GotOne(p, c, j)'
    BY DEF Got
  <2>1. ASSUME Fed(j, c)', NEW k \in Of(p, c), HasVal(p[k]) PROVE n < p[k].val
    BY <1>1, <1>2, <2>1
  <2> QED BY <1>3, <1>4, <2>1 DEF GotOne, Of
<1> QED BY <1>5, <1>6

LEMMA CountsOn ==
  ASSUME NEW g \in Seq(Nat), g = [k \in 1 .. Len(g) |-> k]
  PROVE  Append(g, Len(g) + 1) = [k \in 1 .. Len(g) + 1 |-> k]
OBVIOUS

(* The entry for the id of the first message leads to its call.             *)
LEMMA EntryOf ==
  ASSUME Joined, NoReuse, NEW q, IsLine(q), Addressed(q), 1 \in 1 .. Len(q),
         NEW i, i = activeStreamCalls[q[1].id], i # 0
  PROVE  /\ i \in 1 .. Len(srvCalls) /\ srvCalls[i].of = q[1].of /\ srvCalls[i].id = q[1].id
         /\ srvCalls[i].kind = "stream" /\ ~srvCalls[i].unsubscribed
<1>1. q[1] \in ClientMessage
  BY Lines
<1>2. q[1].id \in Id
  BY <1>1 DEF ClientMessage
<1>3. /\ i \in 1 .. Len(srvCalls) /\ srvCalls[i].id = q[1].id
      /\ srvCalls[i].kind = "stream" /\ ~srvCalls[i].unsubscribed
  BY <1>2, SameTerms DEF Joined, SP!ServerInv, SP!EntriesOK, SP!EntryOK
<1>4. srvCalls[i].of = q[1].of
  BY <1>3 DEF Addressed, Addr, NoReuse
<1> QED BY <1>3, <1>4

(* A call has one execution.                                                *)
LEMMA OneExecution ==
  ASSUME Joined, NEW q, NamesOnce(q), NEW i \in 1 .. Len(srvCalls), NEW j \in 1 .. Len(srvCalls),
         srvCalls[i].of = srvCalls[j].of
  PROVE  i = j
<1>1. DOMAIN srvCalls = 1 .. Len(srvCalls)
  BY DEF Joined, SP!ServerInv, SP!ServerTyped
<1> QED BY <1>1 DEF NamesOnce, MethodRunsOnce

LEMMA OpenTakes ==
  ASSUME Joined, UNCHANGED onlyClient, NEW q, IsLine(q), NEW p \in Seq(ClientMessage),
         PartOf(p, q, 1), Len(p) + 1 = Len(q), NamesOnce(q),
         NEW c \in Call, 1 \in Of(q, c), QueueOK(q, c), Cover(q, c), Got(q, c),
         NEW i \in 1 .. Len(srvCalls), i = activeStreamCalls[srvCalls[i].id],
         srvCalls[i].of = c, srvCalls[i].kind = "stream", srvCalls[i].req = "open",
         SP!Takes(q[1], i)
  PROVE  Cover(p, c)' /\ Got(p, c)'
<1>1. /\ Fed(i, c) /\ GotOne(q, c, i)
  BY DEF Fed, Got
<1>2. /\ q \in Seq(ClientMessage) /\ q[1].val \in Nat /\ CP!Passed(c) \in Nat
  BY Lines, Counts DEF Of
<1>3. /\ srvCalls[i].got \in Seq(Nat) /\ Len(srvCalls[i].got) \in Nat
      /\ srvCalls[i].got = [k \in 1 .. Len(srvCalls[i].got) |-> k]
      /\ Len(srvCalls[i].got) <= CP!Passed(c)
  BY <1>1, CallTyped DEF GotOne
<1>4. /\ Len(srvCalls') = Len(srvCalls) /\ srvCalls'[i].of = c /\ srvCalls'[i].kind = "stream"
      /\ \A j \in 1 .. Len(srvCalls') : srvCalls'[j].of = c => i = j
      /\ srvCalls'[i].got =
           IF HasVal(q[1]) THEN Append(srvCalls[i].got, q[1].val) ELSE srvCalls[i].got
      /\ srvCalls'[i].req = "completed" => q[1].type = "RequestComplete"
  BY OneExecution, SameTerms DEF SP!Takes, SP!StepOf, SP!SameCall, HasVal
<1>5. HasVal(q[1]) => /\ q[1].val = Len(srvCalls[i].got) + 1 /\ q[1].val <= CP!Passed(c)
  BY <1>1, NextValue
<1>6. PICK n \in Nat : n = IF HasVal(q[1]) THEN q[1].val ELSE Len(srvCalls[i].got)
  BY <1>2, <1>3
<1>7. srvCalls'[i].got = UpTo(n)
  BY <1>3, <1>4, <1>5, <1>6, CountsOn DEF UpTo
<1>8. n <= CP!Passed(c) /\ Len(srvCalls[i].got) <= n
  BY <1>2, <1>3, <1>5, <1>6
<1>9. ~HasVal(q[1]) => \A k \in Of(q, c) : HasVal(q[k]) => n < q[k].val
  BY <1>1, <1>6 DEF GotOne
<1>10. \A v \in 1 .. CP!Passed(c) : Owed(q, c, v) => v <= n \/ Carries(q, c, v)
  BY <1>1, <1>3, <1>8 DEF Cover
<1>11. ASSUME q[1].type = "RequestComplete"
       PROVE  call[c].req = "completed" /\ CP!Passed(c) = call[c].sent /\ n = call[c].sent
  <2>1. /\ call[c].req = "completed" /\ CP!Passed(c) = call[c].sent
        /\ \/ CP!Passed(c) = 0 \/ CP!Passed(c) = q[1].val
           \/ CP!Passed(c) <= Len(srvCalls[i].got)
    BY <1>1, <1>11, LastValue
  <2>2. CP!Passed(c) = q[1].val => CP!Passed(c) = 0 \/ n = CP!Passed(c)
    BY <1>6 DEF HasVal, NoValue
  <2>3. n = CP!Passed(c)
    BY <1>2, <1>3, <1>8, <2>1, <2>2
  <2> QED BY <2>1, <2>3
<1>12. /\ srvCalls'[i].got = UpTo(n) /\ n <= CP!Passed(c)
       /\ Fed(i, c)' =>
            /\ HasVal(q[1]) => n = q[1].val
            /\ ~HasVal(q[1]) => \A k \in Of(q, c) : HasVal(q[k]) => n < q[k].val
            /\ \A v \in 1 .. CP!Passed(c) : Owed(q, c, v) => v <= n \/ Carries(q, c, v)
       /\ srvCalls'[i].req = "completed" /\ ~srvCalls'[i].unsubscribed =>
            call[c].req = "completed" /\ CP!Passed(c) = call[c].sent /\ n = call[c].sent
  BY <1>4, <1>6, <1>7, <1>8, <1>9, <1>10, <1>11
<1>13. /\ i \in 1 .. Len(srvCalls')
       /\ \A j \in 1 .. Len(srvCalls') : srvCalls'[j].of = c => j = i
  BY <1>4
<1>14. n \in Nat
  BY <1>6
<1> QED BY <1>2, <1>4, <1>12, <1>13, <1>14, TakenWell

LEMMA FedStreams ==
  ASSUME Joined', NEW c, NEW j \in 1 .. Len(srvCalls'), Fed(j, c)'
  PROVE  srvCalls'[j].kind = "stream" /\ srvCalls'[j].req = "open"
<1>1. PICK id : id = srvCalls'[j].id
  OBVIOUS
<1>2. srvCalls'[j] \in SP!ServerCall
  BY DEF Joined, SP!ServerInv, SP!ServerTyped
<1>3. id \in SP!Id
  BY <1>1, <1>2 DEF SP!ServerCall
<1>4. /\ activeStreamCalls'[id] = j /\ srvCalls'[j].req = "open"
      /\ j # 0
  BY <1>1 DEF Fed
<1>5. SP!EntryOK(id, j, srvCalls'[j], srvMicrotasks')
  BY <1>3, <1>4 DEF Joined, SP!ServerInv, SP!EntriesOK
<1> QED BY <1>4, <1>5 DEF SP!EntryOK

LEMMA FirstTaken ==
  ASSUME Joined, Joined', UNCHANGED onlyClient, NEW q, IsLine(q), NEW p \in Seq(ClientMessage),
         PartOf(p, q, 1), Len(p) + 1 = Len(q), NamesOnce(q),
         NEW c \in Call, 1 \in Of(q, c), QueueOK(q, c), Cover(q, c), Got(q, c), SP!Begins(q[1])
  PROVE  Cover(p, c)' /\ Got(p, c)'
<1>1. PICK j : j = Len(srvCalls) + 1
  OBVIOUS
<1>2. /\ q \in Seq(ClientMessage) /\ q[1].val \in Nat /\ CP!Passed(c) \in Nat
      /\ \A k \in Of(q, c) : q[k].val \in Nat
  BY Lines, Counts DEF Of
<1>3. Len(srvCalls) \in Nat
  BY DEF Joined, SP!ServerInv, SP!ServerTyped
<1>4. Named(q[1]) /\ \A i \in 1 .. Len(srvCalls) : srvCalls[i].of # c
  BY DEF SP!Begins, Named, NamesOnce, Of
<1>5. /\ Len(srvCalls') = j /\ j \in 1 .. Len(srvCalls')
      /\ \A i \in 1 .. Len(srvCalls) : srvCalls'[i] = srvCalls[i]
      /\ srvCalls'[j].kind = "stream" =>
           /\ srvCalls'[j].got =
                IF q[1].type = "RequestError" \/ ~HasVal(q[1]) THEN <<>> ELSE <<q[1].val>>
           /\ srvCalls'[j].req = "completed" => q[1].type = "RequestComplete" /\ HasVal(q[1])
           /\ q[1].type = "RequestError" => srvCalls'[j].req # "open"
  BY <1>1, <1>3, SameTerms DEF SP!Begins, HasVal
<1>6. \A i \in 1 .. Len(srvCalls') : srvCalls'[i].of = c => i = j
  BY <1>1, <1>3, <1>4, <1>5
<1>7. HasVal(q[1]) => q[1].val = 1 /\ q[1].val <= CP!Passed(c)
  BY <1>4, NextValue
<1>8. PICK n \in Nat : n = IF q[1].type = "RequestError" \/ ~HasVal(q[1]) THEN 0 ELSE 1
  OBVIOUS
<1>9. srvCalls'[j].kind = "stream" => srvCalls'[j].got = UpTo(n)
  BY <1>5, <1>7, <1>8 DEF UpTo
<1>10. n <= CP!Passed(c)
  BY <1>2, <1>7, <1>8
<1>11. ASSUME srvCalls'[j].kind = "stream", Fed(j, c)'
       PROVE  /\ HasVal(q[1]) => n = q[1].val
              /\ ~HasVal(q[1]) => \A k \in Of(q, c) : HasVal(q[k]) => n < q[k].val
              /\ \A v \in 1 .. CP!Passed(c) : Owed(q, c, v) => v <= n \/ Carries(q, c, v)
  <2>1. q[1].type # "RequestError"
    BY <1>5, <1>11 DEF Fed
  <2>2. \A k \in Of(q, c) : HasVal(q[k]) => 0 < q[k].val
    BY <1>2 DEF HasVal, NoValue
  <2>3. \A v \in 1 .. CP!Passed(c) : Owed(q, c, v) => Carries(q, c, v)
    BY <1>4 DEF Cover
  <2> QED BY <1>7, <1>8, <2>1, <2>2, <2>3
<1>12. ASSUME srvCalls'[j].kind = "stream", srvCalls'[j].req = "completed"
       PROVE  call[c].req = "completed" /\ CP!Passed(c) = call[c].sent /\ n = call[c].sent
  <2>1. q[1].type = "RequestComplete" /\ HasVal(q[1]) /\ n = 1
    BY <1>5, <1>8, <1>12
  <2>2. /\ call[c].req = "completed" /\ CP!Passed(c) = call[c].sent
        /\ CP!Passed(c) = 0 \/ CP!Passed(c) = q[1].val
    BY <1>4, <2>1, LastValue
  <2> QED BY <1>2, <1>7, <2>1, <2>2
<1>13. srvCalls'[j].kind = "stream" =>
         /\ srvCalls'[j].got = UpTo(n) /\ n <= CP!Passed(c)
         /\ Fed(j, c)' =>
              /\ HasVal(q[1]) => n = q[1].val
              /\ ~HasVal(q[1]) => \A k \in Of(q, c) : HasVal(q[k]) => n < q[k].val
              /\ \A v \in 1 .. CP!Passed(c) : Owed(q, c, v) => v <= n \/ Carries(q, c, v)
         /\ srvCalls'[j].req = "completed" /\ ~srvCalls'[j].unsubscribed =>
              call[c].req = "completed" /\ CP!Passed(c) = call[c].sent /\ n = call[c].sent
  BY <1>9, <1>10, <1>11, <1>12
<1>14. /\ j \in 1 .. Len(srvCalls') /\ n \in Nat
       /\ Fed(j, c)' => srvCalls'[j].kind = "stream"
  BY <1>5, <1>8, FedStreams
<1> QED BY <1>2, <1>6, <1>13, <1>14, TakenWell

LEMMA FedBefore ==
  ASSUME Joined, SP!EntriesGo, NEW c, NEW i \in 1 .. Len(srvCalls),
         SP!SameCall(srvCalls[i], srvCalls'[i]),
         srvCalls'[i].req = "open" => srvCalls[i].req = "open", Fed(i, c)'
  PROVE  Fed(i, c)
<1>1. srvCalls[i].id \in SP!Id
  BY CallTyped DEF SP!ServerCall
<1>2. i # 0
  OBVIOUS
<1> QED BY <1>1, <1>2 DEF Fed, SP!EntriesGo, SP!SameCall

LEMMA NothingSilent ==
  ASSUME Joined, SP!NothingGot, NEW c
  PROVE  Silent(c)
<1>1. \A i \in 1 .. Len(srvCalls) : Fed(i, c)' => Fed(i, c)
  BY FedBefore DEF SP!NothingGot, SP!GetsNothing
<1> QED BY <1>1 DEF Silent, SP!NothingGot, SP!GetsNothing, SP!SameCall

LEMMA StepSilent ==
  ASSUME Joined, NEW i, SP!StepOf(i), SP!EntriesGo, NEW c,
         srvCalls[i].of = c =>
           /\ srvCalls'[i].got = srvCalls[i].got
           /\ Fed(i, c)' => Fed(i, c)
           /\ srvCalls'[i].req = "completed" /\ ~srvCalls'[i].unsubscribed =>
                srvCalls[i].req = "completed" /\ ~srvCalls[i].unsubscribed
  PROVE  Silent(c)
<1>1. ASSUME NEW j \in 1 .. Len(srvCalls), j # i
      PROVE  srvCalls'[j] = srvCalls[j] /\ (Fed(j, c)' => Fed(j, c))
  BY <1>1, FedBefore DEF SP!StepOf, SP!SameCall
<1>2. /\ Len(srvCalls') = Len(srvCalls) /\ srvCalls'[i].of = srvCalls[i].of
      /\ srvCalls'[i].kind = srvCalls[i].kind
  BY DEF SP!StepOf, SP!SameCall
<1> QED BY <1>1, <1>2 DEF Silent

LEMMA RestIn ==
  ASSUME NEW q \in Seq(ClientMessage), NEW p \in Seq(ClientMessage),
         PartOf(p, q, 1), Len(p) + 1 = Len(q),
         NEW c, 1 \notin Of(q, c)
  PROVE  \A k \in Of(q, c) : \E j \in Of(p, c) : q[k] = p[j]
<1> SUFFICES ASSUME NEW k \in Of(q, c) PROVE \E j \in Of(p, c) : q[k] = p[j]
  OBVIOUS
<1>1. k - 1 \in 1 .. Len(p) /\ (k - 1) + 1 = k
  BY DEF Of
<1>2. p[k - 1] = q[k]
  BY <1>1 DEF PartOf
<1> QED BY <1>1, <1>2 DEF Of

(* The message reaches execution i, the one its id leads to.                *)
LEMMA OrderReached ==
  ASSUME Joined, Joined', UNCHANGED onlyClient, NEW q, IsLine(q), NEW p \in Seq(ClientMessage),
         PartOf(p, q, 1), Len(p) + 1 = Len(q), 1 \in 1 .. Len(q),
         NoReuse, Addressed(q), NamesOnce(q),
         NEW c \in Call, QueueOK(q, c), Cover(q, c), Got(q, c),
         NEW i, i = activeStreamCalls[q[1].id], i # 0,
         SP!Takes(q[1], i) \/ SP!Fails(q[1], i) \/ SP!Left(q[1], i)
  PROVE  QueueOK(p, c)' /\ Cover(p, c)' /\ Got(p, c)'
<1>1. /\ i \in 1 .. Len(srvCalls) /\ srvCalls[i].of = q[1].of /\ srvCalls[i].id = q[1].id
      /\ srvCalls[i].kind = "stream" /\ ~srvCalls[i].unsubscribed
  BY EntryOf
<1>2. SP!StepOf(i) /\ SP!EntriesGo
  BY DEF SP!Takes, SP!Fails, SP!Left, SP!EntriesGo
<1>3. q \in Seq(ClientMessage) /\ srvCalls[i].id \in SP!Id /\ i \in Int
  BY <1>1, Lines, CallTyped DEF SP!ServerCall
<1>4. QueueOK(p, c)'
  BY <1>3, Shrinks
<1>5. CASE 1 \in Of(q, c) /\ SP!Takes(q[1], i) /\ srvCalls[i].req = "open"
  <2>1. srvCalls[i].of = c /\ i = activeStreamCalls[srvCalls[i].id]
    BY <1>1, <1>5 DEF Of
  <2> QED BY <1>1, <1>4, <1>5, <2>1, OpenTakes
<1>6. ASSUME ~(1 \in Of(q, c) /\ SP!Takes(q[1], i) /\ srvCalls[i].req = "open"), srvCalls[i].of = c
      PROVE  /\ srvCalls'[i].got = srvCalls[i].got
             /\ ~Fed(i, c)'
             /\ srvCalls'[i].req = "completed" /\ ~srvCalls'[i].unsubscribed =>
                  srvCalls[i].req = "completed" /\ ~srvCalls[i].unsubscribed
  <2>1. CASE SP!Takes(q[1], i)
    <3>1. srvCalls[i].req # "open"
      BY <1>1, <1>6, <2>1, SameTerms DEF SP!Takes, Of, Asks, RequestType
    <3> QED BY <2>1, <3>1 DEF SP!Takes, Fed
  <2>2. CASE SP!Fails(q[1], i)
    BY <2>2 DEF SP!Fails, SP!GetsNothing, Fed
  <2>3. CASE SP!Left(q[1], i)
    <3>1. activeStreamCalls'[srvCalls'[i].id] = 0
      BY <1>1, <2>3 DEF SP!Left, SP!StepOf, SP!SameCall
    <3>2. ~Fed(i, c)'
      BY <1>3, <3>1 DEF Fed
    <3> QED BY <2>3, <3>2 DEF SP!Left
  <2> QED BY <2>1, <2>2, <2>3
<1>7. CASE ~(1 \in Of(q, c) /\ SP!Takes(q[1], i) /\ srvCalls[i].req = "open")
  <2>1. Silent(c)
    BY <1>2, <1>6, <1>7, StepSilent
  <2>2. CASE 1 \notin Of(q, c)
    <3>1. \A k \in Of(q, c) : \E j \in Of(p, c) : q[k] = p[j]
      BY <1>3, <2>2, RestIn
    <3> QED BY <1>3, <2>1, <3>1, ServerStays
  <2>3. CASE 1 \in Of(q, c)
    <3>1. srvCalls[i].of = c
      BY <1>1, <2>3 DEF Of
    <3>2. ASSUME NEW j \in 1 .. Len(srvCalls'), Fed(j, c)' PROVE FALSE
      <4>1. j \in 1 .. Len(srvCalls) /\ srvCalls[j].of = c
        BY <2>1, <3>2 DEF Silent, Fed
      <4>2. j = i
        BY <1>1, <3>1, <4>1, OneExecution
      <4> QED BY <1>6, <1>7, <3>1, <3>2, <4>2
    <3>3. \A k \in Of(p, c) : ~Named(p[k])
      BY <1>3, <2>3, HeadGone
    <3> QED BY <1>3, <2>1, <3>2, <3>3, ServerStays
  <2> QED BY <2>2, <2>3
<1> QED BY <1>5, <1>7

LEMMA OrderServer ==
  ASSUME Joined, Joined', NEW q, NEW p, IsLine(q), IsLine(p)',
         Addressed(q), NamesOnce(q), InOrder(q),
         NoReuse, UnknownMethod = {}, ServerMoves(q, p)
  PROVE  InOrder(p)'
<1>1. UNCHANGED onlyClient
  BY DEF ServerMoves
<1> SUFFICES ASSUME NEW c \in Call, call[c].kind # "static"
             PROVE  QueueOK(p, c)' /\ Cover(p, c)' /\ Got(p, c)'
  BY <1>1 DEF InOrder, onlyClient
<1>2. QueueOK(q, c) /\ Cover(q, c) /\ Got(q, c)
  BY DEF InOrder
<1>3. q \in Seq(ClientMessage) /\ p \in Seq(ClientMessage)
  BY DEF IsLine
<1>4. CASE SP!NothingGot /\ p = q
  <2>1. PartOf(p, q, 0) /\ \A k \in Of(q, c) : \E j \in Of(p, c) : q[k] = p[j]
    BY <1>3, <1>4, WholePart
  <2> QED BY <1>1, <1>2, <1>3, <1>4, <2>1, NothingSilent, ServerStays
<1>5. CASE q # <<>> /\ p = Tail(q) /\ SP!Handled(Head(q))
  <2>1. /\ PartOf(p, q, 1) /\ Head(q) = q[1] /\ 1 \in 1 .. Len(q) /\ Len(p) + 1 = Len(q)
    BY <1>3, <1>5, TailPart, TakeOne
  <2>2. PICK i : i = activeStreamCalls[q[1].id]
    OBVIOUS
  <2>3. CASE i # 0 /\ (SP!Takes(q[1], i) \/ SP!Fails(q[1], i) \/ SP!Left(q[1], i))
    BY <1>1, <1>2, <1>3, <2>1, <2>2, <2>3, OrderReached
  <2>4. CASE 1 \in Of(q, c) /\ SP!Begins(q[1])
    BY <1>1, <1>2, <1>3, <2>1, <2>4, Shrinks, FirstTaken
  <2>5. ASSUME 1 \notin Of(q, c), Silent(c) PROVE QueueOK(p, c)' /\ Cover(p, c)' /\ Got(p, c)'
    <3>1. \A k \in Of(q, c) : \E j \in Of(p, c) : q[k] = p[j]
      BY <1>3, <2>1, <2>5, RestIn
    <3> QED BY <1>1, <1>2, <1>3, <2>1, <2>5, <3>1, ServerStays
  <2>6. CASE 1 \notin Of(q, c) /\ i = 0 /\ SP!Begins(q[1])
    <3>1. /\ Len(srvCalls) \in Nat /\ q[1].of # c
          /\ \A j \in 1 .. Len(srvCalls) : srvCalls[j].id \in SP!Id
      <4>1. Len(srvCalls) \in Nat
        BY DEF Joined, SP!ServerInv, SP!ServerTyped
      <4>2. q[1].of # c
        BY <2>1, <2>6, SameTerms DEF Of, Asks, SP!Begins
      <4>3. \A j \in 1 .. Len(srvCalls) : srvCalls[j].id \in SP!Id
        BY CallTyped DEF SP!ServerCall
      <4> QED BY <4>1, <4>2, <4>3
    <3>2. \A j \in 1 .. Len(srvCalls') : srvCalls'[j].of = c =>
            j \in 1 .. Len(srvCalls) /\ srvCalls'[j] = srvCalls[j]
      BY <2>6, <3>1 DEF SP!Begins
    <3>3. ASSUME NEW j \in 1 .. Len(srvCalls), srvCalls'[j] = srvCalls[j], Fed(j, c)'
          PROVE  Fed(j, c)
      <4>1. activeStreamCalls'[srvCalls[j].id] = j /\ j # 0 /\ j # Len(srvCalls) + 1
        BY <3>1, <3>3 DEF Fed
      <4>2. activeStreamCalls[srvCalls[j].id] = j
        BY <2>6, <3>1, <4>1 DEF SP!Begins
      <4> QED BY <3>3, <4>2 DEF Fed
    <3> QED BY <2>5, <2>6, <3>2, <3>3 DEF Silent
  <2>7. CASE i = 0 /\ SP!NothingGot
    <3>1. Silent(c)
      BY <2>7, NothingSilent
    <3>2. CASE 1 \in Of(q, c)
      <4>1. ASSUME NEW j \in 1 .. Len(srvCalls'), Fed(j, c)' PROVE FALSE
        <5>1. j \in 1 .. Len(srvCalls) /\ Fed(j, c)
          BY <3>1, <4>1 DEF Silent, Fed
        <5>2. srvCalls[j].id = q[1].id
          BY <3>2, <5>1 DEF Addressed, Addr, Fed, Of
        <5>3. activeStreamCalls[q[1].id] = j /\ j # 0
          BY <5>1, <5>2 DEF Fed
        <5> QED BY <2>2, <2>7, <5>3
      <4>2. \A k \in Of(p, c) : ~Named(p[k])
        BY <1>2, <1>3, <2>1, <3>2, HeadGone
      <4> QED BY <1>1, <1>2, <1>3, <2>1, <3>1, <4>1, <4>2, ServerStays
    <3> QED BY <2>5, <3>1, <3>2
  <2> QED BY <1>5, <2>1, <2>2, <2>3, <2>4, <2>6, <2>7 DEF SP!Handled
<1> QED BY <1>4, <1>5 DEF ServerMoves

-----------------------------------------------------------------------------
(* The end of a request stream on its way: it is the last request message   *)
(* of its call, ...                                                         *)
EndsLine(q, c) ==
  /\ \A j, k \in Of(q, c) : j < k => q[j].type = "RequestData"
  /\ \A k \in Of(q, c) : q[k].type # "RequestData" => CP!RequestEnded(c)

(* A method that was invoked and goes on knows that its request has ended.  *)
Told(r) == r.got # <<>> => r.res # "open" \/ r.req # "open"

(* ... and once it was sent it is on the line until the method knows.       *)
EndTold(q, c) ==
  CP!RequestEnded(c) =>
    \/ \E k \in Of(q, c) : q[k].type # "RequestData"
    \/ /\ Of(q, c) = {}
       /\ \A i \in 1 .. Len(srvCalls) : srvCalls[i].of = c => Told(srvCalls[i])

EndReaches(q, c) == EndsLine(q, c) /\ (~stopped /\ ~srvStopped => EndTold(q, c))

(* Nothing of c goes, and at most the end of the line is cut off.           *)
LEMMA EndCalm ==
  ASSUME NEW q, NEW p, NEW c \in Call, UNCHANGED onlyServer, stopped => stopped',
         CP!Kept(c), CP!Calm(c), EndReaches(q, c),
         \A k \in Of(p, c) : k \in Of(q, c) /\ p[k] = q[k],
         stopped' \/ Of(p, c) = Of(q, c)
  PROVE  EndReaches(p, c)'
<1>1. srvCalls' = srvCalls /\ srvStopped' = srvStopped /\ (CP!RequestEnded(c) => CP!RequestEnded(c)')
  BY DEF onlyServer, CP!Kept
<1>2. EndsLine(p, c)'
  BY <1>1 DEF EndReaches, EndsLine, Of
<1>3. ASSUME ~stopped', ~srvStopped', CP!RequestEnded(c)'
      PROVE  \/ \E k \in Of(p, c) : p[k].type # "RequestData"
             \/ /\ Of(p, c) = {}
                /\ \A i \in 1 .. Len(srvCalls) : srvCalls[i].of = c => Told(srvCalls[i])
  <2>1. CP!RequestEnded(c)
    BY <1>3 DEF CP!Calm
  <2>2. EndTold(q, c)
    BY <1>1, <1>3 DEF EndReaches
  <2> QED BY <1>3, <2>1, <2>2 DEF EndTold
<1>4. ~stopped' /\ ~srvStopped' => EndTold(p, c)'
  BY <1>1, <1>3 DEF EndTold, Of, Told
<1> QED BY <1>2, <1>4 DEF EndReaches

(* A message of c goes.                                                     *)
LEMMA EndGoesOut ==
  ASSUME NEW q, IsLine(q), NEW c \in Call, NEW m \in ClientMessage, UNCHANGED onlyServer,
         stopped => stopped', CP!Kept(c), CP!Goes(m, c), EndReaches(q, c),
         NEW p, \/ ~stopped /\ p = Append(q, m)
                \/ stopped /\ p = q
  PROVE  EndReaches(p, c)'
<1>1. /\ m.of = c /\ Asks(m) /\ ~CP!RequestEnded(c)
      /\ m.type # "RequestData" <=> CP!RequestEnded(c)'
  BY SameTerms DEF CP!Goes, Asks
<1>2. \A k \in Of(q, c) : q[k].type = "RequestData"
  BY <1>1 DEF EndReaches, EndsLine
<1>3. CASE stopped /\ p = q
  <2>1. EndsLine(p, c)'
    BY <1>2, <1>3 DEF EndsLine, Of
  <2> QED BY <1>3, <2>1 DEF EndReaches
<1>4. CASE ~stopped /\ p = Append(q, m)
  <2>1. /\ \A k \in Of(p, c) : \/ k \in Of(q, c) /\ p[k] = q[k]
                               \/ k = Len(q) + 1 /\ p[k] = m
        /\ \A k \in Of(q, c) : k < Len(q) + 1
        /\ Len(q) + 1 \in Of(p, c) /\ p[Len(q) + 1] = m /\ Len(q) \in Nat
    BY <1>1, <1>4, AppendedIn, Lines DEF Of
  <2>2. ASSUME NEW j \in Of(p, c), NEW k \in Of(p, c), j < k PROVE p[j].type = "RequestData"
    <3>1. j \in 1 .. Len(p) /\ k \in 1 .. Len(p) /\ Len(p) = Len(q) + 1
      BY <1>4, AppendedIn, Lines DEF Of
    <3>2. j # Len(q) + 1
      BY <2>1, <2>2, <3>1
    <3> QED BY <1>2, <2>1, <3>2
  <2>3. ASSUME NEW k \in Of(p, c), p[k].type # "RequestData" PROVE CP!RequestEnded(c)'
    BY <1>1, <1>2, <2>1, <2>3
  <2>4. EndsLine(p, c)'
    BY <2>2, <2>3 DEF EndsLine, Of
  <2>5. CP!RequestEnded(c)' => \E k \in Of(p, c) : p[k].type # "RequestData"
    BY <1>1, <2>1
  <2>6. EndTold(p, c)'
    BY <2>5 DEF EndTold, Of
  <2> QED BY <2>4, <2>6 DEF EndReaches
<1> QED BY <1>3, <1>4

LEMMA EndClient ==
  ASSUME Joined, Joined', NEW q, NEW p, IsLine(q), IsLine(p)', ClientMoves(q, p),
         NEW c \in Call, EndReaches(q, c)
  PROVE  EndReaches(p, c)'
<1>1. /\ CP!Kept(c) /\ UNCHANGED onlyServer
      /\ stopped => stopped'
  BY DEF ClientMoves
<1>2. q \in Seq(ClientMessage) /\ p \in Seq(ClientMessage)
  BY DEF IsLine
<1>3. ASSUME CP!Calm(c), Of(p, c) = Of(q, c), \A k \in Of(p, c) : p[k] = q[k]
      PROVE  EndReaches(p, c)'
  BY <1>1, <1>3, EndCalm
<1>4. ASSUME CP!Calm(c), NEW m \in ClientMessage, p = Append(q, m), m.of # c \/ ~Asks(m)
      PROVE  EndReaches(p, c)'
  <2>1. Of(p, c) = Of(q, c) /\ \A k \in Of(p, c) : p[k] = q[k]
    BY <1>2, <1>4, AppendedIn DEF Of
  <2> QED BY <1>3, <1>4, <2>1
<1>5. CASE RequestGoes(q, p)
  <2>1. PICK d \in Call, m \in ClientMessage :
          /\ CP!Goes(m, d) /\ \A e \in Call \ {d} : CP!Calm(e)
          /\ \/ ~stopped /\ p = Append(q, m)
             \/ stopped /\ p = q
    BY <1>5 DEF RequestGoes
  <2>2. CASE d = c
    BY <1>1, <2>1, <2>2, EndGoesOut
  <2>3. CASE d # c
    <3>1. CP!Calm(c) /\ m.of # c
      BY <2>1, <2>3 DEF CP!Goes
    <3> QED BY <1>3, <1>4, <2>1, <3>1
  <2> QED BY <2>2, <2>3
<1>6. CASE ClientQuiet(q, p)
  <2>1. CP!Calm(c)
    BY <1>6 DEF ClientQuiet
  <2>2. ASSUME NEW d \in Call, call[d].id \in Id, p = Append(q, CP!Unsubscribe(call[d], d))
        PROVE  EndReaches(p, c)'
    <3>1. PICK m : m = CP!Unsubscribe(call[d], d)
      OBVIOUS
    <3>2. m \in ClientMessage /\ ~Asks(m)
      BY <2>2, <3>1 DEF CP!Unsubscribe, ClientMessage, CP!NoValue, Asks, RequestType
    <3> QED BY <1>4, <2>1, <2>2, <3>1, <3>2
  <2>3. ASSUME stopped', PartOf(p, q, 0) PROVE EndReaches(p, c)'
    <3>1. \A k \in 1 .. Len(p) : k \in 1 .. Len(q) /\ p[k] = q[k]
      BY <1>2, <2>3, PartIn
    <3>2. \A k \in Of(p, c) : k \in Of(q, c) /\ p[k] = q[k]
      BY <3>1 DEF Of
    <3> QED BY <1>1, <2>1, <2>3, <3>2, EndCalm
  <2> QED BY <1>3, <1>6, <2>1, <2>2, <2>3 DEF ClientQuiet
<1> QED BY <1>5, <1>6 DEF ClientMoves

(* While no two calls have had the same id, no two executions have.         *)
LEMMA ApartIds ==
  ASSUME Joined, NEW q, NamesOnce(q), Addressed(q), NoReuse
  PROVE  SP!IdsApart
<1> SUFFICES ASSUME NEW i \in 1 .. Len(srvCalls), NEW j \in 1 .. Len(srvCalls),
                    srvCalls[i].id = srvCalls[j].id
             PROVE  i = j
  BY DEF SP!IdsApart
<1>1. Addr(srvCalls[i]) /\ Addr(srvCalls[j])
  BY DEF Addressed
<1>2. srvCalls[i].of = srvCalls[j].of
  BY <1>1 DEF Addr, NoReuse
<1> QED BY <1>2, OneExecution

(* An execution that got nothing knows as much as before.                   *)
KnowsOn(i) ==
  /\ i \in 1 .. Len(srvCalls) /\ srvCalls'[i].of = srvCalls[i].of
  /\ Told(srvCalls[i]) => Told(srvCalls'[i])

LEMMA GotNothingNew ==
  ASSUME SP!Settles, NEW i \in 1 .. Len(srvCalls), SP!SameCall(srvCalls[i], srvCalls'[i]),
         srvCalls'[i].got = srvCalls[i].got, srvCalls[i].req # "open" => srvCalls'[i].req # "open"
  PROVE  KnowsOn(i)
BY DEF KnowsOn, Told, SP!SameCall, SP!Settles

(* Message m is not a request message of c.                                 *)
LEMMA OthersKnow ==
  ASSUME Joined, Joined', SP!Settles, NEW c \in Call, NEW m,
         \/ SP!NothingGot
         \/ /\ SP!Handled(m) /\ ~(Asks(m) /\ m.of = c)
            /\ LET i == activeStreamCalls[m.id] IN i # 0 => srvCalls[i].of = m.of,
         NEW j \in 1 .. Len(srvCalls'), srvCalls'[j].of = c
  PROVE  KnowsOn(j)
<1>0. Len(srvCalls) \in Nat
  BY DEF Joined, SP!ServerInv, SP!ServerTyped
<1>1. ASSUME SP!NothingGot PROVE KnowsOn(j)
  BY <1>1, GotNothingNew DEF SP!NothingGot, SP!GetsNothing
<1>2. ASSUME SP!Handled(m), ~(Asks(m) /\ m.of = c),
             LET i == activeStreamCalls[m.id] IN i # 0 => srvCalls[i].of = m.of,
             ~SP!NothingGot
      PROVE  KnowsOn(j)
  <2>1. PICK i : i = activeStreamCalls[m.id]
    OBVIOUS
  <2>2. CASE SP!Begins(m)
    <3>1. m.of # c
      BY <1>2, <2>2, SameTerms DEF SP!Begins, Asks
    <3>2. j \in 1 .. Len(srvCalls) /\ srvCalls'[j] = srvCalls[j]
      BY <1>0, <2>2, <3>1 DEF SP!Begins
    <3> QED BY <3>2, GotNothingNew DEF SP!SameCall
  <2>3. CASE i # 0 /\ (SP!Takes(m, i) \/ SP!Fails(m, i) \/ SP!Left(m, i))
    <3>1. SP!StepOf(i) /\ srvCalls[i].of = m.of
      BY <1>2, <2>1, <2>3 DEF SP!Takes, SP!Fails, SP!Left
    <3>2. j \in 1 .. Len(srvCalls)
      BY <3>1 DEF SP!StepOf
    <3>3. CASE j # i
      BY <3>1, <3>2, <3>3, GotNothingNew DEF SP!StepOf, SP!SameCall
    <3>4. CASE j = i
      <4>1. m.of = c
        BY <3>1, <3>4 DEF SP!StepOf, SP!SameCall
      <4>2. ~Asks(m)
        BY <1>2, <4>1
      <4>3. SP!Left(m, i)
        BY <2>3, <4>2 DEF SP!Takes, SP!Fails, Asks, RequestType
      <4>4. srvCalls'[i].req # "open" /\ srvCalls'[i].got = srvCalls[i].got
        BY <3>2, <3>4, <4>3 DEF SP!Left, SP!Settles, SP!RequestOK
      <4> QED BY <3>1, <3>2, <3>4, <4>4, GotNothingNew DEF SP!StepOf
    <3> QED BY <3>3, <3>4
  <2> QED BY <1>2, <2>1, <2>2, <2>3 DEF SP!Handled
<1> QED BY <1>1, <1>2

(* The end of the request of c is read.                                     *)
LEMMA EndIsTaken ==
  ASSUME Joined, Joined', UNCHANGED onlyClient, NEW q, IsLine(q), 1 \in 1 .. Len(q),
         NoReuse, Addressed(q), NamesOnce(q), SP!Entered, SP!Settles, ~srvStopped,
         NEW c \in Call, 1 \in Of(q, c), q[1].type # "RequestData", SP!Handled(q[1]),
         NEW j \in 1 .. Len(srvCalls'), srvCalls'[j].of = c
  PROVE  Told(srvCalls'[j])
<1>1. /\ Len(srvCalls) \in Nat /\ q[1].of = c /\ Asks(q[1])
      /\ q[1].type \in {"RequestComplete", "RequestError"}
  BY DEF Of, Asks, RequestType, Joined, SP!ServerInv, SP!ServerTyped
<1>2. PICK i : i = activeStreamCalls[q[1].id]
  OBVIOUS
<1>3. CASE i # 0 /\ (SP!Takes(q[1], i) \/ SP!Fails(q[1], i) \/ SP!Left(q[1], i))
  <2>1. i \in 1 .. Len(srvCalls) /\ srvCalls[i].of = c
    BY <1>1, <1>2, <1>3, EntryOf
  <2>2. SP!StepOf(i) /\ srvCalls'[i].req # "open"
    BY <1>1, <1>3 DEF SP!Takes, SP!Fails, SP!Left
  <2>3. j \in 1 .. Len(srvCalls) /\ srvCalls[j].of = c
    BY <2>2 DEF SP!StepOf, SP!SameCall
  <2>4. j = i
    BY <2>1, <2>3, OneExecution
  <2> QED BY <2>2, <2>4 DEF Told
<1>4. CASE SP!Begins(q[1])
  <2>1. \A k \in 1 .. Len(srvCalls) : srvCalls[k].of # c
    BY <1>1, <1>4 DEF SP!Begins, NamesOnce, Named
  <2>2. j = Len(srvCalls) + 1
    BY <1>1, <1>4, <2>1 DEF SP!Begins
  <2>3. CASE srvCalls'[j].kind = "static"
    BY <2>3 DEF SP!Settles, SP!RequestOK, Told
  <2>4. CASE srvCalls'[j].kind = "stream"
    BY <1>1, <1>4, <2>2, <2>4 DEF SP!Begins, Told
  <2>5. srvCalls'[j].kind \in {"static", "stream"}
    <3>1. srvCalls'[j] \in SP!ServerCall
      BY DEF Joined, SP!ServerInv, SP!ServerTyped
    <3> QED BY <3>1 DEF SP!ServerCall
  <2> QED BY <2>3, <2>4, <2>5
<1>5. CASE i = 0 /\ SP!NothingGot
  <2>1. j \in 1 .. Len(srvCalls) /\ srvCalls[j].of = c
    BY <1>5 DEF SP!NothingGot, SP!GetsNothing, SP!SameCall
  <2>2. srvCalls[j].id = q[1].id
    BY <1>1, <2>1 DEF Addressed, Addr
  <2>3. ~SP!Waits(j)
    <3>1. SP!IdsApart
      BY ApartIds
    <3>2. SP!Waits(j) => activeStreamCalls[srvCalls[j].id] = j
      BY <2>1, <3>1 DEF SP!Entered
    <3>3. activeStreamCalls[srvCalls[j].id] = 0
      BY <1>2, <1>5, <2>2
    <3>4. j # 0
      BY <1>1, <2>1
    <3> QED BY <3>2, <3>3, <3>4
  <2>4. srvCalls[j].kind \in {"static", "stream"}
    BY <2>1, CallTyped DEF SP!ServerCall
  <2>5. srvCalls[j].res # "open" \/ srvCalls[j].req # "open"
    BY <2>1, <2>3, <2>4 DEF SP!Waits, SP!ResponseEnded, SP!Entered, SP!RequestOK
  <2>6. Told(srvCalls[j])
    BY <2>5 DEF Told
  <2>7. KnowsOn(j)
    BY <1>5, OthersKnow
  <2> QED BY <2>6, <2>7 DEF KnowsOn
<1> QED BY <1>2, <1>3, <1>4, <1>5 DEF SP!Handled

LEMMA EndServer ==
  ASSUME Joined, Joined', NEW q, NEW p, IsLine(q), IsLine(p)', Addressed(q), NamesOnce(q),
         NoReuse, UnknownMethod = {}, SP!Entered, SP!Settles, ServerMoves(q, p),
         NEW c \in Call, EndReaches(q, c)
  PROVE  EndReaches(p, c)'
<1>1. /\ UNCHANGED onlyClient /\ (CP!RequestEnded(c)' <=> CP!RequestEnded(c))
      /\ stopped' = stopped
  BY ClientStands DEF ServerMoves
<1>2. q \in Seq(ClientMessage) /\ p \in Seq(ClientMessage)
  BY DEF IsLine
<1>3. PICK o : PartOf(p, q, o)
  BY <1>2, TailPart, WholePart DEF ServerMoves
<1>4. /\ \A k \in Of(p, c) : k + o \in Of(q, c) /\ p[k] = q[k + o]
      /\ \A j, k \in Of(p, c) : j < k => j + o < k + o
  BY <1>2, <1>3, PartIn DEF Of
<1>5. EndsLine(p, c)'
  <2>1. EndsLine(p, c)
    BY <1>4 DEF EndReaches, EndsLine
  <2> QED BY <1>1, <2>1 DEF EndsLine, Of
<1> SUFFICES ASSUME ~stopped', ~srvStopped', CP!RequestEnded(c)
             PROVE  \/ \E k \in Of(p, c) : p[k].type # "RequestData"
                    \/ /\ Of(p, c) = {}
                       /\ \A i \in 1 .. Len(srvCalls') : srvCalls'[i].of = c => Told(srvCalls'[i])
  <2>1. EndTold(p, c)' <=> (CP!RequestEnded(c)' =>
             \/ \E k \in Of(p, c) : p[k].type # "RequestData"
             \/ /\ Of(p, c) = {}
                /\ \A i \in 1 .. Len(srvCalls') : srvCalls'[i].of = c => Told(srvCalls'[i]))
    BY DEF EndTold, Of, Told
  <2> QED BY <1>1, <1>5, <2>1 DEF EndReaches
<1>6. ~srvStopped /\ EndTold(q, c)
  <2>1. ~srvStopped
    BY DEF SP!Settles
  <2> QED BY <1>1, <2>1 DEF EndReaches
<1>7. ASSUME \A k \in Of(q, c) : \E j \in Of(p, c) : q[k] = p[j],
             \A i \in 1 .. Len(srvCalls') : srvCalls'[i].of = c => KnowsOn(i)
      PROVE  \/ \E k \in Of(p, c) : p[k].type # "RequestData"
             \/ /\ Of(p, c) = {}
                /\ \A i \in 1 .. Len(srvCalls') : srvCalls'[i].of = c => Told(srvCalls'[i])
  <2>1. CASE \E k \in Of(q, c) : q[k].type # "RequestData"
    BY <1>7, <2>1
  <2>2. CASE Of(q, c) = {} /\ \A i \in 1 .. Len(srvCalls) : srvCalls[i].of = c => Told(srvCalls[i])
    BY <1>4, <1>7, <2>2 DEF KnowsOn
  <2> QED BY <1>6, <2>1, <2>2 DEF EndTold
<1>8. CASE SP!NothingGot /\ p = q
  BY <1>7, <1>8, OthersKnow
<1>9. CASE q # <<>> /\ p = Tail(q) /\ SP!Handled(Head(q))
  <2>1. PartOf(p, q, 1) /\ Head(q) = q[1] /\ 1 \in 1 .. Len(q) /\ Len(p) + 1 = Len(q)
    BY <1>2, <1>9, TailPart, TakeOne
  <2>2. LET i == activeStreamCalls[q[1].id] IN i # 0 => srvCalls[i].of = q[1].of
    BY <2>1, EntryOf
  <2>3. CASE 1 \notin Of(q, c)
    <3>1. \A k \in Of(q, c) : \E j \in Of(p, c) : q[k] = p[j]
      BY <1>2, <2>1, <2>3, RestIn
    <3>2. ~(Asks(q[1]) /\ q[1].of = c)
      BY <2>1, <2>3 DEF Of
    <3>3. \A i \in 1 .. Len(srvCalls') : srvCalls'[i].of = c => KnowsOn(i)
      BY <1>9, <2>1, <2>2, <3>2, OthersKnow
    <3> QED BY <1>7, <3>1, <3>3
  <2>4. CASE 1 \in Of(q, c) /\ q[1].type = "RequestData"
    <3>1. PICK k \in Of(q, c) : q[k].type # "RequestData"
      BY <1>6, <2>4 DEF EndTold
    <3>2. k # 1 /\ k \in 1 .. Len(q)
      BY <2>4, <3>1 DEF Of
    <3>3. k - 1 \in 1 .. Len(p) /\ (k - 1) + 1 = k
      BY <1>2, <2>1, <3>2
    <3>4. p[k - 1] = q[k]
      BY <2>1, <3>3 DEF PartOf
    <3> QED BY <3>1, <3>3, <3>4 DEF Of
  <2>5. CASE 1 \in Of(q, c) /\ q[1].type # "RequestData"
    <3>1. \A i \in 1 .. Len(srvCalls') : srvCalls'[i].of = c => Told(srvCalls'[i])
      BY <1>1, <1>6, <1>9, <2>1, <2>5, EndIsTaken
    <3>2. Of(p, c) = {}
      <4> SUFFICES ASSUME NEW k \in Of(p, c) PROVE FALSE
        OBVIOUS
      <4>1. k + 1 \in Of(q, c) /\ 1 < k + 1
        BY <1>2, <2>1, PartIn DEF Of
      <4> QED BY <2>5, <4>1 DEF EndReaches, EndsLine
    <3> QED BY <3>1, <3>2
  <2> QED BY <2>3, <2>4, <2>5
<1> QED BY <1>8, <1>9 DEF ServerMoves

-----------------------------------------------------------------------------
(* A response message on its way to the client: collected by the server, in *)
(* a batch, or being read.                                                  *)
OnWay(r) ==
  \/ \E k \in 1 .. Len(inbox) : inbox[k] = r
  \/ \E b \in 1 .. Len(s2c) : \E k \in 1 .. Len(s2c[b]) : s2c[b][k] = r
  \/ \E k \in 1 .. Len(srvBuf) : srvBuf[k] = r

(* The response to c has ended at the client, or its end is on its way.     *)
Closing(c) ==
  \/ call[c].res # "open"
  \/ \E r \in ServerMessage : SP!EndsResponse(r) /\ r.of = c /\ OnWay(r)

(* A call whose first request message went is on its way to the server, has *)
(* an execution there or is refused, ...                                    *)
Begun(q, c) ==
  CP!NameSent(c) =>
    \/ \E k \in Of(q, c) : Named(q[k])
    \/ \E i \in 1 .. Len(srvCalls) : srvCalls[i].of = c
    \/ Closing(c)

(* ... and the client is told of the end of each execution's response.      *)
Answered == \A i \in 1 .. Len(srvCalls) : SP!ResponseEnded(i) => Closing(srvCalls[i].of)

Replies(q) == ~stopped /\ ~srvStopped => Answered /\ \A c \in Call : Begun(q, c)

LEMMA AllFlushed ==
  ASSUME NEW s \in Seq(ServerMessage), s2c \in Seq(Seq(ServerMessage)), SP!SrvBuffer!FlushList(s)
  PROVE  /\ \A b \in 1 .. Len(s2c) : b \in 1 .. Len(s2c') /\ s2c'[b] = s2c[b]
         /\ \A k \in 1 .. Len(s) :
              \E b \in 1 .. Len(s2c') : k \in 1 .. Len(s2c'[b]) /\ s2c'[b][k] = s[k]
<1>1. s2c' = IF s = <<>> THEN s2c ELSE Append(s2c, s)
  BY DEF SP!SrvBuffer!FlushList
<1>2. CASE s = <<>>
  BY <1>1, <1>2
<1>3. CASE s # <<>>
  <2>1. /\ \A b \in 1 .. Len(s2c) : b \in 1 .. Len(s2c') /\ s2c'[b] = s2c[b]
        /\ Len(s2c) + 1 \in 1 .. Len(s2c') /\ s2c'[Len(s2c) + 1] = s
    BY <1>1, <1>3, AppendedIn
  <2> QED BY <2>1
<1> QED BY <1>2, <1>3

(* The server loses nothing of what it collected, and adds what it sends.   *)
LEMMA SentIsOnWay ==
  ASSUME Joined, inbox' = inbox, NEW m \in ServerMessage, SP!Send(m)
  PROVE  /\ \A r : OnWay(r) => OnWay(r)'
         /\ ~srvStopped => OnWay(m)'
<1>1. CASE UNCHANGED <<srvBuf, srvTimer, s2c>> /\ srvStopped
  BY <1>1 DEF OnWay
<1>2. CASE ~srvStopped /\ SP!SrvBuffer!Push(m)
  <2>1. PICK s : s = Append(srvBuf, m)
    OBVIOUS
  <2>2. /\ s \in Seq(ServerMessage)
        /\ \A k \in 1 .. Len(srvBuf) : k \in 1 .. Len(s) /\ s[k] = srvBuf[k]
        /\ Len(srvBuf) + 1 \in 1 .. Len(s) /\ s[Len(srvBuf) + 1] = m
    BY <2>1, TypedResponses, AppendedIn, AppendOne
  <2>3. CASE SP!SrvBuffer!FlushList(s)
    <3>1. /\ \A b \in 1 .. Len(s2c) : b \in 1 .. Len(s2c') /\ s2c'[b] = s2c[b]
          /\ \A k \in 1 .. Len(s) :
               \E b \in 1 .. Len(s2c') : k \in 1 .. Len(s2c'[b]) /\ s2c'[b][k] = s[k]
      BY <2>2, <2>3, TypedResponses, AllFlushed
    <3> QED BY <2>2, <3>1, ZenonT(40) DEF OnWay
  <2>4. CASE srvBuf' = s /\ s2c' = s2c
    BY <2>2, <2>4 DEF OnWay
  <2> QED BY <1>2, <2>1, <2>3, <2>4 DEF SP!SrvBuffer!Push
<1> QED BY <1>1, <1>2 DEF SP!Send

LEMMA ServerKeepsOnWay ==
  ASSUME Joined, SP!ServerNext, UNCHANGED onlyClient, NEW r, OnWay(r)
  PROVE  OnWay(r)'
<1>1. SP!ServerSends
  BY As, SP!ServerLine DEF Joined
<1>2. inbox' = inbox
  BY DEF onlyClient
<1>3. CASE SP!NothingSent
  BY <1>2, <1>3 DEF SP!NothingSent, OnWay
<1>4. CASE SP!SrvBuffer!TimerFires
  <2>1. /\ \A b \in 1 .. Len(s2c) : b \in 1 .. Len(s2c') /\ s2c'[b] = s2c[b]
        /\ \A k \in 1 .. Len(srvBuf) :
             \E b \in 1 .. Len(s2c') : k \in 1 .. Len(s2c'[b]) /\ s2c'[b][k] = srvBuf[k]
    BY <1>4, TypedResponses, AllFlushed DEF SP!SrvBuffer!TimerFires
  <2> QED BY <1>2, <2>1 DEF OnWay
<1>5. CASE \E m \in SP!ServerMessage : SP!AddressOf(m) /\ SP!Send(m)
  BY <1>2, <1>5, SentIsOnWay, SameTerms
<1> QED BY <1>1, <1>3, <1>4, <1>5 DEF SP!ServerSends

(* The client reads its messages in turn and loses none.                    *)
LEMMA ClientKeepsOnWay ==
  ASSUME Joined, srvBuf' = srvBuf, CP!Reading, NEW r, OnWay(r)
  PROVE  OnWay(r)' \/ (inbox # <<>> /\ r = Head(inbox) /\ CP!TakesEnd(r))
<1>1. CASE inbox' = inbox /\ s2c' = s2c
  BY <1>1 DEF OnWay
<1>2. CASE inbox # <<>> /\ inbox' = Tail(inbox) /\ s2c' = s2c /\ CP!TakesEnd(Head(inbox))
  <2>1. /\ Len(inbox) \in Nat \ {0} /\ Len(inbox') = Len(inbox) - 1 /\ Head(inbox) = inbox[1]
        /\ \A k \in 1 .. Len(inbox') : inbox'[k] = inbox[k + 1]
    BY <1>2, TypedResponses, TakeOne
  <2>2. ASSUME NEW k \in 1 .. Len(inbox), inbox[k] = r, k # 1 PROVE OnWay(r)'
    <3>1. k - 1 \in 1 .. Len(inbox') /\ (k - 1) + 1 = k
      BY <2>1, <2>2
    <3>2. inbox'[k - 1] = r
      BY <2>1, <2>2, <3>1
    <3> QED BY <3>1, <3>2 DEF OnWay
  <2> QED BY <1>2, <2>1, <2>2 DEF OnWay
<1>3. CASE inbox = <<>> /\ s2c # <<>> /\ inbox' = Head(s2c) /\ s2c' = Tail(s2c)
  <2>1. /\ Len(s2c) \in Nat \ {0} /\ Len(s2c') = Len(s2c) - 1 /\ inbox' = s2c[1]
        /\ \A k \in 1 .. Len(s2c') : s2c'[k] = s2c[k + 1]
    BY <1>3, TypedResponses, TakeOne
  <2>2. ASSUME NEW b \in 1 .. Len(s2c), NEW k \in 1 .. Len(s2c[b]), s2c[b][k] = r PROVE OnWay(r)'
    <3>1. CASE b = 1
      BY <2>1, <2>2, <3>1 DEF OnWay
    <3>2. CASE b # 1
      <4>1. b - 1 \in 1 .. Len(s2c') /\ (b - 1) + 1 = b
        BY <2>1, <3>2
      <4>2. s2c'[b - 1] = s2c[b]
        BY <2>1, <4>1
      <4> QED BY <2>2, <4>1, <4>2 DEF OnWay
    <3> QED BY <3>1, <3>2
  <2>3. ~ \E k \in 1 .. Len(inbox) : inbox[k] = r
    BY <1>3
  <2>4. (\E k \in 1 .. Len(srvBuf) : srvBuf[k] = r) => OnWay(r)'
    BY DEF OnWay
  <2>5. (\E b \in 1 .. Len(s2c) : \E k \in 1 .. Len(s2c[b]) : s2c[b][k] = r) => OnWay(r)'
    BY <2>2
  <2> QED BY <2>3, <2>4, <2>5 DEF OnWay
<1> QED BY <1>1, <1>2, <1>3 DEF CP!Reading

(* A response that is closing stays so: the client ends it as its end is    *)
(* read, since the call holds its id until then.                            *)
LEMMA ClosingClient ==
  ASSUME Joined, Responses, CP!ClientNext, UNCHANGED onlyServer, ~stopped,
         NEW c \in Call, CP!Kept(c), Closing(c)
  PROVE  Closing(c)'
<1>1. CP!Reading /\ srvBuf' = srvBuf
  BY As, CP!ClientDelivers DEF Joined, CP!LineInv, onlyServer
<1>2. CASE call[c].res # "open"
  BY <1>2 DEF CP!Kept, Closing
<1>3. CASE call[c].res = "open"
  <2>1. PICK r \in ServerMessage : SP!EndsResponse(r) /\ r.of = c /\ OnWay(r)
    BY <1>3 DEF Closing
  <2>2. CASE OnWay(r)'
    BY <2>1, <2>2 DEF Closing
  <2>3. CASE inbox # <<>> /\ r = Head(inbox) /\ CP!TakesEnd(r)
    <3>1. Addr(r)
      BY <2>3, TypedResponses, TailPart DEF Responses, AllAddr
    <3>2. CP!Started(c) /\ r.id = call[c].id
      BY <2>1, <3>1, SameTerms DEF Addr
    <3>3. call[c].finalizedStreams < 2
      BY <1>3, <3>2 DEF Joined, CP!LineInv, CP!PassInv, CP!PassOK, CP!CountOK
    <3>4. calls[r.id] = c
      BY <3>2, <3>3 DEF Joined, CP!LineInv, CP!ClientInv, CP!IdsMatch
    <3>5. call'[c].res # "open"
      BY <2>1, <2>3, <3>4 DEF CP!TakesEnd, CP!EndsResponse, SP!EndsResponse
    <3> QED BY <3>5 DEF Closing
  <2> QED BY <1>1, <2>1, <2>2, <2>3, ClientKeepsOnWay
<1> QED BY <1>2, <1>3

LEMMA ClosingServer ==
  ASSUME Joined, SP!ServerNext, UNCHANGED onlyClient, NEW c, Closing(c)
  PROVE  Closing(c)'
<1>1. call' = call
  BY DEF onlyClient
<1>2. CASE call[c].res # "open"
  BY <1>1, <1>2 DEF Closing
<1>3. CASE \E r \in ServerMessage : SP!EndsResponse(r) /\ r.of = c /\ OnWay(r)
  BY <1>3, ServerKeepsOnWay DEF Closing
<1> QED BY <1>2, <1>3 DEF Closing

(* The end of a response that goes closes it.                               *)
LEMMA ClosingBegins ==
  ASSUME Joined, UNCHANGED onlyClient, ~srvStopped, NEW x, SP!EndGoes(x)
  PROVE  \A c : x.of = c => Closing(c)'
<1>1. PICK e \in ServerMessage : SP!EndsResponse(e) /\ e.of = x.of /\ SP!Send(e)
  BY SameTerms DEF SP!EndGoes
<1>2. OnWay(e)'
  BY <1>1, SentIsOnWay DEF onlyClient
<1> QED BY <1>1, <1>2 DEF Closing

LEMMA RepliesClient ==
  ASSUME Joined, Joined', Responses, CP!ClientNext, NEW q, NEW p, IsLine(q), IsLine(p)',
         Addressed(q), ClientMoves(q, p), Replies(q)
  PROVE  Replies(p)'
<1>1. /\ UNCHANGED onlyServer /\ (stopped => stopped')
      /\ \A c \in Call : CP!Kept(c)
  BY DEF ClientMoves
<1> SUFFICES ASSUME ~stopped', ~srvStopped' PROVE Answered' /\ \A c \in Call : Begun(p, c)'
  BY DEF Replies
<1>2. /\ ~stopped /\ Answered /\ \A c \in Call : Begun(q, c)
      /\ srvCalls' = srvCalls /\ srvMicrotasks' = srvMicrotasks
  BY <1>1 DEF Replies, onlyServer
<1>3. \A c \in Call : Closing(c) => Closing(c)'
  BY <1>1, <1>2, ClosingClient
<1>4. Answered'
  <2> SUFFICES ASSUME NEW i \in 1 .. Len(srvCalls), SP!ResponseEnded(i)'
               PROVE  Closing(srvCalls[i].of)'
    BY <1>2 DEF Answered
  <2>1. PICK c : c = srvCalls[i].of
    OBVIOUS
  <2>2. c \in Call
    BY <2>1 DEF Addressed, Addr
  <2>3. SP!ResponseEnded(i)
    BY <1>2 DEF SP!ResponseEnded
  <2>4. Closing(c)'
    BY <1>2, <1>3, <2>1, <2>2, <2>3 DEF Answered
  <2> QED BY <1>2, <2>1, <2>4
<1>5. ASSUME NEW c \in Call PROVE Begun(p, c)'
  <2>1. q \in Seq(ClientMessage) /\ p \in Seq(ClientMessage)
    BY DEF IsLine
  <2>2. ASSUME \A k \in Of(q, c) : k \in Of(p, c) /\ p[k] = q[k], CP!NameSent(c) PROVE Begun(p, c)'
    <3>1. \/ \E k \in Of(q, c) : Named(q[k])
          \/ \E i \in 1 .. Len(srvCalls) : srvCalls[i].of = c
          \/ Closing(c)
      BY <1>2, <2>2 DEF Begun
    <3>2. \/ \E k \in Of(p, c) : Named(p[k])
          \/ \E i \in 1 .. Len(srvCalls) : srvCalls[i].of = c
          \/ Closing(c)'
      BY <1>3, <2>2, <3>1
    <3> QED BY <1>2, <3>2 DEF Begun, Of
  <2>3. ASSUME NEW m \in ClientMessage, p = Append(q, m)
        PROVE  \A k \in Of(q, c) : k \in Of(p, c) /\ p[k] = q[k]
    BY <2>1, <2>3, AppendedIn DEF Of
  <2>4. ASSUME CP!Calm(c), \A k \in Of(q, c) : k \in Of(p, c) /\ p[k] = q[k] PROVE Begun(p, c)'
    <3>1. CP!NameSent(c)' => CP!NameSent(c)
      BY <2>4 DEF CP!Calm
    <3> QED BY <2>2, <2>4, <3>1 DEF Begun
  <2>5. CASE RequestGoes(q, p)
    <3>1. PICK d \in Call, m \in ClientMessage :
            /\ CP!Goes(m, d) /\ \A e \in Call \ {d} : CP!Calm(e)
            /\ p = Append(q, m)
      BY <1>2, <2>5 DEF RequestGoes
    <3>2. \A k \in Of(q, c) : k \in Of(p, c) /\ p[k] = q[k]
      BY <2>3, <3>1
    <3>3. CASE d # c
      BY <2>4, <3>1, <3>2, <3>3
    <3>4. CASE d = c /\ CP!NameSent(c)
      BY <2>2, <3>2, <3>4
    <3>5. CASE d = c /\ ~CP!NameSent(c)
      <4>1. Named(m) /\ Asks(m) /\ m.of = c
        BY <3>1, <3>5, SameTerms DEF CP!Goes, Named, Asks
      <4>2. Len(q) + 1 \in Of(p, c) /\ p[Len(q) + 1] = m
        BY <2>1, <3>1, <4>1, AppendedIn DEF Of
      <4> QED BY <4>1, <4>2 DEF Begun, Of
    <3> QED BY <3>3, <3>4, <3>5
  <2>6. CASE ClientQuiet(q, p)
    <3>1. CP!Calm(c)
      BY <2>6 DEF ClientQuiet
    <3>2. ASSUME NEW d \in Call, call[d].id \in Id, p = Append(q, CP!Unsubscribe(call[d], d))
          PROVE  \A k \in Of(q, c) : k \in Of(p, c) /\ p[k] = q[k]
      <4>1. PICK m : m = CP!Unsubscribe(call[d], d)
        OBVIOUS
      <4>2. m \in ClientMessage
        BY <3>2, <4>1 DEF CP!Unsubscribe, ClientMessage, CP!NoValue
      <4> QED BY <2>3, <3>2, <4>1, <4>2
    <3>3. \A k \in Of(q, c) : k \in Of(p, c) /\ p[k] = q[k]
      BY <2>6, <3>2 DEF ClientQuiet
    <3> QED BY <2>4, <3>1, <3>3
  <2> QED BY <2>5, <2>6 DEF ClientMoves
<1> QED BY <1>4, <1>5

LEMMA RepliesServer ==
  ASSUME Joined, Joined', NEW q, NEW p, IsLine(q), IsLine(p)', Addressed(q),
         NoReuse, UnknownMethod = {}, SP!ServerNext, SP!Settles, ServerMoves(q, p), Replies(q)
  PROVE  Replies(p)'
<1>1. UNCHANGED onlyClient /\ stopped' = stopped
  BY DEF ServerMoves, onlyClient
<1> SUFFICES ASSUME ~stopped', ~srvStopped' PROVE Answered' /\ \A c \in Call : Begun(p, c)'
  BY DEF Replies
<1>2. /\ ~srvStopped /\ Answered /\ \A c \in Call : Begun(q, c)
      /\ Len(srvCalls) \in Nat /\ Len(srvCalls') \in Nat /\ Len(srvCalls) <= Len(srvCalls')
      /\ \A i \in 1 .. Len(srvCalls) : srvCalls'[i].of = srvCalls[i].of
  <2>1. ~srvStopped /\ Len(srvCalls) <= Len(srvCalls')
        /\ \A i \in 1 .. Len(srvCalls) : srvCalls'[i].of = srvCalls[i].of
    BY DEF SP!Settles, SP!Old, SP!SameCall
  <2>2. Len(srvCalls) \in Nat /\ Len(srvCalls') \in Nat
    BY DEF Joined, SP!ServerInv, SP!ServerTyped
  <2> QED BY <1>1, <2>1, <2>2 DEF Replies
<1>3. \A c : Closing(c) => Closing(c)'
  BY <1>1, ClosingServer
<1>4. \A x : SP!EndGoes(x) => \A c : x.of = c => Closing(c)'
  BY <1>1, <1>2, ClosingBegins
<1>5. Answered'
  <2> SUFFICES ASSUME NEW i \in 1 .. Len(srvCalls'), SP!ResponseEnded(i)'
               PROVE  Closing(srvCalls[i].of)'
    BY DEF Answered
  <2>1. PICK c : c = srvCalls'[i].of
    OBVIOUS
  <2>2. (SP!Old(i) /\ SP!ResponseEnded(i)) \/ SP!EndGoes(srvCalls'[i])
    BY DEF SP!Settles, SP!EndIsSent
  <2>3. CASE SP!Old(i) /\ SP!ResponseEnded(i)
    <3>1. i \in 1 .. Len(srvCalls) /\ srvCalls[i].of = c
      BY <2>1, <2>3 DEF SP!Old, SP!SameCall
    <3>2. Closing(c)'
      BY <1>2, <1>3, <2>3, <3>1 DEF Answered
    <3> QED BY <2>1, <3>2
  <2>4. CASE SP!EndGoes(srvCalls'[i])
    <3>1. Closing(c)'
      BY <1>4, <2>1, <2>4
    <3> QED BY <2>1, <3>1
  <2> QED BY <2>2, <2>3, <2>4
<1>6. ASSUME NEW c \in Call PROVE Begun(p, c)'
  <2>1. q \in Seq(ClientMessage) /\ p \in Seq(ClientMessage)
    BY DEF IsLine
  <2>2. CP!NameSent(c)' => CP!NameSent(c)
    BY <1>1 DEF onlyClient, CP!NameSent, CP!RequestEnded, CP!Started
  <2> SUFFICES ASSUME CP!NameSent(c)
               PROVE  \/ \E k \in Of(p, c) : Named(p[k])
                      \/ \E i \in 1 .. Len(srvCalls') : srvCalls'[i].of = c
                      \/ Closing(c)'
    BY <2>2 DEF Begun, Of
  <2>3. \/ \E k \in Of(q, c) : Named(q[k])
        \/ \E i \in 1 .. Len(srvCalls) : srvCalls[i].of = c
        \/ Closing(c)
    BY <1>2 DEF Begun
  <2>4. CASE \E i \in 1 .. Len(srvCalls) : srvCalls[i].of = c
    BY <1>2, <2>4
  <2>5. CASE Closing(c)
    BY <1>3, <2>5
  <2>6. ASSUME NEW k \in Of(q, c), Named(q[k])
        PROVE  \/ \E n \in Of(p, c) : Named(p[n])
               \/ \E i \in 1 .. Len(srvCalls') : srvCalls'[i].of = c
               \/ Closing(c)'
    <3>1. CASE SP!NothingGot /\ p = q
      BY <2>6, <3>1
    <3>2. CASE q # <<>> /\ p = Tail(q) /\ SP!Handled(Head(q))
      <4>1. PartOf(p, q, 1) /\ Head(q) = q[1] /\ 1 \in 1 .. Len(q) /\ Len(p) + 1 = Len(q)
        BY <2>1, <3>2, TailPart, TakeOne
      <4>2. CASE k # 1
        <5>1. k - 1 \in 1 .. Len(p) /\ (k - 1) + 1 = k
          BY <2>1, <2>6, <4>1, <4>2 DEF Of
        <5>2. p[k - 1] = q[k]
          BY <4>1, <5>1 DEF PartOf
        <5> QED BY <2>6, <5>1, <5>2 DEF Of
      <4>3. CASE k = 1
        <5>1. q[1].of = c /\ Asks(q[1])
          BY <2>6, <4>3 DEF Of
        <5>2. PICK i : i = activeStreamCalls[q[1].id]
          OBVIOUS
        <5>3. CASE i # 0
          <6>1. i \in 1 .. Len(srvCalls) /\ srvCalls[i].of = c
            BY <4>1, <5>1, <5>2, <5>3, EntryOf
          <6> QED BY <1>2, <6>1
        <5>4. CASE SP!Begins(q[1])
          <6>1. Len(srvCalls) + 1 \in 1 .. Len(srvCalls') /\ srvCalls'[Len(srvCalls) + 1].of = c
            BY <1>2, <5>1, <5>4 DEF SP!Begins
          <6> QED BY <6>1
        <5>5. CASE i = 0 /\ SP!EndGoes(q[1])
          BY <1>4, <5>1, <5>5
        <5> QED BY <3>2, <4>1, <5>1, <5>2, <5>3, <5>4, <5>5, SameTerms DEF SP!Handled, Asks
      <4> QED BY <4>2, <4>3
    <3> QED BY <3>1, <3>2 DEF ServerMoves
  <2> QED BY <2>3, <2>4, <2>5, <2>6
<1> QED BY <1>5, <1>6

-----------------------------------------------------------------------------
(* The connection as a whole. The messages between the ends form one line,  *)
(* whose parts are the server's inbox, the batches on their way and the     *)
(* client's buffer.                                                         *)
OnLine(q) ==
  /\ IsLine(q) /\ Addressed(q) /\ NamesOnce(q)
  /\ NoReuse /\ UnknownMethod = {} =>
       InOrder(q) /\ Replies(q) /\ \A c \in Call : EndReaches(q, c)

ConnInv ==
  /\ Joined /\ SP!Entered /\ Responses
  /\ NoReuse => NoCrossTalk
  /\ \E q : OnLine(q)

LEMMA ConnInit == Init => ConnInv
<1> SUFFICES ASSUME Init PROVE ConnInv
  OBVIOUS
<1>1. /\ Joined /\ IsLine(<<>>)
      /\ call = [c \in Call |-> CP!IdleCall] /\ srvCalls = <<>>
      /\ user = [c \in Call |-> [k \in CP!Subscriber |-> CP!IdleUser]]
      /\ inbox = <<>> /\ s2c = <<>> /\ srvBuf = <<>>
  BY LineBegins
<1>2. PICK q \in Seq(ClientMessage) : q = <<>> /\ Len(q) = 0 /\ IsLine(q)
  BY <1>1, EmptySeq
<1>3. Len(srvCalls) = 0 /\ DOMAIN srvCalls = {}
  BY <1>1
<1>4. Responses
  <2>1. Len(inbox) = 0 /\ Len(s2c) = 0 /\ Len(srvBuf) = 0
    BY <1>1
  <2> QED BY <2>1 DEF Responses, AllAddr
<1>5. NoCrossTalk
  BY <1>1, SameTerms DEF NoCrossTalk, CP!IdleUser
<1>6. Addressed(q) /\ NamesOnce(q)
  BY <1>2, <1>3 DEF Addressed, NamesOnce, MethodRunsOnce
<1>7. InOrder(q)
  <2> SUFFICES ASSUME NEW c \in Call PROVE QueueOK(q, c) /\ Cover(q, c) /\ Got(q, c)
    BY DEF InOrder
  <2>1. CP!Passed(c) = 0
    BY <1>1 DEF CP!IdleCall, CP!NewObserver, CP!Passed
  <2> QED BY <1>2, <1>3, <2>1 DEF QueueOK, Cover, Got, Of
<1>8. \A c \in Call : ~CP!NameSent(c) /\ ~CP!RequestEnded(c)
  BY <1>1 DEF CP!IdleCall, CP!NewObserver, CP!NameSent, CP!RequestEnded, CP!Started
<1>9. Replies(q)
  BY <1>3, <1>8 DEF Replies, Answered, Begun
<1>10. \A c \in Call : EndReaches(q, c)
  BY <1>2, <1>8 DEF EndReaches, EndsLine, EndTold, Of
<1>11. SP!Entered
  BY As, SameServerInit, SP!NothingEntered DEF Init
<1> QED BY <1>1, <1>2, <1>4, <1>5, <1>6, <1>7, <1>9, <1>10, <1>11 DEF ConnInv, OnLine

LEMMA OnLineMoves ==
  ASSUME Joined, Joined', SP!Entered, SP!Settles, NEW q, OnLine(q), NEW p, IsLine(p)',
         ClientMoves(q, p) \/ ServerMoves(q, p),
         NoReuse /\ UnknownMethod = {} /\ Replies(q) => Replies(p)'
  PROVE  OnLine(p)'
<1>1. IsLine(q) /\ Addressed(q) /\ NamesOnce(q)
  BY DEF OnLine
<1>2. Addressed(p)' /\ NamesOnce(p)'
  BY <1>1, AddressedMoves, NamesClient, NamesServer
<1>3. ASSUME NoReuse', UnknownMethod = {}
      PROVE  InOrder(p)' /\ Replies(p)' /\ \A c \in Call : EndReaches(p, c)'
  <2>1. NoReuse /\ InOrder(q) /\ Replies(q) /\ \A c \in Call : EndReaches(q, c)
    BY <1>3, ReuseStays DEF OnLine
  <2>2. InOrder(p)'
    BY <1>1, <1>3, <2>1, OrderClient, OrderServer
  <2>3. Replies(p)'
    BY <1>3, <2>1
  <2>4. ASSUME NEW c \in Call PROVE EndReaches(p, c)'
    BY <1>1, <1>3, <2>1, EndClient, EndServer
  <2> QED BY <2>2, <2>3, <2>4
<1> QED BY <1>2, <1>3 DEF OnLine

LEMMA ConnStutters ==
  ASSUME ConnInv, UNCHANGED vars
  PROVE  ConnInv'
<1>1. /\ UNCHANGED onlyClient /\ UNCHANGED onlyServer /\ c2s' = c2s /\ s2c' = s2c
  BY DEF vars
<1>0. SP!Settles /\ SP!Entered'
  <2>1. SP!ServerInv /\ SP!Entered
    BY DEF ConnInv, Joined
  <2>2. SP!Settles
    BY <1>1, <2>1, As, SP!NoneSettles DEF onlyServer
  <2> QED BY <2>1, <2>2, As, SP!SettlesKeeps
<1>2. Joined'
  <2>1. /\ c2s' \in Seq(Seq(ClientMessage)) /\ s2c' \in Seq(Seq(ServerMessage))
    BY <1>1, JoinedTyped, TypedResponses DEF ConnInv
  <2>2. CP!LineInv'
    BY <1>1, <2>1, As, SameTerms, CP!OthersLine DEF ConnInv, Joined, onlyClient
  <2>3. SP!ServerInv'
    BY <1>1, <2>1, As, SameTerms, SP!OthersServer DEF ConnInv, Joined, onlyServer
  <2> QED BY <2>2, <2>3 DEF Joined
<1>3. PICK q : OnLine(q)
  BY DEF ConnInv
<1>4. IsLine(q)'
  BY <1>1, <1>3 DEF OnLine, IsLine, onlyClient, onlyServer
<1>5. ServerMoves(q, q)
  <2>1. SP!NothingGot
    BY <1>1 DEF onlyServer, SP!NothingGot, SP!GetsNothing, SP!SameCall, SP!EntriesGo
  <2> QED BY <1>1, <2>1 DEF ServerMoves
<1>6. OnLine(q)'
  <2>1. \A c : Closing(c)' <=> Closing(c)
    BY <1>1 DEF Closing, OnWay, onlyClient, onlyServer
  <2>2. Answered => Answered'
    BY <1>1, <2>1 DEF Answered, SP!ResponseEnded, onlyServer
  <2>3. \A c \in Call : Begun(q, c) => Begun(q, c)'
    BY <1>1, <2>1 DEF Begun, Of, CP!NameSent, CP!RequestEnded, CP!Started, onlyClient, onlyServer
  <2>4. Replies(q) => Replies(q)'
    BY <1>1, <2>2, <2>3 DEF Replies, onlyClient, onlyServer
  <2> QED BY <1>0, <1>2, <1>3, <1>4, <1>5, <2>4, OnLineMoves DEF ConnInv
<1>7. Responses'
  BY <1>1 DEF ConnInv, Responses, AllAddr, Addr, Started, Client!Started, onlyClient, onlyServer
<1>8. NoReuse' => NoCrossTalk'
  BY <1>1 DEF ConnInv, NoReuse, NoCrossTalk, Started, Client!Started, onlyClient
<1> QED BY <1>0, <1>2, <1>6, <1>7, <1>8 DEF ConnInv

LEMMA ConnNext == ConnInv /\ [Next]_vars => ConnInv'
<1> SUFFICES ASSUME ConnInv, [Next]_vars PROVE ConnInv'
  OBVIOUS
<1>1. Joined /\ SP!Entered /\ Responses /\ (NoReuse => NoCrossTalk)
  BY DEF ConnInv
<1>2. PICK q : OnLine(q)
  BY DEF ConnInv
<1>3. IsLine(q) /\ Addressed(q)
  BY <1>2 DEF OnLine
<1>4. Next => Joined'
  BY <1>1, <1>3, LineMoves
<1>5. CASE Next /\ CP!ClientNext /\ UNCHANGED onlyServer
  <2>1. PICK p : IsLine(p)' /\ ClientMoves(q, p)
    BY <1>1, <1>3, <1>5, ClientLineMoves
  <2>0. SP!Settles /\ SP!Entered'
    <3>1. SP!Settles
      BY <1>1, <1>5, As, SP!NoneSettles DEF onlyServer, Joined
    <3> QED BY <1>1, <3>1, As, SP!SettlesKeeps DEF Joined
  <2>2. OnLine(p)'
    <3>1. Replies(q) => Replies(p)'
      BY <1>1, <1>3, <1>4, <1>5, <2>1, RepliesClient
    <3> QED BY <1>1, <1>2, <1>4, <1>5, <2>0, <2>1, <3>1, OnLineMoves
  <2>3. Responses'
    BY <1>1, <1>4, <1>5, <2>1, ResponsesClient
  <2>4. NoReuse' => NoCrossTalk'
    BY <1>1, <1>4, <1>5, <2>1, ReuseStays, CrossTalkClient
  <2> QED BY <1>4, <1>5, <2>0, <2>2, <2>3, <2>4 DEF ConnInv
<1>6. CASE Next /\ SP!ServerNext /\ UNCHANGED onlyClient
  <2>1. PICK p : IsLine(p)' /\ ServerMoves(q, p)
    BY <1>1, <1>3, <1>6, ServerLineMoves
  <2>0. SP!Settles /\ SP!Entered'
    BY <1>1, <1>6, As, SP!ServerSettles DEF Joined
  <2>2. OnLine(p)'
    <3>1. NoReuse /\ UnknownMethod = {} /\ Replies(q) => Replies(p)'
      BY <1>1, <1>3, <1>4, <1>6, <2>0, <2>1, RepliesServer
    <3> QED BY <1>1, <1>2, <1>4, <1>6, <2>0, <2>1, <3>1, OnLineMoves
  <2>3. Responses'
    BY <1>1, <1>3, <1>4, <1>6, ResponsesServer
  <2>4. NoReuse' => NoCrossTalk'
    BY <1>1, <1>6 DEF NoReuse, NoCrossTalk, Started, Client!Started, onlyClient
  <2> QED BY <1>4, <1>6, <2>0, <2>2, <2>3, <2>4 DEF ConnInv
<1>7. CASE UNCHANGED vars
  BY <1>7, ConnStutters
<1> QED BY <1>5, <1>6, <1>7, NextIsOne

LEMMA ConnAlways == Spec => []ConnInv
BY ConnInit, ConnNext, PTL DEF Spec

LEMMA InOrderShows ==
  ASSUME ConnInv, NoReuse, UnknownMethod = {}
  PROVE  RequestsInOrder
<1>1. PICK q : InOrder(q) /\ Addressed(q)
  BY DEF ConnInv, OnLine
<1> SUFFICES ASSUME NEW i \in DOMAIN srvCalls,
                    call[srvCalls[i].of].kind = "stream", srvCalls[i].kind = "stream"
             PROVE  /\ srvCalls[i].got = [k \in 1 .. Len(srvCalls[i].got) |-> k]
                    /\ Len(srvCalls[i].got) <= call[srvCalls[i].of].sent
                    /\ srvCalls[i].req = "completed" /\ ~srvCalls[i].unsubscribed =>
                         /\ call[srvCalls[i].of].req = "completed"
                         /\ Len(srvCalls[i].got) = call[srvCalls[i].of].sent
  BY DEF RequestsInOrder
<1>0. i \in 1 .. Len(srvCalls)
  BY DEF ConnInv, Joined, SP!ServerInv, SP!ServerTyped
<1> DEFINE c == srvCalls[i].of
<1>2. c \in Call
  BY <1>0, <1>1 DEF Addressed, Addr
<1>3. GotOne(q, c, i)
  BY <1>0, <1>1, <1>2 DEF InOrder, Got
<1>4. /\ CP!Passed(c) \in Nat /\ call[c].sent \in Nat /\ CP!Passed(c) <= call[c].sent
      /\ Len(srvCalls[i].got) \in Nat
  BY <1>0, <1>2, Counts, CallTyped DEF ConnInv
<1>5. Len(srvCalls[i].got) <= call[c].sent
  BY <1>3, <1>4 DEF GotOne
<1> QED BY <1>3, <1>5 DEF GotOne

(* When the connection is quiet the line is empty and nothing is on its way *)
(* to the client.                                                           *)
LEMMA QuietLine ==
  ASSUME Joined, Quiet, NEW q, IsLine(q)
  PROVE  /\ \A c : Of(q, c) = {}
         /\ \A r : ~OnWay(r)
         /\ \A c \in Call : ~stopped /\ CP!Started(c) =>
              /\ call[c].req # "open" => CP!RequestEnded(c)
              /\ call[c].sent > 0 => CP!NameSent(c)
<1>1. \A c : Of(q, c) = {}
  <2>1. PICK f : Line(srvInbox, c2s, buf, q, f)
    BY DEF IsLine
  <2>2. /\ Len(c2s) = 0 /\ Len(srvInbox) = 0 /\ Len(buf) = 0
    BY DEF Quiet
  <2>3. f[0] = 0 /\ f[0] + 0 = Len(q)
    BY <2>1, <2>2 DEF Line
  <2>4. Len(q) = 0
    BY <2>3
  <2> QED BY <2>4 DEF Of
<1>2. \A r : ~OnWay(r)
  BY DEF Quiet, OnWay
<1>3. ASSUME NEW c \in Call, ~stopped, CP!Started(c)
      PROVE  /\ call[c].req # "open" => CP!RequestEnded(c)
             /\ call[c].sent > 0 => CP!NameSent(c)
  <2>1. Len(microtasks) = 0
    BY DEF Quiet
  <2>2. CP!PassOK(c)
    BY DEF Joined, CP!LineInv, CP!PassInv
  <2>3. call[c].req # "open" => CP!RequestEnded(c)
    BY <1>3, <2>1, <2>2 DEF CP!PassOK, CP!FinalWaits
  <2>4. CP!Passed(c) \in Nat /\ call[c].sent \in Nat /\ (CP!Passed(c) > 0 => CP!NameSent(c))
    BY Counts
  <2>5. (CP!Passed(c) + 1) .. call[c].sent = {}
    BY <1>3, <2>1, <2>2 DEF CP!PassOK
  <2>6. call[c].sent > 0 => CP!Passed(c) > 0
    BY <2>4, <2>5
  <2> QED BY <2>3, <2>4, <2>6
<1> QED BY <1>1, <1>2, <1>3

LEMMA EndShows ==
  ASSUME ConnInv, NoReuse, UnknownMethod = {}
  PROVE  RequestEndReachesMethod
<1>1. PICK q : IsLine(q) /\ \A c \in Call : EndReaches(q, c)
  BY DEF ConnInv, OnLine
<1> SUFFICES ASSUME Quiet, ~stopped, ~srvStopped, NEW c \in Call, Started(c), call[c].req # "open",
                    NEW i \in Executions(c),
                    srvCalls[i].res = "open", srvCalls[i].got # <<>>
             PROVE  srvCalls[i].req # "open"
  BY DEF RequestEndReachesMethod
<1>2. CP!RequestEnded(c) /\ Of(q, c) = {}
  BY <1>1, QuietLine, SameTerms DEF ConnInv
<1>3. \A j \in 1 .. Len(srvCalls) : srvCalls[j].of = c => Told(srvCalls[j])
  BY <1>1, <1>2 DEF EndReaches, EndTold
<1>4. i \in 1 .. Len(srvCalls) /\ srvCalls[i].of = c
  BY DEF Executions, ConnInv, Joined, SP!ServerInv, SP!ServerTyped
<1> QED BY <1>3, <1>4 DEF Told

LEMMA ReplyShows ==
  ASSUME ConnInv, NoReuse, UnknownMethod = {}
  PROVE  OpenCallsAnswerable
<1>1. PICK q : IsLine(q) /\ Replies(q)
  BY DEF ConnInv, OnLine
<1> SUFFICES ASSUME Quiet, ~stopped, ~srvStopped, NEW c \in Call, Started(c),
                    call[c].res = "open", call[c].sent > 0 \/ call[c].req # "open"
             PROVE  \E i \in Executions(c) : srvCalls[i].res = "open"
  BY DEF OpenCallsAnswerable
<1>2. CP!NameSent(c) /\ Of(q, c) = {} /\ \A r : ~OnWay(r)
  BY <1>1, QuietLine, SameTerms DEF ConnInv, CP!NameSent
<1>3. ~Closing(c)
  BY <1>2 DEF Closing
<1>4. PICK i \in 1 .. Len(srvCalls) : srvCalls[i].of = c
  BY <1>1, <1>2, <1>3 DEF Replies, Begun
<1>5. ~SP!ResponseEnded(i)
  BY <1>1, <1>3, <1>4 DEF Replies, Answered
<1>6. srvCalls[i].res = "open"
  BY <1>5 DEF SP!ResponseEnded, Quiet
<1>7. i \in Executions(c)
  BY <1>4 DEF Executions, ConnInv, Joined, SP!ServerInv, SP!ServerTyped
<1> QED BY <1>6, <1>7

-----------------------------------------------------------------------------
(* However the messages of a call are batched, delayed and interleaved with *)
(* others, the server runs its method at most once: only one message ever   *)
(* carries the method's name, and no execution of the call is there when it *)
(* is read.                                                                 *)
THEOREM MethodsRunOnce == Spec => []MethodRunsOnce
<1>1. ConnInv => MethodRunsOnce
  BY DEF ConnInv, OnLine, NamesOnce
<1> QED BY <1>1, ConnAlways, PTL

(* No subscriber of a call ever gets a value of a response to another call, *)
(* as long as no two calls have had the same id.                            *)
THEOREM NoCallCrossesAnother == Spec => [](NoReuse => NoCrossTalk)
<1>1. ConnInv => (NoReuse => NoCrossTalk)
  BY DEF ConnInv
<1> QED BY <1>1, ConnAlways, PTL

(* A streaming method gets the values of its request in order, from the     *)
(* first and without a gap, and sees the request complete only after the    *)
(* last, as long as no two calls have had the same id and no call names a   *)
(* method the server does not know: onBatch throws at such a message and    *)
(* the rest of its batch, which may hold values of other calls, is lost.    *)
THEOREM RequestsComeInOrder ==
  Spec => [](NoReuse /\ UnknownMethod = {} => RequestsInOrder)
<1>1. ConnInv => (NoReuse /\ UnknownMethod = {} => RequestsInOrder)
  BY InOrderShows
<1> QED BY <1>1, ConnAlways, PTL

(* When all messages and callbacks have been dealt with and neither end has *)
(* stopped, a method that was invoked and whose response is open has been   *)
(* told that its request is over, if it is over at the client: the end of a *)
(* request is never lost on its way, however the server gets the method's   *)
(* name, the values and the end (under the conditions above).               *)
THEOREM RequestEndsReachMethods ==
  Spec => [](NoReuse /\ UnknownMethod = {} => RequestEndReachesMethod)
<1>1. ConnInv => (NoReuse /\ UnknownMethod = {} => RequestEndReachesMethod)
  BY EndShows
<1> QED BY <1>1, ConnAlways, PTL

(* In the same state a call that was asked for at the server and whose      *)
(* response is open at the client still runs at the server: no call hangs   *)
(* because its request was dropped, or the end of its response was.         *)
THEOREM OpenCallsStillRun ==
  Spec => [](NoReuse /\ UnknownMethod = {} => OpenCallsAnswerable)
<1>1. ConnInv => (NoReuse /\ UnknownMethod = {} => OpenCallsAnswerable)
  BY ReplyShows
<1> QED BY <1>1, ConnAlways, PTL
=============================================================================
