------------------------- MODULE RpcPersistentClient -------------------------
(***************************************************************************)
(* RpcPersistentClient: a StreamingRpcClient for each time the persistent  *)
(* channel opens, here named by the number of that channel. Calls are      *)
(* static ones, of one request and one response. The server answers the    *)
(* requests of a connection in any order, by their id.                     *)
(***************************************************************************)
EXTENDS PersistentChannel

CONSTANT Calls          \* what users send, each by call$() or by notify()

VARIABLES
  rpc,            \* this.rpc, 0 for undefined
  attached,       \* the subscription of rpc to message$
  nextId,         \* the id of each client
  buffer,         \* the buffer of each client
  stopped,        \* clients whose stop() ran: onFlush does nothing
  early,          \* calls subscribed to rpc$ before there was a client, in order
  notifications,  \* the subscriptions of notify() to rpc$, which do not end
  call,           \* the client, id and status of each call
  answered        \* positions of `sent` whose response has arrived

clientVars == <<rpc, attached, nextId, buffer, stopped, early, notifications, call, answered>>
vars == <<channelVars, clientVars>>

NoCall == [client |-> 0, id |-> 0, status |-> "idle"]

Init ==
  /\ ChannelInit
  /\ rpc = 0 /\ attached = FALSE
  /\ nextId = [k \in Channels |-> 1]
  /\ buffer = [k \in Channels |-> <<>>]
  /\ stopped = {}
  /\ early = <<>> /\ notifications = {}
  /\ call = [x \in Calls |-> NoCall]
  /\ answered = {}

Request(k, id, x) == [client |-> k, id |-> id, call |-> x]
Notification(k, x) == [client |-> k, id |-> 0, call |-> x]

(* StreamingRpcClient.stop() and disconnect(): the calls are forgotten.     *)
(* Mutant: the buffer is not disabled.                                      *)
DisableNothing(k) == stopped
Disable(k) == stopped \cup ({k} \ {0})

Forgotten(k) ==
  [x \in Calls |-> IF k # 0 /\ call[x].client = k /\ call[x].status = "pending"
                   THEN [call[x] EXCEPT !.status = "forgotten"] ELSE call[x]]

(* Which client is disconnected. Mutant: this.rpc is assigned first.        *)
ReplacedLate(old, new) == new
Replaced(old, new) == old

(* The subscription to open$: a client is made for the connection, the old  *)
(* one disconnected, and rpc$ emits: notify() sends again, the calls that   *)
(* waited are made.                                                         *)
NewClient(k) ==
  LET position(x) == CHOOSE i \in DOMAIN early : early[i] = x
  IN  /\ rpc' = k /\ attached' = TRUE
      /\ stopped' = Disable(Replaced(rpc, k))
      /\ call' = [x \in Calls |->
                    IF x \in ToSet(early)
                    THEN [client |-> k, id |-> position(x), status |-> "pending"]
                    ELSE Forgotten(rpc)[x]]
      /\ nextId' = [nextId EXCEPT ![k] = Len(early) + 1]
      /\ buffer' = [buffer EXCEPT ![k] =
                      SetToSeq({Notification(k, x) : x \in notifications})
                        \o [i \in DOMAIN early |-> Request(k, i, early[i])]]
      /\ early' = <<>>
      /\ UNCHANGED <<notifications, answered>>

Opens(c) ==
  /\ OnOpen(c)
  /\ IF open' /\ ~open THEN NewClient(c) ELSE UNCHANGED clientVars

Closes(c) ==
  /\ OnClose(c)
  /\ attached' = (attached /\ open')
  /\ UNCHANGED <<rpc, nextId, buffer, stopped, early, notifications, call, answered>>

Timers ==
  /\ ReconnectTimer \/ UptimeCheck
  /\ UNCHANGED clientVars

Start ==
  /\ ChannelStart
  /\ UNCHANGED clientVars

Stop ==
  /\ ChannelStop
  /\ attached' = FALSE
  /\ stopped' = Disable(rpc)
  /\ call' = Forgotten(rpc)
  /\ UNCHANGED <<rpc, nextId, buffer, early, notifications, answered>>

Unused(x) == call[x] = NoCall /\ x \notin ToSet(early) /\ x \notin notifications

(* call$() uses the client there is, connected or not.                      *)
Call(x) ==
  /\ Unused(x)
  /\ IF rpc = 0
     THEN early' = Append(early, x) /\ UNCHANGED <<call, nextId, buffer>>
     ELSE /\ call' = [call EXCEPT ![x] = [client |-> rpc, id |-> nextId[rpc], status |-> "pending"]]
          /\ nextId' = [nextId EXCEPT ![rpc] = @ + 1]
          /\ buffer' = [buffer EXCEPT ![rpc] = Append(@, Request(rpc, nextId[rpc], x))]
          /\ UNCHANGED early
  /\ UNCHANGED <<channelVars, rpc, attached, stopped, notifications, answered>>

Notify(x) ==
  /\ Unused(x)
  /\ notifications' = notifications \cup {x}
  /\ buffer' = IF rpc = 0 THEN buffer
               ELSE [buffer EXCEPT ![rpc] = Append(@, Notification(rpc, x))]
  /\ UNCHANGED <<channelVars, rpc, attached, nextId, stopped, early, call, answered>>

(* The timer of a client's buffer; the batch goes to send$().               *)
Flush(k) ==
  /\ buffer[k] # <<>>
  /\ buffer' = [buffer EXCEPT ![k] = <<>>]
  /\ IF k \in stopped THEN UNCHANGED channelVars ELSE SendData(buffer[k])
  /\ UNCHANGED <<rpc, attached, nextId, stopped, early, notifications, call, answered>>

(* Requests on connection c, as <<position of the batch, position in it>>.  *)
RequestAt(p) == sent[p[1]].data[p[2]]
OnConnection(c) ==
  {p \in (DOMAIN sent) \X (1 .. Cardinality(Calls)) :
     sent[p[1]].channel = c /\ p[2] \in DOMAIN sent[p[1]].data /\ RequestAt(p).id # 0}
Unanswered(c) == OnConnection(c) \ answered

(* A response arrives on the open connection. The client of the connection  *)
(* looks the id up among its calls.                                         *)
Response ==
  /\ open
  /\ \E p \in Unanswered(channel) :
       /\ answered' = answered \cup {p}
       /\ call' = [x \in Calls |->
                     IF /\ attached
                        /\ call[x].client = rpc /\ call[x].id = RequestAt(p).id
                        /\ call[x].status = "pending"
                     THEN [call[x] EXCEPT !.status = "settled"] ELSE call[x]]
  /\ UNCHANGED <<channelVars, rpc, attached, nextId, buffer, stopped, early, notifications>>

Next ==
  \/ Start \/ Stop \/ Timers \/ Response
  \/ \E c \in Channels : Opens(c) \/ Closes(c) \/ Flush(c)
  \/ \E x \in Calls : Call(x) \/ Notify(x)

Spec == Init /\ [][Next]_vars

(* The timers of the channel and of the buffers run; servers answer.        *)
FairSpec ==
  /\ Spec
  /\ WF_vars(ReconnectTimer /\ UNCHANGED clientVars)
  /\ WF_vars(Response)
  /\ \A k \in Channels : WF_vars(Flush(k))

-----------------------------------------------------------------------------
(* What a connection carries of earlier clients, batches they flushed while *)
(* there was no connection, comes before all that its own client sends.     *)
StaleFirst ==
  \A i, j \in DOMAIN sent :
    (i < j /\ sent[i].channel = sent[j].channel)
      => Head(sent[i].data).client <= Head(sent[j].data).client

(* A call of the client of the current connection is settled, unless the    *)
(* connection goes first.                                                   *)
CallsSettle ==
  \A x \in Calls :
    (call[x].status = "pending" /\ call[x].client = rpc /\ attached)
      ~> (call[x].status # "pending" \/ ~attached)

(* On a connection, the ids of the calls in flight are different.           *)
IdsUnique ==
  open => \A p, q \in Unanswered(channel) : RequestAt(p).id = RequestAt(q).id => p = q
=============================================================================
