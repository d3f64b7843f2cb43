------------------------------ MODULE StaticRpc ------------------------------
(***************************************************************************)
(* StaticRpcClient over HTTP, as FetchRpcClient sets it up: the messages   *)
(* of TimedQueueDelivery are its calls and notifications, each batch is    *)
(* one POST to a server, RpcServer over Http1Server or RpcApp, which hands *)
(* it to RpcMessageBatchProcessor. Requests run concurrently, but a server *)
(* encodes every reply into one writer: what a batch that fails to encode  *)
(* leaves in it goes out in front of whatever is encoded next.             *)
(***************************************************************************)
EXTENDS TimedQueueDelivery, FiniteSets, SequencesExt

CONSTANTS
  IdLimit,    \* 0xffff
  Clients     \* codecs a client may be set up with, [msg, req, res]

ValueCodecs == {"cbor", "json", "msgpack"}

(* The first id is 1. The binary codec is left out, see the README.         *)
ASSUME IdLimitAssumption == IdLimit \in Nat /\ IdLimit >= 2
ASSUME ClientsAssumption ==
  Clients \subseteq [msg : {"compact", "jsonRpc2"}, req : ValueCodecs, res : ValueCodecs]

Items == 1 .. MaxPushes

(* A call; a call or a notification that validateMethod refuses.            *)
Kinds == {"call", "invalidCall", "notify", "invalidNotify"}

VARIABLES
  codec,          \* of the client
  server,         \* which of the two it is
  kind, id,       \* of each item; the id of a notification is not used
  nextId,         \* StaticRpcClient.id
  calls,          \* the item StaticRpcClient.calls has for each id, 0 if none
  outcome,        \* what the promise of each call came to, by whom
  exchanges,      \* the HTTP requests, in the order of onsend
  writer,         \* what the server's writer holds of batches that failed to encode
  reused          \* history: ids given to a call while another one of them was in flight

clientVars == <<codec, kind, id, nextId, calls, outcome, reused>>
rpcVars == <<clientVars, server, writer, exchanges>>
staticVars == <<vars, rpcVars>>

(* Of which exchange the first octets left are, 0 when none are, and        *)
(* whether what is encoded next completes them to a value.                  *)
NothingLeft == [of |-> 0, readable |-> FALSE]

StaticInit ==
  /\ Init
  /\ codec \in Clients
  /\ server \in {"Http1Server", "RpcApp"}
  /\ writer = NothingLeft
  /\ kind = [n \in Items |-> "none"]
  /\ id = [n \in Items |-> IdLimit]
  /\ nextId = 1
  /\ calls = [i \in 0 .. IdLimit - 1 |-> 0]
  /\ outcome = [n \in Items |-> [what |-> "none", by |-> 0]]
  /\ exchanges = <<>>
  /\ reused = {}

IsCall(n) == kind[n] \in {"call", "invalidCall"}

(* The request that carries an item is over.                                *)
Over(n) ==
  \E e \in DOMAIN exchanges : exchanges[e].phase = "done" /\ n \in ToSet(exchanges[e].items)

InFlight(i) == \E n \in 1 .. pushed : IsCall(n) /\ ~Over(n) /\ id[n] = i

(* call() and notify().                                                     *)
UserPushes ==
  /\ ProducerPushes
  /\ \E k \in Kinds :
       /\ kind' = [kind EXCEPT ![pushed'] = k]
       /\ IF k \in {"call", "invalidCall"}
          THEN /\ id' = [id EXCEPT ![pushed'] = nextId]
               /\ nextId' = (nextId + 1) % IdLimit
               /\ calls' = [calls EXCEPT ![nextId] = pushed']
               /\ outcome' = [outcome EXCEPT ![pushed'] = [what |-> "pending", by |-> 0]]
               /\ reused' = IF InFlight(nextId) THEN reused \cup {nextId} ELSE reused
          ELSE UNCHANGED <<id, nextId, calls, outcome, reused>>
  /\ UNCHANGED <<codec, server, writer, exchanges>>

BufferTimer ==
  /\ TimeoutFlushes
  /\ UNCHANGED rpcVars

(* client.buffer.flush()                                                    *)
UserFlushes ==
  /\ OwnerFlushes
  /\ UNCHANGED rpcVars

(* onsend(): each batch is a request of its own.                            *)
Fetch ==
  /\ TransportTakes
  /\ exchanges' = Append(exchanges,
       [items |-> Head(out), phase |-> "requested", body |-> "none", after |-> 0])
  /\ UNCHANGED <<clientVars, server, writer>>

-----------------------------------------------------------------------------
(* The server.                                                              *)
Replies(e, body, after) ==
  exchanges' = [exchanges EXCEPT ![e].phase = "replied", ![e].body = body, ![e].after = after]

Goes(e, phase) == exchanges' = [exchanges EXCEPT ![e].phase = phase]

(* The Content-Type of FetchRpcClient names a codec for the responses only  *)
(* if it is not that of the requests.                                       *)
ContentType ==
  [protocol |-> IF codec.msg = "jsonRpc2" THEN "json2" ELSE "rx",
   format |-> IF codec.msg = "jsonRpc2" THEN "verbose" ELSE codec.msg,
   request |-> codec.req,
   response |-> IF codec.res = codec.req THEN "" ELSE codec.res]

(* setCodecs(): what the specifier does not name stays what it is.          *)
SetCodecs(specifier, ctx) ==
  [msg |-> CASE specifier.protocol = "json2" -> "jsonRpc2"
             [] specifier.protocol = "rx" /\ specifier.format \in {"compact", "binary"} ->
                  specifier.format
             [] OTHER -> ctx.msg,
   req |-> IF specifier.request \in ValueCodecs THEN specifier.request ELSE ctx.req,
   res |-> IF specifier.response \in ValueCodecs THEN specifier.response
           ELSE IF specifier.request \in ValueCodecs THEN specifier.request ELSE ctx.res]

ServerDefaults == [msg |-> "compact", req |-> "json", res |-> "json"]
ServerCodecs == SetCodecs(ContentType, ServerDefaults)

(* No route, too large a body or one that does not decode: Http1Server      *)
(* answers without a body (`garbled`: nothing decodes it) and RpcServer with*)
(* an error, both past the writer; RpcApp with an error in the value codec  *)
(* of whatever request came last, which resets the writer.                  *)
Http1Refuses(e) ==
  /\ server = "Http1Server" /\ exchanges[e].phase = "requested"
  /\ \E body \in {"garbled", "error"} : Replies(e, body, 0)
  /\ UNCHANGED <<vars, clientVars, server, writer>>

RpcAppRefuses(e) ==
  /\ server = "RpcApp" /\ exchanges[e].phase = "requested"
  /\ \E body \in {"error", "garbled"} : Replies(e, body, 0)
  /\ writer' = NothingLeft
  /\ UNCHANGED <<vars, clientVars, server>>

(* onNotification() throws for a method that validateMethod refuses.        *)
Throws(e) == \E n \in ToSet(exchanges[e].items) : kind[n] = "invalidNotify"

(* onRequest() throws for such a method what is no message.                 *)
NoMessage(e) == \E n \in ToSet(exchanges[e].items) : kind[n] = "invalidCall"

(* encodeBatch() without writer.reset(), and writer.flush(): behind what is *)
(* left in the writer a reply is garbled, or it is read as the responses of *)
(* the batch that left it.                                                  *)
Flushes(e, body) ==
  /\ Replies(e, CASE writer.of = 0 -> body
                  [] writer.of # 0 /\ writer.readable /\ body # "garbled" -> "misread"
                  [] OTHER -> "garbled",
             writer.of)
  /\ writer' = NothingLeft

(* onBatch() starts the messages in order. What onNotification() throws     *)
(* ends the loop: one error of id -1 answers the batch, while the calls     *)
(* that were started by then run on.                                        *)
Process(e) ==
  /\ exchanges[e].phase = "requested"
  /\ \/ Throws(e) /\ Flushes(e, "minusOne")
     \/ ~Throws(e) /\ Goes(e, "processing") /\ writer' = writer
  /\ UNCHANGED <<vars, clientVars, server>>

CallsOf(e) == {n \in ToSet(exchanges[e].items) : IsCall(n)}

(* encodeBatch() of the codecs. What is no message makes the compact codec  *)
(* throw; the JSON-RPC codec writes nothing for it, which spoils the array. *)
CompactEncodes(e) == IF NoMessage(e) THEN {} ELSE {"responses"}
JsonRpc2Encodes(e) == IF NoMessage(e) THEN {"garbled"} ELSE {"responses"}
Encodes(e) == IF ServerCodecs.msg = "jsonRpc2" THEN JsonRpc2Encodes(e) ELSE CompactEncodes(e)

(* A result may fail to encode too. The header of the array and the messages*)
(* before it stay in the writer; in a binary codec one that fails last lacks*)
(* one value. What was left before comes first.                             *)
FailsToEncode(e) ==
  /\ CallsOf(e) # {}
  /\ \E readable \in BOOLEAN :
       /\ readable => /\ ServerCodecs.res # "json" /\ ~NoMessage(e)
                      /\ writer.of = 0 \/ writer.readable
       /\ writer' = [of |-> IF writer.of = 0 THEN e ELSE writer.of, readable |-> readable]

(* All methods of the batch have settled. The error of RpcServer goes past  *)
(* the writer; RpcApp throws up to its router, whose answer resets it.      *)
Http1Replies(e) ==
  /\ server = "Http1Server" /\ exchanges[e].phase = "processing"
  /\ \/ \E body \in Encodes(e) : Flushes(e, body)
     \/ FailsToEncode(e) /\ Replies(e, "error", 0)
  /\ UNCHANGED <<vars, clientVars, server>>

RpcAppReplies(e) ==
  /\ server = "RpcApp" /\ exchanges[e].phase = "processing"
  /\ \/ \E body \in Encodes(e) : Flushes(e, body)
     \/ FailsToEncode(e) /\ Goes(e, "failing")
  /\ UNCHANGED <<vars, clientVars, server>>

RpcAppFails(e) ==
  /\ exchanges[e].phase = "failing"
  /\ \E body \in {"error", "garbled"} : Replies(e, body, 0)
  /\ writer' = NothingLeft
  /\ UNCHANGED <<vars, clientVars, server>>

(* The server uses the writer for something else: a WebSocket's batch and a *)
(* JSON route reset it, a WebSocket's control frame flushes it.             *)
OtherUse ==
  /\ writer # NothingLeft
  /\ writer' = NothingLeft
  /\ UNCHANGED <<vars, clientVars, server, exchanges>>

-----------------------------------------------------------------------------
(* The client again.                                                        *)

(* The call that a response settles: the one of its id. Mutant: call()     *)
(* reads this.id after it has advanced it.                                  *)
AnsweredWithNextId(e, n) == calls[(id[n] + 1) % IdLimit]
Answered(e, n) == calls[id[n]]

IdsOf(e) == {id[n] : n \in CallsOf(e)}

(* .then(): each response resolves or rejects the call of its id.           *)
Respond(e) ==
  outcome' = [m \in Items |->
    IF m \in {Answered(e, n) : n \in CallsOf(e)}
    THEN [what |-> "answered", by |-> CHOOSE n \in CallsOf(e) : Answered(e, n) = m]
    ELSE outcome[m]]

(* The responses are those of the batch left in the writer, with a payload  *)
(* that is another batch's: .then() settles whoever has their ids.          *)
Mislead(e) ==
  outcome' = [m \in Items |->
    IF m \in {calls[i] : i \in IdsOf(exchanges[e].after)} THEN [what |-> "misled", by |-> e]
    ELSE outcome[m]]

(* .catch(): the calls of the batch are rejected. Mutants: all calls are;   *)
(* the error is only logged.                                                *)
RejectEverything(e) == {calls[i] : i \in DOMAIN calls} \ {0}
RejectNothing(e) == {}
Rejected(e) == {calls[i] : i \in IdsOf(e)} \ {0}

RejectBatch(e) ==
  outcome' = [m \in Items |->
    IF m \in Rejected(e) THEN [what |-> "failed", by |-> e] ELSE outcome[m]]

(* .finally(). Mutant: it is left out; what was answered is deleted anyway. *)
ForgetAnswered(e) ==
  [i \in DOMAIN calls |->
     IF i \in IdsOf(e) /\ exchanges[e].body \notin {"minusOne", "misread"} THEN 0 ELSE calls[i]]
Forget(e) == [i \in DOMAIN calls |-> IF i \in IdsOf(e) THEN 0 ELSE calls[i]]

(* decodeBatch() of the codecs. Errors are no arrays; for the JSON-RPC      *)
(* codec an object without an id is a notification, that is no response.    *)
CompactDecodes(body) == body \in {"responses", "misread", "minusOne"}
JsonRpc2Decodes(body) == body \in {"responses", "misread", "minusOne", "error"}
Decodes(body) ==
  /\ ServerCodecs = codec
  /\ IF codec.msg = "jsonRpc2" THEN JsonRpc2Decodes(body) ELSE CompactDecodes(body)

(* .then() deletes the entries it settles, .finally() those of the batch.   *)
Arrives(e) ==
  /\ exchanges[e].phase = "replied" /\ Goes(e, "done")
  /\ \/ /\ ~Decodes(exchanges[e].body)
        /\ RejectBatch(e) /\ calls' = Forget(e)
     \/ /\ Decodes(exchanges[e].body) /\ exchanges[e].body = "responses"
        /\ Respond(e) /\ calls' = Forget(e)
     \/ /\ Decodes(exchanges[e].body) /\ exchanges[e].body = "misread"
        /\ Mislead(e)
        /\ calls' = [i \in DOMAIN calls |->
                       IF i \in IdsOf(exchanges[e].after) THEN 0 ELSE Forget(e)[i]]
     \/ /\ Decodes(exchanges[e].body) /\ exchanges[e].body \notin {"responses", "misread"}
        /\ outcome' = outcome /\ calls' = Forget(e)
  /\ UNCHANGED <<vars, codec, server, writer, kind, id, nextId, reused>>

(* The request cannot be encoded or sent, or the connection breaks, and the *)
(* server sees that nobody waits for the answer.                            *)
Breaks(e) ==
  /\ exchanges[e].phase \in {"requested", "processing", "failing", "replied"}
  /\ exchanges' = [exchanges EXCEPT ![e].phase = "done", ![e].body = "failed"]
  /\ RejectBatch(e)
  /\ calls' = Forget(e)
  /\ UNCHANGED <<vars, codec, server, writer, kind, id, nextId, reused>>

StaticNext ==
  \/ UserPushes \/ UserFlushes \/ BufferTimer \/ Fetch \/ OtherUse
  \/ \E e \in DOMAIN exchanges :
       \/ Http1Refuses(e) \/ RpcAppRefuses(e) \/ Process(e)
       \/ Http1Replies(e) \/ RpcAppReplies(e) \/ RpcAppFails(e)
       \/ Arrives(e) \/ Breaks(e)

StaticSpec == StaticInit /\ [][StaticNext]_staticVars

Proceeds(e) ==
  Process(e) \/ Http1Replies(e) \/ RpcAppReplies(e) \/ RpcAppFails(e) \/ Arrives(e)

(* Timers and onsend run; each request is answered or breaks. Methods       *)
(* return: a batch waits for all of its calls.                              *)
StaticFairSpec ==
  /\ StaticSpec
  /\ WF_staticVars(BufferTimer)
  /\ WF_staticVars(Fetch)
  /\ \A e \in 1 .. MaxPushes : WF_staticVars(e \in DOMAIN exchanges /\ Proceeds(e))

-----------------------------------------------------------------------------
Settled(n) == outcome[n].what \in {"answered", "misled", "failed"}

(* A call that the server answered got the result of its own method, as long *)
(* as its id was not given again while it was in flight: neither concurrent *)
(* requests nor notifications in the batch mix answers up. One that got what*)
(* is no answer was in a batch that failed to encode, unless ids wrapped.   *)
OwnAnswer ==
  \A n \in Items :
    /\ (outcome[n].what = "answered" /\ id[n] \notin reused) => outcome[n].by = n
    /\ (outcome[n].what = "misled" /\ \A m \in Items \ {n} : id[m] # id[n])
         => n \in CallsOf(exchanges[outcome[n].by].after)

(* A call is rejected only when the request that carried it was not answered*)
(* with its responses: not for the failure of another batch, nor because the*)
(* two ends chose different codecs. A batch that fails to encode spoils at  *)
(* most one reply, that of no batch which failed itself.                    *)
FailureContained ==
  /\ \A n \in Items :
       (outcome[n].what = "failed" /\ id[n] \notin reused)
         => n \in CallsOf(outcome[n].by) /\ exchanges[outcome[n].by].body # "responses"
  /\ \A e, f \in DOMAIN exchanges : LET g == exchanges[e].after IN g # 0 =>
       /\ exchanges[f].after = g => f = e
       /\ exchanges[g].after = 0
       /\ exchanges[g].body \in {"none", "error", "garbled", "failed"}

(* calls holds nothing of a request that is over, however it ended.         *)
NothingKept ==
  \A e \in DOMAIN exchanges, i \in DOMAIN calls :
    exchanges[e].phase = "done" => calls[i] \notin ToSet(exchanges[e].items)

(* A call settles, whatever happens to the request, unless its batch has a  *)
(* notification that is refused, or the reply is read as another batch's.   *)
(* (JSON-RPC loses the calls of a failed request. A call stays one: this is *)
(* a leads-to, in a form that is quick to check.)                           *)
CallsSettle ==
  \A n \in Items : []<>(
    (IsCall(n) /\ codec.msg = "compact") =>
      \/ Settled(n)
      \/ id[n] \in reused
      \/ \E e \in DOMAIN exchanges :
           /\ n \in ToSet(exchanges[e].items)
           /\ \/ exchanges[e].body = "misread"
              \/ \E m \in ToSet(exchanges[e].items) : kind[m] = "invalidNotify")
=============================================================================
