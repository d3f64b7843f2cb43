# Verification of reactive-rpc

TLA+ models, TLC runs and TLAPS proofs for the `reactive-rpc` library and its
demo server. Paths below are relative to the repository's `src/` directory.

## 1. Inventory

| component | state it keeps | operations | talks to |
|---|---|---|---|
| `TimedQueue` (`common/util/TimedQueue.ts`) | list, timer | push, flush, timeout | its owner's `onFlush` |
| complete observer (`common/util/subscribeCompleteObserver.ts`) | two counters, two flags, the pending microtasks | next, error, complete | a source observable, the microtask queue, the owner's three callbacks |
| `StreamingRpcClient` (`common/rpc/client/`) | map id -> call, next id, the queue; per call two subjects and a count of finished streams | call$, call, notify, onMessages, stop; the users' subscribe and unsubscribe | users, transport |
| `RpcMessageStreamProcessor` (`common/rpc/`) | map id -> active streaming call, the queue | onMessages, stop | transport, `RpcCaller` |
| `RpcCaller` (`common/rpc/caller/`), `BufferSubject` | per call: request subject, pre-call buffer, error and stop subjects | call, notification, createCall | the application's methods |
| `StaticRpcClient`, `RpcMessageBatchProcessor` | map id -> promise, the queue; none | call, notify, flush; onBatch | an HTTP request per batch |
| `PersistentChannel`, `RpcPersistentClient` (`common/channel/`, `common/rpc/`) | active, open, channel, retries; current client | start, stop, send$, reconnect; call$, notify | WebSocket channel, `StreamingRpcClient` |
| `WsServerConnection`, `WsFrameDecoder`, `WsFrameEncoder` (`server/ws/`) | closed, fragments, current header, write buffer | socket data, close, error; write, close | a socket, the RPC server |
| `RpcServer`, `RpcApp`, HTTP servers (`server/`) | one stream processor per connection | enableWsRpc, enableHttpRpc ... | sockets, codecs, processors |
| message codecs (`common/codec/`) | none | encode, decode | values |
| `Mutex` (`util/Mutex.ts`) | queue of waiting tasks per key | acquire | `LevelStore` |
| `BlocksServices`, `MemoryStore`, `LevelStore` (`__demos__/json-crdt-server/services/blocks`) | blocks: start snapshot, latest snapshot, history of batches | create, edit, pull, scan, remove, compact, gc | store, `PubsubService` |
| `PubsubService`, `PresenceService` | observers per channel; rooms of entries | listen$, publish; update, remove, listen$ | subscribers |

What is hard here: everything is single-threaded, but almost nothing is atomic.
Values of a stream travel in microtasks of their own, batches wait for a timer or
a limit, either end may stop at any point, a user may leave at any point, ids are
reused, and one call's end is announced from up to five places. In the demo
services every store operation is an `await`, so requests of several clients
interleave between a check and the update that relies on it.

What makes each component correct:

- `TimedQueue`: nothing is lost, repeated, reordered or left without a timer.
- complete observer: values in order; the final callback once, last and with the
  right outcome; an end is never swallowed.
- `StreamingRpcClient`: an id belongs to one call until both of its streams have
  ended; no message after a call's last; the server hears of the subscriptions that
  end before its response does.
- `RpcMessageStreamProcessor`: no entry outlives its call; a response ends once;
  a method runs once per call.
- together: what the user hears is what the method said, and the end arrives.
- `RpcCaller`: the method is invoked once and sees every request value once.
- static calls: every promise settles, with its own answer; what fails, fails alone,
  as far as a writer that all replies share allows it.
- `PersistentChannel`: while active it keeps trying; while stopped it does not; one
  channel at a time, and `open$` tells its state.
- `WsServerConnection`: messages arrive whole whatever the chunks; what it writes is
  whole frames, and nothing after its close frame.
- `Mutex`: one task per key; whoever waits gets its turn.
- block store: the latest snapshot is the start snapshot plus the history; an
  accepted edit is never lost; a client that pulls catches up.
- pub/sub, presence: an observer hears every message published while it listens.

## 2. Modules

| module | models |
|---|---|
| `TimedQueue` | the queue as operators on a list and a timer flag, used by every sender |
| `TimedQueueDelivery` | one queue with a producer, a clock and its owner's `flush()` |
| `CompleteObserver` | the counters and flags of the observer as operators, used by client and server |
| `CompleteObserverStream` | one observer with its source and its microtask queue |
| `StreamReplay` | abstract: a stream is replayed in order, then its end |
| `RpcMessages` | kinds of messages, ids |
| `StreamingRpcClient` | the client with its users |
| `OpenStreamingRpcClient` | the client against a server that may send anything |
| `RpcMessageStreamProcessor` | the server end with its methods |
| `OpenStreamProcessor` | the server end against a client that may send anything |
| `StreamingRpc` | both ends joined by two ordered channels of batches |
| `RpcCallPromise` | abstract: what one call owes to its user |
| `CreateCall` | `RpcCaller.createCall` of a streaming method with its `BufferSubject` |
| `StaticRpc` | `StaticRpcClient` and its codecs over HTTP, with `RpcMessageBatchProcessor` behind `RpcServer` or `RpcApp`; extends `TimedQueueDelivery` |
| `PersistentChannel` | channels, reconnection, start, stop and `send$` as operators |
| `RpcPersistentClient` | a client for each connection of the persistent channel |
| `WsFrames` | `WsFrameEncoder` and `WsFrameDecoder` as functions on octets |
| `WsServerConnection` | a server connection with its peer, its write buffer and the handlers of `enableWsRpc` |
| `MemoryStore` | one block of the store as operators |
| `BlocksServices` | concurrent requests for one block of a `MemoryStore`, interleaved at every await |
| `Mutex` | the queue of a key as operators |
| `LevelStore` | concurrent requests for blocks of a `LevelStore`, with `Mutex`, `gc()` and the events of `PubsubService` |
| `MC...` | instances for TLC |
| `...Proof` | theorems about the module of the name; `CallStreamsProof` about `CompleteObserverStream` and `CreateCall` |

### How the models correspond to the code

*Event loops.* Client and server are separate processes. In each, a handler runs
to its end (one action), then the microtasks in order, then the next message,
timer or user action. A microtask is an element of `microtasks` (`srvMicrotasks`)
and names the observer and what it carries. `ClientOnMessage` handles one message
of a batch; the rest waits in `inbox`, before any microtask, as the loop in
`onMessages` does.

*Observables.* A request source is the user's: `SourceNext`, `SourceComplete`,
`SourceError` are what `data.subscribe(req$)` hears. `res$` is a subject with its
state in `call[c].res`; its subscribers are `user[c][k]`, in the order in which they
came, each of which listens to all values or to the first (`firstValueFrom` in
`call`). Subscribing late misses values, as with the subject in the code, and
subscribing again is a further subscriber. When one leaves, its teardown completes
`res$` (state `left`) and with it everybody else: the others are told one by one
(`SubscriberTold`), each with a teardown of its own, before anything but user code
runs (`EveryoneTold`). A value is handed to the subscribers in turn, up to the one who
leaves with it (`HandOut`).

*Ids.* `Id == 1 .. MaxId - 1` with `MaxId` for the code's `0xffff`: the counter wraps
from the last id to the first, and ids that are taken are skipped (`Successor`,
`FirstFree`). With every id taken the code recurses without end; the model has no
such step.

*Messages.* A message carries its type, id, a value (a number: the position in its
stream, 0 for no value) and, for the properties only, the call and the execution
it came from (`of`, `by`), which no action of the client or the server reads.

*Buffers.* `buf` and `bufTimer` are the `TimedQueue` of the client, `srvBuf` and
`srvTimer` the server's; `c2s` and `s2c` are the ordered channels of batches.

*Stop.* `Stop` and `ServerStop` are `stop()` of the two ends.

*createCall.* One action per thing that can happen to the call: a request value
(valid, invalid, one too many), the end of the requests, the subscription to the
response, the pre-call check's answer, the flush microtask, the method's end,
`stop$`. `Invoke` is the subscription of the method to `requestBuffered$`: replay,
then the end if there was one. `RpcMessageStreamProcessor` uses the outcome only
(`Invoked`, `MethodFails`); `CreateCall` says why that outcome is right.

*Blocks.* A request is a process; `pc[t]` names the await it is at and `frame[t]`
what it keeps across it. A step runs from the resumption of one await to the next.
A document is the set of patches applied to it (the CRDT makes order and
repetition irrelevant). `objects` are the `MemoryBlock`s, by reference as in
JavaScript: `edit()` reads `get.block.snapshot` when it resumes, which by then may
have been written in place. `shared` records that `create()` passed one object as
both snapshots. `compact()` runs in the background of the edit that started it.

*Static calls.* An item is a message of the queue; an exchange is one POST, with the
phase it is in and the class of its response body: what the server encoded, an error
document, the single error of id -1, or something nothing decodes. `ContentType` and
`SetCodecs` compute which codecs the two ends use from what the client was set up
with. `Process` is `onBatch` up to its `Promise.all`; `Http1Replies` and
`RpcAppReplies` come when all methods have settled. `Arrives` and `Breaks` are the
three callbacks of the client's promise. All replies of a server are encoded into one
`writer`, which `encodeBatch` does not reset: a batch that fails to encode
(`FailsToEncode`) leaves octets there, and the next reply that is flushed has them in
front (`Flushes`). Behind them it is garbled, or, if the codec is binary and the batch
lacked just one value, it is read as the responses of the batch that failed
(`misread`). Errors of `Http1Server` go past the writer, those of `RpcApp` reset it, and
so does other use of it (`OtherUse`: WebSockets, other routes). The server has one
client here; what the requests of other clients leave in the writer comes on top in
the code, and their octets spoil a reply in the same way.

*Persistent channel.* Channels are numbered; whatever follows `channel$` through
`switchMap` follows the last one made. `checks` counts the running `minUptime`
delays, which look at the channel there is when they end. A client has the number of
the channel it was made for; `Opens` is `open$` and the whole constructor callback
behind it (new client, old one disconnected, `rpc$`). Calls have one request and one
response; the server answers the requests of a connection in any order.

*WebSocket.* Octets have one bit (lengths, masks, payload) or a few (the two first
octets of a header), the widths of the header's fields are those of the code: a
length is inline, two octets or eight, a mask has four. One iteration of the loop in
`handleData` is a step (`FrameData`, `FrameHeader`); the loop runs to its end before
anything else (`handling`). A header is read from the reader with all its side
effects: what `readFrameHeader` has consumed when it returns undefined is gone.
Chunks end anywhere; `cut` remembers the first frame that one ended in the header of,
or in, if it is a control frame. Frames are encoded into the `writer` of the server, in
which a message that fails to encode leaves octets (`Leftover`): `close()` and pongs
flush them in front of their frame, the next message resets the writer, and other
connections and requests do either (`OthersWrite`).

*LevelStore.* `pc[t]` is the await of a task, and a step holds at most one
operation of the key-value store, which is atomic. A task that waits for a lock is in
`queue`; `Release` passes the lock on. `Listen`, `Leave` and `Deliver` are the three
moments of `PubsubService`: subscription, its teardown, and the `setImmediate`
callback of a `publish()`, which finds whoever listens by then. `follow` is a client
that listens and then pulls. `touch` is the time under `u!id!` that `gc()` sorts by.

## 3. Runs

| run | shows | bounds |
|---|---|---|
| `complete_observer` | refinement of `StreamReplay` (order, single end, nothing after it), the end is reported | six values: the counters are only compared with each other, two or three values already show every order |
| `client_any_server` | the client owes its invariants to nobody | a streaming and a static call for a single id, so that the second one has to wait for it or finds it free again; two subscribers to the streaming call, so that one can leave before, after or through the other; two request values, limit 1, all batches of one or two messages |
| `server_any_client` | the same of the server | one id used by two calls in turn, streaming, static and unknown methods, limit 2, two response values, all batches of one or two messages |
| `one_call` | client, network and server implement `RpcCallPromise`; the end reaches the user | one call with one subscriber (several are in the two runs around it), two values each way, client limit 2, server limit 1; either end may stop |
| `two_calls` | no answer goes to another call; a method runs once per call | a streaming call with two subscribers and a static one, one value each way, two ids, unbuffered |
| `create_call` | the method hears every request and the end; failures end the response | buffer of two, four values: below, at and past the limit, before and after the flush |
| `blocks` | no edit is lost, history replays, a pull catches up | five requests of any kind, history of two batches, pull window of one: one compaction with readers and writers around it |
| `static_rpc` | the queue loses nothing; each call hears of its own method, or fails with its own request; a failed encode spoils one reply at most; calls settle and nothing is kept | three items, limit two: a full batch and one by the timer, in flight together; two ids, so that the third call gets the id of the first; a compact client with binary responses and a JSON-RPC one; either server |
| `channel` | one channel at a time, its state known, replaced when it closes; calls settle on a connection that stays | three channels (a reconnection, and one after a restart), two users |
| `ws` | messages arrive whole, in order, all; frames leave whole and in order, unless the connection closes | ten scripts of up to four frames: each length form, fragments, control frames between them, oversized and closing frames; chunks that end at any octet; two sends by the server at any time, a writer that others use at any time |
| `level_store` | locks exclude and are passed on; no edit lost, history replays, pulls catch up; who listens and then pulls misses nothing | four requests of any kind for two blocks, history of one batch, compaction at the second |
| `id_reuse` | (violated) ids in flight on a connection are unique | as `channel` |

Bounds are named constants: `MaxPushes`, `MaxEmitted`, `MaxRequestValues`,
`MaxResponseValues`, `MaxValues` and `MaxSends` cap streams; `MaxSubscribers` caps the
subscriptions to a call of `SharedCall`, other calls have one; `MaxChannels` and
`MaxTime` cap reconnections and the clock; `MaxCalls`, `MaxRequests` and `MaxResponses` cap
what the unconstrained peer does; `PromptServer` and `PromptClient` (CONSTRAINTs)
let a peer that ignores what it receives take it at once. In `blocks` and
`level_store`, `CompactAt` is where `historyCompactionDecision` agrees: once per
instance of `blocks`, so that two compactions do not overlap. (The default policy
agrees every 100 batches, but also to every push of more than 250 bytes; what
overlapping does is said below.) Requests interleave at every await; over
`MemoryStore` each await is one microtask and fewer orders are possible than the
model allows. Deadlock is checked in `level_store`, where only finished tasks stop;
the other systems may stop when their users and bounds do.

The type invariants (`TypeOK`) of the queue, the observer, both ends of the streaming
protocol, `createCall` and both stores are theorems; those of the other modules document
the variables and can be added to a run's INVARIANTS.

`BlocksServices` names one exception in `PullCatchesUp`: a pull that has decided to
scan may be overtaken by a compaction (`Overtaken`). That takes
`historyPerBlock - pullWindow` edits between two awaits of one pull, 9,900 with the
default options. `Undisturbed` leaves out blocks that were removed, and blocks
created empty once they have been compacted (see below). `LevelStore` leaves out
blocks that were removed while a request held what it had read of them, or while a
compaction was due (`crossed`), and for pulls blocks that were removed.

### Disagreements between the code and what it says

`id_reuse` is a run that TLC must find violated, quoted under `findings` in
`PROJECT.json`: a batch that a client flushed while the connection was down goes out
on the next connection, whose new client counts its ids from 1 again.

Others, met while modelling, that have no run of their own. Calls and streams:

- A user who unsubscribes before the first request value is sent leaves the request
  source running: its first value starts the call at the server, after its
  cancellation, and the server keeps it active.
- The end of a response is still sent after its client has unsubscribed, which the
  test "does not send subscription complete message from server when client cancels
  subscription" rules out for the order it tries.
- A request stream that completes without any value never completes at the server's
  method (`RequestEndReachesMethod` asks for a first value).
- `StreamingRpcClient.stop()` never ends the responses: a listener waits for ever.
- A subscriber who leaves completes `res$` for all the others, as if the response had
  ended, and each of them sends a Response Unsubscribe of its own; if it leaves from
  within a value, those behind it do not get that value, though it may be the last.
  Whoever subscribes to a response that a subscriber has closed is completed at once
  and sends one more, with an id that another call may have by then.
  `UnsubscribesMatchLeavers` states what is so: one message for each subscription that
  the server did not end.
- The client frees an id when its user has unsubscribed, while the cancelled call's
  answer may still be in flight. After 65,534 further calls the id comes round and
  the answer goes to the new call; `two_calls` leaves an unused id to go to.
- Messages in the server's queue when `stop()` is called are still sent by its timer.
- `createCall` fails with an overflow when a burst arrives between the invocation of
  the method and the microtask that flushes the buffer, after the pre-call check;
  and a request stream that completes without a value leaves the response open (the
  "inactivity timeout" of the comment does not exist).

Static calls over HTTP:

- One notification that `validateMethod` refuses makes `onBatch` throw: the calls of
  its batch run or not, depending on their place, and none is ever answered, as the
  reply has the id -1.
- One call that is refused that way makes the whole batch fail to encode.
- A batch that fails to encode leaves octets in the writer, and the next reply, of
  whatever request, has them in front: its calls are rejected, or those of the failed
  batch settle with what is not an answer to them (`misled`) and its own never settle.
- With the JSON-RPC codec an error document decodes as a notification: the calls of
  a request the server refused never settle. `FetchRpcClient` does not look at the
  HTTP status.
- Ids come round after 65,535 calls, without asking whether the id is still in use.
- `RpcApp` encodes errors in the value codec of whatever request came last.

Persistent channel:

- `stop()` completes the chain that reconnects, although the documentation of
  `active$` (channel.ts:201-204) promises "it will attempt to always keep an open
  channel connected" for whenever the service is active: after a second `start()` the
  first close is the last.
- The `minUptime` delay counts from the making of a channel, not from its opening, and
  resets `retries` for whatever channel is open when it ends.
- Static calls of a client that was replaced or stopped never settle. While there is no
  connection calls go to the client of the last one.
- `notify()` stays subscribed to `rpc$`: each reconnection sends the notification again.

WebSocket connection:

- The decoder takes the first octets of a header before it knows that the rest has
  arrived: a chunk that ends within a header, or within the payload of a ping, loses
  them, and what follows is read at the wrong place: messages are lost or made of the
  wrong octets. `ws` has all these cuts; `MessagesIntact` and `AllDelivered` promise
  the messages that are complete before the frame that was cut (`Expected`).
- When a message cannot be encoded, `send` closes the connection, and the octets that
  were encoded by then go out in front of the close frame; a failed reply to some HTTP
  request leaves octets in front of a pong. `FramesWhole` says that they lie between
  frames; the peer cannot know that and reads them as frames.
- Messages behind a close frame in the same chunk are still delivered (`late`), and
  `onClose()` may run more than once.
- In a message of three fragments or more the middle ones replace the header of the
  first, and a text message is reported as binary. A CONTINUE frame that continues
  nothing is taken for a message.
- `close()` overtakes the frames in the write buffer, which are then dropped.

Block service and stores:

- Two concurrent `upd` requests with `create` for a missing block: one is refused
  with BLOCK_EXISTS.
- Two overlapping compactions of a block each splice the batches they counted off
  the front of the same array: `HistoryReplays` fails in `blocks` with
  `CompactAt = {3, 4}`.
- `BlocksServices.scan` with a negative limit asks for `min > max` and finds nothing.
- A block of `MemoryStore` that was created empty has one object as start and latest
  snapshot: its first compaction moves the latest snapshot back.
- `LevelStore`: an edit that read a block before it was removed and created again
  lands on the new document when the sequence numbers agree; a compaction that
  crosses a removal leaves a start snapshot without a block, or one ahead of the block
  that was created since; `getSnapshot()` reads the
  start and the batches without the lock of `compact()` and returns a gap when it runs
  in between; `seq()` knows nothing of a block that was created empty, and finds the
  keys of other blocks when ids differ in length; `removeAccessedBefore()` walks keys
  no block has, and would keep the blocks it should remove; `removeOldest()` takes
  blocks written in the same millisecond for one.
- `create()` without a batch announces the block before the store has it, also when
  it refuses; blocks that `gc()` removes are not announced.
- An observer that unsubscribes from within its own callback makes `publish()` skip the
  next one.

### Fairness

`FairSpec` of `StreamingRpc` asks weak fairness of `ClientCallback` and
`ServerCallback`: microtasks, deliveries and timers of a running process happen.
Nothing is asked of users, methods or of `stop()`. `CompleteObserverStream` asks it of
the microtask queue; `WsServerConnection` of the `setImmediate` callback and of the loop
that handles a chunk; `RpcPersistentClient` of the reconnection delay and the buffers'
timers. Where a call has to settle, the other side must answer: `RpcPersistentClient`
asks for responses while a connection stays, `StaticRpc` that each request is processed,
its methods return and its response arrives, unless it breaks.

## 4. Proofs

Each module `...Proof` extends the module it is about. The theorems hold for every
value of the constants that satisfies the assumptions the modules state about them;
TLC evaluates these assumptions in the runs. They are: limits of at least one, at least
one id (two for static calls, whose first id is 1), bounds that are natural numbers,
special values (`NoCall`, `NoSnapshot`) that are none of the regular ones, the kinds of
messages and requests there are, and that clients use the compact or the JSON-RPC
codec.

The proofs have one shape. An inductive invariant, stronger than the property, is a
conjunction of named parts; a lemma per action, or per operator that several actions
share, shows that the part survives; the theorem follows. What strengthens each
property, and why it is needed:

`StaticRpcProof`. First the queue alone (`TypeOK`, `NothingLost`, `NoStrandedItem`,
`BatchesBounded`, inductive together). Every step of the client is a step of the queue
or leaves it alone (`ClientUsesQueue`), so that all of it holds of the client's queue.
Then `OwnAnswer`, `FailureContained` and `NothingKept`, with `StaticInv`: an item is in one
batch only, queued, handed over or sent (`BatchesApart`, which needs that the queue
repeats nothing); an entry of `calls` belongs to a call and carries its id
(`EntriesRight`); two calls in flight have different ids, unless one was given again
(`IdsApart`). So an answer finds the call it is for, and a request that fails finds no
other. `WriterInv` says of the shared writer that what is left in it, and what has spoilt
a reply, comes from a batch that failed to encode, whose own reply was not spoilt, and
that no two replies are behind the same one; `MisledById`, that a call which got what is
no answer has the id of a call of that batch. `FailureContained` also needs that the
server derives the client's codecs from the Content-Type (`CodecsAgree`): no request
fails because its responses do not decode.

`CallStreamsProof`, first of `CompleteObserverStream`: its invariants and that it
implements `StreamReplay`. The inductive invariant is that the counters describe the
microtask queue (`QueueMatchesCounters`): the waiting values are the tail of the stream
in order, with at most one final microtask, last.

`StreamingRpcClientProof`, for a server that sends anything: `TypeOK`, `IdsOccupied`,
`UnsubscribesMatchLeavers` and `NoRequestAfterItsEnd`, for any number of subscribers.
`IdsOccupied` is not inductive; the inductive invariant is
`ClientInv == TypeOK /\ CallsStarted /\ IdsMatch /\ TasksMatch /\ ListenersOpen`:
a call that was not started is untouched, and a started one has an id; the map's
entries and the calls' own ids name each other while fewer than two streams are
finished; microtasks belong to started calls and a waiting value is among the last
`obs.tasks` of its stream, so that the observer's counter cannot run below zero; who
listens, listens to a call that was made; a response that the server ended is closed for
good, and one that completed or failed was ended by the server (`ListenersOpen`). `NoRequestAfterItsEnd` needs `EndsInv` besides: a
microtask that ends a request is the last one of its call, and while it waits the
observer has not called back yet.

`OpenStreamProcessorProof`, for a client that sends anything: `TypeOK`,
`ActiveCallsUnended` and `NoResponseAfterItsEnd`. `ServerInv` relates three things:
each execution's observer to how its response ended (`CallsOK`), the waiting microtasks
to the observers, the final one last (`TasksOK`), and each entry to the execution it is of
(`EntriesOK`): an entry's execution is streaming, has the entry's id and was not
unsubscribed, and once its response has ended the microtask that will remove the entry
still waits.

`StreamingRpcProof`, for the two ends joined, any number of calls, any limits of the
buffers and any stops: `MethodRunsOnce`; `NoCrossTalk` as long as no two calls have had
the same id (`NoReuse`: the counter wraps around after 0xffff calls and may then give an
id again; what becomes of a late message then is beyond what ids can tell); and
`RequestsInOrder` under `NoReuse` and with `UnknownMethod = {}`: `onBatch` throws at a
Request Data that names an unknown method, and the rest of its batch, which may hold
values of other calls, is lost. Neither end is taken apart again: the proof takes from
the two modules above that their invariants hold with any peer, and what one step does
to the messages (`LineStep`; `ServerReads` and `ServerSends`). The messages on their way
to the server, spread over the client's buffer, the batches in the channel and the
server's inbox, are one line (`IsLine`), which only moves in three ways: a message is
added at its end, the client's stop cuts off its end, the server takes its first message
(`LineMoves`). Over that line the inductive invariant, `ConnInv`, says: every message and
every execution has the id of the call it is of (`Addressed`, `Responses`); a method name
is on the line or has an execution, never both and never twice (`NamesOnce`); the values
of a call on the line are increasing, nothing follows its end (`QueueOK`), every value
that was passed on is on the line or was taken, unless the stop may have cut it off
(`Cover`), and what was taken is an initial piece of the stream (`Got`). That a method
gets the next value and no other is not visible in any one of these: it takes all three.
`RequestEndReachesMethod` and `OpenCallsAnswerable`, under `NoReuse` and with
`UnknownMethod = {}`, say what is so when nothing is in flight; in between, an end is
always somewhere. `EndReaches`: the end of a request is the last message of its call on
the line, and once it was sent it is there until the method knows of it (`Told`); that
the server does not take it for another call's end, or drop it, needs the entries of the
server to be exactly the executions that go on (`SP!Entered`, which needs that no two
executions have the same id). `Replies`: a call whose first message went has it on the line, or an
execution, or its response is ending (`Begun`); and an execution whose response has ended
has told the client, or the message that does is collected, in a batch or being read
(`Answered`, `OnWay`). With nothing in flight, only the execution is left.

`CallStreamsProof`, then of `CreateCall`: all four invariants. The strengthening (`CallInv`)
says that the buffer holds every accepted value until the flush, that the flush only
comes after the method was invoked, that a live pipeline has heard of no failure, and
that an open response without a pipeline belongs to a request that completed without a
value.

`RpcPersistentClientProof`: `NoStrayChannel`, `OpenTracksChannel` and `StaleFirst`, for
any number of connections. `ChannelsInv` says that all channels but the last are closed
or closing and that a reconnection delay only runs without a live channel; `ClientsInv`
that of the clients that are not stopped only the last one has anything in its buffer;
`BatchesInv` that the batches that wait, and those sent on one connection, are sorted by
their clients, none of which is later than the connection.

`LevelStoreProof`: `TypeOK`, `OneHolder`, `NoEditLost`, `HistoryReplays`,
`PullCatchesUp` and `FollowersMissNothing`, for any tasks, blocks, policies of
compaction and choices of `gc()`. The invariant comes in four parts, each preserved
given those before it. `StoreInv`: who runs under a lock is whom the mutex lets run
(mutual exclusion, the queue of a key and the steps of its tasks agree), and what a
writer has read under the lock still holds (`ChecksHold`). `Documents`: the start
snapshot, the history and the latest snapshot are prefixes of the log of accepted edits,
and a compaction that is under way has read what it will write. `PullsConsistent`: what
a pull has read so far reaches from what its client knows to where it is going, or a
compaction has overtaken it. `FollowersHear`: what a pull was too early for is with the
listener or on its way.

`BlocksServicesProof`: `TypeOK` and `LatestIsWholeLog` for any requests, policies of
compaction and history lengths, and `HistoryReplays` and `PullCatchesUp` as long as a
compaction ends before the next one starts (`OneCompaction`). That hypothesis is needed,
for overlapping compactions do break the history (see above); `OnePolicyOneCompaction`
shows that it holds where the policy compacts at one sequence number, as in `blocks`,
since no two accepted edits have the same. Here nothing is locked and the block is
shared by reference, so the invariant first says which object everyone holds: until the
removal there is one (`OneBlock`). `LatestInv`: an edit whose number is still free has
computed its snapshot from all the accepted edits before it (`PushRight`), although it
read the latest snapshot in place and an await earlier; and a compaction of a block
whose two snapshots are one object drops all the history it has counted, so that the
block is known to have been compacted (`CompactionRight`). `HistoryInv`: the history is
numbered without a gap from the start snapshot to the last edit (`Numbered`), and a
running compaction has merged exactly a prefix of what it will splice off
(`MergeRight`). `PullInv`: what a pull asks for is in the log, and what it got reaches
from what its client knew to what it was told (`PullRight`), unless it was overtaken.

Proving has corrected statements that TLC had agreed with. `HistoryReplays` used to
leave out too little: an edit decides to compact up to its sequence number, and when
the block is removed and created again before the compaction gets its lock, that number
lies ahead of the new block, whose start snapshot then overtakes it. It takes more
requests than `level_store` has; `crossed` now holds such blocks too.
`NoRequestAfterItsEnd` and `NoResponseAfterItsEnd` now also say that the message that
ends a stream is that stream's end, without which they allowed an end to be sent twice
in one step. `ServerStop` ends the calls in one order of many, which the properties do
not tell apart.

Only model-checked: liveness (fairness and ENABLED are beyond the prover); of the two
ends joined, the refinement of `RpcCallPromise`; the WebSocket connection, whose decoder
is defined by recursion over octets.

## 5. What is not modelled, and why

- Values, errors and their encodings: messages carry the position of a value in its
  stream. The binary codec is pure and has no part in the interleavings; of the compact
  and the JSON-RPC codec `StaticRpc` keeps what they refuse.
- Callbacks that throw: `onFlush`, `onSend` and observers are assumed to return. The
  one exception that decides something, an unknown method in a Request Data, is
  `OnRequestDataThrows`.
- Notifications of the streaming protocol: they have no id and no answer.
- Resource exhaustion: all 65,534 ids taken, unbounded lists.
- The lengths of delays (timers fire at any time after they are set) and of the sizes
  back-pressure depends on (it may strike at any write).
- The ping timer of `RpcPersistentClient`, a `notify()` of the current client.
- `Http2Server`, which most of its file comments out; the WebSocket endpoint of `RpcApp`,
  where uWebSockets owns frames and buffers and batches under back-pressure are dropped.
- `PresenceService`: rooms of entries with a time to live; it tells its observers in a
  later turn, as `PubsubService` does.
- `RpcDuplex` and the local client: a client and a processor in one process, without
  state of their own. Callers by router, type and API: lookup tables.
- Routes, schemas, route matching, headers, logging, formatting.

## 6. Plan

1. The safety part of `RpcCallPromise`, from `ConnInv`: what is still missing there is the
   order of the response messages on their way.
2. `PresenceService`: observers that join between an update and its event.
3. The binary codec: the header of a message as an operator with its inverse.
