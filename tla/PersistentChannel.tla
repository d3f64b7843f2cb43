-------------------------- MODULE PersistentChannel --------------------------
(***************************************************************************)
(* PersistentChannel over WebSocketChannels: the handlers, for the client  *)
(* that uses them to compose. Channels are numbered in the order they are  *)
(* made, so that `latest` is also how many there were. Everything that     *)
(* follows channel$ through filter and switchMap follows `latest`.         *)
(***************************************************************************)
EXTENDS Integers, Sequences, FiniteSets, SequencesExt

CONSTANT MaxChannels      \* bound on the channels made

ASSUME ChannelsAssumption == MaxChannels \in Nat

Channels == 1 .. MaxChannels

VARIABLES
  active,                 \* active$
  channel, latest,        \* channel$, 0 for undefined; its last defined value
  state,                  \* the state$ of each channel, "none" before it is made
  closing,                \* channels whose close() was called
  open,                   \* open$
  ended,                  \* the reconnection chain has completed
  reconnecting,           \* its delay is running
  retries,
  checks,                 \* how many delays of minUptime are running
  waiting,                \* data of send$ subscriptions that wait, in order
  sent                    \* data given to channel.send(), with the channel

channelVars == <<active, channel, latest, state, closing, open, ended, reconnecting,
                 retries, checks, waiting, sent>>

ChannelInit ==
  /\ active = FALSE /\ open = FALSE
  /\ channel = 0 /\ latest = 0
  /\ state = [c \in Channels |-> "none"]
  /\ closing = {}
  /\ ended = FALSE /\ reconnecting = FALSE
  /\ retries = 0 /\ checks = 0
  /\ waiting = <<>> /\ sent = <<>>

(* The close$ of a channel has emitted. Mutants: the first close reconnects *)
(* only; the chain does not complete.                                       *)
ReconnectOnce == reconnecting' = (~ended /\ retries = 0) /\ retries' = retries + 1
Reconnect ==
  /\ reconnecting' = ~ended
  /\ retries' = IF ended THEN retries ELSE retries + 1

(* channel$.next(newChannel()). The constructor of the socket may throw,    *)
(* and close$ replays what it emitted then.                                 *)
NewChannel ==
  /\ latest < MaxChannels
  /\ latest' = latest + 1 /\ channel' = latest'
  /\ open' = FALSE
  /\ \/ state' = [state EXCEPT ![latest'] = "CONNECTING"]
        /\ reconnecting' = FALSE /\ UNCHANGED retries
     \/ state' = [state EXCEPT ![latest'] = "CLOSED"]
        /\ Reconnect

ChannelStart ==
  /\ ~active
  /\ active' = TRUE
  /\ NewChannel
  /\ UNCHANGED <<closing, ended, checks, waiting, sent>>

ReconnectTimer ==
  /\ reconnecting
  /\ NewChannel
  /\ checks' = checks + 1
  /\ UNCHANGED <<active, closing, ended, waiting, sent>>

(* The delayed check looks at the channel there is by now.                  *)
UptimeCheck ==
  /\ checks > 0
  /\ checks' = checks - 1
  /\ retries' = IF channel # 0 /\ state[latest] = "OPEN" THEN 0 ELSE retries
  /\ UNCHANGED <<active, channel, latest, state, closing, open, ended, reconnecting,
                 waiting, sent>>

Sending(c, data) == [i \in DOMAIN data |-> [channel |-> c, data |-> data[i]]]

(* ws.onopen: state$, and so open$ of the persistent channel, comes before  *)
(* the open$ the senders wait for.                                          *)
OnOpen(c) ==
  /\ state[c] = "CONNECTING" /\ c \notin closing
  /\ state' = [state EXCEPT ![c] = "OPEN"]
  /\ open' = IF c = latest THEN TRUE ELSE open
  /\ waiting' = IF c = latest THEN <<>> ELSE waiting
  /\ sent' = IF c = latest /\ active THEN sent \o Sending(c, waiting) ELSE sent
  /\ UNCHANGED <<active, channel, latest, closing, ended, reconnecting, retries, checks>>

(* ws.onclose, for whatever reason.                                         *)
OnClose(c) ==
  /\ state[c] \in {"CONNECTING", "OPEN"}
  /\ state' = [state EXCEPT ![c] = "CLOSED"]
  /\ open' = IF c = latest THEN FALSE ELSE open
  /\ IF c = latest THEN Reconnect ELSE UNCHANGED <<reconnecting, retries>>
  /\ UNCHANGED <<active, channel, latest, closing, ended, checks, waiting, sent>>

(* Mutants: stop() leaves the timer of the reconnection; stop() leaves      *)
(* open$ to the close event.                                                *)
EndChainKeepsTimer == ended' = TRUE /\ checks' = 0 /\ retries' = 0 /\ UNCHANGED reconnecting
EndChain == ended' = TRUE /\ checks' = 0 /\ retries' = 0 /\ reconnecting' = FALSE

ClosedLater == open
ClosedAtStop == FALSE

ChannelStop ==
  /\ active
  /\ active' = FALSE
  /\ EndChain
  /\ channel' = 0
  /\ closing' = closing \cup {channel}
  /\ open' = ClosedAtStop
  /\ UNCHANGED <<latest, state, waiting, sent>>

(* send$(): at once on an open channel, or when the next one opens. While   *)
(* the service is not active or not open, -1.                               *)
SendData(data) ==
  LET ready == channel # 0 /\ state[latest] = "OPEN"
  IN  /\ waiting' = IF ready THEN waiting ELSE Append(waiting, data)
      /\ sent' = IF ready /\ active /\ open THEN sent \o Sending(channel, <<data>>) ELSE sent
      /\ UNCHANGED <<active, channel, latest, state, closing, open, ended, reconnecting,
                     retries, checks>>

-----------------------------------------------------------------------------
(* A channel that is connecting or open, and not being closed, is the       *)
(* current one of an active service: neither stop() nor a new channel       *)
(* leaves one behind, and a delay that was running at stop() makes none.    *)
NoStrayChannel ==
  \A c \in Channels \ closing :
    state[c] \in {"CONNECTING", "OPEN"} => active /\ c = channel

(* open$ is what channel.isOpen() says of the channel there is, whatever    *)
(* late events of earlier channels come: send$ never drops data with -1.    *)
OpenTracksChannel == open = (active /\ channel # 0 /\ state[channel] = "OPEN")

(* Until it is first stopped, an active service replaces each channel that  *)
(* closes, as often as channels fail. (After a stop() the chain that does   *)
(* it has completed.)                                                       *)
Reconnects ==
  \A c \in 1 .. MaxChannels - 1 :
    (active /\ channel = c /\ state[c] = "CLOSED" /\ ~ended) ~> (channel # c)
=============================================================================
