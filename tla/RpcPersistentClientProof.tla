---------------------- MODULE RpcPersistentClientProof ----------------------
(***************************************************************************)
(* The persistent channel leaves no socket behind and knows whether it is  *)
(* open, and the clients made over it keep the order of their batches, for *)
(* any number of connections, of starts and stops, and of calls.           *)
(***************************************************************************)
EXTENDS RpcPersistentClient, FiniteSetTheorems, SequenceTheorems, TLAPS

ChannelState == {"none", "CONNECTING", "OPEN", "CLOSED"}

(* Every channel but the latest is closed or closing; the latest is too,    *)
(* once the service was stopped. The delay of a reconnection runs only      *)
(* while the service is active and has no live channel.                     *)
ChannelsInv ==
  /\ active \in BOOLEAN /\ open \in BOOLEAN
  /\ latest \in 0 .. MaxChannels /\ channel \in 0 .. MaxChannels
  /\ state \in [Channels -> ChannelState]
  /\ \A c \in Channels : state[c] = "none" <=> c > latest
  /\ active => latest # 0 /\ channel = latest
  /\ ~active => channel = 0 /\ (latest # 0 => latest \in closing /\ ended)
  /\ \A c \in Channels : c < latest => state[c] = "CLOSED" \/ c \in closing
  /\ reconnecting => active /\ state[latest] = "CLOSED"
  /\ OpenTracksChannel

(* Messages that client k sends, and what is handed over in one batch.      *)
Message(k) == [client: {k}, id: Nat, call: Calls]
From(k) == {data \in Seq(Message(k)) : data # <<>>}
Data == UNION {From(k) : k \in Channels}
Client(data) == Head(data).client

(* Only the client of the last connection that opened still flushes.        *)
ClientsInv ==
  /\ rpc \in 0 .. latest
  /\ rpc # 0 => state[rpc] \in {"OPEN", "CLOSED"}
  /\ open => rpc = latest
  /\ IsFiniteSet(notifications) /\ notifications \subseteq Calls
  /\ early \in Seq(Calls) /\ nextId \in [Channels -> Nat]
  /\ DOMAIN buffer = Channels
  /\ \A k \in Channels :
       /\ buffer[k] \in Seq(Message(k))
       /\ k > rpc => buffer[k] = <<>>
       /\ buffer[k] # <<>> => k = rpc \/ k \in stopped

Sorted(batches) ==
  \A i, j \in 1 .. Len(batches) : i < j => Client(batches[i]) <= Client(batches[j])

SortedByChannel(s) ==
  \A i, j \in 1 .. Len(s) :
    i < j /\ s[i].channel = s[j].channel => Client(s[i].data) <= Client(s[j].data)

(* What waits comes from clients up to the present one, the older ones      *)
(* first; what was sent, from clients up to that of the connection.         *)
BatchesInv ==
  /\ waiting \in Seq(Data) /\ Sorted(waiting)
  /\ \A i \in 1 .. Len(waiting) : Client(waiting[i]) <= rpc
  /\ sent \in Seq([channel: Channels, data: Data])
  /\ \A i \in 1 .. Len(sent) :
       /\ Client(sent[i].data) <= sent[i].channel
       /\ state[sent[i].channel] \in {"OPEN", "CLOSED"}
  /\ SortedByChannel(sent)

Inv == ChannelsInv /\ ClientsInv /\ BatchesInv

-----------------------------------------------------------------------------
(* The channel. Timers, sockets and the user come in any order.             *)
LEMMA NewChannelStep ==
  ASSUME ChannelsInv, NewChannel, active' = TRUE,
         closing' = closing, latest # 0 => state[latest] = "CLOSED" \/ latest \in closing
  PROVE  ChannelsInv' /\ open' = FALSE /\ latest' = latest + 1 /\ latest' \in Channels
         /\ state[latest'] = "none"
         /\ \A c \in Channels : state[c] # "none" => state'[c] = state[c]
<1> USE ChannelsAssumption DEF ChannelsInv, Channels
<1>1. /\ latest' = latest + 1 /\ channel' = latest' /\ open' = FALSE
      /\ latest' \in Channels /\ latest' # 0
      /\ latest' \in 0 .. MaxChannels
  BY DEF NewChannel
<1>2. PICK new \in {"CONNECTING", "CLOSED"} :
        /\ state' = [state EXCEPT ![latest'] = new]
        /\ reconnecting' => new = "CLOSED"
  BY DEF NewChannel
<1>3. /\ state' \in [Channels -> ChannelState] /\ state'[latest'] = new
      /\ \A c \in Channels : c # latest' => state'[c] = state[c]
  BY <1>1, <1>2 DEF ChannelState
<1>4. state[latest'] = "none" /\ \A c \in Channels : state[c] # "none" => state'[c] = state[c]
  BY <1>1, <1>3
<1>5. \A c \in Channels : state'[c] = "none" <=> c > latest'
  <2>1. ASSUME NEW c \in Channels PROVE state'[c] = "none" <=> c > latest'
    BY <1>1, <1>2, <1>3
  <2> QED BY <2>1
<1>6. ASSUME NEW c \in Channels, c < latest' PROVE state'[c] = "CLOSED" \/ c \in closing'
  BY <1>1, <1>3, <1>6
<1>7. OpenTracksChannel'
  BY <1>1, <1>2, <1>3 DEF OpenTracksChannel
<1> QED BY <1>1, <1>2, <1>3, <1>4, <1>5, <1>6, <1>7

LEMMA OnOpenStep ==
  ASSUME ChannelsInv, NEW c \in Channels, OnOpen(c)
  PROVE  /\ ChannelsInv'
         /\ c = latest /\ active /\ ~open /\ open' /\ latest' = latest
         /\ state[c] = "CONNECTING" /\ state' = [state EXCEPT ![c] = "OPEN"]
<1> USE ChannelsAssumption DEF ChannelsInv, Channels, OnOpen
<1>1. c = latest
  BY DEF ChannelState
<1>2. active /\ channel = latest /\ ~open /\ open'
  <2>1. active /\ channel = latest /\ open'
    BY <1>1
  <2>2. state[channel] # "OPEN"
    BY <1>1, <2>1
  <2> QED BY <2>1, <2>2 DEF OpenTracksChannel
<1>3. /\ state' \in [Channels -> ChannelState] /\ state'[c] = "OPEN"
      /\ \A d \in Channels \ {c} : state'[d] = state[d]
  BY DEF ChannelState
<1>4. \A d \in Channels : state'[d] = "none" <=> d > latest
  BY <1>3
<1>5. ~reconnecting
  BY <1>1
<1> QED BY <1>1, <1>2, <1>3, <1>4, <1>5 DEF OpenTracksChannel

LEMMA OnCloseStep ==
  ASSUME ChannelsInv, NEW c \in Channels, OnClose(c)
  PROVE  /\ ChannelsInv' /\ latest' = latest /\ (open' => open)
         /\ \A d \in Channels : state[d] \in {"OPEN", "CLOSED"} => state'[d] \in {"OPEN", "CLOSED"}
<1> USE ChannelsAssumption DEF ChannelsInv, Channels, OnClose
<1>1. /\ state' \in [Channels -> ChannelState] /\ state'[c] = "CLOSED" /\ state[c] # "none"
      /\ \A d \in Channels \ {c} : state'[d] = state[d]
  BY DEF ChannelState
<1>2. /\ \A d \in Channels : state'[d] = "none" <=> d > latest
      /\ \A d \in Channels : d < latest => state'[d] = "CLOSED" \/ d \in closing
  BY <1>1
<1>3. CASE c = latest
  <2>1. open' = FALSE /\ (reconnecting' => active)
    BY <1>3 DEF Reconnect
  <2> QED BY <1>1, <1>2, <1>3, <2>1 DEF OpenTracksChannel
<1>4. CASE c # latest
  <2>1. open' = open /\ reconnecting' = reconnecting /\ (latest \in Channels => state'[latest] = state[latest])
    BY <1>1, <1>4
  <2> QED BY <1>1, <1>2, <1>4, <2>1 DEF OpenTracksChannel
<1> QED BY <1>3, <1>4

LEMMA StopStep ==
  ASSUME ChannelsInv, ChannelStop
  PROVE  ChannelsInv' /\ open' = FALSE /\ latest' = latest /\ state' = state
<1>1. /\ active' = FALSE /\ channel' = 0 /\ open' = FALSE /\ closing' = closing \cup {latest}
      /\ ended' = TRUE /\ reconnecting' = FALSE /\ UNCHANGED <<latest, state>>
  BY DEF ChannelStop, EndChain, ClosedAtStop, ChannelsInv
<1>2. OpenTracksChannel'
  BY <1>1 DEF OpenTracksChannel
<1>3. /\ active' \in BOOLEAN /\ open' \in BOOLEAN
      /\ latest' \in 0 .. MaxChannels /\ channel' \in 0 .. MaxChannels
  <2>1. active' \in BOOLEAN /\ open' \in BOOLEAN
    BY <1>1
  <2>2. latest' \in 0 .. MaxChannels
    BY <1>1 DEF ChannelsInv
  <2>3. channel' \in 0 .. MaxChannels
    BY <1>1, ChannelsAssumption
  <2> QED BY <2>1, <2>2, <2>3
<1>5. latest' \in closing' /\ ended'
  BY <1>1
<1>4. /\ state' \in [Channels -> ChannelState]
      /\ \A c \in Channels : state'[c] = "none" <=> c > latest'
      /\ \A c \in Channels : c < latest' => state'[c] = "CLOSED" \/ c \in closing'
  BY <1>1 DEF ChannelsInv
<1> QED BY <1>1, <1>2, <1>3, <1>4, <1>5 DEF ChannelsInv

LEMMA UnchangedChannels ==
  ASSUME ChannelsInv, UNCHANGED <<active, channel, latest, state, closing, open, ended, reconnecting>>
  PROVE  ChannelsInv'
BY DEF ChannelsInv, OpenTracksChannel

-----------------------------------------------------------------------------
(* Sequences of batches.                                                    *)
LEMMA ClientOfBatch ==
  ASSUME NEW k \in Channels, NEW data \in Seq(Message(k)), data # <<>>
  PROVE  data \in Data /\ Client(data) = k
<1>1. data \in From(k) /\ Head(data) \in Message(k)
  BY DEF From
<1> QED BY <1>1 DEF Data, Client, Message

LEMMA BatchHasClient ==
  ASSUME NEW data \in Data
  PROVE  Client(data) \in Channels
<1>1. PICK k \in Channels : data \in From(k)
  BY DEF Data
<1>2. Head(data) \in Message(k)
  BY <1>1 DEF From
<1> QED BY <1>2 DEF Client, Message

LEMMA AppendSorted ==
  ASSUME NEW w \in Seq(Data), Sorted(w), NEW data \in Data, NEW k \in Nat,
         Client(data) = k, \A i \in 1 .. Len(w) : Client(w[i]) <= k
  PROVE  /\ Append(w, data) \in Seq(Data) /\ Sorted(Append(w, data))
         /\ \A i \in 1 .. Len(Append(w, data)) : Client(Append(w, data)[i]) <= k
<1> DEFINE v == Append(w, data)
<1>1. /\ Len(w) \in Nat /\ v \in Seq(Data) /\ Len(v) = Len(w) + 1 /\ v[Len(w) + 1] = data
      /\ \A i \in 1 .. Len(w) : v[i] = w[i]
  OBVIOUS
<1> HIDE DEF v
<1>2. ASSUME NEW i \in 1 .. Len(v) PROVE Client(v[i]) <= k
  <2>1. CASE i = Len(w) + 1
    BY <1>1, <2>1
  <2>2. CASE i # Len(w) + 1
    <3>1. i \in 1 .. Len(w)
      BY <1>1, <2>2
    <3> QED BY <1>1, <3>1
  <2> QED BY <2>1, <2>2
<1>3. ASSUME NEW i \in 1 .. Len(v), NEW j \in 1 .. Len(v), i < j
      PROVE  Client(v[i]) <= Client(v[j])
  <2>1. i \in 1 .. Len(w)
    BY <1>1, <1>3
  <2>2. CASE j = Len(w) + 1
    BY <1>1, <1>2, <2>2
  <2>3. CASE j # Len(w) + 1
    <3>1. j \in 1 .. Len(w)
      BY <1>1, <2>3
    <3> QED BY <1>1, <1>3, <2>1, <3>1 DEF Sorted
  <2> QED BY <2>2, <2>3
<1> QED BY <1>1, <1>2, <1>3 DEF Sorted, v

(* Batches w are sent, in order, after those of earlier clients.            *)
LEMMA SendingSorted ==
  ASSUME NEW s \in Seq([channel: Channels, data: Data]), SortedByChannel(s),
         NEW w \in Seq(Data), Sorted(w), NEW c \in Channels,
         \A i \in 1 .. Len(s) : \A j \in 1 .. Len(w) :
           s[i].channel = c => Client(s[i].data) <= Client(w[j])
  PROVE  LET t == s \o Sending(c, w)
         IN  /\ t \in Seq([channel: Channels, data: Data]) /\ SortedByChannel(t)
             /\ \A i \in 1 .. Len(t) : \/ i \in 1 .. Len(s) /\ t[i] = s[i]
                                       \/ \E j \in 1 .. Len(w) : t[i] = [channel |-> c, data |-> w[j]]
<1> DEFINE v == Sending(c, w)
           t == s \o v
           n == Len(s)
           Sent == [channel: Channels, data: Data]
<1>1. /\ n \in Nat /\ Len(w) \in Nat /\ DOMAIN w = 1 .. Len(w)
      /\ v = [i \in 1 .. Len(w) |-> [channel |-> c, data |-> w[i]]]
  BY DEF Sending
<1>2. v \in Seq(Sent) /\ Len(v) = Len(w) /\ \A j \in 1 .. Len(w) : v[j] = [channel |-> c, data |-> w[j]]
  <2>1. \A i \in 1 .. Len(w) : [channel |-> c, data |-> w[i]] \in Sent
    OBVIOUS
  <2> HIDE DEF Sent
  <2> QED BY <1>1, <2>1
<1> HIDE DEF v, Sent
<1>3. /\ t \in Seq(Sent) /\ Len(t) = n + Len(w)
      /\ \A i \in 1 .. n : t[i] = s[i]
      /\ \A i \in 1 .. Len(t) : i > n => t[i] = [channel |-> c, data |-> w[i - n]]
  <2>1. s \in Seq(Sent)
    BY DEF Sent
  <2>2. /\ t \in Seq(Sent) /\ Len(t) = Len(s) + Len(v)
        /\ \A i \in 1 .. Len(s) + Len(v) : t[i] = IF i <= Len(s) THEN s[i] ELSE v[i - Len(s)]
    BY <1>2, <2>1, SMTT(30)
  <2>3. \A i \in 1 .. (n + Len(w)) : i > n => i - n \in 1 .. Len(w)
    BY <1>1
  <2>4. \A i \in 1 .. n : i \in 1 .. (n + Len(w)) /\ i <= n
    BY <1>1
  <2> QED BY <1>1, <1>2, <2>2, <2>3, <2>4
<1> HIDE DEF t, n
<1>4. \A i \in 1 .. Len(t) : i <= n => i \in 1 .. n
  BY <1>1
<1>5. \A i \in 1 .. Len(t) : i > n => i - n \in 1 .. Len(w)
  BY <1>1, <1>3
<1>6. ASSUME NEW i \in 1 .. Len(t), NEW j \in 1 .. Len(t), i < j, t[i].channel = t[j].channel
      PROVE  Client(t[i].data) <= Client(t[j].data)
  <2>1. CASE j <= n
    <3>1. i \in 1 .. n /\ j \in 1 .. n
      BY <1>1, <1>6, <2>1
    <3> QED BY <1>3, <1>6, <3>1 DEF SortedByChannel, n
  <2>2. CASE i <= n /\ j > n
    <3>1. i \in 1 .. n /\ j - n \in 1 .. Len(w) /\ t[i] = s[i] /\ t[j] = [channel |-> c, data |-> w[j - n]]
      BY <1>3, <1>4, <1>5, <2>2
    <3> QED BY <1>6, <3>1 DEF n
  <2>3. CASE i > n
    <3>1. j > n /\ i - n < j - n
      BY <1>1, <1>6, <2>3
    <3>2. i - n \in 1 .. Len(w) /\ j - n \in 1 .. Len(w)
      BY <1>5, <2>3, <3>1
    <3> QED BY <1>3, <2>3, <3>1, <3>2 DEF Sorted
  <2> QED BY <1>1, <2>1, <2>2, <2>3
<1>7. ASSUME NEW i \in 1 .. Len(t)
      PROVE  \/ i \in 1 .. Len(s) /\ t[i] = s[i]
             \/ \E j \in 1 .. Len(w) : t[i] = [channel |-> c, data |-> w[j]]
  <2>1. CASE i <= n
    BY <1>3, <1>4, <2>1 DEF n
  <2>2. CASE i > n
    BY <1>3, <1>5, <2>2
  <2> QED BY <1>1, <2>1, <2>2
<1> QED BY <1>3, <1>6, <1>7 DEF SortedByChannel, t, v, Sent

LEMMA EnumeratedSet ==
  ASSUME NEW S, IsFiniteSet(S)
  PROVE  SetToSeq(S) \in Seq(S)
<1>1. Cardinality(S) \in Nat /\ ExistsBijection(1 .. Cardinality(S), S)
  BY FS_CardinalityType
<1>2. PICK f \in [1 .. Cardinality(S) -> S] : IsInjective(f)
  BY <1>1 DEF ExistsBijection, Bijection, Injection
<1>3. SetToSeq(S) \in [1 .. Cardinality(S) -> S]
  BY <1>2 DEF SetToSeq
<1> QED BY <1>1, <1>3

LEMMA NotificationsSent ==
  ASSUME NEW k \in Channels, IsFiniteSet(notifications), notifications \subseteq Calls
  PROVE  SetToSeq({Notification(k, x) : x \in notifications}) \in Seq(Message(k))
<1> DEFINE N == {Notification(k, x) : x \in notifications}
           f == [x \in notifications |-> Notification(k, x)]
<1>1. f \in Surjection(notifications, N)
  BY DEF Surjection
<1>2. IsFiniteSet(N)
  BY <1>1, FS_Surjection
<1>3. N \subseteq Message(k)
  BY DEF Notification, Message
<1> HIDE DEF N
<1>4. SetToSeq(N) \in Seq(N)
  BY <1>2, EnumeratedSet
<1> QED BY <1>3, <1>4 DEF N

LEMMA SentFields ==
  ASSUME NEW s \in Seq([channel: Channels, data: Data]), NEW i \in 1 .. Len(s)
  PROVE  s[i].channel \in Channels /\ s[i].data \in Data
<1> DEFINE Sent == [channel: Channels, data: Data]
<1>1. s \in Seq(Sent)
  OBVIOUS
<1> HIDE DEF Sent
<1>2. s[i] \in Sent
  BY <1>1
<1> QED BY <1>2 DEF Sent

-----------------------------------------------------------------------------
(* The clients. What does not concern buffers and batches leaves them as    *)
(* they were.                                                               *)
LEMMA ClientsKept ==
  ASSUME ChannelsInv, ChannelsInv', ClientsInv, BatchesInv,
         UNCHANGED <<rpc, nextId, buffer, early, notifications, waiting, sent>>,
         stopped \subseteq stopped', latest <= latest', open' => open /\ latest' = latest,
         \A c \in Channels : state[c] \in {"OPEN", "CLOSED"} => state'[c] \in {"OPEN", "CLOSED"}
  PROVE  ClientsInv' /\ BatchesInv'
<1> USE ChannelsAssumption DEF Channels
<1>1. latest \in 0 .. MaxChannels /\ latest' \in 0 .. MaxChannels
  BY DEF ChannelsInv
<1>2. rpc \in 0 .. latest' /\ (rpc # 0 => state'[rpc] \in {"OPEN", "CLOSED"}) /\ (open' => rpc = latest')
  BY <1>1 DEF ClientsInv
<1>3. ClientsInv'
  BY <1>2 DEF ClientsInv
<1>4. BatchesInv'
  <2>1. sent \in Seq([channel: Channels, data: Data])
    BY DEF BatchesInv
  <2>2. \A i \in 1 .. Len(sent) : sent[i].channel \in Channels
    BY <2>1, SentFields
  <2> QED BY <2>2 DEF BatchesInv
<1> QED BY <1>3, <1>4

LEMMA CallStep ==
  ASSUME ChannelsInv, ClientsInv, BatchesInv, NEW x \in Calls, Call(x) \/ Notify(x)
  PROVE  ClientsInv' /\ BatchesInv'
<1> USE DEF ClientsInv
<1>1. UNCHANGED <<latest, state, open, waiting, sent, rpc, stopped>>
  BY DEF Call, Notify, channelVars
<1>2. BatchesInv'
  BY <1>1 DEF BatchesInv
<1>3. latest \in 0 .. MaxChannels /\ rpc \in 0 .. MaxChannels
  BY ChannelsAssumption DEF ChannelsInv
<1>4. CASE buffer' = buffer /\ nextId' = nextId /\ notifications' = notifications /\ early' = Append(early, x)
  BY <1>1, <1>2, <1>4
<1>5. CASE buffer' = buffer /\ nextId' = nextId /\ notifications' = notifications \cup {x} /\ early' = early
  <2>1. IsFiniteSet(notifications')
    BY <1>5, FS_AddElement
  <2> QED BY <1>1, <1>2, <1>5, <2>1
<1>6. ASSUME rpc # 0, NEW m \in Message(rpc), buffer' = [buffer EXCEPT ![rpc] = Append(@, m)]
      PROVE  /\ DOMAIN buffer' = Channels
             /\ \A k \in Channels :
                  /\ buffer'[k] \in Seq(Message(k))
                  /\ k > rpc => buffer'[k] = <<>>
                  /\ buffer'[k] # <<>> => k = rpc \/ k \in stopped
  <2>1. rpc \in Channels
    BY <1>3, <1>6 DEF Channels
  <2>2. ASSUME NEW k \in Channels
        PROVE  /\ buffer'[k] \in Seq(Message(k))
               /\ k > rpc => buffer'[k] = <<>>
               /\ buffer'[k] # <<>> => k = rpc \/ k \in stopped
    <3>1. CASE k = rpc
      BY <1>3, <1>6, <2>1, <3>1
    <3>2. CASE k # rpc
      BY <1>6, <2>1, <3>2
    <3> QED BY <3>1, <3>2
  <2> QED BY <1>6, <2>2
<1>7. CASE /\ rpc # 0 /\ nextId' = [nextId EXCEPT ![rpc] = @ + 1] /\ notifications' = notifications
           /\ buffer' = [buffer EXCEPT ![rpc] = Append(@, Request(rpc, nextId[rpc], x))] /\ early' = early
  <2>1. rpc \in Channels /\ nextId[rpc] \in Nat
    BY <1>3, <1>7 DEF Channels
  <2>2. Request(rpc, nextId[rpc], x) \in Message(rpc)
    BY <2>1 DEF Request, Message
  <2>3. nextId' \in [Channels -> Nat]
    BY <1>7, <2>1
  <2> HIDE DEF ClientsInv
  <2>4. /\ DOMAIN buffer' = Channels
        /\ \A k \in Channels :
             /\ buffer'[k] \in Seq(Message(k))
             /\ k > rpc => buffer'[k] = <<>>
             /\ buffer'[k] # <<>> => k = rpc \/ k \in stopped
    BY <1>6, <1>7, <2>2
  <2> QED BY <1>1, <1>2, <1>7, <2>3, <2>4 DEF ClientsInv
<1>8. CASE /\ rpc # 0 /\ nextId' = nextId /\ notifications' = notifications \cup {x}
           /\ buffer' = [buffer EXCEPT ![rpc] = Append(@, Notification(rpc, x))] /\ early' = early
  <2>1. IsFiniteSet(notifications') /\ notifications' \subseteq Calls
    BY <1>8, FS_AddElement
  <2>2. Notification(rpc, x) \in Message(rpc)
    BY DEF Notification, Message
  <2> HIDE DEF ClientsInv
  <2>3. /\ DOMAIN buffer' = Channels
        /\ \A k \in Channels :
             /\ buffer'[k] \in Seq(Message(k))
             /\ k > rpc => buffer'[k] = <<>>
             /\ buffer'[k] # <<>> => k = rpc \/ k \in stopped
    BY <1>6, <1>8, <2>2
  <2> QED BY <1>1, <1>2, <1>8, <2>1, <2>3 DEF ClientsInv
<1> QED BY <1>4, <1>5, <1>7, <1>8 DEF Call, Notify

LEMMA FlushStep ==
  ASSUME ChannelsInv, ClientsInv, BatchesInv, NEW k \in Channels, Flush(k)
  PROVE  ChannelsInv' /\ ClientsInv' /\ BatchesInv'
<1> DEFINE data == buffer[k]
<1>1. /\ data # <<>> /\ data \in Seq(Message(k)) /\ buffer' = [buffer EXCEPT ![k] = <<>>]
      /\ k \notin stopped => k = rpc
      /\ UNCHANGED <<rpc, nextId, stopped, early, notifications>>
  BY DEF Flush, ClientsInv
<1>2. UNCHANGED <<active, channel, latest, state, closing, open, ended, reconnecting>>
  BY DEF Flush, SendData, channelVars
<1>3. ChannelsInv'
  BY <1>2, UnchangedChannels
<1>4. ClientsInv'
  <2>1. ASSUME NEW j \in Channels
        PROVE  /\ buffer'[j] \in Seq(Message(j))
               /\ j > rpc => buffer'[j] = <<>>
               /\ buffer'[j] # <<>> => j = rpc \/ j \in stopped
    <3>1. <<>> \in Seq(Message(j))
      OBVIOUS
    <3> QED BY <1>1, <3>1 DEF ClientsInv
  <2>2. DOMAIN buffer' = Channels
    BY <1>1 DEF ClientsInv
  <2> QED BY <1>1, <1>2, <2>1, <2>2 DEF ClientsInv
<1>5. data \in Data /\ Client(data) = k
  BY <1>1, ClientOfBatch
<1> HIDE DEF data
<1>6. CASE k \in stopped
  <2>1. waiting' = waiting /\ sent' = sent
    BY <1>6 DEF Flush, channelVars
  <2> QED BY <1>1, <1>2, <1>3, <1>4, <2>1 DEF BatchesInv
<1>7. CASE k \notin stopped
  <2>1. SendData(data) /\ k = rpc
    BY <1>1, <1>7 DEF Flush, data
  <2>2. /\ waiting' \in Seq(Data) /\ Sorted(waiting')
        /\ \A i \in 1 .. Len(waiting') : Client(waiting'[i]) <= rpc
    <3>1. CASE waiting' = waiting
      BY <3>1 DEF BatchesInv
    <3>2. CASE waiting' = Append(waiting, data)
      <4>1. k \in Nat /\ \A i \in 1 .. Len(waiting) : Client(waiting[i]) <= k
        BY <2>1 DEF BatchesInv, Channels
      <4>2. waiting \in Seq(Data) /\ Sorted(waiting)
        BY DEF BatchesInv
      <4> QED BY <1>5, <2>1, <3>2, <4>1, <4>2, AppendSorted
    <3> QED BY <2>1, <3>1, <3>2 DEF SendData
  <2>3. CASE sent' = sent
    BY <1>1, <1>2, <1>3, <1>4, <2>2, <2>3 DEF BatchesInv
  <2>4. CASE channel # 0 /\ state[latest] = "OPEN" /\ active /\ open /\ sent' = sent \o Sending(channel, <<data>>)
    <3>1. channel = latest /\ channel = k /\ state[k] = "OPEN"
      BY <2>1, <2>4 DEF ChannelsInv, ClientsInv
    <3> DEFINE w == <<data>>
    <3>2. w \in Seq(Data) /\ Len(w) = 1 /\ w[1] = data
      BY <1>5
    <3> HIDE DEF w
    <3>3. Sorted(w) /\ \A j \in 1 .. Len(w) : Client(w[j]) = k
      BY <1>5, <3>2 DEF Sorted
    <3>4. /\ sent \in Seq([channel: Channels, data: Data]) /\ SortedByChannel(sent)
          /\ \A i \in 1 .. Len(sent) : \A j \in 1 .. Len(w) :
               sent[i].channel = k => Client(sent[i].data) <= Client(w[j])
      BY <3>3 DEF BatchesInv
    <3>5. sent' = sent \o Sending(k, w)
      BY <2>4, <3>1 DEF w
    <3>6. /\ sent' \in Seq([channel: Channels, data: Data]) /\ SortedByChannel(sent')
          /\ \A i \in 1 .. Len(sent') : \/ i \in 1 .. Len(sent) /\ sent'[i] = sent[i]
                                        \/ \E j \in 1 .. Len(w) : sent'[i] = [channel |-> k, data |-> w[j]]
      BY <3>2, <3>3, <3>4, <3>5, SendingSorted
    <3>7. ASSUME NEW i \in 1 .. Len(sent')
          PROVE  /\ Client(sent'[i].data) <= sent'[i].channel
                 /\ state[sent'[i].channel] \in {"OPEN", "CLOSED"}
      <4>1. CASE i \in 1 .. Len(sent) /\ sent'[i] = sent[i]
        BY <4>1 DEF BatchesInv
      <4>2. CASE \E j \in 1 .. Len(w) : sent'[i] = [channel |-> k, data |-> w[j]]
        BY <3>1, <3>3, <4>2 DEF Channels
      <4> QED BY <3>6, <4>1, <4>2
    <3> QED BY <1>1, <1>2, <1>3, <1>4, <2>2, <3>6, <3>7 DEF BatchesInv
  <2> QED BY <2>1, <2>3, <2>4 DEF SendData
<1> QED BY <1>3, <1>4, <1>6, <1>7

LEMMA StartStep ==
  ASSUME Inv, Start
  PROVE  Inv'
<1>1. ChannelStart /\ UNCHANGED <<closing, waiting, sent, clientVars>>
  BY DEF Start, ChannelStart
<1>2. latest # 0 => latest \in closing
  BY <1>1 DEF Inv, ChannelsInv, ChannelStart
<1>3. /\ ChannelsInv' /\ open' = FALSE /\ latest' = latest + 1
      /\ \A c \in Channels : state[c] # "none" => state'[c] = state[c]
  BY <1>1, <1>2, NewChannelStep DEF Inv, ChannelStart
<1>4. latest <= latest' /\ \A c \in Channels : state[c] \in {"OPEN", "CLOSED"} => state'[c] \in {"OPEN", "CLOSED"}
  BY <1>3, ChannelsAssumption DEF Inv, ChannelsInv
<1> QED BY <1>1, <1>3, <1>4, ClientsKept DEF Inv, clientVars

LEMMA ReconnectStep ==
  ASSUME Inv, ReconnectTimer, UNCHANGED clientVars
  PROVE  Inv'
<1>1. reconnecting /\ NewChannel /\ UNCHANGED <<active, closing, waiting, sent>>
  BY DEF ReconnectTimer
<1>2. active' = TRUE /\ state[latest] = "CLOSED"
  BY <1>1 DEF Inv, ChannelsInv
<1>3. /\ ChannelsInv' /\ open' = FALSE /\ latest' = latest + 1
      /\ \A c \in Channels : state[c] # "none" => state'[c] = state[c]
  BY <1>1, <1>2, NewChannelStep DEF Inv
<1>4. latest <= latest' /\ \A c \in Channels : state[c] \in {"OPEN", "CLOSED"} => state'[c] \in {"OPEN", "CLOSED"}
  BY <1>3, ChannelsAssumption DEF Inv, ChannelsInv
<1> QED BY <1>1, <1>3, <1>4, ClientsKept DEF Inv, clientVars

LEMMA UptimeStep ==
  ASSUME Inv, UptimeCheck, UNCHANGED clientVars
  PROVE  Inv'
<1>1. UNCHANGED <<active, channel, latest, state, closing, open, ended, reconnecting, waiting, sent>>
  BY DEF UptimeCheck
<1>2. ChannelsInv'
  BY <1>1, UnchangedChannels DEF Inv
<1>3. latest <= latest'
  BY <1>1, ChannelsAssumption DEF Inv, ChannelsInv
<1> QED BY <1>1, <1>2, <1>3, ClientsKept DEF Inv, clientVars

LEMMA StoppingStep ==
  ASSUME Inv, Stop
  PROVE  Inv'
<1>1. ChannelStop /\ UNCHANGED <<rpc, nextId, buffer, early, notifications, waiting, sent>>
  BY DEF Stop, ChannelStop
<1>2. ChannelsInv' /\ open' = FALSE /\ latest' = latest /\ state' = state
  BY <1>1, StopStep DEF Inv
<1>3. latest <= latest' /\ stopped \subseteq stopped'
  BY <1>2, ChannelsAssumption DEF Inv, ChannelsInv, Stop, Disable
<1> QED BY <1>1, <1>2, <1>3, ClientsKept DEF Inv

LEMMA CloseStep ==
  ASSUME Inv, NEW c \in Channels, Closes(c)
  PROVE  Inv'
<1>1. /\ OnClose(c)
      /\ UNCHANGED <<rpc, nextId, buffer, stopped, early, notifications, waiting, sent>>
  BY DEF Closes, OnClose
<1>2. /\ ChannelsInv' /\ latest' = latest /\ (open' => open)
      /\ \A d \in Channels : state[d] \in {"OPEN", "CLOSED"} => state'[d] \in {"OPEN", "CLOSED"}
  BY <1>1, OnCloseStep DEF Inv
<1>3. latest <= latest'
  BY <1>2, ChannelsAssumption DEF Inv, ChannelsInv
<1> QED BY <1>1, <1>2, <1>3, ClientsKept DEF Inv

(* A connection opens: its client is the newest, so that whatever waited    *)
(* goes before its own batches.                                             *)
LEMMA OpenStep ==
  ASSUME Inv, NEW c \in Channels, Opens(c)
  PROVE  Inv'
<1> USE DEF Inv
<1>1. /\ ChannelsInv' /\ c = latest /\ active /\ ~open /\ open' /\ latest' = latest
      /\ state[c] = "CONNECTING" /\ state' = [state EXCEPT ![c] = "OPEN"]
  BY OnOpenStep DEF Opens
<1>2. /\ waiting' = <<>> /\ sent' = sent \o Sending(c, waiting)
      /\ NewClient(c)
  BY <1>1 DEF Opens, OnOpen
<1>3. c \in Nat /\ c # 0 /\ state \in [Channels -> ChannelState]
  BY ChannelsAssumption DEF ChannelsInv, Channels
<1>4. state'[c] = "OPEN" /\ \A d \in Channels \ {c} : state'[d] = state[d]
  BY <1>1, <1>3
<1>5. rpc \in Nat /\ rpc < c
  <2>1. rpc \in 0 .. c
    BY <1>1 DEF ClientsInv
  <2>2. rpc # c
    BY <1>1, <1>3 DEF ClientsInv
  <2> QED BY <1>3, <2>1, <2>2
<1>6. /\ rpc' = c /\ early' = <<>> /\ notifications' = notifications
      /\ stopped' = stopped \cup ({rpc} \ {0})
      /\ nextId' = [nextId EXCEPT ![c] = Len(early) + 1]
      /\ buffer' = [buffer EXCEPT ![c] =
                      SetToSeq({Notification(c, x) : x \in notifications})
                        \o [i \in DOMAIN early |-> Request(c, i, early[i])]]
  BY <1>2 DEF NewClient, Disable, Replaced
<1>7. ClientsInv'
  <2>1. early \in Seq(Calls) /\ Len(early) \in Nat /\ nextId' \in [Channels -> Nat]
    BY <1>6 DEF ClientsInv
  <2>2. [i \in DOMAIN early |-> Request(c, i, early[i])] \in Seq(Message(c))
    <3>1. DOMAIN early = 1 .. Len(early) /\ \A i \in 1 .. Len(early) : early[i] \in Calls
      BY <2>1
    <3>2. \A i \in 1 .. Len(early) : Request(c, i, early[i]) \in Message(c)
      BY <3>1 DEF Request, Message
    <3> QED BY <2>1, <3>1, <3>2
  <2>3. SetToSeq({Notification(c, x) : x \in notifications}) \in Seq(Message(c))
    BY NotificationsSent DEF ClientsInv
  <2> DEFINE made == SetToSeq({Notification(c, x) : x \in notifications})
                       \o [i \in DOMAIN early |-> Request(c, i, early[i])]
  <2>4. made \in Seq(Message(c)) /\ buffer' = [buffer EXCEPT ![c] = made]
    BY <1>6, <2>2, <2>3
  <2> HIDE DEF made
  <2>5. DOMAIN buffer' = Channels
    BY <2>4 DEF ClientsInv
  <2>6. ASSUME NEW k \in Channels
        PROVE  /\ buffer'[k] \in Seq(Message(k))
               /\ k > rpc' => buffer'[k] = <<>>
               /\ buffer'[k] # <<>> => k = rpc' \/ k \in stopped'
    <3>1. CASE k = c
      <4>1. c \in DOMAIN buffer
        BY DEF ClientsInv
      <4>2. buffer'[k] = made
        BY <2>4, <3>1, <4>1
      <4>3. made \in Seq(Message(k))
        BY <2>4, <3>1
      <4>4. k = rpc' /\ ~(k > rpc')
        BY <1>3, <1>6, <3>1
      <4> QED BY <4>2, <4>3, <4>4
    <3>2. CASE k # c
      <4>1. buffer'[k] = buffer[k] /\ k \in Nat /\ k # 0
        BY <2>4, <3>2 DEF ClientsInv, Channels
      <4>2. buffer[k] \in Seq(Message(k)) /\ (buffer[k] # <<>> => k = rpc \/ k \in stopped)
        BY DEF ClientsInv
      <4>3. k > rpc' => buffer[k] = <<>>
        BY <1>3, <1>5, <1>6, <4>1 DEF ClientsInv
      <4> QED BY <1>6, <4>1, <4>2, <4>3
    <3> QED BY <3>1, <3>2
  <2>7. rpc' \in 0 .. latest' /\ state'[rpc'] = "OPEN" /\ rpc' = latest'
    BY <1>1, <1>3, <1>4, <1>6
  <2>8. early' \in Seq(Calls) /\ IsFiniteSet(notifications') /\ notifications' \subseteq Calls
    BY <1>6 DEF ClientsInv
  <2> QED BY <2>1, <2>5, <2>6, <2>7, <2>8 DEF ClientsInv
<1>8. /\ sent \in Seq([channel: Channels, data: Data]) /\ SortedByChannel(sent)
      /\ waiting \in Seq(Data) /\ Sorted(waiting)
      /\ \A j \in 1 .. Len(waiting) : Client(waiting[j]) <= rpc
  BY DEF BatchesInv
<1>9. \A i \in 1 .. Len(sent) : sent[i].channel # c
  BY <1>1 DEF BatchesInv
<1>10. /\ sent' \in Seq([channel: Channels, data: Data]) /\ SortedByChannel(sent')
       /\ \A i \in 1 .. Len(sent') :
            \/ i \in 1 .. Len(sent) /\ sent'[i] = sent[i]
            \/ \E j \in 1 .. Len(waiting) : sent'[i] = [channel |-> c, data |-> waiting[j]]
  BY <1>2, <1>8, <1>9, SendingSorted
<1>11. ASSUME NEW i \in 1 .. Len(sent')
       PROVE  /\ Client(sent'[i].data) <= sent'[i].channel
              /\ state'[sent'[i].channel] \in {"OPEN", "CLOSED"}
  <2>1. CASE i \in 1 .. Len(sent) /\ sent'[i] = sent[i]
    <3>1. sent[i].channel \in Channels \ {c}
      BY <1>8, <1>9, <2>1, SentFields
    <3> QED BY <1>4, <2>1, <3>1 DEF BatchesInv
  <2>2. CASE \E j \in 1 .. Len(waiting) : sent'[i] = [channel |-> c, data |-> waiting[j]]
    <3>1. PICK j \in 1 .. Len(waiting) : sent'[i] = [channel |-> c, data |-> waiting[j]]
      BY <2>2
    <3>2. waiting[j] \in Data
      BY <1>8
    <3>3. Client(waiting[j]) \in Channels /\ Client(waiting[j]) <= rpc
      BY <1>8, <3>2, BatchHasClient
    <3>4. Client(waiting[j]) <= c
      BY <1>3, <1>5, <3>3 DEF Channels
    <3> QED BY <1>4, <3>1, <3>4
  <2> QED BY <1>10, <2>1, <2>2
<1>12. waiting' \in Seq(Data) /\ Sorted(waiting') /\ Len(waiting') = 0
  BY <1>2 DEF Sorted
<1>13. BatchesInv'
  BY <1>10, <1>11, <1>12 DEF BatchesInv
<1> QED BY <1>1, <1>7, <1>13

LEMMA InvStep ==
  ASSUME Inv, [Next]_vars
  PROVE  Inv'
<1>1. CASE Start
  BY <1>1, StartStep
<1>2. CASE Stop
  BY <1>2, StoppingStep
<1>3. CASE Timers
  BY <1>3, ReconnectStep, UptimeStep DEF Timers
<1>4. CASE Response
  <2>1. UNCHANGED <<channelVars, rpc, nextId, buffer, stopped, early, notifications>>
    BY <1>4 DEF Response
  <2>2. ChannelsInv'
    BY <2>1, UnchangedChannels DEF Inv, channelVars
  <2>3. latest <= latest'
    BY <2>1, ChannelsAssumption DEF Inv, ChannelsInv, channelVars
  <2> QED BY <2>1, <2>2, <2>3, ClientsKept DEF Inv, channelVars
<1>5. CASE \E c \in Channels : Opens(c) \/ Closes(c) \/ Flush(c)
  BY <1>5, OpenStep, CloseStep, FlushStep DEF Inv
<1>6. CASE \E x \in Calls : Call(x) \/ Notify(x)
  <2>1. ClientsInv' /\ BatchesInv'
    BY <1>6, CallStep DEF Inv
  <2>2. ChannelsInv'
    BY <1>6, UnchangedChannels DEF Inv, Call, Notify, channelVars
  <2> QED BY <2>1, <2>2 DEF Inv
<1>7. CASE UNCHANGED vars
  <2>1. ChannelsInv'
    BY <1>7, UnchangedChannels DEF Inv, vars, channelVars
  <2>2. latest <= latest'
    BY <1>7, ChannelsAssumption DEF Inv, ChannelsInv, vars, channelVars
  <2> QED BY <1>7, <2>1, <2>2, ClientsKept DEF Inv, vars, channelVars, clientVars
<1> QED BY <1>1, <1>2, <1>3, <1>4, <1>5, <1>6, <1>7 DEF Next

LEMMA InvInit ==
  ASSUME Init
  PROVE  Inv
<1> USE ChannelsAssumption DEF Init, ChannelInit, Channels
<1>1. ChannelsInv
  <2>1. state \in [Channels -> ChannelState] /\ \A c \in Channels : state[c] = "none" /\ c > latest
    BY DEF ChannelState
  <2>2. ~active /\ ~open /\ channel = 0 /\ latest = 0 /\ ~reconnecting /\ 0 \in 0 .. MaxChannels
    OBVIOUS
  <2>3. \A c \in Channels : ~(c < latest)
    OBVIOUS
  <2>4. OpenTracksChannel
    BY DEF OpenTracksChannel
  <2> QED BY <2>1, <2>2, <2>3, <2>4 DEF ChannelsInv
<1>2. ClientsInv
  BY FS_EmptySet DEF ClientsInv
<1>3. BatchesInv
  BY DEF BatchesInv, Sorted, SortedByChannel
<1> QED BY <1>1, <1>2, <1>3 DEF Inv

LEMMA Invariance == Spec => []Inv
BY InvInit, InvStep, PTL DEF Spec

(* No stop() and no new channel leaves a live channel behind, and no timer  *)
(* set before a stop() makes one, however many connections come and go.     *)
THEOREM NothingLeftConnecting == Spec => []NoStrayChannel
<1>1. Inv => NoStrayChannel
  <2> SUFFICES ASSUME Inv, NEW c \in Channels \ closing, state[c] \in {"CONNECTING", "OPEN"}
               PROVE  active /\ c = channel
    BY DEF NoStrayChannel
  <2>1. c \in Nat /\ latest \in Nat /\ c = latest /\ latest # 0
    BY ChannelsAssumption DEF Inv, ChannelsInv, Channels
  <2> QED BY <2>1 DEF Inv, ChannelsInv
<1> QED BY <1>1, Invariance, PTL

(* open$ tells the state of the present channel after any sequence of       *)
(* starts, stops, failures and late events of earlier channels.             *)
THEOREM OpenIsRight == Spec => []OpenTracksChannel
<1>1. Inv => OpenTracksChannel
  BY DEF Inv, ChannelsInv
<1> QED BY <1>1, Invariance, PTL

(* On each connection, whatever clients of earlier connections flushed      *)
(* while there was none goes out before what the connection's client sends. *)
THEOREM OldBatchesGoFirst == Spec => []StaleFirst
<1>1. Inv => StaleFirst
  <2>1. Inv => sent \in Seq([channel: Channels, data: Data]) /\ SortedByChannel(sent)
    BY DEF Inv, BatchesInv
  <2>2. Inv => DOMAIN sent = 1 .. Len(sent)
    BY <2>1
  <2> QED BY <2>1, <2>2 DEF StaleFirst, SortedByChannel, Client
<1> QED BY <1>1, Invariance, PTL
=============================================================================
