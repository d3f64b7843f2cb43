------------------------- MODULE WsServerConnection -------------------------
(***************************************************************************)
(* A WebSocket connection of Http1Server, with the handlers that           *)
(* RpcServer.enableWsRpc() attaches to it. The peer's octets arrive in     *)
(* chunks; one chunk is handled by a loop, one iteration a step, and until *)
(* it ends (`handling`) nothing else runs. The frames are encoded into the *)
(* writer that all connections and requests of the server share.           *)
(***************************************************************************)
EXTENDS WsFrames

CONSTANTS
  Scripts,              \* sequences of frames the peer may send
  Mask,                 \* the peer's mask
  Outgoing,             \* frames the server may want to send
  MaxSends,             \* bound on them
  maxIncomingMessage,
  NoHeader

VARIABLES
  script, read,         \* what the peer sends; how many of its octets have arrived
  cut,                  \* history: the first frame whose header a chunk ended within, or 0
  phase,                \* "http", "ws" after the upgrade, "rejected"
  reader,               \* decoder.reader
  current, start,       \* currentFrameHeader, fragmentStartFrameHeader
  fragments, size,      \* _fragments, joined; _fragmentsSize
  handling, closed,
  writer,               \* octets that encodes which failed have left in the writer
  buffer, timer,        \* __buffer, __writeTimer
  out,                  \* octets the socket has taken
  sent,                 \* history: frames given to write() before it was closed
  received              \* history: messages given to onmessage; `late` after onClose()

readVars == <<script, read, cut, phase, reader, current, start, fragments, size, received>>
writeVars == <<writer, buffer, timer, out, sent, closed>>
vars == <<readVars, handling, writeVars>>

Wire(frames) == FlattenSeq([i \in DOMAIN frames |-> Encode(frames[i], Mask)])

(* Whether the octet n of the peer's is within the header of its frame i,   *)
(* behind the first octet, or within a control frame, which is read with    *)
(* its payload or not at all.                                               *)
WithinHeader(n, i) ==
  LET frame == script[i]
      before == Len(Wire(First(script, i - 1)))
      whole == IF frame.opcode < CLOSE THEN EncodeHdr(1, 0, Len(frame.data), Mask)
               ELSE Encode(frame, Mask)
  IN  n \in before + 2 .. before + Len(whole) - 1

(* An octet of no frame: all that a failed encode leaves.                   *)
Leftover == -1
Left == {<<>>, <<Leftover>>}

Init ==
  /\ script \in Scripts
  /\ read = 0 /\ cut = 0
  /\ phase = "http"
  /\ reader = <<>> /\ current = NoHeader /\ start = NoHeader
  /\ fragments = <<>> /\ size = 0
  /\ handling = FALSE /\ closed = FALSE
  /\ writer = <<>>
  /\ buffer = <<>> /\ timer = FALSE /\ out = <<>>
  /\ sent = <<>> /\ received = <<>>

(* The HTTP upgrade finds an endpoint for the path, or ends the socket.     *)
Upgrade ==
  /\ phase = "http"
  /\ phase' \in {"ws", "rejected"}
  /\ UNCHANGED <<script, read, cut, reader, current, start, fragments, size, received,
                 handling, writeVars>>

-----------------------------------------------------------------------------
(* Mutant: the timer of write() survives.                                   *)
OnCloseKeepsTimer == closed' = TRUE /\ UNCHANGED timer

(* onClose() stops the write timer, the socket and, by onclose, the RPC     *)
(* processor. It has no guard: it may run more than once.                   *)
OnClose == closed' = TRUE /\ timer' = FALSE

(* close() writes its frame past the buffer, and in front of it what is left*)
(* in the writer.                                                           *)
CloseFrame == [fin |-> 1, opcode |-> CLOSE, data |-> <<1, 0>>]
CloseConnection(left) ==
  /\ out' = IF closed THEN out ELSE out \o left \o Encode(CloseFrame, <<>>)
  /\ writer' = <<>>
  /\ OnClose
  /\ UNCHANGED <<buffer, sent>>

(* Mutant: the timer is armed from the second buffer on.                    *)
WriteArmsLate(octetStrings, frames) ==
  /\ buffer' = IF closed THEN buffer ELSE buffer \o octetStrings
  /\ timer' = (timer \/ (~closed /\ Len(buffer') > 1))
  /\ sent' = IF closed THEN sent ELSE sent \o frames
  /\ UNCHANGED <<out, closed>>

(* write(), once per buffer.                                                *)
Write(octetStrings, frames) ==
  /\ buffer' = IF closed THEN buffer ELSE buffer \o octetStrings
  /\ timer' = (timer \/ ~closed)
  /\ sent' = IF closed THEN sent ELSE sent \o frames
  /\ UNCHANGED <<out, closed>>

(* The setImmediate callback; under back-pressure it closes the connection, *)
(* after which the socket takes nothing more.                               *)
WriteTimer ==
  /\ timer /\ ~handling
  /\ buffer' = <<>>
  /\ timer' = FALSE
  /\ \/ out' = out \o FlattenSeq(buffer) /\ closed' = closed
     \/ out' = out /\ closed' = TRUE
  /\ UNCHANGED <<readVars, handling, writer, sent>>

(* RpcServer's send callback resets the writer; sendBinMsg() writes header  *)
(* and data apart. When it cannot encode a message, the callback closes the *)
(* connection, with what was encoded by then still in the writer.           *)
(* sendTxtMsg() and sendPing() write one buffer, behind what is left.       *)
Send ==
  \/ /\ Len(sent) < MaxSends
     /\ \E frame \in Outgoing :
          LET header == EncodeHdr(frame.fin, frame.opcode, Len(frame.data), <<>>)
              whole == writer \o Encode(frame, <<>>)
          IN  Write(IF frame.opcode = BINARY THEN <<header, frame.data>> ELSE <<whole>>, <<frame>>)
     /\ writer' = <<>>
  \/ \E left \in Left : CloseConnection(left)

ServerSends ==
  /\ phase = "ws" /\ ~handling
  /\ Send
  /\ UNCHANGED <<readVars, handling>>

(* Others encode into the writer and fail, or flush or reset it.            *)
OthersWrite ==
  /\ phase = "ws" /\ ~handling
  /\ writer' \in Left
  /\ UNCHANGED <<readVars, handling, buffer, timer, out, sent, closed>>

-----------------------------------------------------------------------------
(* A chunk, that ends anywhere. The handler is gone once the connection is  *)
(* closed.                                                                  *)
Data ==
  /\ phase = "ws" /\ ~handling /\ ~closed
  /\ \E n \in read + 1 .. Len(Wire(script)) :
       /\ read' = n
       /\ cut' \in IF cut = 0 /\ \E i \in DOMAIN script : WithinHeader(n, i)
                   THEN {i \in DOMAIN script : WithinHeader(n, i)} ELSE {cut}
       /\ reader' = reader \o SubSeq(Wire(script), read + 1, n)
  /\ handling' = TRUE
  /\ UNCHANGED <<script, phase, current, start, fragments, size, received, writeVars>>

Quietly == UNCHANGED writeVars
Returns == handling' = FALSE
Continues == handling' = TRUE
Closes == OnClose /\ UNCHANGED <<writer, buffer, out, sent>>

(* onmessage: a message that cannot be decoded or processed closes; the RPC *)
(* processor may answer at once.                                            *)
OnMessage(data, isText) ==
  /\ received' = Append(received, [data |-> data, text |-> isText, late |-> closed])
  /\ Quietly \/ Send \/ CloseConnection(writer)

TooLarge(total) == total > maxIncomingMessage

(* defaultOnFragment                                                        *)
OnFragment(isLast, data, isText) ==
  LET total == size + Len(data)
  IN  \/ /\ TooLarge(total)
         /\ size' = total
         /\ Closes
         /\ UNCHANGED <<fragments, received>>
      \/ /\ ~TooLarge(total) /\ ~isLast
         /\ size' = total
         /\ fragments' = fragments \o data
         /\ Quietly /\ received' = received
      \/ /\ ~TooLarge(total) /\ isLast
         /\ size' = 0
         /\ fragments' = <<>>
         /\ OnMessage(fragments \o data, isText)

(* Mutant: a frame waits for the first octet of the next one.               *)
HasMoreThan(header, octets) == header.length < Len(octets)
HasAll(header, octets) == header.length <= Len(octets)

(* Data of the current frame: too much, not all of it yet, or all.          *)
FrameData ==
  /\ handling /\ current # NoHeader
  /\ UNCHANGED <<script, read, cut, phase>>
  /\ \/ /\ current.length > maxIncomingMessage
        /\ Closes /\ Returns
        /\ UNCHANGED <<reader, current, start, fragments, size, received>>
     \/ /\ current.length <= maxIncomingMessage /\ ~HasAll(current, reader)
        /\ Quietly /\ Returns
        /\ UNCHANGED <<reader, current, start, fragments, size, received>>
     \/ /\ current.length <= maxIncomingMessage /\ HasAll(current, reader)
        /\ LET data == Xor(First(reader, current.length), current.mask)
               isLast == current.fin = 1
           IN  \/ /\ start # NoHeader
                  /\ start' = IF isLast THEN NoHeader ELSE start
                  /\ OnFragment(isLast, data, start.opcode = TEXT)
               \/ /\ start = NoHeader
                  /\ OnMessage(data, current.opcode = TEXT)
                  /\ UNCHANGED <<start, fragments, size>>
        /\ reader' = From(reader, current.length + 1)
        /\ current' = NoHeader
        /\ Continues

(* The header of the next frame. A close frame does not end the loop.       *)
FrameHeader ==
  /\ handling /\ current = NoHeader
  /\ UNCHANGED <<script, read, cut, phase, fragments, size, received>>
  /\ LET h == ReadFrameHeader(reader)
     IN  \/ h.kind = "none" /\ reader' = h.rest /\ Quietly /\ Returns
            /\ UNCHANGED <<current, start>>
         \/ h.kind = "throw" /\ reader' = h.rest /\ Closes /\ Returns
            /\ UNCHANGED <<current, start>>
         \/ h.kind = "ping" /\ reader' = h.rest /\ Continues
            /\ LET pong == [fin |-> 1, opcode |-> PONG, data |-> h.data]
               IN  Write(<<writer \o Encode(pong, <<>>)>>, <<pong>>) /\ writer' = <<>>
            /\ UNCHANGED <<current, start>>
         \/ h.kind = "pong" /\ reader' = h.rest /\ Quietly /\ Continues
            /\ UNCHANGED <<current, start>>
         \/ h.kind = "close" /\ Closes
            /\ reader' = From(h.rest, (IF CloseDataReadable(h) THEN h.length ELSE 0) + 1)
            /\ handling' = CloseDataReadable(h)
            /\ UNCHANGED <<current, start>>
         \/ /\ h.kind = "data" /\ start # NoHeader /\ h.opcode # CONTINUE
            /\ reader' = h.rest /\ Closes /\ Returns
            /\ UNCHANGED <<current, start>>
         \/ /\ h.kind = "data" /\ (start = NoHeader \/ h.opcode = CONTINUE)
            /\ reader' = h.rest /\ current' = [h EXCEPT !.rest = <<>>]
            /\ start' = IF h.fin = 0 THEN current' ELSE start
            /\ Quietly /\ Continues

(* The socket's own close or error.                                         *)
SocketCloses ==
  /\ phase = "ws" /\ ~handling /\ ~closed
  /\ Closes
  /\ UNCHANGED <<readVars, handling>>

Next ==
  \/ Upgrade \/ Data \/ FrameHeader \/ FrameData \/ SocketCloses
  \/ WriteTimer \/ ServerSends \/ OthersWrite

Spec == Init /\ [][Next]_vars

(* setImmediate callbacks run, and handlers run to their end.               *)
FairSpec == Spec /\ WF_vars(WriteTimer) /\ WF_vars(FrameHeader \/ FrameData)

-----------------------------------------------------------------------------
(* The messages of a sequence of frames, with the number of fragments.      *)
MessagesOf(frames) ==
  LET Add(acc, frame) ==
        LET message == [data |-> acc.data \o frame.data, parts |-> acc.parts + 1,
                        text |-> IF acc.parts = 0 THEN frame.opcode = TEXT ELSE acc.text]
        IN  CASE frame.opcode >= CLOSE -> acc
              [] frame.opcode < CLOSE /\ frame.fin = 0 -> message @@ acc
              [] frame.opcode < CLOSE /\ frame.fin = 1 ->
                   [done |-> Append(acc.done, message), data |-> <<>>, parts |-> 0, text |-> FALSE]
  IN  FoldLeft(Add, [done |-> <<>>, data |-> <<>>, parts |-> 0, text |-> FALSE], frames).done

(* What of the peer's messages does not depend on a frame whose header a    *)
(* chunk ended within: the decoder takes the first octets of such a header  *)
(* and forgets them, so that what follows is read as something else.        *)
Expected == MessagesOf(IF cut = 0 THEN script ELSE First(script, cut - 1))

(* Wherever the peer's octets are cut but within a header or control frame, *)
(* however frames are fragmented and control frames lie between fragments,  *)
(* what onmessage gets while the connection is open are the peer's messages,*)
(* in order, with their whole payload; the kind of the message is right for *)
(* up to two fragments. A cut header changes nothing of those before it.    *)
MessagesIntact ==
  LET onTime == SelectSeq(received, LAMBDA m : ~m.late)
  IN  /\ cut = 0 => Len(onTime) <= Len(Expected)
      /\ \A i \in DOMAIN onTime \cap DOMAIN Expected :
           /\ onTime[i].data = Expected[i].data
           /\ Expected[i].parts < 3 => onTime[i].text = Expected[i].text

(* When every octet of the peer has been handled and the connection is      *)
(* open, onmessage has had every message: none waits for more octets. With  *)
(* a cut header it has had every message before that.                       *)
AllDelivered ==
  (phase = "ws" /\ read = Len(Wire(script)) /\ ~handling /\ ~closed) =>
    /\ Len(received) >= Len(Expected)
    /\ cut = 0 => Len(received) = Len(Expected)

FramesOut == FramesOf(SelectSeq(out, LAMBDA octet : octet # Leftover))

(* The socket gets whole frames, unaltered and in the order of the sends,   *)
(* and nothing after a close frame, although header and payload are         *)
(* buffered apart and close() goes past the buffer; what failed encodes left*)
(* in the shared writer comes out too, but between frames, never in one.    *)
FramesWhole ==
  LET closing == FramesOut # <<>> /\ Last(FramesOut) = CloseFrame
      data == IF closing THEN Front(FramesOut) ELSE FramesOut
  IN  /\ IsPrefix(data, sent)
      /\ \A i \in DOMAIN out : out[i] = Leftover =>
           Torn \notin ToSet(FramesOf(SelectSeq(First(out, i), LAMBDA octet : octet # Leftover)))

(* Each frame given to an open connection reaches the socket, unless the    *)
(* connection closes first.                                                 *)
EventuallyWritten ==
  \A n \in 1 .. MaxSends : Len(sent) >= n ~> closed \/ Len(FramesOut) >= n
=============================================================================
