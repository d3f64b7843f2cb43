------------------------ MODULE MCWsServerConnection ------------------------
(* Frames of up to three octets, so that all three forms of a length occur  *)
(* (inline, two octets, eight octets take 0..1, 2..3 and 4 octets).         *)
EXTENDS WsServerConnection

Frame(fin, opcode, data) == [fin |-> fin, opcode |-> opcode, data |-> data]

MCMask == <<0, 1, 1, 0>>
MCOutgoing == {Frame(1, BINARY, <<1, 0>>), Frame(1, TEXT, <<1>>)}
MCNoHeader == [kind |-> "no header"]

MCScripts ==
  { (* a message of each length form, between them a ping *)
    <<Frame(1, BINARY, <<0, 1>>), Frame(1, PING, <<1>>), Frame(1, TEXT, <<1>>)>>,
    <<Frame(1, BINARY, <<0, 1, 1, 0>>), Frame(1, BINARY, <<>>)>>,
    (* fragments with control frames between them *)
    <<Frame(0, TEXT, <<0>>), Frame(1, PING, <<>>), Frame(1, CONTINUE, <<1, 1>>), Frame(1, BINARY, <<1>>)>>,
    <<Frame(0, BINARY, <<1>>), Frame(0, CONTINUE, <<0, 1>>), Frame(1, CONTINUE, <<1>>)>>,
    (* too large as one frame, and as a sum of fragments *)
    <<Frame(1, BINARY, <<0, 1, 1, 0, 1>>), Frame(1, TEXT, <<1>>)>>,
    <<Frame(0, TEXT, <<0, 1, 0>>), Frame(1, CONTINUE, <<1, 1>>), Frame(1, TEXT, <<1>>)>>,
    (* a new message among the fragments of another, an oversized ping *)
    <<Frame(0, TEXT, <<0>>), Frame(1, TEXT, <<1>>)>>,
    <<Frame(1, PONG, <<1>>), Frame(1, PING, <<1, 1>>), Frame(1, TEXT, <<1>>)>>,
    (* the peer closes, and what follows the close frame *)
    <<Frame(1, TEXT, <<1>>), Frame(1, CLOSE, <<1, 1>>), Frame(1, TEXT, <<0>>)>>,
    <<Frame(1, CLOSE, <<1>>), Frame(1, TEXT, <<0>>)>> }
=============================================================================
