------------------------------ MODULE WsFrames ------------------------------
(***************************************************************************)
(* WsFrameEncoder and WsFrameDecoder, octet by octet, with narrower octets:*)
(* lengths, masks and payloads are written with one bit an octet, so that  *)
(* xor is addition modulo 2, and lengths below 2 (126 in the code) fit in  *)
(* the second octet. The widths of a header are those of the code.         *)
(***************************************************************************)
EXTENDS Integers, Sequences, SequencesExt

Base == 2                       \* 256
Inline == 2                     \* 126; Inline + 1 is 127
FinBit == 16                    \* 0x80
MaskBit == Inline + 2           \* 0x80

CONTINUE == 0
TEXT == 1
BINARY == 2
CLOSE == 8
PING == 9
PONG == 10

From(octets, first) == SubSeq(octets, first, Len(octets))
First(octets, n) == SubSeq(octets, 1, n)

(* Big-endian numbers: u16() and u32().                                     *)
Octets(n, width) == [i \in 1 .. width |-> (n \div Base ^ (width - i)) % Base]
Number(octets) == FoldLeft(LAMBDA n, octet : n * Base + octet, 0, octets)

(* Mutant: a length that needs the long form gets the short one.            *)
EncodeLengthWrong(length) ==
  CASE length < Inline -> <<length>>
    [] length >= Inline /\ length <= Base ^ 2 -> <<Inline>> \o Octets(length, 2)
    [] length > Base ^ 2 -> <<Inline + 1>> \o Octets(0, 4) \o Octets(length, 4)

EncodeLength(length) ==
  CASE length < Inline -> <<length>>
    [] length >= Inline /\ length < Base ^ 2 -> <<Inline>> \o Octets(length, 2)
    [] length >= Base ^ 2 -> <<Inline + 1>> \o Octets(0, 4) \o Octets(length, 4)

Xor(data, mask) ==
  IF mask = <<>> THEN data
  ELSE [i \in DOMAIN data |-> (data[i] + mask[((i - 1) % 4) + 1]) % 2]

(* writeHdr(); a mask of 0 is none.                                         *)
EncodeHdr(fin, opcode, length, mask) ==
  LET octets == EncodeLength(length)
  IN  <<fin * FinBit + opcode, Head(octets) + (IF mask = <<>> THEN 0 ELSE MaskBit)>>
        \o Tail(octets) \o mask

Encode(frame, mask) ==
  EncodeHdr(frame.fin, frame.opcode, Len(frame.data), mask) \o Xor(frame.data, mask)

(* What readFrameHeader() returns, and what is left in the reader: `kind`   *)
(* is the class of the frame, "none" for undefined, "throw" for an error.   *)
Incomplete(rest) == [kind |-> "none", rest |-> rest]
Fails(rest) == [kind |-> "throw", rest |-> rest]

ControlFrame(header) ==
  LET available == Len(header.rest) >= header.length
  IN  CASE header.opcode = CLOSE -> [header EXCEPT !.kind = "close"]
        [] header.opcode \in {PING, PONG} /\ header.length >= Inline -> Fails(header.rest)
        [] header.opcode \in {PING, PONG} /\ header.length < Inline /\ ~available ->
             Incomplete(header.rest)
        [] header.opcode \in {PING, PONG} /\ header.length < Inline /\ available ->
             [header EXCEPT !.kind = IF header.opcode = PING THEN "ping" ELSE "pong",
                            !.data = Xor(First(header.rest, header.length), header.mask),
                            !.rest = From(@, header.length + 1)]
        [] OTHER -> Fails(header.rest)

(* The first two octets are taken before the decoder sees whether the rest  *)
(* of the header is there, the length before it looks for the mask.         *)
ReadFrameHeader(octets) ==
  IF Len(octets) < 2 THEN Incomplete(octets)
  ELSE
    LET code == octets[2] % MaskBit
        masked == octets[2] \div MaskBit = 1
        width == CASE code < Inline -> 0 [] code = Inline -> 2 [] code > Inline -> 8
        tail == From(octets, 3)
        afterLength == From(tail, width + 1)
        rest == IF masked THEN From(afterLength, 5) ELSE afterLength
        header == [kind |-> "data", fin |-> octets[1] \div FinBit, opcode |-> octets[1] % FinBit,
                   length |-> IF width = 0 THEN code
                              ELSE Number(SubSeq(tail, IF width = 8 THEN 5 ELSE 1, width)),
                   mask |-> IF masked THEN First(afterLength, 4) ELSE <<>>,
                   data |-> <<>>, rest |-> rest]
    IN  IF Len(tail) < width THEN Incomplete(tail)
        ELSE IF masked /\ Len(afterLength) < 4 THEN Incomplete(afterLength)
        ELSE IF header.opcode >= CLOSE THEN ControlFrame(header)
        ELSE header

(* readCloseFrameData(): the payload is a code of two octets and a reason.  *)
CloseDataReadable(header) ==
  /\ header.length < Inline + 4
  /\ header.length # 1
  /\ header.length <= Len(header.rest)

(* All frames of a sequence of whole frames, from position k + 1 on; `Torn` *)
(* when the last one is not whole.                                          *)
Torn == [fin |-> 0, opcode |-> CONTINUE, data |-> <<Base>>]
FramesOf(octets) ==
  LET frames[k \in 0 .. Len(octets)] ==
        IF k = Len(octets) THEN <<>>
        ELSE LET h == ReadFrameHeader(From(octets, k + 1))
                 unread == IF h.kind \in {"data", "close"} THEN h.length ELSE 0
                 end == Len(octets) - Len(h.rest) + unread
             IN  IF h.kind \in {"none", "throw"} \/ end > Len(octets) THEN <<Torn>>
                 ELSE <<[fin |-> h.fin, opcode |-> h.opcode,
                         data |-> IF unread = 0 THEN h.data
                                  ELSE Xor(First(h.rest, unread), h.mask)]>> \o frames[end]
  IN  frames[0]
=============================================================================
