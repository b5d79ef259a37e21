------------------------------ MODULE WsCodec ------------------------------
(***************************************************************************)
(* The bytes of the WebSocket connections: the frames the server writes    *)
(* and reads (frame.cpp, websocket.cpp, connection.cpp), the handshake     *)
(* request, and the Base64 text of the accept key.  Numbers have their     *)
(* real widths; a message is a sequence of bytes, and its length stays     *)
(* below 2^31.                                                             *)
(***************************************************************************)
EXTENDS Integers, Sequences, SequencesExt, FiniteSetsExt

-----------------------------------------------------------------------------
(* Byte order (tools.h).  A number lies in memory with its lowest byte     *)
(* first.                                                                  *)

Weight == <<1, 256, 65536, 16777216>>

Memory(n, bytes) ==
  [i \in 1..bytes |-> IF i > 4 THEN 0 ELSE (n \div Weight[i]) % 256]

\* Of at most eight bytes.
Number(memory) ==
  LET Byte(i) == IF i \in DOMAIN memory THEN memory[i] ELSE 0
  IN  Byte(1) + 256 * (Byte(2) + 256 * (Byte(3) + 256 * (Byte(4)
      + 256 * (Byte(5) + 256 * (Byte(6) + 256 * (Byte(7) + 256 * Byte(8)))))))

\* myhtons and myhtonl; each is its own inverse.
Swap(memory) == Reverse(memory)

\* Mutant: the two halves stay where they are.
SwapHalves(memory) == Swap(SubSeq(memory, 1, 4)) \o Swap(SubSeq(memory, 5, 8))

\* myhtonll and myntohll: each half is swapped, and the halves change places.
SwapLong(memory) == Swap(SubSeq(memory, 5, 8)) \o Swap(SubSeq(memory, 1, 4))

-----------------------------------------------------------------------------
(* Frames.                                                                 *)

\* frame_buffer_new: the server never masks.
FrameBuffer(fin, opcode, payload) ==
  LET n == Len(payload)
      c1 == fin * 128 + opcode
  IN  CASE n <= 125               -> <<c1, n>> \o payload
        [] 126 <= n /\ n <= 65535 -> <<c1, 126>> \o Swap(Memory(n, 2)) \o payload
        [] n >= 65536             -> <<c1, 127>> \o SwapLong(Memory(n, 8)) \o payload

\* parse_frame_header.
ParseFrameHeader(b) ==
  [fin |-> b[1] \div 128, opcode |-> b[1] % 16, mask |-> b[2] \div 128,
   payload_len |-> b[2] % 128]

\* The exclusive or of two bytes, from their bits.
Xor(a, b) ==
  LET Bit(weight) == weight * (((a \div weight) + (b \div weight)) % 2)
  IN  Bit(1) + Bit(2) + Bit(4) + Bit(8) + Bit(16) + Bit(32) + Bit(64) + Bit(128)

\* unmask_payload_data.
UnmaskPayloadData(payload, key) ==
  [i \in DOMAIN payload |-> Xor(payload[i], key[((i - 1) % 4) + 1])]

\* frame_read_cb, step ONE to FOUR, of bytes that begin with a masked frame.
\* rest is what it leaves for the next frame.
ReadFrame(b) ==
  LET h    == ParseFrameHeader(b)
      more == CASE h.payload_len <= 125 -> 0
                [] h.payload_len = 126  -> 2
                [] h.payload_len = 127  -> 8
      n    == CASE more = 0 -> h.payload_len
                [] more = 2 -> Number(Swap(SubSeq(b, 3, 4)))
                [] more = 8 -> Number(SwapLong(SubSeq(b, 3, 10)))
      data == 2 + more + 4
  IN  [fin |-> h.fin, opcode |-> h.opcode,
       payload |-> UnmaskPayloadData(SubSeq(b, data + 1, data + n),
                                     SubSeq(b, data - 3, data)),
       rest |-> SubSeq(b, data + n + 1, Len(b))]

\* The browser (external), by RFC 6455: the number of bytes that carry a
\* length is the least that can, with the highest first.
NetworkOrder(n, bytes) ==
  [i \in 1..bytes |->
     IF bytes - i > 3 THEN 0 ELSE (n \div Weight[bytes - i + 1]) % 256]

BrowserLength(n, mask) ==
  CASE n < 126                -> <<mask * 128 + n>>
    [] 126 <= n /\ n < 65536  -> <<mask * 128 + 126>> \o NetworkOrder(n, 2)
    [] n >= 65536             -> <<mask * 128 + 127>> \o NetworkOrder(n, 8)

BrowserFrame(fin, opcode, payload, key) ==
  <<fin * 128 + opcode>> \o BrowserLength(Len(payload), 1) \o key
  \o [i \in DOMAIN payload |-> Xor(payload[i], key[((i - 1) % 4) + 1])]

-----------------------------------------------------------------------------
(* Base64 (base64.cpp).  A character is its index in the alphabet, 64 is   *)
(* the sign that fills the last group.                                     *)

Fill == 64

EncodeGroup(a) ==
  <<a[1] \div 4, (a[1] % 4) * 16 + a[2] \div 16, (a[2] % 16) * 4 + a[3] \div 64, a[3] % 64>>

\* A round of the loop over the bytes: a whole group is encoded, others are kept.
EncodeRound(s, b) ==
  IF Len(s.group) = 2
  THEN [ret |-> s.ret \o EncodeGroup(Append(s.group, b)), group |-> << >>]
  ELSE [ret |-> s.ret, group |-> Append(s.group, b)]

EncodeLoop(bytes) ==
  LET After[i \in 0..Len(bytes)] ==
        IF i = 0 THEN [ret |-> << >>, group |-> << >>]
        ELSE EncodeRound(After[i - 1], bytes[i])
  IN  After[Len(bytes)]

\* Of a last group, one character more than it has bytes.
EncodeRest(group) ==
  SubSeq(EncodeGroup(group \o [j \in 1..(3 - Len(group)) |-> 0]), 1, Len(group) + 1)

\* base64_encode.
Base64Encode(bytes) ==
  LET s == EncodeLoop(bytes)
  IN  IF s.group = << >> THEN s.ret
      ELSE s.ret \o EncodeRest(s.group) \o [j \in 1..(3 - Len(s.group)) |-> Fill]

DecodeGroup(c) ==
  <<(c[1] * 4 + (c[2] % 64) \div 16) % 256,
    ((c[2] % 16) * 16 + (c[3] % 64) \div 4) % 256,
    ((c[3] % 4) * 64 + c[4]) % 256>>

\* A round of the loop over the characters of the alphabet in front.
DecodeRound(s, c) ==
  IF Len(s.group) = 3
  THEN [ret |-> s.ret \o DecodeGroup(Append(s.group, c)), group |-> << >>]
  ELSE [ret |-> s.ret, group |-> Append(s.group, c)]

DecodeLoop(text) ==
  LET After[i \in 0..Len(text)] ==
        IF i = 0 THEN [ret |-> << >>, group |-> << >>]
        ELSE DecodeRound(After[i - 1], text[i])
  IN  After[Len(text)]

\* The characters in front of the first sign that is none of the alphabet.
Readable(text) ==
  LET end == SelectInSeq(text, LAMBDA c : c = Fill)
  IN  IF end = 0 THEN text ELSE SubSeq(text, 1, end - 1)

\* The characters a last group lacks are looked up as well and not found (255).
DecodeRest(group) ==
  SubSeq(DecodeGroup(group \o [j \in 1..(4 - Len(group)) |-> 255]), 1, Len(group) - 1)

\* base64_decode.
Base64Decode(text) ==
  LET s == DecodeLoop(Readable(text))
  IN  IF s.group = << >> THEN s.ret ELSE s.ret \o DecodeRest(s.group)

-----------------------------------------------------------------------------
(* What is true of each message; stated here, checked by the module that   *)
(* enumerates messages.                                                    *)

\* A frame of the server is the one the standard prescribes.
WritesTheStandard(fin, opcode, payload) ==
  FrameBuffer(fin, opcode, payload) =
    <<fin * 128 + opcode>> \o BrowserLength(Len(payload), 0) \o payload

\* A browser's frame comes out as it went in, and what follows it is left.
ReadsWhatWasSent(fin, opcode, payload, key, next) ==
  ReadFrame(BrowserFrame(fin, opcode, payload, key) \o next) =
    [fin |-> fin, opcode |-> opcode, payload |-> payload, rest |-> next]

\* Text of whole groups, from which the bytes come back.
DecodesWhatWasEncoded(bytes) ==
  /\ Base64Decode(Base64Encode(bytes)) = bytes
  /\ Len(Base64Encode(bytes)) % 4 = 0
=============================================================================
