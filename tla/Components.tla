----------------------------- MODULE Components -----------------------------
(***************************************************************************)
(* The components that run by themselves, side by side: the face database  *)
(* as a state machine, and the packetizers, the hash functions, the        *)
(* WebSocket codec, the handshake and the adapters of the networks, each   *)
(* of which is given one input.                                            *)
(***************************************************************************)
EXTENDS Faces, RtpPackets, BlockHash, WsCodec, Handshake, Detections

CONSTANT Inputs

VARIABLE input   \* what an algorithm is given; "none" for the face database

-----------------------------------------------------------------------------
(* What the algorithms may be given.                                       *)

Octet == 0..255

\* Sizes of two frames in a row of one source.
Sources == {"H264", "H265", "VP8", "AAC", "G711A"}
PacketInputs ==
  [kind : {"packets"}, source : Sources, first : Nat \ {0}, second : Nat \ {0}]

\* A message in pieces.
HashInputs == [kind : {"hash"}, pieces : Seq(Seq(Octet))]

\* What a frame carries, the key of a browser, and the bytes behind the frame.
\* The length of a payload is an int.
MaxInt == 2147483647
FrameInputs ==
  [kind : {"frame"}, fin : {0, 1}, opcode : 0..15,
   payload : {p \in Seq(Octet) : Len(p) <= MaxInt},
   key : [1..4 -> Octet], next : Seq(Octet)]

TextInputs == [kind : {"text"}, bytes : Seq(Octet)]

\* A browser's key, in one line among others.  A host that is named has a name.
Lines ==
  {h \in [name : STRING, exact : BOOLEAN, spaces : Nat, value : Seq(Octet)] :
     h.name = "Host" => h.value # << >>}
KeyIn(lines, key) ==
  \E i \in DOMAIN lines :
    /\ lines[i].value = key
    /\ \A j \in DOMAIN lines : lines[j].name = "Sec-WebSocket-Key" <=> j = i
HandshakeInputs ==
  {h \in [kind : {"handshake"}, key : Seq(Octet), lines : Seq(Lines)] :
     KeyIn(h.lines, h.key)}

\* What a network has found, less than a frame beyond the frame (OnFrame).
DetectionInputs ==
  {d \in [kind : {"detection"}, class : Nat \ {0},
          left : Int, right : Int, top : Int, bottom : Int] :
     OnFrame(d.left, d.right) /\ OnFrame(d.top, d.bottom)}

ASSUME InputsAssumption ==
  Inputs \subseteq PacketInputs \union HashInputs \union FrameInputs \union TextInputs
                   \union HandshakeInputs \union DetectionInputs

-----------------------------------------------------------------------------
ComponentsInit == Init /\ input \in {[kind |-> "none"]} \union Inputs
ComponentsNext == input.kind = "none" /\ Next /\ UNCHANGED input
ComponentsSpec == ComponentsInit /\ [][ComponentsNext]_<<vars, input>>

-----------------------------------------------------------------------------
(* Properties.                                                             *)

PacketsOf(source, n) ==
  CASE source = "H264"  -> H264Packets(n)
    [] source = "H265"  -> H265Packets(n)
    [] source = "VP8"   -> VP8Packets(n)
    [] source = "AAC"   -> AACPackets(n, 0)
    [] source = "G711A" -> G711APackets(n)

\* A receiver gets the frames it was sent, each once and whole, and nothing is
\* left over that would be put in front of the next one (the HandleFrame of the
\* sources).  A VP8 frame whose last packet is full is the exception: no packet
\* of it is marked, so it is taken for the start of the next frame.
FramesReassemble ==
  input.kind = "packets" =>
    LET one  == PacketsOf(input.source, input.first)
        two  == PacketsOf(input.source, input.second)
        sent == (IF one = << >> THEN << >> ELSE <<Bytes(1, input.first)>>)
                \o (IF two = << >> THEN << >> ELSE <<Bytes(1, input.second)>>)
        full(n) == input.source = "VP8" /\ n % MaxPayload = 0
    IN  ~full(input.first) /\ ~full(input.second) =>
          /\ Reassembled(one, two) = [done |-> sent, part |-> << >>]
          /\ \A i \in DOMAIN one :
               /\ Len(one[i].payload) > 0
               /\ one[i].header + Len(one[i].payload) <= MaxPayload + 1
               /\ one[i].start <=> i = 1

\* The hash functions cut every message into the blocks the standards name,
\* in whatever pieces it comes, around the ends of a block and of the length
\* words, and SHA-1 refuses a message too long to count (Input, PadMessage,
\* md5_append, md5_finish).
MessagesAreHashed == input.kind = "hash" => HashesTheMessage(input.pieces)

\* Server and browser understand each other's frames at every size of the
\* length field, and a frame leaves the next alone (frame_buffer_new,
\* frame_read_cb, myhtonll).  The library's other reader (fetch_payload_length)
\* reads them too, up to the 2048 bytes of its buffer.
FramesAreUnderstood ==
  input.kind = "frame" =>
    /\ WritesTheStandard(input.fin, input.opcode, input.payload)
    /\ ReadsWhatWasSent(input.fin, input.opcode, input.payload, input.key, input.next)
    /\ Len(input.payload) <= 2040 =>
         FetchWebsocketInfo(
           BrowserFrame(input.fin, input.opcode, input.payload, input.key)) =
             [fin |-> input.fin, opcode |-> input.opcode, payload |-> input.payload]

\* Whatever other lines a request has and however they are spelled, the answer
\* of the application's server carries the key that belongs to the browser's;
\* that of the second server does when every line is spelled with one space.
\* Base64 text of any bytes can be turned back (parse_websocket_request,
\* generate_key, fetch_http_info, base64_encode).
HandshakeIsAnswered ==
  /\ input.kind = "handshake" => AnswersTheKey(input.lines, input.key)
  /\ input.kind = "text" => DecodesWhatWasEncoded(input.bytes)

\* The colours are given out for the adapter with the most classes, in whatever
\* order they are set up, and an output lies where the network saw the object
\* (setClassesNumber, setClassColor, drawResult, the two detect functions).
DetectionsAreDrawable == input.kind = "detection" => Drawable(input)
=============================================================================
