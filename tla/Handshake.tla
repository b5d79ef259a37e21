----------------------------- MODULE Handshake -----------------------------
(***************************************************************************)
(* The opening handshake of the WebSocket library: the request parser and  *)
(* the answer of the server that is used (websocket.cpp), and the other    *)
(* server of the library (Websocket_Handler, Websocket_Request).  A header *)
(* line is its name, whether the name is spelled as in the standard or in  *)
(* other letters, the spaces behind its colon, and the bytes of its value. *)
(***************************************************************************)
EXTENDS Integers, Sequences, SequencesExt, WsCodec, BlockHash

Header(name, exact, spaces, value) ==
  [name |-> name, exact |-> exact, spaces |-> spaces, value |-> value]

\* MAGIC_KEY, one byte for its text.
Guid == <<200>>

\* The hash of OpenSSL (external): 20 bytes that tell short texts apart.
SHA1(text) == [i \in 1..20 |-> IF i <= Len(text) THEN text[i] ELSE 0]

-----------------------------------------------------------------------------
(* websocket.cpp.                                                          *)

Fields == {"Connection", "Upgrade", "Host", "Origin", "Cookie",
           "Sec-WebSocket-Key", "Sec-WebSocket-Version"}

NoFields == [name \in Fields |-> << >>]

\* Mutant: names are compared with strcmp.
ParseExactRequest(lines) ==
  LET Put(req, h) == IF h.name \in Fields /\ h.exact THEN [req EXCEPT ![h.name] = h.value]
                     ELSE req
      After[i \in 0..Len(lines)] == IF i = 0 THEN NoFields ELSE Put(After[i - 1], lines[i])
  IN  After[Len(lines)]

\* parse_websocket_request: names in any letters, spaces skipped, the last of
\* several lines kept, and the first byte of a host lost.
ParseWebsocketRequest(lines) ==
  LET Put(req, h) == CASE h.name \notin Fields -> req
                       [] h.name = "Host"      -> [req EXCEPT !["Host"] = Tail(h.value)]
                       [] OTHER                -> [req EXCEPT ![h.name] = h.value]
      After[i \in 0..Len(lines)] == IF i = 0 THEN NoFields ELSE Put(After[i - 1], lines[i])
  IN  After[Len(lines)]

GenerateKey(key) == Base64Encode(SHA1(key \o Guid))

\* The other lines of the response never change.
GenerateWebsocketResponse(req) == [accept |-> GenerateKey(req["Sec-WebSocket-Key"])]

-----------------------------------------------------------------------------
(* Websocket_Handler: a name counts as it is spelled, of the spaces one is *)
(* taken for part of the separator, and a line without one is skipped.     *)

FetchHttpInfo(lines) ==
  LET Put(map, h) ==
        LET value == [i \in 1..(h.spaces - 1) |-> 32] \o h.value
            key   == <<h.name, h.exact>>
        IN  IF h.spaces = 0 THEN map
            ELSE [k \in DOMAIN map \union {key} |-> IF k = key THEN value ELSE map[k]]
      After[i \in 0..Len(lines)] ==
        IF i = 0 THEN [k \in {} |-> << >>] ELSE Put(After[i - 1], lines[i])
  IN  After[Len(lines)]

\* parse_str, up to the Base64 text of the digest.
ParseStr(map) ==
  LET key == <<"Sec-WebSocket-Key", TRUE>>
      server_key == (IF key \in DOMAIN map THEN map[key] ELSE << >>) \o Guid
  IN  Sha1Result(Sha1Input(Sha1Reset, server_key)).digest

\* fetch_websocket_info: the frame it finds in its buffer.  The length of a
\* long frame is taken from the first four of its eight bytes.
FetchWebsocketInfo(b) ==
  LET mask == b[2] \div 128
      len7 == b[2] % 128
      more == CASE len7 = 126 -> 2 [] len7 = 127 -> 4 [] OTHER -> 0
      n    == IF more = 0 THEN len7 ELSE Number(Swap(SubSeq(b, 3, 2 + more)))
      data == 2 + more + (IF mask = 1 THEN 4 ELSE 0)
      got  == SubSeq(b, data + 1, data + n)
  IN  [fin |-> b[1] \div 128, opcode |-> b[1] % 16,
       payload |-> IF mask = 1 THEN UnmaskPayloadData(got, SubSeq(b, data - 3, data))
                   ELSE got]

-----------------------------------------------------------------------------
\* The accept key of both servers is that of the key the browser sent, for the
\* second one only when the browser spells the line as the standard does.
AnswersTheKey(lines, key) ==
  LET accept == GenerateWebsocketResponse(ParseWebsocketRequest(lines)).accept
  IN  /\ Len(accept) % 4 = 0
      /\ Base64Decode(accept) = SHA1(key \o Guid)
      /\ (\A i \in DOMAIN lines : lines[i].exact /\ lines[i].spaces = 1) =>
           ParseStr(FetchHttpInfo(lines)) = Sha1Standard(key \o Guid)
=============================================================================
