---------------------------- MODULE RtspRequest ----------------------------
(***************************************************************************)
(* The request parser of an RTSP connection (RtspRequest, BufferReader,    *)
(* RtspConnection::OnRead) and a client whose bytes arrive in any pieces.  *)
(* A token stands for the text of a request line or of a header, for a     *)
(* CRLF, and for the header or a part of the payload of an interleaved     *)
(* RTCP packet; a read brings any number of them.  What matters of a text  *)
(* is kept: which header it is, its value, and how many words it has,      *)
(* because a header that is taken for a request line is judged by that.    *)
(***************************************************************************)
EXTENDS Integers, Sequences, SequencesExt

CONSTANTS
  Requests,      \* the requests the client may make, without their CSeq
  MaxMessages,   \* bound: requests and RTCP packets of the client
  MaxSize        \* MAX_RTSP_MESSAGE_SIZE, in tokens

\* A header is none of the other tokens, and not the CSeq that Send puts in.
IsHeader(h) ==
  /\ h = [kind |-> h.kind, value |-> h.value, words |-> h.words]
  /\ h.kind \notin {"line", "CRLF", "$", "payload", "CSeq"}
  /\ h.kind = "Transport" =>
       h.value \in [mode : {"tcp", "udp", "multicast"}, numbers : Nat \X Nat]

ASSUME Assumption ==
  /\ MaxMessages \in Nat /\ MaxSize \in Nat \ {0}
  /\ \A m \in Requests :
       /\ m \in [method : STRING, cseq : Nat, url : STRING, headers : Seq(ToSet(m.headers))]
       /\ \A h \in ToSet(m.headers) : IsHeader(h)

VARIABLES
  wire,      \* tokens sent and not yet read
  buffer,    \* BufferReader
  request,   \* rtsp_request_
  open,      \* OnRead has not asked for the connection to be closed
  sent,      \* history: the messages of the client
  served,    \* history: the requests handed to the HandleCmd... functions
  whole      \* history: each read brought exactly one message

vars == <<wire, buffer, request, open, sent, served, whole>>

-----------------------------------------------------------------------------
(* Tokens and messages.                                                    *)

Crlf    == [kind |-> "CRLF"]
Dollar  == [kind |-> "$"]
Payload == [kind |-> "payload"]

\* Headers: CSeq, Accept, Transport (of a mode, with channels or ports),
\* Session, Authorization and any other.
Header(kind, value, words) == [kind |-> kind, value |-> value, words |-> words]

RtcpPacket == <<Dollar, Payload, Payload>>

\* A request as clients write it: CSeq comes first, each line ends in CRLF
\* and an empty line ends the request.
Tokens(m) ==
  IF m.method = "RTCP" THEN RtcpPacket
  ELSE <<[kind |-> "line", method |-> m.method, url |-> m.url], Crlf,
         Header("CSeq", m.cseq, 2), Crlf>>
       \o [i \in 1..(2 * Len(m.headers)) |->
             IF i % 2 = 1 THEN m.headers[(i + 1) \div 2] ELSE Crlf]
       \o <<Crlf>>

-----------------------------------------------------------------------------
(* BufferReader.                                                           *)

FindFirstCrlf(buf) == SelectInSeq(buf, LAMBDA t : t = Crlf)
FindLastCrlf(buf)  == SelectLastInSeq(buf, LAMBDA t : t = Crlf)

\* Retrieve and RetrieveUntil: more than there is empties the buffer.
Retrieve(buf, n) == IF n <= Len(buf) THEN SubSeq(buf, n + 1, Len(buf)) ELSE << >>

\* ReadAll of what recv has put behind the writer index.
ReadInto(buf, n) == buf \o SubSeq(wire, 1, n)

-----------------------------------------------------------------------------
(* RtspRequest: parameters are added with emplace, which keeps the first.  *)

NoParams == [k \in {} |-> 0]

Emplace(params, key, value) ==
  [k \in DOMAIN params \union {key} |-> IF k \in DOMAIN params THEN params[k] ELSE value]

Get(params, key, default) == IF key \in DOMAIN params THEN params[key] ELSE default

NewRequest ==
  [state |-> "kParseRequestLine", method |-> "NONE", line |-> NoParams,
   header |-> NoParams, auth |-> FALSE, transport |-> "none", channel |-> 0]

\* Mutant: the headers of the last request are kept.
ResetLine(r) == [r EXCEPT !.state = "kParseRequestLine", !.line = NoParams]

\* Reset leaves method_, auth_response_, transport_ and channel_id_ alone.
Reset(r) == [r EXCEPT !.state = "kParseRequestLine", !.line = NoParams,
                      !.header = NoParams]

\* Has and First look for a header anywhere in the text.
Has(text, P(_)) == \E i \in DOMAIN text : P(text[i])
First(text, P(_)) == text[SelectInSeq(text, P)]

\* ParseCSeq.
IsCSeq(t) == t.kind = "CSeq"
ParseCSeq(r, text) ==
  IF Has(text, IsCSeq)
  THEN [r EXCEPT !.header = Emplace(@, "cseq", First(text, IsCSeq).value)] ELSE r

\* ParseAccept: Accept and sdp are both there.
ParseAccept(text) == Has(text, LAMBDA t : t.kind = "Accept")

IsTcp(t) == t.kind = "Transport" /\ t.value.mode = "tcp"
IsAvp(t) == t.kind = "Transport" /\ t.value.mode \in {"udp", "multicast"}

\* ParseTransport: interleaved transport is looked for first.  A multicast
\* transport stores the ports 0; a unicast one must name its own.
ParseTransport(r, text) ==
  CASE Has(text, IsTcp) ->
         LET t == First(text, IsTcp).value
         IN  [ok |-> TRUE,
              r  |-> [r EXCEPT !.transport = "tcp",
                               !.header = Emplace(Emplace(@, "rtp_channel", t.numbers[1]),
                                                  "rtcp_channel", t.numbers[2])]]
    [] ~Has(text, IsTcp) /\ Has(text, IsAvp) ->
         LET t == First(text, IsAvp).value
             n == IF t.mode = "udp" THEN t.numbers ELSE <<0, 0>>
         IN  [ok |-> TRUE,
              r  |-> [r EXCEPT !.transport = t.mode,
                               !.header = Emplace(Emplace(@, "rtp_port", n[1]),
                                                  "rtcp_port", n[2])]]
    [] OTHER -> [ok |-> FALSE, r |-> r]

\* ParseMediaChannel: channel_1 when the URL names track1.
ParseMediaChannel(r) ==
  [r EXCEPT !.channel = IF Get(r.line, "url", "") = "track1" THEN 1 ELSE 0]

ParseSessionId(text) == Has(text, LAMBDA t : t.kind = "Session")

\* Mutant: a response once given is kept for the requests that give none.
KeepAuthorization(r, text) ==
  IF Has(text, LAMBDA t : t.kind = "Authorization") THEN [r EXCEPT !.auth = TRUE] ELSE r

\* ParseAuthorization: a text without a response clears the one there is.
ParseAuthorization(r, text) ==
  [r EXCEPT !.auth = Has(text, LAMBDA t : t.kind = "Authorization")]

GotAll(r) == [r EXCEPT !.state = "kGotAll"]

Methods == {"OPTIONS", "DESCRIBE", "SETUP", "PLAY", "TEARDOWN", "GET_PARAMETER"}

\* ParseRequestLine, of the text in front of the first CRLF: other than three
\* words are skipped; three that are no request end the connection.  The rest
\* of an RTCP packet in front of a line makes it either of the two, depending
\* on its bytes.
ParseRequestLine(r, text) ==
  LET skipped == [ok |-> TRUE, r |-> r]
      refused == [ok |-> FALSE, r |-> [r EXCEPT !.method = "NONE"]]
  IN  CASE text = << >> -> {skipped}
        [] Len(text) = 1 /\ text[1].kind = "line" ->
             LET t == text[1]
                 s == [r EXCEPT !.method = t.method]
             IN  IF t.method \notin Methods THEN {refused}
                 ELSE IF t.url = "not rtsp" THEN {[ok |-> FALSE, r |-> s]}
                 ELSE {[ok |-> TRUE,
                        r  |-> [s EXCEPT !.line = Emplace(@, "url", t.url),
                                         !.state = "kParseHeadersLine"]]}
        [] Len(text) = 1 /\ text[1].kind \in {"$", "payload"} -> {skipped, refused}
        [] Len(text) = 1 /\ text[1].kind \notin {"line", "$", "payload"} ->
             IF text[1].words = 2 THEN {skipped} ELSE {refused}
        [] OTHER -> {skipped, refused}

\* ParseHeadersLine, of the text in front of the last CRLF: the request is
\* complete as soon as the header its method needs has been seen.
ParseHeadersLine(r0, text) ==
  LET r == ParseCSeq(r0, text)
      a == IF r.method \in {"DESCRIBE", "SETUP", "PLAY"} THEN ParseAuthorization(r, text)
           ELSE r
      t == ParseTransport(a, text)
      done ==
        CASE a.method \in {"OPTIONS", "TEARDOWN", "GET_PARAMETER"} -> GotAll(a)
          [] a.method = "DESCRIBE" /\ ParseAccept(text)  -> GotAll(a)
          [] a.method = "SETUP"    /\ t.ok -> GotAll(ParseMediaChannel(t.r))
          [] a.method = "PLAY"     /\ ParseSessionId(text) -> GotAll(a)
          [] OTHER -> a
  IN  IF "cseq" \notin DOMAIN r.header THEN [ok |-> FALSE, r |-> r]
      ELSE [ok |-> TRUE, r |-> done]

\* The kParseHeadersLine branch of ParseRequest: everything up to the last
\* CRLF of the buffer is the text, whatever requests it holds.
ParseHeaders(r, buf, ok) ==
  LET crlf == FindLastCrlf(buf)
      p    == ParseHeadersLine(r, SubSeq(buf, 1, crlf - 1))
  IN  IF crlf = 0 THEN [ok |-> ok, r |-> r, buf |-> buf]
      ELSE [ok |-> p.ok, r |-> p.r, buf |-> Retrieve(buf, crlf)]

\* ParseRequest: the possible outcomes.  A request line that was skipped ends
\* the call; what is behind it waits for the next read.
ParseRequest(r, buf) ==
  IF buf[1] = Dollar
  THEN {[ok |-> TRUE, r |-> [r EXCEPT !.method = "RTCP"], buf |-> buf]}
  ELSE IF r.state = "kParseHeadersLine" THEN {ParseHeaders(r, buf, TRUE)}
  ELSE LET crlf == FindFirstCrlf(buf)
           rest == Retrieve(buf, crlf)
       IN  IF crlf = 0 THEN {[ok |-> TRUE, r |-> r, buf |-> buf]}
           ELSE {IF p.r.state = "kParseHeadersLine" THEN ParseHeaders(p.r, rest, p.ok)
                 ELSE [ok |-> p.ok, r |-> p.r, buf |-> rest] :
                   p \in ParseRequestLine(r, SubSeq(buf, 1, crlf - 1))}

\* GetCSeq, GetRtspUrl and the other getters; a channel is one byte.
Parameters(r) ==
  [cseq    |-> Get(r.header, "cseq", 0),
   url     |-> Get(r.line, "url", ""),
   numbers |-> IF r.transport = "tcp"
               THEN <<Get(r.header, "rtp_channel", 0) % 256,
                      Get(r.header, "rtcp_channel", 0) % 256>>
               ELSE <<Get(r.header, "rtp_port", 0), Get(r.header, "rtcp_port", 0)>>]

-----------------------------------------------------------------------------
(* RtspConnection.                                                         *)

\* HandleRtcp: a packet is taken out when nothing follows it; when part of it
\* is still missing everything is dropped, the start of a packet whose rest
\* will be taken for a request line; with anything behind it it stays.
HandleRtcp(buf) ==
  IF Len(buf) >= 2 /\ Len(RtcpPacket) >= Len(buf)
  THEN Retrieve(buf, Len(RtcpPacket)) ELSE buf

\* What the HandleCmd... functions look at.  Only SETUP looks at transport.
Handed(r) ==
  LET p == Parameters(r)
      setup == r.method = "SETUP"
  IN  [method |-> r.method, cseq |-> p.cseq, url |-> p.url,
       auth |-> r.auth /\ r.method \in {"DESCRIBE", "SETUP", "PLAY"},
       transport |-> IF setup THEN r.transport ELSE "none",
       numbers |-> IF setup THEN p.numbers ELSE <<0, 0>>,
       channel |-> IF setup THEN r.channel ELSE 0]

\* BuildOptionRes to BuildGetParamterRes: the answer carries the CSeq and,
\* but for OPTIONS and DESCRIBE, the session; a unicast or interleaved SETUP
\* is told the ports or channels it asked for.
Granted(r) ==
  LET p == Handed(r)
  IN  [status |-> 200, cseq |-> p.cseq,
       session |-> r.method \notin {"OPTIONS", "DESCRIBE"},
       numbers |-> IF p.transport = "multicast" THEN <<0, 0>> ELSE p.numbers]

\* BuildNotFoundRes to BuildUnauthorizedRes: 404, 500, 461 and 401.
Refused(r) == [status |-> 400, cseq |-> Parameters(r).cseq, session |-> FALSE,
               numbers |-> <<0, 0>>]

Answers(r) ==
  {Granted(r)} \union
  (IF r.method \in {"DESCRIBE", "SETUP", "PLAY"} THEN {Refused(r)} ELSE {})

\* HandleRtspRequest: the outcomes for the buffer after a read.
HandleRtspRequest(buf) ==
  UNION {CASE ~p.ok -> {[keep |-> FALSE, r |-> p.r, buf |-> p.buf, out |-> << >>]}
           [] p.ok /\ p.r.method = "RTCP" ->
                {[keep |-> TRUE, r |-> p.r, buf |-> HandleRtcp(p.buf), out |-> << >>]}
           [] p.ok /\ p.r.method # "RTCP" /\ p.r.state # "kGotAll" ->
                {[keep |-> TRUE, r |-> p.r, buf |-> p.buf, out |-> << >>]}
           [] OTHER ->
                {[keep |-> TRUE, r |-> Reset(p.r), buf |-> p.buf,
                  out |-> <<[request |-> Handed(p.r), answer |-> a]>>] : a \in Answers(p.r)} :
         p \in ParseRequest(request, buf)}

\* OnRead: what is left is thrown away when it is more than a message.
LeftOver(buf) == IF Len(buf) > MaxSize THEN << >> ELSE buf

-----------------------------------------------------------------------------
Init ==
  /\ wire = << >> /\ buffer = << >>
  /\ request = NewRequest
  /\ open = TRUE
  /\ sent = << >> /\ served = << >>
  /\ whole = TRUE

\* The client, who numbers its requests and may send the next before it has
\* the answer to the last.
Send(m) ==
  /\ open /\ Len(sent) < MaxMessages
  /\ sent' = Append(sent, [m EXCEPT !.cseq = Len(sent) + 1])
  /\ wire' = wire \o Tokens(sent'[Len(sent')])
  /\ UNCHANGED <<buffer, request, open, served, whole>>

\* BufferReader::Read and OnRead, for the first n tokens on the wire.
OnRead(n) ==
  /\ open
  /\ \E h \in HandleRtspRequest(ReadInto(buffer, n)) :
       /\ open'    = h.keep
       /\ request' = h.r
       /\ buffer'  = LeftOver(h.buf)
       /\ served'  = served \o h.out
  /\ wire'  = SubSeq(wire, n + 1, Len(wire))
  /\ whole' = (whole /\ n = Len(wire) /\ wire = Tokens(sent[Len(sent)]))
  /\ UNCHANGED sent

Next ==
  \/ \E m \in Requests : Send(m)
  \/ \E n \in 1..Len(wire) : OnRead(n)

Spec == Init /\ [][Next]_vars

-----------------------------------------------------------------------------
(* Properties.                                                             *)

\* A request as the standards have it, with the headers its method needs: those
\* the methods go by come once, and only where they mean something.
WellFormed(m) ==
  LET Of(kind) == {i \in DOMAIN m.headers : m.headers[i].kind = kind}
  IN  m.method # "RTCP" =>
        /\ m.method \in Methods /\ m.url # "not rtsp"
        /\ m.method = "DESCRIBE" => Of("Accept") # {}
        /\ m.method = "PLAY" => Of("Session") # {}
        /\ IF m.method = "SETUP"
           THEN \E i \in DOMAIN m.headers : Of("Transport") = {i}
           ELSE Of("Transport") = {}
        /\ \A i \in Of("Transport") :
             LET t == m.headers[i].value
             IN  /\ t.mode = "tcp" => t.numbers[1] < 256 /\ t.numbers[2] < 256
                 /\ t.mode = "multicast" => t.numbers = <<0, 0>>
        /\ m.method \notin {"DESCRIBE", "SETUP", "PLAY"} => Of("Authorization") = {}

\* What the client asked for, as the handlers should see it.
Asked(m) ==
  LET T == {h \in ToSet(m.headers) : h.kind = "Transport"}
      t == (CHOOSE h \in T : TRUE).value
  IN  [method |-> m.method, cseq |-> m.cseq, url |-> m.url,
       auth |-> \E h \in ToSet(m.headers) : h.kind = "Authorization",
       transport |-> IF T = {} THEN "none" ELSE t.mode,
       numbers |-> IF T = {} THEN <<0, 0>> ELSE t.numbers,
       channel |-> IF T # {} /\ m.url = "track1" THEN 1 ELSE 0]

\* It is handed to the handlers as it is, and a unicast or interleaved SETUP
\* that is granted is granted what it asked for.
ServedAs(s, m) ==
  /\ s.answer.cseq = m.cseq
  /\ s.request = Asked(m)
  /\ s.answer.status = 200 => s.answer.numbers = Asked(m).numbers

\* A client whose messages come whole and one at a time has each request
\* served, at once, with its own parameters and with nothing of an earlier one:
\* the parser object lives as long as the connection and clears only part of
\* itself between requests, and RTCP packets come in between
\* (HandleRtspRequest, RtspRequest::Reset, HandleRtcp).
WholeRequestsServed ==
  whole /\ wire = << >> /\ (\A i \in DOMAIN sent : WellFormed(sent[i])) =>
    /\ open
    /\ \A i \in DOMAIN sent :
         sent[i].method # "RTCP" => \E j \in DOMAIN served : ServedAs(served[j], sent[i])

\* However the bytes are cut and however many requests are under way: a
\* request is answered at most once and in the order sent, and the method
\* served and the CSeq of the answer are those of one request.  It says no more,
\* because ParseRequest swallows what follows a request in the buffer and looks
\* for its headers in all of it: the transport of a later SETUP may be taken.
AnswersMatchRequests ==
  \A i \in DOMAIN served :
    LET a == served[i].answer
        r == served[i].request
    IN  /\ a.cseq \in DOMAIN sent
        /\ sent[a.cseq].method = r.method
        /\ i > 1 => served[i - 1].answer.cseq < a.cseq
=============================================================================
