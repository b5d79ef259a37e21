------------------------- MODULE RtspRequestProofs -------------------------
(***************************************************************************)
(* Proofs about the request parser: however the bytes of a client are cut  *)
(* and joined, the method served and the CSeq of the answer are those of   *)
(* one request, in the order sent; and a client whose messages come whole  *)
(* is served each request as it was asked.                                 *)
(***************************************************************************)
EXTENDS RtspRequest, SequenceTheorems, WellFoundedInduction, TLAPS

-----------------------------------------------------------------------------
(* Types.                                                                  *)

\* The strings: the provers do not know that a literal is one.
Text == STRING \union {"", "NONE", "RTCP"}

\* What may be on the wire.
Alphabet ==
  {Crlf, Dollar, Payload}
  \union [kind : {"line"}, method : Text, url : Text]
  \union {Header("CSeq", c, 2) : c \in Nat}
  \union UNION {ToSet(m.headers) : m \in Requests}

Sendable == {[m EXCEPT !.cseq = c] : m \in Requests, c \in Nat}

States     == {"kParseRequestLine", "kParseHeadersLine", "kGotAll"}
Transports == {"none", "tcp", "udp", "multicast"}
Keys       == {"cseq", "rtp_channel", "rtcp_channel", "rtp_port", "rtcp_port"}
Pairs      == Nat \X Nat

\* A map with some of these keys.
Params(K, V) == UNION {[D -> V] : D \in SUBSET K}

Parsers ==
  [state : States, method : Text,
   line : Params({"url"}, Text),
   header : Params(Keys, Nat),
   auth : BOOLEAN, transport : Transports, channel : {0, 1}]

Asks ==
  [method : Text, cseq : Nat, url : Text, auth : BOOLEAN, transport : Transports,
   numbers : Pairs, channel : {0, 1}]

Outs ==
  [request : Asks,
   answer : [status : {200, 400}, cseq : Nat, session : BOOLEAN, numbers : Pairs]]

\* Every variable has its type.
RequestTypeOK ==
  /\ wire \in Seq(Alphabet) /\ buffer \in Seq(Alphabet)
  /\ request \in Parsers
  /\ open \in BOOLEAN /\ whole \in BOOLEAN
  /\ sent \in Seq(Sendable) /\ served \in Seq(Outs)

-----------------------------------------------------------------------------
(* The inductive invariant.                                                *)

\* What the parser has yet to take.
Stream == buffer \o wire

\* Request number c was sent, with this method.
Expects(method, c) == c \in 1..Len(sent) /\ sent[c].method = method

\* All that is still to come is of later requests than c.
After(c, s) == \A i \in 1..Len(s) : IsCSeq(s[i]) => c < s[i].value

\* Behind every request line its own CSeq comes first, and the CSeqs are in
\* order: neither a cut nor a loss in front changes that.
Framed(s) ==
  /\ \A i \in 1..Len(s) : s[i].kind = "line" =>
       /\ i + 3 <= Len(s)
       /\ s[i + 1] = Crlf /\ s[i + 3] = Crlf
       /\ IsCSeq(s[i + 2]) /\ Expects(s[i].method, s[i + 2].value)
  /\ \A i \in 1..Len(s) : IsCSeq(s[i]) => s[i].value \in 1..Len(sent)
  /\ \A i, j \in 1..Len(s) : i < j /\ IsCSeq(s[i]) /\ IsCSeq(s[j]) => s[i].value < s[j].value

SentInv == \A i \in 1..Len(sent) : sent[i].cseq = i

\* The request being read is one that was sent, none like it has been served and
\* none is to come.
Current(method, c, s) ==
  /\ Expects(method, c) /\ After(c, s)
  /\ \A i \in 1..Len(served) : served[i].answer.cseq < c

\* Between its line and its end a request has its CSeq, or that comes next.
\* A parser that has met an RTCP packet there serves nothing any more.
Ready(r, s) ==
  /\ r.state # "kGotAll"
  /\ r.state = "kParseRequestLine" => "cseq" \notin DOMAIN r.header
  /\ r.state = "kParseHeadersLine" /\ r.method # "RTCP" =>
       IF "cseq" \in DOMAIN r.header THEN Current(r.method, r.header["cseq"], s)
       ELSE Len(s) >= 2 /\ IsCSeq(s[1]) /\ Expects(r.method, s[1].value) /\ s[2] = Crlf

ParserInv == open => Ready(request, Stream)

ServedInv ==
  \A i \in 1..Len(served) :
    LET c == served[i].answer.cseq
    IN  Expects(served[i].request.method, c) /\ After(c, Stream)

\* The first n messages that are requests have been served.
Done(n) ==
  \A i \in 1..n : sent[i].method # "RTCP" => \E j \in 1..Len(served) : ServedAs(served[j], sent[i])

\* While messages come whole the parser is between two of them, and they are
\* served but for what is on the wire: the last message or more than that.
WholeInv ==
  whole /\ (\A i \in 1..Len(sent) : WellFormed(sent[i])) =>
    /\ open /\ buffer = << >>
    /\ request.state = "kParseRequestLine"
    /\ request.line = NoParams /\ request.header = NoParams
    /\ \/ wire = << >> /\ Done(Len(sent))
       \/ sent # << >> /\ wire = Tokens(sent[Len(sent)]) /\ Done(Len(sent) - 1)
       \/ sent # << >> /\ Len(wire) > Len(Tokens(sent[Len(sent)]))

IInv ==
  /\ RequestTypeOK /\ SentInv /\ Framed(Stream) /\ ParserInv /\ ServedInv
  /\ AnswersMatchRequests /\ WholeInv

-----------------------------------------------------------------------------
(* Lemmas about tokens and sequences of them.                              *)

\* A set of natural numbers has a least element.
LEMMA LeastIs ==
  ASSUME NEW T, T \subseteq Nat, T # {}
  PROVE  Min(T) \in T /\ \A y \in T : Min(T) <= y
<1>1. \E x \in T : \A y \in T : <<y, x>> \notin OpToRel(<, Nat)
  BY NatLessThanWellFounded, WFMin
<1>2. \A x, y \in Nat : <<y, x>> \notin OpToRel(<, Nat) => x <= y
  BY DEF OpToRel
<1>3. \E x \in T : \A y \in T : x <= y
  BY <1>1, <1>2
<1> QED
  BY <1>3 DEF Min

\* A set of indices has a greatest.
LEMMA GreatestIs ==
  ASSUME NEW n \in Nat, NEW T, T \subseteq 1..n, T # {}
  PROVE  Max(T) \in T /\ \A y \in T : y <= Max(T)
<1> DEFINE U == {n - i : i \in T}
<1>1. U \subseteq Nat /\ U # {}
  <2>1. PICK i \in T : TRUE
    OBVIOUS
  <2>2. n - i \in U /\ \A j \in 1..n : n - j \in Nat
    BY <2>1
  <2> QED
    BY <2>2
<1>2. Min(U) \in U /\ \A u \in U : Min(U) <= u
  <2> HIDE DEF U
  <2> QED
    BY <1>1, LeastIs
<1>3. PICK t \in T : Min(U) = n - t
  BY <1>2
<1>4. \A i \in T : i <= t
  <2> TAKE i \in T
  <2>1. n - i \in U /\ n - t <= n - i
    BY <1>2, <1>3
  <2> QED
    BY <2>1
<1> QED
  BY <1>4 DEF Max

\* What a token of a kind is.
LEMMA TokenIs ==
  /\ Crlf.kind = "CRLF" /\ Dollar.kind = "$" /\ Payload.kind = "payload"
  /\ \A t \in Alphabet :
       /\ t.kind = "CRLF" => t = Crlf
       /\ t.kind = "$" => t = Dollar
       /\ t.kind = "line" => t \in [kind : {"line"}, method : Text, url : Text]
       /\ IsCSeq(t) => t = Header("CSeq", t.value, 2) /\ t.value \in Nat
       /\ t.kind = "Transport" =>
            t.value \in [mode : {"tcp", "udp", "multicast"}, numbers : Pairs]
<1>1. Crlf.kind = "CRLF" /\ Dollar.kind = "$" /\ Payload.kind = "payload"
  BY DEF Crlf, Dollar, Payload
<1>2. ASSUME NEW c \in Nat, NEW t, t = Header("CSeq", c, 2)
      PROVE  t.kind = "CSeq" /\ t.value = c
  BY <1>2 DEF Header
<1>3. ASSUME NEW m \in Requests, NEW t \in ToSet(m.headers)
      PROVE  /\ t.kind \notin {"line", "CRLF", "$", "payload", "CSeq"}
             /\ t.kind = "Transport" =>
                  t.value \in [mode : {"tcp", "udp", "multicast"}, numbers : Pairs]
  BY Assumption DEF IsHeader, Pairs
<1>4. ASSUME NEW t \in Alphabet
      PROVE  /\ t.kind = "CRLF" => t = Crlf
             /\ t.kind = "$" => t = Dollar
             /\ t.kind = "line" => t \in [kind : {"line"}, method : Text, url : Text]
             /\ IsCSeq(t) => t = Header("CSeq", t.value, 2) /\ t.value \in Nat
             /\ t.kind = "Transport" =>
                  t.value \in [mode : {"tcp", "udp", "multicast"}, numbers : Pairs]
  <2>1. CASE t \in {Crlf, Dollar, Payload}
    BY <1>1, <2>1 DEF IsCSeq
  <2>2. CASE t \in [kind : {"line"}, method : Text, url : Text]
    BY <2>2 DEF IsCSeq
  <2>3. CASE t \in {Header("CSeq", c, 2) : c \in Nat}
    BY <1>2, <2>3 DEF IsCSeq
  <2>4. CASE t \in UNION {ToSet(m.headers) : m \in Requests}
    BY <1>3, <2>4 DEF IsCSeq
  <2> QED
    BY <2>1, <2>2, <2>3, <2>4 DEF Alphabet
<1> QED
  BY <1>1, <1>4

\* t is what is left of s when something is taken off the front.
IsRest(t, s) ==
  /\ t \in Seq(Alphabet)
  /\ \E k \in 0..Len(s) : Len(t) = Len(s) - k /\ \A i \in 1..Len(t) : t[i] = s[i + k]

\* Nothing may be left, or everything.
LEMMA RestBounds ==
  ASSUME NEW s \in Seq(Alphabet)
  PROVE  IsRest(s, s) /\ IsRest(<< >>, s)
<1>1. Len(s) \in Nat
  BY LenProperties
<1>2. IsRest(s, s)
  <2>1. 0 \in 0..Len(s) /\ Len(s) = Len(s) - 0 /\ \A i \in 1..Len(s) : s[i] = s[i + 0]
    BY <1>1
  <2> QED
    BY <2>1 DEF IsRest
<1>3. IsRest(<< >>, s)
  <2>1. Len(s) \in 0..Len(s) /\ Len(<< >>) = Len(s) - Len(s) /\ << >> \in Seq(Alphabet)
    BY <1>1
  <2> QED
    BY <2>1 DEF IsRest
<1> QED
  BY <1>2, <1>3

\* What is left of a rest is a rest.
LEMMA RestOfRest ==
  ASSUME NEW s \in Seq(Alphabet), NEW t, IsRest(t, s), NEW u, IsRest(u, t)
  PROVE  IsRest(u, s)
<1>1. PICK k \in 0..Len(s) : Len(t) = Len(s) - k /\ \A i \in 1..Len(t) : t[i] = s[i + k]
  BY DEF IsRest
<1>2. PICK j \in 0..Len(t) : Len(u) = Len(t) - j /\ \A i \in 1..Len(u) : u[i] = t[i + j]
  BY DEF IsRest
<1>3. Len(s) \in Nat /\ Len(t) \in Nat /\ Len(u) \in Nat
  BY LenProperties DEF IsRest
<1>4. j + k \in 0..Len(s) /\ Len(u) = Len(s) - (j + k)
  BY <1>1, <1>2, <1>3
<1>5. \A i \in 1..Len(u) : u[i] = s[i + (j + k)]
  BY <1>1, <1>2, <1>3
<1> QED
  BY <1>4, <1>5 DEF IsRest

\* So it is with what comes behind both.
LEMMA RestBefore ==
  ASSUME NEW s \in Seq(Alphabet), NEW t, IsRest(t, s), NEW w \in Seq(Alphabet)
  PROVE  IsRest(t \o w, s \o w)
<1>1. PICK k \in 0..Len(s) : Len(t) = Len(s) - k /\ \A i \in 1..Len(t) : t[i] = s[i + k]
  BY DEF IsRest
<1>2. Len(s) \in Nat /\ Len(t) \in Nat /\ Len(w) \in Nat /\ t \in Seq(Alphabet)
  BY LenProperties DEF IsRest
<1>3. /\ t \o w \in Seq(Alphabet) /\ Len(t \o w) = Len(t) + Len(w)
      /\ Len(s \o w) = Len(s) + Len(w)
      /\ \A i \in 1..Len(t) + Len(w) :
           (t \o w)[i] = IF i <= Len(t) THEN t[i] ELSE w[i - Len(t)]
      /\ \A i \in 1..Len(s) + Len(w) :
           (s \o w)[i] = IF i <= Len(s) THEN s[i] ELSE w[i - Len(s)]
  BY <1>2, ConcatProperties
<1>4. k \in 0..Len(s \o w) /\ Len(t \o w) = Len(s \o w) - k
  BY <1>1, <1>2, <1>3
<1>5. ASSUME NEW i \in 1..Len(t \o w)
      PROVE  (t \o w)[i] = (s \o w)[i + k]
  <2>1. i \in 1..Len(t) + Len(w) /\ i + k \in 1..Len(s) + Len(w)
    BY <1>1, <1>2, <1>3
  <2>2. CASE i <= Len(t)
    BY <1>1, <1>2, <1>3, <2>1, <2>2
  <2>3. CASE ~(i <= Len(t))
    <3>1. ~(i + k <= Len(s)) /\ i + k - Len(s) = i - Len(t)
      BY <1>1, <1>2, <2>1, <2>3
    <3> QED
      BY <1>3, <2>1, <2>3, <3>1
  <2> QED
    BY <2>2, <2>3
<1> QED
  BY <1>3, <1>4, <1>5 DEF IsRest

\* Retrieve takes off the front.
LEMMA RetrieveIs ==
  ASSUME NEW s \in Seq(Alphabet), NEW n \in Nat
  PROVE  /\ IsRest(Retrieve(s, n), s)
         /\ n <= Len(s) =>
              /\ Len(Retrieve(s, n)) = Len(s) - n
              /\ \A i \in 1..(Len(s) - n) : Retrieve(s, n)[i] = s[i + n]
<1>1. Len(s) \in Nat /\ \A i \in 1..Len(s) : s[i] \in Alphabet
  BY ElementOfSeq, LenProperties
<1>2. CASE n <= Len(s)
  <2>1. n + 1 \in Int /\ \A i \in (n + 1)..Len(s) : s[i] \in Alphabet
    BY <1>1
  <2>2. /\ SubSeq(s, n + 1, Len(s)) \in Seq(Alphabet)
        /\ Len(SubSeq(s, n + 1, Len(s))) = Len(s) - n
        /\ \A i \in 1..(Len(s) - n) : SubSeq(s, n + 1, Len(s))[i] = s[i + n]
    BY <1>1, <1>2, <2>1, SubSeqProperties
  <2>3. Retrieve(s, n) = SubSeq(s, n + 1, Len(s))
    BY <1>2 DEF Retrieve
  <2>4. n \in 0..Len(s)
    BY <1>1, <1>2
  <2> QED
    BY <2>2, <2>3, <2>4 DEF IsRest
<1>3. CASE ~(n <= Len(s))
  <2>1. Retrieve(s, n) = << >>
    BY <1>3 DEF Retrieve
  <2> QED
    BY <1>3, <2>1, RestBounds
<1> QED
  BY <1>2, <1>3

\* Tokens may be joined from either end.
LEMMA Joined ==
  ASSUME NEW s \in Seq(Alphabet), NEW t \in Seq(Alphabet), NEW u \in Seq(Alphabet)
  PROVE  (s \o t) \o u = s \o (t \o u)
<1> DEFINE A == Alphabet
<1>1. s \in Seq(A) /\ t \in Seq(A) /\ u \in Seq(A)
  OBVIOUS
<1> HIDE DEF A
<1> QED
  BY <1>1, ConcatAssociative

\* A part at the front of a sequence of tokens.
LEMMA FrontIs ==
  ASSUME NEW s \in Seq(Alphabet), NEW n \in 0..Len(s)
  PROVE  /\ SubSeq(s, 1, n) \in Seq(Alphabet) /\ Len(SubSeq(s, 1, n)) = n
         /\ \A i \in 1..n : SubSeq(s, 1, n)[i] = s[i]
<1>1. Len(s) \in Nat /\ \A i \in 1..Len(s) : s[i] \in Alphabet
  BY ElementOfSeq, LenProperties
<1>2. \A i \in 1..n : s[i] \in Alphabet
  BY <1>1
<1> QED
  BY <1>1, <1>2, SubSeqProperties

\* The order of requests in a stream is that of its rest.
LEMMA FramedRest ==
  ASSUME NEW s \in Seq(Alphabet), NEW t, IsRest(t, s)
  PROVE  /\ Framed(s) => Framed(t)
         /\ \A c \in Nat : After(c, s) => After(c, t)
<1>1. PICK k \in 0..Len(s) : Len(t) = Len(s) - k /\ \A i \in 1..Len(t) : t[i] = s[i + k]
  BY DEF IsRest
<1>2. Len(s) \in Nat /\ Len(t) \in Nat
  BY LenProperties DEF IsRest
<1>3. \A i \in 1..Len(t) : i + k \in 1..Len(s) /\ t[i] = s[i + k]
  BY <1>1, <1>2
<1>4. ASSUME Framed(s) PROVE Framed(t)
  <2>1. ASSUME NEW i \in 1..Len(t), t[i].kind = "line"
        PROVE  /\ i + 3 <= Len(t)
               /\ t[i + 1] = Crlf /\ t[i + 3] = Crlf
               /\ IsCSeq(t[i + 2]) /\ Expects(t[i].method, t[i + 2].value)
    <3>1. /\ (i + k) + 3 <= Len(s)
          /\ s[(i + k) + 1] = Crlf /\ s[(i + k) + 3] = Crlf
          /\ IsCSeq(s[(i + k) + 2]) /\ Expects(s[i + k].method, s[(i + k) + 2].value)
      BY <1>3, <1>4, <2>1 DEF Framed
    <3>2. /\ i + 3 <= Len(t) /\ i + 1 \in 1..Len(t) /\ i + 2 \in 1..Len(t)
          /\ i + 3 \in 1..Len(t)
      <4>1. Len(t) = Len(s) - k /\ k \in Nat /\ i \in Nat
        BY <1>1
      <4>2. i + 3 <= Len(t)
        BY <1>2, <3>1, <4>1
      <4> QED
        BY <1>2, <4>1, <4>2
    <3>3. /\ t[i] = s[i + k] /\ t[i + 1] = s[(i + k) + 1]
          /\ t[i + 2] = s[(i + k) + 2] /\ t[i + 3] = s[(i + k) + 3]
      BY <1>1, <1>2, <3>2
    <3> QED
      BY <3>1, <3>2, <3>3
  <2>2. \A i \in 1..Len(t) : IsCSeq(t[i]) => t[i].value \in 1..Len(sent)
    BY <1>3, <1>4 DEF Framed
  <2>3. ASSUME NEW i \in 1..Len(t), NEW j \in 1..Len(t), i < j, IsCSeq(t[i]), IsCSeq(t[j])
        PROVE  t[i].value < t[j].value
    <3>1. i + k < j + k
      BY <1>1, <1>2, <2>3
    <3> QED
      BY <1>3, <1>4, <2>3, <3>1 DEF Framed
  <2> QED
    BY <2>1, <2>2, <2>3 DEF Framed
<1>5. \A c \in Nat : After(c, s) => After(c, t)
  BY <1>3 DEF After
<1> QED
  BY <1>4, <1>5

\* The first CRLF of a buffer, and the last.
LEMMA FirstCrlfIs ==
  ASSUME NEW s \in Seq(Alphabet)
  PROVE  LET c == FindFirstCrlf(s)
         IN  /\ c \in 0..Len(s)
             /\ c = 0 => \A i \in 1..Len(s) : s[i] # Crlf
             /\ c # 0 => s[c] = Crlf /\ \A i \in 1..Len(s) : s[i] = Crlf => c <= i
<1> DEFINE I == {i \in 1..Len(s) : s[i] = Crlf}
<1>1. Len(s) \in Nat
  BY LenProperties
<1>2. FindFirstCrlf(s) = IF I # {} THEN Min(I) ELSE 0
  BY DEF FindFirstCrlf, SelectInSeq
<1>3. I \subseteq Nat /\ (I # {} => Min(I) \in I /\ \A i \in I : Min(I) <= i)
  <2>1. I \subseteq Nat
    BY <1>1
  <2> HIDE DEF I
  <2> QED
    BY <2>1, LeastIs
<1> QED
  BY <1>1, <1>2, <1>3

\* The last line break of the buffer, or 0 when there is none.
LEMMA LastCrlfIs ==
  ASSUME NEW s \in Seq(Alphabet)
  PROVE  LET c == FindLastCrlf(s)
         IN  /\ c \in 0..Len(s)
             /\ c = 0 => \A i \in 1..Len(s) : s[i] # Crlf
             /\ c # 0 => s[c] = Crlf /\ \A i \in 1..Len(s) : s[i] = Crlf => i <= c
<1> DEFINE I == {i \in 1..Len(s) : s[i] = Crlf}
<1>1. Len(s) \in Nat
  BY LenProperties
<1>2. FindLastCrlf(s) = IF I # {} THEN Max(I) ELSE 0
  BY DEF FindLastCrlf, SelectLastInSeq
<1>3. I \subseteq 1..Len(s) /\ (I # {} => Max(I) \in I /\ \A i \in I : i <= Max(I))
  <2>1. I \subseteq 1..Len(s)
    OBVIOUS
  <2> HIDE DEF I
  <2> QED
    BY <1>1, <2>1, GreatestIs
<1> QED
  BY <1>1, <1>2, <1>3

-----------------------------------------------------------------------------
(* Lemmas about the parser.                                                *)

\* The first header of each of the kinds that are looked for.
LEMMA FirstCSeqIs ==
  ASSUME NEW s \in Seq(Alphabet), Has(s, IsCSeq)
  PROVE  \E k \in 1..Len(s) :
           /\ First(s, IsCSeq) = s[k] /\ IsCSeq(s[k])
           /\ \A i \in 1..Len(s) : IsCSeq(s[i]) => k <= i
<1> DEFINE I == {i \in 1..Len(s) : IsCSeq(s[i])}
<1>1. First(s, IsCSeq) = s[IF I # {} THEN Min(I) ELSE 0]
  BY DEF First, SelectInSeq
<1>2. Len(s) \in Nat /\ DOMAIN s = 1..Len(s)
  BY LenProperties
<1>3. I # {} /\ I \subseteq Nat
  BY <1>2 DEF Has
<1>4. Min(I) \in I /\ \A i \in I : Min(I) <= i
  <2> HIDE DEF I
  <2> QED
    BY <1>3, LeastIs
<1> QED
  BY <1>1, <1>3, <1>4

\* The first header that a search for a transport finds is one of that transport.
LEMMA FirstTransportIs ==
  ASSUME NEW s \in Seq(Alphabet)
  PROVE  /\ Has(s, IsTcp) => \E k \in 1..Len(s) : First(s, IsTcp) = s[k] /\ IsTcp(s[k])
         /\ Has(s, IsAvp) => \E k \in 1..Len(s) : First(s, IsAvp) = s[k] /\ IsAvp(s[k])
<1> DEFINE I == {i \in 1..Len(s) : IsTcp(s[i])}
           J == {i \in 1..Len(s) : IsAvp(s[i])}
<1>1. /\ First(s, IsTcp) = s[IF I # {} THEN Min(I) ELSE 0]
      /\ First(s, IsAvp) = s[IF J # {} THEN Min(J) ELSE 0]
  BY DEF First, SelectInSeq
<1>2. Len(s) \in Nat /\ DOMAIN s = 1..Len(s)
  BY LenProperties
<1>3. /\ I \subseteq Nat /\ (Has(s, IsTcp) => I # {})
      /\ J \subseteq Nat /\ (Has(s, IsAvp) => J # {})
  BY <1>2 DEF Has
<1>4. (I # {} => Min(I) \in I) /\ (J # {} => Min(J) \in J)
  <2> HIDE DEF I, J
  <2> QED
    BY <1>3, LeastIs
<1> QED
  BY <1>1, <1>3, <1>4

\* emplace adds a key and keeps the others.
LEMMA EmplaceIs ==
  ASSUME NEW K, NEW V, NEW p \in Params(K, V),
         NEW key \in K, NEW v \in V
  PROVE  /\ Emplace(p, key, v) \in Params(K, V)
         /\ key \in DOMAIN Emplace(p, key, v)
         /\ key \notin DOMAIN p => Emplace(p, key, v)[key] = v
         /\ \A k \in DOMAIN p :
              k \in DOMAIN Emplace(p, key, v) /\ Emplace(p, key, v)[k] = p[k]
<1>1. PICK D \in SUBSET K : p \in [D -> V]
  BY DEF Params
<1>2. Emplace(p, key, v) \in [D \union {key} -> V] /\ D \union {key} \in SUBSET K
  BY <1>1 DEF Emplace
<1>3. /\ DOMAIN Emplace(p, key, v) = D \union {key}
      /\ \A k \in D \union {key} :
           Emplace(p, key, v)[k] = IF k \in D THEN p[k] ELSE v
  BY <1>1 DEF Emplace
<1>4. Emplace(p, key, v) \in Params(K, V)
  BY <1>2 DEF Params
<1> QED
  BY <1>1, <1>3, <1>4

\* A header of a parser's can be replaced.
LEMMA WithHeader ==
  ASSUME NEW r \in Parsers, NEW h \in Params(Keys, Nat)
  PROVE  LET q == [r EXCEPT !.header = h]
         IN  /\ q \in Parsers /\ q.header = h /\ q.state = r.state /\ q.method = r.method
             /\ q.line = r.line /\ q.auth = r.auth
             /\ q.transport = r.transport /\ q.channel = r.channel
  BY DEF Parsers

\* ParseCSeq takes the first CSeq of a text, unless there is one already.
LEMMA CSeqIs ==
  ASSUME NEW r \in Parsers, NEW s \in Seq(Alphabet)
  PROVE  LET q == ParseCSeq(r, s)
         IN  /\ q \in Parsers /\ q.state = r.state /\ q.method = r.method
             /\ q.line = r.line
             /\ ~Has(s, IsCSeq) => q = r
             /\ Has(s, IsCSeq) => "cseq" \in DOMAIN q.header
             /\ "cseq" \in DOMAIN r.header =>
                  "cseq" \in DOMAIN q.header /\ q.header["cseq"] = r.header["cseq"]
             /\ "cseq" \in DOMAIN q.header /\ "cseq" \notin DOMAIN r.header =>
                  \E k \in 1..Len(s) :
                    /\ q.header["cseq"] = s[k].value /\ IsCSeq(s[k])
                    /\ \A i \in 1..Len(s) : IsCSeq(s[i]) => k <= i
<1>1. CASE ~Has(s, IsCSeq)
  BY <1>1 DEF ParseCSeq
<1>2. CASE Has(s, IsCSeq)
  <2>1. PICK k \in 1..Len(s) :
           /\ First(s, IsCSeq) = s[k] /\ IsCSeq(s[k])
           /\ \A i \in 1..Len(s) : IsCSeq(s[i]) => k <= i
    BY <1>2, FirstCSeqIs
  <2> DEFINE v == s[k].value
             h == Emplace(r.header, "cseq", v)
  <2>2. v \in Nat
    BY <2>1, TokenIs, ElementOfSeq
  <2>3. r.header \in Params(Keys, Nat) /\ "cseq" \in Keys
    BY DEF Parsers, Keys
  <2>4. /\ h \in Params(Keys, Nat) /\ "cseq" \in DOMAIN h
        /\ "cseq" \notin DOMAIN r.header => h["cseq"] = v
        /\ "cseq" \in DOMAIN r.header => h["cseq"] = r.header["cseq"]
    <3> HIDE DEF v
    <3> QED
      BY <2>2, <2>3, EmplaceIs
  <2>5. ParseCSeq(r, s) = [r EXCEPT !.header = h]
    BY <1>2, <2>1 DEF ParseCSeq
  <2> HIDE DEF h
  <2>6. LET q == [r EXCEPT !.header = h]
        IN  /\ q \in Parsers /\ q.header = h /\ q.state = r.state /\ q.method = r.method
            /\ q.line = r.line
    BY <2>4, WithHeader
  <2> QED
    BY <1>2, <2>1, <2>4, <2>5, <2>6
<1> QED
  BY <1>1, <1>2

\* The transport of a request, with its channels or ports.
With(r, t, a, b, n) ==
  [r EXCEPT !.transport = t, !.header = Emplace(Emplace(@, a, n[1]), b, n[2])]

\* ParseTransport keeps the request and its CSeq.
LEMMA TransportIs ==
  ASSUME NEW r \in Parsers, NEW s \in Seq(Alphabet)
  PROVE  LET p == ParseTransport(r, s)
         IN  /\ p.ok \in BOOLEAN /\ p.r \in Parsers
             /\ p.r.state = r.state /\ p.r.method = r.method /\ p.r.line = r.line
             /\ p.r.auth = r.auth
             /\ "cseq" \in DOMAIN r.header =>
                  "cseq" \in DOMAIN p.r.header /\ p.r.header["cseq"] = r.header["cseq"]
<1>1. r.header \in Params(Keys, Nat) /\ r.transport \in Transports
  BY DEF Parsers
<1>2. ASSUME NEW a \in Keys, NEW b \in Keys, NEW n, n[1] \in Nat, n[2] \in Nat,
             NEW t \in Transports
      PROVE  LET q == With(r, t, a, b, n)
             IN  /\ q \in Parsers
                 /\ q.state = r.state /\ q.method = r.method /\ q.line = r.line
                 /\ q.auth = r.auth
                 /\ "cseq" \in DOMAIN r.header =>
                      "cseq" \in DOMAIN q.header /\ q.header["cseq"] = r.header["cseq"]
  <2> DEFINE g == Emplace(r.header, a, n[1])
             h == Emplace(g, b, n[2])
  <2> n[1] \in Nat /\ n[2] \in Nat
    BY <1>2
  <2>1. g \in Params(Keys, Nat) /\ \A k \in DOMAIN r.header : k \in DOMAIN g /\ g[k] = r.header[k]
    BY <1>1, EmplaceIs
  <2>2. h \in Params(Keys, Nat) /\ \A k \in DOMAIN g : k \in DOMAIN h /\ h[k] = g[k]
    <3> HIDE DEF g
    <3> QED
      BY <2>1, EmplaceIs
  <2>3. "cseq" \in DOMAIN r.header => "cseq" \in DOMAIN h /\ h["cseq"] = r.header["cseq"]
    BY <2>1, <2>2
  <2> HIDE DEF h
  <2>4. LET q == [r EXCEPT !.transport = t, !.header = h]
        IN  /\ q \in Parsers /\ q.header = h
            /\ q.state = r.state /\ q.method = r.method /\ q.line = r.line
            /\ q.auth = r.auth
    BY <2>2 DEF Parsers
  <2>5. With(r, t, a, b, n) = [r EXCEPT !.transport = t, !.header = h]
    BY DEF h, With
  <2> QED
    BY <2>3, <2>4, <2>5
<1>3. CASE Has(s, IsTcp)
  <2>1. PICK k \in 1..Len(s) : First(s, IsTcp) = s[k] /\ IsTcp(s[k])
    BY <1>3, FirstTransportIs
  <2> DEFINE v == s[k].value
  <2>2. v \in [mode : {"tcp", "udp", "multicast"}, numbers : Pairs]
    BY <2>1, TokenIs, ElementOfSeq DEF IsTcp
  <2>3. v.numbers[1] \in Nat /\ v.numbers[2] \in Nat
    BY <2>2 DEF Pairs
  <2>4. ParseTransport(r, s) =
          [ok |-> TRUE,
           r  |-> [r EXCEPT !.transport = "tcp",
                            !.header = Emplace(Emplace(@, "rtp_channel", v.numbers[1]),
                                               "rtcp_channel", v.numbers[2])]]
    BY <1>3, <2>1 DEF ParseTransport
  <2> DEFINE q == With(r, "tcp", "rtp_channel", "rtcp_channel", v.numbers)
  <2>5. /\ q \in Parsers
        /\ q.state = r.state /\ q.method = r.method /\ q.line = r.line
        /\ q.auth = r.auth
        /\ "cseq" \in DOMAIN r.header =>
             "cseq" \in DOMAIN q.header /\ q.header["cseq"] = r.header["cseq"]
    <3> HIDE DEF v
    <3>1. "tcp" \in Transports /\ "rtp_channel" \in Keys /\ "rtcp_channel" \in Keys
      BY DEF Keys, Transports
    <3> QED
      BY <1>2, <2>3, <3>1
  <2>6. ParseTransport(r, s) = [ok |-> TRUE, r |-> q]
    BY <2>4 DEF With
  <2> HIDE DEF q
  <2> QED
    BY <2>5, <2>6
<1>4. CASE ~Has(s, IsTcp) /\ Has(s, IsAvp)
  <2>1. PICK k \in 1..Len(s) : First(s, IsAvp) = s[k] /\ IsAvp(s[k])
    BY <1>4, FirstTransportIs
  <2> DEFINE v == s[k].value
             n == IF v.mode = "udp" THEN v.numbers ELSE <<0, 0>>
  <2>2. v \in [mode : {"tcp", "udp", "multicast"}, numbers : Pairs]
    BY <2>1, TokenIs, ElementOfSeq DEF IsAvp
  <2>3. n[1] \in Nat /\ n[2] \in Nat /\ v.mode \in Transports
    BY <2>2 DEF Pairs, Transports
  <2>4. ParseTransport(r, s) =
          [ok |-> TRUE,
           r  |-> [r EXCEPT !.transport = v.mode,
                            !.header = Emplace(Emplace(@, "rtp_port", n[1]),
                                               "rtcp_port", n[2])]]
    BY <1>4, <2>1 DEF ParseTransport
  <2> DEFINE q == With(r, v.mode, "rtp_port", "rtcp_port", n)
  <2>5. /\ q \in Parsers
        /\ q.state = r.state /\ q.method = r.method /\ q.line = r.line
        /\ q.auth = r.auth
        /\ "cseq" \in DOMAIN r.header =>
             "cseq" \in DOMAIN q.header /\ q.header["cseq"] = r.header["cseq"]
    <3> HIDE DEF v, n
    <3>1. "rtp_port" \in Keys /\ "rtcp_port" \in Keys
      BY DEF Keys
    <3> QED
      BY <1>2, <2>3, <3>1
  <2>6. ParseTransport(r, s) = [ok |-> TRUE, r |-> q]
    BY <2>4 DEF With
  <2> HIDE DEF q
  <2> QED
    BY <2>5, <2>6
<1>5. CASE ~Has(s, IsTcp) /\ ~Has(s, IsAvp)
  <2>1. ParseTransport(r, s) = [ok |-> FALSE, r |-> r]
    BY <1>5 DEF ParseTransport
  <2> QED
    BY <2>1
<1> QED
  BY <1>3, <1>4, <1>5

\* The other functions of the parser set one field each.
LEMMA SettersAre ==
  ASSUME NEW r \in Parsers
  PROVE  /\ LET q == GotAll(r)
            IN  /\ q \in Parsers /\ q.state = "kGotAll" /\ q.method = r.method
                /\ q.line = r.line /\ q.header = r.header /\ q.auth = r.auth
                /\ q.transport = r.transport /\ q.channel = r.channel
         /\ LET q == ParseMediaChannel(r)
            IN  /\ q \in Parsers /\ q.state = r.state /\ q.method = r.method
                /\ q.line = r.line /\ q.header = r.header /\ q.auth = r.auth
                /\ q.transport = r.transport
                /\ q.channel = IF Get(r.line, "url", "") = "track1" THEN 1 ELSE 0
<1>2. (IF Get(r.line, "url", "") = "track1" THEN 1 ELSE 0) \in {0, 1}
  OBVIOUS
<1>3. "kGotAll" \in States
  BY DEF States
<1>4. LET q == GotAll(r)
      IN  /\ q \in Parsers /\ q.state = "kGotAll" /\ q.method = r.method
          /\ q.line = r.line /\ q.header = r.header /\ q.auth = r.auth
          /\ q.transport = r.transport /\ q.channel = r.channel
  BY <1>3 DEF GotAll, Parsers
<1>5. ASSUME NEW c \in {0, 1}
      PROVE  LET q == [r EXCEPT !.channel = c]
             IN  /\ q \in Parsers /\ q.state = r.state /\ q.method = r.method
                 /\ q.line = r.line /\ q.header = r.header /\ q.auth = r.auth
                 /\ q.transport = r.transport /\ q.channel = c
  BY DEF Parsers
<1> QED
  BY <1>2, <1>4, <1>5 DEF ParseMediaChannel

\* ParseAuthorization keeps everything but whether there was such a header.
LEMMA AuthorizationIs ==
  ASSUME NEW r \in Parsers, NEW s
  PROVE  LET q == ParseAuthorization(r, s)
         IN  /\ q \in Parsers /\ q.state = r.state /\ q.method = r.method
             /\ q.line = r.line /\ q.header = r.header
             /\ q.transport = r.transport /\ q.channel = r.channel
             /\ q.auth = \E i \in DOMAIN s : s[i].kind = "Authorization"
<1>1. ParseAuthorization(r, s) =
        [r EXCEPT !.auth = \E i \in DOMAIN s : s[i].kind = "Authorization"]
  BY DEF ParseAuthorization, Has
<1>2. ASSUME NEW b \in BOOLEAN
      PROVE  LET q == [r EXCEPT !.auth = b]
             IN  /\ q \in Parsers /\ q.state = r.state /\ q.method = r.method
                 /\ q.line = r.line /\ q.header = r.header
                 /\ q.transport = r.transport /\ q.channel = r.channel /\ q.auth = b
  BY DEF Parsers
<1> QED
  BY <1>1, <1>2

\* ParseHeadersLine goes on with the request of the line and with its CSeq.
LEMMA HeadersLineIs ==
  ASSUME NEW r \in Parsers, NEW s \in Seq(Alphabet)
  PROVE  LET p == ParseHeadersLine(r, s)
             q == ParseCSeq(r, s)
         IN  /\ p.ok \in BOOLEAN /\ p.r \in Parsers
             /\ p.ok <=> "cseq" \in DOMAIN q.header
             /\ p.ok =>
                  /\ "cseq" \in DOMAIN p.r.header /\ p.r.header["cseq"] = q.header["cseq"]
                  /\ p.r.method = r.method /\ p.r.state \in {r.state, "kGotAll"}
                  /\ r.state # "kGotAll" /\ p.r.state = "kGotAll" => r.method # "RTCP"
<1> DEFINE q == ParseCSeq(r, s)
           p == ParseHeadersLine(r, s)
           a == IF q.method \in {"DESCRIBE", "SETUP", "PLAY"} THEN ParseAuthorization(q, s)
                ELSE q
           t == ParseTransport(a, s)
           done ==
             CASE a.method \in {"OPTIONS", "TEARDOWN", "GET_PARAMETER"} -> GotAll(a)
               [] a.method = "DESCRIBE" /\ ParseAccept(s)  -> GotAll(a)
               [] a.method = "SETUP"    /\ t.ok -> GotAll(ParseMediaChannel(t.r))
               [] a.method = "PLAY"     /\ ParseSessionId(s) -> GotAll(a)
               [] OTHER -> a
<1>1. p = IF "cseq" \notin DOMAIN q.header THEN [ok |-> FALSE, r |-> q]
          ELSE [ok |-> TRUE, r |-> done]
  BY DEF ParseHeadersLine
<1>2. q \in Parsers /\ q.state = r.state /\ q.method = r.method
  BY CSeqIs
<1> HIDE DEF q
<1>3. a \in Parsers /\ a.state = q.state /\ a.method = q.method /\ a.header = q.header
  <2>1. LET b == ParseAuthorization(q, s)
        IN  b \in Parsers /\ b.state = q.state /\ b.method = q.method /\ b.header = q.header
    BY <1>2, AuthorizationIs
  <2> QED
    BY <1>2, <2>1
<1> HIDE DEF a
<1>4. /\ t.r \in Parsers /\ t.r.state = a.state /\ t.r.method = a.method
      /\ "cseq" \in DOMAIN a.header =>
           "cseq" \in DOMAIN t.r.header /\ t.r.header["cseq"] = a.header["cseq"]
  BY <1>3, TransportIs
<1> HIDE DEF t
<1> DEFINE Fits(d) ==
             /\ d \in Parsers /\ d.method = a.method
             /\ "cseq" \in DOMAIN a.header =>
                  "cseq" \in DOMAIN d.header /\ d.header["cseq"] = a.header["cseq"]
<1>5. Fits(a) /\ Fits(GotAll(a)) /\ GotAll(a).state = "kGotAll"
  BY <1>3, SettersAre
<1>6. Fits(GotAll(ParseMediaChannel(t.r))) /\ GotAll(ParseMediaChannel(t.r)).state = "kGotAll"
  <2>1. /\ ParseMediaChannel(t.r) \in Parsers
        /\ ParseMediaChannel(t.r).method = t.r.method
        /\ ParseMediaChannel(t.r).header = t.r.header
    BY <1>4, SettersAre
  <2> QED
    BY <1>4, <2>1, SettersAre
<1>7. \/ done = a
      \/ a.method # "RTCP" /\ (done = GotAll(a) \/ done = GotAll(ParseMediaChannel(t.r)))
  OBVIOUS
<1>8. Fits(done) /\ (done = a \/ (done.state = "kGotAll" /\ a.method # "RTCP"))
  <2> HIDE DEF done, Fits
  <2> QED
    BY <1>5, <1>6, <1>7
<1> HIDE DEF done
<1> QED
  BY <1>1, <1>2, <1>3, <1>8 DEF q

\* The method of a parser's can be replaced.
LEMMA SetsMethod ==
  ASSUME NEW r \in Parsers, NEW m \in Text
  PROVE  LET q == [r EXCEPT !.method = m]
         IN  /\ q \in Parsers /\ q.method = m /\ q.state = r.state
             /\ q.line = r.line /\ q.header = r.header /\ q.auth = r.auth
             /\ q.transport = r.transport /\ q.channel = r.channel
  BY DEF Parsers

\* A request line starts a request, is skipped, or ends the connection.
LEMMA RequestLineIs ==
  ASSUME NEW r \in Parsers, NEW s \in Seq(Alphabet), NEW p \in ParseRequestLine(r, s)
  PROVE  /\ p.ok \in BOOLEAN /\ p.r \in Parsers
         /\ p.r.header = r.header
         /\ \/ p.r.state = r.state /\ (p.ok => p.r = r)
            \/ /\ p.ok /\ Len(s) = 1 /\ s[1].kind = "line"
               /\ p.r.state = "kParseHeadersLine" /\ p.r.method = s[1].method
<1>1. ASSUME NEW m \in Text
      PROVE  LET q == [r EXCEPT !.method = m]
             IN  q \in Parsers /\ q.header = r.header /\ q.state = r.state
  BY SetsMethod
<1> DEFINE none == [r EXCEPT !.method = "NONE"]
           skipped == [ok |-> TRUE, r |-> r]
           refused == [ok |-> FALSE, r |-> none]
           Fine(q) ==
             /\ q.ok \in BOOLEAN /\ q.r \in Parsers
             /\ q.r.header = r.header
             /\ q.r.state = r.state /\ (q.ok => q.r = r)
<1>2. Fine(skipped) /\ Fine(refused)
  <2>1. none \in Parsers /\ none.header = r.header /\ none.state = r.state
    <3>1. "NONE" \in Text
      BY DEF Text
    <3> QED
      BY <1>1, <3>1
  <2> HIDE DEF none
  <2> QED
    BY <2>1
<1>3. CASE Len(s) = 1 /\ s[1].kind = "line"
  <2> DEFINE t == s[1]
             a == [r EXCEPT !.method = t.method]
             b == [a EXCEPT !.line = Emplace(@, "url", t.url),
                            !.state = "kParseHeadersLine"]
  <2>1. t.method \in Text /\ t.url \in Text
    <3>1. t \in Alphabet
      <4>1. 1 \in 1..Len(s)
        BY <1>3
      <4> QED
        BY <4>1, ElementOfSeq
    <3> QED
      BY <1>3, <3>1, TokenIs
  <2>2. ParseRequestLine(r, s) =
          IF t.method \notin Methods THEN {refused}
          ELSE IF t.url = "not rtsp" THEN {[ok |-> FALSE, r |-> a]}
          ELSE {[ok |-> TRUE, r |-> b]}
    <3>1. s # << >>
      BY <1>3
    <3> QED
      BY <1>3, <3>1 DEF ParseRequestLine
  <2>3. Fine([ok |-> FALSE, r |-> a])
    BY <1>1, <2>1
  <2>4. a \in Parsers /\ a.header = r.header /\ a.method = t.method
    BY <2>1 DEF Parsers
  <2> HIDE DEF a
  <2>5. b \in Parsers /\ b.header = a.header /\ b.method = a.method
        /\ b.state = "kParseHeadersLine"
    <3>1. a.line \in Params({"url"}, Text)
      BY <2>4 DEF Parsers
    <3> DEFINE l == Emplace(a.line, "url", t.url)
    <3>2. l \in Params({"url"}, Text)
      BY <2>1, <3>1, EmplaceIs
    <3>3. b = [a EXCEPT !.line = l, !.state = "kParseHeadersLine"]
      OBVIOUS
    <3> HIDE DEF l
    <3> QED
      BY <2>4, <3>2, <3>3 DEF Parsers, States
  <2> HIDE DEF b
  <2>6. p = refused \/ p = [ok |-> FALSE, r |-> a] \/ p = [ok |-> TRUE, r |-> b]
    BY <2>2
  <2> HIDE DEF refused
  <2>7. CASE p = refused
    BY <1>2, <2>7
  <2>8. CASE p = [ok |-> FALSE, r |-> a]
    BY <2>3, <2>8
  <2>9. CASE p = [ok |-> TRUE, r |-> b]
    BY <1>3, <2>4, <2>5, <2>9
  <2> QED
    BY <2>6, <2>7, <2>8, <2>9
<1>4. CASE ~(Len(s) = 1 /\ s[1].kind = "line")
  <2>1. p \in {skipped, refused}
    BY <1>4 DEF ParseRequestLine
  <2> QED
    BY <1>2, <2>1
<1> QED
  BY <1>3, <1>4

-----------------------------------------------------------------------------
(* What a read does to the request.                                        *)

\* Everything that was served is of earlier requests.
Unserved(s) == \A i \in 1..Len(served) : After(served[i].answer.cseq, s)

\* What ParseRequest makes of the buffer b, with w still on the wire.
Outcome(p, b, w) ==
  /\ p.ok \in BOOLEAN /\ p.r \in Parsers /\ IsRest(p.buf, b)
  /\ p.ok =>
       IF p.r.state = "kGotAll"
       THEN /\ p.r.method # "RTCP" /\ "cseq" \in DOMAIN p.r.header
            /\ Current(p.r.method, p.r.header["cseq"], p.buf \o w)
       ELSE /\ Ready(p.r, p.buf \o w)
            /\ /\ p.r.state = "kParseHeadersLine" /\ p.r.method # "RTCP"
               /\ "cseq" \notin DOMAIN p.r.header
               => Len(p.buf) <= 1

\* The headers in front of the last CRLF are those of the request of the line,
\* and its CSeq is the first of them.
LEMMA HeadersAre ==
  ASSUME RequestTypeOK,
         NEW r \in Parsers, r.state = "kParseHeadersLine",
         NEW b \in Seq(Alphabet), NEW w \in Seq(Alphabet),
         Framed(b \o w), Ready(r, b \o w), Unserved(b \o w)
  PROVE  Outcome(ParseHeaders(r, b, TRUE), b, w)
<1> DEFINE s    == b \o w
           crlf == FindLastCrlf(b)
           text == SubSeq(b, 1, crlf - 1)
           h    == ParseHeadersLine(r, text)
           rest == Retrieve(b, crlf)
           p    == ParseHeaders(r, b, TRUE)
<1>1. /\ Len(b) \in Nat /\ Len(w) \in Nat /\ s \in Seq(Alphabet)
      /\ Len(s) = Len(b) + Len(w)
      /\ \A i \in 1..Len(b) : s[i] = b[i]
      /\ \A i \in 1..Len(b) + Len(w) :
           s[i] = IF i <= Len(b) THEN b[i] ELSE w[i - Len(b)]
  BY LenProperties, ConcatProperties
<1>2. /\ crlf \in 0..Len(b)
      /\ crlf = 0 => \A i \in 1..Len(b) : b[i] # Crlf
      /\ crlf # 0 => b[crlf] = Crlf
  BY LastCrlfIs
<1> HIDE DEF crlf
<1>3. CASE crlf = 0
  <2>1. p.ok = TRUE /\ p.r = r /\ p.buf = b
    BY <1>3 DEF ParseHeaders, crlf
  <2> HIDE DEF p
  <2>2. r.method # "RTCP" /\ "cseq" \notin DOMAIN r.header => Len(b) <= 1
    BY <1>1, <1>2, <1>3 DEF Ready
  <2>3. IsRest(b, b)
    BY RestBounds
  <2> QED
    <3>1. Ready(p.r, p.buf \o w) /\ p.r.state # "kGotAll"
      BY <2>1 DEF Ready
    <3>2. Outcome(p, b, w)
      BY <2>1, <2>2, <2>3, <3>1 DEF Outcome
    <3> QED
      BY <3>2 DEF p
<1>4. CASE crlf # 0
  <2>1. p.ok = h.ok /\ p.r = h.r /\ p.buf = rest
    BY <1>4 DEF ParseHeaders, crlf
  <2> HIDE DEF p
  <2>2. /\ text \in Seq(Alphabet) /\ Len(text) = crlf - 1
        /\ \A i \in 1..crlf - 1 : text[i] = b[i]
    BY <1>1, <1>2, <1>4, FrontIs
  <2>3. /\ IsRest(rest, b) /\ rest \in Seq(Alphabet)
        /\ Len(rest) = Len(b) - crlf
        /\ \A i \in 1..(Len(b) - crlf) : rest[i] = b[i + crlf]
    BY <1>1, <1>2, RetrieveIs DEF IsRest
  <2> HIDE DEF text, rest
  <2>4. IsRest(rest \o w, s)
    BY <2>3, RestBefore
  <2> DEFINE q == ParseCSeq(r, text)
  <2>5. /\ h.ok \in BOOLEAN /\ h.r \in Parsers
        /\ h.ok <=> "cseq" \in DOMAIN q.header
        /\ h.ok =>
             /\ "cseq" \in DOMAIN h.r.header /\ h.r.header["cseq"] = q.header["cseq"]
             /\ h.r.method = r.method /\ h.r.state \in {r.state, "kGotAll"}
             /\ h.r.state = "kGotAll" => r.method # "RTCP"
    BY <2>2, HeadersLineIs
  <2> HIDE DEF h
  <2>6. ASSUME h.ok, r.method # "RTCP"
        PROVE  Current(r.method, q.header["cseq"], rest \o w)
    <3>1. CASE "cseq" \in DOMAIN r.header
      <4>1. q.header["cseq"] = r.header["cseq"]
        BY <2>2, <3>1, CSeqIs
      <4>2. Current(r.method, r.header["cseq"], s)
        BY <2>6, <3>1 DEF Ready
      <4>3. r.header["cseq"] \in Nat
        <5>1. r.header \in Params(Keys, Nat)
          BY DEF Parsers
        <5> QED
          BY <3>1, <5>1 DEF Params
      <4>4. After(r.header["cseq"], rest \o w)
        BY <1>1, <2>4, <4>2, <4>3, FramedRest DEF Current
      <4> QED
        BY <4>1, <4>2, <4>4 DEF Current
    <3>2. CASE "cseq" \notin DOMAIN r.header
      <4>1. PICK k \in 1..Len(text) :
               /\ q.header["cseq"] = text[k].value /\ IsCSeq(text[k])
               /\ \A i \in 1..Len(text) : IsCSeq(text[i]) => k <= i
        BY <2>2, <2>5, <2>6, <3>2, CSeqIs
      <4>2. Len(s) >= 2 /\ IsCSeq(s[1]) /\ Expects(r.method, s[1].value)
        BY <2>6, <3>2 DEF Ready
      <4>3. 1 \in 1..Len(text) /\ text[1] = s[1]
        BY <1>1, <1>2, <2>2, <4>1
      <4>4. k = 1 /\ q.header["cseq"] = s[1].value
        BY <1>2, <2>2, <4>1, <4>2, <4>3
      <4>5. crlf >= 2
        BY <1>2, <2>2, <4>1
      <4>6. ASSUME NEW i \in 1..Len(rest \o w), IsCSeq((rest \o w)[i])
            PROVE  s[1].value < (rest \o w)[i].value
        <5>1. /\ Len(rest \o w) = Len(rest) + Len(w)
              /\ \A j \in 1..Len(rest) + Len(w) :
                   (rest \o w)[j] = IF j <= Len(rest) THEN rest[j] ELSE w[j - Len(rest)]
          BY <2>3, ConcatProperties
        <5>2. /\ i \in 1..Len(rest) + Len(w) /\ i + crlf \in 1..Len(b) + Len(w)
              /\ i + crlf \in 1..Len(s) /\ 1 < i + crlf
          BY <1>1, <1>2, <2>3, <4>5, <5>1
        <5>3. (rest \o w)[i] = s[i + crlf]
          <6>1. CASE i <= Len(rest)
            <7>1. i + crlf <= Len(b) /\ i \in 1..(Len(b) - crlf)
              BY <1>1, <1>2, <2>3, <6>1
            <7> QED
              BY <1>1, <2>3, <5>1, <5>2, <6>1, <7>1
          <6>2. CASE ~(i <= Len(rest))
            <7>1. ~(i + crlf <= Len(b)) /\ i + crlf - Len(b) = i - Len(rest)
              BY <1>1, <1>2, <2>3, <6>2
            <7>2. i + crlf \in 1..Len(b) + Len(w)
              BY <5>2
            <7>3. s[i + crlf] = w[i + crlf - Len(b)]
              <8>1. \A j \in 1..Len(b) + Len(w) : ~(j <= Len(b)) => s[j] = w[j - Len(b)]
                BY <1>1
              <8> HIDE DEF s
              <8>2. crlf \in Int /\ i \in Int
                BY <1>1, <1>2, <5>2
              <8> QED
                BY <7>1, <7>2, <8>1, <8>2
            <7> QED
              BY <5>1, <5>2, <6>2, <7>1, <7>3
          <6> QED
            BY <6>1, <6>2
        <5>4. 1 \in 1..Len(s)
          BY <1>1, <4>2
        <5> QED
          BY <4>2, <4>6, <5>2, <5>3, <5>4 DEF Framed
      <4>7. \A i \in 1..Len(served) : served[i].answer.cseq < s[1].value
        BY <1>1, <4>2 DEF Unserved, After
      <4> QED
        BY <4>2, <4>4, <4>6, <4>7 DEF Current, After
    <3> QED
      BY <3>1, <3>2
  <2> HIDE DEF q
  <2>7. CASE ~h.ok
    <3>1. Outcome(p, b, w)
      BY <2>1, <2>3, <2>5, <2>7 DEF Outcome
    <3> QED
      BY <3>1 DEF p
  <2>8. CASE h.ok /\ r.method = "RTCP"
    <3>1. h.r.state = "kParseHeadersLine" /\ h.r.method = "RTCP"
      BY <2>5, <2>8
    <3>2. Ready(h.r, rest \o w)
      BY <3>1 DEF Ready
    <3>3. Outcome(p, b, w)
      BY <2>1, <2>3, <2>5, <3>1, <3>2 DEF Outcome
    <3> QED
      BY <3>3 DEF p
  <2>9. CASE h.ok /\ r.method # "RTCP"
    <3>1. /\ Current(h.r.method, h.r.header["cseq"], rest \o w)
          /\ "cseq" \in DOMAIN h.r.header /\ h.r.method # "RTCP"
          /\ h.r.state \in {"kParseHeadersLine", "kGotAll"}
      BY <2>5, <2>6, <2>9
    <3>2. h.r.state # "kGotAll" => Ready(h.r, rest \o w)
      BY <3>1 DEF Ready
    <3>3. Outcome(p, b, w)
      BY <2>1, <2>3, <2>5, <3>1, <3>2 DEF Outcome
    <3> QED
      BY <3>3 DEF p
  <2> QED
    BY <2>7, <2>8, <2>9
<1> QED
  BY <1>3, <1>4

\* Whatever ParseRequest returns, the parser is at one request, or none.
LEMMA ParseRequestIs ==
  ASSUME RequestTypeOK,
         NEW r \in Parsers,
         NEW b \in Seq(Alphabet), b # << >>, NEW w \in Seq(Alphabet),
         Framed(b \o w), Ready(r, b \o w), Unserved(b \o w),
         NEW p \in ParseRequest(r, b)
  PROVE  Outcome(p, b, w)
<1> DEFINE s == b \o w
<1>1. /\ Len(b) \in Nat /\ Len(b) > 0 /\ Len(w) \in Nat /\ s \in Seq(Alphabet)
      /\ Len(s) = Len(b) + Len(w)
      /\ \A i \in 1..Len(b) : s[i] = b[i]
  BY LenProperties, EmptySeq, ConcatProperties
<1>2. IsRest(b, b)
  BY RestBounds
<1>3. CASE b[1] = Dollar
  <2> DEFINE q == [r EXCEPT !.method = "RTCP"]
  <2>1. p = [ok |-> TRUE, r |-> q, buf |-> b]
    BY <1>3 DEF ParseRequest
  <2>2. /\ q \in Parsers /\ q.state = r.state /\ q.method = "RTCP"
        /\ q.header = r.header
    <3>1. "RTCP" \in Text
      BY DEF Text
    <3> QED
      BY <3>1, SetsMethod
  <2> HIDE DEF q
  <2>3. Ready(q, s) /\ q.state # "kGotAll"
    BY <2>2 DEF Ready
  <2> QED
    BY <1>2, <2>1, <2>2, <2>3 DEF Outcome
<1>4. CASE b[1] # Dollar /\ r.state = "kParseHeadersLine"
  BY <1>4, HeadersAre DEF ParseRequest
<1>5. CASE b[1] # Dollar /\ r.state # "kParseHeadersLine"
  <2> DEFINE crlf == FindFirstCrlf(b)
             rest == Retrieve(b, crlf)
             text == SubSeq(b, 1, crlf - 1)
  <2>1. r.state = "kParseRequestLine" /\ "cseq" \notin DOMAIN r.header
    BY <1>5 DEF Ready, Parsers, States
  <2>2. crlf \in 0..Len(b) /\ (crlf # 0 => b[crlf] = Crlf)
    BY FirstCrlfIs
  <2> HIDE DEF crlf
  <2>3. CASE crlf = 0
    <3>1. p = [ok |-> TRUE, r |-> r, buf |-> b]
      BY <1>5, <2>3 DEF ParseRequest, crlf
    <3> QED
      BY <1>2, <2>1, <3>1 DEF Outcome
  <2>4. CASE crlf # 0
    <3>1. PICK l \in ParseRequestLine(r, text) :
             p = IF l.r.state = "kParseHeadersLine" THEN ParseHeaders(l.r, rest, l.ok)
                 ELSE [ok |-> l.ok, r |-> l.r, buf |-> rest]
      BY <1>5, <2>4 DEF ParseRequest, crlf
    <3>2. /\ text \in Seq(Alphabet) /\ Len(text) = crlf - 1
          /\ \A i \in 1..crlf - 1 : text[i] = b[i]
      BY <1>1, <2>2, <2>4, FrontIs
    <3>3. /\ IsRest(rest, b) /\ rest \in Seq(Alphabet)
          /\ Len(rest) = Len(b) - crlf
          /\ \A i \in 1..(Len(b) - crlf) : rest[i] = b[i + crlf]
      BY <1>1, <2>2, RetrieveIs DEF IsRest
    <3> HIDE DEF rest, text
    <3>4. /\ l.ok \in BOOLEAN /\ l.r \in Parsers
          /\ l.r.header = r.header
          /\ \/ l.r.state = r.state /\ (l.ok => l.r = r)
             \/ /\ l.ok /\ Len(text) = 1 /\ text[1].kind = "line"
                /\ l.r.state = "kParseHeadersLine" /\ l.r.method = text[1].method
      BY <3>2, RequestLineIs
    <3>5. CASE l.r.state # "kParseHeadersLine"
      <4>1. p = [ok |-> l.ok, r |-> l.r, buf |-> rest] /\ (l.ok => l.r = r)
        BY <3>1, <3>4, <3>5
      <4>2. Ready(r, rest \o w)
        BY <2>1 DEF Ready
      <4> QED
        <5>1. /\ p.ok = l.ok /\ p.r = l.r /\ p.buf = rest
              /\ l.ok => Ready(p.r, p.buf \o w) /\ p.r.state = "kParseRequestLine"
          BY <2>1, <4>1, <4>2
        <5> QED
          BY <3>3, <3>4, <5>1 DEF Outcome
    <3>6. CASE l.r.state = "kParseHeadersLine"
      <4>1. /\ l.ok /\ crlf = 2 /\ b[1].kind = "line" /\ l.r.method = b[1].method
            /\ p = ParseHeaders(l.r, rest, TRUE)
        <5>1. l.ok /\ Len(text) = 1 /\ text[1].kind = "line" /\ l.r.method = text[1].method
          BY <2>1, <3>4, <3>6
        <5>2. crlf = 2 /\ text[1] = b[1]
          <6>1. crlf = 2
            <7>1. crlf \in Int
              BY <1>1, <2>2
            <7>2. crlf - 1 = 1
              BY <3>2, <5>1
            <7> QED
              BY <7>1, <7>2
          <6>2. 1 \in 1..crlf - 1
            BY <6>1
          <6> QED
            BY <3>2, <6>1, <6>2
        <5> QED
          BY <3>1, <3>6, <5>1, <5>2
      <4>2. /\ 1 + 3 <= Len(s) /\ s[1 + 3] = Crlf
            /\ IsCSeq(s[1 + 2]) /\ Expects(l.r.method, s[1 + 2].value)
        <5>1. 1 \in 1..Len(s) /\ s[1] = b[1]
          BY <1>1
        <5> QED
          BY <4>1, <5>1 DEF Framed
      <4>3. /\ Len(rest \o w) = Len(rest) + Len(w)
            /\ \A i \in 1..Len(rest) + Len(w) :
                 (rest \o w)[i] = IF i <= Len(rest) THEN rest[i] ELSE w[i - Len(rest)]
            /\ \A j \in 1..Len(b) + Len(w) :
                 s[j] = IF j <= Len(b) THEN b[j] ELSE w[j - Len(b)]
        BY <3>3, ConcatProperties
      <4>4. Len(rest \o w) >= 2 /\ (rest \o w)[1] = s[3] /\ (rest \o w)[2] = s[4]
        <5>1. ASSUME NEW i \in 1..2
              PROVE  (rest \o w)[i] = s[i + 2]
          <6>1. i \in 1..Len(rest) + Len(w) /\ i + 2 \in 1..Len(b) + Len(w)
            BY <1>1, <3>3, <4>1, <4>2
          <6>2. CASE i <= Len(rest)
            BY <1>1, <3>3, <4>1, <4>3, <6>1, <6>2
          <6>3. CASE ~(i <= Len(rest))
            <7>1. ~(i + 2 <= Len(b)) /\ i + 2 - Len(b) = i - Len(rest)
              BY <1>1, <3>3, <4>1, <6>3
            <7> QED
              BY <4>3, <6>1, <6>3, <7>1
          <6> QED
            BY <6>2, <6>3
        <5> QED
          BY <1>1, <3>3, <4>1, <4>2, <4>3, <5>1
      <4>5. Ready(l.r, rest \o w)
        BY <2>1, <3>4, <3>6, <4>2, <4>4 DEF Ready
      <4>6. IsRest(rest \o w, s)
        BY <3>3, RestBefore
      <4>7. Framed(rest \o w) /\ Unserved(rest \o w)
        <5>1. \A i \in 1..Len(served) : served[i].answer.cseq \in Nat
          <6>1. \A i \in 1..Len(served) : served[i] \in Outs
            BY ElementOfSeq DEF RequestTypeOK
          <6> QED
            BY <6>1 DEF Outs
        <5> QED
          BY <1>1, <4>6, <5>1, FramedRest DEF Unserved
      <4>8. Outcome(p, rest, w)
        BY <3>3, <3>4, <3>6, <4>1, <4>5, <4>7, HeadersAre
      <4>9. IsRest(p.buf, b)
        BY <3>3, <4>8, RestOfRest DEF Outcome
      <4> QED
        BY <4>8, <4>9 DEF Outcome
    <3> QED
      BY <3>5, <3>6
  <2> QED
    BY <2>3, <2>4
<1> QED
  BY <1>3, <1>4, <1>5

-----------------------------------------------------------------------------
(* What the client sends.                                                  *)

\* One sequence of tokens behind another.
LEMMA ConcatIs ==
  ASSUME NEW s \in Seq(Alphabet), NEW t \in Seq(Alphabet),
         NEW a, NEW b, Len(s) = a, Len(t) = b
  PROVE  /\ s \o t \in Seq(Alphabet) /\ Len(s \o t) = a + b
         /\ \A i \in 1..a : (s \o t)[i] = s[i]
         /\ \A i \in 1..b : (s \o t)[a + i] = t[i]
<1>1. a \in Nat /\ b \in Nat
  BY LenProperties
<1>2. /\ s \o t \in Seq(Alphabet) /\ Len(s \o t) = a + b
      /\ \A i \in 1..a + b : (s \o t)[i] = IF i <= a THEN s[i] ELSE t[i - a]
  BY ConcatProperties
<1>3. \A i \in 1..a : i \in 1..a + b /\ i <= a
  BY <1>1
<1>4. \A i \in 1..b : a + i \in 1..a + b /\ ~(a + i <= a) /\ a + i - a = i
  BY <1>1
<1> QED
  BY <1>2, <1>3, <1>4

\* A request as it is sent.
LEMMA SendableIs ==
  ASSUME NEW m \in Sendable
  PROVE  /\ m.method \in Text /\ m.url \in Text /\ m.cseq \in Nat
         /\ m.headers \in Seq(Alphabet)
         /\ \A j \in 1..Len(m.headers) : IsHeader(m.headers[j])
<1>1. PICK q \in Requests, c \in Nat : m = [q EXCEPT !.cseq = c]
  BY DEF Sendable
<1>2. /\ q \in [method : STRING, cseq : Nat, url : STRING, headers : Seq(ToSet(q.headers))]
      /\ \A h \in ToSet(q.headers) : IsHeader(h)
  BY Assumption
<1>3. m.method = q.method /\ m.url = q.url /\ m.cseq = c /\ m.headers = q.headers
  BY <1>1, <1>2
<1>4. q.headers \in Seq(ToSet(q.headers)) /\ q.method \in Text /\ q.url \in Text
  BY <1>2 DEF Text
<1>5. \A j \in 1..Len(q.headers) : q.headers[j] \in ToSet(q.headers)
  BY <1>4, ElementOfSeq
<1>6. ToSet(q.headers) \subseteq Alphabet
  BY DEF Alphabet
<1>7. q.headers \in Seq(Alphabet)
  <2> DEFINE T == ToSet(q.headers)
  <2>1. q.headers \in Seq(T) /\ T \subseteq Alphabet
    BY <1>4, <1>6
  <2> HIDE DEF T
  <2> QED
    BY <2>1
<1> QED
  BY <1>2, <1>3, <1>4, <1>5, <1>7

\* The tokens of a request, one by one.
LEMMA TokensAre ==
  ASSUME NEW m \in Sendable, m.method # "RTCP"
  PROVE  LET t == Tokens(m)
             L == Len(m.headers)
         IN  /\ t \in Seq(Alphabet) /\ L \in Nat /\ Len(t) = 2 * L + 5
             /\ t[1] = [kind |-> "line", method |-> m.method, url |-> m.url]
             /\ t[2] = Crlf /\ t[3] = Header("CSeq", m.cseq, 2) /\ t[4] = Crlf
             /\ \A j \in 1..L : t[2 * j + 3] = m.headers[j] /\ t[2 * j + 4] = Crlf
             /\ t[2 * L + 5] = Crlf
<1> DEFINE L == Len(m.headers)
           F == [i \in 1..(2 * L) |->
                   IF i % 2 = 1 THEN m.headers[(i + 1) \div 2] ELSE Crlf]
           line == [kind |-> "line", method |-> m.method, url |-> m.url]
           A == <<line, Crlf, Header("CSeq", m.cseq, 2), Crlf>>
           B == <<Crlf>>
<1>1. Tokens(m) = A \o F \o B
  BY DEF Tokens
<1>2. /\ m.method \in Text /\ m.url \in Text /\ m.cseq \in Nat
      /\ m.headers \in Seq(Alphabet) /\ L \in Nat
  BY SendableIs, LenProperties
<1>3. /\ Crlf \in Alphabet /\ Header("CSeq", m.cseq, 2) \in Alphabet
      /\ line \in Alphabet
  BY <1>2 DEF Alphabet
<1> HIDE DEF L
<1>4. F \in Seq(Alphabet) /\ Len(F) = 2 * L
  <2>1. ASSUME NEW i \in 1..(2 * L)
        PROVE  F[i] \in Alphabet
    <3>1. i % 2 = 1 => (i + 1) \div 2 \in 1..L
      BY <1>2
    <3> QED
      BY <1>2, <1>3, <3>1, ElementOfSeq DEF L
  <2>2. 2 * L \in Nat /\ F \in [1..(2 * L) -> Alphabet]
    <3>1. 2 * L \in Nat
      BY <1>2
    <3>2. F \in [1..(2 * L) -> Alphabet]
      BY <2>1
    <3> QED
      BY <3>1, <3>2
  <2>3. F \in Seq(Alphabet)
    BY <2>2, SeqDef
  <2> HIDE DEF F
  <2> QED
    BY <2>2, <2>3, LenProperties
<1>5. A \in Seq(Alphabet) /\ Len(A) = 4 /\ B \in Seq(Alphabet) /\ Len(B) = 1
  BY <1>3
<1>6. \A j \in 1..L : F[2 * j - 1] = m.headers[j] /\ F[2 * j] = Crlf
  <2> TAKE j \in 1..L
  <2>1. /\ 2 * j - 1 \in 1..(2 * L) /\ 2 * j \in 1..(2 * L)
        /\ (2 * j - 1) % 2 = 1 /\ ((2 * j - 1) + 1) \div 2 = j /\ (2 * j) % 2 = 0
    BY <1>2
  <2> QED
    BY <2>1
<1>7. A[1] = line /\ A[2] = Crlf /\ A[3] = Header("CSeq", m.cseq, 2) /\ A[4] = Crlf
      /\ B[1] = Crlf
  OBVIOUS
<1> HIDE DEF A, F, B, line
<1>8. /\ A \o F \in Seq(Alphabet) /\ Len(A \o F) = 4 + 2 * L
      /\ \A i \in 1..4 : (A \o F)[i] = A[i]
      /\ \A i \in 1..(2 * L) : (A \o F)[4 + i] = F[i]
  <2>1. ASSUME NEW x, NEW y, x = 4, y = 2 * L
        PROVE  /\ A \o F \in Seq(Alphabet) /\ Len(A \o F) = x + y
               /\ \A i \in 1..x : (A \o F)[i] = A[i]
               /\ \A i \in 1..y : (A \o F)[x + i] = F[i]
    <3>1. Len(A) = x /\ Len(F) = y
      BY <1>4, <1>5, <2>1
    <3> QED
      BY <1>4, <1>5, <3>1, ConcatIs
  <2> QED
    BY <2>1, Zenon
<1> DEFINE C == A \o F
           t == C \o B
<1> HIDE DEF C
<1>9. /\ t \in Seq(Alphabet) /\ Len(t) = (4 + 2 * L) + 1
      /\ \A i \in 1..(4 + 2 * L) : t[i] = C[i]
      /\ \A i \in 1..1 : t[(4 + 2 * L) + i] = B[i]
  <2>1. C \in Seq(Alphabet) /\ Len(C) = 4 + 2 * L
    BY <1>8 DEF C
  <2>2. ASSUME NEW x, NEW y, x = 4 + 2 * L, y = 1
        PROVE  /\ C \o B \in Seq(Alphabet) /\ Len(C \o B) = x + y
               /\ \A i \in 1..x : (C \o B)[i] = C[i]
               /\ \A i \in 1..y : (C \o B)[x + i] = B[i]
    <3>1. Len(C) = x /\ Len(B) = y
      BY <1>5, <2>1, <2>2
    <3> QED
      BY <1>5, <2>1, <3>1, ConcatIs
  <2> QED
    BY <2>2, Zenon
<1> HIDE DEF t
<1>10. \A i \in 1..4 : t[i] = A[i]
  <2>1. \A i \in 1..4 : i \in 1..(4 + 2 * L)
    BY <1>2
  <2> QED
    BY <1>8, <1>9, <2>1 DEF C
<1>11. t[2 * L + 5] = B[1] /\ Len(t) = 2 * L + 5
  <2>1. 1 \in 1..1 /\ (4 + 2 * L) + 1 = 2 * L + 5
    BY <1>2
  <2> QED
    BY <1>9, <2>1
<1>12. ASSUME NEW j \in 1..L
       PROVE  t[2 * j + 3] = m.headers[j] /\ t[2 * j + 4] = Crlf
  <2>1. /\ 2 * j - 1 \in 1..(2 * L) /\ 4 + (2 * j - 1) = 2 * j + 3
        /\ 2 * j \in 1..(2 * L) /\ 4 + 2 * j = 2 * j + 4
        /\ 2 * j + 3 \in 1..(4 + 2 * L) /\ 2 * j + 4 \in 1..(4 + 2 * L)
    BY <1>2
  <2>2. C[2 * j + 3] = F[2 * j - 1] /\ C[2 * j + 4] = F[2 * j]
    BY <1>8, <2>1 DEF C
  <2> QED
    BY <1>6, <1>9, <2>1, <2>2
<1>13. Tokens(m) = t
  BY <1>1 DEF C, t
<1> QED
  BY <1>2, <1>7, <1>9, <1>10, <1>11, <1>12, <1>13 DEF line, L

\* A place among them is one of these.
LEMMA PlacesAre ==
  ASSUME NEW L \in Nat, NEW i \in 1..(2 * L + 5)
  PROVE  i \in {1, 2, 3, 4, 2 * L + 5} \/ \E j \in 1..L : i = 2 * j + 3 \/ i = 2 * j + 4
<1> DEFINE j == (i - 3) \div 2
<1>1. j \in Int /\ (i - 3 = 2 * j \/ i - 3 = 2 * j + 1)
  OBVIOUS
<1> HIDE DEF j
<1>2. CASE i >= 5 /\ i <= 2 * L + 4
  <2>1. j \in 1..L /\ (i = 2 * j + 3 \/ i = 2 * j + 4)
    BY <1>1, <1>2
  <2> QED
    BY <2>1
<1>3. CASE ~(i >= 5 /\ i <= 2 * L + 4)
  BY <1>3
<1> QED
  BY <1>2, <1>3

\* A message has at most one request line, in front, with its CSeq behind it.
LEMMA MessageIs ==
  ASSUME NEW m \in Sendable
  PROVE  LET t == Tokens(m)
         IN  /\ t \in Seq(Alphabet) /\ Len(t) \in Nat /\ Len(t) >= 3
             /\ \A i \in 1..Len(t) :
                  /\ t[i].kind = "line" =>
                       /\ i = 1 /\ Len(t) >= 4 /\ t[1].method = m.method
                       /\ t[2] = Crlf /\ t[4] = Crlf
                       /\ IsCSeq(t[3]) /\ t[3].value = m.cseq
                  /\ IsCSeq(t[i]) => i = 3 /\ t[i].value = m.cseq
<1> DEFINE t == Tokens(m)
<1>1. CASE m.method = "RTCP"
  <2>1. t = <<Dollar, Payload, Payload>>
    BY <1>1 DEF Tokens, RtcpPacket
  <2>2. Dollar \in Alphabet /\ Payload \in Alphabet
    BY DEF Alphabet
  <2>3. t \in Seq(Alphabet) /\ Len(t) = 3 /\ \A i \in 1..3 : t[i] \in {Dollar, Payload}
    BY <2>1, <2>2
  <2>4. \A x \in {Dollar, Payload} : x.kind # "line" /\ ~IsCSeq(x)
    BY TokenIs DEF IsCSeq
  <2> QED
    BY <2>3, <2>4
<1>2. CASE m.method # "RTCP"
  <2> DEFINE L == Len(m.headers)
  <2>1. /\ t \in Seq(Alphabet) /\ L \in Nat /\ Len(t) = 2 * L + 5
        /\ t[1] = [kind |-> "line", method |-> m.method, url |-> m.url]
        /\ t[2] = Crlf /\ t[3] = Header("CSeq", m.cseq, 2) /\ t[4] = Crlf
        /\ \A j \in 1..L : t[2 * j + 3] = m.headers[j] /\ t[2 * j + 4] = Crlf
        /\ t[2 * L + 5] = Crlf
    BY <1>2, TokensAre
  <2>2. \A j \in 1..L : m.headers[j].kind # "line" /\ ~IsCSeq(m.headers[j])
    BY SendableIs DEF IsHeader, IsCSeq
  <2>3. t[1].method = m.method /\ ~IsCSeq(t[1])
    BY <2>1 DEF IsCSeq
  <2>4. IsCSeq(t[3]) /\ t[3].value = m.cseq /\ t[3].kind # "line"
    BY <2>1 DEF Header, IsCSeq
  <2>5. Crlf.kind # "line" /\ ~IsCSeq(Crlf)
    BY TokenIs DEF IsCSeq
  <2> HIDE DEF L, t
  <2>6. ASSUME NEW i \in 1..Len(t)
        PROVE  (t[i].kind = "line" => i = 1) /\ (IsCSeq(t[i]) => i = 3)
    <3>1. i \in {1, 2, 3, 4, 2 * L + 5} \/ \E j \in 1..L : i = 2 * j + 3 \/ i = 2 * j + 4
      BY <2>1, PlacesAre
    <3>2. CASE i \in {1, 2, 3, 4, 2 * L + 5}
      BY <2>1, <2>3, <2>4, <2>5, <3>2
    <3>3. CASE \E j \in 1..L : i = 2 * j + 3 \/ i = 2 * j + 4
      BY <2>1, <2>2, <2>5, <3>3
    <3> QED
      BY <3>1, <3>2, <3>3
  <2>7. Len(t) \in Nat /\ Len(t) >= 5
    BY <2>1
  <2> QED
    BY <2>1, <2>3, <2>4, <2>6, <2>7 DEF t
<1> QED
  BY <1>1, <1>2

-----------------------------------------------------------------------------
(* The steps.                                                              *)

\* What is yet to be parsed, sent and served, by the types of the variables.
LEMMA StreamIs ==
  ASSUME RequestTypeOK
  PROVE  /\ Stream \in Seq(Alphabet) /\ Len(Stream) \in Nat /\ Len(sent) \in Nat
         /\ Len(served) \in Nat
         /\ \A i \in 1..Len(served) :
              /\ served[i] \in Outs /\ served[i].answer.cseq \in Nat
              /\ served[i].request.method \in Text
<1>1. Stream \in Seq(Alphabet)
  BY ConcatProperties DEF RequestTypeOK, Stream
<1>2. \A i \in 1..Len(served) : served[i] \in Outs
  BY ElementOfSeq DEF RequestTypeOK
<1> QED
  BY <1>1, <1>2, LenProperties DEF RequestTypeOK, Outs, Asks

\* What a client sends comes behind all it has sent.
LEMMA SendInv ==
  ASSUME IInv, NEW m \in Requests, Send(m)
  PROVE  IInv'
<1> DEFINE c == Len(sent) + 1
           q == [m EXCEPT !.cseq = c]
           t == Tokens(q)
           u == Stream \o t
           n == Len(Stream)
           Sends(me, k) == k \in 1..Len(sent') /\ sent'[k].method = me
<1>1. /\ RequestTypeOK /\ SentInv /\ Framed(Stream) /\ ParserInv /\ ServedInv
      /\ AnswersMatchRequests /\ WholeInv
  BY DEF IInv
<1>2. /\ Stream \in Seq(Alphabet) /\ n \in Nat /\ Len(sent) \in Nat
      /\ \A i \in 1..Len(served) : served[i].answer.cseq \in Nat
  BY <1>1, StreamIs
<1>3. q \in Sendable /\ q.cseq = c /\ c \in Nat
  <2>1. m.cseq \in Nat
    BY Assumption
  <2>2. c \in Nat /\ q \in Sendable
    <3>1. c \in Nat
      BY <1>2
    <3> HIDE DEF c
    <3> QED
      BY <3>1 DEF Sendable
  <2>3. q.cseq = c
    BY Assumption
  <2> QED
    BY <2>2, <2>3
<1>4. /\ open /\ sent' = Append(sent, q)
      /\ UNCHANGED <<buffer, request, open, served, whole>>
  BY DEF Send
<1> HIDE DEF q
<1>5. /\ sent' \in Seq(Sendable) /\ Len(sent') = Len(sent) + 1
      /\ \A i \in 1..Len(sent) : sent'[i] = sent[i]
      /\ sent'[Len(sent) + 1] = q
  BY <1>1, <1>3, <1>4, AppendProperties DEF RequestTypeOK
<1>6. wire' = wire \o t
  BY <1>2, <1>5 DEF Send
<1>7. /\ t \in Seq(Alphabet) /\ Len(t) \in Nat /\ Len(t) >= 3
      /\ \A i \in 1..Len(t) :
           /\ t[i].kind = "line" =>
                /\ i = 1 /\ Len(t) >= 4 /\ t[1].method = q.method
                /\ t[2] = Crlf /\ t[4] = Crlf
                /\ IsCSeq(t[3]) /\ t[3].value = c
           /\ IsCSeq(t[i]) => i = 3 /\ t[i].value = c
  BY <1>3, MessageIs
<1> HIDE DEF t
<1>8. Stream' = u
  <2>1. buffer \in Seq(Alphabet) /\ wire \in Seq(Alphabet)
    BY <1>1 DEF RequestTypeOK
  <2>2. (buffer \o wire) \o t = buffer \o (wire \o t)
    BY <1>7, <2>1, Joined
  <2> QED
    BY <1>4, <1>6, <2>2 DEF Stream
<1>9. /\ u \in Seq(Alphabet) /\ Len(u) = n + Len(t)
      /\ \A i \in 1..n : u[i] = Stream[i]
      /\ \A i \in 1..Len(t) : u[n + i] = t[i]
  BY <1>2, <1>7, ConcatIs
<1> HIDE DEF u, n
<1>10. ASSUME NEW i \in 1..Len(u)
       PROVE  \/ i \in 1..n /\ u[i] = Stream[i]
              \/ i - n \in 1..Len(t) /\ u[i] = t[i - n] /\ n + (i - n) = i
  <2>1. CASE i <= n
    BY <1>2, <1>9, <2>1
  <2>2. CASE ~(i <= n)
    <3>1. i - n \in 1..Len(t) /\ n + (i - n) = i
      BY <1>2, <1>7, <1>9, <2>2
    <3> QED
      BY <1>9, <3>1
  <2> QED
    BY <2>1, <2>2
<1>11. RequestTypeOK'
  <2>1. wire' \in Seq(Alphabet)
    BY <1>1, <1>6, <1>7, ConcatProperties DEF RequestTypeOK
  <2> QED
    BY <1>1, <1>4, <1>5, <2>1 DEF RequestTypeOK
<1>12. SentInv'
  <2>1. ASSUME NEW i \in 1..Len(sent')
        PROVE  sent'[i].cseq = i
    <3>1. i \in 1..Len(sent) \/ i = Len(sent) + 1
      BY <1>2, <1>5
    <3> QED
      BY <1>1, <1>3, <1>5, <3>1 DEF SentInv
  <2> QED
    BY <2>1 DEF SentInv
<1>13. ASSUME NEW me, NEW k, Expects(me, k)
       PROVE  Sends(me, k) /\ k \in 1..Len(sent) /\ k \in Nat /\ k < c
  <2>1. k \in 1..Len(sent) /\ sent[k].method = me
    BY <1>13 DEF Expects
  <2>2. k \in 1..Len(sent') /\ sent'[k].method = me
    BY <1>2, <1>5, <2>1
  <2> QED
    BY <1>2, <2>1, <2>2 DEF Expects
<1>14. ASSUME NEW k \in 1..Len(sent), After(k, Stream)
       PROVE  After(k, u)
  <2>1. ASSUME NEW i \in 1..Len(u), IsCSeq(u[i])
        PROVE  k < u[i].value
    <3>1. CASE i \in 1..n /\ u[i] = Stream[i]
      BY <1>14, <2>1, <3>1 DEF After, n
    <3>2. CASE i - n \in 1..Len(t) /\ u[i] = t[i - n]
      BY <1>2, <1>7, <2>1, <3>2
    <3> QED
      BY <1>10, <3>1, <3>2
  <2> QED
    BY <2>1 DEF After
<1>15. Framed(Stream)'
  <2>1. ASSUME NEW i \in 1..Len(u), u[i].kind = "line"
        PROVE  /\ i + 3 <= Len(u)
               /\ u[i + 1] = Crlf /\ u[i + 3] = Crlf
               /\ IsCSeq(u[i + 2]) /\ Sends(u[i].method, u[i + 2].value)
    <3>1. CASE i \in 1..n /\ u[i] = Stream[i]
      <4>1. /\ i + 3 <= n
            /\ Stream[i + 1] = Crlf /\ Stream[i + 3] = Crlf
            /\ IsCSeq(Stream[i + 2]) /\ Expects(Stream[i].method, Stream[i + 2].value)
        BY <1>1, <2>1, <3>1 DEF Framed, n
      <4>2. i + 1 \in 1..n /\ i + 2 \in 1..n /\ i + 3 \in 1..n /\ i + 3 <= Len(u)
        BY <1>2, <1>7, <1>9, <3>1, <4>1
      <4>3. u[i + 1] = Stream[i + 1] /\ u[i + 2] = Stream[i + 2] /\ u[i + 3] = Stream[i + 3]
        BY <1>9, <4>2
      <4> QED
        BY <1>13, <3>1, <4>1, <4>2, <4>3
    <3>2. CASE i - n \in 1..Len(t) /\ u[i] = t[i - n] /\ n + (i - n) = i
      <4>1. /\ i - n = 1 /\ Len(t) >= 4 /\ t[1].method = q.method
            /\ t[2] = Crlf /\ t[4] = Crlf /\ IsCSeq(t[3]) /\ t[3].value = c
        BY <1>7, <2>1, <3>2
      <4>2. i = n + 1 /\ i + 3 <= Len(u) /\ 2 \in 1..Len(t) /\ 3 \in 1..Len(t)
            /\ 4 \in 1..Len(t)
        BY <1>2, <1>7, <1>9, <3>2, <4>1
      <4>3. u[n + 2] = t[2] /\ u[n + 3] = t[3] /\ u[n + 4] = t[4]
        BY <1>9, <4>2
      <4>4. i + 1 = n + 2 /\ i + 2 = n + 3 /\ i + 3 = n + 4
        BY <1>2, <4>2
      <4>5. c \in 1..Len(sent') /\ sent'[c].method = q.method
        BY <1>2, <1>5
      <4>6. u[i].method = q.method /\ u[i + 2].value = c
        BY <3>2, <4>1, <4>3, <4>4
      <4> QED
        BY <4>1, <4>2, <4>3, <4>4, <4>5, <4>6
    <3> QED
      BY <1>10, <3>1, <3>2
  <2>2. ASSUME NEW i \in 1..Len(u), IsCSeq(u[i])
        PROVE  /\ u[i].value \in 1..Len(sent')
               /\ i \in 1..n => u[i].value < c
               /\ i \notin 1..n => i = n + 3 /\ u[i].value = c
    <3>1. CASE i \in 1..n /\ u[i] = Stream[i]
      <4>1. u[i].value \in 1..Len(sent)
        BY <1>1, <2>2, <3>1 DEF Framed, n
      <4> QED
        BY <1>2, <1>5, <3>1, <4>1
    <3>2. CASE i - n \in 1..Len(t) /\ u[i] = t[i - n] /\ n + (i - n) = i
      <4>1. i - n = 3 /\ u[i].value = c
        BY <1>7, <2>2, <3>2
      <4> QED
        BY <1>2, <1>5, <3>2, <4>1
    <3> QED
      BY <1>10, <3>1, <3>2
  <2>3. ASSUME NEW i \in 1..Len(u), NEW j \in 1..Len(u), i < j, IsCSeq(u[i]), IsCSeq(u[j])
        PROVE  u[i].value < u[j].value
    <3>1. CASE j \in 1..n
      <4>1. i \in 1..n
        BY <1>2, <1>7, <1>9, <2>3, <3>1
      <4>2. u[i] = Stream[i] /\ u[j] = Stream[j]
        BY <1>9, <3>1, <4>1
      <4> QED
        BY <1>1, <2>3, <3>1, <4>1, <4>2 DEF Framed, n
    <3>2. CASE j \notin 1..n
      <4>1. j = n + 3 /\ u[j].value = c
        BY <2>2, <2>3, <3>2
      <4>2. i \in 1..n
        <5>1. i \notin 1..n => i = n + 3
          BY <2>2, <2>3
        <5> QED
          BY <1>2, <1>7, <1>9, <2>3, <4>1, <5>1
      <4> QED
        BY <2>2, <2>3, <4>1, <4>2
    <3> QED
      BY <3>1, <3>2
  <2> QED
    BY <1>8, <2>1, <2>2, <2>3 DEF Framed, Expects
<1>16. ParserInv'
  <2>1. Ready(request, Stream)
    BY <1>1, <1>4 DEF ParserInv
  <2>2. ASSUME NEW me, NEW k, Current(me, k, Stream)
        PROVE  Current(me, k, Stream)'
    <3>1. Sends(me, k) /\ After(k, u)
      BY <1>13, <1>14, <2>2 DEF Current
    <3> QED
      BY <1>4, <1>8, <2>2, <3>1 DEF Current, After, Expects
  <2>3. ASSUME NEW me, Len(Stream) >= 2, IsCSeq(Stream[1]), Expects(me, Stream[1].value),
               Stream[2] = Crlf
        PROVE  /\ Len(Stream') >= 2 /\ IsCSeq(Stream'[1]) /\ Stream'[2] = Crlf
               /\ Sends(me, Stream[1].value) /\ Stream'[1] = Stream[1]
    <3>1. 1 \in 1..n /\ 2 \in 1..n /\ Len(u) >= 2
      BY <1>2, <1>7, <1>9, <2>3 DEF n
    <3>2. u[1] = Stream[1] /\ u[2] = Stream[2]
      BY <1>9, <3>1
    <3>3. Sends(me, u[1].value)
      BY <1>13, <2>3, <3>2
    <3> QED
      BY <1>8, <2>3, <3>1, <3>2, <3>3
  <2> QED
    BY <1>4, <2>1, <2>2, <2>3 DEF ParserInv, Ready, Expects
<1>17. ServedInv'
  <2>1. ASSUME NEW i \in 1..Len(served)
        PROVE  /\ Sends(served[i].request.method, served[i].answer.cseq)
               /\ After(served[i].answer.cseq, u)
    <3>1. /\ Expects(served[i].request.method, served[i].answer.cseq)
          /\ After(served[i].answer.cseq, Stream)
      BY <1>1 DEF ServedInv
    <3> QED
      BY <1>13, <1>14, <3>1
  <2> QED
    BY <1>4, <1>8, <2>1 DEF ServedInv, After, Expects
<1>18. AnswersMatchRequests'
  <2>1. DOMAIN sent = 1..Len(sent) /\ DOMAIN sent' = 1..Len(sent')
    BY <1>1, <1>5, LenProperties DEF RequestTypeOK
  <2> QED
    BY <1>1, <1>2, <1>4, <1>5, <2>1 DEF AnswersMatchRequests
<1>19. WholeInv'
  <2> SUFFICES ASSUME whole', \A i \in 1..Len(sent') : WellFormed(sent'[i])
               PROVE  /\ open' /\ buffer' = << >>
                      /\ request'.state = "kParseRequestLine"
                      /\ request'.line = NoParams /\ request'.header = NoParams
                      /\ \/ wire' = << >> /\ Done(Len(sent))'
                         \/ sent' # << >> /\ wire' = Tokens(sent'[Len(sent')])
                            /\ Done(Len(sent) - 1)'
                         \/ sent' # << >> /\ Len(wire') > Len(Tokens(sent'[Len(sent')]))
    BY DEF WholeInv
  <2>1. whole /\ \A i \in 1..Len(sent) : WellFormed(sent[i])
    BY <1>2, <1>4, <1>5
  <2>2. /\ open /\ buffer = << >>
        /\ request.state = "kParseRequestLine"
        /\ request.line = NoParams /\ request.header = NoParams
        /\ \/ wire = << >> /\ Done(Len(sent))
           \/ sent # << >> /\ wire = Tokens(sent[Len(sent)]) /\ Done(Len(sent) - 1)
           \/ sent # << >> /\ Len(wire) > Len(Tokens(sent[Len(sent)]))
    BY <1>1, <2>1 DEF WholeInv
  <2>3. sent' # << >> /\ sent'[Len(sent')] = q /\ Len(sent') - 1 = Len(sent)
    BY <1>2, <1>5, EmptySeq
  <2>4. CASE wire = << >> /\ Done(Len(sent))
    <3>1. wire' = t
      BY <1>6, <1>7, <2>4, ConcatEmptySeq
    <3>2. Done(Len(sent) - 1)'
      BY <1>2, <1>4, <1>5, <2>3, <2>4 DEF Done
    <3> QED
      BY <1>4, <2>2, <2>3, <3>1, <3>2 DEF t
  <2>5. CASE sent # << >> /\ Len(wire) > 0 /\ Len(wire) \in Nat
    <3>1. Len(wire') = Len(wire) + Len(t)
      BY <1>1, <1>6, <1>7, ConcatProperties DEF RequestTypeOK
    <3>2. Len(wire') > Len(t)
      BY <1>7, <2>5, <3>1
    <3> QED
      BY <1>4, <2>2, <2>3, <3>2 DEF t
  <2>6. sent # << >> => Len(Tokens(sent[Len(sent)])) >= 3 /\ Len(Tokens(sent[Len(sent)])) \in Nat
    <3>1. sent # << >> => Len(sent) \in 1..Len(sent)
      BY <1>1, <1>2, EmptySeq DEF RequestTypeOK
    <3>2. sent # << >> => sent[Len(sent)] \in Sendable
      BY <1>1, <3>1, ElementOfSeq DEF RequestTypeOK
    <3> QED
      BY <3>2, MessageIs
  <2>7. Len(wire) \in Nat
    BY <1>1, LenProperties DEF RequestTypeOK
  <2> QED
    BY <2>2, <2>4, <2>5, <2>6, <2>7
<1> QED
  BY <1>11, <1>12, <1>15, <1>16, <1>17, <1>18, <1>19 DEF IInv

\* What a handler is given, and the answer, are of the request that was read.
LEMMA AnswersAre ==
  ASSUME NEW r \in Parsers, "cseq" \in DOMAIN r.header, NEW a \in Answers(r)
  PROVE  /\ [request |-> Handed(r), answer |-> a] \in Outs
         /\ Handed(r).method = r.method /\ a.cseq = r.header["cseq"]
<1> DEFINE g(k) == Get(r.header, k, 0)
           cs   == g("cseq")
           url  == Get(r.line, "url", "")
           nums == Parameters(r).numbers
           au   == r.auth /\ r.method \in {"DESCRIBE", "SETUP", "PLAY"}
           tr   == IF r.method = "SETUP" THEN r.transport ELSE "none"
           nu   == IF r.method = "SETUP" THEN nums ELSE <<0, 0>>
           ch   == IF r.method = "SETUP" THEN r.channel ELSE 0
<1>1. /\ r.method \in Text /\ r.line \in Params({"url"}, Text)
      /\ r.header \in Params(Keys, Nat) /\ r.auth \in BOOLEAN
      /\ r.transport \in Transports /\ r.channel \in {0, 1}
  BY DEF Parsers
<1>2. ASSUME NEW k PROVE g(k) \in Nat
  BY <1>1 DEF Get, Params
<1>3. cs = r.header["cseq"]
  BY DEF Get
<1>4. url \in Text
  <2>1. "" \in Text /\ ("url" \in DOMAIN r.line => r.line["url"] \in Text)
    <3>1. "" \in Text
      BY DEF Text
    <3>2. "url" \in DOMAIN r.line => r.line["url"] \in Text
      BY <1>1 DEF Params
    <3> QED
      BY <3>1, <3>2
  <2> QED
    BY <2>1 DEF Get
<1>5. nums \in Pairs
  <2>1. nums = IF r.transport = "tcp"
               THEN <<g("rtp_channel") % 256, g("rtcp_channel") % 256>>
               ELSE <<g("rtp_port"), g("rtcp_port")>>
    BY DEF Parameters
  <2>2. \A x \in Nat : x % 256 \in Nat
    OBVIOUS
  <2> HIDE DEF g
  <2> QED
    BY <1>2, <2>1, <2>2 DEF Pairs
<1>6. Parameters(r).cseq = cs /\ Parameters(r).url = url
  BY DEF Parameters
<1>7. <<0, 0>> \in Pairs /\ "none" \in Transports
  BY DEF Pairs, Transports
<1> HIDE DEF url, nums, cs
<1>8. Handed(r) = [method |-> r.method, cseq |-> cs, url |-> url, auth |-> au,
                   transport |-> tr, numbers |-> nu, channel |-> ch]
  BY <1>6 DEF Handed, nums
<1>9. au \in BOOLEAN /\ tr \in Transports /\ nu \in Pairs /\ ch \in {0, 1}
  BY <1>1, <1>5, <1>7
<1>10. cs \in Nat
  BY <1>2 DEF cs
<1> HIDE DEF au, tr, nu, ch
<1>11. /\ Handed(r) \in Asks /\ Handed(r).method = r.method /\ Handed(r).cseq = cs
       /\ Handed(r).numbers = nu
  BY <1>1, <1>4, <1>8, <1>9, <1>10 DEF Asks
<1>12. /\ a \in [status : {200, 400}, cseq : Nat, session : BOOLEAN, numbers : Pairs]
       /\ a.cseq = cs
  <2>1. CASE a = Granted(r)
    <3> DEFINE x == IF Handed(r).transport = "multicast" THEN <<0, 0>> ELSE Handed(r).numbers
               y == r.method \notin {"OPTIONS", "DESCRIBE"}
    <3>1. x \in Pairs /\ y \in BOOLEAN
      BY <1>7, <1>9, <1>11
    <3>2. a = [status |-> 200, cseq |-> cs, session |-> y, numbers |-> x]
      BY <1>11, <2>1 DEF Granted
    <3> HIDE DEF x, y
    <3> QED
      BY <1>10, <3>1, <3>2
  <2>2. CASE a = Refused(r)
    <3>1. a = [status |-> 400, cseq |-> cs, session |-> FALSE, numbers |-> <<0, 0>>]
      BY <1>6, <2>2 DEF Refused
    <3> QED
      BY <1>7, <1>10, <3>1
  <2> QED
    BY <2>1, <2>2 DEF Answers
<1> QED
  BY <1>3, <1>11, <1>12 DEF Outs

\* A map without keys is a map with some of these.
LEMMA NoParamsIs ==
  ASSUME NEW K, NEW V
  PROVE  NoParams \in Params(K, V) /\ DOMAIN NoParams = {}
<1>1. {} \in SUBSET K
  OBVIOUS
<1>2. NoParams \in [{} -> V] /\ DOMAIN NoParams = {}
  BY DEF NoParams
<1> QED
  BY <1>1, <1>2 DEF Params

\* Reset clears the line and the headers.
LEMMA ResetIs ==
  ASSUME NEW r \in Parsers
  PROVE  /\ Reset(r) \in Parsers /\ Reset(r).state = "kParseRequestLine"
         /\ Reset(r).line = NoParams /\ Reset(r).header = NoParams
<1>1. NoParams \in Params({"url"}, Text) /\ NoParams \in Params(Keys, Nat)
  BY NoParamsIs
<1> QED
  BY <1>1 DEF Reset, Parsers, States

\* What HandleRtspRequest makes of the buffer b, with w still on the wire.
Handling(h, b, w) ==
  /\ h.keep \in BOOLEAN /\ h.r \in Parsers /\ IsRest(h.buf, b)
  /\ h.keep => Ready(h.r, LeftOver(h.buf) \o w)
  /\ \/ h.out = << >>
     \/ /\ h.keep /\ h.r.state = "kParseRequestLine"
        /\ \E o \in Outs : /\ h.out = <<o>>
                           /\ Current(o.request.method, o.answer.cseq, h.buf \o w)

\* What is thrown away leaves a rest.
LEMMA LeftOverIs ==
  ASSUME NEW s \in Seq(Alphabet), NEW b, IsRest(b, s)
  PROVE  IsRest(LeftOver(b), s) /\ IsRest(LeftOver(b), b)
<1>1. b \in Seq(Alphabet)
  BY DEF IsRest
<1>2. IsRest(b, b) /\ IsRest(<< >>, b) /\ IsRest(<< >>, s)
  BY <1>1, RestBounds
<1> QED
  BY <1>2 DEF LeftOver

\* The parser can go on after a read.
LEMMA HandleIs ==
  ASSUME RequestTypeOK,
         NEW b \in Seq(Alphabet), b # << >>, NEW w \in Seq(Alphabet),
         Framed(b \o w), Ready(request, b \o w), Unserved(b \o w),
         NEW h \in HandleRtspRequest(b)
  PROVE  Handling(h, b, w)
<1>1. PICK p \in ParseRequest(request, b) :
        h \in CASE ~p.ok -> {[keep |-> FALSE, r |-> p.r, buf |-> p.buf, out |-> << >>]}
                [] p.ok /\ p.r.method = "RTCP" ->
                     {[keep |-> TRUE, r |-> p.r, buf |-> HandleRtcp(p.buf), out |-> << >>]}
                [] p.ok /\ p.r.method # "RTCP" /\ p.r.state # "kGotAll" ->
                     {[keep |-> TRUE, r |-> p.r, buf |-> p.buf, out |-> << >>]}
                [] OTHER ->
                     {[keep |-> TRUE, r |-> Reset(p.r), buf |-> p.buf,
                       out |-> <<[request |-> Handed(p.r), answer |-> a]>>] :
                        a \in Answers(p.r)}
  BY DEF HandleRtspRequest
<1>2. request \in Parsers
  BY DEF RequestTypeOK
<1>3. Outcome(p, b, w)
  BY <1>2, ParseRequestIs
<1>4. p.ok \in BOOLEAN /\ p.r \in Parsers /\ IsRest(p.buf, b) /\ p.buf \in Seq(Alphabet)
  BY <1>3 DEF Outcome, IsRest
<1>5. CASE ~p.ok
  <2>1. h = [keep |-> FALSE, r |-> p.r, buf |-> p.buf, out |-> << >>]
    BY <1>1, <1>5
  <2> QED
    BY <1>4, <2>1 DEF Handling
<1>6. CASE p.ok /\ p.r.method = "RTCP"
  <2>1. h = [keep |-> TRUE, r |-> p.r, buf |-> HandleRtcp(p.buf), out |-> << >>]
    BY <1>1, <1>6
  <2>2. p.r.state # "kGotAll" /\ Ready(p.r, p.buf \o w)
    BY <1>3, <1>6 DEF Outcome
  <2>3. Ready(p.r, LeftOver(h.buf) \o w)
    BY <1>6, <2>2 DEF Ready
  <2>4. IsRest(HandleRtcp(p.buf), b)
    <3>1. Len(RtcpPacket) \in Nat
      BY DEF RtcpPacket
    <3>2. IsRest(Retrieve(p.buf, Len(RtcpPacket)), p.buf)
      BY <1>4, <3>1, RetrieveIs
    <3>3. IsRest(Retrieve(p.buf, Len(RtcpPacket)), b)
      BY <1>4, <3>2, RestOfRest
    <3> QED
      BY <1>4, <3>3 DEF HandleRtcp
  <2> QED
    BY <1>4, <2>1, <2>3, <2>4 DEF Handling
<1>7. CASE p.ok /\ p.r.method # "RTCP" /\ p.r.state # "kGotAll"
  <2>1. h = [keep |-> TRUE, r |-> p.r, buf |-> p.buf, out |-> << >>]
    BY <1>1, <1>7
  <2>2. /\ Ready(p.r, p.buf \o w)
        /\ p.r.state = "kParseHeadersLine" /\ "cseq" \notin DOMAIN p.r.header
           => Len(p.buf) <= 1
    BY <1>3, <1>7 DEF Outcome
  <2> DEFINE l == LeftOver(p.buf)
  <2>3. Ready(p.r, l \o w)
    <3>1. CASE p.r.state = "kParseHeadersLine" /\ "cseq" \in DOMAIN p.r.header
      <4> DEFINE c == p.r.header["cseq"]
      <4>1. Current(p.r.method, c, p.buf \o w)
        BY <1>7, <2>2, <3>1 DEF Ready
      <4>2. IsRest(l \o w, p.buf \o w) /\ p.buf \o w \in Seq(Alphabet)
        <5>1. IsRest(p.buf, p.buf)
          BY <1>4, RestBounds
        <5> QED
          BY <1>4, <5>1, LeftOverIs, RestBefore, ConcatProperties
      <4>3. c \in Nat
        <5>1. c \in 1..Len(sent)
          BY <4>1 DEF Current, Expects
        <5> QED
          BY <5>1
      <4>4. After(c, l \o w)
        BY <4>1, <4>2, <4>3, FramedRest DEF Current
      <4>5. Current(p.r.method, c, l \o w)
        BY <4>1, <4>4 DEF Current
      <4> QED
        BY <2>2, <3>1, <4>5 DEF Ready
    <3>2. CASE p.r.state = "kParseHeadersLine" /\ "cseq" \notin DOMAIN p.r.header
      <4>1. Len(p.buf) <= 1 /\ Len(p.buf) \in Nat /\ MaxSize \in Nat \ {0}
        BY <1>4, <2>2, <3>2, LenProperties, Assumption
      <4>2. l = p.buf
        BY <4>1 DEF LeftOver
      <4> QED
        BY <2>2, <4>2
    <3>3. CASE p.r.state # "kParseHeadersLine"
      BY <2>2, <3>3 DEF Ready
    <3> QED
      BY <3>1, <3>2, <3>3
  <2> QED
    BY <1>4, <2>1, <2>3 DEF Handling
<1>8. CASE p.ok /\ p.r.method # "RTCP" /\ p.r.state = "kGotAll"
  <2>1. PICK a \in Answers(p.r) :
          h = [keep |-> TRUE, r |-> Reset(p.r), buf |-> p.buf,
               out |-> <<[request |-> Handed(p.r), answer |-> a]>>]
    BY <1>1, <1>8
  <2>2. /\ "cseq" \in DOMAIN p.r.header
        /\ Current(p.r.method, p.r.header["cseq"], p.buf \o w)
    BY <1>3, <1>8 DEF Outcome
  <2> DEFINE o == [request |-> Handed(p.r), answer |-> a]
  <2>3. o \in Outs /\ o.request.method = p.r.method /\ o.answer.cseq = p.r.header["cseq"]
    BY <1>4, <2>2, AnswersAre
  <2>4. /\ Reset(p.r) \in Parsers /\ Reset(p.r).state = "kParseRequestLine"
        /\ Reset(p.r).header = NoParams
    BY <1>4, ResetIs
  <2>5. Ready(Reset(p.r), LeftOver(p.buf) \o w)
    BY <2>4 DEF Ready, NoParams
  <2>6. h = [keep |-> TRUE, r |-> Reset(p.r), buf |-> p.buf, out |-> <<o>>]
    BY <2>1
  <2> HIDE DEF o
  <2> QED
    BY <1>4, <2>2, <2>3, <2>4, <2>5, <2>6 DEF Handling
<1> QED
  BY <1>4, <1>5, <1>6, <1>7, <1>8

\* A request read whole is cut behind its line and in front of its last CRLF:
\* what lies between is its CSeq, its headers and CRLFs.
LEMMA HeaderTextIs ==
  ASSUME NEW m \in Sendable, m.method # "RTCP"
  PROVE  LET t    == Tokens(m)
             rest == Retrieve(t, 2)
             n    == Len(rest)
             text == SubSeq(rest, 1, n - 1)
             L    == Len(m.headers)
         IN  /\ t[1] = [kind |-> "line", method |-> m.method, url |-> m.url]
             /\ FindFirstCrlf(t) = 2
             /\ rest \in Seq(Alphabet) /\ n \in Nat /\ n # 0 /\ FindLastCrlf(rest) = n
             /\ Retrieve(rest, n) = << >>
             /\ text \in Seq(Alphabet) /\ 1 \in 1..Len(text)
             /\ text[1] = Header("CSeq", m.cseq, 2)
             /\ \A i \in 1..Len(text) :
                  text[i] \in {text[1], Crlf} \/ \E j \in 1..L : text[i] = m.headers[j]
             /\ \A j \in 1..L : \E i \in 1..Len(text) : text[i] = m.headers[j]
<1> DEFINE t    == Tokens(m)
           rest == Retrieve(t, 2)
           n    == Len(rest)
           text == SubSeq(rest, 1, n - 1)
           L    == Len(m.headers)
<1>1. /\ t \in Seq(Alphabet) /\ L \in Nat /\ Len(t) = 2 * L + 5
      /\ t[1] = [kind |-> "line", method |-> m.method, url |-> m.url]
      /\ t[2] = Crlf /\ t[3] = Header("CSeq", m.cseq, 2) /\ t[4] = Crlf
      /\ \A j \in 1..L : t[2 * j + 3] = m.headers[j] /\ t[2 * j + 4] = Crlf
      /\ t[2 * L + 5] = Crlf
  BY TokensAre
<1> HIDE DEF t, L
<1>2. t[1] # Crlf
  BY <1>1, TokenIs
<1>3. FindFirstCrlf(t) = 2
  <2> DEFINE c == FindFirstCrlf(t)
  <2>1. /\ c \in 0..Len(t)
        /\ c = 0 => \A i \in 1..Len(t) : t[i] # Crlf
        /\ c # 0 => t[c] = Crlf /\ \A i \in 1..Len(t) : t[i] = Crlf => c <= i
    BY <1>1, FirstCrlfIs
  <2> HIDE DEF c
  <2>2. 2 \in 1..Len(t)
    BY <1>1
  <2>3. c # 0 /\ c <= 2 /\ c # 1
    BY <1>1, <1>2, <2>1, <2>2
  <2>4. c = 2
    BY <1>1, <2>1, <2>3
  <2> QED
    BY <2>4 DEF c
<1>4. /\ rest \in Seq(Alphabet) /\ n = 2 * L + 3 /\ n \in Nat /\ n # 0
      /\ \A i \in 1..n : rest[i] = t[i + 2]
  <2>1. 2 <= Len(t) /\ Len(t) - 2 = 2 * L + 3 /\ 2 \in Nat
    BY <1>1
  <2>2. /\ rest \in Seq(Alphabet) /\ n = Len(t) - 2
        /\ \A i \in 1..(Len(t) - 2) : rest[i] = t[i + 2]
    BY <1>1, <2>1, RetrieveIs DEF IsRest
  <2> HIDE DEF rest
  <2> QED
    BY <1>1, <2>1, <2>2
<1> HIDE DEF rest
<1>5. FindLastCrlf(rest) = n
  <2> DEFINE c == FindLastCrlf(rest)
  <2>1. /\ c \in 0..Len(rest)
        /\ c = 0 => \A i \in 1..Len(rest) : rest[i] # Crlf
        /\ c # 0 => rest[c] = Crlf /\ \A i \in 1..Len(rest) : rest[i] = Crlf => i <= c
    BY <1>4, LastCrlfIs
  <2> HIDE DEF c
  <2>2. n \in 1..n /\ n + 2 = 2 * L + 5
    BY <1>1, <1>4
  <2>3. rest[n] = Crlf
    BY <1>1, <1>4, <2>2
  <2>4. c # 0 /\ n <= c
    BY <2>1, <2>2, <2>3
  <2>5. c = n
    BY <1>4, <2>1, <2>4
  <2> QED
    BY <2>5 DEF c
<1>6. Retrieve(rest, n) = << >>
  <2>1. /\ Retrieve(rest, n) \in Seq(Alphabet) /\ Len(Retrieve(rest, n)) = n - n
    BY <1>4, RetrieveIs DEF IsRest
  <2> QED
    BY <1>4, <2>1, EmptySeq
<1>7. /\ text \in Seq(Alphabet) /\ Len(text) = n - 1
      /\ \A i \in 1..n - 1 : text[i] = rest[i]
  <2>1. n - 1 \in 0..n
    BY <1>4
  <2> QED
    BY <1>4, <2>1, FrontIs
<1> HIDE DEF n, text
<1>8. /\ Len(text) = 2 * L + 2 /\ 1 \in 1..Len(text)
      /\ \A i \in 1..Len(text) : text[i] = t[i + 2]
  <2>1. Len(text) = 2 * L + 2 /\ 1 \in 1..Len(text) /\ \A i \in 1..Len(text) : i \in 1..n - 1 /\ i \in 1..n
    BY <1>1, <1>4, <1>7
  <2> QED
    BY <1>4, <1>7, <2>1
<1>9. text[1] = Header("CSeq", m.cseq, 2)
  BY <1>1, <1>8
<1>10. ASSUME NEW i \in 1..Len(text)
       PROVE  text[i] \in {text[1], Crlf} \/ \E j \in 1..L : text[i] = m.headers[j]
  <2>1. /\ i + 2 \in 1..(2 * L + 5) /\ i + 2 # 1 /\ i + 2 # 2 /\ i + 2 # 2 * L + 5
    BY <1>1, <1>8
  <2>2. i + 2 \in {3, 4} \/ \E j \in 1..L : i + 2 = 2 * j + 3 \/ i + 2 = 2 * j + 4
    BY <1>1, <2>1, PlacesAre
  <2>3. /\ text[i] = t[i + 2] /\ text[1] = t[3]
    BY <1>1, <1>8
  <2>4. CASE i + 2 = 3
    BY <2>3, <2>4
  <2>5. CASE i + 2 = 4
    BY <1>1, <2>3, <2>5
  <2>6. ASSUME NEW j \in 1..L, i + 2 = 2 * j + 3 \/ i + 2 = 2 * j + 4
        PROVE  text[i] = Crlf \/ text[i] = m.headers[j]
    BY <1>1, <2>3, <2>6
  <2> QED
    BY <2>2, <2>4, <2>5, <2>6
<1>11. ASSUME NEW j \in 1..L
       PROVE  \E i \in 1..Len(text) : text[i] = m.headers[j]
  <2>1. 2 * j + 1 \in 1..Len(text) /\ (2 * j + 1) + 2 = 2 * j + 3
    <3>1. j \in Nat /\ L \in Nat /\ j <= L /\ 1 <= j
      BY <1>1
    <3>2. 2 * j + 1 \in 1..(2 * L + 2)
      BY <3>1
    <3> QED
      BY <1>8, <3>1, <3>2
  <2> QED
    BY <1>1, <1>8, <2>1
<1> QED
  BY <1>1, <1>3, <1>4, <1>5, <1>6, <1>7, <1>8, <1>9, <1>10, <1>11 DEF t, rest, n, text, L

\* The text of a whole request: what HeaderTextIs says of it.
TextOf(text, m) ==
  /\ text \in Seq(Alphabet) /\ 1 \in 1..Len(text)
  /\ text[1] = Header("CSeq", m.cseq, 2)
  /\ \A i \in 1..Len(text) :
       text[i] \in {text[1], Crlf} \/ \E j \in 1..Len(m.headers) : text[i] = m.headers[j]
  /\ \A j \in 1..Len(m.headers) : \E i \in 1..Len(text) : text[i] = m.headers[j]

\* The headers a method may need.
Kinds == {"Accept", "Transport", "Session", "Authorization"}
Given(m, kind) == \E h \in ToSet(m.headers) : h.kind = kind

\* A header that is not the CSeq is in the text when it is in the request.
LEMMA HeadersOfText ==
  ASSUME NEW m \in Sendable, NEW text, TextOf(text, m), NEW kind \in Kinds
  PROVE  /\ \A i \in 1..Len(text) : text[i].kind = kind =>
              \E j \in 1..Len(m.headers) : text[i] = m.headers[j]
         /\ (\E i \in DOMAIN text : text[i].kind = kind) <=> Given(m, kind)
<1>1. /\ DOMAIN text = 1..Len(text) /\ kind \notin {"CSeq", "CRLF"}
      /\ text[1].kind = "CSeq" /\ Crlf.kind = "CRLF"
  BY LenProperties, TokenIs DEF TextOf, Header, Kinds
<1>2. \A i \in 1..Len(text) : text[i].kind = kind =>
        \E j \in 1..Len(m.headers) : text[i] = m.headers[j]
  BY <1>1 DEF TextOf
<1>3. ToSet(m.headers) = {m.headers[j] : j \in 1..Len(m.headers)}
  BY SendableIs, LenProperties DEF ToSet
<1>4. ASSUME NEW h \in ToSet(m.headers), h.kind = kind
      PROVE  \E i \in DOMAIN text : text[i].kind = kind
  <2>1. PICK j \in 1..Len(m.headers) : h = m.headers[j]
    BY <1>3
  <2>2. PICK i \in 1..Len(text) : text[i] = m.headers[j]
    BY DEF TextOf
  <2> QED
    BY <1>1, <1>4, <2>1, <2>2
<1>5. ASSUME NEW i \in DOMAIN text, text[i].kind = kind
      PROVE  \E h \in ToSet(m.headers) : h.kind = kind
  <2>1. PICK j \in 1..Len(m.headers) : text[i] = m.headers[j]
    BY <1>1, <1>2, <1>5
  <2> QED
    BY <1>3, <1>5, <2>1
<1> QED
  BY <1>2, <1>4, <1>5 DEF Given

\* What Emplace and Get do.
LEMMA GetIs ==
  ASSUME NEW p, NEW key, NEW v
  PROVE  /\ DOMAIN Emplace(p, key, v) = DOMAIN p \union {key}
         /\ key \notin DOMAIN p => Get(Emplace(p, key, v), key, 0) = v
  BY DEF Emplace, Get

\* A transport goes into the headers behind the CSeq.
LEMMA WithIs ==
  ASSUME NEW r \in Parsers, NEW c \in Nat, r.header = Emplace(NoParams, "cseq", c),
         NEW t \in Transports, NEW a \in Keys, NEW b \in Keys, NEW n \in Pairs,
         a # b, a # "cseq", b # "cseq"
  PROVE  LET q == With(r, t, a, b, n)
         IN  /\ q \in Parsers /\ q.transport = t
             /\ q.state = r.state /\ q.method = r.method /\ q.line = r.line /\ q.auth = r.auth
             /\ Get(q.header, "cseq", 0) = c
             /\ Get(q.header, a, 0) = n[1] /\ Get(q.header, b, 0) = n[2]
<1> DEFINE g == Emplace(r.header, a, n[1])
           h == Emplace(g, b, n[2])
<1>1. n[1] \in Nat /\ n[2] \in Nat
  BY DEF Pairs
<1>2. g \in Params(Keys, Nat)
  BY <1>1, EmplaceIs DEF Parsers
<1>3. h \in Params(Keys, Nat)
  <2> HIDE DEF g
  <2> QED
    BY <1>1, <1>2, EmplaceIs
<1>4. DOMAIN r.header = {"cseq"} /\ Get(r.header, "cseq", 0) = c /\ r.header["cseq"] = c
  <2>1. ASSUME NEW k
        PROVE  LET p == Emplace(NoParams, k, c)
               IN  DOMAIN p = {k} /\ Get(p, k, 0) = c /\ p[k] = c
    BY DEF NoParams, Emplace, Get
  <2> QED
    BY <2>1
<1>5. DOMAIN g = {"cseq", a} /\ Get(g, a, 0) = n[1] /\ g["cseq"] = c
  <2>1. DOMAIN g = DOMAIN r.header \union {a}
    BY GetIs
  <2>2. Get(g, a, 0) = n[1]
    BY <1>4, GetIs
  <2>3. g["cseq"] = c
    <3>1. \A k \in DOMAIN r.header : g[k] = r.header[k]
      BY DEF Emplace
    <3> QED
      BY <1>4, <3>1
  <2> QED
    BY <1>4, <2>1, <2>2, <2>3
<1>6. g[a] = n[1]
  BY <1>5 DEF Get
<1> HIDE DEF g
<1>7. Get(h, "cseq", 0) = c /\ Get(h, a, 0) = n[1] /\ Get(h, b, 0) = n[2]
  <2>1. "cseq" \in DOMAIN g /\ a \in DOMAIN g /\ b \notin DOMAIN g
    BY <1>5
  <2>2. Get(h, b, 0) = n[2]
    BY <2>1, GetIs
  <2>3. Get(h, "cseq", 0) = c /\ Get(h, a, 0) = n[1]
    <3>1. \A k \in DOMAIN g : Get(h, k, 0) = g[k]
      BY DEF Emplace, Get
    <3> QED
      BY <1>5, <1>6, <2>1, <3>1
  <2> QED
    BY <2>2, <2>3
<1> HIDE DEF h
<1>8. LET q == [r EXCEPT !.transport = t, !.header = h]
      IN  /\ q \in Parsers /\ q.header = h /\ q.transport = t
          /\ q.state = r.state /\ q.method = r.method /\ q.line = r.line
          /\ q.auth = r.auth
  BY <1>3 DEF Parsers
<1>9. With(r, t, a, b, n) = [r EXCEPT !.transport = t, !.header = h]
  BY DEF g, h, With
<1> QED
  BY <1>7, <1>8, <1>9

\* The parser has the transport of the request, which names just one.
Transported(r, m) ==
  \E h \in ToSet(m.headers) :
    /\ {x \in ToSet(m.headers) : x.kind = "Transport"} = {h}
    /\ r.transport = h.value.mode
    /\ Parameters(r).numbers = h.value.numbers
    /\ h.value.mode = "multicast" => h.value.numbers = <<0, 0>>

\* The transport of a SETUP that has one is the one the parser takes.
LEMMA SetupIs ==
  ASSUME NEW m \in Sendable, NEW text, TextOf(text, m), WellFormed(m), m.method = "SETUP",
         NEW r \in Parsers, r.header = Emplace(NoParams, "cseq", m.cseq),
         NEW p, p = ParseTransport(r, text)
  PROVE  /\ p.ok /\ p.r \in Parsers
         /\ p.r.state = r.state /\ p.r.method = r.method /\ p.r.line = r.line
         /\ p.r.auth = r.auth
         /\ Get(p.r.header, "cseq", 0) = m.cseq
         /\ Transported(p.r, m)
<1> DEFINE L == Len(m.headers)
<1>1. /\ m.headers \in Seq(Alphabet) /\ DOMAIN m.headers = 1..L /\ m.cseq \in Nat
      /\ ToSet(m.headers) = {m.headers[j] : j \in 1..L}
  BY SendableIs, LenProperties DEF ToSet
<1>2. PICK i \in 1..L :
        /\ \A j \in 1..L : m.headers[j].kind = "Transport" <=> j = i
        /\ LET t == m.headers[i].value
           IN  /\ t.mode = "tcp" => t.numbers[1] < 256 /\ t.numbers[2] < 256
               /\ t.mode = "multicast" => t.numbers = <<0, 0>>
  <2>1. PICK i \in 1..L : {j \in 1..L : m.headers[j].kind = "Transport"} = {i}
    BY <1>1 DEF WellFormed
  <2>2. \A j \in 1..L : m.headers[j].kind = "Transport" <=> j = i
    BY <2>1
  <2> QED
    BY <1>1, <2>2 DEF WellFormed
<1> DEFINE h == m.headers[i]
           v == h.value
<1>3. h.kind = "Transport" /\ h \in ToSet(m.headers)
  BY <1>1, <1>2
<1>4. {x \in ToSet(m.headers) : x.kind = "Transport"} = {h}
  BY <1>1, <1>2
<1>5. /\ v \in [mode : {"tcp", "udp", "multicast"}, numbers : Pairs]
  BY <1>1, <1>3, TokenIs, ElementOfSeq
<1>6. DOMAIN text = 1..Len(text) /\ text \in Seq(Alphabet)
  BY LenProperties DEF TextOf
<1>7. \A k \in 1..Len(text) : text[k].kind = "Transport" => text[k] = h
  <2>1. \A k \in 1..Len(text) : text[k].kind = "Transport" =>
          \E j \in 1..Len(m.headers) : text[k] = m.headers[j]
    <3>1. "Transport" \in Kinds
      BY DEF Kinds
    <3> QED
      BY <3>1, HeadersOfText
  <2> QED
    BY <1>2, <2>1
<1>8. \E k \in DOMAIN text : text[k] = h
  BY <1>6 DEF TextOf
<1>9. v.mode \in Transports /\ v.numbers \in Pairs /\ v.numbers[1] \in Nat /\ v.numbers[2] \in Nat
      /\ v.numbers = <<v.numbers[1], v.numbers[2]>>
  BY <1>5 DEF Transports, Pairs
<1> HIDE DEF h
<1>10. ASSUME NEW a \in Keys, NEW b \in Keys, a # b, a # "cseq", b # "cseq",
              p.ok, p.r = With(r, v.mode, a, b, v.numbers),
              Parameters(p.r).numbers =
                IF v.mode = "tcp" THEN <<Get(p.r.header, a, 0) % 256, Get(p.r.header, b, 0) % 256>>
                ELSE <<Get(p.r.header, a, 0), Get(p.r.header, b, 0)>>
       PROVE  /\ p.r \in Parsers
              /\ p.r.state = r.state /\ p.r.method = r.method /\ p.r.line = r.line
              /\ p.r.auth = r.auth /\ p.r.transport = v.mode
              /\ Get(p.r.header, "cseq", 0) = m.cseq
              /\ Parameters(p.r).numbers = v.numbers
  <2> HIDE DEF v
  <2>1. /\ p.r \in Parsers
        /\ p.r.state = r.state /\ p.r.method = r.method /\ p.r.line = r.line
        /\ p.r.auth = r.auth /\ p.r.transport = v.mode
        /\ Get(p.r.header, "cseq", 0) = m.cseq
        /\ Get(p.r.header, a, 0) = v.numbers[1] /\ Get(p.r.header, b, 0) = v.numbers[2]
    BY <1>1, <1>9, <1>10, WithIs
  <2>2. v.mode = "tcp" =>
          v.numbers[1] % 256 = v.numbers[1] /\ v.numbers[2] % 256 = v.numbers[2]
    <3>1. v.mode = "tcp" => v.numbers[1] < 256 /\ v.numbers[2] < 256
      BY <1>2 DEF v, h
    <3> QED
      BY <1>9, <3>1
  <2> QED
    BY <1>9, <1>10, <2>1, <2>2
<1>11. CASE v.mode = "tcp"
  <2>1. Has(text, IsTcp)
    BY <1>3, <1>8, <1>11 DEF Has, IsTcp
  <2>2. First(text, IsTcp) = h
    BY <1>6, <1>7, <2>1, FirstTransportIs DEF IsTcp
  <2>3. p = [ok |-> TRUE,
             r  |-> [r EXCEPT !.transport = "tcp",
                              !.header = Emplace(Emplace(@, "rtp_channel", v.numbers[1]),
                                                 "rtcp_channel", v.numbers[2])]]
    BY <2>1, <2>2 DEF ParseTransport
  <2>4. p.ok /\ p.r = With(r, v.mode, "rtp_channel", "rtcp_channel", v.numbers)
    BY <1>11, <2>3 DEF With
  <2> HIDE DEF v
  <2>5. "rtp_channel" \in Keys /\ "rtcp_channel" \in Keys
    BY DEF Keys
  <2>6. p.r.transport = "tcp"
    BY <1>1, <1>9, <1>11, <2>4, <2>5, WithIs
  <2>7. Parameters(p.r).numbers =
          <<Get(p.r.header, "rtp_channel", 0) % 256, Get(p.r.header, "rtcp_channel", 0) % 256>>
    BY <2>6 DEF Parameters
  <2>8. /\ p.r \in Parsers
        /\ p.r.state = r.state /\ p.r.method = r.method /\ p.r.line = r.line
        /\ p.r.auth = r.auth /\ p.r.transport = v.mode
        /\ Get(p.r.header, "cseq", 0) = m.cseq
        /\ Parameters(p.r).numbers = v.numbers
    BY <1>10, <1>11, <2>4, <2>5, <2>7
  <2> QED
    BY <1>2, <1>3, <1>4, <2>4, <2>8 DEF v, h, Transported
<1>12. CASE v.mode # "tcp"
  <2>1. v.mode \in {"udp", "multicast"}
    BY <1>5, <1>12
  <2>2. ~Has(text, IsTcp) /\ Has(text, IsAvp)
    BY <1>3, <1>6, <1>7, <1>8, <1>12, <2>1 DEF Has, IsTcp, IsAvp
  <2>3. First(text, IsAvp) = h
    BY <1>6, <1>7, <2>2, FirstTransportIs DEF IsAvp
  <2> DEFINE n == IF v.mode = "udp" THEN v.numbers ELSE <<0, 0>>
  <2>4. n = v.numbers
    BY <1>2, <2>1 DEF h
  <2>5. p = [ok |-> TRUE,
             r  |-> [r EXCEPT !.transport = v.mode,
                              !.header = Emplace(Emplace(@, "rtp_port", n[1]),
                                                 "rtcp_port", n[2])]]
    BY <2>2, <2>3 DEF ParseTransport
  <2> HIDE DEF n
  <2>6. p.ok /\ p.r = With(r, v.mode, "rtp_port", "rtcp_port", v.numbers)
    BY <2>4, <2>5 DEF With
  <2> HIDE DEF v
  <2>7. "rtp_port" \in Keys /\ "rtcp_port" \in Keys
    BY DEF Keys
  <2>8. p.r.transport # "tcp"
    BY <1>1, <1>9, <1>12, <2>6, <2>7, WithIs
  <2>9. Parameters(p.r).numbers =
          <<Get(p.r.header, "rtp_port", 0), Get(p.r.header, "rtcp_port", 0)>>
    BY <2>8 DEF Parameters
  <2>10. /\ p.r \in Parsers
         /\ p.r.state = r.state /\ p.r.method = r.method /\ p.r.line = r.line
         /\ p.r.auth = r.auth /\ p.r.transport = v.mode
         /\ Get(p.r.header, "cseq", 0) = m.cseq
         /\ Parameters(p.r).numbers = v.numbers
    BY <1>10, <1>12, <2>6, <2>7, <2>9
  <2> QED
    BY <1>2, <1>3, <1>4, <2>6, <2>10 DEF v, h, Transported
<1> QED
  BY <1>11, <1>12

\* The headers of a whole request make it complete.
LEMMA ParsedIs ==
  ASSUME NEW m \in Sendable, m.method # "RTCP", WellFormed(m),
         NEW text, TextOf(text, m),
         NEW r \in Parsers, r.method = m.method, r.header = NoParams
  PROVE  LET p == ParseHeadersLine(r, text)
         IN  /\ p.ok /\ p.r \in Parsers /\ p.r.state = "kGotAll" /\ p.r.method = m.method
             /\ p.r.line = r.line /\ Get(p.r.header, "cseq", 0) = m.cseq
             /\ m.method \in {"DESCRIBE", "SETUP", "PLAY"} =>
                  p.r.auth = Given(m, "Authorization")
             /\ m.method = "SETUP" =>
                  /\ p.r.channel = IF Get(r.line, "url", "") = "track1" THEN 1 ELSE 0
                  /\ Transported(p.r, m)
<1> DEFINE q == ParseCSeq(r, text)
           p == ParseHeadersLine(r, text)
           authorized == Given(m, "Authorization")
           a == IF q.method \in {"DESCRIBE", "SETUP", "PLAY"} THEN ParseAuthorization(q, text)
                ELSE q
           t == ParseTransport(a, text)
           c == ParseMediaChannel(t.r)
           done ==
             CASE a.method \in {"OPTIONS", "TEARDOWN", "GET_PARAMETER"} -> GotAll(a)
               [] a.method = "DESCRIBE" /\ ParseAccept(text)  -> GotAll(a)
               [] a.method = "SETUP"    /\ t.ok -> GotAll(c)
               [] a.method = "PLAY"     /\ ParseSessionId(text) -> GotAll(a)
               [] OTHER -> a
           header == Emplace(NoParams, "cseq", m.cseq)
<1>1. p = IF "cseq" \notin DOMAIN q.header THEN [ok |-> FALSE, r |-> q]
          ELSE [ok |-> TRUE, r |-> done]
  BY DEF ParseHeadersLine
<1>2. /\ text \in Seq(Alphabet) /\ 1 \in 1..Len(text) /\ DOMAIN text = 1..Len(text)
      /\ IsCSeq(text[1]) /\ text[1].value = m.cseq /\ Len(text) \in Nat
  BY LenProperties DEF TextOf, IsCSeq, Header
<1>3. Has(text, IsCSeq) /\ First(text, IsCSeq) = text[1]
  <2>1. Has(text, IsCSeq)
    BY <1>2 DEF Has
  <2>2. PICK k \in 1..Len(text) :
           /\ First(text, IsCSeq) = text[k] /\ IsCSeq(text[k])
           /\ \A i \in 1..Len(text) : IsCSeq(text[i]) => k <= i
    BY <1>2, <2>1, FirstCSeqIs
  <2> HIDE DEF q, p, a, t, c, done, header, authorized
  <2>3. k = 1
    <3>1. k <= 1
      BY <1>2, <2>2
    <3>2. k \in Int /\ k >= 1
      BY <1>2
    <3> QED
      BY <3>1, <3>2
  <2> QED
    BY <2>1, <2>2, <2>3
<1>4. /\ q \in Parsers /\ q.method = m.method /\ q.line = r.line
      /\ "cseq" \in DOMAIN q.header /\ q.header = header
  <2>1. q \in Parsers /\ q.method = m.method /\ q.line = r.line /\ "cseq" \in DOMAIN q.header
    BY <1>2, <1>3, CSeqIs
  <2>2. q = [r EXCEPT !.header = header]
    BY <1>2, <1>3 DEF ParseCSeq
  <2> HIDE DEF header
  <2>3. q.header = header
    BY <2>2 DEF Parsers
  <2> HIDE DEF q
  <2> QED
    BY <2>1, <2>3
<1>5. Get(header, "cseq", 0) = m.cseq
  <2>1. ASSUME NEW k PROVE Get(Emplace(NoParams, k, m.cseq), k, 0) = m.cseq
    BY DEF NoParams, Emplace, Get
  <2> QED
    BY <2>1
<1> HIDE DEF q
<1>6. (\E i \in DOMAIN text : text[i].kind = "Authorization") <=> authorized
  <2> HIDE DEF q, p, a, t, c, done, header
  <2>1. "Authorization" \in Kinds
    BY DEF Kinds
  <2> QED
    BY <2>1, HeadersOfText
<1>7. /\ a \in Parsers /\ a.method = m.method /\ a.line = r.line /\ a.header = header
      /\ m.method \in {"DESCRIBE", "SETUP", "PLAY"} => a.auth = authorized
  <2> DEFINE b == ParseAuthorization(q, text)
  <2>1. /\ b \in Parsers /\ b.method = q.method /\ b.line = q.line /\ b.header = q.header
        /\ b.auth = \E i \in DOMAIN text : text[i].kind = "Authorization"
    BY <1>4, AuthorizationIs
  <2>2. (b.auth = TRUE) <=> authorized
    BY <1>6, <2>1
  <2>3. b.auth \in BOOLEAN
    BY <2>1 DEF Parsers
  <2> HIDE DEF b
  <2>4. b.auth = authorized
    BY <2>2, <2>3 DEF Given
  <2>5. a = IF q.method \in {"DESCRIBE", "SETUP", "PLAY"} THEN b ELSE q
    BY DEF b
  <2> HIDE DEF header, authorized, a
  <2> QED
    BY <1>4, <2>1, <2>4, <2>5
<1> HIDE DEF a, header, authorized
<1>8. /\ GotAll(a) \in Parsers /\ GotAll(a).state = "kGotAll" /\ GotAll(a).method = m.method
      /\ GotAll(a).line = r.line /\ GotAll(a).header = header /\ GotAll(a).auth = a.auth
  BY <1>7, SettersAre
<1>9. p.ok /\ p.r = done
  BY <1>1, <1>4
<1> HIDE DEF p
<1>10. CASE m.method # "SETUP"
  <2>1. ~(m.method = "DESCRIBE" /\ ~ParseAccept(text)) /\ ~(m.method = "PLAY" /\ ~ParseSessionId(text))
    <3>1. "Accept" \in Kinds /\ "Session" \in Kinds
      BY DEF Kinds
    <3>2. Given(m, "Accept") <=> ParseAccept(text)
      BY <3>1, HeadersOfText DEF ParseAccept, Has
    <3>3. Given(m, "Session") <=> ParseSessionId(text)
      BY <3>1, HeadersOfText DEF ParseSessionId, Has
    <3>4. /\ m.method = "DESCRIBE" => Given(m, "Accept")
          /\ m.method = "PLAY" => Given(m, "Session")
      BY DEF WellFormed, Given, ToSet
    <3> QED
      BY <3>2, <3>3, <3>4
  <2>2. m.method \in {"OPTIONS", "DESCRIBE", "PLAY", "TEARDOWN", "GET_PARAMETER"}
    BY <1>10 DEF WellFormed, Methods
  <2>3. done = GotAll(a)
    BY <1>7, <1>10, <2>1, <2>2
  <2> HIDE DEF done
  <2> QED
    BY <1>5, <1>7, <1>8, <1>9, <1>10, <2>3 DEF p, authorized
<1>11. CASE m.method = "SETUP"
  <2>1. /\ t.ok /\ t.r \in Parsers
        /\ t.r.method = a.method /\ t.r.line = a.line /\ t.r.auth = a.auth
        /\ Get(t.r.header, "cseq", 0) = m.cseq /\ Transported(t.r, m)
    BY <1>7, <1>11, SetupIs DEF header
  <2> HIDE DEF t
  <2>3. /\ c \in Parsers /\ c.method = a.method /\ c.line = a.line /\ c.auth = a.auth
        /\ c.header = t.r.header /\ c.transport = t.r.transport
        /\ c.channel = IF Get(r.line, "url", "") = "track1" THEN 1 ELSE 0
    <3>1. /\ c \in Parsers /\ c.method = t.r.method /\ c.line = t.r.line
          /\ c.auth = t.r.auth /\ c.header = t.r.header /\ c.transport = t.r.transport
          /\ c.channel = IF Get(t.r.line, "url", "") = "track1" THEN 1 ELSE 0
      BY <2>1, SettersAre
    <3> HIDE DEF c
    <3> QED
      BY <1>7, <2>1, <3>1
  <2> HIDE DEF c
  <2>4. /\ GotAll(c) \in Parsers /\ GotAll(c).state = "kGotAll" /\ GotAll(c).method = a.method
        /\ GotAll(c).line = a.line /\ GotAll(c).auth = a.auth /\ GotAll(c).channel = c.channel
        /\ GotAll(c).header = t.r.header /\ GotAll(c).transport = t.r.transport
    BY <2>3, SettersAre
  <2>5. done = GotAll(c)
    BY <1>7, <1>11, <2>1
  <2> HIDE DEF done
  <2>6. Transported(p.r, m)
    <3>1. Parameters(p.r).numbers = Parameters(t.r).numbers
      BY <1>9, <2>4, <2>5 DEF Parameters
    <3>2. p.r.transport = t.r.transport
      BY <1>9, <2>4, <2>5
    <3> QED
      BY <2>1, <3>1, <3>2 DEF Transported
  <2> QED
    BY <1>7, <1>9, <1>11, <2>1, <2>3, <2>4, <2>5, <2>6 DEF p, authorized
<1> QED
  BY <1>10, <1>11

\* The fields of what the handlers are given, and of an answer.
LEMMA HandedIs ==
  ASSUME NEW r
  PROVE  /\ Handed(r).cseq = Parameters(r).cseq
         /\ Handed(r).transport = IF r.method = "SETUP" THEN r.transport ELSE "none"
         /\ Handed(r).numbers = IF r.method = "SETUP" THEN Parameters(r).numbers ELSE <<0, 0>>
  BY DEF Handed

\* An answer has its request's CSeq, and a granted SETUP its request's numbers.
LEMMA AnswerIs ==
  ASSUME NEW r, NEW a \in Answers(r)
  PROVE  /\ a.cseq = Parameters(r).cseq
         /\ a.status = 200 =>
              a.numbers = IF Handed(r).transport = "multicast" THEN <<0, 0>>
                          ELSE Handed(r).numbers
<1>1. CASE a = Granted(r)
  BY <1>1, HandedIs DEF Granted
<1>2. CASE a = Refused(r)
  BY <1>2 DEF Refused
<1> QED
  BY <1>1, <1>2 DEF Answers

\* What the handlers are given of a request like that is what was asked for.
LEMMA ServedIs ==
  ASSUME NEW m \in Sendable, m.method # "RTCP", WellFormed(m),
         NEW r \in Parsers, r.method = m.method, Get(r.header, "cseq", 0) = m.cseq,
         Get(r.line, "url", "") = m.url,
         m.method \in {"DESCRIBE", "SETUP", "PLAY"} => r.auth = Given(m, "Authorization"),
         m.method = "SETUP" =>
           Transported(r, m) /\ r.channel = IF m.url = "track1" THEN 1 ELSE 0,
         NEW a \in Answers(r)
  PROVE  ServedAs([request |-> Handed(r), answer |-> a], m)
<1> DEFINE T == {h \in ToSet(m.headers) : h.kind = "Transport"}
           t == (CHOOSE h \in T : TRUE).value
           au == \E h \in ToSet(m.headers) : h.kind = "Authorization"
<1>1. Asked(m) =
        [method |-> m.method, cseq |-> m.cseq, url |-> m.url, auth |-> au,
         transport |-> IF T = {} THEN "none" ELSE t.mode,
         numbers |-> IF T = {} THEN <<0, 0>> ELSE t.numbers,
         channel |-> IF T # {} /\ m.url = "track1" THEN 1 ELSE 0]
  BY DEF Asked
<1>2. Parameters(r).cseq = m.cseq /\ Parameters(r).url = m.url
  BY DEF Parameters
<1> DEFINE nums == Parameters(r).numbers
           ra == r.auth /\ r.method \in {"DESCRIBE", "SETUP", "PLAY"}
           tr == IF r.method = "SETUP" THEN r.transport ELSE "none"
           nu == IF r.method = "SETUP" THEN nums ELSE <<0, 0>>
           ch == IF r.method = "SETUP" THEN r.channel ELSE 0
<1>3. /\ Handed(r) =
           [method |-> m.method, cseq |-> m.cseq, url |-> m.url, auth |-> ra,
            transport |-> tr, numbers |-> nu, channel |-> ch]
      /\ Handed(r).cseq = m.cseq /\ Handed(r).transport = tr /\ Handed(r).numbers = nu
  BY <1>2, HandedIs DEF Handed
<1>8. /\ a.cseq = m.cseq
      /\ a.status = 200 =>
           a.numbers = IF Handed(r).transport = "multicast" THEN <<0, 0>> ELSE Handed(r).numbers
  BY <1>2, AnswerIs
<1>4. ASSUME NEW kind, {i \in DOMAIN m.headers : m.headers[i].kind = kind} = {}
      PROVE  \A h \in ToSet(m.headers) : h.kind # kind
  BY <1>4 DEF ToSet
<1>5. ra = au
  <2>1. r.auth \in BOOLEAN
    BY DEF Parsers
  <2>2. CASE m.method \in {"DESCRIBE", "SETUP", "PLAY"}
    BY <2>1, <2>2 DEF Given
  <2>3. CASE m.method \notin {"DESCRIBE", "SETUP", "PLAY"}
    <3>1. \A h \in ToSet(m.headers) : h.kind # "Authorization"
      BY <1>4, <2>3 DEF WellFormed
    <3> QED
      BY <2>3, <3>1
  <2> QED
    BY <2>2, <2>3
<1>6. CASE m.method # "SETUP"
  <2>1. T = {}
    BY <1>4, <1>6 DEF WellFormed
  <2>2. Handed(r) = Asked(m)
    <3> HIDE DEF T, au, ra
    <3> QED
      BY <1>1, <1>3, <1>5, <1>6, <2>1
  <2>3. Handed(r).numbers = <<0, 0>>
    BY <1>3, <1>6
  <2>4. a.cseq = m.cseq /\ (a.status = 200 => a.numbers = <<0, 0>>)
    <3> HIDE DEF ra, tr, nu, ch, T, t, au
    <3> QED
      BY <1>8, <2>3
  <2> QED
    BY <2>2, <2>3, <2>4 DEF ServedAs
<1>7. CASE m.method = "SETUP"
  <2>1. PICK h \in ToSet(m.headers) :
           /\ T = {h} /\ r.transport = h.value.mode /\ nums = h.value.numbers
           /\ h.value.mode = "multicast" => h.value.numbers = <<0, 0>>
    BY <1>7 DEF Transported
  <2>2. T # {} /\ t = h.value
    BY <2>1
  <2>3. Handed(r) = Asked(m)
    <3> HIDE DEF T, t, au, ra, nums
    <3> QED
      BY <1>1, <1>3, <1>5, <1>7, <2>1, <2>2
  <2>4. Handed(r).numbers = h.value.numbers /\ Handed(r).transport = h.value.mode
    BY <1>3, <1>7, <2>1
  <2>5. a.cseq = m.cseq /\ (a.status = 200 => a.numbers = h.value.numbers)
    <3> HIDE DEF ra, tr, nu, ch, T, t, au
    <3> QED
      BY <1>8, <2>1, <2>4
  <2> HIDE DEF T, t, au, ra, nums
  <2> QED
    BY <2>3, <2>4, <2>5 DEF ServedAs
<1> QED
  BY <1>6, <1>7

\* A message read whole, when the parser is between two, is all taken, and a
\* request is served as it was asked.
LEMMA WholeReadIs ==
  ASSUME RequestTypeOK, NEW m \in Sendable, WellFormed(m),
         request.state = "kParseRequestLine",
         request.line = NoParams, request.header = NoParams,
         NEW h \in HandleRtspRequest(Tokens(m))
  PROVE  /\ h.keep /\ LeftOver(h.buf) = << >>
         /\ h.r.state = "kParseRequestLine"
         /\ h.r.line = NoParams /\ h.r.header = NoParams
         /\ IF m.method = "RTCP" THEN h.out = << >>
            ELSE \E o : h.out = <<o>> /\ ServedAs(o, m)
<1> DEFINE t == Tokens(m)
<1>1. request \in Parsers /\ LeftOver(<< >>) = << >>
  BY DEF RequestTypeOK, LeftOver
<1>2. CASE m.method = "RTCP"
  <2>1. t = <<Dollar, Payload, Payload>>
    BY <1>2 DEF Tokens, RtcpPacket
  <2>2. t[1] = Dollar /\ Len(t) = 3 /\ Len(RtcpPacket) = 3 /\ t \in Seq(Alphabet)
    <3>1. Dollar \in Alphabet /\ Payload \in Alphabet
      BY DEF Alphabet
    <3> QED
      BY <2>1, <3>1 DEF RtcpPacket
  <2> DEFINE q == [request EXCEPT !.method = "RTCP"]
  <2>3. q.state = request.state /\ q.line = request.line /\ q.header = request.header
        /\ q.method = "RTCP"
    BY <1>1 DEF Parsers
  <2>4. ParseRequest(request, t) = {[ok |-> TRUE, r |-> q, buf |-> t]}
    BY <2>2 DEF ParseRequest
  <2> HIDE DEF q, t
  <2>5. h = [keep |-> TRUE, r |-> q, buf |-> HandleRtcp(t), out |-> << >>]
    BY <2>3, <2>4 DEF HandleRtspRequest, t
  <2>6. HandleRtcp(t) = << >>
    <3>1. Retrieve(t, 3) \in Seq(Alphabet) /\ Len(Retrieve(t, 3)) = 0
      <4>1. 3 \in Nat /\ 3 <= Len(t) /\ Len(t) - 3 = 0
        BY <2>2
      <4> QED
        BY <2>2, <4>1, RetrieveIs DEF IsRest
    <3>2. Retrieve(t, 3) = << >>
      BY <3>1, EmptySeq
    <3> QED
      BY <2>2, <3>2 DEF HandleRtcp
  <2> QED
    BY <1>1, <1>2, <2>3, <2>5, <2>6
<1>3. CASE m.method # "RTCP"
  <2> DEFINE rest == Retrieve(t, 2)
             n    == Len(rest)
             text == SubSeq(rest, 1, n - 1)
  <2>1. /\ t[1] = [kind |-> "line", method |-> m.method, url |-> m.url]
        /\ FindFirstCrlf(t) = 2
        /\ rest \in Seq(Alphabet) /\ n \in Nat /\ n # 0 /\ FindLastCrlf(rest) = n
        /\ Retrieve(rest, n) = << >>
    BY <1>3, HeaderTextIs
  <2>2. TextOf(text, m)
    BY <1>3, HeaderTextIs DEF TextOf
  <2> DEFINE front == SubSeq(t, 1, 1)
             url == Emplace(NoParams, "url", m.url)
             r == [request EXCEPT !.method = m.method, !.line = url,
                                  !.state = "kParseHeadersLine"]
             p == ParseHeadersLine(r, text)
  <2>3. Len(front) = 1 /\ front[1] = t[1]
    <3>1. t \in Seq(Alphabet) /\ 1 \in 0..Len(t)
      BY MessageIs
    <3> HIDE DEF t
    <3>2. Len(SubSeq(t, 1, 1)) = 1 /\ \A i \in 1..1 : SubSeq(t, 1, 1)[i] = t[i]
      BY <3>1, FrontIs
    <3> QED
      BY <3>2
  <2> HIDE DEF front, rest, n, text, t
  <2>4. ParseRequestLine(request, front) = {[ok |-> TRUE, r |-> r]}
    <3> DEFINE q == [request EXCEPT !.method = m.method]
               z == [q EXCEPT !.line = Emplace(@, "url", m.url),
                              !.state = "kParseHeadersLine"]
    <3>1. front # << >> /\ front[1].kind = "line"
          /\ front[1].method = m.method /\ front[1].url = m.url
      <4>1. front # << >>
        <5>1. Len(<< >>) = 0
          OBVIOUS
        <5> QED
          BY <2>3, <5>1
      <4> QED
        BY <2>1, <2>3, <4>1
    <3>2. m.method \in Methods /\ m.url # "not rtsp"
      BY <1>3 DEF WellFormed
    <3>3. z = r
      <4> HIDE DEF url
      <4>1. q \in Parsers /\ q.line = NoParams
        <5>1. m.method \in Text
          BY SendableIs
        <5> QED
          BY <1>1, <5>1 DEF Parsers
      <4>2. z = [q EXCEPT !.line = url, !.state = "kParseHeadersLine"]
        BY <4>1 DEF Parsers, url
      <4>3. [q EXCEPT !.line = url, !.state = "kParseHeadersLine"] = r
        BY <1>1 DEF Parsers
      <4> QED
        BY <4>2, <4>3
    <3> HIDE DEF q, z, r
    <3>4. ParseRequestLine(request, front) = {[ok |-> TRUE, r |-> z]}
      BY <2>3, <3>1, <3>2 DEF ParseRequestLine, z, q
    <3> QED
      BY <3>3, <3>4
  <2>5. r \in Parsers /\ r.method = m.method /\ r.header = NoParams /\ r.line = url
        /\ r.state = "kParseHeadersLine" /\ Get(r.line, "url", "") = m.url
    <3>1. m.method \in Text /\ m.url \in Text
      BY SendableIs
    <3>2. NoParams \in Params({"url"}, Text) /\ "url" \notin DOMAIN NoParams
      BY NoParamsIs
    <3>3. /\ url \in Params({"url"}, Text)
          /\ "url" \in DOMAIN url /\ url["url"] = m.url
      BY <3>1, <3>2, EmplaceIs
    <3> HIDE DEF url
    <3>4. /\ r \in Parsers /\ r.method = m.method /\ r.header = NoParams
          /\ r.line = url /\ r.state = "kParseHeadersLine"
      BY <1>1, <3>1, <3>3 DEF Parsers, States
    <3> HIDE DEF r
    <3> QED
      BY <3>3, <3>4 DEF Get
  <2> HIDE DEF r, p
  <2>6. ParseHeaders(r, rest, TRUE) = [ok |-> p.ok, r |-> p.r, buf |-> << >>]
    <3>1. Retrieve(rest, n) = << >> /\ FindLastCrlf(rest) = n /\ n # 0
      BY <2>1
    <3> QED
      BY <3>1 DEF ParseHeaders, p, text
  <2>7. ParseRequest(request, t) = {[ok |-> p.ok, r |-> p.r, buf |-> << >>]}
    <3> DEFINE x == [ok |-> TRUE, r |-> r]
    <3>1. t[1] # Dollar
      <4>1. t[1].kind = "line" /\ Dollar.kind = "$"
        BY <2>1 DEF Dollar
      <4> QED
        BY <4>1
    <3>2. FindFirstCrlf(t) = 2 /\ rest = Retrieve(t, 2) /\ front = SubSeq(t, 1, 2 - 1)
      BY <2>1 DEF rest, front
    <3>3. x.ok = TRUE /\ x.r = r
      OBVIOUS
    <3>4. ParseRequestLine(request, front) = {x}
      BY <2>4
    <3> HIDE DEF x
    <3>5. ParseRequest(request, t) =
            {IF y.r.state = "kParseHeadersLine" THEN ParseHeaders(y.r, rest, y.ok)
             ELSE [ok |-> y.ok, r |-> y.r, buf |-> rest] : y \in {x}}
      BY <3>1, <3>2, <3>4 DEF ParseRequest
    <3> QED
      BY <2>5, <2>6, <3>3, <3>5
  <2>8. /\ p.ok /\ p.r \in Parsers /\ p.r.state = "kGotAll" /\ p.r.method = m.method
        /\ p.r.line = r.line /\ Get(p.r.header, "cseq", 0) = m.cseq
        /\ m.method \in {"DESCRIBE", "SETUP", "PLAY"} => p.r.auth = Given(m, "Authorization")
        /\ m.method = "SETUP" =>
             /\ p.r.channel = IF Get(r.line, "url", "") = "track1" THEN 1 ELSE 0
             /\ Transported(p.r, m)
    BY <1>3, <2>2, <2>5, ParsedIs DEF p
  <2>9. PICK a \in Answers(p.r) :
          h = [keep |-> TRUE, r |-> Reset(p.r), buf |-> << >>,
               out |-> <<[request |-> Handed(p.r), answer |-> a]>>]
    <3> DEFINE x == [ok |-> p.ok, r |-> p.r, buf |-> << >>]
    <3>1. x.ok /\ x.r = p.r /\ x.buf = << >>
      BY <2>8
    <3>2. ParseRequest(request, t) = {x}
      BY <2>7
    <3> HIDE DEF x
    <3>3. h \in CASE ~x.ok -> {[keep |-> FALSE, r |-> x.r, buf |-> x.buf, out |-> << >>]}
                [] x.ok /\ x.r.method = "RTCP" ->
                     {[keep |-> TRUE, r |-> x.r, buf |-> HandleRtcp(x.buf), out |-> << >>]}
                [] x.ok /\ x.r.method # "RTCP" /\ x.r.state # "kGotAll" ->
                     {[keep |-> TRUE, r |-> x.r, buf |-> x.buf, out |-> << >>]}
                [] OTHER ->
                     {[keep |-> TRUE, r |-> Reset(x.r), buf |-> x.buf,
                       out |-> <<[request |-> Handed(x.r), answer |-> a]>>] :
                        a \in Answers(x.r)}
      BY <3>2 DEF HandleRtspRequest, t
    <3> QED
      BY <1>3, <2>8, <3>1, <3>3
  <2>10. ServedAs([request |-> Handed(p.r), answer |-> a], m)
    BY <1>3, <2>5, <2>8, ServedIs
  <2> QED
    BY <1>1, <1>3, <2>8, <2>9, <2>10, ResetIs
<1> QED
  BY <1>2, <1>3

\* Reading takes from the front of what the client has sent.
LEMMA OnReadInv ==
  ASSUME IInv, NEW k \in 1..Len(wire), OnRead(k)
  PROVE  IInv'
<1> DEFINE b == ReadInto(buffer, k)
           w == SubSeq(wire, k + 1, Len(wire))
<1>1. /\ RequestTypeOK /\ SentInv /\ Framed(Stream) /\ ParserInv /\ ServedInv
      /\ AnswersMatchRequests /\ WholeInv
  BY DEF IInv
<1>2. PICK h \in HandleRtspRequest(b) :
        open' = h.keep /\ request' = h.r /\ buffer' = LeftOver(h.buf) /\ served' = served \o h.out
  BY DEF OnRead
<1>3. /\ open /\ wire' = w /\ sent' = sent
      /\ whole' = (whole /\ k = Len(wire) /\ wire = Tokens(sent[Len(sent)]))
  BY DEF OnRead
<1>4. /\ wire \in Seq(Alphabet) /\ buffer \in Seq(Alphabet) /\ Len(wire) \in Nat
      /\ Len(buffer) \in Nat
  BY <1>1, LenProperties DEF RequestTypeOK
<1>5. /\ Stream \in Seq(Alphabet) /\ Len(Stream) \in Nat /\ Len(sent) \in Nat
      /\ Len(served) \in Nat
      /\ \A i \in 1..Len(served) :
           served[i] \in Outs /\ served[i].answer.cseq \in Nat
  BY <1>1, StreamIs
<1>6. b \in Seq(Alphabet) /\ b # << >> /\ w \in Seq(Alphabet) /\ b \o w = Stream
  <2> DEFINE a == SubSeq(wire, 1, k)
  <2>1. a \in Seq(Alphabet) /\ Len(a) = k /\ k \in Nat /\ k > 0
    BY <1>4, FrontIs
  <2>2. w \in Seq(Alphabet)
    <3>1. w = Retrieve(wire, k)
      BY <1>4 DEF Retrieve
    <3> QED
      BY <1>4, <2>1, <3>1, RetrieveIs DEF IsRest
  <2>3. a \o w = wire
    <3>1. 1 \in 1..Len(wire) + 1 /\ k \in 1-1..Len(wire) /\ Len(wire) \in k..Len(wire)
      BY <1>4
    <3>2. SubSeq(wire, 1, k) \o SubSeq(wire, k + 1, Len(wire)) = SubSeq(wire, 1, Len(wire))
      BY <1>4, <3>1, ConcatAdjacentSubSeq
    <3> QED
      BY <1>4, <3>2, SubSeqFull
  <2> HIDE DEF a, w
  <2>4. (buffer \o a) \o w = buffer \o (a \o w)
    <3>1. buffer \in Seq(Alphabet) /\ a \in Seq(Alphabet) /\ w \in Seq(Alphabet)
      BY <1>4, <2>1, <2>2
    <3> QED
      BY <3>1, Joined
  <2>5. buffer \o a \in Seq(Alphabet) /\ Len(buffer \o a) = Len(buffer) + Len(a)
    BY <1>4, <2>1, ConcatProperties
  <2>6. Len(buffer \o a) # 0 /\ Len(<< >>) = 0
    BY <1>4, <2>1, <2>5
  <2>7. b = buffer \o a
    BY DEF ReadInto, a
  <2> HIDE DEF b
  <2> QED
    BY <2>2, <2>3, <2>4, <2>5, <2>6, <2>7 DEF Stream
<1> HIDE DEF b, w
<1>7. Unserved(Stream)
  BY <1>1, <1>5 DEF ServedInv, Unserved
<1>8. Handling(h, b, w)
  <2>1. Ready(request, b \o w)
    BY <1>1, <1>3, <1>6 DEF ParserInv
  <2> QED
    BY <1>1, <1>6, <1>7, <2>1, HandleIs
<1> DEFINE t == LeftOver(h.buf) \o w
<1>9. IsRest(t, Stream) /\ Stream' = t /\ t \in Seq(Alphabet)
  <2>1. IsRest(LeftOver(h.buf), b)
    BY <1>6, <1>8, LeftOverIs DEF Handling
  <2>2. IsRest(t, b \o w)
    BY <1>6, <2>1, RestBefore
  <2> QED
    BY <1>2, <1>3, <1>6, <2>2 DEF Stream, IsRest
<1>10. IsRest(t, h.buf \o w)
  <2>1. h.buf \in Seq(Alphabet)
    BY <1>8 DEF Handling, IsRest
  <2>2. IsRest(h.buf, h.buf)
    BY <2>1, RestBounds
  <2>3. IsRest(LeftOver(h.buf), h.buf)
    BY <2>1, <2>2, LeftOverIs
  <2> QED
    BY <1>6, <2>1, <2>3, RestBefore
<1>11. h.keep \in BOOLEAN /\ h.r \in Parsers /\ (h.keep => Ready(h.r, t))
  BY <1>8 DEF Handling
<1>12. LeftOver(h.buf) \in Seq(Alphabet) /\ h.buf \o w \in Seq(Alphabet)
  BY <1>6, <1>8, LeftOverIs, ConcatProperties DEF Handling, IsRest
<1> HIDE DEF t
<1>13. \/ h.out = << >> /\ served' = served
       \/ /\ h.keep /\ h.r.state = "kParseRequestLine"
          /\ \E o \in Outs : /\ h.out = <<o>> /\ served' = Append(served, o)
                             /\ Current(o.request.method, o.answer.cseq, h.buf \o w)
  <2>1. CASE h.out = << >>
    BY <1>1, <1>2, <2>1, ConcatEmptySeq DEF RequestTypeOK
  <2>2. CASE h.out # << >>
    <3>1. \A o \in Outs : Append(served, o) = served \o <<o>>
      BY <1>1, AppendIsConcat DEF RequestTypeOK
    <3> QED
      BY <1>2, <1>8, <2>2, <3>1 DEF Handling
  <2> QED
    BY <2>1, <2>2
<1>14. \A c \in Nat : After(c, Stream) => After(c, t)
  BY <1>5, <1>9, FramedRest
<1>15. RequestTypeOK' /\ SentInv' /\ Framed(Stream)'
  <2>1. served' \in Seq(Outs)
    <3>1. served \in Seq(Outs)
      BY <1>1 DEF RequestTypeOK
    <3>2. CASE \E o \in Outs : served' = Append(served, o)
      BY <3>1, <3>2, AppendProperties
    <3> QED
      BY <1>13, <3>1, <3>2
  <2>2. Framed(t)
    BY <1>1, <1>5, <1>9, FramedRest
  <2>3. RequestTypeOK'
    BY <1>1, <1>2, <1>3, <1>6, <1>11, <1>12, <2>1 DEF RequestTypeOK
  <2>4. Framed(Stream)'
    BY <1>3, <1>9, <2>2 DEF Framed, Expects
  <2> QED
    BY <1>1, <1>3, <2>3, <2>4 DEF SentInv
<1>16. ASSUME h.out = << >>, served' = served
       PROVE  ParserInv' /\ ServedInv' /\ AnswersMatchRequests'
  <2>1. ParserInv'
    BY <1>2, <1>3, <1>9, <1>11, <1>16 DEF ParserInv, Ready, Current, Expects, After
  <2>2. ServedInv'
    BY <1>1, <1>3, <1>5, <1>9, <1>14, <1>16 DEF ServedInv, Expects, After
  <2>3. AnswersMatchRequests'
    BY <1>1, <1>3, <1>16 DEF AnswersMatchRequests
  <2> QED
    BY <2>1, <2>2, <2>3
<1>17. ASSUME NEW o \in Outs, served' = Append(served, o),
              h.keep, h.r.state = "kParseRequestLine",
              Current(o.request.method, o.answer.cseq, h.buf \o w)
       PROVE  ParserInv' /\ ServedInv' /\ AnswersMatchRequests'
  <2> DEFINE c == o.answer.cseq
  <2>1. /\ Expects(o.request.method, c) /\ c \in 1..Len(sent) /\ c \in Nat
        /\ After(c, h.buf \o w)
        /\ \A i \in 1..Len(served) : served[i].answer.cseq < c
    BY <1>5, <1>17 DEF Current, Expects
  <2>2. After(c, t)
    BY <1>10, <1>12, <2>1, FramedRest
  <2>3. /\ Len(served') = Len(served) + 1 /\ served'[Len(served) + 1] = o
        /\ \A i \in 1..Len(served) : served'[i] = served[i]
        /\ DOMAIN served' = 1..Len(served')
    BY <1>1, <1>17, AppendProperties, LenProperties DEF RequestTypeOK
  <2>4. ASSUME NEW i \in 1..Len(served')
        PROVE  i \in 1..Len(served) \/ i = Len(served) + 1
    BY <1>5, <2>3
  <2>5. ParserInv'
    BY <1>2, <1>11, <1>17 DEF ParserInv, Ready
  <2>6. ServedInv'
    <3>1. ASSUME NEW i \in 1..Len(served')
          PROVE  /\ Expects(served'[i].request.method, served'[i].answer.cseq)
                 /\ After(served'[i].answer.cseq, t)
      <4>1. CASE i \in 1..Len(served)
        BY <1>1, <1>5, <1>14, <2>3, <4>1 DEF ServedInv
      <4>2. CASE i = Len(served) + 1
        BY <2>1, <2>2, <2>3, <4>2
      <4> QED
        BY <2>4, <4>1, <4>2
    <3> QED
      BY <1>3, <1>9, <3>1 DEF ServedInv, Expects, After
  <2>7. AnswersMatchRequests'
    <3> SUFFICES ASSUME NEW i \in 1..Len(served')
                 PROVE  /\ served'[i].answer.cseq \in DOMAIN sent
                        /\ sent[served'[i].answer.cseq].method = served'[i].request.method
                        /\ i > 1 => served'[i - 1].answer.cseq < served'[i].answer.cseq
      BY <1>3, <2>3 DEF AnswersMatchRequests
    <3>1. CASE i \in 1..Len(served)
      <4>1. DOMAIN served = 1..Len(served)
        BY <1>1, LenProperties DEF RequestTypeOK
      <4>2. i > 1 => i - 1 \in 1..Len(served)
        BY <1>5, <3>1
      <4> QED
        BY <1>1, <2>3, <3>1, <4>1, <4>2 DEF AnswersMatchRequests
    <3>2. CASE i = Len(served) + 1
      <4>1. c \in DOMAIN sent /\ sent[c].method = o.request.method
        BY <1>1, <2>1, LenProperties DEF Expects, RequestTypeOK
      <4>2. i > 1 => i - 1 \in 1..Len(served) /\ i - 1 = Len(served)
        BY <1>5, <3>2
      <4> QED
        BY <2>1, <2>3, <3>2, <4>1, <4>2
    <3> QED
      BY <2>4, <3>1, <3>2
  <2> QED
    BY <2>5, <2>6, <2>7
<1>18. WholeInv'
  <2> SUFFICES ASSUME whole', \A i \in 1..Len(sent) : WellFormed(sent[i])
               PROVE  /\ open' /\ buffer' = << >>
                      /\ request'.state = "kParseRequestLine"
                      /\ request'.line = NoParams /\ request'.header = NoParams
                      /\ wire' = << >> /\ Done(Len(sent))'
    BY <1>3 DEF WholeInv
  <2> DEFINE n == Len(sent)
             m == sent[n]
  <2>1. whole /\ k = Len(wire) /\ wire = Tokens(m)
    BY <1>3
  <2>2. /\ buffer = << >>
        /\ request.state = "kParseRequestLine"
        /\ request.line = NoParams /\ request.header = NoParams
        /\ \/ wire = << >>
           \/ sent # << >> /\ Done(n - 1)
           \/ Len(wire) > Len(Tokens(m))
    BY <1>1, <2>1 DEF WholeInv
  <2>3. sent # << >> /\ Done(n - 1)
    <3>1. wire # << >> /\ ~(Len(wire) > Len(Tokens(m)))
      BY <1>4, <2>1
    <3> QED
      BY <2>2, <3>1
  <2>4. n \in 1..n /\ m \in Sendable /\ WellFormed(m)
    <3>1. n \in 1..n
      BY <1>1, <2>3, EmptySeq DEF RequestTypeOK
    <3> QED
      BY <1>1, <3>1, ElementOfSeq DEF RequestTypeOK
  <2>5. b = Tokens(m) /\ wire' = << >>
    <3>1. SubSeq(wire, 1, Len(wire)) = wire
      BY <1>4, SubSeqFull
    <3>2. b = wire
      BY <1>4, <2>1, <2>2, <3>1, ConcatEmptySeq DEF b, ReadInto
    <3>3. wire' = << >>
      BY <1>3, <1>4, <2>1, SubSeqEmpty DEF w
    <3> QED
      BY <2>1, <3>2, <3>3
  <2>6. /\ h.keep /\ LeftOver(h.buf) = << >>
        /\ h.r.state = "kParseRequestLine"
        /\ h.r.line = NoParams /\ h.r.header = NoParams
        /\ IF m.method = "RTCP" THEN h.out = << >>
           ELSE \E o : h.out = <<o>> /\ ServedAs(o, m)
    <3>1. h \in HandleRtspRequest(Tokens(m))
      BY <1>2, <2>5
    <3> HIDE DEF m
    <3> QED
      BY <1>1, <2>2, <2>4, <3>1, WholeReadIs
  <2>7. Len(served') \in Nat /\ Len(served') >= Len(served)
        /\ \A j \in 1..Len(served) : j \in 1..Len(served') /\ served'[j] = served[j]
    <3>1. CASE served' = served
      BY <1>5, <3>1
    <3>2. CASE \E o \in Outs : served' = Append(served, o)
      BY <1>1, <1>5, <3>2, AppendProperties DEF RequestTypeOK
    <3> QED
      BY <1>13, <3>1, <3>2
  <2>8. m.method # "RTCP" => \E j \in 1..Len(served') : ServedAs(served'[j], m)
    <3> SUFFICES ASSUME m.method # "RTCP"
                 PROVE  \E j \in 1..Len(served') : ServedAs(served'[j], m)
      OBVIOUS
    <3>1. PICK o : h.out = <<o>> /\ ServedAs(o, m)
      BY <2>6
    <3>2. PICK x \in Outs : h.out = <<x>> /\ served' = Append(served, x)
      BY <1>13, <3>1
    <3>3. x = o
      BY <3>1, <3>2
    <3>4. Len(served) + 1 \in 1..Len(served') /\ served'[Len(served) + 1] = o
      BY <1>1, <1>5, <3>2, <3>3, AppendProperties DEF RequestTypeOK
    <3> HIDE DEF m
    <3> QED
      BY <3>1, <3>4
  <2>9. ASSUME NEW i \in 1..n, sent[i].method # "RTCP"
        PROVE  \E j \in 1..Len(served') : ServedAs(served'[j], sent[i])
    <3>1. CASE i = n
      BY <2>8, <2>9, <3>1
    <3>2. CASE i # n
      <4>1. i \in 1..(n - 1)
        BY <1>5, <3>2
      <4>2. PICK j \in 1..Len(served) : ServedAs(served[j], sent[i])
        BY <2>3, <2>9, <4>1 DEF Done
      <4> QED
        BY <2>7, <4>2
    <3> QED
      BY <3>1, <3>2
  <2>10. Done(Len(sent))'
    BY <1>3, <2>9 DEF Done
  <2> QED
    BY <1>2, <2>5, <2>6, <2>10
<1>19. ParserInv' /\ ServedInv' /\ AnswersMatchRequests'
  BY <1>13, <1>16, <1>17
<1> QED
  BY <1>15, <1>18, <1>19 DEF IInv

\* There is nothing to begin with.
LEMMA InitInv == Init => IInv
<1> SUFFICES ASSUME Init PROVE IInv
  OBVIOUS
<1>1. /\ wire = << >> /\ buffer = << >> /\ request = NewRequest /\ open = TRUE
      /\ sent = << >> /\ served = << >> /\ whole = TRUE
  BY DEF Init
<1>2. Stream = << >> /\ Len(<< >>) = 0 /\ DOMAIN << >> = {}
  <2>1. << >> \o << >> = << >>
    BY EmptySeq, ConcatEmptySeq
  <2> QED
    BY <1>1, <2>1 DEF Stream
<1>3. \A i : i \notin 1..0
  OBVIOUS
<1>4. request \in Parsers
  <2>1. NoParams \in Params({"url"}, Text) /\ NoParams \in Params(Keys, Nat)
    <3>1. {} \in SUBSET {"url"} /\ {} \in SUBSET Keys
      OBVIOUS
    <3>2. NoParams \in [{} -> Text] /\ NoParams \in [{} -> Nat]
      BY DEF NoParams
    <3> QED
      BY <3>1, <3>2 DEF Params
  <2>2. "NONE" \in Text
    BY DEF Text
  <2> QED
    BY <1>1, <2>1, <2>2 DEF NewRequest, Parsers, States, Transports
<1>5. /\ request.state = "kParseRequestLine"
      /\ request.line = NoParams /\ request.header = NoParams
  BY <1>1 DEF NewRequest
<1>6. RequestTypeOK
  BY <1>1, <1>4, EmptySeq DEF RequestTypeOK
<1>7. Framed(Stream) /\ SentInv /\ ServedInv
  BY <1>1, <1>2, <1>3 DEF Framed, SentInv, ServedInv
<1>8. ParserInv
  BY <1>5 DEF ParserInv, Ready, NoParams
<1>9. AnswersMatchRequests
  BY <1>1, <1>2 DEF AnswersMatchRequests
<1>10. WholeInv
  BY <1>1, <1>2, <1>3, <1>5 DEF WholeInv, Done
<1> QED
  BY <1>6, <1>7, <1>8, <1>9, <1>10 DEF IInv

\* Steps that change nothing keep it.
LEMMA StutterInv == IInv /\ UNCHANGED vars => IInv'
<1> SUFFICES ASSUME IInv, UNCHANGED vars PROVE IInv'
  OBVIOUS
<1> USE DEF vars, IInv
<1>1. RequestTypeOK' /\ SentInv' /\ AnswersMatchRequests'
  BY DEF RequestTypeOK, SentInv, AnswersMatchRequests
<1>2. Framed(Stream)'
  BY DEF Framed, Stream, Expects
<1>3. ParserInv' /\ ServedInv'
  BY DEF ParserInv, ServedInv, Ready, Current, Expects, After, Stream
<1>4. WholeInv'
  BY DEF WholeInv, Done
<1> QED
  BY <1>1, <1>2, <1>3, <1>4

-----------------------------------------------------------------------------
(* The theorems.                                                           *)

\* The invariant holds of every behaviour of a client and the parser.
THEOREM Invariance == Spec => []IInv
<1>1. Init => IInv
  BY InitInv
<1>2. IInv /\ [Next]_vars => IInv'
  BY SendInv, OnReadInv, StutterInv DEF Next
<1> QED
  BY <1>1, <1>2, PTL DEF Spec

\* The parser's object, the buffer and what is handed to the handlers have
\* their types, whatever the bytes are (RtspRequest, BufferReader).
THEOREM TypeCorrect == Spec => []RequestTypeOK
<1>1. IInv => RequestTypeOK
  BY DEF IInv
<1> QED
  BY <1>1, Invariance, PTL

\* However a client's bytes are cut and joined, a request is answered at most
\* once and in the order sent, and the method served and the CSeq of the answer
\* are those of one request (ParseRequest, HandleRtspRequest, OnRead).
THEOREM AnswersMatchRequestsHolds == Spec => []AnswersMatchRequests
<1>1. IInv => AnswersMatchRequests
  BY DEF IInv
<1> QED
  BY <1>1, Invariance, PTL

\* A client whose messages come whole and one at a time has each request served
\* with its own parameters, its transport and its authorization, and nothing of
\* an earlier one (HandleRtspRequest, RtspRequest::Reset, HandleRtcp).
THEOREM WholeRequestsServedHolds == Spec => []WholeRequestsServed
<1>1. IInv => WholeRequestsServed
  <2> SUFFICES ASSUME IInv, whole, wire = << >>, \A i \in DOMAIN sent : WellFormed(sent[i])
               PROVE  /\ open
                      /\ \A i \in DOMAIN sent : sent[i].method # "RTCP" =>
                           \E j \in DOMAIN served : ServedAs(served[j], sent[i])
    BY DEF WholeRequestsServed
  <2>1. DOMAIN sent = 1..Len(sent) /\ DOMAIN served = 1..Len(served)
    BY LenProperties DEF IInv, RequestTypeOK
  <2>2. /\ open
        /\ \/ Done(Len(sent))
           \/ sent # << >> /\ wire = Tokens(sent[Len(sent)])
           \/ sent # << >> /\ Len(wire) > Len(Tokens(sent[Len(sent)]))
    BY <2>1 DEF IInv, WholeInv
  <2>3. Len(<< >>) = 0
    OBVIOUS
  <2>4. sent # << >> =>
          Len(Tokens(sent[Len(sent)])) >= 3 /\ Len(Tokens(sent[Len(sent)])) \in Nat
    <3>1. sent # << >> => Len(sent) \in 1..Len(sent)
      BY EmptySeq DEF IInv, RequestTypeOK
    <3>2. sent # << >> => sent[Len(sent)] \in Sendable
      BY <3>1, ElementOfSeq DEF IInv, RequestTypeOK
    <3> QED
      BY <3>2, MessageIs
  <2>5. Done(Len(sent))
    BY <2>2, <2>3, <2>4
  <2> QED
    BY <2>1, <2>2, <2>5 DEF Done
<1> QED
  BY <1>1, Invariance, PTL
=============================================================================
