-------------------------- MODULE RtspPusherProofs --------------------------
(***************************************************************************)
(* Proofs about RtspPusher, for every number of reads, however the answers *)
(* are cut and whenever the calling thread, the server or the time-out     *)
(* ends the connection.                                                    *)
(***************************************************************************)
EXTENDS RtspPusher, SequenceTheorems, FiniteSetTheorems, TLAPS

-----------------------------------------------------------------------------
(* The conversation as the server should see it.                           *)

\* The last request, and the one with number i.
N == 3 + Cardinality(sources)
Method(i) == CASE i = 1 -> "OPTIONS" [] i = 2 -> "ANNOUNCE" [] i = N -> "RECORD" [] OTHER -> "SETUP"
Numbered(i) == [cseq |-> i, method |-> Method(i)]

Methods == {"OPTIONS", "ANNOUNCE", "SETUP", "RECORD"}
Parts == {"OK", "error", "end"}

-----------------------------------------------------------------------------
(* The inductive invariant.                                                *)

\* Every variable has its type.
PusherTypeOK ==
  /\ user \in {"idle", "waiting", "open", "failed", "closed"}
  /\ queue \in Seq({"options", "disconnect"})
  /\ rtsp_conn \in BOOLEAN /\ intact \in BOOLEAN /\ fault \in BOOLEAN
  /\ conn \in [method : Methods \union {"NONE"}, cseq : Nat, setup : SUBSET {0, 1},
               state : {"START_CONNECT", "START_PUSH"}, closed : BOOLEAN]
  /\ read_buffer \in Seq(Parts) /\ stale \in Seq(Parts) /\ responses \in Seq(Parts)
  /\ sources \in SUBSET {0, 1}
  /\ requests \in Seq([method : Methods, cseq : Nat])
  /\ accepted \in Seq([method : Methods, cseq : Nat])

\* The trigger event that starts the conversation runs once, before anything is
\* sent.
QueueInv ==
  /\ user = "idle" => queue = << >> /\ conn.method = "NONE"
  /\ \A i \in 1..Len(queue) : queue[i] = "options" => i = 1 /\ conn.method = "NONE"

Unsent ==
  conn.method = "NONE" =>
    /\ conn.cseq = 0 /\ conn.setup = {} /\ conn.state = "START_CONNECT"
    /\ requests = << >> /\ responses = << >> /\ accepted = << >>
    /\ read_buffer = << >> /\ stale = << >>

\* The server has accepted the first k requests and no other.
Accepted(k) == Len(accepted) = k /\ \A i \in 1..k : accepted[i] = Numbered(i)

\* Request k is on its way, or its answer is.
Underway(k) ==
  \/ requests = <<Numbered(k)>> /\ responses = << >> /\ Accepted(k - 1)
  \/ requests = << >> /\ responses = <<"OK", "end">> /\ Accepted(k)
  \/ requests = << >> /\ responses = <<"error", "end">> /\ Accepted(k - 1)

\* As long as the responses come whole, an open connection is at one request of
\* the conversation: its method and its channels are that request's, nothing is
\* left in the buffer, and what lies behind it holds no status but at its start.
AtRequest(k) ==
  /\ conn.cseq = k - 1 /\ conn.method = Method(k)
  /\ conn.setup \subseteq sources
  /\ k < N => Cardinality(conn.setup) = IF k <= 2 THEN 0 ELSE k - 2
  /\ read_buffer = << >>
  /\ Underway(k)

StepInv ==
  intact /\ conn.method # "NONE" /\ ~conn.closed /\ ~IsRecord => \E k \in 1..N : AtRequest(k)

StaleInv == intact => \A i \in 2..Len(stale) : stale[i] # "OK"

\* Once it pushes there is nothing on its way, and the server accepted it all.
RecordInv ==
  intact /\ IsRecord => requests = << >> /\ responses = << >> /\ Accepted(N)

IInv == PusherTypeOK /\ QueueInv /\ Unsent /\ StepInv /\ StaleInv /\ RecordInv
-----------------------------------------------------------------------------
(* Lemmas about the operators.                                             *)

Conns == [method : Methods \union {"NONE"}, cseq : Nat, setup : SUBSET {0, 1},
          state : {"START_CONNECT", "START_PUSH"}, closed : BOOLEAN]
Reqs  == [method : Methods, cseq : Nat]

\* There are at least three requests.
LEMMA SourcesAre ==
  ASSUME sources \in SUBSET {0, 1}
  PROVE  /\ IsFiniteSet(sources) /\ Cardinality(sources) \in Nat
         /\ N \in Nat /\ N = 3 + Cardinality(sources)
<1>1. IsFiniteSet({0, 1})
  <2>1. IsFiniteSet({} \union {0})
    BY FS_EmptySet, FS_AddElement
  <2>2. IsFiniteSet({0} \union {1})
    <3>1. {} \union {0} = {0}
      OBVIOUS
    <3> QED
      BY <2>1, <3>1, FS_AddElement
  <2>3. {0} \union {1} = {0, 1}
    OBVIOUS
  <2> QED
    BY <2>2, <2>3
<1>2. IsFiniteSet(sources)
  BY <1>1, FS_Subset
<1> QED
  BY <1>2, FS_CardinalityType DEF N

\* The channel that is set up next is one of those left.
LEMMA MinIs ==
  ASSUME NEW S \in SUBSET {0, 1}, S # {}
  PROVE  Min(S) \in S
<1>1. \E x \in S : \A y \in S : x <= y
  <2>1. CASE 0 \in S
    <3>1. 0 \in S /\ \A y \in S : 0 <= y
      BY <2>1
    <3> QED
      BY <3>1
  <2>2. CASE 0 \notin S
    <3>1. S = {1}
      BY <2>2
    <3>2. 1 \in S /\ \A y \in S : 1 <= y
      BY <3>1
    <3> QED
      BY <3>2
  <2> QED
    BY <2>1, <2>2
<1> QED
  BY <1>1 DEF Min

\* What closing the connection, and counting an answer, do to it.
LEMMA ConnIs ==
  ASSUME NEW c \in Conns
  PROVE  /\ Closes(c).c \in Conns /\ Closes(c).out \in Seq(Reqs)
         /\ Closes(c).c.method = c.method /\ Closes(c).c.state = c.state
         /\ Closes(c).c.closed
         /\ [c EXCEPT !.cseq = @ + 1] \in Conns
         /\ [c EXCEPT !.cseq = @ + 1].cseq = c.cseq + 1
         /\ [c EXCEPT !.cseq = @ + 1].method = c.method
         /\ [c EXCEPT !.cseq = @ + 1].setup = c.setup
         /\ [c EXCEPT !.cseq = @ + 1].state = c.state
<1>1. << >> \in Seq(Reqs)
  OBVIOUS
<1>2. /\ Closes(c).c \in Conns /\ Closes(c).out = << >>
      /\ Closes(c).c.method = c.method /\ Closes(c).c.state = c.state
      /\ Closes(c).c.closed = TRUE
  BY DEF Closes, Conns
<1>3. /\ [c EXCEPT !.cseq = @ + 1] \in Conns
      /\ [c EXCEPT !.cseq = @ + 1].cseq = c.cseq + 1
      /\ [c EXCEPT !.cseq = @ + 1].method = c.method
      /\ [c EXCEPT !.cseq = @ + 1].setup = c.setup
      /\ [c EXCEPT !.cseq = @ + 1].state = c.state
  BY DEF Conns
<1> QED
  BY <1>1, <1>2, <1>3

\* The requests have the types of requests.
LEMMA NumberedIs ==
  ASSUME NEW i \in Nat
  PROVE  Method(i) \in Methods /\ Numbered(i) \in Reqs
<1>1. Method(i) \in Methods
  BY DEF Method, Methods
<1> QED
  BY <1>1 DEF Numbered, Reqs

\* Whatever it answers, the connection has a last request and keeps its types.
LEMMA HandleTypes ==
  ASSUME sources \in SUBSET {0, 1}, NEW c \in Conns, c.method # "NONE"
  PROVE  /\ HandleRtspResponse(c).c \in Conns
         /\ HandleRtspResponse(c).c.method # "NONE"
         /\ HandleRtspResponse(c).out \in Seq(Reqs)
<1>1. ASSUME NEW d \in Conns, NEW m \in Methods
      PROVE  Sends(d, m).c \in Conns /\ Sends(d, m).c.method # "NONE" /\ Sends(d, m).out \in Seq(Reqs)
  <2>1. [method |-> m, cseq |-> d.cseq + 1] \in Reqs
    BY DEF Conns, Reqs
  <2>2. [d EXCEPT !.method = m] \in Conns /\ [d EXCEPT !.method = m].method # "NONE"
    BY DEF Conns, Methods
  <2>3. <<[method |-> m, cseq |-> d.cseq + 1]>> \in Seq(Reqs)
    BY <2>1
  <2>4. /\ Sends(d, m).c = [d EXCEPT !.method = m]
        /\ Sends(d, m).out = <<[method |-> m, cseq |-> d.cseq + 1]>>
    BY DEF Sends
  <2> QED
    BY <2>2, <2>3, <2>4, Zenon
<1>2. << >> \in Seq(Reqs)
  OBVIOUS
<1>3. CASE c.method = "OPTIONS"
  <2>1. Closes(c).c \in Conns /\ Closes(c).c.method # "NONE" /\ Closes(c).out \in Seq(Reqs)
    BY <1>2 DEF Closes, Conns
  <2>2. "ANNOUNCE" \in Methods
    BY DEF Methods
  <2>3. HandleRtspResponse(c) = SendAnnounce(c)
    BY <1>3 DEF HandleRtspResponse
  <2> QED
    BY <1>1, <2>1, <2>2, <2>3 DEF SendAnnounce
<1>4. CASE c.method \in {"ANNOUNCE", "SETUP"}
  <2>1. HandleRtspResponse(c) = SendSetup(c)
    BY <1>4 DEF HandleRtspResponse
  <2>2. "SETUP" \in Methods /\ "RECORD" \in Methods
    BY DEF Methods
  <2>3. CASE sources \ c.setup = {}
    BY <1>1, <2>1, <2>2, <2>3 DEF SendSetup
  <2>4. CASE sources \ c.setup # {}
    <3> DEFINE d == [c EXCEPT !.setup = @ \union {Min(sources \ c.setup)}]
    <3>1. Min(sources \ c.setup) \in {0, 1}
      BY <2>4, MinIs
    <3>2. d \in Conns
      BY <3>1 DEF Conns
    <3>3. HandleRtspResponse(c) = Sends(d, "SETUP")
      BY <2>1, <2>4 DEF SendSetup
    <3> HIDE DEF d
    <3> QED
      BY <1>1, <2>2, <3>2, <3>3
  <2> QED
    BY <2>3, <2>4
<1>5. CASE c.method = "RECORD"
  <2>1. HandleRtspResponse(c) = HandleRecord(c)
    BY <1>5 DEF HandleRtspResponse
  <2> QED
    BY <1>2, <1>5, <2>1 DEF HandleRecord, Stays, Conns
<1> QED
  BY <1>3, <1>4, <1>5 DEF Conns, Methods

\* The answer to request k: without a session the connection closes, otherwise
\* request k + 1 follows, with one more channel set up if it is a SETUP, and
\* the answer to the last starts the push.
LEMMA HandleIs ==
  ASSUME sources \in SUBSET {0, 1}, NEW c \in Conns, NEW k \in 1..N,
         c.cseq = k, c.method = Method(k), c.setup \subseteq sources,
         k < N => Cardinality(c.setup) = IF k <= 2 THEN 0 ELSE k - 2
  PROVE  LET h == HandleRtspResponse(c)
         IN  \/ h.c.closed /\ h.c.state = c.state
             \/ /\ k < N /\ h.out = <<Numbered(k + 1)>>
                /\ h.c.cseq = k /\ h.c.method = Method(k + 1) /\ h.c.setup \subseteq sources
                /\ k + 1 < N => Cardinality(h.c.setup) = IF k + 1 <= 2 THEN 0 ELSE (k + 1) - 2
                /\ h.c.state = c.state
             \/ k = N /\ h.out = << >> /\ h.c.state = "START_PUSH"
<1> DEFINE h == HandleRtspResponse(c)
<1>0. /\ N \in Nat /\ N >= 3 /\ k \in Nat /\ k >= 1 /\ k <= N
      /\ Cardinality(sources) \in Nat /\ N = 3 + Cardinality(sources)
      /\ IsFiniteSet(sources) /\ IsFiniteSet(c.setup) /\ Cardinality(c.setup) \in Nat
  <2>1. IsFiniteSet(sources) /\ Cardinality(sources) \in Nat /\ N \in Nat /\ N = 3 + Cardinality(sources)
    BY SourcesAre
  <2>2. IsFiniteSet(c.setup) /\ Cardinality(c.setup) \in Nat
    BY <2>1, FS_Subset, FS_CardinalityType
  <2> QED
    BY <2>1, <2>2
<1>1. ASSUME NEW d \in Conns, NEW m, d.cseq = k, d.state = c.state, m = Method(k + 1)
      PROVE  /\ Sends(d, m).out = <<Numbered(k + 1)>>
             /\ Sends(d, m).c.cseq = k /\ Sends(d, m).c.method = Method(k + 1)
             /\ Sends(d, m).c.setup = d.setup /\ Sends(d, m).c.state = c.state
  BY <1>1 DEF Sends, Numbered, Conns
<1>2. CASE k = 1
  <2>0. c.method = "OPTIONS"
    BY <1>0, <1>2 DEF Method
  <2>1. h = SendAnnounce(c)
    BY <2>0 DEF HandleRtspResponse
  <2>2. CASE sources = {}
    <3>1. h = Closes(c)
      BY <2>1, <2>2 DEF SendAnnounce
    <3>2. h.c.closed /\ h.c.state = c.state
      BY <3>1 DEF Closes, Conns
    <3> QED
      BY <3>2
  <2>3. CASE sources # {}
    <3>0. Method(k + 1) = "ANNOUNCE"
      BY <1>0, <1>2 DEF Method
    <3>1. h = Sends(c, "ANNOUNCE") /\ "ANNOUNCE" = Method(k + 1)
      BY <2>1, <2>3, <3>0 DEF SendAnnounce
    <3>2. /\ h.out = <<Numbered(k + 1)>> /\ h.c.cseq = k /\ h.c.method = Method(k + 1)
          /\ h.c.setup = c.setup /\ h.c.state = c.state
      BY <1>1, <3>1
    <3> HIDE DEF h
    <3>3. Cardinality(c.setup) = 0
      BY <1>0, <1>2
    <3>4. k < N /\ k + 1 <= 2
      BY <1>0, <1>2
    <3> QED
      BY <3>2, <3>3, <3>4 DEF h
  <2> QED
    BY <2>2, <2>3
<1>3. CASE k > 1 /\ k < N
  <2>0. c.method \in {"ANNOUNCE", "SETUP"} /\ Cardinality(c.setup) = k - 2
    BY <1>0, <1>3 DEF Method
  <2>1. h = SendSetup(c)
    BY <2>0 DEF HandleRtspResponse
  <2>2. CASE sources \ c.setup = {}
    <3>1. c.setup = sources
      BY <2>2
    <3>2. k + 1 = N
      BY <1>0, <2>0, <3>1
    <3>3. h = Sends(c, "RECORD") /\ "RECORD" = Method(k + 1)
      BY <1>0, <1>3, <2>1, <2>2, <3>2 DEF SendSetup, Method
    <3>4. /\ h.out = <<Numbered(k + 1)>> /\ h.c.cseq = k /\ h.c.method = Method(k + 1)
          /\ h.c.setup = c.setup /\ h.c.state = c.state
      BY <1>1, <3>3
    <3> HIDE DEF h
    <3>5. ~(k + 1 < N)
      BY <1>0, <3>2
    <3> QED
      BY <1>3, <3>4, <3>5 DEF h
  <2>3. CASE sources \ c.setup # {}
    <3> DEFINE x == Min(sources \ c.setup)
               d == [c EXCEPT !.setup = @ \union {x}]
    <3>1. x \in sources /\ x \notin c.setup
      BY <2>3, MinIs
    <3> HIDE DEF x
    <3>2. Cardinality(c.setup \union {x}) = k - 1 /\ c.setup \union {x} \subseteq sources
      <4>1. Cardinality(c.setup \union {x}) = Cardinality(c.setup) + 1
        BY <1>0, <3>1, FS_AddElement
      <4> QED
        BY <1>0, <2>0, <3>1, <4>1
    <3>3. k - 1 <= Cardinality(sources)
      BY <1>0, <3>2, FS_Subset
    <3>4. k + 1 < N
      BY <1>0, <3>3
    <3>5. d \in Conns /\ d.cseq = k /\ d.state = c.state /\ d.setup = c.setup \union {x}
      BY <3>1 DEF Conns
    <3>6. h = Sends(d, "SETUP") /\ "SETUP" = Method(k + 1)
      BY <1>0, <1>3, <2>1, <2>3, <3>4 DEF SendSetup, Method, x
    <3> HIDE DEF d
    <3>7. /\ h.out = <<Numbered(k + 1)>> /\ h.c.cseq = k /\ h.c.method = Method(k + 1)
          /\ h.c.setup = c.setup \union {x} /\ h.c.state = c.state
      BY <1>1, <3>5, <3>6
    <3> HIDE DEF h
    <3>8. ~(k + 1 <= 2) /\ (k + 1) - 2 = k - 1
      BY <1>0, <1>3
    <3> QED
      BY <1>3, <3>2, <3>7, <3>8 DEF h
  <2> QED
    BY <2>2, <2>3
<1>4. CASE k = N
  <2>1. h = HandleRecord(c)
    BY <1>0, <1>4 DEF HandleRtspResponse, Method
  <2> QED
    BY <1>4, <2>1 DEF HandleRecord, Stays, Conns
<1> QED
  BY <1>0, <1>2, <1>3, <1>4
\* What follows from the channels following them.
LEMMA SameSources ==
  ASSUME sources' = sources
  PROVE  N' = N /\ \A i \in Nat : Method(i)' = Method(i) /\ Numbered(i)' = Numbered(i)
<1>1. N' = N
  BY DEF N
<1>2. ASSUME NEW i \in Nat
      PROVE  Method(i)' = Method(i)
  BY <1>1 DEF Method
<1> QED
  BY <1>1, <1>2 DEF Numbered

\* Of what lies behind the buffer, its start is always written over.
LEMMA BehindIs ==
  ASSUME NEW s \in Seq(Parts), NEW k \in 2..Len(s) + 2
  PROVE  /\ SubSeq(s, k, Len(s)) \in Seq(Parts)
         /\ (\A i \in 2..Len(s) : s[i] # "OK") =>
              \A i \in 1..Len(SubSeq(s, k, Len(s))) : SubSeq(s, k, Len(s))[i] # "OK"
<1> DEFINE t == SubSeq(s, k, Len(s))
<1>0. Len(s) \in Nat /\ k \in Nat /\ k >= 2 /\ \A i \in 1..Len(s) : s[i] \in Parts
  BY LenProperties, ElementOfSeq
<1>1. \A i \in k..Len(s) : s[i] \in Parts
  BY <1>0
<1>2. /\ t \in Seq(Parts) /\ Len(t) = IF k <= Len(s) THEN Len(s) - k + 1 ELSE 0
      /\ \A i \in 1..Len(s) - k + 1 : t[i] = s[k + i - 1]
  BY <1>0, <1>1, SubSeqProperties
<1> HIDE DEF t
<1>3. ASSUME \A i \in 2..Len(s) : s[i] # "OK", NEW i \in 1..Len(t)
      PROVE  t[i] # "OK"
  <2>1. k <= Len(s) /\ Len(t) = Len(s) - k + 1
    BY <1>0, <1>2
  <2>2. k + i - 1 \in 2..Len(s) /\ t[i] = s[k + i - 1]
    BY <1>0, <1>2, <2>1
  <2> QED
    BY <1>3, <2>2
<1> QED
  BY <1>2, <1>3 DEF t

\* A whole response is understood: behind it there is no other status.
LEMMA WholeResponse ==
  ASSUME NEW a \in {"OK", "error"}, NEW t \in Seq(Parts), \A i \in 1..Len(t) : t[i] # "OK"
  PROVE  LET seen == <<a, "end">> \o t
         IN  /\ ParseResponse(seen) = IF a = "OK" THEN "complete" ELSE "refused"
             /\ \A i \in 2..Len(seen) : seen[i] # "OK"
<1> DEFINE seen == <<a, "end">> \o t
<1>1. /\ <<a, "end">> \in Seq(Parts) /\ Len(<<a, "end">>) = 2
      /\ <<a, "end">>[1] = a /\ <<a, "end">>[2] = "end" /\ Len(t) \in Nat
  BY LenProperties DEF Parts
<1>2. /\ Len(seen) = 2 + Len(t)
      /\ \A i \in 1..2 + Len(t) : seen[i] = IF i <= 2 THEN <<a, "end">>[i] ELSE t[i - 2]
  BY <1>1, ConcatProperties
<1>3. seen[1] = a /\ seen[2] = "end"
  BY <1>1, <1>2
<1>4. \A i \in 2..Len(seen) : seen[i] # "OK"
  <2>1. ASSUME NEW i \in 2..Len(seen)
        PROVE  seen[i] # "OK"
    <3> HIDE DEF seen
    <3>1. CASE i = 2
      BY <1>3, <3>1
    <3>2. CASE i > 2
      <4>1. i \in 1..2 + Len(t) /\ ~(i <= 2) /\ i - 2 \in 1..Len(t)
        BY <1>1, <1>2, <3>2
      <4> QED
        BY <1>2, <4>1
    <3> QED
      BY <1>1, <1>2, <3>1, <3>2
  <2> QED
    BY <2>1
<1> HIDE DEF seen
<1>5. Contains(seen, "end") /\ (Contains(seen, "OK") <=> a = "OK")
  <2>1. 1 \in 1..Len(seen) /\ 2 \in 1..Len(seen) /\ \A i \in 1..Len(seen) : i = 1 \/ i \in 2..Len(seen)
    BY <1>1, <1>2
  <2> QED
    BY <1>3, <1>4, <2>1 DEF Contains
<1>6. ParseResponse(seen) = IF a = "OK" THEN "complete" ELSE "refused"
  BY <1>5 DEF ParseResponse
<1> QED
  BY <1>4, <1>6 DEF seen

-----------------------------------------------------------------------------
(* The invariant is inductive.                                             *)

\* Nothing has been sent.
LEMMA InitInv ==
  PusherInit => IInv
<1> SUFFICES ASSUME PusherInit
             PROVE  IInv
  OBVIOUS
<1>1. PusherTypeOK
  <2>1. conn \in Conns
    BY DEF PusherInit, Conns
  <2>2. \A S : << >> \in Seq(S)
    OBVIOUS
  <2> QED
    BY <2>1, <2>2 DEF PusherInit, PusherTypeOK, Conns
<1>2. QueueInv /\ Unsent /\ StepInv /\ StaleInv /\ RecordInv
  BY DEF PusherInit, QueueInv, Unsent, StepInv, StaleInv, RecordInv, IsRecord
<1> QED
  BY <1>1, <1>2 DEF IInv

\* A step that closes the connection, or does not touch it, leaves the
\* conversation where it is.
LEMMA QuietInv ==
  ASSUME IInv,
         UNCHANGED <<read_buffer, stale, sources, requests, responses, accepted, intact>>,
         \/ conn' = conn
         \/ conn' = [conn EXCEPT !.closed = TRUE]
  PROVE  Unsent' /\ StepInv' /\ StaleInv' /\ RecordInv'
<1>1. /\ conn'.method = conn.method /\ conn'.cseq = conn.cseq /\ conn'.setup = conn.setup
      /\ conn'.state = conn.state /\ (~conn'.closed => ~conn.closed)
  BY DEF IInv, PusherTypeOK
<1>2. N' = N /\ \A i \in Nat : Method(i)' = Method(i) /\ Numbered(i)' = Numbered(i)
  BY SameSources
<1>3. N \in Nat
  BY SourcesAre DEF IInv, PusherTypeOK
<1>4. \A k \in 0..N : Accepted(k) => Accepted(k)'
  BY <1>2, <1>3 DEF Accepted
<1>5. \A k \in 1..N : AtRequest(k) => AtRequest(k)'
  <2>1. ASSUME NEW k \in 1..N, Underway(k)
        PROVE  Underway(k)'
    <3>1. k \in Nat /\ k \in 0..N /\ k - 1 \in 0..N
      BY <1>3
    <3>2. Numbered(k)' = Numbered(k)
      BY <1>2, <3>1
    <3> QED
      BY <1>4, <2>1, <3>1, <3>2 DEF Underway
  <2>2. ASSUME NEW k \in 1..N
        PROVE  Method(k)' = Method(k)
    BY <1>2, <1>3
  <2> QED
    BY <1>1, <1>2, <2>1, <2>2 DEF AtRequest
<1>6. Unsent' /\ StaleInv'
  BY <1>1 DEF IInv, Unsent, StaleInv
<1>7. StepInv'
  BY <1>1, <1>2, <1>5 DEF IInv, StepInv, IsRecord
<1>8. RecordInv'
  BY <1>1, <1>2, <1>3 DEF IInv, RecordInv, IsRecord, Accepted
<1> QED
  BY <1>6, <1>7, <1>8
\* The calling thread opens a connection.
LEMMA OpenUrlInv ==
  IInv /\ OpenUrl => IInv'
<1> SUFFICES ASSUME IInv, OpenUrl
             PROVE  IInv'
  OBVIOUS
<1>0. /\ user = "idle" /\ user' = "waiting" /\ rtsp_conn' = TRUE
      /\ queue' = Append(queue, "options")
      /\ UNCHANGED <<conn, read_buffer, stale, sources, requests, responses, accepted, intact, fault>>
  BY DEF OpenUrl
<1>1. queue = << >> /\ conn.method = "NONE"
  BY <1>0 DEF IInv, QueueInv
<1>2. queue' = <<"options">> /\ queue' \in Seq({"options", "disconnect"}) /\ Len(queue') = 1
  BY <1>0, <1>1
<1>3. PusherTypeOK'
  BY <1>0, <1>2 DEF IInv, PusherTypeOK
<1>4. QueueInv'
  BY <1>0, <1>1, <1>2 DEF QueueInv
<1>5. Unsent' /\ StepInv' /\ StaleInv' /\ RecordInv'
  BY <1>0, QuietInv
<1> QED
  BY <1>3, <1>4, <1>5 DEF IInv

\* The calling thread sees that the connection records.
LEMMA OpenedInv ==
  IInv /\ Opened => IInv'
<1> SUFFICES ASSUME IInv, Opened
             PROVE  IInv'
  OBVIOUS
<1>0. /\ user = "waiting" /\ user' = "open"
      /\ UNCHANGED <<queue, rtsp_conn, conn, read_buffer, stale, sources, requests, responses,
                     accepted, intact, fault>>
  BY DEF Opened
<1>1. PusherTypeOK' /\ QueueInv'
  BY <1>0 DEF IInv, PusherTypeOK, QueueInv
<1>2. Unsent' /\ StepInv' /\ StaleInv' /\ RecordInv'
  BY <1>0, QuietInv
<1> QED
  BY <1>1, <1>2 DEF IInv

\* The calling thread gives up, or closes: it asks the loop to.
LEMMA DisconnectInv ==
  ASSUME IInv, user # "idle", NEW result \in {"failed", "closed"}, Disconnect(result)
  PROVE  IInv'
<1>0. /\ user' = result /\ rtsp_conn' = FALSE
      /\ queue' = Append(queue, "disconnect")
      /\ UNCHANGED <<conn, read_buffer, stale, sources, requests, responses, accepted, intact, fault>>
  BY DEF Disconnect
<1>1. queue \in Seq({"options", "disconnect"}) /\ Len(queue) \in Nat
  BY LenProperties DEF IInv, PusherTypeOK
<1>2. /\ queue' \in Seq({"options", "disconnect"}) /\ Len(queue') = Len(queue) + 1
      /\ \A i \in 1..Len(queue) : queue'[i] = queue[i]
      /\ queue'[Len(queue) + 1] = "disconnect"
  BY <1>0, <1>1, AppendProperties
<1>3. PusherTypeOK'
  BY <1>0, <1>2 DEF IInv, PusherTypeOK
<1>4. QueueInv'
  <2>1. ASSUME NEW i \in 1..Len(queue'), queue'[i] = "options"
        PROVE  i = 1 /\ conn'.method = "NONE"
    <3>1. i \in 1..Len(queue)
      BY <1>1, <1>2, <2>1
    <3> QED
      BY <1>0, <1>2, <2>1, <3>1 DEF IInv, QueueInv
  <2> QED
    BY <1>0, <2>1 DEF QueueInv
<1>5. Unsent' /\ StepInv' /\ StaleInv' /\ RecordInv'
  BY <1>0, QuietInv
<1> QED
  BY <1>3, <1>4, <1>5 DEF IInv

\* The loop runs a trigger event: the first request goes out when there is
\* still a connection, and nothing else has been sent then.
LEMMA PopTriggerEventInv ==
  IInv /\ PopTriggerEvent => IInv'
<1> SUFFICES ASSUME IInv, PopTriggerEvent
             PROVE  IInv'
  OBVIOUS
<1>0. /\ queue # << >> /\ queue' = Tail(queue)
      /\ UNCHANGED <<user, rtsp_conn, read_buffer, stale, sources, responses, accepted, intact>>
      /\ \/ /\ Head(queue) = "disconnect" /\ conn' = [conn EXCEPT !.closed = TRUE]
            /\ UNCHANGED <<requests, fault>>
         \/ /\ Head(queue) # "disconnect" /\ rtsp_conn /\ SendRtspMessage(SendOptions(conn))
            /\ UNCHANGED fault
         \/ /\ Head(queue) # "disconnect" /\ ~rtsp_conn
            /\ fault' = TRUE /\ UNCHANGED <<conn, requests>>
  BY DEF PopTriggerEvent
<1>1. /\ queue \in Seq({"options", "disconnect"}) /\ Len(queue) \in Nat /\ Len(queue) >= 1
      /\ queue' \in Seq({"options", "disconnect"}) /\ Len(queue') = Len(queue) - 1
      /\ \A i \in 1..Len(queue') : queue'[i] = queue[i + 1]
      /\ Head(queue) = queue[1] /\ Head(queue) \in {"options", "disconnect"}
  <2>1. queue \in Seq({"options", "disconnect"}) /\ Len(queue) \in Nat
    BY LenProperties DEF IInv, PusherTypeOK
  <2>2. Len(queue) # 0
    BY <1>0, <2>1, EmptySeq
  <2> QED
    BY <1>0, <2>1, <2>2, HeadTailProperties
<1>2. \A i \in 1..Len(queue') : queue'[i] # "options"
  <2>1. ASSUME NEW i \in 1..Len(queue')
        PROVE  i + 1 \in 1..Len(queue) /\ i + 1 # 1
    BY <1>1
  <2> QED
    BY <1>1, <2>1 DEF IInv, QueueInv
<1>3. user # "idle"
  BY <1>0 DEF IInv, QueueInv
<1>4. QueueInv'
  BY <1>0, <1>2, <1>3 DEF QueueInv
<1>5. CASE /\ conn' = conn \/ conn' = [conn EXCEPT !.closed = TRUE]
           /\ UNCHANGED requests /\ fault' \in BOOLEAN
  <2>1. conn' \in Conns
    BY <1>5 DEF IInv, PusherTypeOK, Conns
  <2>2. PusherTypeOK'
    BY <1>0, <1>1, <1>5, <2>1 DEF IInv, PusherTypeOK, Conns
  <2>3. Unsent' /\ StepInv' /\ StaleInv' /\ RecordInv'
    BY <1>0, <1>5, QuietInv
  <2> QED
    BY <1>4, <2>2, <2>3 DEF IInv
<1>6. CASE Head(queue) = "options" /\ SendRtspMessage(SendOptions(conn)) /\ UNCHANGED fault
  <2>1. conn.method = "NONE" /\ conn \in Conns
    <3>1. 1 \in 1..Len(queue) /\ queue[1] = "options"
      BY <1>1, <1>6
    <3> QED
      BY <3>1 DEF IInv, QueueInv, PusherTypeOK, Conns
  <2>2. /\ conn.cseq = 0 /\ conn.setup = {} /\ conn.state = "START_CONNECT"
        /\ requests = << >> /\ responses = << >> /\ accepted = << >>
        /\ read_buffer = << >> /\ stale = << >>
    BY <2>1 DEF IInv, Unsent
  <2>3. /\ conn' = [conn EXCEPT !.method = "OPTIONS"]
        /\ requests' = requests \o <<[method |-> "OPTIONS", cseq |-> conn.cseq + 1]>>
    BY <1>6 DEF SendRtspMessage, SendOptions, Sends
  <2>4. /\ conn' \in Conns /\ conn'.method = "OPTIONS" /\ conn'.cseq = 0 /\ conn'.setup = {}
        /\ conn'.state = "START_CONNECT"
    BY <2>1, <2>2, <2>3 DEF Conns, Methods
  <2>5. [method |-> "OPTIONS", cseq |-> 1] \in Reqs
    BY DEF Reqs, Methods
  <2>6. /\ requests' = <<[method |-> "OPTIONS", cseq |-> 1]>>
        /\ requests' \in Seq(Reqs)
    BY <2>2, <2>3, <2>5
  <2>7. PusherTypeOK'
    BY <1>0, <1>1, <1>6, <2>4, <2>6 DEF IInv, PusherTypeOK, Conns, Reqs
  <2>8. N' = N /\ N \in Nat /\ N >= 3 /\ \A i \in Nat : Method(i)' = Method(i) /\ Numbered(i)' = Numbered(i)
    BY <1>0, SameSources, SourcesAre DEF IInv, PusherTypeOK
  <2>9. Method(1) = "OPTIONS" /\ Numbered(1) = [method |-> "OPTIONS", cseq |-> 1]
    <3>1. Method(1) = "OPTIONS"
      BY <2>8 DEF Method
    <3> QED
      BY <3>1 DEF Numbered
  <2>10. AtRequest(1)'
    <3>1. Underway(1)'
      <4>1. requests' = <<Numbered(1)'>> /\ responses' = << >>
        BY <1>0, <2>2, <2>6, <2>8, <2>9
      <4>2. Accepted(1 - 1)'
        BY <1>0, <2>2 DEF Accepted
      <4> QED
        BY <4>1, <4>2 DEF Underway
    <3>2. Cardinality({}) = 0
      BY FS_EmptySet
    <3>3. conn'.method = Method(1)'
      BY <2>4, <2>8, <2>9
    <3>4. Cardinality(conn'.setup) = 0 /\ conn'.setup \subseteq sources'
      BY <2>4, <3>2
    <3> QED
      BY <1>0, <2>2, <2>4, <3>1, <3>3, <3>4 DEF AtRequest
  <2>11. Unsent' /\ StepInv' /\ StaleInv' /\ RecordInv'
    BY <1>0, <2>2, <2>4, <2>8, <2>10 DEF Unsent, StepInv, StaleInv, RecordInv, IsRecord
  <2> QED
    BY <1>4, <2>7, <2>11 DEF IInv
<1> QED
  <2>1. fault \in BOOLEAN
    BY DEF IInv, PusherTypeOK
  <2> QED
    BY <1>0, <1>1, <1>5, <1>6, <2>1
\* A read, of any part of the answers: when it is a whole one the connection
\* goes on to the next request, closes, or pushes.
LEMMA HandleReadInv ==
  ASSUME IInv, NEW n \in 1..Len(responses), HandleRead(n)
  PROVE  IInv'
<1> DEFINE read == read_buffer \o SubSeq(responses, 1, n)
           old(k) == SubSeq(stale, k, Len(stale))
           result(k) == ParseResponse(read \o old(k))
           next == [conn EXCEPT !.cseq = @ + 1]
           h(k) == CASE result(k) = "refused"    -> Closes(conn)
                     [] result(k) = "incomplete" -> HandleRtspResponse(conn)
                     [] result(k) = "complete"   -> HandleRtspResponse(next)
<1>1. PICK k \in 2..Len(stale) + 2 :
        /\ read_buffer' = IF result(k) = "complete" THEN << >> ELSE read
        /\ stale' = IF result(k) = "complete" THEN read \o old(k) ELSE old(k)
        /\ SendRtspMessage(h(k))
  BY DEF HandleRead
<1> HIDE DEF h, result, old, read
<1>2. /\ ~conn.closed
      /\ responses' = SubSeq(responses, n + 1, Len(responses))
      /\ intact' => intact /\ read_buffer = << >> /\ n = Len(responses)
      /\ UNCHANGED <<user, queue, rtsp_conn, sources, accepted, fault>>
  BY DEF HandleRead
<1>3. /\ responses \in Seq(Parts) /\ Len(responses) \in Nat /\ n \in Nat /\ n >= 1 /\ n <= Len(responses)
      /\ read_buffer \in Seq(Parts) /\ stale \in Seq(Parts) /\ conn \in Conns /\ intact \in BOOLEAN
      /\ requests \in Seq(Reqs) /\ sources \in SUBSET {0, 1}
      /\ \A i \in 1..Len(responses) : responses[i] \in Parts
  <2>1. /\ responses \in Seq(Parts) /\ read_buffer \in Seq(Parts) /\ stale \in Seq(Parts)
        /\ conn \in Conns /\ intact \in BOOLEAN
        /\ requests \in Seq(Reqs) /\ sources \in SUBSET {0, 1}
    BY DEF IInv, PusherTypeOK, Conns, Reqs
  <2> QED
    BY <2>1, LenProperties, ElementOfSeq
<1>4. conn.method # "NONE"
  BY <1>3 DEF IInv, Unsent
<1>5. /\ responses' \in Seq(Parts) /\ read \in Seq(Parts)
      /\ old(k) \in Seq(Parts)
  <2>1. (\A i \in 1..n : responses[i] \in Parts) /\ (\A i \in n + 1..Len(responses) : responses[i] \in Parts)
    BY <1>3
  <2>2. SubSeq(responses, 1, n) \in Seq(Parts) /\ SubSeq(responses, n + 1, Len(responses)) \in Seq(Parts)
    BY <1>3, <2>1, SubSeqProperties
  <2>3. read \in Seq(Parts)
    BY <1>3, <2>2, ConcatProperties DEF read
  <2>4. old(k) \in Seq(Parts)
    BY <1>3, BehindIs DEF old
  <2> QED
    BY <1>2, <2>2, <2>3, <2>4
<1>6. read_buffer' \in Seq(Parts) /\ stale' \in Seq(Parts)
  <2>1. read \o old(k) \in Seq(Parts) /\ << >> \in Seq(Parts)
    BY <1>5, ConcatProperties
  <2> QED
    BY <1>1, <1>5, <2>1
<1>7. result(k) \in {"refused", "incomplete", "complete"}
  BY DEF result, ParseResponse
<1>8. conn' = h(k).c /\ requests' = requests \o h(k).out
  BY <1>1 DEF SendRtspMessage
<1>9. conn' \in Conns /\ conn'.method # "NONE" /\ requests' \in Seq(Reqs)
  <2>1. h(k).c \in Conns /\ h(k).c.method # "NONE" /\ h(k).out \in Seq(Reqs)
    <3>1. CASE result(k) = "refused"
      <4>1. h(k) = Closes(conn)
        BY <3>1 DEF h
      <4> QED
        BY <1>3, <1>4, <4>1, ConnIs
    <3>2. CASE result(k) = "incomplete"
      <4>1. h(k) = HandleRtspResponse(conn)
        BY <3>2 DEF h
      <4> QED
        BY <1>3, <1>4, <4>1, HandleTypes
    <3>3. CASE result(k) = "complete"
      <4>1. h(k) = HandleRtspResponse(next)
        BY <3>3 DEF h
      <4>2. next \in Conns /\ next.method # "NONE"
        BY <1>3, <1>4, ConnIs
      <4> HIDE DEF next
      <4> QED
        BY <1>3, <4>1, <4>2, HandleTypes
    <3> QED
      BY <1>7, <3>1, <3>2, <3>3
  <2> QED
    BY <1>3, <1>8, <2>1, ConcatProperties
<1>10. PusherTypeOK'
  <2>1. intact' \in BOOLEAN
    BY DEF HandleRead
  <2> QED
    BY <1>2, <1>5, <1>6, <1>9, <2>1 DEF IInv, PusherTypeOK, Conns, Reqs
<1>11. QueueInv'
  BY <1>2, <1>4 DEF IInv, QueueInv
<1>12. Unsent'
  BY <1>9 DEF Unsent
<1>13. ASSUME intact'
       PROVE  StepInv' /\ StaleInv' /\ RecordInv'
  <2>1. intact /\ read_buffer = << >> /\ n = Len(responses) /\ responses # << >>
    BY <1>2, <1>3, <1>13
  <2>2. ~IsRecord
    BY <2>1 DEF IInv, RecordInv
  <2>3. PICK i \in 1..N : AtRequest(i)
    BY <1>2, <1>4, <2>1, <2>2 DEF IInv, StepInv
  <2>4. N' = N /\ N \in Nat /\ \A j \in Nat : Method(j)' = Method(j) /\ Numbered(j)' = Numbered(j)
    BY <1>2, <1>3, SameSources, SourcesAre
  <2>5. requests = << >>
    BY <2>1, <2>3 DEF AtRequest, Underway
  <2>6. PICK a \in {"OK", "error"} :
          /\ responses = <<a, "end">>
          /\ a = "OK" => Accepted(i)
    BY <2>1, <2>3 DEF AtRequest, Underway
  <2>7. read = <<a, "end">> /\ responses' = << >>
    <3>1. Len(responses) = 2 /\ n = 2
      BY <2>1, <2>6
    <3>2. SubSeq(responses, 1, Len(responses)) = responses
      BY <1>3, SubSeqFull
    <3>3. SubSeq(responses, n + 1, Len(responses)) = << >>
      BY <1>3, <3>1, SubSeqEmpty
    <3> QED
      BY <1>2, <1>3, <2>1, <2>6, <3>2, <3>3 DEF read
  <2>8. /\ \A j \in 1..Len(old(k)) : old(k)[j] # "OK"
    <3>1. \A j \in 2..Len(stale) : stale[j] # "OK"
      BY <2>1 DEF IInv, StaleInv
    <3> QED
      BY <1>3, <3>1, BehindIs DEF old
  <2>9. /\ result(k) = IF a = "OK" THEN "complete" ELSE "refused"
        /\ \A j \in 2..Len(read \o old(k)) : (read \o old(k))[j] # "OK"
    BY <1>5, <2>7, <2>8, WholeResponse DEF result
  <2>10. StaleInv'
    <3>1. Len(old(k)) \in Nat
      BY <1>5, LenProperties
    <3> QED
      BY <1>1, <2>8, <2>9, <3>1 DEF StaleInv
  <2>11. CASE a # "OK"
    <3>1. h(k) = Closes(conn)
      BY <2>9, <2>11 DEF h
    <3>2. conn'.closed /\ conn'.state = conn.state
      BY <1>3, <1>8, <3>1, ConnIs
    <3> QED
      BY <2>2, <2>10, <3>2 DEF StepInv, RecordInv, IsRecord
  <2>12. CASE a = "OK"
    <3>1. h(k) = HandleRtspResponse(next) /\ read_buffer' = << >>
      BY <1>1, <2>9, <2>12 DEF h
    <3>2. /\ next \in Conns /\ next.cseq = i /\ next.method = Method(i)
          /\ next.setup \subseteq sources /\ next.state = conn.state
          /\ i < N => Cardinality(next.setup) = IF i <= 2 THEN 0 ELSE i - 2
      <4>1. conn.cseq = i - 1 /\ i \in Int
        BY <2>3, <2>4 DEF AtRequest
      <4>2. /\ next \in Conns /\ next.cseq = conn.cseq + 1 /\ next.method = conn.method
            /\ next.setup = conn.setup /\ next.state = conn.state
        BY <1>3, ConnIs
      <4> HIDE DEF next
      <4> QED
        BY <2>3, <4>1, <4>2 DEF AtRequest
    <3> HIDE DEF next
    <3>3. \/ h(k).c.closed /\ h(k).c.state = conn.state
          \/ /\ i < N /\ h(k).out = <<Numbered(i + 1)>>
             /\ h(k).c.cseq = i /\ h(k).c.method = Method(i + 1) /\ h(k).c.setup \subseteq sources
             /\ i + 1 < N => Cardinality(h(k).c.setup) = IF i + 1 <= 2 THEN 0 ELSE (i + 1) - 2
             /\ h(k).c.state = conn.state
          \/ i = N /\ h(k).out = << >> /\ h(k).c.state = "START_PUSH"
      BY <1>3, <3>1, <3>2, HandleIs
    <3>4. requests' = h(k).out
      <4>1. h(k).out \in Seq(Reqs)
        <5>1. next.method # "NONE"
          BY <1>3, <1>4, ConnIs DEF next
        <5> QED
          BY <1>3, <3>1, <3>2, <5>1, HandleTypes
      <4> QED
        BY <1>8, <2>5, <4>1
    <3>5. CASE conn'.closed /\ conn'.state = conn.state
      BY <2>2, <2>10, <3>5 DEF StepInv, RecordInv, IsRecord
    <3>6. CASE /\ i < N /\ requests' = <<Numbered(i + 1)>>
               /\ conn'.cseq = i /\ conn'.method = Method(i + 1) /\ conn'.setup \subseteq sources
               /\ i + 1 < N => Cardinality(conn'.setup) = IF i + 1 <= 2 THEN 0 ELSE (i + 1) - 2
               /\ conn'.state = conn.state
      <4> DEFINE m == i + 1
      <4>1. m \in 1..N /\ m \in Nat /\ m - 1 = i
        BY <2>4, <3>6
      <4>2. /\ requests' = <<Numbered(m)>>
            /\ conn'.cseq = m - 1 /\ conn'.method = Method(m)
            /\ m < N => Cardinality(conn'.setup) = IF m <= 2 THEN 0 ELSE m - 2
        BY <3>6, <4>1
      <4> HIDE DEF m
      <4>3. Numbered(m)' = Numbered(m) /\ Method(m)' = Method(m)
        BY <2>4, <4>1
      <4>4. Accepted(m - 1)'
        <5>1. Accepted(i) /\ i \in Nat
          BY <2>6, <2>12, <2>4
        <5>2. \A j \in 1..i : Numbered(j)' = Numbered(j)
          BY <2>4, <5>1
        <5>3. Accepted(i)'
          BY <1>2, <5>1, <5>2 DEF Accepted
        <5> QED
          BY <4>1, <5>3
      <4>5. Underway(m)'
        BY <2>7, <4>2, <4>3, <4>4 DEF Underway
      <4>6. AtRequest(m)'
        BY <1>2, <2>4, <3>1, <3>6, <4>2, <4>3, <4>5 DEF AtRequest
      <4>7. StepInv'
        BY <2>4, <4>1, <4>6 DEF StepInv
      <4>8. RecordInv'
        BY <2>2, <3>6 DEF RecordInv, IsRecord
      <4> QED
        BY <2>10, <4>7, <4>8
    <3>7. CASE i = N /\ requests' = << >> /\ conn'.state = "START_PUSH"
      <4>1. Len(accepted) = N /\ \A j \in 1..N : accepted[j] = Numbered(j)
        BY <2>6, <2>12, <3>7 DEF Accepted
      <4>2. \A j \in 1..N : Numbered(j)' = Numbered(j)
        BY <2>4
      <4>3. RecordInv'
        BY <1>2, <2>4, <2>7, <3>7, <4>1, <4>2 DEF RecordInv, Accepted
      <4>4. StepInv'
        BY <3>7 DEF StepInv, IsRecord
      <4> QED
        BY <2>10, <4>3, <4>4
    <3> QED
      BY <1>8, <3>3, <3>4, <3>5, <3>6, <3>7
  <2> QED
    BY <2>11, <2>12
<1>14. ASSUME ~intact'
       PROVE  StepInv' /\ StaleInv' /\ RecordInv'
  BY <1>14 DEF StepInv, StaleInv, RecordInv
<1> QED
  BY <1>10, <1>11, <1>12, <1>13, <1>14 DEF IInv
\* The server answers, and remembers what it has accepted: a request is never
\* answered before the answer to the last one has been read.
LEMMA RespondInv ==
  IInv /\ Respond => IInv'
<1> SUFFICES ASSUME IInv, Respond
             PROVE  IInv'
  OBVIOUS
<1>1. /\ requests # << >> /\ requests' = Tail(requests)
      /\ UNCHANGED <<user, queue, rtsp_conn, conn, read_buffer, stale, sources, intact, fault>>
  BY DEF Respond
<1>2. PICK ok \in BOOLEAN :
        /\ responses' = responses \o <<IF ok THEN "OK" ELSE "error", "end">>
        /\ accepted' = IF ok THEN Append(accepted, Head(requests)) ELSE accepted
  BY DEF Respond
<1> DEFINE a == IF ok THEN "OK" ELSE "error"
<1>3. a \in {"OK", "error"} /\ (a = "OK" <=> ok)
  OBVIOUS
<1>4. responses' = responses \o <<a, "end">>
  BY <1>2
<1> HIDE DEF a
<1>5. /\ requests \in Seq(Reqs) /\ Head(requests) \in Reqs /\ requests' \in Seq(Reqs)
      /\ responses \in Seq(Parts) /\ accepted \in Seq(Reqs) /\ sources \in SUBSET {0, 1}
  <2>1. /\ requests \in Seq(Reqs) /\ responses \in Seq(Parts) /\ accepted \in Seq(Reqs)
        /\ sources \in SUBSET {0, 1}
    BY DEF IInv, PusherTypeOK, Reqs
  <2> QED
    BY <1>1, <2>1, HeadTailProperties
<1>6. responses' \in Seq(Parts) /\ accepted' \in Seq(Reqs)
  <2>1. <<a, "end">> \in Seq(Parts)
    BY <1>3 DEF Parts
  <2>2. Append(accepted, Head(requests)) \in Seq(Reqs)
    BY <1>5, AppendProperties
  <2> QED
    BY <1>2, <1>4, <1>5, <2>1, <2>2, ConcatProperties
<1>7. PusherTypeOK'
  BY <1>1, <1>5, <1>6 DEF IInv, PusherTypeOK, Reqs
<1>8. QueueInv' /\ StaleInv'
  BY <1>1 DEF IInv, QueueInv, StaleInv
<1>9. Unsent' /\ conn.method # "NONE"
  BY <1>1 DEF IInv, Unsent
<1>10. RecordInv'
  BY <1>1 DEF IInv, RecordInv, IsRecord
<1>11. StepInv'
  <2> SUFFICES ASSUME intact, ~conn.closed, ~IsRecord
               PROVE  (\E k \in 1..N : AtRequest(k))'
    BY <1>1 DEF StepInv, IsRecord
  <2>1. PICK k \in 1..N : AtRequest(k)
    BY <1>9 DEF IInv, StepInv
  <2>2. N' = N /\ N \in Nat /\ \A i \in Nat : Method(i)' = Method(i) /\ Numbered(i)' = Numbered(i)
    BY <1>1, <1>5, SameSources, SourcesAre
  <2>3. requests = <<Numbered(k)>> /\ responses = << >> /\ Accepted(k - 1)
    BY <1>1, <2>1 DEF AtRequest, Underway
  <2>4. k \in Nat /\ k >= 1 /\ Numbered(k) \in Reqs
    BY <2>2, NumberedIs
  <2>5. requests' = << >> /\ responses' = <<a, "end">> /\ Head(requests) = Numbered(k)
    <3>1. <<a, "end">> \in Seq(Parts)
      BY <1>3 DEF Parts
    <3> QED
      BY <1>1, <1>4, <2>3, <2>4, <3>1
  <2>6. /\ Len(accepted) = k - 1 /\ \A i \in 1..k - 1 : accepted[i] = Numbered(i)
        /\ \A i \in 1..k : Numbered(i)' = Numbered(i)
    BY <2>2, <2>3, <2>4 DEF Accepted
  <2>7. Underway(k)'
    <3>1. CASE ok
      <4>1. accepted' = Append(accepted, Numbered(k))
        BY <1>2, <2>5, <3>1
      <4>2. /\ Len(accepted') = k
            /\ \A i \in 1..k - 1 : accepted'[i] = Numbered(i)
            /\ accepted'[k] = Numbered(k)
        BY <1>5, <2>4, <2>6, <4>1, AppendProperties
      <4>3. ASSUME NEW i \in 1..k
            PROVE  accepted'[i] = Numbered(i)
        <5>1. i \in 1..k - 1 \/ i = k
          BY <2>4
        <5> QED
          BY <4>2, <5>1
      <4>4. Accepted(k)'
        BY <2>6, <4>2, <4>3 DEF Accepted
      <4> QED
        BY <1>3, <2>5, <3>1, <4>4 DEF Underway
    <3>2. CASE ~ok
      <4>1. accepted' = accepted /\ a = "error"
        BY <1>2, <1>3, <3>2
      <4>2. Accepted(k - 1)'
        BY <2>4, <2>6, <4>1 DEF Accepted
      <4> QED
        BY <2>5, <4>1, <4>2 DEF Underway
    <3> QED
      BY <3>1, <3>2
  <2>8. AtRequest(k)'
    BY <1>1, <2>1, <2>2, <2>4, <2>7 DEF AtRequest
  <2> QED
    BY <2>2, <2>8
<1> QED
  BY <1>7, <1>8, <1>9, <1>10, <1>11 DEF IInv

\* The server hangs up.
LEMMA ServerClosesInv ==
  IInv /\ ServerCloses => IInv'
<1> SUFFICES ASSUME IInv, ServerCloses
             PROVE  IInv'
  OBVIOUS
<1>0. /\ conn' = [conn EXCEPT !.closed = TRUE] /\ conn.method # "NONE"
      /\ UNCHANGED <<user, queue, rtsp_conn, read_buffer, stale, sources, requests, responses,
                     accepted, intact, fault>>
  BY DEF ServerCloses
<1>1. conn' \in Conns /\ conn'.method = conn.method
  BY <1>0 DEF IInv, PusherTypeOK, Conns
<1>2. PusherTypeOK' /\ QueueInv'
  BY <1>0, <1>1 DEF IInv, PusherTypeOK, QueueInv, Conns
<1>3. Unsent' /\ StepInv' /\ StaleInv' /\ RecordInv'
  BY <1>0, QuietInv
<1> QED
  BY <1>2, <1>3 DEF IInv

-----------------------------------------------------------------------------
(* The theorems.                                                           *)

\* The invariant holds in every state.
THEOREM Invariance ==
  PusherSpec => []IInv
<1>1. IInv /\ [PusherNext]_pusher_vars => IInv'
  <2>1. IInv /\ UNCHANGED pusher_vars => IInv'
    <3> SUFFICES ASSUME IInv, UNCHANGED pusher_vars
                 PROVE  IInv'
      OBVIOUS
    <3>1. PusherTypeOK' /\ QueueInv'
      BY DEF IInv, PusherTypeOK, QueueInv, pusher_vars
    <3>2. Unsent' /\ StepInv' /\ StaleInv' /\ RecordInv'
      BY QuietInv DEF pusher_vars
    <3> QED
      BY <3>1, <3>2 DEF IInv
  <2>2. IInv /\ (TimeOut \/ Close) => IInv'
    BY DisconnectInv DEF TimeOut, Close
  <2>3. IInv /\ (\E n \in 1..Len(responses) : HandleRead(n)) => IInv'
    BY HandleReadInv
  <2> QED
    BY <2>1, <2>2, <2>3, OpenUrlInv, OpenedInv, PopTriggerEventInv, RespondInv,
       ServerClosesInv DEF PusherNext
<1> QED
  BY InitInv, <1>1, PTL DEF PusherSpec

\* Every variable has its type, a null pointer used or not.
THEOREM TypeCorrect ==
  PusherSpec => []PusherTypeOK
<1>1. IInv => PusherTypeOK
  BY DEF IInv
<1> QED
  BY Invariance, <1>1, PTL

\* When every read brings one whole response, the connection pushes only after
\* the server has accepted OPTIONS, ANNOUNCE, a SETUP for each channel and
\* RECORD, each with a CSeq of its own: a refusal is never taken for an answer,
\* though strstr finds what earlier responses left in the buffer.
THEOREM RecordsWhatWasAcceptedHolds ==
  PusherSpec => []RecordsWhatWasAccepted
<1>1. IInv => RecordsWhatWasAccepted
  <2> SUFFICES ASSUME IInv, intact, IsRecord
               PROVE  /\ Len(accepted) = 3 + Cardinality(sources)
                      /\ \A i \in 1..3 + Cardinality(sources) :
                           accepted[i] = [cseq |-> i,
                             method |-> CASE i = 1 -> "OPTIONS" [] i = 2 -> "ANNOUNCE"
                                          [] i = 3 + Cardinality(sources) -> "RECORD"
                                          [] OTHER -> "SETUP"]
    BY DEF RecordsWhatWasAccepted
  <2>1. Accepted(N)
    BY DEF IInv, RecordInv
  <2> QED
    BY <2>1 DEF Accepted, Numbered, Method, N
<1> QED
  BY Invariance, <1>1, PTL
=============================================================================
