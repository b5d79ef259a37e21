------------------------ MODULE EncodePipelineProofs ------------------------
(***************************************************************************)
(* Proofs about EncodePipeline, for every capacity of the queues, every    *)
(* look-ahead of the encoder, every length of a file and every number of   *)
(* frames and of errors.                                                   *)
(***************************************************************************)
EXTENDS EncodePipeline, SequenceTheorems, FiniteSetTheorems, TLAPS

-----------------------------------------------------------------------------
(* The inductive invariant.                                                *)

\* The program counters say who holds an image, a packet and its copy.
HandInv ==
  /\ epc = "encode" => image \in Frames
  /\ IF epc \in {"ref", "send", "push", "write", "crashed"}
     THEN pkt \in Frames ELSE pkt = NoMessage
  /\ IF spc = "copy" THEN copying \in Frames ELSE copying = NoMessage

\* The frames are accounted for, and only frames that main sent are lost.
OrderInv == FramesAccounted /\ lost \subseteq 0..Arrived - 1

\* The streaming queue counts what was popped from it, nothing is sent beyond
\* MaxFrames, and the packet being written is the one sent last.
SentInv ==
  /\ Arrived <= MaxFrames
  /\ avpacket_out.offset = Len(streamed) + (IF spc = "copy" THEN 1 ELSE 0)
  /\ NotYetWritten \subseteq Range(Sent)
  /\ \A n \in NotYetWritten, m \in Range(Sent) : m <= n
  /\ unwritten \subseteq Range(Sent) \ NotYetWritten

\* The header is kept from the first packet on, whether or not that packet
\* found a file; a packet written without the header is the first one.
HeaderInv ==
  /\ IF header_kept
     THEN Sent # << >>
     ELSE /\ writes = << >> /\ unwritten = {} /\ epc # "crashed"
          /\ Sent = InHand(epc = "write", pkt)
  /\ \A i \in 1..Len(writes) : writes[i].headed \/ writes[i].packet = Sent[1]

\* What counts towards the packets of file f.
Filled(f) ==
  Cardinality(InFile(f)) + (IF f = 1 THEN Cardinality(unwritten) ELSE 0)

\* The counter counts the packets of the open file, a packet that found no file
\* included, and is zero between two files.
FileInv ==
  /\ file_no <= Len(writes)
  /\ video_open => file_no > 0 /\ count_write = Filled(file_no)
  /\ ~video_open => count_write = IF file_no = 0 THEN Cardinality(unwritten) ELSE 0
  /\ \A f \in 1..file_no : f < file_no \/ ~video_open => Filled(f) = PacketsPerFile + 1

IInv ==
  /\ TypeOK /\ HandInv /\ OrderInv /\ SentInv
  /\ RecordingMatchesStream /\ ReferencesBalance /\ HeaderInv /\ FileInv
-----------------------------------------------------------------------------
(* Lemmas about sequences.                                                 *)

\* A sequence that increases through the frames is no longer than their number.
LEMMA IncreasingIsShort ==
  ASSUME NEW s \in Seq(Frames), Increasing(s)
  PROVE  Len(s) <= MaxFrames
<1>1. s \in Injection(1..Len(s), Frames)
  <2>1. ASSUME NEW i \in 1..Len(s), NEW j \in 1..Len(s), s[i] = s[j]
        PROVE  i = j
    <3>1. ~(i < j) /\ ~(j < i)
      BY <2>1, Assumption DEF Increasing, Frames
    <3> QED
      BY <3>1
  <2> QED
    BY <2>1 DEF Injection, IsInjective
<1>2. IsFiniteSet(Frames) /\ Cardinality(Frames) = MaxFrames
  BY FS_Interval, Assumption DEF Frames
<1>3. Cardinality(1..Len(s)) <= MaxFrames
  BY <1>1, <1>2, FS_Injection
<1>4. Len(s) \in Nat /\ Cardinality(1..Len(s)) = Len(s)
  <2>1. Len(s) \in Int /\ Len(s) >= 0 /\ 1 \in Int
    OBVIOUS
  <2>2. Cardinality(1..Len(s)) = IF 1 > Len(s) THEN 0 ELSE Len(s) - 1 + 1
    BY <2>1, FS_Interval
  <2> QED
    BY <2>1, <2>2
<1> QED
  BY <1>3, <1>4

\* What a sequence holds, and that a part of it is in order.
LEMMA RangeOf ==
  ASSUME NEW S, NEW s \in Seq(S)
  PROVE  /\ \A i \in 1..Len(s) : s[i] \in Range(s)
         /\ \A a \in Range(s) : \E i \in 1..Len(s) : s[i] = a
         /\ Range(s) \subseteq S
  BY DEF Range

\* A concatenation increases when its parts do and the first ends below the
\* second.
LEMMA IncreasingConcat ==
  ASSUME NEW s \in Seq(Nat), NEW t \in Seq(Nat)
  PROVE  Increasing(s \o t) <=>
           /\ Increasing(s) /\ Increasing(t)
           /\ \A a \in Range(s), b \in Range(t) : a < b
<1> DEFINE u == s \o t
<1>1. /\ u \in Seq(Nat) /\ Len(u) = Len(s) + Len(t)
      /\ \A i \in 1..Len(s) : u[i] = s[i]
      /\ \A i \in 1..Len(t) : u[Len(s) + i] = t[i]
  BY ConcatProperties
<1>2. Len(s) \in Nat /\ Len(t) \in Nat
  OBVIOUS
<1> HIDE DEF u
<1>3. ASSUME Increasing(u)
      PROVE  /\ Increasing(s) /\ Increasing(t)
             /\ \A a \in Range(s), b \in Range(t) : a < b
  <2>1. Increasing(s)
    BY <1>1, <1>2, <1>3 DEF Increasing
  <2>2. Increasing(t)
    <3> SUFFICES ASSUME NEW i \in 1..Len(t), NEW j \in 1..Len(t), i < j
                 PROVE  t[i] < t[j]
      BY DEF Increasing
    <3>1. Len(s) + i \in 1..Len(u) /\ Len(s) + j \in 1..Len(u) /\ Len(s) + i < Len(s) + j
      BY <1>1, <1>2
    <3> QED
      BY <1>1, <1>3, <3>1 DEF Increasing
  <2>3. ASSUME NEW a \in Range(s), NEW b \in Range(t)
        PROVE  a < b
    <3>1. PICK i \in 1..Len(s) : s[i] = a
      BY RangeOf
    <3>2. PICK j \in 1..Len(t) : t[j] = b
      BY RangeOf
    <3>3. i \in 1..Len(u) /\ Len(s) + j \in 1..Len(u) /\ i < Len(s) + j
      BY <1>1, <1>2, SMTT(30)
    <3> QED
      BY <1>1, <1>3, <3>1, <3>2, <3>3 DEF Increasing
  <2> QED
    BY <2>1, <2>2, <2>3
<1>4. ASSUME Increasing(s), Increasing(t), \A a \in Range(s), b \in Range(t) : a < b
      PROVE  Increasing(u)
  <2> SUFFICES ASSUME NEW i \in 1..Len(u), NEW j \in 1..Len(u), i < j
               PROVE  u[i] < u[j]
    BY DEF Increasing
  <2>1. CASE j <= Len(s)
    <3>1. i \in 1..Len(s) /\ j \in 1..Len(s)
      BY <1>1, <1>2, <2>1
    <3> QED
      BY <1>1, <1>4, <3>1 DEF Increasing
  <2>2. CASE i > Len(s)
    <3>1. i - Len(s) \in 1..Len(t) /\ j - Len(s) \in 1..Len(t) /\ i - Len(s) < j - Len(s)
      BY <1>1, <1>2, <2>2
    <3>2. u[Len(s) + (i - Len(s))] = t[i - Len(s)] /\ u[Len(s) + (j - Len(s))] = t[j - Len(s)]
      BY <1>1, <3>1
    <3>3. Len(s) + (i - Len(s)) = i /\ Len(s) + (j - Len(s)) = j
      BY <1>2
    <3> QED
      BY <1>4, <3>1, <3>2, <3>3 DEF Increasing
  <2>3. CASE i <= Len(s) /\ j > Len(s)
    <3>1. j - Len(s) \in 1..Len(t) /\ Len(s) + (j - Len(s)) = j /\ i \in 1..Len(s)
      BY <1>1, <1>2, <2>3
    <3>2. u[i] \in Range(s) /\ u[j] \in Range(t)
      BY <1>1, <3>1, RangeOf, ZenonT(60)
    <3> QED
      BY <1>4, <3>2
  <2> QED
    BY <1>2, <2>1, <2>2, <2>3
<1> QED
  BY <1>3, <1>4 DEF u

\* The empty sequence and a single element.
LEMMA SmallSequences ==
  ASSUME NEW a \in Nat
  PROVE  /\ << >> \in Seq(Nat) /\ Increasing(<< >>) /\ Range(<< >>) = {}
         /\ <<a>> \in Seq(Nat) /\ Increasing(<<a>>) /\ Range(<<a>>) = {a}
<1>1. <<a>> \in Seq(Nat) /\ Len(<<a>>) = 1 /\ <<a>>[1] = a
  OBVIOUS
<1>2. Range(<<a>>) = {a}
  BY <1>1 DEF Range
<1>3. << >> \in Seq(Nat) /\ Len(<< >>) = 0
  OBVIOUS
<1>4. Range(<< >>) = {}
  BY <1>3 DEF Range
<1> QED
  BY <1>1, <1>2, <1>3, <1>4 DEF Increasing

\* One more element at the end.
LEMMA OneMore ==
  ASSUME NEW s \in Seq(Nat), NEW a \in Nat
  PROVE  /\ s \o <<a>> \in Seq(Nat) /\ Range(s \o <<a>>) = Range(s) \union {a}
         /\ Increasing(s) /\ (\A m \in Range(s) : m < a) => Increasing(s \o <<a>>)
<1> DEFINE t == <<a>>
<1>1. t \in Seq(Nat) /\ Increasing(t) /\ Range(t) = {a}
  BY SmallSequences
<1> HIDE DEF t
<1>2. s \o t \in Seq(Nat) /\ Range(s \o t) = Range(s) \union Range(t)
  BY <1>1, ConcatProperties, RangeConcatenation
<1>3. Increasing(s) /\ (\A m \in Range(s) : m < a) => Increasing(s \o t)
  BY <1>1, IncreasingConcat
<1> QED
  BY <1>1, <1>2, <1>3 DEF t

\* Taking the first element of s by hand, after r.
LEMMA TakeInOrder ==
  ASSUME NEW S, NEW r \in Seq(S), NEW s \in Seq(S), s # << >>
  PROVE  (r \o << >>) \o s = (r \o <<Head(s)>>) \o Tail(s)
<1>1. Head(s) \in S /\ Tail(s) \in Seq(S)
  BY HeadTailProperties
<1>2. s = <<Head(s)>> \o Tail(s)
  <2>1. <<Head(s)>> \in Seq(S) /\ Len(<<Head(s)>>) = 1 /\ <<Head(s)>>[1] = Head(s)
    BY <1>1
  <2> DEFINE t == <<Head(s)>> \o Tail(s)
  <2>2. t \in Seq(S) /\ Len(t) = 1 + Len(Tail(s))
        /\ \A i \in 1..(1 + Len(Tail(s))) :
             t[i] = IF i <= 1 THEN <<Head(s)>>[i] ELSE Tail(s)[i - 1]
    BY <1>1, <2>1, ConcatProperties
  <2>3. /\ Len(s) \in Nat /\ Len(s) > 0 /\ Len(Tail(s)) = Len(s) - 1
        /\ \A i \in 1..(Len(s) - 1) : Tail(s)[i] = s[i + 1]
    BY HeadTailProperties, EmptySeq
  <2>4. Len(t) = Len(s)
    BY <2>2, <2>3
  <2>5. ASSUME NEW i \in 1..Len(s)
        PROVE  s[i] = t[i]
    <3>1. CASE i = 1
      BY <2>1, <2>2, <2>3, <3>1
    <3>2. CASE i # 1
      <4>1. i - 1 \in 1..(Len(s) - 1) /\ ~(i <= 1) /\ (i - 1) + 1 = i /\ i \in 1..(1 + Len(Tail(s)))
        BY <2>3, <3>2
      <4> QED
        BY <2>2, <2>3, <4>1
    <3> QED
      BY <3>1, <3>2
  <2> HIDE DEF t
  <2>6. s = t
    BY <2>2, <2>4, <2>5, SeqEqual
  <2> QED
    BY <2>6 DEF t
<1>3. <<Head(s)>> \in Seq(S)
  BY <1>1
<1>4. (r \o <<Head(s)>>) \o Tail(s) = r \o (<<Head(s)>> \o Tail(s))
  BY <1>1, <1>3, ConcatAssociative
<1>5. r \o << >> = r
  BY ConcatEmptySeq
<1> QED
  BY <1>2, <1>4, <1>5

\* Appending to s the element that was in hand after it.
LEMMA PutInOrder ==
  ASSUME NEW S, NEW r \in Seq(S), NEW s \in Seq(S), NEW a \in S
  PROVE  (r \o s) \o <<a>> = (r \o Append(s, a)) \o << >>
<1>1. <<a>> \in Seq(S) /\ Append(s, a) \in Seq(S) /\ Append(s, a) = s \o <<a>>
  BY AppendIsConcat
<1>2. (r \o s) \o <<a>> = r \o (s \o <<a>>)
  BY <1>1, ConcatAssociative
<1>3. r \o Append(s, a) \in Seq(S)
  BY <1>1, ConcatProperties
<1>4. (r \o Append(s, a)) \o << >> = r \o Append(s, a)
  BY <1>3, ConcatEmptySeq
<1> QED
  BY <1>1, <1>2, <1>4

-----------------------------------------------------------------------------
(* The order of the frames.                                                *)

\* The parts of OnTheirWay up to the packet in hand, the frames inside the
\* encoder and the image in hand.
UpToPkt    == Sent \o InHand(epc \in {"ref", "send", "push"}, pkt)
UpToInside == UpToPkt \o inside
UpToImage  == UpToInside \o InHand(epc = "encode", image)

PartsOK ==
  /\ streamed \in Seq(Frames) /\ avpacket_out.messages \in Seq(Frames)
  /\ inside \in Seq(Frames) /\ image_out.messages \in Seq(Frames)
  /\ InHand(spc = "copy", copying) \in Seq(Frames)
  /\ InHand(epc \in {"ref", "send", "push"}, pkt) \in Seq(Frames)
  /\ InHand(epc = "encode", image) \in Seq(Frames)
  /\ Sent \in Seq(Frames) /\ UpToPkt \in Seq(Frames) /\ UpToInside \in Seq(Frames)
  /\ UpToImage \in Seq(Frames) /\ OnTheirWay \in Seq(Frames)
  /\ OnTheirWay = UpToImage \o image_out.messages

\* The parts are sequences of frames.
LEMMA Parts ==
  ASSUME TypeOK, HandInv
  PROVE  PartsOK
<1>1. ASSUME NEW n \in Frames
      PROVE  <<n>> \in Seq(Frames)
  OBVIOUS
<1>2. /\ InHand(spc = "copy", copying) \in Seq(Frames)
      /\ InHand(epc \in {"ref", "send", "push"}, pkt) \in Seq(Frames)
      /\ InHand(epc = "encode", image) \in Seq(Frames)
  BY <1>1 DEF HandInv, InHand
<1>3. /\ streamed \in Seq(Frames) /\ avpacket_out.messages \in Seq(Frames)
      /\ inside \in Seq(Frames) /\ image_out.messages \in Seq(Frames)
  BY DEF TypeOK, IsQueue
<1>4. Sent \in Seq(Frames)
  BY <1>2, <1>3, ConcatProperties DEF Sent
<1>5. UpToPkt \in Seq(Frames)
  BY <1>2, <1>4, ConcatProperties DEF UpToPkt
<1>6. UpToInside \in Seq(Frames)
  BY <1>3, <1>5, ConcatProperties DEF UpToInside
<1>7. UpToImage \in Seq(Frames)
  BY <1>2, <1>6, ConcatProperties DEF UpToImage
<1>8. OnTheirWay = UpToImage \o image_out.messages
  BY DEF OnTheirWay, UpToImage, UpToInside, UpToPkt
<1>9. OnTheirWay \in Seq(Frames)
  BY <1>3, <1>7, <1>8, ConcatProperties
<1> QED
  BY <1>2, <1>3, <1>4, <1>5, <1>6, <1>7, <1>8, <1>9 DEF PartsOK

\* So their elements can be compared.
LEMMA PartsAreNumbers ==
  ASSUME TypeOK, HandInv
  PROVE  /\ streamed \in Seq(Nat) /\ avpacket_out.messages \in Seq(Nat)
         /\ inside \in Seq(Nat) /\ image_out.messages \in Seq(Nat)
         /\ InHand(spc = "copy", copying) \in Seq(Nat)
         /\ InHand(epc \in {"ref", "send", "push"}, pkt) \in Seq(Nat)
         /\ InHand(epc = "encode", image) \in Seq(Nat)
         /\ Sent \in Seq(Nat) /\ UpToPkt \in Seq(Nat) /\ UpToInside \in Seq(Nat)
         /\ UpToImage \in Seq(Nat)
<1>1. Frames \subseteq Nat
  BY Assumption DEF Frames
<1>2. \A s \in Seq(Frames) : s \in Seq(Nat)
  BY <1>1, SeqMonotonic
<1> QED
  BY <1>2, Parts DEF PartsOK

\* A packet is sent by SendPushes, at the end; popping and streaming it change
\* only where it is.
LEMMA SentIs ==
  ASSUME TypeOK, HandInv, [Next]_vars
  PROVE  IF SendPushes THEN Sent' = Sent \o <<pkt>> ELSE Sent' = Sent
<1> USE DEF fileVars, streamVars
<1>0. PartsOK
  BY Parts
<1>1. CASE SendPushes
  <2>1. /\ avpacket_out'.messages = Append(avpacket_out.messages, pkt)
        /\ pkt \in Frames /\ UNCHANGED <<streamed, copying, spc>>
    BY <1>1 DEF SendPushes, Push, TypeOK, IsQueue, HandInv
  <2> DEFINE r == streamed \o InHand(spc = "copy", copying)
             m == avpacket_out.messages
  <2>2. r \in Seq(Frames) /\ m \in Seq(Frames)
    BY <1>0, ConcatProperties DEF PartsOK
  <2>3. Sent = r \o m /\ Sent' = r \o Append(m, pkt)
    BY <2>1 DEF Sent
  <2> HIDE DEF r, m
  <2>4. /\ (r \o m) \o <<pkt>> = (r \o Append(m, pkt)) \o << >>
        /\ r \o Append(m, pkt) \in Seq(Frames)
    BY <2>1, <2>2, PutInOrder, AppendProperties, ConcatProperties
  <2>5. (r \o Append(m, pkt)) \o << >> = r \o Append(m, pkt)
    BY <2>4, ConcatEmptySeq
  <2> QED
    BY <1>1, <2>3, <2>4, <2>5
<1>2. CASE StreamPops
  <2>1. /\ avpacket_out.messages # << >> /\ copying' = Head(avpacket_out.messages)
        /\ avpacket_out'.messages = Tail(avpacket_out.messages)
        /\ spc = "pop" /\ spc' = "copy" /\ UNCHANGED streamed
    BY <1>0, <1>2 DEF StreamPops, Front, Pop, GetSize, PartsOK
  <2>2. Sent = (streamed \o << >>) \o avpacket_out.messages
    BY <2>1 DEF Sent, InHand
  <2>3. Sent' = (streamed \o <<copying'>>) \o avpacket_out'.messages
    BY <2>1 DEF Sent, InHand
  <2>4. Sent' = Sent
    BY <1>0, <2>1, <2>2, <2>3, TakeInOrder DEF PartsOK
  <2>5. epc # "push" \/ epc' = epc
    BY <1>2 DEF StreamPops
  <2> QED
    BY <1>2, <2>4, <2>5 DEF SendPushes
<1>3. CASE StreamCopies
  <2>1. /\ streamed' = Append(streamed, copying) /\ UNCHANGED <<avpacket_out, epc>>
        /\ spc = "copy" /\ spc' = "pop" /\ copying \in Frames
    BY <1>3 DEF StreamCopies, HandInv
  <2>2. streamed \o <<copying>> = streamed' \o << >>
    <3>1. <<copying>> \in Seq(Frames) /\ streamed' \in Seq(Frames)
      BY <1>0, <2>1 DEF PartsOK
    <3>2. streamed' = streamed \o <<copying>>
      BY <1>0, <2>1, AppendIsConcat DEF PartsOK
    <3> QED
      BY <3>1, <3>2, ConcatEmptySeq
  <2>3. Sent' = Sent
    BY <2>1, <2>2 DEF Sent, InHand
  <2> QED
    BY <2>1, <2>3 DEF SendPushes
<1>4. ASSUME ~SendPushes, ~StreamPops, ~StreamCopies
      PROVE  Sent' = Sent
  BY <1>4 DEF Next, Encoder, Streamer, vars, MainSends, EncoderPops, SendFrame,
              SendFrameFails, ReceivePacket, DrainEnds, RefPacket, SendSeesRoom,
              WriteVideoFile, OpenFails, Sent, InHand
<1> QED
  BY <1>1, <1>2, <1>3, <1>4

\* Only the steps of main and of a failing encoder change what is on its way:
\* all others hand a frame on.
LEMMA HandsOn ==
  ASSUME TypeOK, HandInv, [Next]_vars, ~MainSends, ~SendFrameFails
  PROVE  OnTheirWay' = OnTheirWay /\ Arrived' = Arrived /\ lost' = lost
<1> USE DEF fileVars, streamVars
<1>0. PartsOK
  BY Parts
<1>1. CASE EncoderPops
  <2>1. /\ image_out.messages # << >> /\ image = image
        /\ image' = Head(image_out.messages)
        /\ image_out' = [messages |-> Tail(image_out.messages),
                         offset |-> image_out.offset + 1]
    BY <1>0, <1>1 DEF EncoderPops, HasFrame, Front, Pop, GetSize, PartsOK
  <2>2. UpToInside' = UpToInside
    BY <1>1 DEF EncoderPops, UpToInside, UpToPkt, Sent, InHand
  <2>3. UpToImage = UpToInside \o << >> /\ UpToImage' = UpToInside \o <<image'>>
    BY <1>1, <2>2 DEF EncoderPops, UpToImage, InHand
  <2>4. OnTheirWay' = UpToImage' \o image_out'.messages
    BY DEF OnTheirWay, UpToImage, UpToInside, UpToPkt
  <2>5. (UpToInside \o << >>) \o image_out.messages
          = (UpToInside \o <<image'>>) \o image_out'.messages
    BY <1>0, <2>1, TakeInOrder DEF PartsOK
  <2>6. Arrived' = Arrived
    <3>1. Len(Tail(image_out.messages)) = Len(image_out.messages) - 1
      BY <1>0, <2>1, HeadTailProperties DEF PartsOK
    <3>2. image_out.offset \in Nat /\ Len(image_out.messages) \in Nat
      BY DEF TypeOK, IsQueue
    <3> QED
      BY <2>1, <3>1, <3>2 DEF Arrived, GetSize
  <2>7. OnTheirWay' = OnTheirWay
    BY <1>0, <2>3, <2>4, <2>5 DEF PartsOK
  <2> QED
    BY <1>1, <2>6, <2>7 DEF EncoderPops
<1>2. ASSUME UNCHANGED <<image_out, lost>>, UpToImage' = UpToImage
      PROVE  OnTheirWay' = OnTheirWay /\ Arrived' = Arrived /\ lost' = lost
  <2>1. OnTheirWay' = UpToImage' \o image_out'.messages
    BY DEF OnTheirWay, UpToImage, UpToInside, UpToPkt
  <2> QED
    BY <1>0, <1>2, <2>1 DEF PartsOK, Arrived
<1>3. CASE SendFrame
  <2>1. UpToPkt' = UpToPkt
    BY <1>3 DEF SendFrame, UpToPkt, Sent, InHand
  <2>2. image \in Frames
    BY <1>3 DEF SendFrame, HandInv
  <2>3. UpToImage' = (UpToPkt \o Append(inside, image)) \o << >>
    BY <1>3, <2>1 DEF SendFrame, UpToImage, UpToInside, InHand
  <2>4. UpToImage = (UpToPkt \o inside) \o <<image>>
    BY <1>3 DEF SendFrame, UpToImage, UpToInside, InHand
  <2>5. (UpToPkt \o inside) \o <<image>> = (UpToPkt \o Append(inside, image)) \o << >>
    <3>1. UpToPkt \in Seq(Frames) /\ inside \in Seq(Frames)
      BY <1>0 DEF PartsOK
    <3> QED
      BY <2>2, <3>1, PutInOrder
  <2>6. UpToImage' = UpToImage
    BY <2>3, <2>4, <2>5
  <2> QED
    BY <1>2, <1>3, <2>6 DEF SendFrame
<1>4. ASSUME UNCHANGED <<image_out, lost>>, UpToInside' = UpToInside,
             epc # "encode", epc' # "encode"
      PROVE  OnTheirWay' = OnTheirWay /\ Arrived' = Arrived /\ lost' = lost
  BY <1>2, <1>4 DEF UpToImage, InHand
<1>5. CASE ReceivePacket
  <2>1. /\ inside # << >> /\ pkt' = Head(inside) /\ inside' = Tail(inside)
        /\ epc = "drain" /\ epc' = "ref"
    BY <1>0, <1>5 DEF ReceivePacket, PartsOK
  <2>2. Sent' = Sent
    BY <1>5 DEF ReceivePacket, Sent, InHand
  <2>3. UpToInside = (Sent \o << >>) \o inside
    BY <2>1 DEF UpToInside, UpToPkt, InHand
  <2>4. UpToInside' = (Sent \o <<Head(inside)>>) \o Tail(inside)
    BY <2>1, <2>2 DEF UpToInside, UpToPkt, InHand
  <2>5. UpToInside' = UpToInside
    BY <1>0, <2>1, <2>3, <2>4, TakeInOrder DEF PartsOK
  <2> QED
    BY <1>4, <1>5, <2>1, <2>5 DEF ReceivePacket
<1>6. CASE SendPushes
  <2>1. /\ epc = "push" /\ epc' = "write" /\ pkt \in Frames
        /\ UNCHANGED <<inside, image_out, lost, pkt>>
    BY <1>6 DEF SendPushes, HandInv
  <2>2. UpToPkt = Sent \o <<pkt>> /\ UpToPkt' = Sent' \o << >>
    BY <2>1 DEF UpToPkt, InHand
  <2>3. Sent' = Sent \o <<pkt>>
    BY <1>6, SentIs
  <2>4. Sent' \o << >> = Sent'
    <3>1. Sent \in Seq(Frames) /\ <<pkt>> \in Seq(Frames)
      BY <1>0, <2>1 DEF PartsOK
    <3>2. Sent' \in Seq(Frames)
      BY <2>3, <3>1, ConcatProperties
    <3> QED
      BY <3>2, ConcatEmptySeq
  <2>5. UpToInside' = UpToInside
    BY <2>1, <2>2, <2>3, <2>4 DEF UpToInside
  <2> QED
    BY <1>4, <2>1, <2>5
<1>7. CASE DrainEnds \/ RefPacket \/ SendSeesRoom \/ WriteVideoFile \/ OpenFails
  <2>1. /\ UNCHANGED <<image_out, lost, inside, streamed, copying, spc, avpacket_out>>
        /\ epc # "encode" /\ epc' # "encode"
        /\ InHand(epc' \in {"ref", "send", "push"}, pkt')
             = InHand(epc \in {"ref", "send", "push"}, pkt)
    BY <1>7 DEF DrainEnds, RefPacket, SendSeesRoom, WriteVideoFile, OpenFails, InHand
  <2>2. UpToInside' = UpToInside
    BY <2>1 DEF UpToInside, UpToPkt, Sent, InHand
  <2> QED
    BY <1>4, <2>1, <2>2
<1>8. CASE Streamer \/ UNCHANGED vars
  <2>1. UNCHANGED <<image_out, lost, inside, epc, pkt, image>>
    BY <1>8 DEF Streamer, StreamPops, StreamCopies, vars
  <2>2. Sent' = Sent
    BY <2>1, SentIs DEF SendPushes
  <2>3. UpToImage' = UpToImage
    BY <2>1, <2>2 DEF UpToImage, UpToInside, UpToPkt, InHand
  <2> QED
    BY <1>2, <2>1, <2>3
<1> QED
  BY <1>1, <1>3, <1>5, <1>6, <1>7, <1>8 DEF Next, Encoder

\* Main appends the next frame; a failing encoder takes out what it holds.
LEMMA OrderStep ==
  ASSUME TypeOK, HandInv, OrderInv, [Next]_vars
  PROVE  OrderInv'
<1> USE DEF fileVars, streamVars
<1>0. PartsOK /\ Frames \subseteq Nat
  BY Parts, Assumption DEF Frames
<1>1. image_out.offset \in Nat /\ Len(image_out.messages) \in Nat /\ Arrived \in Nat
  BY DEF TypeOK, IsQueue, Arrived, GetSize
<1>2. CASE MainSends
  <2>1. /\ image_out'.messages = Append(image_out.messages, Arrived)
        /\ image_out'.offset = image_out.offset /\ Arrived \in Frames
    BY <1>1, <1>2, Assumption, SMTT(30) DEF MainSends, Push, TypeOK, IsQueue, Frames
  <2>2. OnTheirWay' = OnTheirWay \o <<Arrived>>
    <3>1. UpToImage' = UpToImage
      BY <1>2 DEF MainSends, UpToImage, UpToInside, UpToPkt, Sent, InHand
    <3>2. OnTheirWay' = UpToImage \o Append(image_out.messages, Arrived)
      BY <2>1, <3>1 DEF OnTheirWay, UpToImage, UpToInside, UpToPkt
    <3>3. Append(image_out.messages, Arrived) = image_out.messages \o <<Arrived>>
      BY <1>0, <2>1, AppendIsConcat DEF PartsOK
    <3>4. <<Arrived>> \in Seq(Frames)
      BY <2>1
    <3>5. UpToImage \o (image_out.messages \o <<Arrived>>) = (UpToImage \o image_out.messages) \o <<Arrived>>
      <4> DEFINE r == UpToImage
                 m == image_out.messages
                 a == <<Arrived>>
      <4>1. r \in Seq(Frames) /\ m \in Seq(Frames) /\ a \in Seq(Frames)
        BY <1>0, <3>4 DEF PartsOK
      <4> HIDE DEF r, m, a
      <4>2. r \o (m \o a) = (r \o m) \o a
        BY <4>1, ConcatAssociative
      <4> QED
        BY <4>2 DEF r, m, a
    <3> QED
      BY <1>0, <3>2, <3>3, <3>5 DEF PartsOK
  <2>3. /\ <<Arrived>> \in Seq(Nat) /\ Increasing(<<Arrived>>)
        /\ Range(<<Arrived>>) = {Arrived}
    BY <1>1, SmallSequences
  <2>4. OnTheirWay \in Seq(Nat)
    BY <1>0, SeqMonotonic DEF PartsOK
  <2>5. Range(OnTheirWay') = Range(OnTheirWay) \union {Arrived}
    <3>1. Range(OnTheirWay \o <<Arrived>>) = Range(OnTheirWay) \union Range(<<Arrived>>)
      BY <2>3, <2>4, RangeConcatenation, ZenonT(60)
    <3> QED
      BY <2>2, <2>3, <3>1
  <2>6. \A a \in Range(OnTheirWay), b \in Range(<<Arrived>>) : a < b
    BY <1>1, <2>3 DEF OrderInv, FramesAccounted
  <2>7. Increasing(OnTheirWay')
    BY <2>2, <2>3, <2>4, <2>6, IncreasingConcat DEF OrderInv, FramesAccounted
  <2>8. Arrived' = Arrived + 1 /\ lost' = lost
    <3>1. Len(Append(image_out.messages, Arrived)) = Len(image_out.messages) + 1
      BY <1>0, <2>1, AppendProperties DEF PartsOK
    <3>2. lost' = lost
      BY <1>2 DEF MainSends
    <3> QED
      BY <1>1, <2>1, <3>1, <3>2 DEF Arrived, GetSize
  <2>9. Arrived \notin lost
    BY <1>1 DEF OrderInv
  <2> QED
    BY <1>1, <2>5, <2>7, <2>8, <2>9 DEF OrderInv, FramesAccounted
<1>3. CASE SendFrameFails
  <2>1. /\ image \in Frames /\ epc = "encode" /\ epc' = "pop" /\ inside' = << >>
        /\ lost' = lost \union {image} \union {inside[i] : i \in 1..Len(inside)}
        /\ UNCHANGED <<image_out, avpacket_out, streamed, spc, copying>>
    BY <1>3 DEF SendFrameFails, HandInv
  <2> DEFINE g == image_out.messages
  <2>2. Sent \in Seq(Nat) /\ inside \in Seq(Nat) /\ g \in Seq(Nat) /\ image \in Nat
    BY <1>0, <2>1, SeqMonotonic DEF PartsOK
  <2>3. Sent \o << >> = Sent
    BY <2>2, ConcatEmptySeq
  <2>4. OnTheirWay = ((Sent \o inside) \o <<image>>) \o g
    BY <2>1, <2>3 DEF OnTheirWay, InHand
  <2>5. OnTheirWay' = Sent \o g
    <3>1. Sent' = Sent
      BY <2>1 DEF Sent, InHand
    <3>2. OnTheirWay' = ((Sent \o << >>) \o << >>) \o << >> \o g
      BY <2>1, <3>1 DEF OnTheirWay, InHand
    <3> QED
      BY <2>3, <3>2
  <2> HIDE DEF g
  <2>6. /\ <<image>> \in Seq(Nat) /\ Range(<<image>>) = {image}
    BY <2>2, SmallSequences
  <2>7. /\ Sent \o inside \in Seq(Nat) /\ (Sent \o inside) \o <<image>> \in Seq(Nat)
    BY <2>2, <2>6, ConcatProperties
  <2>8. /\ Range(Sent \o inside) = Range(Sent) \union Range(inside)
        /\ Range((Sent \o inside) \o <<image>>) = Range(Sent \o inside) \union {image}
        /\ Range(OnTheirWay) = Range((Sent \o inside) \o <<image>>) \union Range(g)
        /\ Range(OnTheirWay') = Range(Sent) \union Range(g)
    <3>1. Range(Sent \o inside) = Range(Sent) \union Range(inside)
      BY <2>2, RangeConcatenation
    <3>2. Range((Sent \o inside) \o <<image>>) = Range(Sent \o inside) \union Range(<<image>>)
      <4> DEFINE r == Sent \o inside
                 a == <<image>>
      <4>1. r \in Seq(Nat) /\ a \in Seq(Nat)
        BY <2>6, <2>7
      <4> HIDE DEF r, a
      <4>2. Range(r \o a) = Range(r) \union Range(a)
        BY <4>1, RangeConcatenation
      <4> QED
        BY <4>2 DEF r, a
    <3>3. Range(OnTheirWay) = Range((Sent \o inside) \o <<image>>) \union Range(g)
      BY <2>2, <2>4, <2>7, RangeConcatenation, ZenonT(60)
    <3>4. Range(OnTheirWay') = Range(Sent) \union Range(g)
      BY <2>2, <2>5, RangeConcatenation
    <3> QED
      BY <2>6, <3>1, <3>2, <3>3, <3>4
  <2>9. /\ Increasing((Sent \o inside) \o <<image>>) /\ Increasing(g)
        /\ \A a \in Range((Sent \o inside) \o <<image>>), b \in Range(g) : a < b
    BY <2>2, <2>4, <2>7, IncreasingConcat DEF OrderInv, FramesAccounted
  <2>10. /\ Increasing(Sent \o inside)
         /\ \A a \in Range(Sent \o inside), b \in {image} : a < b
    BY <2>2, <2>6, <2>7, <2>9, IncreasingConcat
  <2>11. /\ Increasing(Sent)
         /\ \A a \in Range(Sent), b \in Range(inside) : a < b
    BY <2>2, <2>10, IncreasingConcat
  <2>12. Increasing(OnTheirWay')
    BY <2>2, <2>5, <2>8, <2>9, <2>11, IncreasingConcat
  <2>13. lost' = lost \union {image} \union Range(inside)
    BY <2>1, <2>2, RangeEquality
  <2>14. /\ Range(Sent) \subseteq Nat /\ Range(inside) \subseteq Nat /\ Range(g) \subseteq Nat
    BY <2>2, RangeOf
  <2>15. Range(OnTheirWay') = Range(OnTheirWay) \ ({image} \union Range(inside))
    <3> DEFINE S == Range(Sent)
               I == Range(inside)
               G == Range(g)
    <3>1. /\ Range(OnTheirWay) = S \union I \union {image} \union G
          /\ Range(OnTheirWay') = S \union G
      BY <2>8
    <3>2. /\ \A a \in S : a < image /\ \A b \in I : a < b
          /\ \A b \in G : image < b /\ \A a \in I : a < b
      BY <2>8, <2>9, <2>10, <2>11
    <3>3. S \subseteq Nat /\ I \subseteq Nat /\ G \subseteq Nat /\ image \in Nat
      BY <2>2, <2>14
    <3> HIDE DEF S, I, G
    <3>4. \A a \in S \union G : a # image /\ a \notin I
      BY <3>2, <3>3
    <3>5. S \union G = (S \union I \union {image} \union G) \ ({image} \union I)
      BY <3>4
    <3> QED
      BY <3>1, <3>5 DEF I
  <2>16. Arrived' = Arrived
    BY <2>1 DEF Arrived
  <2>17. lost' \subseteq 0..Arrived' - 1
    BY <2>8, <2>13, <2>16 DEF OrderInv, FramesAccounted
  <2> QED
    BY <2>12, <2>13, <2>15, <2>16, <2>17 DEF OrderInv, FramesAccounted
<1>4. CASE ~MainSends /\ ~SendFrameFails
  BY <1>4, HandsOn DEF OrderInv, FramesAccounted
<1> QED
  BY <1>2, <1>3, <1>4

-----------------------------------------------------------------------------
(* Who holds which packet.                                                 *)

\* The packets that were sent are increasing numbers: those streamed, then the
\* one being copied, then those queued.
LEMMA SentInOrder ==
  ASSUME TypeOK, HandInv, OrderInv
  PROVE  /\ Sent \in Seq(Frames) /\ Increasing(Sent)
         /\ Increasing(avpacket_out.messages)
         /\ Range(avpacket_out.messages) \subseteq Range(Sent)
         /\ spc = "copy" => copying \in Range(Sent) \ Range(avpacket_out.messages)
<1> DEFINE b == InHand(spc = "copy", copying)
           c == avpacket_out.messages
<1>1. /\ streamed \in Seq(Nat) /\ b \in Seq(Nat) /\ c \in Seq(Nat)
      /\ inside \in Seq(Nat) /\ image_out.messages \in Seq(Nat)
      /\ Sent \in Seq(Nat) /\ UpToPkt \in Seq(Nat) /\ UpToInside \in Seq(Nat)
      /\ UpToImage \in Seq(Nat) /\ InHand(epc \in {"ref", "send", "push"}, pkt) \in Seq(Nat)
      /\ InHand(epc = "encode", image) \in Seq(Nat)
  BY PartsAreNumbers
<1>2. Increasing(UpToImage)
  <2>1. Increasing(UpToImage \o image_out.messages)
    BY Parts DEF OrderInv, FramesAccounted, PartsOK
  <2> QED
    BY <1>1, <2>1, IncreasingConcat
<1>3. Increasing(UpToInside)
  BY <1>1, <1>2, IncreasingConcat DEF UpToImage
<1>4. Increasing(UpToPkt)
  BY <1>1, <1>3, IncreasingConcat DEF UpToInside
<1>5. Increasing(Sent)
  BY <1>1, <1>4, IncreasingConcat DEF UpToPkt
<1>6. Sent = (streamed \o b) \o c /\ streamed \o b \in Seq(Nat)
  BY <1>1, ConcatProperties DEF Sent
<1> HIDE DEF b, c
<1>7. /\ Increasing(c) /\ \A m \in Range(streamed \o b), n \in Range(c) : m < n
  BY <1>1, <1>5, <1>6, IncreasingConcat
<1>8. /\ Range(Sent) = Range(streamed \o b) \union Range(c)
      /\ Range(streamed \o b) = Range(streamed) \union Range(b)
  <2>1. Range((streamed \o b) \o c) = Range(streamed \o b) \union Range(c)
    <3> DEFINE r == streamed \o b
    <3>1. r \in Seq(Nat)
      BY <1>6
    <3> HIDE DEF r
    <3>2. Range(r \o c) = Range(r) \union Range(c)
      BY <1>1, <3>1, RangeConcatenation
    <3> QED
      BY <3>2 DEF r
  <2>2. Range(streamed \o b) = Range(streamed) \union Range(b)
    BY <1>1, RangeConcatenation
  <2> QED
    BY <1>6, <2>1, <2>2
<1>9. ASSUME spc = "copy"
      PROVE  copying \in Range(b)
  <2>1. b = <<copying>> /\ copying \in Nat
    BY <1>9, Assumption DEF b, InHand, HandInv, Frames
  <2> QED
    BY <2>1, SmallSequences
<1>10. spc = "copy" => copying \in Range(Sent) \ Range(c)
  <2> SUFFICES ASSUME spc = "copy"
               PROVE  copying \in Range(Sent) \ Range(c)
    OBVIOUS
  <2>1. copying \in Range(streamed \o b) /\ copying \in Nat
    BY <1>8, <1>9, Assumption DEF HandInv, Frames
  <2>2. ~(copying < copying)
    BY <2>1
  <2> QED
    BY <1>7, <1>8, <2>1, <2>2
<1>11. Sent \in Seq(Frames)
  BY Parts DEF PartsOK
<1> QED
  BY <1>5, <1>7, <1>8, <1>10, <1>11 DEF c

\* A packet that is not sent yet comes after all that were, and so does what the
\* encoder emits next.
LEMMA NextComesAfter ==
  ASSUME TypeOK, HandInv, OrderInv
  PROVE  /\ epc \in {"ref", "send", "push"} => \A m \in Range(Sent) : m < pkt
         /\ inside # << >> => \A m \in Range(Sent) : m < Head(inside)
<1> DEFINE d == InHand(epc \in {"ref", "send", "push"}, pkt)
<1>1. /\ Sent \in Seq(Nat) /\ d \in Seq(Nat) /\ UpToPkt \in Seq(Nat)
      /\ inside \in Seq(Nat) /\ UpToInside \in Seq(Nat) /\ UpToImage \in Seq(Nat)
      /\ InHand(epc = "encode", image) \in Seq(Nat) /\ image_out.messages \in Seq(Nat)
  BY PartsAreNumbers
<1>2. Increasing(UpToImage)
  <2>1. Increasing(UpToImage \o image_out.messages)
    BY Parts DEF OrderInv, FramesAccounted, PartsOK
  <2> QED
    BY <1>1, <2>1, IncreasingConcat
<1>3. Increasing(UpToInside)
  BY <1>1, <1>2, IncreasingConcat DEF UpToImage
<1>4. /\ Increasing(UpToPkt)
      /\ \A m \in Range(UpToPkt), n \in Range(inside) : m < n
  BY <1>1, <1>3, IncreasingConcat DEF UpToInside
<1>5. UpToPkt = Sent \o d
  BY DEF UpToPkt
<1> HIDE DEF d
<1>6. /\ \A m \in Range(Sent), n \in Range(d) : m < n
      /\ Range(Sent) \subseteq Range(UpToPkt)
  BY <1>1, <1>4, <1>5, IncreasingConcat, RangeConcatenation
<1>7. ASSUME epc \in {"ref", "send", "push"}
      PROVE  pkt \in Range(d)
  <2>1. d = <<pkt>> /\ pkt \in Nat
    BY <1>7, Assumption DEF d, InHand, HandInv, Frames
  <2> QED
    BY <2>1, SmallSequences
<1>8. ASSUME inside # << >>
      PROVE  Head(inside) \in Range(inside)
  <2>1. Head(inside) = inside[1] /\ 1 \in 1..Len(inside)
    BY <1>1, <1>8
  <2> QED
    BY <1>1, <2>1, RangeOf
<1> QED
  BY <1>4, <1>6, <1>7, <1>8

\* A packet is queued at most once.
LEMMA QueuedOnce ==
  ASSUME TypeOK, HandInv, OrderInv, NEW n \in Frames
  PROVE  Cardinality({i \in 1..GetSize(avpacket_out) : avpacket_out.messages[i] = n})
           = IF n \in Range(avpacket_out.messages) THEN 1 ELSE 0
<1> DEFINE m == avpacket_out.messages
           at == {i \in 1..GetSize(avpacket_out) : m[i] = n}
<1>1. m \in Seq(Frames) /\ Len(m) = GetSize(avpacket_out) /\ Increasing(m)
  BY SentInOrder DEF TypeOK, IsQueue, GetSize
<1>2. CASE n \in Range(m)
  <2>1. PICK i \in 1..Len(m) : m[i] = n
    BY <1>1, <1>2, RangeOf
  <2>2. ASSUME NEW j \in 1..Len(m), m[j] = n
        PROVE  j = i
    <3>1. ~(i < j) /\ ~(j < i)
      BY <1>1, <2>1, <2>2, Assumption DEF Increasing, Frames
    <3> QED
      BY <3>1
  <2>3. at = {i}
    BY <1>1, <2>1, <2>2
  <2> QED
    BY <1>2, <2>3, FS_Singleton
<1>3. CASE n \notin Range(m)
  <2>1. at = {}
    BY <1>1, <1>3, RangeOf
  <2> QED
    BY <1>3, <2>1, FS_EmptySet
<1> QED
  BY <1>2, <1>3

\* What the steps below need of the queue, before and after a step.
QueueInv ==
  /\ \A n \in Frames :
       Cardinality({i \in 1..GetSize(avpacket_out) : avpacket_out.messages[i] = n})
         = IF n \in Range(avpacket_out.messages) THEN 1 ELSE 0
  /\ spc = "copy" => copying \notin Range(avpacket_out.messages)

\* It follows from the invariant.
LEMMA QueueIs == TypeOK /\ HandInv /\ OrderInv => QueueInv
<1> SUFFICES ASSUME TypeOK, HandInv, OrderInv
             PROVE  QueueInv
  OBVIOUS
<1>1. spc = "copy" => copying \notin Range(avpacket_out.messages)
  BY SentInOrder
<1>2. \A n \in Frames :
        Cardinality({i \in 1..GetSize(avpacket_out) : avpacket_out.messages[i] = n})
          = IF n \in Range(avpacket_out.messages) THEN 1 ELSE 0
  BY QueuedOnce
<1> QED
  BY <1>1, <1>2 DEF QueueInv

-----------------------------------------------------------------------------
(* What is recorded.                                                       *)

\* Recorded grows by the packet that is written.
LEMMA RecordedIs ==
  ASSUME TypeOK, HandInv, [Next]_vars
  PROVE  /\ Recorded \in Seq(Frames)
         /\ IF WriteVideoFile THEN Recorded' = Recorded \o <<pkt>>
                              ELSE Recorded' = Recorded
<1> USE DEF fileVars, streamVars
<1>1. /\ Len(writes) \in Nat
      /\ \A i \in 1..Len(writes) : writes[i].packet \in Frames
  <2> DEFINE s == [file : 1..file_no, packet : Frames, headed : BOOLEAN]
  <2>1. writes \in Seq(s)
    BY DEF TypeOK
  <2>2. \A i \in 1..Len(writes) : writes[i] \in s
    <3> HIDE DEF s
    <3> QED
      BY <2>1, ElementOfSeq
  <2> QED
    BY <2>1, <2>2
<1>2. Recorded \in Seq(Frames) /\ Len(Recorded) = Len(writes)
  <2>1. Recorded \in [1..Len(writes) -> Frames]
    BY <1>1 DEF Recorded
  <2> QED
    BY <1>1, <2>1
<1>3. CASE WriteVideoFile
  <2> DEFINE w == [file |-> file_no', packet |-> pkt, headed |-> HeaderWritten]
             s == [file : 1..file_no, packet : Frames, headed : BOOLEAN] \union {w}
  <2>1. writes' = Append(writes, w) /\ pkt \in Frames
    BY <1>3 DEF WriteVideoFile, HandInv
  <2>2. writes \in Seq(s) /\ w \in s
    BY SeqMonotonic DEF TypeOK
  <2>3. w.packet = pkt
    OBVIOUS
  <2> HIDE DEF s, w
  <2>4. /\ Len(writes') = Len(writes) + 1 /\ writes'[Len(writes) + 1] = w
        /\ \A i \in 1..Len(writes) : writes'[i] = writes[i]
    BY <2>1, <2>2, AppendProperties
  <2>5. /\ Len(Append(Recorded, pkt)) = Len(writes) + 1
        /\ Append(Recorded, pkt) \in Seq(Frames)
        /\ Append(Recorded, pkt)[Len(writes) + 1] = pkt
        /\ \A i \in 1..Len(writes) : Append(Recorded, pkt)[i] = writes[i].packet
    <3>1. \A i \in 1..Len(writes) : Recorded[i] = writes[i].packet
      BY DEF Recorded
    <3> QED
      BY <1>2, <2>1, <3>1, AppendProperties
  <2>6. /\ Recorded' \in Seq(Frames) /\ Len(Recorded') = Len(writes) + 1
        /\ \A i \in 1..(Len(writes) + 1) : Recorded'[i] = writes'[i].packet
    <3>1. Recorded' = [i \in 1..(Len(writes) + 1) |-> writes'[i].packet]
      BY <2>4 DEF Recorded
    <3>2. \A i \in 1..(Len(writes) + 1) : writes'[i].packet \in Frames
      BY <1>1, <2>1, <2>3, <2>4
    <3>3. Recorded' \in [1..(Len(writes) + 1) -> Frames]
      BY <3>1, <3>2
    <3> QED
      BY <1>1, <3>1, <3>3
  <2>7. \A i \in 1..Len(Recorded') : Recorded'[i] = Append(Recorded, pkt)[i]
    BY <1>1, <2>3, <2>4, <2>5, <2>6
  <2>8. Recorded' = Append(Recorded, pkt)
    BY <2>5, <2>6, <2>7, SeqEqual
  <2>9. Append(Recorded, pkt) = Recorded \o <<pkt>>
    BY <1>2, <2>1, AppendIsConcat
  <2> QED
    BY <1>2, <1>3, <2>8, <2>9
<1>4. CASE ~WriteVideoFile
  <2>1. UNCHANGED writes
    BY <1>4 DEF Next, Encoder, Streamer, vars, MainSends, EncoderPops, SendFrame,
                SendFrameFails, ReceivePacket, DrainEnds, RefPacket, SendSeesRoom,
                SendPushes, OpenFails, StreamPops, StreamCopies
  <2> QED
    BY <1>2, <1>4, <2>1 DEF Recorded
<1> QED
  BY <1>3, <1>4

\* The parts of the invariant that relate what was sent to what was written.
LEMMA RecordingStep ==
  ASSUME TypeOK, HandInv, OrderInv, SentInv, RecordingMatchesStream, HeaderInv, [Next]_vars
  PROVE  /\ RecordingMatchesStream'
         /\ NotYetWritten' \subseteq Range(Sent')
         /\ \A n \in NotYetWritten', m \in Range(Sent') : m <= n
         /\ unwritten' \subseteq Range(Sent') \ NotYetWritten'
<1> USE DEF fileVars, streamVars
<1> DEFINE Goal == /\ RecordingMatchesStream'
                   /\ NotYetWritten' \subseteq Range(Sent')
                   /\ \A n \in NotYetWritten', m \in Range(Sent') : m <= n
                   /\ unwritten' \subseteq Range(Sent') \ NotYetWritten'
<1>0. /\ Sent \in Seq(Nat) /\ Recorded \in Seq(Nat) /\ Range(Sent) \subseteq Nat
      /\ Frames \subseteq Nat
  BY PartsAreNumbers, RecordedIs, SeqMonotonic, RangeOf, Assumption, SMTT(30) DEF Frames
<1>1. CASE SendPushes
  <2>1. /\ epc = "push" /\ epc' = "write" /\ pkt \in Nat /\ pkt \in Frames
        /\ UNCHANGED <<pkt, unwritten>>
    BY <1>0, <1>1 DEF SendPushes, HandInv
  <2>2. Range(Sent') = Range(Sent) \union {pkt}
    <3>1. Sent' = Sent \o <<pkt>>
      BY <1>1, SentIs
    <3> QED
      BY <1>0, <2>1, <3>1, OneMore
  <2>3. \A m \in Range(Sent) : m < pkt
    BY <2>1, NextComesAfter
  <2>4. pkt \notin Range(Sent)
    BY <2>1, <2>3
  <2>5. NotYetWritten = {} /\ NotYetWritten' = {pkt}
    BY <2>1 DEF NotYetWritten
  <2>6. Recorded' = Recorded
    BY <1>1, RecordedIs DEF SendPushes, WriteVideoFile
  <2>7. RecordingMatchesStream'
    BY <2>1, <2>2, <2>4, <2>5, <2>6 DEF RecordingMatchesStream
  <2>8. unwritten' \subseteq Range(Sent') \ NotYetWritten'
    BY <2>1, <2>2, <2>4, <2>5 DEF SentInv
  <2>9. \A n \in NotYetWritten', m \in Range(Sent') : m <= n
    BY <1>0, <2>1, <2>2, <2>3, <2>5
  <2> QED
    BY <2>2, <2>5, <2>7, <2>8, <2>9
<1>2. CASE WriteVideoFile
  <2>1. /\ epc = "write" /\ epc' = "drain" /\ pkt \in Nat /\ pkt \in Frames
        /\ UNCHANGED unwritten
    BY <1>0, <1>2 DEF WriteVideoFile, HandInv
  <2>2. NotYetWritten = {pkt} /\ NotYetWritten' = {} /\ Sent' = Sent
    BY <1>2, <2>1, SentIs DEF NotYetWritten, SendPushes
  <2>3. Recorded' = Recorded \o <<pkt>>
    BY <1>2, RecordedIs
  <2>4. Range(Recorded') = Range(Recorded) \union {pkt}
    BY <1>0, <2>1, <2>3, OneMore
  <2>5. Range(Recorded') = Range(Sent') \ (unwritten' \union NotYetWritten')
    BY <2>1, <2>2, <2>4 DEF RecordingMatchesStream, SentInv
  <2>6. \A m \in Range(Recorded) : m < pkt
    BY <1>0, <2>1, <2>2 DEF RecordingMatchesStream, SentInv
  <2>7. Increasing(Recorded')
    BY <1>0, <2>1, <2>3, <2>6, OneMore DEF RecordingMatchesStream
  <2> QED
    BY <2>1, <2>2, <2>5, <2>7 DEF RecordingMatchesStream, SentInv
<1>3. CASE OpenFails
  <2>1. Recorded' = Recorded /\ Sent' = Sent
    BY <1>3, SentIs DEF OpenFails, SendPushes, Recorded
  <2>2. NotYetWritten = {pkt}
    BY <1>3 DEF OpenFails, NotYetWritten
  <2>3. CASE header_kept
    <3>1. NotYetWritten' = {pkt} /\ UNCHANGED unwritten
      BY <1>3, <2>3 DEF OpenFails, NotYetWritten
    <3> QED
      BY <2>1, <2>2, <3>1 DEF RecordingMatchesStream, SentInv
  <2>4. CASE ~header_kept
    <3>1. NotYetWritten' = {} /\ unwritten' = {pkt} /\ unwritten = {}
      BY <1>3, <2>4 DEF OpenFails, NotYetWritten, HeaderInv
    <3> QED
      BY <2>1, <2>2, <3>1 DEF RecordingMatchesStream, SentInv
  <2> QED
    BY <2>3, <2>4
<1>4. CASE ~SendPushes /\ ~WriteVideoFile /\ ~OpenFails
  <2>1. Recorded' = Recorded /\ Sent' = Sent
    BY <1>4, SentIs, RecordedIs
  <2>2. /\ UNCHANGED unwritten
        /\ \/ UNCHANGED <<epc, pkt>>
           \/ epc \notin {"write", "crashed"} /\ epc' \notin {"write", "crashed"}
    BY <1>4 DEF Next, Encoder, Streamer, vars, MainSends, EncoderPops, SendFrame,
                SendFrameFails, ReceivePacket, DrainEnds, RefPacket, SendSeesRoom,
                StreamPops, StreamCopies
  <2>3. NotYetWritten' = NotYetWritten
    BY <2>2 DEF NotYetWritten
  <2> QED
    BY <2>1, <2>2, <2>3 DEF RecordingMatchesStream, SentInv
<1> QED
  BY <1>1, <1>2, <1>3, <1>4

-----------------------------------------------------------------------------
(* Types and counters.                                                     *)

\* The number of packets written fits the number of frames.
LEMMA FewFiles ==
  ASSUME TypeOK, HandInv, OrderInv, SentInv, RecordingMatchesStream, FileInv, WriteVideoFile
  PROVE  file_no + 1 <= MaxFrames
<1>0. /\ Recorded \in Seq(Frames) /\ Len(Recorded) = Len(writes) /\ Len(writes) \in Nat
      /\ pkt \in Frames /\ Frames \subseteq Nat /\ file_no \in Nat
  <2>1. Recorded \in Seq(Frames)
    <3>1. [Next]_vars
      BY DEF Next, Encoder
    <3> QED
      BY <3>1, RecordedIs
  <2>2. Len(writes) \in Nat
    BY DEF TypeOK
  <2> QED
    BY <2>1, <2>2, Assumption DEF Recorded, WriteVideoFile, HandInv, Frames, TypeOK
<1>1. Increasing(Recorded) /\ \A m \in Range(Recorded) : m < pkt
  <2>1. NotYetWritten = {pkt}
    BY DEF WriteVideoFile, NotYetWritten
  <2>2. Range(Sent) \subseteq Nat
    BY PartsAreNumbers, RangeOf
  <2> QED
    BY <1>0, <2>1, <2>2 DEF RecordingMatchesStream, SentInv
<1>2. /\ Recorded \o <<pkt>> \in Seq(Frames) /\ Increasing(Recorded \o <<pkt>>)
      /\ Len(Recorded \o <<pkt>>) = Len(writes) + 1
  <2>1. Recorded \in Seq(Nat) /\ pkt \in Nat
    BY <1>0, SeqMonotonic
  <2>2. Increasing(Recorded \o <<pkt>>)
    BY <1>1, <2>1, OneMore
  <2>3. Append(Recorded, pkt) = Recorded \o <<pkt>>
    BY <1>0, AppendIsConcat
  <2>4. /\ Append(Recorded, pkt) \in Seq(Frames)
        /\ Len(Append(Recorded, pkt)) = Len(Recorded) + 1
    BY <1>0, AppendProperties
  <2> QED
    BY <1>0, <2>2, <2>3, <2>4
<1>3. Len(writes) + 1 <= MaxFrames
  <2> DEFINE s == Recorded \o <<pkt>>
  <2>1. s \in Seq(Frames) /\ Increasing(s) /\ Len(s) = Len(writes) + 1
    BY <1>2
  <2> HIDE DEF s
  <2>2. Len(s) <= MaxFrames
    BY <2>1, IncreasingIsShort
  <2> QED
    BY <2>1, <2>2
<1> QED
  BY <1>0, <1>3, Assumption DEF FileInv

\* A packet has no more references than there are threads that hold it.
LEMMA FewReferences ==
  ASSUME TypeOK, HandInv, OrderInv, SentInv, ReferencesBalance, NEW n \in Frames
  PROVE  /\ refs[n] = (IF n = pkt THEN 1 ELSE 0) + (IF n = copying THEN 1 ELSE 0)
                      + (IF epc \in {"send", "push"} /\ n = pkt THEN 1 ELSE 0)
                      + (IF n \in Range(avpacket_out.messages) THEN 1 ELSE 0)
         /\ n = copying => n \notin Range(avpacket_out.messages)
         /\ epc \in {"ref", "send", "push"} /\ n = pkt =>
              n # copying /\ n \notin Range(avpacket_out.messages)
         /\ inside # << >> /\ n = Head(inside) =>
              n # copying /\ n \notin Range(avpacket_out.messages)
<1>1. Frames \subseteq Nat /\ NoMessage \notin Nat
  BY Assumption DEF Frames
<1>2. refs[n] = (IF n = pkt THEN 1 ELSE 0) + (IF n = copying THEN 1 ELSE 0)
                + (IF epc \in {"send", "push"} /\ n = pkt THEN 1 ELSE 0)
                + (IF n \in Range(avpacket_out.messages) THEN 1 ELSE 0)
  BY QueuedOnce DEF ReferencesBalance, Holders
<1>3. n = copying => spc = "copy"
  BY <1>1 DEF HandInv
<1>4. ~(n < n) /\ (n = copying => n \in Range(Sent))
  BY <1>1, <1>3, SentInOrder
<1> QED
  BY <1>2, <1>3, <1>4, SentInOrder, NextComesAfter

\* The queues and who holds what.
ThreadsOK ==
  /\ IsQueue(image_out) /\ IsQueue(avpacket_out)
  /\ refs \in [Frames -> 0..2]
  /\ epc \in {"pop", "encode", "drain", "ref", "send", "push", "write", "crashed"}
  /\ {image, pkt, copying} \subseteq Frames \union {NoMessage}
  /\ inside \in Seq(Frames) /\ lost \subseteq Frames
  /\ spc \in {"pop", "copy"} /\ streamed \in Seq(Frames)
  /\ HandInv /\ Arrived <= MaxFrames
  /\ avpacket_out.offset = Len(streamed) + (IF spc = "copy" THEN 1 ELSE 0)

\* Every variable of the threads keeps its type: the references to a packet are
\* counted up to two and never below zero.
LEMMA ThreadsStep ==
  ASSUME IInv, [Next]_vars
  PROVE  ThreadsOK'
<1> USE DEF fileVars, streamVars
<1>0. /\ ThreadsOK /\ Frames \subseteq Nat /\ MaxFrames \in Nat
      /\ TypeOK /\ HandInv /\ OrderInv /\ SentInv /\ ReferencesBalance
  BY Assumption DEF IInv, TypeOK, ThreadsOK, SentInv, Frames
<1>1. /\ image_out.messages \in Seq(Frames) /\ image_out.offset \in 0..MaxFrames
      /\ avpacket_out.messages \in Seq(Frames) /\ avpacket_out.offset \in 0..MaxFrames
      /\ Len(image_out.messages) \in Nat /\ Len(avpacket_out.messages) \in Nat
  BY <1>0 DEF ThreadsOK, IsQueue
<1>2. CASE MainSends
  <2>1. Arrived \in Frames
    BY <1>0, <1>1, <1>2 DEF MainSends, Arrived, GetSize, Frames
  <2>2. image_out' = [messages |-> Append(image_out.messages, Arrived),
                      offset |-> image_out.offset]
    BY <1>0, <1>2 DEF MainSends, Push, ThreadsOK, IsQueue
  <2>3. /\ Append(image_out.messages, Arrived) \in Seq(Frames)
        /\ Len(Append(image_out.messages, Arrived)) = Len(image_out.messages) + 1
    BY <1>1, <2>1, AppendProperties
  <2>4. IsQueue(image_out)' /\ Arrived' <= MaxFrames
    BY <1>0, <1>1, <2>1, <2>2, <2>3 DEF IsQueue, Arrived, GetSize, Frames
  <2>5. UNCHANGED <<avpacket_out, refs, epc, image, inside, pkt, lost, streamVars>>
    BY <1>2 DEF MainSends
  <2> QED
    BY <1>0, <2>4, <2>5 DEF ThreadsOK, HandInv, IsQueue
<1>3. CASE EncoderPops
  <2>1. image_out.messages # << >> /\ Len(image_out.messages) > 0
    BY <1>1, <1>3 DEF EncoderPops, HasFrame, GetSize
  <2>2. /\ image' = Head(image_out.messages)
        /\ image_out' = [messages |-> Tail(image_out.messages),
                         offset |-> image_out.offset + 1]
    BY <1>3, <2>1 DEF EncoderPops, Front, Pop, GetSize
  <2>3. /\ image' \in Frames /\ Tail(image_out.messages) \in Seq(Frames)
        /\ Len(Tail(image_out.messages)) = Len(image_out.messages) - 1
    BY <1>1, <2>1, <2>2, HeadTailProperties
  <2>4. IsQueue(image_out)' /\ Arrived' <= MaxFrames
    BY <1>0, <1>1, <2>1, <2>2, <2>3 DEF IsQueue, Arrived, GetSize, ThreadsOK
  <2>5. /\ UNCHANGED <<avpacket_out, refs, inside, pkt, lost, streamVars>>
        /\ epc = "pop" /\ epc' = "encode"
    BY <1>3 DEF EncoderPops
  <2> QED
    BY <1>0, <2>3, <2>4, <2>5 DEF ThreadsOK, HandInv, IsQueue
<1>4. CASE SendFrame
  <2>1. /\ image \in Frames /\ inside' = Append(inside, image)
        /\ UNCHANGED <<image_out, avpacket_out, refs, image, pkt, lost, streamVars>>
        /\ epc = "encode" /\ epc' = "drain"
    BY <1>0, <1>4 DEF SendFrame, HandInv
  <2> QED
    BY <1>0, <2>1 DEF ThreadsOK, HandInv, IsQueue, Arrived
<1>5. CASE SendFrameFails
  <2>1. /\ image \in Frames /\ inside' = << >> /\ image' = NoMessage
        /\ lost' = lost \union {image} \union {inside[i] : i \in 1..Len(inside)}
        /\ UNCHANGED <<image_out, avpacket_out, refs, pkt, streamVars>>
        /\ epc = "encode" /\ epc' = "pop"
    BY <1>0, <1>5 DEF SendFrameFails, HandInv
  <2>2. inside' \in Seq(Frames) /\ lost' \subseteq Frames
    <3>1. inside \in Seq(Frames) /\ lost \subseteq Frames /\ << >> \in Seq(Frames)
      BY <1>0 DEF ThreadsOK
    <3>2. \A i \in 1..Len(inside) : inside[i] \in Frames
      BY <3>1, ElementOfSeq
    <3> QED
      BY <2>1, <3>1, <3>2
  <2> QED
    BY <1>0, <2>1, <2>2 DEF ThreadsOK, HandInv, IsQueue, Arrived
<1>6. CASE ReceivePacket
  <2>1. /\ inside # << >> /\ pkt' = Head(inside) /\ inside' = Tail(inside)
        /\ refs' = [refs EXCEPT ![pkt'] = 1]
        /\ UNCHANGED <<image_out, avpacket_out, image, lost, streamVars>>
        /\ epc = "drain" /\ epc' = "ref"
    BY <1>0, <1>6 DEF ReceivePacket, ThreadsOK
  <2>2. pkt' \in Frames /\ inside' \in Seq(Frames)
    BY <1>0, <2>1, HeadTailProperties DEF ThreadsOK
  <2>3. refs' \in [Frames -> 0..2]
    BY <1>0, <2>1 DEF ThreadsOK
  <2> QED
    BY <1>0, <2>1, <2>2, <2>3 DEF ThreadsOK, HandInv, IsQueue, Arrived
<1>7. CASE RefPacket
  <2>1. /\ pkt \in Frames /\ refs' = [refs EXCEPT ![pkt] = @ + 1]
        /\ UNCHANGED <<image_out, avpacket_out, image, inside, pkt, lost, streamVars>>
        /\ epc = "ref" /\ epc' = "send"
    BY <1>0, <1>7 DEF RefPacket, Referenced, HandInv
  <2>2. refs[pkt] = 1
    BY <1>0, <2>1, FewReferences
  <2>3. refs' \in [Frames -> 0..2]
    BY <1>0, <2>1, <2>2 DEF ThreadsOK
  <2> QED
    BY <1>0, <2>1, <2>3 DEF ThreadsOK, HandInv, IsQueue, Arrived
<1>8. CASE DrainEnds \/ SendSeesRoom
  <2>1. /\ UNCHANGED <<image_out, avpacket_out, refs, inside, pkt, lost, streamVars>>
        /\ image' \in {image, NoMessage}
        /\ \/ epc = "drain" /\ epc' = "pop"
           \/ epc = "send" /\ epc' = "push"
    BY <1>8 DEF DrainEnds, SendSeesRoom
  <2> QED
    BY <1>0, <2>1 DEF ThreadsOK, HandInv, IsQueue, Arrived
<1>9. CASE SendPushes
  <2>1. /\ pkt \in Frames
        /\ avpacket_out' = [messages |-> Append(avpacket_out.messages, pkt),
                            offset |-> avpacket_out.offset]
        /\ UNCHANGED <<image_out, refs, image, inside, pkt, lost, streamVars>>
        /\ epc = "push" /\ epc' = "write"
    BY <1>0, <1>9 DEF SendPushes, Push, HandInv, ThreadsOK, IsQueue
  <2>2. IsQueue(avpacket_out)'
    BY <1>1, <2>1, AppendProperties DEF IsQueue
  <2> QED
    BY <1>0, <2>1, <2>2 DEF ThreadsOK, HandInv, IsQueue, Arrived
<1>10. CASE WriteVideoFile \/ OpenFails
  <2>1. /\ UNCHANGED <<image_out, avpacket_out, image, inside, lost, streamVars>>
        /\ epc = "write" /\ pkt \in Frames
        /\ \/ epc' = "drain" /\ pkt' = NoMessage /\ refs' = [refs EXCEPT ![pkt] = @ - 1]
           \/ epc' = "crashed" /\ UNCHANGED <<pkt, refs>>
    BY <1>0, <1>10 DEF WriteVideoFile, OpenFails, Unreferenced, HandInv
  <2>2. refs[pkt] \in 1..2
    BY <1>0, <2>1, FewReferences DEF ThreadsOK
  <2>3. refs' \in [Frames -> 0..2]
    BY <1>0, <2>1, <2>2 DEF ThreadsOK
  <2> QED
    BY <1>0, <2>1, <2>3 DEF ThreadsOK, HandInv, IsQueue, Arrived
<1>11. CASE StreamPops
  <2>1. avpacket_out.messages # << >> /\ Len(avpacket_out.messages) > 0
    BY <1>1, <1>11 DEF StreamPops, GetSize
  <2>2. /\ copying' = Head(avpacket_out.messages)
        /\ avpacket_out' = [messages |-> Tail(avpacket_out.messages),
                            offset |-> avpacket_out.offset + 1]
        /\ UNCHANGED <<image_out, refs, epc, image, inside, pkt, lost, streamed>>
        /\ spc = "pop" /\ spc' = "copy"
    BY <1>11, <2>1 DEF StreamPops, Front, Pop, GetSize
  <2>3. copying' \in Frames /\ Tail(avpacket_out.messages) \in Seq(Frames)
    BY <1>1, <2>1, <2>2, HeadTailProperties
  <2>4. avpacket_out.offset + 1 <= MaxFrames
    <3>1. Len(Sent) <= MaxFrames
      BY <1>0, SentInOrder, IncreasingIsShort
    <3>2. Len(Sent) = Len(streamed) + Len(avpacket_out.messages)
      <4>1. Sent = (streamed \o << >>) \o avpacket_out.messages
        BY <2>2 DEF Sent, InHand
      <4>2. streamed \o << >> = streamed
        BY <1>0, ConcatEmptySeq DEF ThreadsOK
      <4> QED
        BY <1>0, <1>1, <4>1, <4>2, ConcatProperties DEF ThreadsOK
    <3>3. Len(streamed) \in Nat
      BY <1>0 DEF ThreadsOK
    <3> QED
      BY <1>0, <1>1, <2>1, <2>2, <3>1, <3>2, <3>3 DEF ThreadsOK
  <2>5. IsQueue(avpacket_out)'
    BY <1>1, <2>2, <2>3, <2>4 DEF IsQueue
  <2>6. avpacket_out'.offset = Len(streamed') + 1
    BY <1>0, <1>1, <2>2 DEF ThreadsOK
  <2> QED
    BY <1>0, <2>2, <2>3, <2>5, <2>6 DEF ThreadsOK, HandInv, IsQueue, Arrived
<1>12. CASE StreamCopies
  <2>1. /\ streamed' = Append(streamed, copying) /\ copying \in Frames
        /\ copying' = NoMessage /\ refs' = [refs EXCEPT ![copying] = @ - 1]
        /\ UNCHANGED <<image_out, avpacket_out, epc, image, inside, pkt, lost>>
        /\ spc = "copy" /\ spc' = "pop"
    BY <1>0, <1>12 DEF StreamCopies, Unreferenced, HandInv
  <2>2. refs[copying] \in 1..2
    BY <1>0, <2>1, FewReferences DEF ThreadsOK
  <2>3. refs' \in [Frames -> 0..2]
    BY <1>0, <2>1, <2>2 DEF ThreadsOK
  <2>4. streamed' \in Seq(Frames) /\ Len(streamed') = Len(streamed) + 1 /\ Len(streamed) \in Nat
    BY <1>0, <2>1, AppendProperties DEF ThreadsOK
  <2> QED
    BY <1>0, <1>1, <2>1, <2>3, <2>4 DEF ThreadsOK, HandInv, IsQueue, Arrived
<1>13. CASE UNCHANGED vars
  BY <1>0, <1>13 DEF vars, ThreadsOK, HandInv, IsQueue, Arrived
<1> QED
  BY <1>2, <1>3, <1>4, <1>5, <1>6, <1>7, <1>8, <1>9, <1>10, <1>11, <1>12, <1>13
     DEF Next, Encoder, Streamer

-----------------------------------------------------------------------------
(* The files.                                                              *)

\* The files and the counter keep their types.
FilesOK ==
  /\ unwritten \subseteq Frames
  /\ video_open \in BOOLEAN /\ header_kept \in BOOLEAN
  /\ count_write \in 0..PacketsPerFile
  /\ writes \in Seq([file : 1..file_no, packet : Frames, headed : BOOLEAN])
  /\ file_no \in 0..MaxFrames
  /\ errors \in 0..MaxErrors

\* Writing a packet appends one element and changes none.
LEMMA WritesGrow ==
  ASSUME FilesOK, HandInv, FileInv, WriteVideoFile, file_no + 1 <= MaxFrames
  PROVE  /\ file_no' \in 1..MaxFrames /\ file_no \in Nat
         /\ writes' \in Seq([file : 1..file_no', packet : Frames, headed : BOOLEAN])
         /\ Len(writes') = Len(writes) + 1 /\ Len(writes) \in Nat
         /\ \A i \in 1..Len(writes) : writes'[i] = writes[i] /\ writes[i].file \in 1..file_no
         /\ writes'[Len(writes) + 1]
              = [file |-> file_no', packet |-> pkt, headed |-> header_kept]
<1> DEFINE s == [file : 1..file_no, packet : Frames, headed : BOOLEAN]
           t == [file : 1..file_no', packet : Frames, headed : BOOLEAN]
           w == [file |-> file_no', packet |-> pkt, headed |-> header_kept]
<1>0. /\ writes \in Seq(s) /\ file_no \in Nat /\ MaxFrames \in Nat /\ pkt \in Frames
      /\ header_kept \in BOOLEAN
  BY Assumption DEF FilesOK, WriteVideoFile, HandInv
<1>1. file_no' \in 1..MaxFrames /\ file_no <= file_no'
  BY <1>0, Assumption DEF WriteVideoFile, FileInv, FilesOK
<1>2. writes' = Append(writes, w)
  BY DEF WriteVideoFile, HeaderWritten
<1>3. s \subseteq t /\ w \in t
  BY <1>0, <1>1
<1>4. \A e \in s : e.file \in 1..file_no
  OBVIOUS
<1> HIDE DEF s, t, w
<1>5. writes \in Seq(t)
  BY <1>0, <1>3, SeqMonotonic
<1>6. /\ writes' \in Seq(t) /\ Len(writes') = Len(writes) + 1 /\ Len(writes) \in Nat
      /\ \A i \in 1..Len(writes) : writes'[i] = writes[i]
      /\ writes'[Len(writes) + 1] = w
  BY <1>2, <1>3, <1>5, AppendProperties
<1>7. \A i \in 1..Len(writes) : writes[i].file \in 1..file_no
  BY <1>0, <1>4, ElementOfSeq
<1> QED
  BY <1>0, <1>1, <1>6, <1>7 DEF t, w

\* The indices of a file are a finite set of positive numbers.
LEMMA FilesAreFinite ==
  ASSUME FilesOK, NEW f
  PROVE  /\ IsFiniteSet(InFile(f)) /\ Cardinality(InFile(f)) \in Nat
         /\ IsFiniteSet(unwritten) /\ Cardinality(unwritten) \in Nat
         /\ InFile(f) \subseteq 1..Len(writes)
<1>1. InFile(f) \subseteq 1..Len(writes) /\ Len(writes) \in Nat
  BY DEF FilesOK, InFile
<1>2. IsFiniteSet(1..Len(writes)) /\ IsFiniteSet(Frames)
  BY <1>1, FS_Interval, Assumption DEF Frames
<1>3. IsFiniteSet(InFile(f)) /\ IsFiniteSet(unwritten)
  BY <1>1, <1>2, FS_Subset DEF FilesOK
<1> QED
  BY <1>1, <1>3, FS_CardinalityType

\* A written packet fills the file that is open then, and no other.
LEMMA FillsOne ==
  ASSUME FilesOK, HandInv, FileInv, WriteVideoFile, file_no + 1 <= MaxFrames,
         NEW f \in 1..file_no'
  PROVE  /\ f = file_no' => Filled(f)' = count_write + 1
         /\ f # file_no' => Filled(f)' = Filled(f)
<1> DEFINE n == Len(writes) + 1
<1>1. /\ Len(writes') = n /\ Len(writes) \in Nat /\ file_no \in Nat /\ file_no' \in 1..MaxFrames
      /\ \A i \in 1..Len(writes) : writes'[i].file = writes[i].file
                                   /\ writes[i].file \in 1..file_no
      /\ writes'[n].file = file_no'
  BY WritesGrow
<1>2. n \notin InFile(f)
  BY <1>1 DEF InFile
<1>3. CASE f = file_no'
  <2>1. InFile(f)' = InFile(f) \union {n}
    <3>1. \A i \in 1..n : i \in InFile(f)' <=> i \in InFile(f) \/ i = n
      BY <1>1, <1>3 DEF InFile
    <3>2. InFile(f)' \subseteq 1..n /\ InFile(f) \subseteq 1..n
      BY <1>1 DEF InFile
    <3>3. n \in 1..n
      BY <1>1
    <3> QED
      BY <3>1, <3>2, <3>3
  <2>2. Cardinality(InFile(f)') = Cardinality(InFile(f)) + 1
    BY <1>2, <2>1, FilesAreFinite, FS_AddElement
  <2>3. Filled(f) = count_write
    <3>1. CASE video_open
      BY <1>3, <3>1 DEF WriteVideoFile, FileInv
    <3>2. CASE ~video_open
      <4>1. f = file_no + 1 /\ (f = 1 <=> file_no = 0)
        BY <1>1, <1>3, <3>2 DEF WriteVideoFile
      <4>2. InFile(f) = {}
        BY <1>1, <4>1 DEF InFile
      <4>3. Cardinality(InFile(f)) = 0 /\ Cardinality(unwritten) \in Nat
        BY <4>2, FS_EmptySet, FilesAreFinite
      <4> QED
        BY <3>2, <4>1, <4>3 DEF FileInv, Filled
    <3> QED
      BY <3>1, <3>2
  <2>4. UNCHANGED unwritten
    BY DEF WriteVideoFile, fileVars
  <2>5. Filled(f)' = Filled(f) + 1
    <3>1. /\ Cardinality(InFile(f)) \in Nat /\ Cardinality(unwritten) \in Nat
      BY FilesAreFinite
    <3> QED
      BY <2>2, <2>4, <3>1 DEF Filled
  <2> QED
    BY <1>3, <2>3, <2>5
<1>4. CASE f # file_no'
  <2>1. InFile(f)' = InFile(f)
    <3>1. \A i \in 1..n : i \in InFile(f)' <=> i \in InFile(f)
      BY <1>1, <1>4 DEF InFile
    <3>2. InFile(f)' \subseteq 1..n /\ InFile(f) \subseteq 1..n
      BY <1>1 DEF InFile
    <3> QED
      BY <3>1, <3>2
  <2>2. UNCHANGED unwritten
    BY DEF WriteVideoFile, fileVars
  <2> QED
    BY <1>4, <2>1, <2>2 DEF Filled
<1> QED
  BY <1>3, <1>4

\* Types of the files, the header and the counter of packets.
LEMMA FilesStep ==
  ASSUME IInv, [Next]_vars
  PROVE  FilesOK' /\ HeaderInv' /\ FileInv'
<1> USE DEF fileVars, streamVars
<1>0. /\ TypeOK /\ HandInv /\ OrderInv /\ SentInv /\ RecordingMatchesStream /\ HeaderInv
      /\ FileInv /\ FilesOK /\ PacketsPerFile \in Nat \ {0} /\ MaxErrors \in Nat
      /\ MaxFrames \in Nat /\ Frames \subseteq Nat
  BY Assumption DEF IInv, TypeOK, FilesOK, Frames
<1>1. Sent \in Seq(Nat) /\ Range(Sent) \subseteq Nat
  BY <1>0, PartsAreNumbers, RangeOf
<1>2. CASE WriteVideoFile
  <2>1. /\ epc = "write" /\ epc' = "drain" /\ pkt \in Frames
        /\ header_kept' = TRUE /\ UNCHANGED <<unwritten, errors>>
    BY <1>0, <1>2 DEF WriteVideoFile, HandInv
  <2>2. file_no + 1 <= MaxFrames
    BY <1>0, <1>2, FewFiles
  <2>3. /\ file_no' \in 1..MaxFrames /\ file_no \in Nat
        /\ writes' \in Seq([file : 1..file_no', packet : Frames, headed : BOOLEAN])
        /\ Len(writes') = Len(writes) + 1 /\ Len(writes) \in Nat
        /\ \A i \in 1..Len(writes) : writes'[i] = writes[i]
        /\ writes'[Len(writes) + 1]
             = [file |-> file_no', packet |-> pkt, headed |-> header_kept]
    BY <1>0, <1>2, <2>2, WritesGrow
  <2>4. /\ count_write \in 0..PacketsPerFile
        /\ count_write' = IF FileIsFull THEN 0 ELSE count_write + 1
        /\ FileIsFull <=> count_write = PacketsPerFile
    BY <1>0, <1>2 DEF WriteVideoFile, Counted, FileIsFull, FilesOK
  <2>4a. video_open' <=> ~FileIsFull
    BY <1>2, Zenon DEF WriteVideoFile
  <2>5. FilesOK'
    <3>1. video_open' \in BOOLEAN /\ header_kept' \in BOOLEAN
      BY <1>2, Zenon DEF WriteVideoFile
    <3> QED
      BY <1>0, <2>1, <2>3, <2>4, <3>1 DEF FilesOK
  <2>6. Sent' = Sent /\ Sent # << >>
    <3>1. pkt \in Range(Sent)
      BY <1>0, <2>1 DEF SentInv, NotYetWritten
    <3>2. Sent # << >>
      BY <1>1, <3>1, RangeOf
    <3> QED
      BY <1>0, <1>2, <2>1, <3>2, SentIs DEF SendPushes
  <2>7. HeaderInv'
    <3>1. header_kept \/ pkt = Sent[1]
      <4>1. ~header_kept => Sent = <<pkt>>
        BY <1>0, <2>1 DEF HeaderInv, InHand
      <4> QED
        BY <4>1
    <3>2. \A i \in 1..Len(writes') : writes'[i].headed \/ writes'[i].packet = Sent[1]
      <4> SUFFICES ASSUME NEW i \in 1..Len(writes')
                   PROVE  writes'[i].headed \/ writes'[i].packet = Sent[1]
        OBVIOUS
      <4>1. CASE i \in 1..Len(writes)
        BY <1>0, <2>3, <4>1 DEF HeaderInv
      <4>2. CASE i = Len(writes) + 1
        BY <2>3, <3>1, <4>2
      <4> QED
        BY <2>3, <4>1, <4>2
    <3> QED
      BY <2>1, <2>6, <3>2 DEF HeaderInv
  <2>8. file_no <= file_no' /\ file_no' <= file_no + 1 /\ (video_open => file_no' = file_no)
        /\ (~video_open => file_no' = file_no + 1)
    BY <1>2, <2>3 DEF WriteVideoFile
  <2>9. Filled(file_no)' = count_write + 1
    BY <1>0, <1>2, <2>2, <2>3, FillsOne
  <2>10. FileInv'
    <3>1. file_no' <= Len(writes')
      BY <1>0, <2>3, <2>8 DEF FileInv
    <3>2. video_open' => file_no' > 0 /\ count_write' = Filled(file_no)'
      BY <2>3, <2>4, <2>4a, <2>9
    <3>3. ~video_open' => count_write' = 0 /\ file_no' # 0
      BY <2>3, <2>4, <2>4a
    <3>4. ASSUME NEW f \in 1..file_no', f < file_no' \/ ~video_open'
          PROVE  Filled(f)' = PacketsPerFile + 1
      <4>1. CASE f = file_no'
        <5>1. Filled(f)' = count_write + 1
          BY <1>0, <1>2, <2>2, <4>1, FillsOne
        <5>2. FileIsFull
          BY <2>3, <2>4a, <3>4, <4>1
        <5> QED
          BY <2>4, <5>1, <5>2
      <4>2. CASE f # file_no'
        <5>1. Filled(f)' = Filled(f)
          BY <1>0, <1>2, <2>2, <4>2, FillsOne
        <5>2. f \in 1..file_no /\ (f < file_no \/ ~video_open)
          BY <2>3, <2>8, <4>2
        <5> QED
          BY <1>0, <5>1, <5>2 DEF FileInv
      <4> QED
        BY <4>1, <4>2
    <3> QED
      BY <3>1, <3>2, <3>3, <3>4 DEF FileInv
  <2> QED
    BY <2>5, <2>7, <2>10
<1>3. CASE OpenFails
  <2>1. /\ epc = "write" /\ ~video_open /\ pkt \in Frames /\ errors' \in 0..MaxErrors
        /\ UNCHANGED <<video_open, writes, file_no>>
    BY <1>0, <1>3 DEF OpenFails, HandInv, FilesOK
  <2>2. Sent' = Sent
    BY <1>0, <2>1, SentIs DEF SendPushes
  <2>3. CASE header_kept
    <3>1. epc' = "crashed" /\ UNCHANGED <<header_kept, count_write, unwritten>>
      BY <1>3, <2>3 DEF OpenFails
    <3>2. FilesOK'
      BY <1>0, <2>1, <3>1 DEF FilesOK
    <3>3. HeaderInv'
      BY <1>0, <2>1, <2>2, <2>3, <3>1 DEF HeaderInv
    <3>4. FileInv'
      BY <1>0, <2>1, <3>1 DEF FileInv, Filled, InFile
    <3> QED
      BY <3>2, <3>3, <3>4
  <2>4. CASE ~header_kept
    <3>1. /\ epc' = "drain" /\ header_kept' = TRUE /\ unwritten' = {pkt}
          /\ count_write' = count_write + 1
      BY <1>3, <2>4 DEF OpenFails, Counted
    <3>2. /\ writes = << >> /\ unwritten = {} /\ Sent = <<pkt>>
      BY <1>0, <2>1, <2>4 DEF HeaderInv, InHand
    <3>3. file_no = 0 /\ count_write = 0
      <4>1. file_no = 0
        BY <1>0, <3>2 DEF FileInv, FilesOK
      <4>2. Cardinality(unwritten) = 0
        BY <3>2, FS_EmptySet
      <4> QED
        BY <1>0, <2>1, <4>1, <4>2 DEF FileInv
    <3>4. FilesOK'
      BY <1>0, <2>1, <3>1, <3>3 DEF FilesOK
    <3>5. HeaderInv'
      BY <2>1, <2>2, <3>1, <3>2 DEF HeaderInv
    <3>6. FileInv'
      <4>1. Cardinality(unwritten') = 1
        BY <3>1, FS_Singleton
      <4>2. Len(writes') = 0
        BY <2>1, <3>2
      <4> QED
        BY <2>1, <3>1, <3>3, <4>1, <4>2 DEF FileInv
    <3> QED
      BY <3>4, <3>5, <3>6
  <2> QED
    BY <2>3, <2>4
<1>4. CASE ~WriteVideoFile /\ ~OpenFails
  <2>1. /\ UNCHANGED fileVars
        /\ errors' \in 0..MaxErrors
        /\ \/ UNCHANGED <<epc, pkt>>
           \/ epc \notin {"write", "crashed"} /\ epc' \notin {"write", "crashed"}
           \/ SendPushes
    <3>1. CASE MainSends \/ Streamer \/ UNCHANGED vars
      BY <1>0, <3>1 DEF MainSends, Streamer, StreamPops, StreamCopies, vars, FilesOK
    <3>2. CASE SendFrameFails
      BY <1>0, <3>2 DEF SendFrameFails, FilesOK
    <3>3. CASE SendPushes
      BY <1>0, <3>3 DEF SendPushes, FilesOK
    <3>4. CASE EncoderPops \/ SendFrame \/ ReceivePacket \/ DrainEnds \/ RefPacket \/ SendSeesRoom
      BY <1>0, <3>4 DEF EncoderPops, SendFrame, ReceivePacket, DrainEnds, RefPacket,
                        SendSeesRoom, FilesOK
    <3> QED
      BY <1>4, <3>1, <3>2, <3>3, <3>4 DEF Next, Encoder
  <2>2. FilesOK' /\ FileInv'
    BY <1>0, <2>1 DEF FilesOK, FileInv, Filled, InFile
  <2>3. CASE SendPushes
    <3>1. /\ epc = "push" /\ epc' = "write" /\ UNCHANGED pkt /\ pkt \in Nat
          /\ Sent' = Sent \o <<pkt>>
      BY <1>0, <2>3, SentIs DEF SendPushes, HandInv
    <3>2. /\ Sent' # << >>
          /\ Sent # << >> => Sent'[1] = Sent[1]
          /\ Sent = << >> => Sent' = <<pkt>>
      <4>1. Append(Sent, pkt) = Sent \o <<pkt>>
        BY <1>1, <3>1, AppendIsConcat
      <4>2. /\ Append(Sent, pkt) # << >> /\ Len(Sent) \in Nat
            /\ \A i \in 1..Len(Sent) : Append(Sent, pkt)[i] = Sent[i]
        BY <1>1, <3>1, AppendProperties
      <4>3. Sent # << >> => 1 \in 1..Len(Sent)
        BY <1>1, EmptySeq
      <4>4. Sent = << >> => Append(Sent, pkt) = <<pkt>>
        OBVIOUS
      <4> QED
        BY <3>1, <4>1, <4>2, <4>3, <4>4
    <3>3. CASE header_kept
      <4>1. Sent # << >> /\ Sent'[1] = Sent[1] /\ Sent' # << >>
        BY <1>0, <3>2, <3>3 DEF HeaderInv
      <4>2. UNCHANGED <<header_kept, writes>>
        BY <2>1
      <4> QED
        BY <1>0, <2>2, <3>3, <4>1, <4>2 DEF HeaderInv
    <3>4. CASE ~header_kept
      <4>1. Sent = << >> /\ writes = << >> /\ unwritten = {}
        BY <1>0, <3>1, <3>4 DEF HeaderInv, InHand
      <4>2. Len(writes') = 0
        BY <2>1, <4>1
      <4> QED
        BY <2>1, <2>2, <3>1, <3>2, <3>4, <4>1, <4>2 DEF HeaderInv, InHand
    <3> QED
      BY <2>2, <3>3, <3>4
  <2>4. CASE ~SendPushes
    <3>1. Sent' = Sent
      BY <1>0, <2>4, SentIs
    <3>2. UNCHANGED <<header_kept, writes, unwritten>>
      BY <2>1
    <3>3. CASE header_kept
      BY <1>0, <2>2, <3>1, <3>2, <3>3 DEF HeaderInv
    <3>4. CASE ~header_kept
      <4>1. epc' # "crashed" /\ InHand(epc' = "write", pkt') = InHand(epc = "write", pkt)
        BY <1>0, <2>1, <2>4, <3>4 DEF HeaderInv, InHand
      <4> QED
        BY <1>0, <2>2, <3>1, <3>2, <3>4, <4>1 DEF HeaderInv
    <3> QED
      BY <3>3, <3>4
  <2> QED
    BY <2>3, <2>4
<1> QED
  BY <1>2, <1>3, <1>4

-----------------------------------------------------------------------------
(* The references.                                                         *)

\* A queue holds its front and the rest of it.
LEMMA FrontAndRest ==
  ASSUME NEW s \in Seq(Frames), s # << >>
  PROVE  Range(s) = {Head(s)} \union Range(Tail(s))
<1>1. /\ Len(s) \in Nat /\ Len(s) > 0 /\ Tail(s) \in Seq(Frames)
      /\ Len(Tail(s)) = Len(s) - 1 /\ Head(s) = s[1]
      /\ \A i \in 1..(Len(s) - 1) : Tail(s)[i] = s[i + 1]
  BY HeadTailProperties, EmptySeq
<1>2. ASSUME NEW a \in Range(s)
      PROVE  a \in {Head(s)} \union Range(Tail(s))
  <2>1. PICK i \in 1..Len(s) : s[i] = a
    BY RangeOf
  <2>2. CASE i = 1
    BY <1>1, <2>1, <2>2
  <2>3. CASE i # 1
    <3>1. i - 1 \in 1..Len(Tail(s)) /\ (i - 1) + 1 = i
      BY <1>1, <2>3
    <3>2. Tail(s)[i - 1] = a
      BY <1>1, <2>1, <3>1
    <3> QED
      BY <1>1, <3>1, <3>2, RangeOf
  <2> QED
    BY <2>2, <2>3
<1>3. ASSUME NEW a \in Range(Tail(s))
      PROVE  a \in Range(s)
  <2>1. PICK i \in 1..Len(Tail(s)) : Tail(s)[i] = a
    BY <1>1, RangeOf
  <2>2. i + 1 \in 1..Len(s) /\ s[i + 1] = a
    BY <1>1, <2>1
  <2> QED
    BY <2>2, RangeOf
<1>4. Head(s) \in Range(s)
  BY <1>1, RangeOf
<1> QED
  BY <1>2, <1>3, <1>4

\* Every step that hands a packet on takes or gives back as many references.
LEMMA ReferencesStep ==
  ASSUME IInv, [Next]_vars, QueueInv, QueueInv', HandInv', ThreadsOK'
  PROVE  ReferencesBalance'
<1> USE DEF streamVars
<1> DEFINE One(b) == IF b THEN 1 ELSE 0
           Q == Range(avpacket_out.messages)
<1>0. /\ TypeOK /\ HandInv /\ OrderInv /\ SentInv /\ ReferencesBalance
      /\ Frames \subseteq Nat /\ NoMessage \notin Frames
      /\ avpacket_out.messages \in Seq(Frames) /\ refs \in [Frames -> 0..2]
      /\ inside \in Seq(Frames)
  BY Assumption DEF IInv, TypeOK, IsQueue, Frames
<1>1. \A n \in Frames :
        refs[n] = One(n = pkt) + One(n = copying) + One(epc \in {"send", "push"} /\ n = pkt)
                  + One(n \in Q)
  BY <1>0, FewReferences
<1>2. \A n \in Frames :
        Holders(n)' = One(n = pkt') + One(n = copying')
                      + One(epc' \in {"send", "push"} /\ n = pkt') + One(n \in Q')
  BY DEF QueueInv, Holders
<1> SUFFICES ASSUME NEW n \in Frames
             PROVE  refs'[n] = Holders(n)'
  BY DEF ReferencesBalance
<1>3. ASSUME UNCHANGED <<refs, pkt, copying, avpacket_out>>,
             (epc' \in {"send", "push"}) = (epc \in {"send", "push"}) \/ pkt \notin Frames
      PROVE  refs'[n] = Holders(n)'
  BY <1>1, <1>2, <1>3
<1>4. CASE MainSends \/ EncoderPops \/ SendFrame \/ SendFrameFails \/ DrainEnds \/ SendSeesRoom
  <2>1. /\ UNCHANGED <<refs, pkt, copying, avpacket_out>>
        /\ epc' \in {"send", "push"} <=> epc \in {"send", "push"}
    BY <1>4 DEF MainSends, EncoderPops, SendFrame, SendFrameFails, DrainEnds, SendSeesRoom
  <2> QED
    BY <1>3, <2>1
<1>5. CASE ReceivePacket
  <2>1. /\ inside # << >> /\ pkt' = Head(inside) /\ pkt' \in Frames /\ pkt = NoMessage
        /\ refs' = [refs EXCEPT ![pkt'] = 1] /\ epc' = "ref"
        /\ UNCHANGED <<copying, avpacket_out>>
    BY <1>0, <1>5, HeadTailProperties DEF ReceivePacket, HandInv
  <2>2. pkt' # copying /\ pkt' \notin Q
    BY <1>0, <2>1, FewReferences
  <2> QED
    BY <1>0, <1>1, <1>2, <2>1, <2>2
<1>6. CASE RefPacket
  <2>1. /\ pkt \in Frames /\ refs' = [refs EXCEPT ![pkt] = @ + 1]
        /\ epc = "ref" /\ epc' = "send" /\ UNCHANGED <<pkt, copying, avpacket_out>>
    BY <1>0, <1>6 DEF RefPacket, Referenced, HandInv
  <2> QED
    BY <1>0, <1>1, <1>2, <2>1
<1>7. CASE SendPushes
  <2>1. /\ pkt \in Frames /\ epc = "push" /\ epc' = "write"
        /\ avpacket_out'.messages = Append(avpacket_out.messages, pkt)
        /\ UNCHANGED <<pkt, copying, refs>>
    BY <1>0, <1>7 DEF SendPushes, Push, HandInv, TypeOK, IsQueue
  <2>2. Q' = Q \union {pkt}
    <3> DEFINE m == avpacket_out.messages
    <3>1. m \in Seq(Nat) /\ pkt \in Nat /\ Append(m, pkt) = m \o <<pkt>>
      BY <1>0, <2>1, SeqMonotonic, AppendIsConcat
    <3>2. Range(m \o <<pkt>>) = Range(m) \union {pkt}
      BY <3>1, OneMore
    <3> QED
      BY <2>1, <3>1, <3>2
  <2>3. pkt \notin Q
    BY <1>0, <2>1, FewReferences
  <2> QED
    BY <1>1, <1>2, <2>1, <2>2, <2>3
<1>8. CASE WriteVideoFile \/ OpenFails
  <2>1. /\ epc = "write" /\ pkt \in Frames /\ UNCHANGED <<copying, avpacket_out>>
        /\ \/ epc' = "drain" /\ pkt' = NoMessage /\ refs' = [refs EXCEPT ![pkt] = @ - 1]
           \/ epc' = "crashed" /\ UNCHANGED <<pkt, refs>>
    BY <1>0, <1>8 DEF WriteVideoFile, OpenFails, Unreferenced, HandInv
  <2>2. UNCHANGED Q /\ epc' \notin {"send", "push"} /\ epc \notin {"send", "push"}
    BY <2>1
  <2>3. CASE epc' = "crashed"
    BY <1>1, <1>2, <2>1, <2>2, <2>3
  <2>4. CASE epc' # "crashed"
    <3>1. /\ pkt' = NoMessage /\ n # pkt'
          /\ refs'[n] = IF n = pkt THEN refs[n] - 1 ELSE refs[n]
      BY <1>0, <2>1, <2>4
    <3>2. CASE n = pkt
      <4>1. refs'[n] = refs[n] - 1
        BY <3>1, <3>2
      <4>2. refs[n] = 1 + One(n = copying) + 0 + One(n \in Q)
        BY <1>1, <2>2, <3>2
      <4>3. Holders(n)' = 0 + One(n = copying) + 0 + One(n \in Q)
        BY <1>2, <2>1, <2>2, <3>1
      <4> QED
        BY <4>1, <4>2, <4>3
    <3>3. CASE n # pkt
      <4>1. refs'[n] = refs[n]
        BY <3>1, <3>3
      <4>2. refs[n] = 0 + One(n = copying) + 0 + One(n \in Q)
        BY <1>1, <2>2, <3>3
      <4>3. Holders(n)' = 0 + One(n = copying) + 0 + One(n \in Q)
        BY <1>2, <2>1, <2>2, <3>1
      <4> QED
        BY <4>1, <4>2, <4>3
    <3> QED
      BY <3>2, <3>3
  <2> QED
    BY <2>3, <2>4
<1>9. CASE StreamPops
  <2>1. /\ avpacket_out.messages # << >> /\ copying' = Head(avpacket_out.messages)
        /\ avpacket_out'.messages = Tail(avpacket_out.messages)
        /\ spc' = "copy" /\ copying = NoMessage
        /\ UNCHANGED <<refs, epc, pkt>>
    BY <1>0, <1>9 DEF StreamPops, Front, Pop, GetSize, HandInv
  <2>2. Q = {copying'} \union Q' /\ copying' \notin Q'
    BY <1>0, <2>1, FrontAndRest DEF QueueInv
  <2>3. One(n = copying) = 0
    BY <1>0, <2>1
  <2>4. One(n \in Q) = One(n = copying') + One(n \in Q')
    BY <2>2
  <2>5. One(n = pkt') = One(n = pkt) /\ refs'[n] = refs[n]
        /\ One(epc' \in {"send", "push"} /\ n = pkt') = One(epc \in {"send", "push"} /\ n = pkt)
    BY <2>1
  <2> QED
    BY <1>1, <1>2, <2>3, <2>4, <2>5
<1>10. CASE StreamCopies
  <2>1. /\ copying \in Frames /\ copying' = NoMessage
        /\ refs' = [refs EXCEPT ![copying] = @ - 1]
        /\ UNCHANGED <<avpacket_out, epc, pkt>>
    BY <1>0, <1>10 DEF StreamCopies, Unreferenced, HandInv
  <2> QED
    BY <1>0, <1>1, <1>2, <2>1
<1>11. CASE UNCHANGED vars
  BY <1>3, <1>11 DEF vars
<1> QED
  BY <1>4, <1>5, <1>6, <1>7, <1>8, <1>9, <1>10, <1>11 DEF Next, Encoder, Streamer

-----------------------------------------------------------------------------
(* The theorems.                                                           *)

\* Initially nothing is held, sent or written.
LEMMA InitInv == Init => IInv
<1> SUFFICES ASSUME Init
             PROVE  IInv
  OBVIOUS
<1> USE DEF Init
<1>0. MaxFrames \in Nat /\ PacketsPerFile \in Nat \ {0} /\ MaxErrors \in Nat
  BY Assumption
<1>1. << >> \in Seq(Frames) /\ Len(<< >>) = 0
  OBVIOUS
<1>2. TypeOK
  <2>1. IsQueue(image_out) /\ IsQueue(avpacket_out)
    BY <1>0, <1>1 DEF IsQueue, EmptyVBuffer
  <2>2. refs \in [Frames -> 0..2]
    OBVIOUS
  <2>3. writes \in Seq([file : 1..file_no, packet : Frames, headed : BOOLEAN])
    OBVIOUS
  <2>4. inside \in Seq(Frames) /\ streamed \in Seq(Frames)
    BY <1>1
  <2>5. count_write \in 0..PacketsPerFile /\ file_no \in 0..MaxFrames /\ errors \in 0..MaxErrors
    BY <1>0
  <2>6. /\ {image, pkt, copying} \subseteq Frames \union {NoMessage}
        /\ lost \subseteq Frames /\ unwritten \subseteq Frames
        /\ video_open \in BOOLEAN /\ header_kept \in BOOLEAN
    OBVIOUS
  <2>7. epc = "pop" /\ spc = "pop"
    OBVIOUS
  <2> QED
    BY <2>1, <2>2, <2>3, <2>4, <2>5, <2>6, <2>7 DEF TypeOK
<1>3. HandInv
  BY DEF HandInv
<1>4. Sent = << >> /\ OnTheirWay = << >> /\ Recorded = << >> /\ NotYetWritten = {}
  BY DEF Sent, OnTheirWay, Recorded, InHand, EmptyVBuffer, NotYetWritten
<1>5. Increasing(<< >>) /\ Range(<< >>) = {} /\ Arrived = 0
  <2>1. 0 \in Nat
    OBVIOUS
  <2>2. Increasing(<< >>) /\ Range(<< >>) = {}
    BY <2>1, SmallSequences
  <2> QED
    BY <1>1, <2>2 DEF Arrived, EmptyVBuffer, GetSize
<1>6. OrderInv /\ SentInv /\ RecordingMatchesStream
  BY <1>0, <1>1, <1>4, <1>5
     DEF OrderInv, FramesAccounted, SentInv, RecordingMatchesStream, EmptyVBuffer
<1>7. ReferencesBalance
  <2>1. QueueInv
    BY <1>2, <1>3, <1>6, QueueIs
  <2>2. avpacket_out.messages = << >> /\ Range(<< >>) = {}
    BY <1>5 DEF EmptyVBuffer
  <2>3. NoMessage \notin Frames
    BY Assumption DEF Frames
  <2> QED
    BY <2>1, <2>2, <2>3 DEF ReferencesBalance, Holders, QueueInv
<1>8. HeaderInv
  BY <1>1, <1>4 DEF HeaderInv, InHand
<1>9. FileInv
  BY <1>0, <1>1, FS_EmptySet DEF FileInv
<1> QED
  BY <1>2, <1>3, <1>6, <1>7, <1>8, <1>9 DEF IInv

\* Every step keeps the invariant.
LEMMA NextInv == IInv /\ [Next]_vars => IInv'
<1> SUFFICES ASSUME IInv, [Next]_vars
             PROVE  IInv'
  OBVIOUS
<1>1. ThreadsOK' /\ FilesOK' /\ HeaderInv' /\ FileInv'
  BY ThreadsStep, FilesStep
<1>2. TypeOK' /\ HandInv'
  BY <1>1 DEF TypeOK, ThreadsOK, FilesOK
<1>3. OrderInv'
  BY OrderStep DEF IInv
<1>4. RecordingMatchesStream' /\ SentInv'
  BY <1>1, RecordingStep DEF IInv, SentInv, ThreadsOK
<1>5. QueueInv /\ QueueInv'
  <2>1. QueueInv
    BY QueueIs DEF IInv
  <2>2. QueueInv'
    BY <1>2, <1>3, QueueIs, PTL
  <2> QED
    BY <2>1, <2>2
<1>6. ReferencesBalance'
  BY <1>1, <1>2, <1>5, ReferencesStep
<1> QED
  BY <1>1, <1>2, <1>3, <1>4, <1>6 DEF IInv

\* The strengthened invariant is an invariant of the specification.
THEOREM Invariance == Spec => []IInv
  BY InitInv, NextInv, PTL DEF Spec

\* Every variable keeps its type: the references to a packet stay between none
\* and two, and the counter of a file stays within the length of a file.
THEOREM TypeCorrect == Spec => []TypeOK
<1>1. IInv => TypeOK
  BY DEF IInv
<1> QED
  BY <1>1, Invariance, PTL

\* Every frame main sent is streamed, on its way in order, or was lost with an
\* encoder that failed.
THEOREM NoFrameGoesMissing == Spec => []FramesAccounted
<1>1. IInv => FramesAccounted
  BY DEF IInv, OrderInv
<1> QED
  BY <1>1, Invariance, PTL

\* The files hold what was streamed, in that order, but for a packet that
\* found no file.
THEOREM RecordingIsFaithful == Spec => []RecordingMatchesStream
<1>1. IInv => RecordingMatchesStream
  BY DEF IInv
<1> QED
  BY <1>1, Invariance, PTL

\* A packet has exactly as many references as the two threads hold of it: none
\* is freed while in use, none leaks.
THEOREM ReferencesAreBalanced == Spec => []ReferencesBalance
<1>1. IInv => ReferencesBalance
  BY DEF IInv
<1> QED
  BY <1>1, Invariance, PTL

\* Every file but the open one is full, and every file can be played.
THEOREM FilesAreComplete == Spec => []FilesComplete
<1>1. IInv => FilesComplete
  BY DEF IInv, HeaderInv, FileInv, Filled, FilesComplete, EveryFileHasHeader, FilesFilled
<1> QED
  BY <1>1, Invariance, PTL
=============================================================================
