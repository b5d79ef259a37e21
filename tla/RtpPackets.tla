----------------------------- MODULE RtpPackets -----------------------------
(***************************************************************************)
(* How a media source cuts a frame into RTP packets (the HandleFrame of    *)
(* H264Source, H265Source, VP8Source, AACSource and G711ASource), and how  *)
(* a receiver puts it together again.  A byte of a frame is its position;  *)
(* of the headers are kept the bits that mark the first and the last part. *)
(***************************************************************************)
EXTENDS Integers, Sequences, SequencesExt

CONSTANT MaxPayload   \* MAX_RTP_PAYLOAD_SIZE

\* A fragment carries the first bytes of the NAL unit in its header and needs
\* a longer one to say so; the header of an AAC frame has four bytes.
ASSUME PayloadAssumption == MaxPayload \in Nat /\ MaxPayload > 4

Bytes(first, last) == [i \in 1..(last - first + 1) |-> first + i - 1]

\* header: the bytes in front of the payload; nal: the bytes of the frame that
\* the header stands for; start, end: the S and E bits.
Packet(header, nal, payload, start, end, last) ==
  [header |-> header, nal |-> nal, payload |-> payload,
   start |-> start, end |-> end, last |-> last]

\* A frame that fits is a packet by itself.
Single(n) == <<Packet(0, << >>, Bytes(1, n), TRUE, TRUE, TRUE)>>

\* Mutant: the bytes of the NAL header are sent in the first payload as well.
FragmentAll(n, nal, header) ==
  LET chunk  == MaxPayload - header
      rounds == Min({k \in 0..n : n - k * chunk + header <= MaxPayload})
      Sent(k) == IF k <= rounds THEN k * chunk ELSE n
  IN  [i \in 1..(rounds + 1) |->
         Packet(header, Bytes(1, nal), Bytes(Sent(i - 1) + 1, Sent(i)),
                i = 1, i > rounds, i > rounds)]

\* The loops of H264Source and H265Source: the bytes of the NAL header go into
\* the header of every fragment, the rest into fragments of equal size, for as
\* many rounds as leave more than one can take.
Fragment(n, nal, header) ==
  LET chunk  == MaxPayload - header
      rounds == Min({k \in 0..n : n - (nal + k * chunk) + header <= MaxPayload})
      Sent(k) == IF k <= rounds THEN nal + k * chunk ELSE n
  IN  [i \in 1..(rounds + 1) |->
         Packet(header, Bytes(1, nal), Bytes(Sent(i - 1) + 1, Sent(i)),
                i = 1, i > rounds, i > rounds)]

H264Packets(n) == IF n <= MaxPayload THEN Single(n) ELSE Fragment(n, 1, 2)
H265Packets(n) == IF n <= MaxPayload THEN Single(n) ELSE Fragment(n, 2, 3)

\* The descriptor's byte comes on top of a full payload; only a payload that
\* is not full is marked as the last one.
VP8Packets(n) ==
  LET rounds  == Min({k \in 0..n : n <= k * MaxPayload})
      Full(k) == k * MaxPayload <= n
      Sent(k) == IF Full(k) THEN k * MaxPayload ELSE n
  IN  [i \in 1..rounds |->
         Packet(1, << >>, Bytes(Sent(i - 1) + 1, Sent(i)), i = 1, FALSE, ~Full(i))]

\* The four bytes of AU header carry the size; an ADTS header is stripped.
AACPackets(n, adts) ==
  IF n > MaxPayload - 4 THEN << >>
  ELSE <<Packet(4, << >>, Bytes(adts + 1, n), TRUE, TRUE, TRUE)>>

G711APackets(n) == IF n > MaxPayload THEN << >> ELSE Single(n)

-----------------------------------------------------------------------------
(* The receiver (external): packets up to the one that is marked are one   *)
(* frame; of fragments, the first gives the NAL header.                    *)

Receive(u, p) ==
  LET part == IF p.start THEN p.nal \o p.payload ELSE p.payload
  IN  IF p.last THEN [done |-> Append(u.done, u.part \o part), part |-> << >>]
      ELSE [done |-> u.done, part |-> u.part \o part]

Units(packets) ==
  LET After[i \in 0..Len(packets)] ==
        IF i = 0 THEN [done |-> << >>, part |-> << >>]
        ELSE Receive(After[i - 1], packets[i])
  IN  After[Len(packets)]

\* What goes out for two frames in a row, and the frames the receiver has then.
Reassembled(first, second) == Units(first \o second)
=============================================================================
