---------------------------- MODULE MCComponents ----------------------------
(***************************************************************************)
(* Small instances of the components that run by themselves: a face        *)
(* database of up to six faces, and bounded inputs of the algorithms, one  *)
(* state for each.                                                         *)
(***************************************************************************)
EXTENDS Components

Face(square, class, at) == [square |-> square, class |-> class, at |-> at]

\* A face at 7 is nearer to B's entry, but within the same threshold as A's.
MCEnrolled ==
  <<[at |-> 0, of |-> "unknown"], [at |-> 4, of |-> "A"], [at |-> 9, of |-> "B"]>>

\* Faces at both entries, in between, within the last threshold, and beyond it.
MCFrames ==
  {<<Face(TRUE, TRUE, x)>> : x \in {4, 7, 8, 15, 16}} \union
  {<<Face(TRUE, TRUE, 7), Face(TRUE, TRUE, 15)>>, <<Face(FALSE, TRUE, 7)>>,
   <<Face(TRUE, FALSE, 7), Face(TRUE, TRUE, 11)>>}

MCPackets ==
  [kind : {"packets"}, source : Sources, first : 1..25, second : {1, 12, 13}]

Message(n) == [i \in 1..n |-> i]

\* Messages of three pieces, and the sizes around which a word of the length
\* and then both come round.
MCHash ==
  {[kind |-> "hash", pieces |-> <<Message(a), Message(b), Message(c)>>] :
     a \in 0..6, b \in 0..9, c \in 0..5} \union
  {[kind |-> "hash", pieces |-> <<Message(42), Message(43), Message(c)>>] : c \in 40..44}

Long(n) == [i \in 1..n |-> (7 * i) % 256]
Frame(fin, opcode, n) ==
  [kind |-> "frame", fin |-> fin, opcode |-> opcode, payload |-> Long(n),
   key |-> <<17, 0, 255, 96>>, next |-> <<129, 128>>]

MCFrameInputs ==
  {Frame(fin, opcode, n) : fin \in {0, 1}, opcode \in {0, 1, 8, 9},
     n \in {0, 1, 3, 4, 5, 125, 126, 127, 128, 255, 256, 257, 1000}} \union
  {Frame(1, 1, n) : n \in {65535, 65536, 70000}}

MCText == [kind : {"text"}, bytes : BoundedSeq({0, 3, 63, 64, 170, 255}, 4)]

\* A browser's key, its line spelled in either way, among other lines.
KeyLines(key) ==
  {Header("Sec-WebSocket-Key", exact, spaces, key) : exact \in BOOLEAN, spaces \in 0..2}
OtherLines ==
  {Header("Host", TRUE, 1, <<7, 8>>), Header("Connection", TRUE, 1, <<9>>),
   Header("Other", FALSE, 0, <<1>>)}
MCHandshake ==
  UNION {{[kind |-> "handshake", key |-> key, lines |-> a \o <<k>> \o b] :
            a \in BoundedSeq(OtherLines, 2), b \in BoundedSeq(OtherLines, 1),
            k \in KeyLines(key)} :
         key \in {<<3>>, <<1, 2, 3, 4, 5>>}}

\* More classes than vBuffer starts with, and one.
MCClassFiles ==
  [ssd |-> [i \in 1..110 |-> <<"object", i>>], face |-> <<<<"face", 1>>>>]

MCSetUp == <<"ssd", "face">>

Ends == {<<0, 1>>, <<0, 8>>, <<1, 3>>, <<-1, 9>>, <<3, 8>>, <<7, 8>>, <<8, 8>>, <<-7, 15>>}
MCDetections ==
  {[kind |-> "detection", class |-> c, left |-> h[1], right |-> h[2],
    top |-> v[1], bottom |-> v[2]] :
     c \in {1, 2, 43, 110}, h \in Ends, v \in Ends}

MCInputs == MCPackets \union MCHash \union MCFrameInputs \union MCText
            \union MCHandshake \union MCDetections
=============================================================================
