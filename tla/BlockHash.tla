----------------------------- MODULE BlockHash -----------------------------
(***************************************************************************)
(* The two hash functions of the libraries, SHA-1 (sha1.cpp) and MD5       *)
(* (md5.hpp): how a message that is handed over in any pieces is cut into  *)
(* blocks, counted and padded.  The compression of one block is left       *)
(* abstract: a digest stands for the sequence of blocks that went into it. *)
(* The sizes are scaled: a block has Block bytes (64), of which the last   *)
(* two hold the two words of the length (8 bytes), and a word counts up to *)
(* Word bits (2^32).                                                       *)
(***************************************************************************)
EXTENDS Integers, Sequences, SequencesExt

CONSTANTS Block, Word

\* The offset in a block is taken from the low word of the length.
ASSUME HashAssumption ==
  Block \in Nat /\ Block > 2 /\ Word \in Nat /\ Word > 0 /\ Word % (8 * Block) = 0

Pad  == -1   \* 0x80
Zero == -2   \* 0

Zeros(n) == [i \in 1..n |-> Zero]

-----------------------------------------------------------------------------
(* SHA-1.  block is Message_Block up to Message_Block_Index, h what H      *)
(* stands for.                                                             *)

Sha1Reset ==
  [low |-> 0, high |-> 0, block |-> << >>, h |-> << >>, computed |-> FALSE,
   corrupted |-> FALSE]

ProcessMessageBlock(c) == [c EXCEPT !.h = Append(@, c.block), !.block = << >>]

\* One round of the loop in Input; the message is too long when both words
\* have come round.
InputByte(c, b) ==
  LET low  == (c.low + 8) % Word
      high == IF low = 0 THEN (c.high + 1) % Word ELSE c.high
      d    == [c EXCEPT !.low = low, !.high = high, !.block = Append(@, b),
                        !.corrupted = low = 0 /\ high = 0]
  IN  IF c.corrupted THEN c ELSE IF Len(d.block) = Block THEN ProcessMessageBlock(d) ELSE d

Sha1Input(c, bytes) ==
  LET In[i \in 0..Len(bytes)] == IF i = 0 THEN c ELSE InputByte(In[i - 1], bytes[i])
  IN  CASE bytes = << >> -> c
        [] bytes # << >> /\ (c.computed \/ c.corrupted) -> [c EXCEPT !.corrupted = TRUE]
        [] OTHER -> In[Len(bytes)]

\* Mutant: a block that has no byte left for the length is taken to have one.
PadMessageLate(c) ==
  LET one == Append(c.block, Pad)
      d   == IF Len(c.block) > Block - 2
             THEN ProcessMessageBlock([c EXCEPT !.block = one \o Zeros(Block - Len(one))])
             ELSE [c EXCEPT !.block = one]
  IN  ProcessMessageBlock(
        [d EXCEPT !.block = @ \o Zeros(Block - 2 - Len(@)) \o <<d.high, d.low>>])

PadMessage(c) ==
  LET one == Append(c.block, Pad)
      d   == IF Len(c.block) > Block - 3
             THEN ProcessMessageBlock([c EXCEPT !.block = one \o Zeros(Block - Len(one))])
             ELSE [c EXCEPT !.block = one]
  IN  ProcessMessageBlock(
        [d EXCEPT !.block = @ \o Zeros(Block - 2 - Len(@)) \o <<d.high, d.low>>])

\* The digest, << >> when the message is corrupted, and the object after it.
Sha1Result(c) ==
  LET d == IF c.computed THEN c ELSE [PadMessage(c) EXCEPT !.computed = TRUE]
  IN  IF c.corrupted THEN [digest |-> << >>, c |-> c] ELSE [digest |-> d.h, c |-> d]

-----------------------------------------------------------------------------
(* MD5.  The low word of the length comes first; buf keeps the bytes of    *)
(* earlier blocks, which are written over.                                 *)

Md5Init == [count |-> <<0, 0>>, buf |-> Zeros(Block), abcd |-> << >>]

Md5Process(c, bytes) == [c EXCEPT !.abcd = Append(@, bytes)]

\* memcpy of bytes to an offset in buf.
Overwrite(buf, offset, bytes) ==
  [i \in DOMAIN buf |-> IF i - offset \in DOMAIN bytes THEN bytes[i - offset] ELSE buf[i]]

\* The for loop of md5_append and the partial block that is left.
FullBlocks(c, bytes) ==
  LET n == Len(bytes) \div Block
      Go[i \in 0..n] ==
        IF i = 0 THEN c
        ELSE Md5Process(Go[i - 1], SubSeq(bytes, (i - 1) * Block + 1, i * Block))
  IN  [Go[n] EXCEPT !.buf = Overwrite(@, 0, SubSeq(bytes, n * Block + 1, Len(bytes)))]

Md5Append(c, bytes) ==
  LET n      == Len(bytes)
      offset == (c.count[1] \div 8) % Block
      low    == (c.count[1] + 8 * n) % Word
      high   == (c.count[2] + (8 * n) \div Word
                 + (IF low < (8 * n) % Word THEN 1 ELSE 0)) % Word
      d      == [c EXCEPT !.count = <<low, high>>]
      copy   == IF offset + n > Block THEN Block - offset ELSE n
      buf    == Overwrite(c.buf, offset, SubSeq(bytes, 1, copy))
  IN  CASE n = 0 -> c
        [] n > 0 /\ offset = 0 -> FullBlocks(d, bytes)
        [] n > 0 /\ offset > 0 /\ offset + copy < Block -> [d EXCEPT !.buf = buf]
        [] OTHER -> FullBlocks(Md5Process([d EXCEPT !.buf = buf], buf),
                               SubSeq(bytes, copy + 1, n))

Md5Finish(c) ==
  LET pad == <<Pad>> \o Zeros((Block - 3 - c.count[1] \div 8) % Block)
  IN  Md5Append(Md5Append(c, pad), c.count).abcd

-----------------------------------------------------------------------------
(* The standards: the message, a one, as few zeros as make the length fit, *)
(* and the length, cut into blocks.                                        *)

PaddedBlocks(bytes, length) ==
  LET n == Len(bytes)
      k == CHOOSE k \in 0..(Block - 1) : (n + 1 + k + 2) % Block = 0
      all == bytes \o <<Pad>> \o Zeros(k) \o length
  IN  [i \in 1..(Len(all) \div Block) |-> SubSeq(all, (i - 1) * Block + 1, i * Block)]

Sha1Standard(bytes) ==
  LET bits == 8 * Len(bytes)
  IN  IF bits >= Word * Word THEN << >>
      ELSE PaddedBlocks(bytes, <<bits \div Word, bits % Word>>)

Md5Standard(bytes) ==
  LET bits == 8 * Len(bytes)
  IN  PaddedBlocks(bytes, <<bits % Word, (bits \div Word) % Word>>)

-----------------------------------------------------------------------------
(* What is true of each message and each way of handing it over.           *)

Sha1Of(pieces) ==
  LET After[i \in 0..Len(pieces)] ==
        IF i = 0 THEN Sha1Reset ELSE Sha1Input(After[i - 1], pieces[i])
  IN  Sha1Result(After[Len(pieces)])

Md5Of(pieces) ==
  LET After[i \in 0..Len(pieces)] ==
        IF i = 0 THEN Md5Init ELSE Md5Append(After[i - 1], pieces[i])
  IN  Md5Finish(After[Len(pieces)])

\* The digest is that of the whole message, asking twice gives the same, and
\* adding to a finished message gives none.
HashesTheMessage(pieces) ==
  LET whole == FlattenSeq(pieces)
      r     == Sha1Of(pieces)
  IN  /\ r.digest = Sha1Standard(whole)
      /\ Sha1Result(r.c).digest = r.digest
      /\ Sha1Result(Sha1Input(r.c, <<1>>)).digest = << >>
      /\ Md5Of(pieces) = Md5Standard(whole)
=============================================================================
