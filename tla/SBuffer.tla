------------------------------ MODULE SBuffer ------------------------------
(***************************************************************************)
(* The class template sBuffer<T> of Buffer.h: a vector of messages that is *)
(* read from the front.  When it holds more than max_size messages, send   *)
(* drops the oldest ones: a look at the size without the lock, the pop and *)
(* the push are three steps.                                               *)
(***************************************************************************)
EXTENDS Naturals, Sequences

\* while(getSize() > _max_size) pop();
TooMany(b, max_size) == Len(b) > max_size

\* pop() answers the message at index 0 and removes it; of an empty buffer it
\* answers an empty message.
DropOldest(b) == IF b = << >> THEN b ELSE Tail(b)

\* Mutant: the newest message is answered.
Newest(b, empty) == IF b = << >> THEN empty ELSE b[Len(b)]

Oldest(b, empty) == IF b = << >> THEN empty ELSE Head(b)

\* send() by the only thread that uses the buffer: one message at most is over.
SendAlone(b, max_size, msg) ==
  Append(IF TooMany(b, max_size) THEN DropOldest(b) ELSE b, msg)

\* The same for the messages of ms, one after the other: the last max_size + 1
\* stay.
SendAll(b, max_size, ms) ==
  LET all == b \o ms
  IN  IF Len(all) > max_size + 1 THEN SubSeq(all, Len(all) - max_size, Len(all)) ELSE all
=============================================================================
