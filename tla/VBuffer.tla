------------------------------ MODULE VBuffer ------------------------------
(***************************************************************************)
(* The class template vBuffer<T> of Buffer.h: a vector of messages from    *)
(* which only the front is removed, and a counter (_frame_offset) of the   *)
(* messages removed so far, so that a message keeps the absolute position  *)
(* at which it was sent.  A buffer is the record of the two.  Each         *)
(* operator is one lock section of the class; the methods that take the    *)
(* lock twice (send) are put together by the modules that own a buffer.    *)
(***************************************************************************)
EXTENDS Integers, Sequences

CONSTANTS SizeT,      \* the number of values of a size_t
          NoMessage   \* the default T{} that receive and pop return

EmptyVBuffer == [messages |-> << >>, offset |-> 0]

GetSize(b)       == Len(b.messages)
GetPopCounter(b) == b.offset

\* Mutant: a difference that stops at zero.
MinusSaturating(a, b) == IF a >= b THEN a - b ELSE 0

\* a - b on size_t operands: the difference wraps around below zero.
MinusSizeT(a, b) == IF a >= b THEN a - b ELSE SizeT + a - b

\* A copy of the message at an absolute position, which stays in the buffer.
Receive(b, at) ==
  LET index == MinusSizeT(at, b.offset)
  IN  IF index < GetSize(b) THEN b.messages[index + 1] ELSE NoMessage

\* Mutant: the front is read after it was erased.
FrontAfterErase(b) == IF GetSize(b) > 1 THEN b.messages[2] ELSE NoMessage

\* pop() answers the front and removes it.
Front(b) == IF GetSize(b) > 0 THEN Head(b.messages) ELSE NoMessage

\* Mutant: the message is erased but not counted.
PopUncounted(b) ==
  IF GetSize(b) > 0 THEN [b EXCEPT !.messages = Tail(@)] ELSE b

Pop(b) ==
  IF GetSize(b) > 0
  THEN [messages |-> Tail(b.messages), offset |-> b.offset + 1]
  ELSE b

\* send() spins while the buffer is full; the push is a later lock section.
IsFull(b, max_size) == GetSize(b) >= max_size

Push(b, msg) == [b EXCEPT !.messages = Append(@, msg)]
=============================================================================
