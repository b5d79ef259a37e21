--------------------------- MODULE TriggerChannel ---------------------------
(***************************************************************************)
(* What AddTriggerEvent promises to the code that posts a callback and     *)
(* what the event loop owes to a callback it has taken over: the callbacks *)
(* run one at a time, in the order they were taken over, each once, and    *)
(* all of them unless the loop is shut down.  The specification the ring   *)
(* buffer and the wake-up pipe of TaskScheduler implement.                 *)
(***************************************************************************)
EXTENDS Naturals, Sequences

CONSTANTS Events, Capacity

VARIABLES
  waiting,   \* callbacks taken over, in order
  ran,       \* callbacks that have begun to run, in order
  closed     \* the loop has ended

vars == <<waiting, ran, closed>>

Init == waiting = << >> /\ ran = << >> /\ closed = FALSE

Post(e) ==
  /\ Len(waiting) < Capacity
  /\ waiting' = Append(waiting, e)
  /\ UNCHANGED <<ran, closed>>

Run ==
  /\ ~closed
  /\ waiting # << >>
  /\ ran' = Append(ran, Head(waiting))
  /\ waiting' = Tail(waiting)
  /\ UNCHANGED closed

Close == closed' = TRUE /\ UNCHANGED <<waiting, ran>>

Next == Run \/ Close \/ \E e \in Events : Post(e)

Safety == Init /\ [][Next]_vars

Spec == Safety /\ WF_vars(Run)
=============================================================================
