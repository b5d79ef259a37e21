---------------------------- MODULE FrameStream ----------------------------
(***************************************************************************)
(* What the frame pipeline promises, without threads, locks or buffers: a  *)
(* stream of consecutive frames, of which a bounded window is available;   *)
(* a display that consumes them one by one but always leaves one frame for *)
(* the detectors, and withdraws the reports on the frame it has consumed;  *)
(* and detectors that file their reports frame by frame, never go back,    *)
(* never report twice on a frame and are at most one inference ahead of    *)
(* the frames produced.                                                    *)
(***************************************************************************)
EXTENDS Naturals

CONSTANTS Detectors, MaxSize, MaxBatch

VARIABLES produced,  \* frames made available so far
          consumed,  \* frames taken by the display so far
          frontier,  \* per detector: the first frame it may still report on
          reports    \* who has reported on which frame, as long as it is filed

vars == <<produced, consumed, frontier, reports>>

Init ==
  /\ produced = 0
  /\ consumed = 0
  /\ frontier = [k \in Detectors |-> 0]
  /\ reports = {}

Produce ==
  /\ produced - consumed < MaxSize
  /\ produced' = produced + 1
  /\ UNCHANGED <<consumed, frontier, reports>>

Consume ==
  /\ produced - consumed >= 2
  /\ consumed' = consumed + 1
  /\ UNCHANGED <<produced, frontier, reports>>

\* A detector has nothing to say on some frames.
Advance(k) == \E f \in frontier[k] + 1 .. produced + MaxBatch - 1 :
  /\ frontier' = [frontier EXCEPT ![k] = f]
  /\ UNCHANGED <<produced, consumed, reports>>

\* It reports on the frame at its frontier, which it then leaves behind.
Report(k) ==
  /\ frontier[k] + 1 <= produced + MaxBatch - 1
  /\ frontier' = [frontier EXCEPT ![k] = frontier[k] + 1]
  /\ reports' = reports \union {<<k, frontier[k]>>}
  /\ UNCHANGED <<produced, consumed>>

\* The reports on the frame consumed last, or those on the first frame, which
\* go when too many are filed.
Withdraw == \E t \in 0..consumed :
  /\ t = 0 \/ t + 1 = consumed
  /\ reports' = {r \in reports : r[2] # t}
  /\ UNCHANGED <<produced, consumed, frontier>>

Next ==
  \/ Produce \/ Consume \/ Withdraw
  \/ \E k \in Detectors : Advance(k) \/ Report(k)

Spec == Init /\ [][Next]_vars
=============================================================================
