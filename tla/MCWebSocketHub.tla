--------------------------- MODULE MCWebSocketHub ---------------------------
(* Small instances of WebSocketHub for TLC. *)
EXTENDS WebSocketHub, SequencesExt

\* Users are connections that run the same code: they can be permuted.
Symmetry == Permutations(Users)

\* SendAll is what the loop over the messages does: send, one by one.
ASSUME SendAllIsTheLoop ==
  \A max \in 1..2, b \in 0..3, n \in 0..4 : b <= max + 1 =>
    LET buffer == [i \in 1..b |-> i]
        ms     == [i \in 1..n |-> b + i]
    IN  SendAll(buffer, max, ms) = FoldLeft(LAMBDA s, m : SendAlone(s, max, m), buffer, ms)
=============================================================================
