-------------------------- MODULE MCFramePipeline --------------------------
(* Small instances of FramePipeline for TLC. *)
EXTENDS FramePipeline, TLC

\* The detectors run the same code: they can be permuted.
Symmetry == Permutations(Detectors)
=============================================================================
