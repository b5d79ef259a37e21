-------------------------- MODULE MCEncodePipeline --------------------------
(* Small instances of EncodePipeline for TLC. *)
EXTENDS EncodePipeline
=============================================================================
