---------------------------- MODULE MCRtspServer ----------------------------
(* A small instance of RtspServer for TLC. *)
EXTENDS RtspServer
=============================================================================
