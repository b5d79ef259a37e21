-------------------------- MODULE MCTaskScheduler --------------------------
(* A small instance of TaskScheduler for TLC. *)
EXTENDS TaskScheduler
=============================================================================
