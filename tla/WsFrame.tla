------------------------------ MODULE WsFrame ------------------------------
(***************************************************************************)
(* The frame reader of connection.cpp, one operator per decision of        *)
(* frame_read_cb.  Of a frame matter its kind (the opcode), whether it is  *)
(* final, and the size of its payload: none, up to 125 bytes, or more,     *)
(* when the length has a field of its own.  Each step waits for a number   *)
(* of bytes (the read watermark) and is one callback.                      *)
(***************************************************************************)

CONSTANT Sizes   \* the sizes considered, of "empty", "short" and "long"

\* What a browser sends: control frames are neither fragmented nor long.
Frames ==
  {f \in [kind : {"data", "close", "ping"}, fin : BOOLEAN, size : Sizes] :
     f.kind # "data" => f.fin /\ f.size # "long"}

\* What a handshake request looks like as a frame: the bytes are text, so the
\* bit for the final fragment is never set.
GarbledFrames == {f \in Frames : ~f.fin}

\* ONE: the two bytes of the header have been read.
StepAfterHeader(f) == IF f.size = "long" THEN "TWO" ELSE "THREE"

\* THREE: with the masking key a frame without payload is complete.
CompleteAfterMask(f) == f.size = "empty"

\* A final close frame is answered, and the step is left as it is.
Closes(f) == f.fin /\ f.kind = "close"

\* A final ping is dropped; all the rest is handed to the user's callback.
Delivered(f) == ~Closes(f) /\ ~(f.fin /\ f.kind = "ping")

StepAfterFrame(f, step) == IF Closes(f) THEN step ELSE "ONE"
=============================================================================
