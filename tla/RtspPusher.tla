----------------------------- MODULE RtspPusher -----------------------------
(***************************************************************************)
(* The library's client that publishes to another RTSP server: the thread  *)
(* that calls OpenUrl and waits (RtspPusher), the event loop that runs the *)
(* two trigger events and reads (RtspConnection in RTSP_PUSHER mode,       *)
(* RtspResponse), and the server.  A response is a status and the empty     *)
(* line behind its headers; a read brings any part of it.                  *)
(* The answers are searched with strstr, which does not stop at the end of *)
(* what was read: the bytes of the last response are still there.          *)
(***************************************************************************)
EXTENDS Integers, Sequences, SequencesExt, FiniteSetsExt, FiniteSets

VARIABLES
  user,        \* the calling thread: "idle", "waiting", "open", "failed", "closed"
  queue,       \* trigger events: "options", "disconnect"
  rtsp_conn,   \* rtsp_conn_ is set
  conn,        \* RtspConnection and its RtspResponse
  read_buffer, \* what has been read and not retrieved
  stale,       \* what lies in the memory behind it
  sources,     \* channels of the session that is to be pushed
  requests, responses,   \* on their way to the server and from it
  accepted,    \* history: requests the server has answered with OK
  intact,      \* history: each read brought exactly one response
  fault        \* a null pointer was used

pusher_vars == <<user, queue, rtsp_conn, conn, read_buffer, stale, sources, requests, responses,
                 accepted, intact, fault>>

PusherInit ==
  /\ user = "idle" /\ queue = << >> /\ rtsp_conn = FALSE
  /\ conn = [method |-> "NONE", cseq |-> 0, setup |-> {}, state |-> "START_CONNECT",
             closed |-> FALSE]
  /\ read_buffer = << >> /\ stale = << >>
  /\ sources \in SUBSET {0, 1}
  /\ requests = << >> /\ responses = << >> /\ accepted = << >>
  /\ intact = TRUE /\ fault = FALSE

-----------------------------------------------------------------------------
(* The calling thread.                                                     *)

\* OpenUrl up to its wait, on a server that takes the connection.
OpenUrl ==
  /\ user = "idle"
  /\ user' = "waiting" /\ rtsp_conn' = TRUE
  /\ queue' = Append(queue, "options")
  /\ UNCHANGED <<conn, read_buffer, stale, sources, requests, responses, accepted, intact, fault>>

IsRecord == conn.state = "START_PUSH"

Opened ==
  /\ user = "waiting" /\ IsRecord
  /\ user' = "open"
  /\ UNCHANGED <<queue, rtsp_conn, conn, read_buffer, stale, sources, requests, responses,
                 accepted, intact, fault>>

Disconnect(result) ==
  /\ user' = result /\ rtsp_conn' = FALSE
  /\ queue' = Append(queue, "disconnect")
  /\ UNCHANGED <<conn, read_buffer, stale, sources, requests, responses, accepted, intact, fault>>

\* Mutant: the pointer is dropped and the connection left alone.
ForgetConnection ==
  /\ user = "waiting" /\ ~IsRecord
  /\ user' = "failed" /\ rtsp_conn' = FALSE
  /\ UNCHANGED <<queue, conn, read_buffer, stale, sources, requests, responses, accepted,
                 intact, fault>>

\* The time is up, however far the loop has come.
TimeOut == user = "waiting" /\ ~IsRecord /\ Disconnect("failed")

Close == user = "open" /\ Disconnect("closed")

-----------------------------------------------------------------------------
(* The event loop: what each message does to the connection, and the       *)
(* request it sends.                                                       *)

Sends(c, method) == [c |-> [c EXCEPT !.method = method],
                     out |-> <<[method |-> method, cseq |-> c.cseq + 1]>>]

Stays(c)  == [c |-> c, out |-> << >>]
Closes(c) == [c |-> [c EXCEPT !.closed = TRUE], out |-> << >>]

SendOptions(c) == Sends(c, "OPTIONS")

\* Without a session there is nothing to announce.
SendAnnounce(c) == IF sources = {} THEN Closes(c) ELSE Sends(c, "ANNOUNCE")

\* Mutant: the second channel is never set up.
SetupFirstOnly(c) ==
  IF c.setup = {} THEN Sends([c EXCEPT !.setup = {Min(sources)}], "SETUP")
  ELSE Sends(c, "RECORD")

\* Each answered SETUP is followed by the next, the last by RECORD.
SendSetup(c) ==
  IF sources \ c.setup = {} THEN Sends(c, "RECORD")
  ELSE Sends([c EXCEPT !.setup = @ \union {Min(sources \ c.setup)}], "SETUP")

\* HandleRecord, after which the calling thread sees IsRecord.
HandleRecord(c) == Stays([c EXCEPT !.state = "START_PUSH"])

\* HandleRtspResponse goes by the last request, and goes on as well when
\* ParseResponse has found the response incomplete.
HandleRtspResponse(c) ==
  CASE c.method = "OPTIONS"             -> SendAnnounce(c)
    [] c.method \in {"ANNOUNCE", "SETUP"} -> SendSetup(c)
    [] c.method = "RECORD"              -> HandleRecord(c)

SendRtspMessage(h) ==
  /\ conn' = h.c
  /\ requests' = requests \o h.out

PopTriggerEvent ==
  /\ queue # << >> /\ ~fault
  /\ queue' = Tail(queue)
  /\ IF Head(queue) = "disconnect"
     THEN conn' = [conn EXCEPT !.closed = TRUE] /\ UNCHANGED <<requests, fault>>
     ELSE IF rtsp_conn THEN SendRtspMessage(SendOptions(conn)) /\ UNCHANGED fault
     ELSE fault' = TRUE /\ UNCHANGED <<conn, requests>>
  /\ UNCHANGED <<user, rtsp_conn, read_buffer, stale, sources, responses, accepted, intact>>

\* ParseResponse, of all that strstr can see.
ParseResponse(seen) ==
  CASE ~Contains(seen, "end")                           -> "incomplete"
    [] Contains(seen, "end") /\ Contains(seen, "OK")    -> "complete"
    [] Contains(seen, "end") /\ ~Contains(seen, "OK")   -> "refused"

\* HandleRead of the first n pieces.  Behind them is what the old response
\* left: nothing of its status line, which is shorter than any other part of
\* a response that precedes it.  RetrieveUntil is given the address of a
\* literal, no place in the buffer, and so empties it.
HandleRead(n) ==
  LET read == read_buffer \o SubSeq(responses, 1, n)
  IN  /\ ~conn.closed /\ ~fault
      /\ responses' = SubSeq(responses, n + 1, Len(responses))
      /\ intact' = (intact /\ read_buffer = << >> /\ n = Len(responses) /\ responses[n] = "end"
                         /\ Len(SelectSeq(responses, LAMBDA t : t = "end")) = 1)
      /\ \E k \in 2..Len(stale) + 2 :
           LET seen   == read \o SubSeq(stale, k, Len(stale))
               result == ParseResponse(seen)
           IN  /\ read_buffer' = IF result = "complete" THEN << >> ELSE read
               /\ stale'  = IF result = "complete" THEN seen ELSE SubSeq(stale, k, Len(stale))
               /\ SendRtspMessage(
                    CASE result = "refused"    -> Closes(conn)
                      [] result = "incomplete" -> HandleRtspResponse(conn)
                      [] result = "complete"   ->
                           HandleRtspResponse([conn EXCEPT !.cseq = @ + 1]))
      /\ UNCHANGED <<user, queue, rtsp_conn, sources, accepted, fault>>

-----------------------------------------------------------------------------
(* The server (external): it accepts or refuses what it is asked.          *)

Respond ==
  /\ requests # << >>
  /\ requests' = Tail(requests)
  /\ \E ok \in BOOLEAN :
       /\ responses' = responses \o <<IF ok THEN "OK" ELSE "error", "end">>
       /\ accepted' = IF ok THEN Append(accepted, Head(requests)) ELSE accepted
  /\ UNCHANGED <<user, queue, rtsp_conn, conn, read_buffer, stale, sources, intact, fault>>

\* The server closes the connection: recv returns 0.
ServerCloses ==
  /\ ~conn.closed /\ conn.method # "NONE" /\ ~fault
  /\ conn' = [conn EXCEPT !.closed = TRUE]
  /\ UNCHANGED <<user, queue, rtsp_conn, read_buffer, stale, sources, requests, responses,
                 accepted, intact, fault>>

PusherNext ==
  \/ OpenUrl \/ Opened \/ TimeOut \/ Close
  \/ PopTriggerEvent
  \/ \E n \in 1..Len(responses) : HandleRead(n)
  \/ Respond \/ ServerCloses

\* The loop runs its trigger events; nothing else is assumed.
PusherSpec == PusherInit /\ [][PusherNext]_pusher_vars /\ WF_pusher_vars(PopTriggerEvent)

-----------------------------------------------------------------------------
(* Properties.                                                             *)

\* When every read brings one whole response, the connection pushes only after
\* the server has accepted OPTIONS, ANNOUNCE, a SETUP for each channel and
\* RECORD, each with a CSeq of its own: no refusal is taken for an answer, no
\* step is taken twice (HandleRtspResponse, ParseResponse, SendSetup).
\* Responses in pieces are out of it: each piece moves the code one step on.
RecordsWhatWasAccepted ==
  intact /\ IsRecord =>
    LET n == 3 + Cardinality(sources)
    IN  /\ Len(accepted) = n
        /\ \A i \in 1..n :
             accepted[i] = [cseq |-> i,
                            method |-> CASE i = 1 -> "OPTIONS" [] i = 2 -> "ANNOUNCE"
                                         [] i = n -> "RECORD" [] OTHER -> "SETUP"]

\* A connection that OpenUrl has given up is closed in the end, whatever the
\* server still sends; but when the loop comes to the first request only after
\* OpenUrl has given up it finds a null pointer (OpenUrl's trigger events).
GivenUpIsClosed == user \in {"failed", "closed"} ~> conn.closed \/ fault
=============================================================================
