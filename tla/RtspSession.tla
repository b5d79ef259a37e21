---------------------------- MODULE RtspSession ----------------------------
(***************************************************************************)
(* What one RTSP request does to the session state of its connection       *)
(* (RtspConnection::HandleCmd...) and to the RtpConnection behind it, as   *)
(* operators on a record:                                                  *)
(*   has_auth, nonce   authentication: passed; a challenge is outstanding  *)
(*   session_id        the MediaSession has been found by a DESCRIBE       *)
(*   rtp               "none" until the first DESCRIBE, then "live", and   *)
(*                     "freed" once it has been destroyed                  *)
(*   transport         "none", "tcp" (interleaved) or "udp", by SETUP      *)
(*   is_play, is_closed, seq    of the RtpConnection                       *)
(*   closes_again      rtpfd_ and rtcpfd_ hold numbers that are closed     *)
(*                     elsewhere too: the RTSP socket's (interleaved), or  *)
(*                     those of a UDP SETUP that found no free ports       *)
(*   rtcp              an RTCP channel of a UDP SETUP is registered        *)
(*   stale_rtcp        a later UDP SETUP has replaced it, and it stays     *)
(*                     registered with a pointer to the connection         *)
(* The application never starts multicast, and its single source is        *)
(* channel_0.                                                              *)
(***************************************************************************)
EXTENDS Naturals

Methods == {"OPTIONS", "DESCRIBE", "SETUP_TCP", "SETUP_UDP", "PLAY", "TEARDOWN",
            "GET_PARAMETER"}

Transports == {"none", "tcp", "udp"}

Sessions ==
  [has_auth : BOOLEAN, nonce : BOOLEAN, session_id : BOOLEAN,
   rtp : {"none", "live", "freed"}, transport : Transports, is_play : BOOLEAN,
   is_closed : BOOLEAN, seq : Nat, closes_again : BOOLEAN, rtcp : BOOLEAN,
   stale_rtcp : BOOLEAN]

NewSession(authRequired) ==
  [has_auth |-> ~authRequired, nonce |-> FALSE, session_id |-> FALSE,
   rtp |-> "none", transport |-> "none", is_play |-> FALSE, is_closed |-> FALSE,
   seq |-> 0, closes_again |-> FALSE, rtcp |-> FALSE, stale_rtcp |-> FALSE]

-----------------------------------------------------------------------------
(* RtpConnection.                                                          *)

SetupRtpOverTcp(s) == [s EXCEPT !.transport = "tcp", !.closes_again = TRUE]

SetupRtpOverUdp(s) == [s EXCEPT !.transport = "udp", !.closes_again = FALSE]

NoFreePorts(s) == [s EXCEPT !.closes_again = TRUE]

Play(s) == [s EXCEPT !.is_play = (s.transport # "none")]

\* Mutant: only the flag SendRtpPacket looks at is set.
TeardownKeepsPlaying(s) == [s EXCEPT !.is_closed = TRUE]

\* is_closed_ is never reset: a PLAY after it answers 200 and sends nothing
\* new, and a second TEARDOWN leaves is_play_ as that PLAY has set it.
Teardown(s) == IF s.is_closed THEN s
               ELSE [s EXCEPT !.is_closed = TRUE, !.is_play = FALSE]

\* SetFrameType and SetRtpHeader for a packet of the application, whose type
\* is always 0 and therefore counts as a key frame.
SetRtpHeader(s) == IF s.is_play THEN [s EXCEPT !.seq = @ + 1] ELSE s

-----------------------------------------------------------------------------
(* The handlers: the possible outcomes of a request, each a new state and  *)
(* the kind of the answer ("none" when the handler returns without one).   *)

Outcome(s, res) == [s |-> s, res |-> res]

\* HandleAuthentication: a request that answers the outstanding challenge is
\* let through, any other is challenged again with a new nonce.
Challenged(s) == Outcome([s EXCEPT !.nonce = TRUE], "other")

LetThrough(s) ==
  IF s.has_auth THEN {s}
  ELSE IF s.nonce THEN {[s EXCEPT !.has_auth = TRUE, !.nonce = FALSE]} ELSE {}

\* A DESCRIBE of the published session makes the RtpConnection and adds it
\* to the session's clients; of any other name it only makes it (404).
Describe(s, published) ==
  LET t == [s EXCEPT !.rtp = "live"]
  IN  {Outcome(t, "other")} \union
      (IF published THEN {Outcome([t EXCEPT !.session_id = TRUE], "other")}
       ELSE {})

SetupTcp(s) ==
  {Outcome(IF s.session_id THEN SetupRtpOverTcp(s) ELSE s, "other")}

\* Without a pair of free ports the answer is 500 and nothing is set up.
SetupUdp(s) ==
  IF ~s.session_id THEN {Outcome(s, "other")}
  ELSE {Outcome(NoFreePorts(s), "other"),
        Outcome([SetupRtpOverUdp(s) EXCEPT !.rtcp = TRUE, !.stale_rtcp = @ \/ s.rtcp],
                "other")}

HandlePlay(s) ==
  {IF s.rtp = "none" THEN Outcome(s, "none") ELSE Outcome(Play(s), "play")}

HandleTeardown(s) ==
  {IF s.rtp = "none" THEN Outcome(s, "none") ELSE Outcome(Teardown(s), "teardown")}

HandleGetParameter(s) ==
  {Outcome(s, IF s.rtp = "none" THEN "none" ELSE "other")}

HandleOption(s) == {Outcome(s, "other")}

\* HandleRtspRequest's dispatch.
Handle(s, method, published) ==
  CASE method = "OPTIONS"       -> HandleOption(s)
    [] method = "DESCRIBE"      -> Describe(s, published)
    [] method = "SETUP_TCP"     -> SetupTcp(s)
    [] method = "SETUP_UDP"     -> SetupUdp(s)
    [] method = "PLAY"          -> HandlePlay(s)
    [] method = "TEARDOWN"      -> HandleTeardown(s)
    [] method = "GET_PARAMETER" -> HandleGetParameter(s)

\* The handlers that begin with HandleAuthentication.
NeedsAuth == {"DESCRIBE", "SETUP_TCP", "SETUP_UDP", "PLAY"}

Serve(s, method, published) ==
  IF method \in NeedsAuth
  THEN (UNION {Handle(t, method, published) : t \in LetThrough(s)})
         \union (IF s.has_auth THEN {} ELSE {Challenged(s)})
  ELSE Handle(s, method, published)
=============================================================================
