--------------------------- MODULE MCRtspMessages ---------------------------
(***************************************************************************)
(* Small instances of the two sides of an RTSP conversation, for TLC: the  *)
(* server's request parser (RtspRequest) and the pusher (RtspPusher).      *)
(* Either runs by itself.                                                  *)
(***************************************************************************)
EXTENDS RtspRequest, RtspPusher

VARIABLE side   \* which of the two runs

-----------------------------------------------------------------------------
Request(method, url, headers) ==
  [method |-> method, cseq |-> 0, url |-> url, headers |-> headers]

Authorization == Header("Authorization", "response", 3)
UserAgent(words) == Header("User-Agent", "client", words)
Accept == Header("Accept", "sdp", 2)
Transport(mode, numbers) ==
  Header("Transport", [mode |-> mode, numbers |-> numbers], 2)

MCRequests ==
  {Request("RTCP", "", << >>),
   Request("OPTIONS", "stream", <<UserAgent(3)>>),
   Request("DESCRIBE", "stream", <<Accept>>),
   Request("DESCRIBE", "stream", <<Accept, Authorization>>),
   Request("SETUP", "track1", <<Transport("tcp", <<2, 3>>), Authorization>>),
   Request("SETUP", "track0", <<UserAgent(2), Transport("udp", <<6, 7>>)>>),
   Request("PLAY", "stream", <<Header("Session", 1, 2)>>),
   Request("TEARDOWN", "stream", << >>)}

-----------------------------------------------------------------------------
MCInit ==
  /\ Init /\ PusherInit
  /\ side \in {"server", "pusher"} /\ (side = "server" => sources = {})

MCNext ==
  \/ side = "server" /\ Next /\ UNCHANGED <<side, pusher_vars>>
  \/ side = "pusher" /\ PusherNext /\ UNCHANGED <<side, vars>>

MCSpec ==
  /\ MCInit /\ [][MCNext]_<<side, vars, pusher_vars>>
  /\ WF_pusher_vars(side = "pusher" /\ PopTriggerEvent /\ UNCHANGED <<side, vars>>)
=============================================================================
