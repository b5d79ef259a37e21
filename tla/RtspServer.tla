----------------------------- MODULE RtspServer -----------------------------
(***************************************************************************)
(* The RTSP server of the application: the event loop's thread, which runs *)
(* trigger events, timers and socket callbacks one at a time               *)
(* (TcpServer, Acceptor, TcpConnection, RtspConnection), and the streaming *)
(* thread (rtsp_stream.h), which starts the server, publishes the session  *)
(* and pushes packets to its clients (MediaSession, RtpConnection).  What  *)
(* they share: the trigger queue, the session's clients_, weak and shared  *)
(* pointers to the connections, and the process's descriptors.             *)
(* A connection is one accepted socket and the RtspConnection made for it. *)
(* A packet is its number.  When memory is used after it was freed, or a   *)
(* descriptor is closed that belongs to somebody else, the model records   *)
(* which (fault) and stops there: what follows is undefined.               *)
(***************************************************************************)
EXTENDS RtspSession, Sequences, FiniteSetsExt

CONSTANTS
  Conns,
  None,
  Fds,              \* descriptor numbers: the kernel gives out the lowest
  QueueCapacity,    \* kMaxTriggetEvents
  WriteCapacity,    \* BufferWriter::max_queue_length_, 500
  PacketsPerFrame,  \* RTP packets a frame is cut into
  Requests,         \* the methods the clients use
  MaxBatch,         \* bound: events of one epoll_wait (512 in the code)
  MaxPackets,       \* bound: packets of all frames
  MaxRequests       \* bound: requests of all clients

ASSUME Assumption ==
  /\ None \notin Conns
  /\ Fds \subseteq Nat \ {0}
  /\ QueueCapacity \in Nat \ {0}
  /\ WriteCapacity \in Nat \ {0}
  /\ PacketsPerFrame \in Nat \ {0}
  /\ Requests \subseteq Methods
  /\ MaxBatch \in Nat /\ MaxPackets \in Nat /\ MaxRequests \in Nat

VARIABLES
  owner,         \* the connection whose socket a descriptor is
  connections,   \* TcpServer::connections_
  clients,       \* MediaSession::clients_
  polled,        \* connections whose channel is registered with epoll
  queue, timers, \* trigger events, removals put on a timer
  lpc, task, batch,   \* the loop: the popped trigger event, socket events left
  phase,         \* of a connection: "new", "open", "closed", "freed"
  fd, writing, wbuf, sess, requests,
  spc,           \* the streaming thread
  packet, left, held, todo, conn,
  auth_info, published,
  seen, last,    \* history of a client: what it was sent last
  gaps,          \* history: messages were dropped, or packets left by UDP
  raced,         \* history: sends posted for a connection already closed
  lost,          \* history: removals lost between the size check and the push
  fault

netVars    == <<owner, connections, fd>>
tcpVars    == <<phase, polled, clients, queue, timers, lost>>
outVars    == <<wbuf, writing, seen, last>>
streamVars == <<spc, packet, left, held, todo, conn, auth_info, published>>
vars == <<netVars, tcpVars, outVars, sess, requests, lpc, task, batch, streamVars,
          gaps, raced, fault>>

NoTask == [kind |-> "none"]

Init ==
  /\ owner = [f \in Fds |-> None]
  /\ connections = [f \in Fds |-> None]
  /\ clients = [f \in Fds |-> None]
  /\ polled = {}
  /\ queue = << >> /\ timers = {}
  /\ lpc = "trigger" /\ task = NoTask /\ batch = {}
  /\ phase = [c \in Conns |-> "new"]
  /\ fd = [c \in Conns |-> 0]
  /\ writing = [c \in Conns |-> FALSE]
  /\ wbuf = [c \in Conns |-> << >>]
  /\ sess = [c \in Conns |-> NewSession(FALSE)]
  /\ requests = 0
  /\ spc = "listen" /\ packet = 0 /\ left = 0
  /\ held = {} /\ todo = {} /\ conn = None
  /\ auth_info = FALSE /\ published = FALSE
  /\ seen = [c \in Conns |-> "nothing"]
  /\ last = [c \in Conns |-> [no |-> 0, seq |-> 0]]
  /\ gaps = {} /\ raced = {} /\ lost = {}
  /\ fault = "none"

Sound == fault = "none"

Alive(c)    == phase[c] \in {"open", "closed"}
RtpAlive(c) == sess[c].rtp = "live"

\* Trigger events.  by is not in the code: it names the connection that
\* posted a removal.
Removal(c) == [kind |-> "remove", fd |-> fd[c], by |-> c]
SendOf(c, n) == [kind |-> "send", by |-> c, no |-> n]

-----------------------------------------------------------------------------
(* TcpConnection and BufferWriter, on the loop's thread.                   *)

\* Mutant: the removal overtakes the queued sends.
PostInFront(c) == queue' = <<Removal(c)>> \o queue /\ UNCHANGED <<timers, lost>>

\* Mutant: no timer stands in for a full queue.
PostOrForget(c) ==
  /\ queue' = IF Len(queue) < QueueCapacity THEN Append(queue, Removal(c)) ELSE queue
  /\ UNCHANGED <<timers, lost>>

\* disconnect_cb_: the removal is queued, or put on a timer when the queue is
\* full; it is lost when the streaming thread has filled the queue between
\* the loop's look at the size and its push.
PostRemoval(c) ==
  \/ /\ Len(queue) < QueueCapacity
     /\ queue' = Append(queue, Removal(c))
     /\ UNCHANGED <<timers, lost>>
  \/ /\ Len(queue) = QueueCapacity
     /\ timers' = timers \union {Removal(c)}
     /\ UNCHANGED <<queue, lost>>
  \/ /\ Len(queue) = QueueCapacity
     /\ queue[Len(queue)].kind = "send"
     /\ lost' = lost \union {c}
     /\ UNCHANGED <<queue, timers>>

\* Mutant: the session keeps the client.
KeepClient(c, cls) == cls

\* RtspConnection::OnClose; the request being served may have set session_id_.
RemoveClient(c, cls) ==
  IF sess'[c].session_id THEN [cls EXCEPT ![fd[c]] = None] ELSE cls

\* Nothing is written any more: the buffer, and the history, are forgotten.
NothingWritten(c) ==
  /\ wbuf' = [wbuf EXCEPT ![c] = << >>]
  /\ writing' = [writing EXCEPT ![c] = FALSE]
  /\ seen' = [seen EXCEPT ![c] = "nothing"]
  /\ last' = [last EXCEPT ![c] = [no |-> 0, seq |-> 0]]

\* Mutant: the descriptor is closed at once.
CloseNow(c, cls) ==
  /\ phase' = [phase EXCEPT ![c] = "closed"]
  /\ polled' = polled \ {c}
  /\ clients' = RemoveClient(c, cls)
  /\ owner' = [owner EXCEPT ![fd[c]] = None]
  /\ NothingWritten(c)
  /\ PostRemoval(c)

Close(c, cls) ==
  /\ phase' = [phase EXCEPT ![c] = "closed"]
  /\ polled' = polled \ {c}
  /\ clients' = RemoveClient(c, cls)
  /\ owner' = owner
  /\ NothingWritten(c)
  /\ PostRemoval(c)

\* What the client knows when it has been sent ms: whether its stream is
\* announced (for good, by a PLAY after a TEARDOWN), and the newest
\* interleaved packet.
Answered(ms, kind) == \E i \in 1..Len(ms) : ms[i].kind = kind

PlaysAgain(was, ms) ==
  \/ was = "again"
  \/ was = "ended" /\ Answered(ms, "play")
  \/ \E i, j \in 1..Len(ms) : i < j /\ ms[i].kind = "teardown" /\ ms[j].kind = "play"

Announced(was, ms) ==
  IF PlaysAgain(was, ms) THEN "again"
  ELSE IF Answered(ms, "teardown") THEN "ended"
  ELSE IF Answered(ms, "play") THEN "playing" ELSE was

Packets(ms) == {i \in 1..Len(ms) : ms[i].kind = "rtp"}

Newest(was, ms) ==
  IF Packets(ms) = {} THEN was
  ELSE LET m == ms[Max(Packets(ms))] IN [no |-> m.no, seq |-> m.seq]

\* Mutant: EPOLLOUT is only ever switched off.
NeverWriting(c, rest) == writing[c] /\ rest # << >>

WantsWriting(c, rest) == rest # << >>

\* BufferWriter::Send: the socket takes messages from the front until it is
\* full; one that it took in part counts as still queued.
Taken(wb) ==
  {[gone |-> SubSeq(wb, 1, k), rest |-> SubSeq(wb, k + 1, Len(wb))] : k \in 0..Len(wb)}

\* HandleWrite: writability is watched while messages are left.  A failed
\* send closes the connection.
HandleWrite(c, wb, cls) ==
  \/ /\ \E t \in Taken(wb) :
          /\ wbuf' = [wbuf EXCEPT ![c] = t.rest]
          /\ writing' = [writing EXCEPT ![c] = WantsWriting(c, t.rest)]
          /\ seen' = [seen EXCEPT ![c] = Announced(@, t.gone)]
          /\ last' = [last EXCEPT ![c] = Newest(@, t.gone)]
     /\ clients' = cls
     /\ UNCHANGED <<owner, phase, polled, queue, timers, lost>>
  \/ /\ wb # << >>
     /\ Close(c, cls)

\* BufferWriter::Append: refused when the buffer is full.
AppendTo(c, m) ==
  IF Len(wbuf[c]) < WriteCapacity THEN Append(wbuf[c], m) ELSE wbuf[c]

\* Send: a refused message is dropped.
SendTo(c, m, cls) ==
  /\ HandleWrite(c, AppendTo(c, m), cls)
  /\ gaps' = IF Len(wbuf[c]) < WriteCapacity THEN gaps ELSE gaps \union {c}

-----------------------------------------------------------------------------
(* The end of a connection.                                                *)

\* ~RtpConnection: rtpfd_ and rtcpfd_ are closed.  When they are closed
\* elsewhere too, another thread may have been given the number in between.
RtpDestroyed(s) ==
  [NewSession(FALSE) EXCEPT !.rtp = IF s.rtp = "live" THEN "freed" ELSE s.rtp,
                            !.closes_again = s.closes_again,
                            !.stale_rtcp = s.stale_rtcp]

ClosesAgain(c) ==
  IF ~sess[c].closes_again THEN {"none"}
  ELSE IF owner[fd[c]] \notin {c, None} /\ sess[c].transport = "tcp"
       THEN {"closed another's descriptor"}
       ELSE {"none", "closed another's descriptor"}

\* ~RtspConnection and ~TcpConnection, when the last shared pointer goes.
\* The RtpConnection lives on while the streaming thread holds it.
Destroy(c) ==
  /\ phase' = [phase EXCEPT ![c] = "freed"]
  /\ owner' = [owner EXCEPT ![fd[c]] = None]
  /\ IF c \in held
     THEN UNCHANGED <<sess, fault>>
     ELSE /\ sess' = [sess EXCEPT ![c] = RtpDestroyed(@)]
          /\ fault' \in ClosesAgain(c)

-----------------------------------------------------------------------------
(* The loop: trigger events until the queue is empty, timers, epoll_wait.  *)

\* RemoveConnection(sockfd): the server's pointer goes; the streaming thread
\* may hold another.
RemoveConnection(f) ==
  LET c == connections[f]
  IN  /\ connections' = [connections EXCEPT ![f] = None]
      /\ IF c \in {None, conn} THEN UNCHANGED <<phase, owner, sess, fault>>
         ELSE Destroy(c)

TakeTask ==
  /\ Sound /\ lpc = "trigger" /\ task = NoTask /\ queue # << >>
  /\ task' = Head(queue)
  /\ queue' = Tail(queue)
  /\ UNCHANGED <<netVars, phase, polled, clients, timers, lost, outVars, sess,
                 requests, lpc, batch, streamVars, gaps, raced, fault>>

RunRemoval ==
  /\ Sound /\ task.kind = "remove"
  /\ task' = NoTask
  /\ RemoveConnection(task.fd)
  /\ UNCHANGED <<clients, fd, polled, queue, timers, lost, lpc, batch, outVars,
                 requests, streamVars, gaps, raced>>

\* The callback RtpConnection::SendRtpPacket queued, with its raw this.
SendDangling ==
  /\ Sound /\ task.kind = "send"
  /\ sess[task.by].rtp = "freed"
  /\ fault' = "sent on a freed connection"
  /\ UNCHANGED <<netVars, tcpVars, outVars, sess, requests, lpc, task, batch,
                 streamVars, gaps, raced>>

\* SendRtpOverTcp: Send does nothing once the connection is closed.
SendRtpOverTcp(c, s, n) ==
  IF phase[c] = "open"
  THEN SendTo(c, [kind |-> "rtp", no |-> n, seq |-> s.seq], clients)
  ELSE UNCHANGED <<owner, tcpVars, outVars, gaps>>

\* SendRtpOverUdp: sent at once, or the failure tears the stream down.
SendRtpOverUdp(c, s) ==
  /\ sess' \in {[sess EXCEPT ![c] = s], [sess EXCEPT ![c] = Teardown(s)]}
  /\ gaps' = gaps \union {c}
  /\ UNCHANGED <<owner, tcpVars, outVars>>

RunSend ==
  /\ Sound /\ task.kind = "send"
  /\ task' = NoTask
  /\ LET c == task.by
         s == SetRtpHeader(sess[c])
     IN  /\ RtpAlive(c)
         /\ IF ~s.is_play
            THEN UNCHANGED <<sess, owner, tcpVars, outVars, gaps>>
            ELSE IF s.transport = "tcp"
                 THEN sess' = [sess EXCEPT ![c] = s] /\ SendRtpOverTcp(c, s, task.no)
                 ELSE SendRtpOverUdp(c, s)
  /\ UNCHANGED <<connections, fd, requests, lpc, batch, streamVars, raced, fault>>

\* HandleTimerEvent, with the queue seen empty just before: a timer may be
\* due.
FireTimer ==
  /\ Sound /\ lpc = "trigger" /\ task = NoTask /\ queue = << >>
  /\ \E t \in timers :
       /\ timers' = timers \ {t}
       /\ RemoveConnection(t.fd)
  /\ UNCHANGED <<clients, fd, polled, queue, lost, lpc, task, batch, outVars,
                 requests, streamVars, gaps, raced>>

ToPoll ==
  /\ Sound /\ lpc = "trigger" /\ task = NoTask /\ queue = << >>
  /\ lpc' = "poll"
  /\ UNCHANGED <<netVars, tcpVars, outVars, sess, requests, task, batch,
                 streamVars, gaps, raced, fault>>

\* What epoll_wait can report: a request or an end of file, room to write, a
\* hang-up, a datagram of an RTCP channel, a client that connects.
SocketEvents ==
  {<<c, "in">> : c \in polled} \union {<<c, "hup">> : c \in polled}
    \union {<<c, "out">> : c \in {d \in polled : writing[d]}}
    \union {<<c, "rtcp">> : c \in {d \in Conns : sess[d].stale_rtcp}}
    \union (IF spc = "listen" THEN {} ELSE {<<None, "connect">>})

\* Without a socket event it returns when the pipe has been written (the
\* queue was filled) or at a timer's deadline.
Poll ==
  /\ Sound /\ lpc = "poll"
  /\ lpc' = "handle"
  /\ \E b \in SUBSET SocketEvents :
       /\ b # {} \/ queue # << >> \/ timers # {}
       /\ Cardinality(b) <= MaxBatch
       /\ batch' = b
  /\ UNCHANGED <<netVars, tcpVars, outVars, sess, requests, task, streamVars,
                 gaps, raced, fault>>

BatchDone ==
  /\ Sound /\ lpc = "handle" /\ batch = {}
  /\ lpc' = "trigger"
  /\ UNCHANGED <<netVars, tcpVars, outVars, sess, requests, task, batch,
                 streamVars, gaps, raced, fault>>

\* Channel::HandleEvent calls read, write, close in this order; the batch
\* holds raw channel pointers.
Rank(e) == CASE e = "in" -> 1 [] e = "out" -> 2 [] e = "hup" -> 3
             [] OTHER -> 4

Handles(c, e) ==
  /\ Sound /\ lpc = "handle"
  /\ <<c, e>> \in batch
  /\ \A o \in {b \in batch : b[1] = c} : Rank(e) <= Rank(o[2])
  /\ batch' = batch \ {<<c, e>>}

\* OnAccept, OnConnect, AddConnection.  emplace keeps an entry that is there.
Accept(c) ==
  /\ Handles(None, "connect")
  /\ phase[c] = "new"
  /\ \E f \in Fds :
       /\ owner[f] = None /\ \A g \in Fds : owner[g] = None => f <= g
       /\ owner' = [owner EXCEPT ![f] = c]
       /\ fd' = [fd EXCEPT ![c] = f]
       /\ connections' = [connections EXCEPT ![f] = IF @ = None THEN c ELSE @]
  /\ phase' = [phase EXCEPT ![c] = "open"]
  /\ polled' = polled \union {c}
  /\ sess' = [sess EXCEPT ![c] = NewSession(auth_info)]
  /\ UNCHANGED <<clients, queue, timers, lost, outVars, requests, lpc, task,
                 streamVars, gaps, raced, fault>>

\* The client has gone before accept.
AcceptNothing ==
  /\ Handles(None, "connect")
  /\ UNCHANGED <<netVars, tcpVars, outVars, sess, requests, lpc, task, streamVars,
                 gaps, raced, fault>>

\* MediaSession::AddClient: the first client of a descriptor stays.
AddClient(c) ==
  IF clients[fd[c]] = None THEN [clients EXCEPT ![fd[c]] = c] ELSE clients

\* OnRead, HandleRtspRequest: a whole request is answered.  A DESCRIBE that
\* found the session adds the client.
Request(c) ==
  /\ Handles(c, "in") /\ phase[c] = "open"
  /\ requests < MaxRequests
  /\ requests' = requests + 1
  /\ \E m \in Requests : \E o \in Serve(sess[c], m, published) :
       LET cls == IF m = "DESCRIBE" /\ o.s.session_id THEN AddClient(c) ELSE clients
       IN  /\ sess' = [sess EXCEPT ![c] = o.s]
           /\ IF o.res = "none"
              THEN UNCHANGED <<owner, tcpVars, outVars, gaps>>
              ELSE SendTo(c, [kind |-> o.res], cls)
  /\ UNCHANGED <<connections, fd, lpc, task, streamVars, raced, fault>>

\* End of file, a read error, a request that does not parse, a hang-up.
Gone(c) ==
  /\ Handles(c, "in") \/ Handles(c, "hup")
  /\ phase[c] = "open"
  /\ UNCHANGED <<connections, fd, sess, requests, lpc, task, streamVars, gaps,
                 raced, fault>>
  /\ Close(c, clients)

\* A part of a request, an RTCP packet, or a channel already closed: nothing.
NothingToDo(c) ==
  /\ \/ Handles(c, "in")
     \/ phase[c] = "closed" /\ (Handles(c, "out") \/ Handles(c, "hup"))
     \/ phase[c] # "freed" /\ Handles(c, "rtcp")
  /\ UNCHANGED <<netVars, tcpVars, outVars, sess, requests, lpc, task, streamVars,
                 gaps, raced, fault>>

Writable(c) ==
  /\ Handles(c, "out") /\ phase[c] = "open"
  /\ UNCHANGED <<connections, fd, sess, requests, lpc, task, streamVars, gaps,
                 raced, fault>>
  /\ HandleWrite(c, wbuf[c], clients)

\* A datagram for an RTCP channel that outlived its connection.
RtcpDangling(c) ==
  /\ Handles(c, "rtcp") /\ phase[c] = "freed"
  /\ fault' = "RTCP of a freed connection"
  /\ UNCHANGED <<netVars, tcpVars, outVars, sess, requests, lpc, task, streamVars,
                 gaps, raced>>

HandleEvent ==
  \/ AcceptNothing
  \/ \E c \in Conns : \/ Accept(c) \/ Request(c) \/ Gone(c) \/ NothingToDo(c)
                      \/ Writable(c) \/ RtcpDangling(c)

LoopStep ==
  \/ TakeTask \/ RunRemoval \/ SendDangling \/ RunSend \/ ToPoll \/ BatchDone
  \/ HandleEvent \/ (Poll /\ (queue # << >> \/ timers # {}))

-----------------------------------------------------------------------------
(* The streaming thread.                                                   *)

loopAndClients == <<netVars, tcpVars, outVars, sess, requests, lpc, task, batch,
                    gaps>>

\* rtspInit: the server listens before it has its credentials and its session.
Start == spc = "listen" /\ spc' = "credentials" /\ UNCHANGED <<auth_info, published>>

SetAuthConfig ==
  spc = "credentials" /\ spc' = "publish" /\ auth_info' = TRUE /\ UNCHANGED published

AddSession ==
  spc = "publish" /\ spc' = "idle" /\ published' = TRUE /\ UNCHANGED auth_info

RtspInit ==
  /\ Sound
  /\ Start \/ SetAuthConfig \/ AddSession
  /\ UNCHANGED <<loopAndClients, packet, left, held, todo, conn, raced, fault>>

\* PushFrame and HandleFrame, when there are clients.
PushFrame ==
  /\ Sound /\ spc = "idle" /\ packet + PacketsPerFrame <= MaxPackets
  /\ \E f \in Fds : clients[f] # None
  /\ spc' = "collect"
  /\ left' = PacketsPerFrame
  /\ UNCHANGED <<loopAndClients, packet, held, todo, conn, auth_info, published,
                 raced, fault>>

\* The send frame callback, under map_mutex_: expired clients are erased, the
\* others held.
Collect ==
  /\ Sound /\ spc = "collect"
  /\ LET cs == {clients[f] : f \in Fds} \ {None}
         live == {c \in cs : RtpAlive(c) /\ Alive(c)}
     IN  /\ held' = live /\ todo' = live
         /\ clients' = [f \in Fds |-> IF clients[f] # None /\ ~RtpAlive(clients[f])
                                      THEN None ELSE clients[f]]
  /\ packet' = packet + 1
  /\ left' = left - 1
  /\ spc' = "each"
  /\ UNCHANGED <<netVars, phase, polled, queue, timers, lost, outVars, sess,
                 requests, lpc, task, batch, conn, auth_info, published, gaps,
                 raced, fault>>

\* SendRtpPacket: returns when torn down, or when the connection has gone.
Sends(c) == ~sess[c].is_closed /\ Alive(c)

LockConnection ==
  /\ Sound /\ spc = "each"
  /\ \E c \in todo :
       /\ \A d \in todo : fd[d] <= fd[c]
       /\ todo' = todo \ {c}
       /\ IF Sends(c) THEN conn' = c /\ spc' = "size" ELSE UNCHANGED <<conn, spc>>
  /\ UNCHANGED <<loopAndClients, packet, left, held, auth_info, published, raced,
                 fault>>

\* AddTriggerEvent: the size is looked at before the push.
CheckSize ==
  /\ Sound /\ spc = "size"
  /\ spc' = IF Len(queue) < QueueCapacity THEN "push" ELSE "release"
  /\ UNCHANGED <<loopAndClients, packet, left, held, todo, conn, auth_info,
                 published, raced, fault>>

Post ==
  /\ Sound /\ spc = "push"
  /\ spc' = "release"
  /\ IF Len(queue) < QueueCapacity
     THEN /\ queue' = Append(queue, SendOf(conn, packet))
          /\ raced' = IF phase[conn] = "closed" THEN raced \union {conn} ELSE raced
     ELSE UNCHANGED <<queue, raced>>
  /\ UNCHANGED <<netVars, phase, polled, clients, timers, lost, outVars, sess,
                 requests, lpc, task, batch, packet, left, held, todo, conn,
                 auth_info, published, gaps, fault>>

\* The shared pointer goes out of scope; it may be the last.
Release ==
  /\ Sound /\ spc = "release"
  /\ spc' = "each"
  /\ conn' = None
  /\ IF \E f \in Fds : connections[f] = conn
     THEN UNCHANGED <<phase, owner, sess, fault>>
     ELSE Destroy(conn)
  /\ UNCHANGED <<connections, fd, polled, clients, queue, timers, lost, outVars,
                 requests, lpc, task, batch, packet, left, held, todo, auth_info,
                 published, gaps, raced>>

\* The end of the callback: the held RtpConnections are let go.
CallbackEnds ==
  /\ Sound /\ spc = "each" /\ todo = {}
  /\ spc' = IF left > 0 THEN "collect" ELSE "idle"
  /\ held' = {}
  /\ LET ends == {c \in held : phase[c] = "freed"}
     IN  /\ sess' = [c \in Conns |-> IF c \in ends THEN RtpDestroyed(sess[c])
                                    ELSE sess[c]]
         /\ fault' \in IF ends = {} THEN {"none"}
                       ELSE UNION {ClosesAgain(c) : c \in ends}
  /\ UNCHANGED <<netVars, tcpVars, outVars, requests, lpc, task, batch, packet,
                 left, todo, conn, auth_info, published, gaps, raced>>

StreamStep ==
  \/ RtspInit \/ Collect \/ LockConnection \/ CheckSize \/ Post \/ Release
  \/ CallbackEnds

Next == LoopStep \/ FireTimer \/ Poll \/ StreamStep \/ PushFrame

\* The two threads keep running; a round of the loop passes HandleTimerEvent,
\* and in some round a timer is due.  No client has to do anything.
Fairness ==
  /\ WF_vars(LoopStep)
  /\ WF_vars(StreamStep)
  /\ SF_vars(FireTimer)

Spec == Init /\ [][Next]_vars /\ Fairness

-----------------------------------------------------------------------------
(* Properties.                                                             *)

Tasks == {queue[i] : i \in 1..Len(queue)} \union {task}

Removals == [kind : {"remove"}, fd : Fds, by : Conns]
Sendings == [kind : {"send"}, by : Conns, no : 0..MaxPackets]
Events   == (Conns \X {"in", "out", "hup", "rtcp"}) \union {<<None, "connect">>}
Messages == [kind : {"play", "teardown", "other"}]
              \union [kind : {"rtp"}, no : 0..MaxPackets, seq : Nat]

NetOK ==
  /\ {owner, connections, clients} \subseteq [Fds -> Conns \union {None}]
  /\ phase \in [Conns -> {"new", "open", "closed", "freed"}]
  /\ fd \in [Conns -> Fds \union {0}]
  /\ polled \subseteq Conns
  /\ sess \in [Conns -> Sessions]

LoopOK ==
  /\ queue \in Seq(Removals \union Sendings) /\ Len(queue) <= QueueCapacity
  /\ timers \subseteq Removals
  /\ lpc \in {"trigger", "poll", "handle"}
  /\ task \in Removals \union Sendings \union {NoTask}
  /\ batch \subseteq Events
  /\ requests \in 0..MaxRequests

OutputOK ==
  /\ writing \in [Conns -> BOOLEAN]
  /\ wbuf \in [Conns -> Seq(Messages)]
  /\ \A c \in Conns : Len(wbuf[c]) <= WriteCapacity
  /\ seen \in [Conns -> {"nothing", "playing", "ended", "again"}]
  /\ last \in [Conns -> [no : 0..MaxPackets, seq : Nat]]

StreamOK ==
  /\ spc \in {"listen", "credentials", "publish", "idle", "collect", "each", "size",
              "push", "release"}
  /\ packet \in 0..MaxPackets /\ left \in 0..PacketsPerFrame
  /\ held \subseteq Conns /\ todo \subseteq held
  /\ gaps \subseteq Conns /\ raced \subseteq Conns /\ lost \subseteq Conns
  /\ conn \in Conns \union {None}
  /\ auth_info \in BOOLEAN /\ published \in BOOLEAN

\* Every variable has its type; the queues stay within their capacities.
TypeOK == NetOK /\ LoopOK /\ OutputOK /\ StreamOK

\* Descriptors are reused, but never under a connection that is still known:
\* while a connection is in the server's map its socket is its own, and a
\* removal that is queued, put on a timer or running finds under its
\* descriptor the connection it was posted for.
RemovesTheRightConnection ==
  Sound =>
    /\ \A f \in Fds : connections[f] # None =>
         /\ Alive(connections[f]) /\ fd[connections[f]] = f
         /\ owner[f] = connections[f]
    /\ \A t \in Tasks \union timers : t.kind = "remove" => connections[t.fd] = t.by

\* The session's client map names, under every descriptor, the open
\* connection that described the session on it, and nobody who has gone: a
\* new client on a reused descriptor is always added.
ClientsAreTheDescribed ==
  Sound => \A c \in Conns, f \in Fds :
             (clients[f] = c) <=> (phase[c] = "open" /\ sess[c].session_id /\ fd[c] = f)

\* A queued send outlives its RtpConnection only when the streaming thread
\* posted it after the connection had been closed, and no socket event is
\* handled on a freed channel except that of an RTCP channel a second UDP
\* SETUP left behind.
DanglesOnlyInTheRace ==
  /\ \A t \in Tasks : t.kind = "send" /\ sess[t.by].rtp = "freed" => t.by \in raced
  /\ \A b \in batch : b[1] # None /\ phase[b[1]] = "freed" => b[2] = "rtcp"
  /\ fault = "RTCP of a freed connection" =>
       \E c \in Conns : phase[c] = "freed" /\ sess[c].stale_rtcp

\* Whatever the order of its requests, a client gets interleaved packets only
\* between the answer to a PLAY and the answer to a TEARDOWN, in the order of
\* the stream, and under consecutive sequence numbers.  Not so when its write
\* buffer overflowed or it switched to UDP in between, and not for a client
\* that plays again after its TEARDOWN: its second TEARDOWN stops nothing.
PacketsWhilePlaying ==
  \A c \in Conns : \A i \in Packets(wbuf[c]) :
    LET before == SubSeq(wbuf[c], 1, i - 1)
        old    == Newest(last[c], before)
    IN  /\ wbuf[c][i].no > old.no
        /\ c \notin gaps => /\ wbuf[c][i].seq = old.seq + 1
                            /\ Announced(seen[c], before) \in {"playing", "again"}

\* Output never stalls: an open connection with queued messages is watched
\* for writability.
OutputIsWatched ==
  \A c \in Conns : wbuf[c] # << >> => phase[c] = "open" /\ writing[c] /\ c \in polled

\* Every closed connection is destroyed and its descriptor given back, in
\* spite of a full trigger queue and of the streaming thread's pointers,
\* unless its removal was lost in a race for the last slot.
ClosedIsFreed ==
  \A c \in Conns :
    (phase[c] = "closed") ~> (phase[c] = "freed" \/ c \in lost \/ ~Sound)
=============================================================================
