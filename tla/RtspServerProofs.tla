-------------------------- MODULE RtspServerProofs --------------------------
(***************************************************************************)
(* Proofs about RtspServer, for every set of connections and descriptors   *)
(* and every capacity of the queues.                                       *)
(***************************************************************************)
EXTENDS RtspServer, SequenceTheorems, WellFoundedInduction, TLAPS

-----------------------------------------------------------------------------
(* The inductive invariant.                                                *)

\* A connection that has not ended owns its descriptor; the server's map lists
\* it there until its removal has run, and for as long as it is open.
ConnInv ==
  /\ \A c \in Conns : Alive(c) => fd[c] \in Fds /\ owner[fd[c]] = c
  /\ \A f \in Fds : connections[f] # None =>
       Alive(connections[f]) /\ fd[connections[f]] = f
  /\ \A c \in Conns : phase[c] = "open" => connections[fd[c]] = c
  /\ polled = {c \in Conns : phase[c] = "open"}

\* The streaming thread holds a connection that has not ended.
HeldInv ==
  /\ conn # None <=> spc \in {"size", "push", "release"}
  /\ conn # None => Alive(conn)

\* A removal is posted by a closed connection that is still listed...
IsRemovalFor(t, c) == t.kind = "remove" /\ t.by = c

PostedInv ==
  \A t \in Tasks \union timers : t.kind = "remove" =>
    phase[t.by] = "closed" /\ fd[t.by] = t.fd /\ connections[t.fd] = t.by

\* ...and it is posted once.
OnceInv ==
  /\ \A i, j \in 1..Len(queue) :
       queue[i].kind = "remove" /\ queue[j].kind = "remove" /\ queue[i].fd = queue[j].fd
         => i = j
  /\ \A i \in 1..Len(queue) : queue[i].kind = "remove" =>
       /\ task.kind = "remove" => queue[i].fd # task.fd
       /\ \A t \in timers : queue[i].fd # t.fd
  /\ \A t \in timers :
       /\ task.kind = "remove" => t.fd # task.fd
       /\ \A u \in timers : t.fd = u.fd => t = u

\* The RtpConnection is made by the DESCRIBE that finds the session, and is
\* destroyed after its connection.
SessionInv ==
  \A c \in Conns :
    /\ sess[c].session_id => sess[c].rtp = "live"
    /\ sess[c].rtp = "freed" => phase[c] = "freed"
    /\ phase[c] = "new" => sess[c].rtp = "none" /\ ~sess[c].stale_rtcp

ClientInv ==
  \A c \in Conns, f \in Fds :
    (clients[f] = c) <=> (phase[c] = "open" /\ sess[c].session_id /\ fd[c] = f)

\* Before its removal no send of a connection is queued after the removal,
\* unless the streaming thread found the connection closed when it posted one.
Listed(c) == fd[c] \in Fds /\ connections[fd[c]] = c

SendInv ==
  /\ \A t \in Tasks : t.kind = "send" => t.by \in raced \/ Listed(t.by)
  /\ \A i, j \in 1..Len(queue) :
       i < j /\ queue[i].kind = "remove" /\ queue[j].kind = "send"
         => queue[i].by # queue[j].by \/ queue[j].by \in raced
  /\ task.kind = "remove" =>
       \A j \in 1..Len(queue) : queue[j].kind = "send" =>
         queue[j].by # task.by \/ queue[j].by \in raced

\* The loop removes connections before it polls, and handles only events of
\* connections that were listed when it polled.
BatchInv ==
  /\ batch # {} => lpc = "handle"
  /\ task # NoTask => lpc = "trigger"
  /\ \A b \in batch : b[1] # None =>
       IF b[2] = "rtcp" THEN sess[b[1]].stale_rtcp ELSE Listed(b[1])
  /\ fault = "RTCP of a freed connection" =>
       \E c \in Conns : phase[c] = "freed" /\ sess[c].stale_rtcp

\* A client that has lost nothing has been sent, or will be when its buffer is
\* written, the answers and the packets that its session stands for.
AnswerInv ==
  \A c \in Conns :
    /\ phase[c] = "new" => last[c].seq = 0
    /\ phase[c] = "open" /\ c \notin gaps =>
         LET knows == Announced(seen[c], wbuf[c])
         IN  /\ sess[c].seq = Newest(last[c], wbuf[c]).seq
             /\ sess[c].is_closed => knows \in {"ended", "again"}
             /\ sess[c].is_play => knows \in {"playing", "again"}

\* The streaming thread has not posted the current packet for this connection.
Waiting(c) == c \in todo \/ (conn = c /\ spc \in {"size", "push"})

\* The packets of a connection are posted in their order, each once.
NewestOf(c) == Newest(last[c], wbuf[c]).no

OrderInv ==
  /\ packet + left <= MaxPackets /\ (spc = "collect" => left > 0)
  /\ conn \notin todo
  /\ \A c \in Conns : NewestOf(c) <= packet /\ (Waiting(c) => NewestOf(c) < packet)
  /\ \A t \in Tasks : t.kind = "send" =>
       /\ NewestOf(t.by) < t.no /\ t.no <= packet
       /\ Waiting(t.by) => t.no < packet
  /\ \A i, j \in 1..Len(queue) :
       i < j /\ queue[i].kind = "send" /\ queue[j].kind = "send"
         => queue[i].by # queue[j].by \/ queue[i].no < queue[j].no
  /\ task.kind = "send" =>
       \A j \in 1..Len(queue) : queue[j].kind = "send" =>
         queue[j].by # task.by \/ task.no < queue[j].no

IInv ==
  /\ TypeOK /\ ConnInv /\ HeldInv /\ PostedInv /\ OnceInv /\ SessionInv
  /\ ClientInv /\ SendInv /\ BatchInv /\ OutputIsWatched /\ AnswerInv
  /\ OrderInv /\ PacketsWhilePlaying

-----------------------------------------------------------------------------
(* What a step does to the connections and to the queue of the loop.       *)

TaskDone == task' = task \/ (task.kind = "send" /\ task' = NoTask)

connVars == <<owner, connections, fd, phase, polled>>

\* Neither changes, but for a send that has run.
Quiet == UNCHANGED <<connVars, queue, timers, raced>> /\ TaskDone

\* An open connection is closed, as Close and the send before it do it.
Closes(c) ==
  /\ phase[c] = "open"
  /\ phase' = [phase EXCEPT ![c] = "closed"]
  /\ polled' = polled \ {c}
  /\ PostRemoval(c)
  /\ UNCHANGED <<owner, connections, fd, raced>>
  /\ TaskDone

\* Writing to a connection leaves the rest alone, or closes it.
LEMMA WriteKinds ==
  ASSUME NEW c \in Conns, phase[c] = "open", NEW wb, NEW cls,
         HandleWrite(c, wb, cls)
  PROVE  \/ UNCHANGED <<owner, phase, polled, queue, timers, lost>> /\ clients' = cls
         \/ Close(c, cls)
  BY DEF HandleWrite

\* Every step belongs to one of eight kinds.
LEMMA StepKinds ==
  ASSUME TypeOK, [Next]_vars
  PROVE  \/ Quiet
         \/ \E c \in Conns : Closes(c) \/ Accept(c)
         \/ RunRemoval \/ FireTimer \/ Release \/ TakeTask \/ Post
<1> USE DEF netVars, tcpVars, outVars, streamVars, loopAndClients, connVars
<1>1. ASSUME NEW c \in Conns, Close(c, clients), phase[c] = "open", TaskDone,
             UNCHANGED <<connections, fd, raced>>
      PROVE  Closes(c)
  BY <1>1 DEF Close, Closes
<1>2. ASSUME NEW c \in Conns, Request(c)
      PROVE  Quiet \/ Closes(c)
  <2>1. /\ phase[c] = "open" /\ UNCHANGED <<connections, fd, raced>> /\ TaskDone
        /\ \/ UNCHANGED <<owner, tcpVars>>
           \/ \E wb, cls : HandleWrite(c, wb, cls)
    BY <1>2 DEF Request, SendTo, TaskDone
  <2> QED
    BY <2>1, WriteKinds DEF Quiet, Close, Closes
<1>3. ASSUME NEW c \in Conns, Gone(c) \/ Writable(c)
      PROVE  Quiet \/ Closes(c)
  <2>1. /\ phase[c] = "open" /\ UNCHANGED <<connections, fd, raced>> /\ TaskDone
        /\ Close(c, clients) \/ HandleWrite(c, wbuf[c], clients)
    BY <1>3 DEF Gone, Writable, TaskDone
  <2> QED
    BY <2>1, WriteKinds DEF Quiet, Close, Closes
<1>4. ASSUME RunSend
      PROVE  Quiet \/ \E c \in Conns : Closes(c)
  <2>1. task.by \in Conns
    BY <1>4 DEF RunSend, TypeOK, LoopOK, Removals, Sendings, NoTask
  <2>2. /\ UNCHANGED <<connections, fd, raced>> /\ TaskDone
        /\ \/ UNCHANGED <<owner, tcpVars>>
           \/ \E wb, cls : phase[task.by] = "open" /\ HandleWrite(task.by, wb, cls)
    BY <1>4 DEF RunSend, SendRtpOverTcp, SendRtpOverUdp, SendTo, TaskDone
  <2> QED
    BY <2>1, <2>2, WriteKinds DEF Quiet, Close, Closes
<1>5. ASSUME NEW c \in Conns, NothingToDo(c) \/ RtcpDangling(c)
      PROVE  Quiet
  BY <1>5 DEF NothingToDo, RtcpDangling, Quiet, TaskDone
<1>6. ASSUME SendDangling \/ ToPoll \/ BatchDone \/ AcceptNothing \/ Poll
      PROVE  Quiet
  BY <1>6 DEF SendDangling, ToPoll, BatchDone, AcceptNothing, Poll, Quiet, TaskDone
<1>7. ASSUME RtspInit \/ Collect \/ LockConnection \/ CheckSize \/ CallbackEnds \/ PushFrame
      PROVE  Quiet
  BY <1>7 DEF RtspInit, Collect, LockConnection, CheckSize, CallbackEnds, PushFrame,
              Quiet, TaskDone
<1>8. ASSUME UNCHANGED vars
      PROVE  Quiet
  BY <1>8 DEF vars, Quiet, TaskDone
<1> QED
  BY <1>2, <1>3, <1>4, <1>5, <1>6, <1>7, <1>8
     DEF Next, LoopStep, HandleEvent, StreamStep

\* The loop leaves the variables of the streaming thread alone.
LEMMA LoopKeepsStream ==
  ASSUME LoopStep \/ FireTimer \/ Poll \/ UNCHANGED vars
  PROVE  UNCHANGED streamVars
  BY DEF LoopStep, FireTimer, Poll, HandleEvent, TakeTask, RunRemoval, SendDangling,
         RunSend, ToPoll, BatchDone, AcceptNothing, Accept, Request, Gone, NothingToDo,
         Writable, RtcpDangling, vars

\* What is queued, on a timer or running is a removal or a send.
LEMMA TaskTypes ==
  ASSUME TypeOK
  PROVE  /\ queue \in Seq(Removals \union Sendings) /\ Len(queue) \in Nat
         /\ \A i \in 1..Len(queue) : queue[i] \in Removals \union Sendings
         /\ \A t \in Tasks \union timers :
              /\ t.kind = "remove" => t \in Removals /\ t.by \in Conns /\ t.fd \in Fds
              /\ t.kind = "send" => t \in Sendings /\ t.by \in Conns /\ t.no \in 0..MaxPackets
<1>1. /\ queue \in Seq(Removals \union Sendings) /\ timers \subseteq Removals
      /\ task \in Removals \union Sendings \union {NoTask}
  BY DEF TypeOK, LoopOK
<1>2. \A i \in 1..Len(queue) : queue[i] \in Removals \union Sendings
  BY <1>1, ElementOfSeq
<1>3. \A t \in Tasks \union timers : t \in Removals \union Sendings \union {NoTask}
  BY <1>1, <1>2 DEF Tasks
<1> QED
  BY <1>1, <1>2, <1>3, LenProperties DEF Removals, Sendings, NoTask

\* The removal that runs finds its connection.
LEMMA RemovalRuns ==
  ASSUME TypeOK, PostedInv, RunRemoval \/ FireTimer
  PROVE  \E t \in Tasks \union timers :
           /\ t.kind = "remove" /\ t.by \in Conns /\ t.fd \in Fds
           /\ connections[t.fd] = t.by /\ fd[t.by] = t.fd /\ phase[t.by] = "closed"
           /\ RemoveConnection(t.fd)
           /\ \/ RunRemoval /\ t = task /\ task' = NoTask /\ UNCHANGED timers
              \/ FireTimer /\ t \in timers /\ timers' = timers \ {t} /\ UNCHANGED task
           /\ UNCHANGED <<queue, fd, polled, clients, conn, raced, batch, lpc>>
<1>1. CASE RunRemoval
  <2>1. task \in Tasks /\ task.kind = "remove"
    BY <1>1 DEF RunRemoval, Tasks
  <2> QED
    BY <1>1, <2>1, TaskTypes DEF RunRemoval, PostedInv, streamVars
<1>2. CASE FireTimer
  <2>1. PICK t \in timers : timers' = timers \ {t} /\ RemoveConnection(t.fd)
    BY <1>2 DEF FireTimer
  <2>2. t.kind = "remove"
    BY <2>1 DEF TypeOK, LoopOK, Removals
  <2> QED
    BY <1>2, <2>1, <2>2, TaskTypes DEF FireTimer, PostedInv, streamVars
<1> QED
  BY <1>1, <1>2

\* A descriptor is given away and taken back with its connection.
LEMMA ConnStep ==
  ASSUME TypeOK, ConnInv, HeldInv, PostedInv, [Next]_vars
  PROVE  ConnInv'
<1> USE DEF Alive
<1>0. /\ {owner, connections} \subseteq [Fds -> Conns \union {None}]
      /\ phase \in [Conns -> {"new", "open", "closed", "freed"}]
      /\ fd \in [Conns -> Fds \union {0}] /\ None \notin Conns
      /\ conn \in Conns \union {None}
  BY Assumption DEF TypeOK, NetOK, StreamOK
<1>1. CASE UNCHANGED connVars
  BY <1>1 DEF connVars, ConnInv
<1>2. ASSUME NEW c \in Conns, Closes(c)
      PROVE  ConnInv'
  BY <1>0, <1>2 DEF Closes, ConnInv
<1>3. ASSUME NEW c \in Conns, Accept(c)
      PROVE  ConnInv'
  <2>1. PICK f \in Fds :
          /\ owner[f] = None /\ owner' = [owner EXCEPT ![f] = c]
          /\ fd' = [fd EXCEPT ![c] = f]
          /\ connections' = [connections EXCEPT ![f] = IF @ = None THEN c ELSE @]
    BY <1>3 DEF Accept
  <2>2. /\ phase[c] = "new" /\ phase' = [phase EXCEPT ![c] = "open"]
        /\ polled' = polled \union {c}
    BY <1>3 DEF Accept
  <2>3. connections[f] = None
    BY <1>0, <2>1 DEF ConnInv
  <2>4. connections' = [connections EXCEPT ![f] = c]
    BY <1>0, <2>1, <2>3
  <2>5. \A d \in Conns : Alive(d) => fd[d] # f
    BY <1>0, <2>1 DEF ConnInv
  <2> QED
    BY <1>0, <2>1, <2>2, <2>4, <2>5 DEF ConnInv
<1>4. ASSUME NEW c \in Conns, phase[c] # "open",
             phase' = [phase EXCEPT ![c] = "freed"],
             owner' = [owner EXCEPT ![fd[c]] = None],
             Alive(c), UNCHANGED <<fd, polled>>,
             connections' \in [Fds -> Conns \union {None}],
             \A g \in Fds : connections'[g] \in {connections[g], None} /\ connections'[g] # c,
             \A g \in Fds : connections[g] # c => connections'[g] = connections[g]
      PROVE  ConnInv'
  BY <1>0, <1>4 DEF ConnInv
<1>5. CASE RunRemoval \/ FireTimer
  <2>1. PICK t \in Tasks \union timers :
          /\ t.by \in Conns /\ t.fd \in Fds
          /\ connections[t.fd] = t.by /\ fd[t.by] = t.fd /\ phase[t.by] = "closed"
          /\ RemoveConnection(t.fd) /\ UNCHANGED <<fd, polled>>
    BY <1>5, RemovalRuns
  <2>2. connections' = [connections EXCEPT ![t.fd] = None]
    BY <2>1 DEF RemoveConnection
  <2>3. CASE t.by = conn
    <3>1. UNCHANGED <<phase, owner>>
      BY <2>1, <2>3 DEF RemoveConnection
    <3> QED
      BY <1>0, <2>1, <2>2, <3>1 DEF ConnInv
  <2>4. CASE t.by # conn
    <3>1. /\ phase' = [phase EXCEPT ![t.by] = "freed"]
          /\ owner' = [owner EXCEPT ![fd[t.by]] = None]
      BY <1>0, <2>1, <2>4 DEF RemoveConnection, Destroy
    <3>2. \A g \in Fds : connections[g] = t.by => g = t.fd
      BY <1>0, <2>1 DEF ConnInv
    <3> QED
      BY <1>0, <1>4, <2>1, <2>2, <3>1, <3>2
  <2> QED
    BY <2>3, <2>4
<1>6. CASE Release
  <2>1. /\ spc = "release" /\ conn \in Conns /\ Alive(conn)
        /\ UNCHANGED <<connections, fd, polled>>
    BY <1>0, <1>6 DEF Release, HeldInv
  <2>2. CASE \E f \in Fds : connections[f] = conn
    BY <1>1, <1>6, <2>2 DEF Release, connVars
  <2>3. CASE ~\E f \in Fds : connections[f] = conn
    <3>1. /\ phase' = [phase EXCEPT ![conn] = "freed"]
          /\ owner' = [owner EXCEPT ![fd[conn]] = None]
      BY <1>6, <2>3 DEF Release, Destroy
    <3>2. phase[conn] # "open"
      BY <1>0, <2>1, <2>3 DEF ConnInv
    <3> QED
      BY <1>0, <1>4, <2>1, <2>3, <3>1, <3>2
  <2> QED
    BY <2>2, <2>3
<1>7. CASE Quiet \/ TakeTask \/ Post
  BY <1>1, <1>7 DEF Quiet, TakeTask, Post, connVars, netVars
<1> QED
  BY <1>2, <1>3, <1>5, <1>6, <1>7, StepKinds

\* The streaming thread keeps its connection alive.
LEMMA HeldStep ==
  ASSUME TypeOK, ConnInv, HeldInv, PostedInv, [Next]_vars
  PROVE  HeldInv'
<1> USE DEF Alive
<1>0. /\ phase \in [Conns -> {"new", "open", "closed", "freed"}]
      /\ conn \in Conns \union {None} /\ None \notin Conns /\ todo \subseteq Conns
  BY Assumption DEF TypeOK, NetOK, StreamOK
<1>1. ASSUME UNCHANGED <<spc, conn>>, \A c \in Conns : Alive(c) /\ c = conn => Alive(c)'
      PROVE  HeldInv'
  BY <1>0, <1>1 DEF HeldInv
<1>2. CASE Release
  BY <1>2 DEF Release, HeldInv
<1>3. CASE LockConnection
  BY <1>0, <1>3 DEF LockConnection, Sends, HeldInv, loopAndClients, tcpVars
<1>4. CASE CheckSize \/ Post
  BY <1>0, <1>4 DEF CheckSize, Post, HeldInv, loopAndClients, tcpVars
<1>5. CASE RtspInit \/ Collect \/ CallbackEnds \/ PushFrame
  BY <1>0, <1>5 DEF RtspInit, Start, SetAuthConfig, AddSession, Collect, CallbackEnds,
                    PushFrame, HeldInv, loopAndClients, tcpVars
<1>6. CASE RunRemoval \/ FireTimer
  <2>1. UNCHANGED <<spc, conn>>
    BY <1>6 DEF RunRemoval, FireTimer, streamVars
  <2>2. \E f \in Fds : RemoveConnection(f)
    BY <1>6, RemovalRuns
  <2>3. \A c \in Conns : c = conn => phase'[c] = phase[c]
    BY <1>0, <2>2 DEF RemoveConnection, Destroy
  <2> QED
    BY <1>1, <2>1, <2>3
<1>7. CASE LoopStep \/ Poll \/ UNCHANGED vars
  <2>1. UNCHANGED <<spc, conn>>
    BY <1>7, LoopKeepsStream DEF streamVars
  <2>2. CASE Quiet \/ TakeTask \/ \E c \in Conns : Closes(c) \/ Accept(c)
    <3>1. \A c \in Conns : Alive(c) => Alive(c)'
      BY <1>0, <2>2 DEF Quiet, connVars, TakeTask, Closes, Accept
    <3> QED
      BY <1>1, <2>1, <3>1
  <2> QED
    BY <1>2, <1>4, <1>6, <2>2, StepKinds
<1> QED
  BY <1>2, <1>3, <1>4, <1>5, <1>6, <1>7 DEF Next, StreamStep

\* A connection is made, opened, closed and freed in this order.
LEMMA PhasesMoveOn ==
  ASSUME TypeOK, ConnInv, HeldInv, PostedInv, [Next]_vars
  PROVE  /\ phase' \in [Conns -> {"new", "open", "closed", "freed"}]
         /\ \A c \in Conns : /\ phase[c] = "freed" => phase'[c] = "freed"
                             /\ phase'[c] = "new" => phase[c] = "new"
                             /\ phase'[c] = "open" => phase[c] \in {"new", "open"}
                             /\ phase[c] = "open" /\ phase'[c] # "open" => Closes(c)
                             /\ phase[c] = "new" /\ phase'[c] # "new" => Accept(c)
                             /\ phase[c] # "freed" /\ phase'[c] = "freed" =>
                                  (RunRemoval \/ FireTimer \/ Release) /\ phase[c] = "closed"
<1>0. /\ phase \in [Conns -> {"new", "open", "closed", "freed"}] /\ None \notin Conns
      /\ conn \in Conns \union {None}
  BY Assumption DEF TypeOK, NetOK, StreamOK
<1>1. ASSUME NEW c \in Conns, Closes(c)
      PROVE  phase' = [phase EXCEPT ![c] = "closed"] /\ phase[c] = "open"
  BY <1>1 DEF Closes
<1>2. ASSUME NEW c \in Conns, Accept(c)
      PROVE  phase' = [phase EXCEPT ![c] = "open"] /\ phase[c] = "new"
  BY <1>2 DEF Accept
<1>3. CASE RunRemoval \/ FireTimer
  <2>1. PICK t \in Tasks \union timers :
          /\ t.by \in Conns /\ connections[t.fd] = t.by /\ phase[t.by] = "closed"
          /\ RemoveConnection(t.fd)
    BY <1>3, RemovalRuns
  <2>2. phase' = phase \/ phase' = [phase EXCEPT ![t.by] = "freed"]
    BY <2>1 DEF RemoveConnection, Destroy
  <2> QED
    BY <1>0, <1>3, <2>1, <2>2
<1>4. CASE Release
  <2>1. conn \in Conns /\ Alive(conn)
    BY <1>0, <1>4 DEF Release, HeldInv
  <2>2. \/ phase' = phase
        \/ /\ phase' = [phase EXCEPT ![conn] = "freed"]
           /\ \A f \in Fds : connections[f] # conn
    BY <1>4, <2>1 DEF Release, Destroy
  <2>3. phase' = phase \/ phase[conn] = "closed"
    BY <1>0, <2>1, <2>2 DEF ConnInv, Alive
  <2> QED
    BY <1>0, <1>4, <2>1, <2>2, <2>3
<1>5. CASE Quiet \/ TakeTask \/ Post
  BY <1>0, <1>5 DEF Quiet, connVars, TakeTask, Post
<1>6. CASE \E c \in Conns : Closes(c) \/ Accept(c)
  <2>1. PICK c \in Conns : Closes(c) \/ Accept(c)
    BY <1>6
  <2>2. CASE Closes(c)
    BY <1>0, <1>1, <2>2
  <2>3. CASE Accept(c)
    BY <1>0, <1>2, <2>3
  <2> QED
    BY <2>1, <2>2, <2>3
<1> QED
  BY <1>3, <1>4, <1>5, <1>6, StepKinds

-----------------------------------------------------------------------------
(* The queue: a step takes its head, appends to it or leaves it alone.     *)

\* The loop takes the task at the head of the queue, and every other task
\* moves up by one place.
LEMMA TakeIs ==
  ASSUME TypeOK, TakeTask
  PROVE  /\ task.kind = "none" /\ task' = queue[1] /\ 1 \in 1..Len(queue)
         /\ UNCHANGED <<timers, raced>>
         /\ \A i \in 1..Len(queue') : i + 1 \in 1..Len(queue) /\ queue'[i] = queue[i + 1]
         /\ Tasks' \subseteq Tasks
<1>1. /\ queue \in Seq(Removals \union Sendings) /\ queue # << >>
      /\ task = NoTask /\ task' = Head(queue) /\ queue' = Tail(queue)
      /\ UNCHANGED <<timers, raced>>
  BY DEF TypeOK, LoopOK, TakeTask
<1>2. /\ Len(queue) \in Nat /\ Len(queue) > 0 /\ Head(queue) = queue[1]
      /\ Len(Tail(queue)) = Len(queue) - 1
      /\ \A i \in 1..Len(Tail(queue)) : Tail(queue)[i] = queue[i + 1]
  BY <1>1, HeadTailProperties, EmptySeq
<1>3. \A i \in 1..Len(queue') : i + 1 \in 1..Len(queue) /\ queue'[i] = queue[i + 1]
  BY <1>1, <1>2
<1> QED
  BY <1>1, <1>2, <1>3 DEF NoTask, Tasks

\* A task that is appended comes last, and the others keep their places.
LEMMA AppendIs ==
  ASSUME TypeOK, NEW e, e \in Removals \union Sendings, queue' = Append(queue, e)
  PROVE  /\ Len(queue) \in Nat /\ Len(queue') = Len(queue) + 1
         /\ \A i \in 1..Len(queue) : queue'[i] = queue[i]
         /\ queue'[Len(queue')] = e
         /\ Tasks' \subseteq Tasks \union {e, task'}
<1>1. queue \in Seq(Removals \union Sendings)
  BY DEF TypeOK, LoopOK
<1>2. /\ Len(queue) \in Nat /\ Len(queue') = Len(queue) + 1
      /\ \A i \in 1..Len(queue) : queue'[i] = queue[i]
      /\ queue'[Len(queue')] = e
  BY <1>1, AppendProperties
<1>3. \A i \in 1..Len(queue') : i \in 1..Len(queue) \/ i = Len(queue')
  BY <1>2
<1> QED
  BY <1>2, <1>3 DEF Tasks

\* The streaming thread posts at most one send, for the connection it holds,
\* and remembers a connection that had been closed by then.
LEMMA PostIs ==
  ASSUME TypeOK, HeldInv, Post
  PROVE  /\ conn \in Conns /\ Alive(conn) /\ spc = "push" /\ spc' = "release"
         /\ UNCHANGED <<connVars, timers, task, sess, conn, todo, packet, left>>
         /\ \/ UNCHANGED <<queue, raced>>
            \/ /\ SendOf(conn, packet) \in Sendings
               /\ queue' = Append(queue, SendOf(conn, packet))
               /\ raced' = IF phase[conn] = "closed" THEN raced \union {conn} ELSE raced
  BY DEF Post, HeldInv, SendOf, Sendings, connVars, netVars, TypeOK, StreamOK

\* A removal is queued last, put on a timer or lost.
LEMMA RemovalIs ==
  ASSUME TypeOK, ConnInv, NEW c \in Conns, Closes(c)
  PROVE  /\ Removal(c) \in Removals
         /\ \/ queue' = Append(queue, Removal(c)) /\ UNCHANGED timers
            \/ timers' = timers \union {Removal(c)} /\ UNCHANGED queue
            \/ UNCHANGED <<queue, timers>>
         /\ (Tasks \union timers)' \subseteq Tasks \union timers \union {Removal(c), NoTask}
<1>1. Removal(c) \in Removals
  BY DEF Closes, ConnInv, Alive, Removal, Removals
<1>2. \/ queue' = Append(queue, Removal(c)) /\ UNCHANGED timers
      \/ timers' = timers \union {Removal(c)} /\ UNCHANGED queue
      \/ UNCHANGED <<queue, timers>>
  BY DEF Closes, PostRemoval
<1>3. task' \in {task, NoTask}
  BY DEF Closes, TaskDone
<1>4. CASE queue' = Append(queue, Removal(c)) /\ UNCHANGED timers
  <2>1. Tasks' \subseteq Tasks \union {Removal(c), task'}
    BY <1>1, <1>4, AppendIs
  <2> QED
    BY <1>1, <1>2, <1>3, <1>4, <2>1 DEF Tasks
<1>5. CASE timers' \subseteq timers \union {Removal(c)} /\ UNCHANGED queue
  <2>1. Tasks' \subseteq Tasks \union {task'}
    BY <1>5 DEF Tasks
  <2> QED
    BY <1>1, <1>2, <1>3, <1>5, <2>1 DEF Tasks
<1> QED
  BY <1>2, <1>4, <1>5

\* A quiet step brings no new task.
LEMMA QuietTasks ==
  ASSUME Quiet
  PROVE  (Tasks \union timers)' \subseteq Tasks \union timers \union {NoTask}
  BY DEF Quiet, TaskDone, Tasks

-----------------------------------------------------------------------------
(* The removals.                                                           *)

\* A removal finds the connection it was posted for, because it runs before
\* the descriptor is given back.
LEMMA PostedStep ==
  ASSUME TypeOK, ConnInv, HeldInv, PostedInv, OnceInv, [Next]_vars
  PROVE  PostedInv'
<1> DEFINE Good(t) == phase[t.by] = "closed" /\ fd[t.by] = t.fd /\ connections[t.fd] = t.by
<1>0. /\ phase \in [Conns -> {"new", "open", "closed", "freed"}]
      /\ {owner, connections} \subseteq [Fds -> Conns \union {None}]
      /\ fd \in [Conns -> Fds \union {0}] /\ None \notin Conns
      /\ \A t \in Tasks \union timers : t.kind = "remove" =>
           Good(t) /\ t.by \in Conns /\ t.fd \in Fds
      /\ NoTask.kind # "remove"
  BY Assumption, TaskTypes DEF TypeOK, NetOK, PostedInv, NoTask
<1>1. ASSUME UNCHANGED <<phase, fd, connections>>,
             (Tasks \union timers)' \subseteq Tasks \union timers \union {NoTask}
      PROVE  PostedInv'
  BY <1>0, <1>1 DEF PostedInv
<1>2. ASSUME NEW c \in Conns, Closes(c)
      PROVE  PostedInv'
  <2>1. /\ phase' = [phase EXCEPT ![c] = "closed"] /\ phase[c] = "open"
        /\ UNCHANGED <<fd, connections>>
    BY <1>2 DEF Closes
  <2>2. Good(Removal(c))'
    BY <1>0, <2>1 DEF ConnInv, Removal
  <2>3. (Tasks \union timers)' \subseteq Tasks \union timers \union {Removal(c), NoTask}
    BY <1>2, RemovalIs
  <2>4. ASSUME NEW t \in (Tasks \union timers)', t.kind = "remove"
        PROVE  Good(t)'
    <3>1. CASE t = Removal(c)
      BY <2>1, <2>2, <3>1 DEF Removal
    <3>2. CASE t # Removal(c)
      <4>1. t \in Tasks \union timers
        BY <1>0, <2>3, <2>4, <3>2
      <4>2. Good(t) /\ t.by \in Conns /\ t.by # c
        BY <1>0, <2>1, <2>4, <4>1
      <4>3. phase'[t.by] = phase[t.by]
        BY <1>0, <2>1, <4>2
      <4> QED
        BY <2>1, <4>2, <4>3
    <3> QED
      BY <3>1, <3>2
  <2> QED
    BY <2>4 DEF PostedInv
<1>3. ASSUME NEW c \in Conns, Accept(c)
      PROVE  PostedInv'
  <2>1. PICK f \in Fds :
          /\ fd' = [fd EXCEPT ![c] = f]
          /\ connections' = [connections EXCEPT ![f] = IF @ = None THEN c ELSE @]
    BY <1>3 DEF Accept
  <2>2. /\ phase[c] = "new" /\ phase' = [phase EXCEPT ![c] = "open"]
        /\ UNCHANGED <<queue, timers, task>>
    BY <1>3 DEF Accept
  <2>3. UNCHANGED <<Tasks, timers>>
    BY <2>2 DEF Tasks
  <2>4. ASSUME NEW t \in Tasks \union timers, t.kind = "remove"
        PROVE  Good(t)'
    BY <1>0, <2>1, <2>2, <2>4
  <2> QED
    BY <2>3, <2>4 DEF PostedInv
<1>4. CASE RunRemoval \/ FireTimer
  <2>1. PICK t \in Tasks \union timers :
          /\ t.kind = "remove" /\ t.by \in Conns /\ t.fd \in Fds
          /\ connections[t.fd] = t.by /\ fd[t.by] = t.fd
          /\ RemoveConnection(t.fd)
          /\ \/ RunRemoval /\ t = task /\ task' = NoTask /\ UNCHANGED timers
             \/ FireTimer /\ t \in timers /\ timers' = timers \ {t} /\ UNCHANGED task
          /\ UNCHANGED <<queue, fd>>
    BY <1>4, RemovalRuns
  <2>2. /\ connections' = [connections EXCEPT ![t.fd] = None]
        /\ \A c \in Conns : c # t.by => phase'[c] = phase[c]
    BY <1>0, <2>1 DEF RemoveConnection, Destroy
  <2>3. ASSUME NEW u \in (Tasks \union timers)', u.kind = "remove"
        PROVE  u \in Tasks \union timers /\ u.fd # t.fd
    <3>1. CASE RunRemoval /\ t = task /\ task' = NoTask /\ UNCHANGED timers
      <4>1. u \in {queue[i] : i \in 1..Len(queue)} \union timers
        BY <1>0, <2>1, <2>3, <3>1 DEF Tasks
      <4> QED
        BY <2>1, <2>3, <3>1, <4>1 DEF OnceInv, Tasks
    <3>2. CASE FireTimer /\ t \in timers /\ timers' = timers \ {t} /\ UNCHANGED task
      <4>1. u \in Tasks \/ u \in timers \ {t}
        BY <2>1, <2>3, <3>2 DEF Tasks
      <4> QED
        BY <2>1, <2>3, <3>2, <4>1 DEF OnceInv, Tasks
    <3> QED
      BY <2>1, <3>1, <3>2
  <2> QED
    BY <1>0, <2>1, <2>2, <2>3 DEF PostedInv
<1>5. CASE Release
  <2>1. UNCHANGED <<queue, timers, task, fd, connections>>
    BY <1>5 DEF Release
  <2>2. UNCHANGED <<Tasks, timers>>
    BY <2>1 DEF Tasks
  <2>3. \A c \in Conns : phase'[c] = phase[c] \/ \A f \in Fds : connections[f] # c
    BY <1>0, <1>5 DEF Release, Destroy
  <2>4. ASSUME NEW t \in Tasks \union timers, t.kind = "remove"
        PROVE  Good(t)'
    BY <1>0, <2>1, <2>3, <2>4
  <2> QED
    BY <2>2, <2>4 DEF PostedInv
<1>6. CASE TakeTask
  <2>1. Tasks' \subseteq Tasks /\ UNCHANGED <<timers, phase, fd, connections>>
    BY <1>6, TakeIs DEF TakeTask, netVars
  <2> QED
    BY <1>1, <2>1
<1>7. CASE Post
  <2>1. UNCHANGED <<timers, phase, fd, connections, task>>
    BY <1>7 DEF Post, netVars
  <2>2. UNCHANGED queue \/ (SendOf(conn, packet) \in Sendings /\
                            queue' = Append(queue, SendOf(conn, packet)))
    BY <1>7, PostIs
  <2>3. Tasks' \subseteq Tasks \union {SendOf(conn, packet)}
    BY <2>1, <2>2, AppendIs DEF Tasks
  <2>4. SendOf(conn, packet).kind # "remove"
    BY DEF SendOf
  <2>5. ASSUME NEW t \in (Tasks \union timers)', t.kind = "remove"
        PROVE  t \in Tasks \union timers
    BY <2>1, <2>3, <2>4, <2>5
  <2> QED
    BY <1>0, <2>1, <2>5 DEF PostedInv
<1>8. CASE Quiet
  BY <1>1, <1>8, QuietTasks DEF Quiet, connVars
<1> QED
  BY <1>2, <1>3, <1>4, <1>5, <1>6, <1>7, <1>8, StepKinds

\* Two removals never wait for the same descriptor.
LEMMA OnceStep ==
  ASSUME TypeOK, ConnInv, HeldInv, PostedInv, OnceInv, [Next]_vars
  PROVE  OnceInv'
<1>0. /\ Len(queue) \in Nat
      /\ \A i \in 1..Len(queue) : queue[i] \in Tasks
      /\ task \in Tasks /\ NoTask.kind # "remove"
  BY TaskTypes DEF Tasks, NoTask
<1>1. ASSUME UNCHANGED <<queue, timers>>, task'.kind = "remove" => task' = task
      PROVE  OnceInv'
  BY <1>1 DEF OnceInv
<1>2. ASSUME NEW c \in Conns, Closes(c)
      PROVE  OnceInv'
  <2>1. \A t \in Tasks \union timers : t.kind = "remove" => t.fd # fd[c]
    BY <1>2 DEF PostedInv, ConnInv, Closes
  <2>2. Removal(c).kind = "remove" /\ Removal(c).fd = fd[c]
    BY DEF Removal
  <2>3. task'.kind = "remove" => task' = task
    BY <1>0, <1>2 DEF Closes, TaskDone
  <2>4. CASE queue' = Append(queue, Removal(c)) /\ UNCHANGED timers
    <3>1. /\ Len(queue') = Len(queue) + 1
          /\ \A i \in 1..Len(queue) : queue'[i] = queue[i]
          /\ queue'[Len(queue')] = Removal(c)
      BY <1>2, <2>4, RemovalIs, AppendIs
    <3>2. \A i \in 1..Len(queue') : i \in 1..Len(queue) \/ i = Len(queue')
      BY <1>0, <3>1
    <3>3. \A i \in 1..Len(queue) : queue[i].kind = "remove" => queue[i].fd # fd[c]
      BY <1>0, <2>1
    <3>4. \A i, j \in 1..Len(queue') :
            queue'[i].kind = "remove" /\ queue'[j].kind = "remove" /\ queue'[i].fd = queue'[j].fd
              => i = j
      <4> SUFFICES ASSUME NEW i \in 1..Len(queue'), NEW j \in 1..Len(queue'),
                          queue'[i].kind = "remove", queue'[j].kind = "remove",
                          queue'[i].fd = queue'[j].fd
                   PROVE  i = j
        OBVIOUS
      <4>1. CASE i \in 1..Len(queue) /\ j \in 1..Len(queue)
        BY <3>1, <4>1 DEF OnceInv
      <4>2. CASE i \notin 1..Len(queue) \/ j \notin 1..Len(queue)
        BY <2>2, <3>1, <3>2, <3>3, <4>2
      <4> QED
        BY <4>1, <4>2
    <3>5. ASSUME NEW i \in 1..Len(queue'), queue'[i].kind = "remove"
          PROVE  /\ task'.kind = "remove" => queue'[i].fd # task'.fd
                 /\ \A t \in timers : queue'[i].fd # t.fd
      <4>1. CASE i \in 1..Len(queue)
        BY <2>3, <3>1, <3>5, <4>1 DEF OnceInv
      <4>2. CASE i = Len(queue')
        <5>1. \A t \in timers : t.kind = "remove"
          BY DEF TypeOK, LoopOK, Removals
        <5> QED
          BY <1>0, <2>1, <2>2, <2>3, <3>1, <4>2, <5>1
      <4> QED
        BY <3>2, <4>1, <4>2
    <3> QED
      BY <2>3, <2>4, <3>4, <3>5 DEF OnceInv
  <2>5. CASE timers' = timers \union {Removal(c)} /\ UNCHANGED queue
    <3>1. \A t \in timers : t.kind = "remove"
      BY DEF TypeOK, LoopOK, Removals
    <3> QED
      BY <1>0, <2>1, <2>2, <2>3, <2>5, <3>1 DEF OnceInv
  <2> QED
    BY <1>1, <1>2, <2>3, <2>4, <2>5, RemovalIs
<1>3. CASE RunRemoval \/ FireTimer
  <2>1. UNCHANGED queue /\ timers' \subseteq timers /\ (task' = task \/ task' = NoTask)
    BY <1>3, RemovalRuns
  <2> QED
    BY <1>0, <2>1 DEF OnceInv
<1>4. CASE TakeTask
  <2>1. /\ task' = queue[1] /\ 1 \in 1..Len(queue) /\ UNCHANGED timers
        /\ \A i \in 1..Len(queue') : i + 1 \in 1..Len(queue) /\ queue'[i] = queue[i + 1]
    BY <1>4, TakeIs
  <2>2. \A i, j \in 1..Len(queue') : i + 1 = j + 1 => i = j
    BY <1>0, <2>1
  <2>3. \A i \in 1..Len(queue') : i + 1 # 1
    BY <1>0, <2>1
  <2>4. ASSUME NEW i \in 1..Len(queue'), NEW j \in 1..Len(queue'),
               queue'[i].kind = "remove", queue'[j].kind = "remove",
               queue'[i].fd = queue'[j].fd
        PROVE  i = j
    BY <2>1, <2>2, <2>4 DEF OnceInv
  <2>5. ASSUME NEW i \in 1..Len(queue'), queue'[i].kind = "remove"
        PROVE  /\ task'.kind = "remove" => queue'[i].fd # task'.fd
               /\ \A t \in timers' : queue'[i].fd # t.fd
    BY <2>1, <2>3, <2>5 DEF OnceInv
  <2>6. ASSUME NEW t \in timers'
        PROVE  /\ task'.kind = "remove" => t.fd # task'.fd
               /\ \A u \in timers' : t.fd = u.fd => t = u
    BY <2>1 DEF OnceInv
  <2> QED
    BY <2>4, <2>5, <2>6 DEF OnceInv
<1>5. CASE Post
  <2>0. /\ UNCHANGED <<timers, task>>
        /\ \/ UNCHANGED queue
           \/ /\ queue' = Append(queue, SendOf(conn, packet))
              /\ SendOf(conn, packet) \in Sendings
    BY <1>5, PostIs
  <2>1. CASE UNCHANGED queue
    BY <1>1, <2>0, <2>1
  <2>2. CASE queue' = Append(queue, SendOf(conn, packet)) /\ SendOf(conn, packet) \in Sendings
    <3>1. /\ Len(queue') = Len(queue) + 1
          /\ \A i \in 1..Len(queue) : queue'[i] = queue[i]
          /\ queue'[Len(queue')] = SendOf(conn, packet)
      BY <2>2, AppendIs
    <3>2. SendOf(conn, packet).kind # "remove"
      BY DEF SendOf
    <3>3. \A i \in 1..Len(queue') : queue'[i].kind = "remove" =>
            i \in 1..Len(queue) /\ queue'[i] = queue[i]
      BY <1>0, <3>1, <3>2
    <3> QED
      BY <2>0, <3>3 DEF OnceInv
  <2> QED
    BY <2>0, <2>1, <2>2
<1>6. CASE Release \/ \E c \in Conns : Accept(c)
  BY <1>1, <1>6 DEF Release, Accept
<1>7. CASE Quiet
  BY <1>0, <1>1, <1>7 DEF Quiet, TaskDone
<1> QED
  BY <1>2, <1>3, <1>4, <1>5, <1>6, <1>7, StepKinds

-----------------------------------------------------------------------------
(* The session of a connection.                                            *)

Answers == {"none", "other", "play", "teardown"}

\* What a request may change, and what its answer says of it.
Follows(s, o, m) ==
  /\ o.s \in Sessions /\ o.res \in Answers
  /\ s.session_id => o.s.session_id
  /\ o.s.session_id => s.session_id \/ (m = "DESCRIBE" /\ o.res = "other" /\ o.s.rtp = "live")
  /\ o.s.rtp \in {s.rtp, "live"}
  /\ s.stale_rtcp => o.s.stale_rtcp
  /\ o.s.seq = s.seq
  /\ o.res \in {"none", "other"} => o.s.is_play = s.is_play /\ o.s.is_closed = s.is_closed
  /\ o.res = "play" => o.s.is_closed = s.is_closed
  /\ o.res = "teardown" => o.s.is_closed /\ (o.s.is_play => s.is_closed /\ s.is_play)

\* An answer that leaves the session as it is, but for its authentication.
LEMMA NothingFollows ==
  ASSUME NEW s \in Sessions, NEW o, NEW m, o.s \in Sessions, o.res \in {"none", "other"},
         o.s.session_id = s.session_id, o.s.rtp = s.rtp, o.s.stale_rtcp = s.stale_rtcp,
         o.s.seq = s.seq, o.s.is_play = s.is_play, o.s.is_closed = s.is_closed
  PROVE  Follows(s, o, m)
<1>1. /\ s.session_id \in BOOLEAN /\ s.stale_rtcp \in BOOLEAN
      /\ s.is_play \in BOOLEAN /\ s.is_closed \in BOOLEAN
  BY DEF Sessions
<1> QED
  BY <1>1 DEF Follows, Answers

\* A handler changes no more of the session than its answer says.
LEMMA Handled ==
  ASSUME NEW s \in Sessions, NEW m \in Methods, NEW p \in BOOLEAN, NEW o \in Handle(s, m, p)
  PROVE  Follows(s, o, m)
<1> DEFINE t == o.s
           Same == /\ t.session_id = s.session_id /\ t.rtp = s.rtp
                   /\ t.stale_rtcp = s.stale_rtcp /\ t.seq = s.seq
                   /\ t.is_play = s.is_play /\ t.is_closed = s.is_closed
<1>0. /\ s.session_id \in BOOLEAN /\ s.rtp \in {"none", "live", "freed"}
      /\ s.stale_rtcp \in BOOLEAN /\ s.is_play \in BOOLEAN /\ s.is_closed \in BOOLEAN
      /\ s.seq \in Nat
  BY DEF Sessions
<1>a. ASSUME t \in Sessions, o.res \in {"none", "other"}, Same
      PROVE  Follows(s, o, m)
  BY <1>a, NothingFollows
<1>1. CASE m = "OPTIONS"
  <2>1. o.res = "other" /\ t = s
    BY <1>1 DEF Handle, HandleOption, Outcome
  <2> QED
    BY <1>a, <2>1
<1>2. CASE m = "DESCRIBE"
  <2>1. /\ o.res = "other"
        /\ \/ t = [s EXCEPT !.rtp = "live"]
           \/ t = [[s EXCEPT !.rtp = "live"] EXCEPT !.session_id = TRUE]
    BY <1>2 DEF Handle, Describe, Outcome
  <2>2. /\ t \in Sessions /\ t.rtp = "live"
        /\ t.session_id = s.session_id \/ t.session_id
        /\ t.stale_rtcp = s.stale_rtcp /\ t.seq = s.seq
        /\ t.is_play = s.is_play /\ t.is_closed = s.is_closed
    BY <2>1 DEF Sessions
  <2>3. s.session_id => t.session_id
    BY <1>0, <2>1 DEF Sessions
  <2> QED
    BY <1>0, <1>2, <2>1, <2>2, <2>3 DEF Follows, Answers
<1>3. CASE m = "SETUP_TCP"
  <2>1. /\ o.res = "other"
        /\ t = IF s.session_id
               THEN [s EXCEPT !.transport = "tcp", !.closes_again = TRUE] ELSE s
    BY <1>3 DEF Handle, SetupTcp, SetupRtpOverTcp, Outcome
  <2>2. t \in Sessions /\ Same
    BY <2>1 DEF Sessions, Transports
  <2> QED
    BY <1>a, <2>1, <2>2
<1>4. CASE m = "SETUP_UDP"
  <2>0. o \in SetupUdp(s)
    BY <1>4 DEF Handle
  <2>1. /\ o.res = "other"
        /\ \/ t = s
           \/ t = [s EXCEPT !.closes_again = TRUE]
           \/ t = [SetupRtpOverUdp(s) EXCEPT !.rtcp = TRUE, !.stale_rtcp = @ \/ s.rtcp]
    <3>1. CASE s.session_id
      <4> DEFINE u == [SetupRtpOverUdp(s) EXCEPT !.rtcp = TRUE, !.stale_rtcp = @ \/ s.rtcp]
      <4>1. o \in {Outcome(NoFreePorts(s), "other"), Outcome(u, "other")}
        BY <2>0, <3>1 DEF SetupUdp
      <4> HIDE DEF u
      <4>2. o.res = "other" /\ (t = NoFreePorts(s) \/ t = u)
        BY <4>1 DEF Outcome
      <4> QED
        BY <4>2 DEF u, NoFreePorts
    <3>2. CASE ~s.session_id
      BY <2>0, <3>2 DEF SetupUdp, Outcome
    <3> QED
      BY <3>1, <3>2
  <2>2. /\ t.session_id = s.session_id /\ t.rtp = s.rtp /\ t.seq = s.seq
        /\ t.is_play = s.is_play /\ t.is_closed = s.is_closed
    BY <2>1 DEF Sessions, SetupRtpOverUdp
  <2>3. t \in Sessions /\ (s.stale_rtcp => t.stale_rtcp)
    BY <1>0, <2>1 DEF Sessions, Transports, SetupRtpOverUdp
  <2> QED
    BY <1>0, <2>1, <2>2, <2>3 DEF Follows, Answers
<1>5. CASE m = "PLAY"
  <2>1. CASE o.res = "none" /\ t = s
    BY <1>a, <2>1
  <2>2. CASE o.res = "play" /\ t = [s EXCEPT !.is_play = (s.transport # "none")]
    <3>1. /\ t \in Sessions
          /\ t.session_id = s.session_id /\ t.rtp = s.rtp /\ t.seq = s.seq
          /\ t.stale_rtcp = s.stale_rtcp /\ t.is_closed = s.is_closed
      BY <2>2 DEF Sessions
    <3> QED
      BY <1>0, <2>2, <3>1 DEF Follows, Answers
  <2> QED
    BY <1>5, <2>1, <2>2 DEF Handle, HandlePlay, Play, Outcome
<1>6. CASE m = "TEARDOWN"
  <2>1. CASE o.res = "none" /\ t = s
    BY <1>a, <2>1
  <2>2. CASE o.res = "teardown" /\ t = Teardown(s)
    <3>1. /\ t \in Sessions /\ t.is_closed /\ (t.is_play => s.is_closed /\ s.is_play)
      BY <1>0, <2>2 DEF Sessions, Teardown
    <3>2. /\ t.session_id = s.session_id /\ t.rtp = s.rtp /\ t.seq = s.seq
          /\ t.stale_rtcp = s.stale_rtcp
      BY <2>2 DEF Sessions, Teardown
    <3> QED
      BY <1>0, <2>2, <3>1, <3>2 DEF Follows, Answers
  <2> QED
    BY <1>6, <2>1, <2>2 DEF Handle, HandleTeardown, Outcome
<1>7. CASE m = "GET_PARAMETER"
  <2>1. o.res \in {"none", "other"} /\ t = s
    BY <1>7 DEF Handle, HandleGetParameter, Outcome
  <2> QED
    BY <1>a, <2>1
<1> QED
  BY <1>1, <1>2, <1>3, <1>4, <1>5, <1>6, <1>7 DEF Methods

\* Nor does a request, which is handled or challenged.
LEMMA Served ==
  ASSUME NEW s \in Sessions, NEW m \in Methods, NEW p \in BOOLEAN, NEW o \in Serve(s, m, p)
  PROVE  Follows(s, o, m)
<1>1. CASE \E t \in LetThrough(s) : o \in Handle(t, m, p)
  <2>1. PICK t \in LetThrough(s) : o \in Handle(t, m, p)
    BY <1>1
  <2>2. /\ t \in Sessions
        /\ t.session_id = s.session_id /\ t.rtp = s.rtp /\ t.stale_rtcp = s.stale_rtcp
        /\ t.seq = s.seq /\ t.is_play = s.is_play /\ t.is_closed = s.is_closed
    BY <2>1 DEF LetThrough, Sessions
  <2> QED
    BY <2>1, <2>2, Handled DEF Follows
<1>2. CASE o = Challenged(s)
  <2>1. o.res = "other" /\ o.s = [s EXCEPT !.nonce = TRUE]
    BY <1>2 DEF Challenged, Outcome
  <2>2. /\ o.s \in Sessions
        /\ o.s.session_id = s.session_id /\ o.s.rtp = s.rtp /\ o.s.seq = s.seq
        /\ o.s.stale_rtcp = s.stale_rtcp
        /\ o.s.is_play = s.is_play /\ o.s.is_closed = s.is_closed
    BY <2>1 DEF Sessions
  <2> QED
    BY <2>1, <2>2, NothingFollows
<1>3. CASE o \in Handle(s, m, p)
  BY <1>3, Handled
<1> QED
  BY <1>1, <1>2, <1>3 DEF Serve

\* The session of a freed connection, and a packet's mark on a live one.
LEMMA DestroyedIs ==
  ASSUME NEW s \in Sessions
  PROVE  /\ RtpDestroyed(s) \in Sessions
         /\ ~RtpDestroyed(s).session_id
         /\ RtpDestroyed(s).stale_rtcp = s.stale_rtcp
         /\ RtpDestroyed(s).rtp = IF s.rtp = "live" THEN "freed" ELSE s.rtp
<1>1. /\ s.rtp \in {"none", "live", "freed"} /\ s.closes_again \in BOOLEAN
      /\ s.stale_rtcp \in BOOLEAN
  BY DEF Sessions
<1> DEFINE n == NewSession(FALSE)
<1>2. n \in Sessions /\ n.session_id = FALSE
  BY DEF NewSession, Sessions, Transports
<1> HIDE DEF n
<1>3. RtpDestroyed(s) = [n EXCEPT !.rtp = IF s.rtp = "live" THEN "freed" ELSE s.rtp,
                                  !.closes_again = s.closes_again,
                                  !.stale_rtcp = s.stale_rtcp]
  BY DEF RtpDestroyed, n
<1> QED
  BY <1>1, <1>2, <1>3 DEF Sessions

\* What a packet leaves of a session.
Sent(s) == {SetRtpHeader(s), Teardown(SetRtpHeader(s))}

\* What sending a packet leaves of a session: all but its sequence numbers.
LEMMA SentIs ==
  ASSUME NEW s \in Sessions, NEW t \in Sent(s)
  PROVE  /\ t \in Sessions
         /\ t.session_id = s.session_id /\ t.rtp = s.rtp /\ t.stale_rtcp = s.stale_rtcp
<1>1. /\ SetRtpHeader(s) \in Sessions
      /\ SetRtpHeader(s).session_id = s.session_id
      /\ SetRtpHeader(s).rtp = s.rtp
      /\ SetRtpHeader(s).stale_rtcp = s.stale_rtcp
  BY DEF SetRtpHeader, Sessions
<1>2. ASSUME NEW u \in Sessions
      PROVE  /\ Teardown(u) \in Sessions
             /\ Teardown(u).session_id = u.session_id
             /\ Teardown(u).rtp = u.rtp
             /\ Teardown(u).stale_rtcp = u.stale_rtcp
  BY DEF Teardown, Sessions
<1> QED
  BY <1>1, <1>2 DEF Sent

\* The sessions change with a request, a packet, a new connection and an end.
Started(c) == /\ Accept(c) /\ phase[c] = "new" /\ phase'[c] = "open"
              /\ sess' = [sess EXCEPT ![c] = NewSession(auth_info)]

Requested(c) ==
  /\ Request(c) /\ phase[c] = "open"
  /\ \E m \in Requests : \E o \in Serve(sess[c], m, published) :
       sess' = [sess EXCEPT ![c] = o.s]

PacketSent ==
  /\ RunSend /\ task.by \in Conns /\ sess[task.by].rtp = "live"
  /\ \E t \in Sent(sess[task.by]) : sess' = [sess EXCEPT ![task.by] = t]

Ended(c) ==
  /\ RunRemoval \/ FireTimer \/ Release
  /\ phase'[c] = "freed" /\ Alive(c)
  /\ sess' = [sess EXCEPT ![c] = RtpDestroyed(@)]

\* Every step treats the sessions in one of six ways.
LEMMA SessionKinds ==
  ASSUME TypeOK, HeldInv, PostedInv, [Next]_vars
  PROVE  \/ UNCHANGED sess \/ PacketSent \/ CallbackEnds
         \/ \E c \in Conns : Started(c) \/ Requested(c) \/ Ended(c)
<1> USE DEF netVars, tcpVars, outVars, streamVars, loopAndClients
<1>1. ASSUME NEW c \in Conns, Request(c)
      PROVE  Requested(c)
  BY <1>1 DEF Request, Requested
<1>2. ASSUME NEW c \in Conns, Accept(c)
      PROVE  Started(c)
  BY <1>2 DEF Accept, Started, TypeOK, NetOK
<1>3. CASE RunSend
  <2>1. task.by \in Conns
    BY <1>3 DEF RunSend, TypeOK, LoopOK, Removals, Sendings, NoTask
  <2>2. /\ sess[task.by].rtp = "live"
        /\ \/ UNCHANGED sess
           \/ \E t \in Sent(sess[task.by]) : sess' = [sess EXCEPT ![task.by] = t]
    BY <1>3 DEF RunSend, RtpAlive, SendRtpOverTcp, SendRtpOverUdp, Sent
  <2> QED
    BY <1>3, <2>1, <2>2 DEF PacketSent
<1>4. CASE RunRemoval \/ FireTimer
  <2>1. PICK t \in Tasks \union timers :
          /\ t.by \in Conns /\ connections[t.fd] = t.by /\ phase[t.by] = "closed"
          /\ RemoveConnection(t.fd)
    BY <1>4, RemovalRuns
  <2>2. \/ UNCHANGED sess
        \/ /\ phase'[t.by] = "freed" /\ Alive(t.by)
           /\ sess' = [sess EXCEPT ![t.by] = RtpDestroyed(@)]
    BY <2>1 DEF RemoveConnection, Destroy, Alive, TypeOK, NetOK
  <2> QED
    BY <1>4, <2>1, <2>2 DEF Ended
<1>5. CASE Release
  <2>1. conn \in Conns /\ Alive(conn)
    BY <1>5 DEF Release, HeldInv, TypeOK, StreamOK
  <2>2. \/ UNCHANGED sess
        \/ phase'[conn] = "freed" /\ sess' = [sess EXCEPT ![conn] = RtpDestroyed(@)]
    BY <1>5, <2>1 DEF Release, Destroy, TypeOK, NetOK
  <2> QED
    BY <1>5, <2>1, <2>2 DEF Ended
<1>6. ASSUME NEW c \in Conns, Gone(c) \/ Writable(c) \/ NothingToDo(c) \/ RtcpDangling(c)
      PROVE  UNCHANGED sess
  BY <1>6 DEF Gone, Writable, NothingToDo, RtcpDangling
<1>7. CASE \/ TakeTask \/ SendDangling \/ ToPoll \/ BatchDone \/ AcceptNothing \/ Poll
           \/ UNCHANGED vars
  BY <1>7 DEF TakeTask, SendDangling, ToPoll, BatchDone, AcceptNothing, Poll, vars
<1>8. CASE RtspInit \/ Collect \/ LockConnection \/ CheckSize \/ Post \/ PushFrame
  BY <1>8 DEF RtspInit, Collect, LockConnection, CheckSize, Post, PushFrame
<1> QED
  BY <1>1, <1>2, <1>3, <1>4, <1>5, <1>6, <1>7, <1>8
     DEF Next, LoopStep, HandleEvent, StreamStep

\* An RtpConnection is made for an open connection and destroyed after it.
LEMMA SessionStep ==
  ASSUME TypeOK, ConnInv, HeldInv, PostedInv, SessionInv, [Next]_vars
  PROVE  SessionInv' /\ sess' \in [Conns -> Sessions]
<1> DEFINE P == phase \in [Conns -> {"new", "open", "closed", "freed"}]
           Good(s, ph) == /\ s.session_id => s.rtp = "live"
                          /\ s.rtp = "freed" => ph = "freed"
                          /\ ph = "new" => s.rtp = "none" /\ ~s.stale_rtcp
<1>0. /\ sess \in [Conns -> Sessions] /\ P
      /\ \A c \in Conns : Good(sess[c], phase[c]) /\ sess[c] \in Sessions
      /\ auth_info \in BOOLEAN /\ published \in BOOLEAN
  BY DEF TypeOK, NetOK, StreamOK, SessionInv
\* A connection moves on, and no freed or open one becomes new.
<1>1. \A c \in Conns : /\ phase[c] = "freed" => phase'[c] = "freed"
                       /\ phase'[c] = "new" => phase[c] = "new"
  BY <1>0, PhasesMoveOn
<1> SUFFICES sess' \in [Conns -> Sessions] /\ \A c \in Conns : Good(sess'[c], phase'[c])
  BY DEF SessionInv
<1>2. ASSUME NEW c \in Conns, NEW s \in Sessions, sess' = [sess EXCEPT ![c] = s],
             Good(s, phase'[c])
      PROVE  sess' \in [Conns -> Sessions] /\ \A d \in Conns : Good(sess'[d], phase'[d])
  BY <1>0, <1>1, <1>2
<1>3. CASE UNCHANGED sess
  BY <1>0, <1>1, <1>3
<1>4. ASSUME NEW c \in Conns, Started(c)
      PROVE  sess' \in [Conns -> Sessions] /\ \A d \in Conns : Good(sess'[d], phase'[d])
  <2>1. NewSession(auth_info) \in Sessions
    BY <1>0 DEF NewSession, Sessions, Transports
  <2>2. NewSession(auth_info).rtp = "none" /\ ~NewSession(auth_info).session_id
    BY DEF NewSession
  <2> QED
    BY <1>2, <1>4, <2>1, <2>2 DEF Started
<1>5. ASSUME NEW c \in Conns, Requested(c)
      PROVE  sess' \in [Conns -> Sessions] /\ \A d \in Conns : Good(sess'[d], phase'[d])
  <2>1. PICK m \in Requests, o \in UNION {Serve(sess[c], n, published) : n \in Requests} :
          o \in Serve(sess[c], m, published) /\ sess' = [sess EXCEPT ![c] = o.s]
    BY <1>5 DEF Requested
  <2>2. m \in Methods
    BY <2>1, Assumption
  <2>3. Follows(sess[c], o, m)
    BY <1>0, <2>1, <2>2, Served
  <2>4. phase[c] = "open" /\ sess[c].rtp \in {"none", "live"}
    BY <1>0, <1>5 DEF Requested, Sessions
  <2>5. Good(o.s, phase'[c])
    BY <1>0, <1>1, <2>3, <2>4 DEF Follows
  <2> QED
    BY <1>2, <2>1, <2>3, <2>5 DEF Follows
<1>6. CASE PacketSent
  <2> DEFINE c == task.by
  <2>1. PICK t \in Sent(sess[c]) : sess' = [sess EXCEPT ![c] = t]
    BY <1>6 DEF PacketSent
  <2>2. c \in Conns /\ sess[c].rtp = "live"
    BY <1>6 DEF PacketSent
  <2>3. /\ t \in Sessions /\ t.session_id = sess[c].session_id
        /\ t.rtp = "live" /\ t.stale_rtcp = sess[c].stale_rtcp
    BY <1>0, <2>1, <2>2, SentIs
  <2> HIDE DEF c
  <2> QED
    BY <1>0, <1>1, <1>2, <2>1, <2>2, <2>3
<1>7. ASSUME NEW c \in Conns, Ended(c)
      PROVE  sess' \in [Conns -> Sessions] /\ \A d \in Conns : Good(sess'[d], phase'[d])
  <2>1. /\ sess[c] \in Sessions /\ phase'[c] = "freed"
        /\ sess' = [sess EXCEPT ![c] = RtpDestroyed(sess[c])]
    BY <1>0, <1>7 DEF Ended
  <2> QED
    BY <1>2, <2>1, DestroyedIs
<1>8. CASE CallbackEnds
  <2>1. \A c \in Conns : sess'[c] \in {sess[c], RtpDestroyed(sess[c])}
    BY <1>0, <1>8 DEF CallbackEnds
  <2>2. \A c \in Conns : sess'[c] = RtpDestroyed(sess[c]) => sess'[c] = sess[c] \/ phase[c] = "freed"
    BY <1>0, <1>8 DEF CallbackEnds
  <2>3. sess' = [c \in Conns |-> sess'[c]]
    BY <1>8 DEF CallbackEnds
  <2>4. \A c \in Conns : Good(sess'[c], phase'[c]) /\ sess'[c] \in Sessions
    BY <1>0, <1>1, <2>1, <2>2, DestroyedIs
  <2> QED
    BY <2>3, <2>4
<1> QED
  BY <1>3, <1>4, <1>5, <1>6, <1>7, <1>8, SessionKinds

\* The removal of a connection touches nothing of the open ones.
LEMMA NotOpened ==
  ASSUME TypeOK, ConnInv, HeldInv, PostedInv, RunRemoval \/ FireTimer \/ Release
  PROVE  \A c \in Conns : /\ phase'[c] = "open" <=> phase[c] = "open"
                          /\ phase[c] = "open" => sess'[c] = sess[c]
<1>0. /\ phase \in [Conns -> {"new", "open", "closed", "freed"}] /\ None \notin Conns
      /\ conn \in Conns \union {None} /\ sess \in [Conns -> Sessions]
  BY Assumption DEF TypeOK, NetOK, StreamOK
<1>1. ASSUME NEW c \in Conns, phase[c] # "open", UNCHANGED <<phase, sess>> \/ Destroy(c)
      PROVE  \A d \in Conns : /\ phase'[d] = "open" <=> phase[d] = "open"
                              /\ phase[d] = "open" => sess'[d] = sess[d]
  BY <1>0, <1>1 DEF Destroy
<1>2. CASE RunRemoval \/ FireTimer
  <2>1. PICK t \in Tasks \union timers :
          /\ t.by \in Conns /\ connections[t.fd] = t.by /\ phase[t.by] = "closed"
          /\ RemoveConnection(t.fd)
    BY <1>2, RemovalRuns
  <2> QED
    BY <1>1, <2>1 DEF RemoveConnection
<1>3. CASE Release
  <2>1. conn \in Conns
    BY <1>0, <1>3 DEF Release, HeldInv
  <2>2. CASE \E f \in Fds : connections[f] = conn
    BY <1>3, <2>2 DEF Release
  <2>3. CASE \A f \in Fds : connections[f] # conn
    BY <1>1, <1>3, <2>1, <2>3 DEF Release, ConnInv, Alive
  <2> QED
    BY <2>2, <2>3
<1> QED
  BY <1>2, <1>3

-----------------------------------------------------------------------------
(* The clients of the session.                                             *)

ClientsOK == clients \in [Fds -> Conns \union {None}]

\* The clients cls are the open connections that have described the session,
\* when c has done so if has holds.
Lists(cls, c, has) ==
  /\ cls \in [Fds -> Conns \union {None}]
  /\ \A d \in Conns, f \in Fds :
       (cls[f] = d) <=> /\ phase[d] = "open" /\ fd[d] = f
                        /\ IF d = c THEN has ELSE sess[d].session_id

\* A DESCRIBE adds its connection, under whose descriptor nobody is listed.
LEMMA Adds ==
  ASSUME TypeOK, ConnInv, ClientInv, NEW c \in Conns, phase[c] = "open"
  PROVE  Lists(AddClient(c), c, TRUE)
<1>0. /\ clients \in [Fds -> Conns \union {None}] /\ None \notin Conns
      /\ fd \in [Conns -> Fds \union {0}] /\ fd[c] \in Fds
  BY Assumption DEF TypeOK, NetOK, ConnInv, Alive
<1>1. \A d \in Conns : phase[d] = "open" /\ fd[d] = fd[c] => d = c
  BY DEF ConnInv, Alive
<1>2. clients[fd[c]] \in {None, c}
  BY <1>0, <1>1 DEF ClientInv
<1>3. AddClient(c) = [clients EXCEPT ![fd[c]] = c]
  <2>1. CASE clients[fd[c]] = None
    BY <2>1 DEF AddClient
  <2>2. CASE clients[fd[c]] = c
    BY <1>0, <2>2 DEF AddClient
  <2> QED
    BY <1>2, <2>1, <2>2
<1>4. ASSUME NEW d \in Conns, NEW f \in Fds
      PROVE  ([clients EXCEPT ![fd[c]] = c][f] = d) <=>
               /\ phase[d] = "open" /\ fd[d] = f
               /\ IF d = c THEN TRUE ELSE sess[d].session_id
  <2>1. CASE f = fd[c]
    BY <1>0, <1>1, <2>1
  <2>2. CASE f # fd[c]
    BY <1>0, <2>2 DEF ClientInv
  <2> QED
    BY <2>1, <2>2
<1> QED
  BY <1>0, <1>3, <1>4 DEF Lists

\* The end of a connection takes it off the list, the others stay.
LEMMA Closed ==
  ASSUME TypeOK, ConnInv, NEW c \in Conns, NEW cls, NEW s \in Sessions, phase[c] = "open",
         Lists(cls, c, s.session_id), sess' = [sess EXCEPT ![c] = s],
         Close(c, cls), UNCHANGED fd
  PROVE  ClientInv' /\ ClientsOK'
<1>0. /\ cls \in [Fds -> Conns \union {None}] /\ None \notin Conns
      /\ sess \in [Conns -> Sessions] /\ fd \in [Conns -> Fds \union {0}] /\ fd[c] \in Fds
      /\ phase \in [Conns -> {"new", "open", "closed", "freed"}]
  BY Assumption DEF TypeOK, NetOK, ConnInv, Alive, Lists
<1>1. phase' = [phase EXCEPT ![c] = "closed"] /\ sess'[c] = s
  BY <1>0 DEF Close
<1>2. clients' = IF s.session_id THEN [cls EXCEPT ![fd[c]] = None] ELSE cls
  BY <1>1 DEF Close, RemoveClient
<1>3. \A f \in Fds : clients'[f] = IF cls[f] = c THEN None ELSE cls[f]
  <2>1. ASSUME NEW f \in Fds, cls[f] = c
        PROVE  s.session_id /\ f = fd[c]
    BY <2>1 DEF Lists
  <2>2. s.session_id => cls[fd[c]] = c
    BY <1>0 DEF Lists
  <2> QED
    BY <1>0, <1>2, <2>1, <2>2
<1>4. clients' \in [Fds -> Conns \union {None}]
  BY <1>0, <1>2
<1>5. ASSUME NEW d \in Conns, NEW f \in Fds
      PROVE  (clients'[f] = d) <=> (phase'[d] = "open" /\ sess'[d].session_id /\ fd'[d] = f)
  <2>1. CASE d = c
    BY <1>0, <1>1, <1>3, <2>1
  <2>2. CASE d # c
    <3>1. (clients'[f] = d) <=> (cls[f] = d)
      BY <1>0, <1>3, <2>2
    <3>2. phase'[d] = phase[d] /\ sess'[d] = sess[d]
      BY <1>0, <1>1, <2>2
    <3> QED
      BY <2>2, <3>1, <3>2 DEF Lists
  <2> QED
    BY <2>1, <2>2
<1> QED
  BY <1>4, <1>5 DEF ClientInv, ClientsOK

\* Writing to a connection keeps the list, or ends the connection.
LEMMA Written ==
  ASSUME TypeOK, ConnInv, NEW c \in Conns, NEW wb, NEW cls, NEW s \in Sessions,
         phase[c] = "open", Lists(cls, c, s.session_id), sess' = [sess EXCEPT ![c] = s],
         \/ HandleWrite(c, wb, cls) \/ Close(c, cls)
         \/ UNCHANGED phase /\ clients' = cls,
         UNCHANGED fd
  PROVE  ClientInv' /\ ClientsOK'
<1>1. CASE Close(c, cls)
  BY <1>1, Closed
<1>2. CASE UNCHANGED phase /\ clients' = cls
  <2>1. sess \in [Conns -> Sessions]
    BY DEF TypeOK, NetOK
  <2> QED
    BY <1>2, <2>1 DEF Lists, ClientInv, ClientsOK
<1> QED
  BY <1>1, <1>2, WriteKinds

\* At every step the clients of the session are those that described it.
LEMMA ClientStep ==
  ASSUME TypeOK, ConnInv, HeldInv, PostedInv, SessionInv, ClientInv, [Next]_vars
  PROVE  ClientInv' /\ ClientsOK'
<1> USE DEF netVars, tcpVars, outVars, streamVars, loopAndClients
<1>0. /\ clients \in [Fds -> Conns \union {None}] /\ None \notin Conns
      /\ sess \in [Conns -> Sessions] /\ fd \in [Conns -> Fds \union {0}]
      /\ phase \in [Conns -> {"new", "open", "closed", "freed"}]
  BY Assumption DEF TypeOK, NetOK
<1>1. ASSUME UNCHANGED <<clients, fd>>,
             \A c \in Conns : (phase'[c] = "open" /\ sess'[c].session_id)
                                <=> (phase[c] = "open" /\ sess[c].session_id)
      PROVE  ClientInv' /\ ClientsOK'
  BY <1>0, <1>1 DEF ClientInv, ClientsOK
<1>2. \A c \in Conns : Lists(clients, c, sess[c].session_id) /\ sess[c] \in Sessions
  BY <1>0 DEF ClientInv, Lists
<1>3. ASSUME NEW c \in Conns, Request(c)
      PROVE  ClientInv' /\ ClientsOK'
  <2>0. phase[c] = "open" /\ UNCHANGED fd
    BY <1>3 DEF Request
  <2>1. PICK m \in Requests : \E o \in Serve(sess[c], m, published) :
          LET cls == IF m = "DESCRIBE" /\ o.s.session_id THEN AddClient(c) ELSE clients
          IN  /\ sess' = [sess EXCEPT ![c] = o.s]
              /\ IF o.res = "none"
                 THEN UNCHANGED <<owner, tcpVars, outVars, gaps>>
                 ELSE SendTo(c, [kind |-> o.res], cls)
    BY <1>3 DEF Request
  <2>2. PICK o \in Serve(sess[c], m, published) :
          LET cls == IF m = "DESCRIBE" /\ o.s.session_id THEN AddClient(c) ELSE clients
          IN  /\ sess' = [sess EXCEPT ![c] = o.s]
              /\ IF o.res = "none"
                 THEN UNCHANGED <<owner, tcpVars, outVars, gaps>>
                 ELSE SendTo(c, [kind |-> o.res], cls)
    BY <2>1
  <2>3. m \in Methods /\ published \in BOOLEAN
    BY Assumption DEF TypeOK, StreamOK
  <2>4. Follows(sess[c], o, m)
    BY <1>2, <2>3, Served
  <2> DEFINE cls == IF m = "DESCRIBE" /\ o.s.session_id THEN AddClient(c) ELSE clients
  <2>5. Lists(cls, c, o.s.session_id)
    <3>1. CASE m = "DESCRIBE" /\ o.s.session_id
      <4>1. Lists(AddClient(c), c, TRUE)
        BY <2>0, Adds
      <4> QED
        BY <3>1, <4>1 DEF Lists
    <3>2. CASE ~(m = "DESCRIBE" /\ o.s.session_id)
      <4>1. o.s.session_id <=> sess[c].session_id
        BY <2>4, <3>2 DEF Follows
      <4> QED
        BY <1>2, <3>2, <4>1 DEF Lists
    <3> QED
      BY <3>1, <3>2
  <2>6. o.res = "none" => Lists(clients, c, o.s.session_id)
    <3>1. o.res = "none" => (o.s.session_id <=> sess[c].session_id)
      BY <2>4 DEF Follows
    <3> QED
      BY <1>2, <3>1 DEF Lists
  <2>7. o.s \in Sessions /\ sess' = [sess EXCEPT ![c] = o.s]
    BY <2>2, <2>4 DEF Follows
  <2>8. CASE o.res = "none"
    <3>1. UNCHANGED <<phase, clients>>
      BY <2>2, <2>8
    <3> QED
      BY <2>0, <2>6, <2>7, <2>8, <3>1, Written
  <2>9. CASE o.res # "none"
    <3>1. HandleWrite(c, AppendTo(c, [kind |-> o.res]), cls)
      BY <2>2, <2>9 DEF SendTo
    <3> HIDE DEF cls
    <3> QED
      BY <2>0, <2>5, <2>7, <3>1, Written
  <2> QED
    BY <2>8, <2>9
<1>4. ASSUME NEW c \in Conns, Gone(c) \/ Writable(c)
      PROVE  ClientInv' /\ ClientsOK'
  <2>1. /\ phase[c] = "open" /\ UNCHANGED <<fd, sess>>
        /\ Close(c, clients) \/ HandleWrite(c, wbuf[c], clients)
    BY <1>4 DEF Gone, Writable
  <2>2. sess' = [sess EXCEPT ![c] = sess[c]]
    BY <1>0, <2>1
  <2> QED
    BY <1>2, <2>1, <2>2, Written
<1>5. CASE RunSend
  <2> DEFINE c == task.by
  <2>1. c \in Conns /\ UNCHANGED fd
    BY <1>5 DEF RunSend, TypeOK, LoopOK, Removals, Sendings, NoTask
  <2>2. \/ UNCHANGED <<phase, clients>>
        \/ \E wb : phase[c] = "open" /\ HandleWrite(c, wb, clients)
    BY <1>5 DEF RunSend, SendRtpOverTcp, SendRtpOverUdp, SendTo
  <2>3. PICK t \in Sent(sess[c]) \union {sess[c]} : sess' = [sess EXCEPT ![c] = t]
    <3>1. UNCHANGED sess \/ \E t \in Sent(sess[c]) : sess' = [sess EXCEPT ![c] = t]
      BY <1>5 DEF RunSend, SendRtpOverTcp, SendRtpOverUdp, Sent
    <3>2. sess = [sess EXCEPT ![c] = sess[c]]
      BY <1>0, <2>1
    <3> QED
      BY <3>1, <3>2
  <2>4. t \in Sessions /\ t.session_id = sess[c].session_id
    BY <1>2, <2>1, <2>3, SentIs
  <2> HIDE DEF c
  <2>5. CASE UNCHANGED <<phase, clients>>
    BY <1>0, <1>1, <2>1, <2>3, <2>4, <2>5
  <2>6. CASE \E wb : phase[c] = "open" /\ HandleWrite(c, wb, clients)
    <3>1. Lists(clients, c, t.session_id)
      BY <1>2, <2>1, <2>4 DEF Lists
    <3> QED
      BY <2>1, <2>3, <2>4, <2>6, <3>1, Written
  <2> QED
    BY <2>2, <2>5, <2>6
<1>6. ASSUME NEW c \in Conns, Accept(c)
      PROVE  ClientInv' /\ ClientsOK'
  <2>1. PICK f \in Fds : fd' = [fd EXCEPT ![c] = f]
    BY <1>6 DEF Accept
  <2>2. /\ phase[c] = "new" /\ phase' = [phase EXCEPT ![c] = "open"] /\ UNCHANGED clients
        /\ sess' = [sess EXCEPT ![c] = NewSession(auth_info)]
    BY <1>6 DEF Accept
  <2>3. ~NewSession(auth_info).session_id
    BY DEF NewSession
  <2> QED
    BY <1>0, <2>1, <2>2, <2>3 DEF ClientInv, ClientsOK
<1>7. CASE RunRemoval \/ FireTimer \/ Release
  <2>1. UNCHANGED <<clients, fd>>
    BY <1>7 DEF RunRemoval, FireTimer, Release
  <2>2. \A c \in Conns : /\ phase'[c] = "open" <=> phase[c] = "open"
                         /\ phase[c] = "open" => sess'[c] = sess[c]
    BY ONLY TypeOK, ConnInv, HeldInv, PostedInv, <1>7, NotOpened
  <2> QED
    BY <1>1, <2>1, <2>2
<1>8. CASE Collect
  <2>1. \A f \in Fds : clients[f] # None => RtpAlive(clients[f])
    BY <1>0 DEF ClientInv, SessionInv, RtpAlive
  <2>2. clients' = clients
    BY <1>0, <1>8, <2>1 DEF Collect
  <2> QED
    BY <1>1, <1>8, <2>2 DEF Collect
<1>9. CASE CallbackEnds
  <2>1. \A c \in Conns : phase[c] = "open" => sess'[c] = sess[c]
    BY <1>0, <1>9 DEF CallbackEnds
  <2> QED
    BY <1>1, <1>9, <2>1 DEF CallbackEnds
<1>10. ASSUME NEW c \in Conns, NothingToDo(c) \/ RtcpDangling(c)
       PROVE  ClientInv' /\ ClientsOK'
  BY <1>1, <1>10 DEF NothingToDo, RtcpDangling
<1>11. CASE \/ TakeTask \/ SendDangling \/ ToPoll \/ BatchDone \/ AcceptNothing \/ Poll
            \/ RtspInit \/ LockConnection \/ CheckSize \/ Post \/ PushFrame
  BY <1>1, <1>11 DEF TakeTask, SendDangling, ToPoll, BatchDone, AcceptNothing, Poll,
     RtspInit, LockConnection, CheckSize, Post, PushFrame
<1>12. CASE UNCHANGED vars
  BY <1>1, <1>12 DEF vars
<1> QED
  BY <1>3, <1>4, <1>5, <1>6, <1>7, <1>8, <1>9, <1>10, <1>11, <1>12
     DEF Next, LoopStep, HandleEvent, StreamStep

-----------------------------------------------------------------------------
(* The sends.                                                              *)

IsSend(t) == t.kind = "send"

\* A send is queued before the removal of its connection, or its connection
\* was closed already when it was posted.
LEMMA SendStep ==
  ASSUME TypeOK, ConnInv, HeldInv, PostedInv, SendInv, [Next]_vars
  PROVE  SendInv'
<1>0. /\ Len(queue) \in Nat
      /\ {owner, connections} \subseteq [Fds -> Conns \union {None}]
      /\ fd \in [Conns -> Fds \union {0}] /\ None \notin Conns
      /\ \A t \in Tasks : t.kind = "send" => t.by \in Conns
      /\ \A i \in 1..Len(queue) : queue[i] \in Tasks
      /\ task \in Tasks /\ NoTask.kind = "none"
  BY Assumption, TaskTypes DEF TypeOK, NetOK, Tasks, NoTask
<1>1. ASSUME UNCHANGED <<queue, raced>>, task' \in {task, NoTask},
             \A t \in Tasks' : IsSend(t) /\ Listed(t.by) => t.by \in raced \/ Listed(t.by)'
      PROVE  SendInv'
  <2>1. Tasks' \subseteq Tasks \union {NoTask}
    BY <1>1 DEF Tasks
  <2>2. \A t \in Tasks' : IsSend(t) => t.by \in raced \/ Listed(t.by)'
    BY <1>0, <1>1, <2>1 DEF SendInv, IsSend
  <2>3. task'.kind = "remove" => task' = task
    BY <1>0, <1>1
  <2> QED
    BY <1>1, <2>2, <2>3 DEF SendInv, IsSend
<1>2. ASSUME NEW c \in Conns, Closes(c)
      PROVE  SendInv'
  <2>1. /\ UNCHANGED <<connections, fd, raced>> /\ task' \in {task, NoTask}
        /\ Removal(c).kind = "remove"
    BY <1>2 DEF Closes, TaskDone, Removal
  <2>2. \A d : Listed(d)' <=> Listed(d)
    BY <2>1 DEF Listed
  <2>3. CASE UNCHANGED queue
    BY <1>1, <2>1, <2>2, <2>3
  <2>4. CASE queue' = Append(queue, Removal(c)) /\ UNCHANGED timers
    <3>1. /\ Len(queue') = Len(queue) + 1
          /\ \A i \in 1..Len(queue) : queue'[i] = queue[i]
          /\ queue'[Len(queue')] = Removal(c)
          /\ Tasks' \subseteq Tasks \union {Removal(c), task'}
      BY <1>2, <2>4, RemovalIs, AppendIs
    <3>2. \A j \in 1..Len(queue') : queue'[j].kind = "send" => j \in 1..Len(queue)
      BY <1>0, <2>1, <3>1
    <3>3. \A i, j \in 1..Len(queue') : i < j /\ j \in 1..Len(queue) => i \in 1..Len(queue)
      BY <1>0, <3>1
    <3>4. \A t \in Tasks' : t.kind = "send" => t.by \in raced' \/ Listed(t.by)'
      BY <1>0, <2>1, <2>2, <3>1 DEF SendInv
    <3>5. task'.kind = "remove" => task' = task
      BY <1>0, <2>1
    <3> QED
      BY <2>1, <3>1, <3>2, <3>3, <3>4, <3>5 DEF SendInv
  <2> QED
    BY <1>2, <2>3, <2>4, RemovalIs
<1>3. ASSUME NEW c \in Conns, Accept(c)
      PROVE  SendInv'
  <2>1. PICK f \in Fds :
          /\ fd' = [fd EXCEPT ![c] = f]
          /\ connections' = [connections EXCEPT ![f] = IF @ = None THEN c ELSE @]
    BY <1>3 DEF Accept
  <2>2. phase[c] = "new" /\ UNCHANGED <<queue, raced, task>>
    BY <1>3 DEF Accept
  <2>3. \A d \in Conns : Listed(d) => d # c /\ Listed(d)'
    BY <1>0, <2>1, <2>2 DEF ConnInv, Alive, Listed
  <2>4. Tasks' = Tasks
    BY <2>2 DEF Tasks
  <2> QED
    BY <1>0, <1>1, <2>2, <2>3, <2>4 DEF IsSend
<1>4. CASE RunRemoval \/ FireTimer
  <2>1. PICK t \in Tasks \union timers :
          /\ t.kind = "remove" /\ t.by \in Conns /\ t.fd \in Fds
          /\ connections[t.fd] = t.by /\ fd[t.by] = t.fd
          /\ RemoveConnection(t.fd)
          /\ \/ RunRemoval /\ t = task /\ task' = NoTask /\ UNCHANGED timers
             \/ FireTimer /\ t \in timers /\ timers' = timers \ {t} /\ UNCHANGED task
          /\ UNCHANGED <<queue, fd, raced>>
    BY <1>4, RemovalRuns
  <2>2. connections' = [connections EXCEPT ![t.fd] = None]
    BY <2>1 DEF RemoveConnection
  <2>3. \A d \in Conns : Listed(d) /\ d # t.by => Listed(d)'
    BY <1>0, <2>1, <2>2 DEF Listed
  <2>4. ASSUME NEW u \in Tasks', IsSend(u), Listed(u.by)
        PROVE  u.by \in raced \/ Listed(u.by)'
    <3>1. CASE RunRemoval /\ t = task /\ task' = NoTask
      <4>1. PICK j \in 1..Len(queue) : u = queue[j]
        BY <1>0, <2>1, <2>4, <3>1 DEF Tasks, IsSend
      <4>2. u.by # t.by \/ u.by \in raced
        BY <2>1, <2>4, <3>1, <4>1 DEF SendInv, IsSend
      <4> QED
        BY <1>0, <2>3, <2>4, <4>1, <4>2 DEF IsSend
    <3>2. CASE FireTimer
      <4>1. queue = << >> /\ task = NoTask /\ UNCHANGED <<queue, task>>
        BY <2>1, <3>2 DEF FireTimer
      <4>2. u = NoTask
        BY <4>1 DEF Tasks
      <4> QED
        BY <1>0, <2>4, <4>2 DEF IsSend
    <3> QED
      BY <2>1, <3>1, <3>2
  <2> QED
    BY <1>1, <2>1, <2>4
<1>5. CASE TakeTask
  <2>1. /\ task' = queue[1] /\ 1 \in 1..Len(queue) /\ UNCHANGED <<raced, connections, fd>>
        /\ \A i \in 1..Len(queue') : i + 1 \in 1..Len(queue) /\ queue'[i] = queue[i + 1]
        /\ Tasks' \subseteq Tasks
    BY <1>5, TakeIs DEF TakeTask, netVars
  <2>2. \A t \in Tasks' : t.kind = "send" => t.by \in raced' \/ Listed(t.by)'
    BY <2>1 DEF SendInv, Listed
  <2>3. ASSUME NEW i \in 1..Len(queue'), NEW j \in 1..Len(queue'), i < j,
               queue'[i].kind = "remove", queue'[j].kind = "send"
        PROVE  queue'[i].by # queue'[j].by \/ queue'[j].by \in raced'
    <3>1. i + 1 < j + 1
      BY <2>3
    <3> QED
      BY <2>1, <2>3, <3>1 DEF SendInv
  <2>4. ASSUME task'.kind = "remove", NEW j \in 1..Len(queue'), queue'[j].kind = "send"
        PROVE  queue'[j].by # task'.by \/ queue'[j].by \in raced'
    <3>1. 1 < j + 1
      OBVIOUS
    <3> QED
      BY <2>1, <2>4, <3>1 DEF SendInv
  <2> QED
    BY <2>2, <2>3, <2>4 DEF SendInv
<1>6. CASE Post
  <2> DEFINE e == SendOf(conn, packet)
  <2>1. /\ conn \in Conns /\ Alive(conn)
        /\ UNCHANGED <<connections, fd, timers, task>>
        /\ \/ UNCHANGED <<queue, raced>>
           \/ /\ e \in Sendings /\ queue' = Append(queue, e)
              /\ raced' = IF phase[conn] = "closed" THEN raced \union {conn} ELSE raced
    BY <1>6, PostIs DEF connVars
  <2>2. \A d : Listed(d)' <=> Listed(d)
    BY <2>1 DEF Listed
  <2>3. CASE UNCHANGED <<queue, raced>>
    BY <1>1, <2>1, <2>2, <2>3
  <2>4. CASE e \in Sendings /\ queue' = Append(queue, e)
             /\ raced' = IF phase[conn] = "closed" THEN raced \union {conn} ELSE raced
    <3>1. /\ Len(queue') = Len(queue) + 1
          /\ \A i \in 1..Len(queue) : queue'[i] = queue[i]
          /\ queue'[Len(queue')] = e
          /\ Tasks' \subseteq Tasks \union {e, task'}
      BY <2>4, AppendIs
    <3>2. e.kind = "send" /\ e.by = conn
      BY DEF SendOf
    <3> HIDE DEF e
    <3>3. raced \subseteq raced'
      BY <2>4
    <3>4. conn \in raced' \/ Listed(conn)
      BY <2>1, <2>4 DEF ConnInv, Alive, Listed
    <3>5. \A t \in Tasks : t.kind = "remove" => t.by # conn \/ conn \in raced'
      BY <2>1, <2>4 DEF PostedInv
    <3>6. \A i \in 1..Len(queue') : i \in 1..Len(queue) \/ i = Len(queue')
      BY <1>0, <3>1
    <3>7. \A t \in Tasks' : t.kind = "send" => t.by \in raced' \/ Listed(t.by)'
      BY <1>0, <2>1, <2>2, <3>1, <3>2, <3>3, <3>4 DEF SendInv
    <3>8. ASSUME NEW i \in 1..Len(queue'), NEW j \in 1..Len(queue'), i < j,
                 queue'[i].kind = "remove", queue'[j].kind = "send"
          PROVE  queue'[i].by # queue'[j].by \/ queue'[j].by \in raced'
      <4>1. i \in 1..Len(queue) /\ queue'[i] = queue[i]
        BY <1>0, <3>1, <3>8
      <4>2. CASE j \in 1..Len(queue)
        BY <3>1, <3>3, <3>8, <4>1, <4>2 DEF SendInv
      <4>3. CASE j = Len(queue')
        BY <1>0, <3>1, <3>2, <3>5, <3>8, <4>1, <4>3
      <4> QED
        BY <3>6, <4>2, <4>3
    <3>9. ASSUME task'.kind = "remove", NEW j \in 1..Len(queue'), queue'[j].kind = "send"
          PROVE  queue'[j].by # task'.by \/ queue'[j].by \in raced'
      <4>1. CASE j \in 1..Len(queue)
        BY <2>1, <3>1, <3>3, <3>9, <4>1 DEF SendInv
      <4>2. CASE j = Len(queue')
        BY <1>0, <2>1, <3>1, <3>2, <3>5, <3>9, <4>2
      <4> QED
        BY <3>6, <4>1, <4>2
    <3> QED
      BY <3>7, <3>8, <3>9 DEF SendInv
  <2> QED
    BY <2>1, <2>3, <2>4
<1>7. CASE Quiet \/ Release
  <2>1. UNCHANGED <<queue, raced, connections, fd>> /\ task' \in {task, NoTask}
    BY <1>7 DEF Quiet, Release, TaskDone, connVars
  <2>2. \A d : Listed(d)' <=> Listed(d)
    BY <2>1 DEF Listed
  <2> QED
    BY <1>1, <2>1, <2>2
<1> QED
  BY <1>2, <1>3, <1>4, <1>5, <1>6, <1>7, StepKinds

-----------------------------------------------------------------------------
(* The socket events.                                                      *)

\* A listed connection stays listed until its removal runs.
LEMMA ListedStays ==
  ASSUME TypeOK, ConnInv, HeldInv, PostedInv, [Next]_vars, ~(RunRemoval \/ FireTimer)
  PROVE  \A c \in Conns : Listed(c) => Listed(c)'
<1>0. /\ connections \in [Fds -> Conns \union {None}]
      /\ fd \in [Conns -> Fds \union {0}] /\ None \notin Conns
  BY Assumption DEF TypeOK, NetOK
<1>1. CASE UNCHANGED <<connections, fd>>
  BY <1>1 DEF Listed
<1>2. ASSUME NEW c \in Conns, Accept(c)
      PROVE  \A d \in Conns : Listed(d) => Listed(d)'
  <2>1. PICK f \in Fds :
          /\ fd' = [fd EXCEPT ![c] = f]
          /\ connections' = [connections EXCEPT ![f] = IF @ = None THEN c ELSE @]
    BY <1>2 DEF Accept
  <2>2. phase[c] = "new"
    BY <1>2 DEF Accept
  <2> QED
    BY <1>0, <2>1, <2>2 DEF ConnInv, Alive, Listed
<1>3. CASE Quiet \/ Release \/ TakeTask \/ Post \/ \E c \in Conns : Closes(c)
  BY <1>1, <1>3 DEF Quiet, connVars, Release, TakeTask, Post, Closes, netVars
<1> QED
  BY <1>2, <1>3, StepKinds

\* An RTCP channel that was left behind stays registered.
LEMMA StaleStays ==
  ASSUME TypeOK, ConnInv, HeldInv, PostedInv, SessionInv, [Next]_vars
  PROVE  \A c \in Conns : sess[c].stale_rtcp => sess'[c].stale_rtcp
<1>0. sess \in [Conns -> Sessions] /\ published \in BOOLEAN /\ Requests \subseteq Methods
  BY Assumption DEF TypeOK, NetOK, StreamOK
<1>1. ASSUME NEW c \in Conns, NEW s, sess' = [sess EXCEPT ![c] = s],
             sess[c].stale_rtcp => s.stale_rtcp
      PROVE  \A d \in Conns : sess[d].stale_rtcp => sess'[d].stale_rtcp
  BY <1>0, <1>1
<1>2. ASSUME NEW c \in Conns, Started(c)
      PROVE  \A d \in Conns : sess[d].stale_rtcp => sess'[d].stale_rtcp
  BY <1>1, <1>2 DEF Started, SessionInv
<1>3. ASSUME NEW c \in Conns, Requested(c)
      PROVE  \A d \in Conns : sess[d].stale_rtcp => sess'[d].stale_rtcp
  <2>1. PICK m \in Requests : \E o \in Serve(sess[c], m, published) :
          sess' = [sess EXCEPT ![c] = o.s]
    BY <1>3 DEF Requested
  <2>2. PICK o \in Serve(sess[c], m, published) : sess' = [sess EXCEPT ![c] = o.s]
    BY <2>1
  <2>3. sess[c].stale_rtcp => o.s.stale_rtcp
    BY <1>0, Served DEF Follows
  <2> QED
    BY <1>1, <2>2, <2>3
<1>4. CASE PacketSent
  <2>1. task.by \in Conns /\ \E t \in Sent(sess[task.by]) : sess' = [sess EXCEPT ![task.by] = t]
    BY <1>4 DEF PacketSent
  <2> QED
    BY <1>0, <1>1, <2>1, SentIs
<1>5. ASSUME NEW c \in Conns, Ended(c)
      PROVE  \A d \in Conns : sess[d].stale_rtcp => sess'[d].stale_rtcp
  <2>1. sess' = [sess EXCEPT ![c] = RtpDestroyed(sess[c])]
    BY <1>0, <1>5 DEF Ended
  <2> QED
    BY <1>0, <1>1, <2>1, DestroyedIs
<1>6. CASE CallbackEnds
  <2>1. \A c \in Conns : sess'[c] \in {sess[c], RtpDestroyed(sess[c])}
    BY <1>0, <1>6 DEF CallbackEnds
  <2> QED
    BY <1>0, <2>1, DestroyedIs
<1>7. CASE UNCHANGED sess
  BY <1>7
<1> QED
  BY <1>2, <1>3, <1>4, <1>5, <1>6, <1>7, SessionKinds

\* Only a datagram for an RTCP channel left behind reaches a freed connection
\* as a socket event.
RtcpFault == "RTCP of a freed connection"

\* The fault of a dangling RTCP channel is set by one action only.
LEMMA FaultKinds ==
  ASSUME Next
  PROVE  fault' # RtcpFault \/ \E c \in Conns : RtcpDangling(c)
<1> USE DEF Sound, RtcpFault
<1>1. \A c : fault' \in ClosesAgain(c) => fault' # RtcpFault
  BY DEF ClosesAgain
<1>2. ASSUME NEW c, fault = "none", UNCHANGED fault \/ Destroy(c)
      PROVE  fault' # RtcpFault
  BY <1>1, <1>2 DEF Destroy
<1>3. CASE RunRemoval \/ FireTimer \/ Release
  BY <1>2, <1>3 DEF RunRemoval, FireTimer, Release, RemoveConnection
<1>4. CASE CallbackEnds
  BY <1>1, <1>4 DEF CallbackEnds
<1>5. ASSUME NEW c \in Conns, Accept(c) \/ Request(c) \/ Gone(c) \/ NothingToDo(c) \/ Writable(c)
      PROVE  fault' # RtcpFault
  BY <1>5 DEF Accept, Request, Gone, NothingToDo, Writable, Handles
<1>6. CASE \/ TakeTask \/ SendDangling \/ RunSend \/ ToPoll \/ BatchDone \/ AcceptNothing
           \/ Poll
  BY <1>6 DEF TakeTask, SendDangling, RunSend, ToPoll, BatchDone, AcceptNothing, Poll,
     Handles
<1>7. CASE RtspInit \/ Collect \/ LockConnection \/ CheckSize \/ Post \/ PushFrame
  BY <1>7 DEF RtspInit, Collect, LockConnection, CheckSize, Post, PushFrame
<1> QED
  BY <1>3, <1>4, <1>5, <1>6, <1>7 DEF Next, LoopStep, HandleEvent, StreamStep

\* The loop takes and runs tasks, polls, or handles one event.
LEMMA LoopKinds ==
  ASSUME [Next]_vars
  PROVE  \/ UNCHANGED <<lpc, task, batch>>
         \/ TakeTask
         \/ task # NoTask /\ task' = NoTask /\ UNCHANGED <<lpc, batch>>
         \/ ToPoll \/ Poll \/ BatchDone
         \/ lpc = "handle" /\ batch' \subseteq batch /\ UNCHANGED <<lpc, task>>
<1> USE DEF netVars, tcpVars, outVars, streamVars, loopAndClients
<1>1. CASE RunRemoval \/ RunSend
  BY <1>1 DEF RunRemoval, RunSend, NoTask
<1>2. CASE FireTimer \/ SendDangling \/ UNCHANGED vars
  BY <1>2 DEF FireTimer, SendDangling, vars
<1>3. CASE RtspInit \/ Collect \/ LockConnection \/ CheckSize \/ Post \/ Release
           \/ CallbackEnds \/ PushFrame
  BY <1>3 DEF RtspInit, Collect, LockConnection, CheckSize, Post, Release, CallbackEnds,
              PushFrame
<1>4. CASE HandleEvent
  <2>1. AcceptNothing \/ (\E c \in Conns : Accept(c) \/ Request(c) \/ NothingToDo(c))
          => lpc = "handle" /\ batch' \subseteq batch /\ UNCHANGED <<lpc, task>>
    BY DEF AcceptNothing, Accept, Request, NothingToDo, Handles
  <2>2. \A c \in Conns : Gone(c) \/ Writable(c) \/ RtcpDangling(c)
          => lpc = "handle" /\ batch' \subseteq batch /\ UNCHANGED <<lpc, task>>
    BY DEF Gone, Writable, RtcpDangling, Handles
  <2> QED
    BY <1>4, <2>1, <2>2 DEF HandleEvent
<1> QED
  BY <1>1, <1>2, <1>3, <1>4 DEF Next, LoopStep, StreamStep

\* A socket event is handled before a connection can go.
LEMMA BatchStep ==
  ASSUME TypeOK, ConnInv, HeldInv, PostedInv, SessionInv, BatchInv, [Next]_vars
  PROVE  BatchInv'
<1> DEFINE Good(b) == IF b[2] = "rtcp" THEN sess[b[1]].stale_rtcp ELSE Listed(b[1])
<1>0. /\ batch \subseteq Events /\ polled \subseteq Conns /\ None \notin Conns
      /\ \A b \in batch : b[1] # None => b[1] \in Conns
      /\ fd \in [Conns -> Fds \union {0}]
  BY Assumption DEF TypeOK, NetOK, LoopOK, Events
<1>1. batch' # {} => lpc' = "handle"
  BY LoopKinds DEF BatchInv, TakeTask, ToPoll, Poll, BatchDone
<1>2. task' # NoTask => lpc' = "trigger"
  BY LoopKinds DEF BatchInv, TakeTask, ToPoll, Poll, BatchDone
<1>3. \A c \in Conns : sess[c].stale_rtcp => sess'[c].stale_rtcp
  BY StaleStays
<1>4. ASSUME NEW b \in batch', b[1] # None
      PROVE  Good(b)'
  <2>1. CASE Poll
    <3>1. b \in SocketEvents /\ UNCHANGED <<sess, fd, connections>>
      BY <1>4, <2>1 DEF Poll, netVars
    <3>2. \A c \in polled : Listed(c)
      BY <1>0 DEF ConnInv, Alive, Listed
    <3>3. Good(b)
      BY <1>0, <1>4, <3>1, <3>2 DEF SocketEvents
    <3> QED
      BY <3>1, <3>3 DEF Listed
  <2>2. CASE batch' \subseteq batch /\ task = NoTask /\ lpc = "handle"
    <3>1. ~(RunRemoval \/ FireTimer)
      BY <2>2 DEF RunRemoval, FireTimer, NoTask
    <3>2. \A c \in Conns : Listed(c) => Listed(c)'
      BY ListedStays, <3>1
    <3>3. b[1] \in Conns /\ Good(b)
      BY <1>0, <1>4, <2>2 DEF BatchInv
    <3> QED
      BY <1>3, <3>2, <3>3
  <2>3. Poll \/ (batch' \subseteq batch /\ task = NoTask /\ lpc = "handle")
    BY <1>4, LoopKinds DEF BatchInv, TakeTask, ToPoll, BatchDone
  <2> QED
    BY <2>1, <2>2, <2>3
<1>5. ASSUME fault' = RtcpFault
      PROVE  \E c \in Conns : phase'[c] = "freed" /\ sess'[c].stale_rtcp
  <2>1. CASE UNCHANGED vars
    BY <1>5, <2>1 DEF vars, netVars, tcpVars, BatchInv, RtcpFault
  <2>2. CASE Next
    <3>1. PICK c \in Conns : RtcpDangling(c)
      BY <1>5, <2>2, FaultKinds
    <3>2. <<c, "rtcp">> \in batch /\ phase[c] = "freed" /\ UNCHANGED <<phase, sess>>
      BY <3>1 DEF RtcpDangling, Handles, tcpVars
    <3> QED
      BY <1>0, <3>2 DEF BatchInv
  <2> QED
    BY <2>1, <2>2
<1> QED
  BY <1>1, <1>2, <1>4, <1>5 DEF BatchInv, RtcpFault

-----------------------------------------------------------------------------
(* The messages of a client.                                               *)

\* A set of indices has a greatest element, which Max returns.
LEMMA Greatest ==
  ASSUME NEW n \in Nat, NEW T, T \subseteq 1..n, T # {}
  PROVE  Max(T) \in T /\ \A i \in T : Max(T) >= i
<1> DEFINE U == {n - i : i \in T}
<1>1. U \subseteq Nat /\ U # {}
  <2>1. PICK i \in T : TRUE
    OBVIOUS
  <2>2. n - i \in U
    BY <2>1
  <2>3. \A j \in 1..n : n - j \in Nat
    OBVIOUS
  <2> QED
    BY <2>2, <2>3
<1>2. PICK u \in U : \A v \in U : ~(<<v, u>> \in OpToRel(<, Nat))
  <2> HIDE DEF U
  <2> QED
    BY <1>1, WFMin, NatLessThanWellFounded, Zenon
<1>3. \A v \in U : ~(v < u)
  BY <1>1, <1>2, Zenon DEF OpToRel
<1>4. PICK t \in T : u = n - t
  BY <1>2
<1>5. \A i \in T : t >= i
  <2> TAKE i \in T
  <2>1. n - i \in U /\ ~(n - i < n - t)
    BY <1>3, <1>4
  <2> QED
    BY <2>1
<1> QED
  BY <1>5 DEF Max

\* An element that none exceeds is the maximum.
LEMMA GreatestIs ==
  ASSUME NEW n \in Nat, NEW T, T \subseteq 1..n, NEW t \in T, \A i \in T : t >= i
  PROVE  Max(T) = t
<1>1. Max(T) \in T /\ Max(T) >= t /\ t >= Max(T)
  BY Greatest
<1>2. t \in 1..n /\ Max(T) \in 1..n
  BY <1>1
<1> QED
  BY <1>1, <1>2

Knowledge == {"nothing", "playing", "ended", "again"}
Newests   == [no : 0..MaxPackets, seq : Nat]

\* w is a, then b.
Splits(w, a, b) ==
  /\ w \in Seq(Messages) /\ a \in Seq(Messages) /\ b \in Seq(Messages)
  /\ Len(w) = Len(a) + Len(b)
  /\ \A i \in 1..Len(a) : w[i] = a[i]
  /\ \A i \in 1..Len(b) : w[Len(a) + i] = b[i]

\* What a part of a sequence of messages is, the empty part included.
LEMMA PartIs ==
  ASSUME NEW w \in Seq(Messages), NEW m \in 1..Len(w) + 1, NEW n \in m - 1..Len(w)
  PROVE  /\ SubSeq(w, m, n) \in Seq(Messages) /\ Len(SubSeq(w, m, n)) = n - m + 1
         /\ \A i \in 1..n - m + 1 : SubSeq(w, m, n)[i] = w[m + i - 1]
<1>1. Len(w) \in Nat /\ \A i \in 1..Len(w) : w[i] \in Messages
  BY ElementOfSeq, LenProperties
<1>2. \A i \in m..n : w[i] \in Messages
  BY <1>1
<1>3. m \in Int /\ n \in Int /\ (m <= n \/ n = m - 1)
  BY <1>1
<1> QED
  BY <1>2, <1>3, SubSeqProperties

\* What is sent first and what is left make up the buffer; so do they when
\* the buffer is looked at up to a message that is left.
LEMMA CutSplits ==
  ASSUME NEW w \in Seq(Messages), NEW k \in 0..Len(w), NEW n \in k..Len(w)
  PROVE  Splits(SubSeq(w, 1, n), SubSeq(w, 1, k),
                SubSeq(SubSeq(w, k + 1, Len(w)), 1, n - k))
<1>0. Len(w) \in Nat
  BY LenProperties
<1> DEFINE u == SubSeq(w, 1, n)
           a == SubSeq(w, 1, k)
           r == SubSeq(w, k + 1, Len(w))
           b == SubSeq(r, 1, n - k)
<1>2. u \in Seq(Messages) /\ Len(u) = n /\ \A i \in 1..n : u[i] = w[i]
  BY <1>0, PartIs
<1>3. a \in Seq(Messages) /\ Len(a) = k /\ \A i \in 1..k : a[i] = w[i]
  BY <1>0, PartIs
<1>4. /\ r \in Seq(Messages) /\ Len(r) = Len(w) - k
      /\ \A i \in 1..Len(w) - k : r[i] = w[k + i]
  BY <1>0, PartIs
<1>5. b \in Seq(Messages) /\ Len(b) = n - k /\ \A i \in 1..n - k : b[i] = r[i]
  <2> HIDE DEF r
  <2> QED
    BY <1>0, <1>4, PartIs
<1> HIDE DEF u, a, b, r
<1>6. Splits(u, a, b)
  BY <1>0, <1>2, <1>3, <1>4, <1>5, SMTT(30) DEF Splits
<1> QED
  BY <1>6 DEF u, a, b, r

\* The whole buffer.
LEMMA WholeSplits ==
  ASSUME NEW w \in Seq(Messages), NEW k \in 0..Len(w)
  PROVE  Splits(w, SubSeq(w, 1, k), SubSeq(w, k + 1, Len(w)))
<1>0. Len(w) \in Nat
  BY LenProperties
<1> DEFINE a == SubSeq(w, 1, k)
           r == SubSeq(w, k + 1, Len(w))
<1>3. a \in Seq(Messages) /\ Len(a) = k /\ \A i \in 1..k : a[i] = w[i]
  BY <1>0, PartIs
<1>4. /\ r \in Seq(Messages) /\ Len(r) = Len(w) - k
      /\ \A i \in 1..Len(w) - k : r[i] = w[k + i]
  BY <1>0, PartIs
<1> HIDE DEF a, r
<1>6. Splits(w, a, r)
  BY <1>0, <1>3, <1>4 DEF Splits
<1> QED
  BY <1>6 DEF a, r

\* Where a message of the whole is found.
LEMMA SplitIs ==
  ASSUME NEW w, NEW a, NEW b, Splits(w, a, b)
  PROVE  /\ Len(a) \in Nat /\ Len(b) \in Nat /\ Len(w) = Len(a) + Len(b)
         /\ \A i \in 1..Len(a) : i \in 1..Len(w) /\ w[i] = a[i]
         /\ \A i \in 1..Len(b) : Len(a) + i \in 1..Len(w) /\ w[Len(a) + i] = b[i]
         /\ \A i \in 1..Len(w) : \/ i \in 1..Len(a)
                                 \/ \E j \in 1..Len(b) : i = Len(a) + j
<1>0. /\ Len(a) \in Nat /\ Len(b) \in Nat /\ Len(w) = Len(a) + Len(b)
      /\ \A i \in 1..Len(a) : i \in 1..Len(w) /\ w[i] = a[i]
      /\ \A i \in 1..Len(b) : Len(a) + i \in 1..Len(w) /\ w[Len(a) + i] = b[i]
  BY LenProperties DEF Splits
<1>1. ASSUME NEW i \in 1..Len(w)
      PROVE  i \in 1..Len(a) \/ \E j \in 1..Len(b) : i = Len(a) + j
  <2>1. CASE i > Len(a)
    <3>1. i - Len(a) \in 1..Len(b) /\ i = Len(a) + (i - Len(a))
      BY <1>0, <2>1
    <3> QED
      BY <3>1
  <2>2. CASE ~(i > Len(a))
    BY <1>0, <2>2
  <2> QED
    BY <2>1, <2>2
<1> QED
  BY <1>0, <1>1

\* What a client knows after two batches of messages is what it knows after
\* both at once.
LEMMA AnnouncedSplits ==
  ASSUME NEW w, NEW a, NEW b, Splits(w, a, b), NEW was \in Knowledge
  PROVE  Announced(was, w) = Announced(Announced(was, a), b)
<1>0. /\ Len(a) \in Nat /\ Len(b) \in Nat /\ Len(w) = Len(a) + Len(b)
      /\ \A i \in 1..Len(a) : i \in 1..Len(w) /\ w[i] = a[i]
      /\ \A i \in 1..Len(b) : Len(a) + i \in 1..Len(w) /\ w[Len(a) + i] = b[i]
      /\ \A i \in 1..Len(w) : i \in 1..Len(a) \/ \E j \in 1..Len(b) : i = Len(a) + j
  BY SplitIs
<1> DEFINE TP(ms) == \E i, j \in 1..Len(ms) :
                       i < j /\ ms[i].kind = "teardown" /\ ms[j].kind = "play"
<1>2. ASSUME NEW k
      PROVE  Answered(w, k) <=> Answered(a, k) \/ Answered(b, k)
  <2>1. ASSUME NEW i \in 1..Len(w), w[i].kind = k
        PROVE  Answered(a, k) \/ Answered(b, k)
    BY <1>0, <2>1 DEF Answered
  <2>2. Answered(a, k) \/ Answered(b, k) => Answered(w, k)
    BY <1>0 DEF Answered
  <2> QED
    BY <2>1, <2>2 DEF Answered
<1>3. TP(w) <=> TP(a) \/ TP(b) \/ (Answered(a, "teardown") /\ Answered(b, "play"))
  <2>1. TP(a) => TP(w)
    BY <1>0
  <2>2. TP(b) => TP(w)
    <3> SUFFICES ASSUME NEW i \in 1..Len(b), NEW j \in 1..Len(b), i < j,
                        b[i].kind = "teardown", b[j].kind = "play"
                 PROVE  TP(w)
      OBVIOUS
    <3>1. Len(a) + i < Len(a) + j
      BY <1>0
    <3>2. /\ Len(a) + i \in 1..Len(w) /\ w[Len(a) + i].kind = "teardown"
          /\ Len(a) + j \in 1..Len(w) /\ w[Len(a) + j].kind = "play"
      BY <1>0
    <3> QED
      BY <3>1, <3>2
  <2>3. Answered(a, "teardown") /\ Answered(b, "play") => TP(w)
    <3>1. ASSUME NEW i \in 1..Len(a), NEW j \in 1..Len(b)
          PROVE  i < Len(a) + j
      BY <1>0
    <3> QED
      BY <1>0, <3>1 DEF Answered
  <2>4. ASSUME NEW i \in 1..Len(w), NEW j \in 1..Len(w), i < j,
               w[i].kind = "teardown", w[j].kind = "play"
        PROVE  TP(a) \/ TP(b) \/ (Answered(a, "teardown") /\ Answered(b, "play"))
    <3>1. CASE i \in 1..Len(a) /\ j \in 1..Len(a)
      BY <1>0, <2>4, <3>1
    <3>2. CASE i \in 1..Len(a) /\ j \notin 1..Len(a)
      <4>1. PICK l \in 1..Len(b) : j = Len(a) + l
        BY <1>0, <3>2
      <4> QED
        BY <1>0, <2>4, <3>2, <4>1 DEF Answered
    <3>3. CASE i \notin 1..Len(a)
      <4>1. PICK k \in 1..Len(b) : i = Len(a) + k
        BY <1>0, <3>3
      <4>2. PICK l \in 1..Len(b) : j = Len(a) + l
        BY <1>0, <2>4, <4>1, SMTT(30)
      <4>3. k < l /\ b[k].kind = "teardown" /\ b[l].kind = "play"
        BY <1>0, <2>4, <4>1, <4>2
      <4> QED
        BY <4>3
    <3> QED
      BY <3>1, <3>2, <3>3
  <2> QED
    BY <2>1, <2>2, <2>3, <2>4
<1>4. \A ms : TP(ms) => Answered(ms, "teardown") /\ Answered(ms, "play")
  BY DEF Answered
<1>5. \A st, ms : PlaysAgain(st, ms) <=>
                    st = "again" \/ (st = "ended" /\ Answered(ms, "play")) \/ TP(ms)
  BY DEF PlaysAgain
<1> HIDE DEF TP
<1>6. /\ Answered(w, "play") <=> Answered(a, "play") \/ Answered(b, "play")
      /\ Answered(w, "teardown") <=> Answered(a, "teardown") \/ Answered(b, "teardown")
  BY <1>2
<1> QED
  BY <1>3, <1>4, <1>5, <1>6 DEF Announced, Knowledge

\* The same holds of the newest packet.
LEMMA NewestSplits ==
  ASSUME NEW w, NEW a, NEW b, Splits(w, a, b), NEW was
  PROVE  Newest(was, w) = Newest(Newest(was, a), b)
<1>0. /\ Len(a) \in Nat /\ Len(b) \in Nat /\ Len(w) = Len(a) + Len(b)
      /\ \A i \in 1..Len(a) : i \in 1..Len(w) /\ w[i] = a[i]
      /\ \A i \in 1..Len(b) : Len(a) + i \in 1..Len(w) /\ w[Len(a) + i] = b[i]
      /\ \A i \in 1..Len(w) : i \in 1..Len(a) \/ \E j \in 1..Len(b) : i = Len(a) + j
  BY SplitIs
<1>1. \A i \in Packets(w) : i \in Packets(a) \/ \E j \in Packets(b) : i = Len(a) + j
  <2> TAKE i \in Packets(w)
  <2>1. i \in 1..Len(w) /\ w[i].kind = "rtp"
    BY DEF Packets
  <2>2. CASE i \in 1..Len(a)
    BY <1>0, <2>1, <2>2 DEF Packets
  <2>3. CASE \E j \in 1..Len(b) : i = Len(a) + j
    BY <1>0, <2>1, <2>3 DEF Packets
  <2> QED
    BY <1>0, <2>1, <2>2, <2>3
<1>2. /\ Packets(a) \subseteq 1..Len(a) /\ Packets(b) \subseteq 1..Len(b)
      /\ Packets(w) \subseteq 1..Len(w) /\ Len(w) \in Nat
      /\ \A i \in Packets(a) : i \in Packets(w)
      /\ \A i \in Packets(b) : Len(a) + i \in Packets(w)
      /\ \A i \in Packets(w) : i \in Packets(a) \/ \E j \in Packets(b) : i = Len(a) + j
  BY <1>0, <1>1 DEF Packets
<1>3. CASE Packets(b) # {}
  <2> DEFINE m == Max(Packets(b))
  <2>1. m \in Packets(b) /\ \A j \in Packets(b) : m >= j
    BY <1>0, <1>2, <1>3, Greatest
  <2> HIDE DEF m
  <2>2. \A i \in Packets(w) : Len(a) + m >= i
    <3> TAKE i \in Packets(w)
    <3>1. CASE i \in Packets(a)
      BY <1>0, <1>2, <2>1, <3>1
    <3>2. CASE \E j \in Packets(b) : i = Len(a) + j
      BY <1>0, <1>2, <2>1, <3>2
    <3> QED
      BY <1>2, <3>1, <3>2
  <2>3. Len(a) + m \in Packets(w)
    BY <1>2, <2>1
  <2>4. Max(Packets(w)) = Len(a) + m
    BY <1>2, <2>2, <2>3, GreatestIs
  <2>5. w[Len(a) + m] = b[m]
    BY <1>0, <1>2, <2>1
  <2> QED
    BY <1>3, <2>3, <2>4, <2>5 DEF Newest, m
<1>4. CASE Packets(b) = {}
  <2>1. Packets(w) = Packets(a)
    BY <1>2, <1>4
  <2>2. Packets(a) # {} => w[Max(Packets(a))] = a[Max(Packets(a))]
    <3>1. Packets(a) # {} => Max(Packets(a)) \in Packets(a)
      BY <1>0, <1>2, Greatest
    <3> QED
      BY <1>0, <1>2, <3>1
  <2> QED
    BY <1>4, <2>1, <2>2 DEF Newest
<1> QED
  BY <1>3, <1>4

\* One message more.
Told(knows, m) ==
  IF m.kind = "play" THEN IF knows \in {"ended", "again"} THEN "again" ELSE "playing"
  ELSE IF m.kind = "teardown" THEN IF knows = "again" THEN "again" ELSE "ended"
  ELSE knows

\* An appended sequence consists of the old one and one message.
LEMMA AppendSplits ==
  ASSUME NEW w \in Seq(Messages), NEW m \in Messages
  PROVE  Splits(Append(w, m), w, <<m>>)
<1> DEFINE v == Append(w, m)
           b == <<m>>
<1>1. /\ v \in Seq(Messages) /\ Len(v) = Len(w) + 1 /\ Len(w) \in Nat
      /\ \A i \in 1..Len(w) : v[i] = w[i]
      /\ v[Len(w) + 1] = m
  BY AppendProperties, LenProperties
<1>2. b \in Seq(Messages) /\ Len(b) = 1 /\ b[1] = m
  OBVIOUS
<1> HIDE DEF v, b
<1>3. Splits(v, w, b)
  BY <1>1, <1>2 DEF Splits
<1> QED
  BY <1>3 DEF v, b

\* What one message tells the client.
LEMMA OneMessage ==
  ASSUME NEW m \in Messages, NEW knows \in Knowledge, NEW old
  PROVE  /\ Announced(knows, <<m>>) = Told(knows, m)
         /\ Newest(old, <<m>>) = IF m.kind = "rtp" THEN [no |-> m.no, seq |-> m.seq] ELSE old
<1> DEFINE b == <<m>>
<1>1. Len(b) = 1 /\ b[1] = m /\ \A i \in 1..Len(b) : i = 1
  OBVIOUS
<1>2. b[1] = m /\ 1 \in 1..Len(b)
  BY <1>1
<1> HIDE DEF b
<1>3. \A k : Answered(b, k) <=> m.kind = k
  BY <1>1, <1>2 DEF Answered
<1>4. PlaysAgain(knows, b) <=> knows = "again" \/ (knows = "ended" /\ m.kind = "play")
  BY <1>1, <1>3 DEF PlaysAgain
<1>5. Announced(knows, b) = Told(knows, m)
  BY <1>3, <1>4 DEF Announced, Told, Knowledge
<1>6. Packets(b) = IF m.kind = "rtp" THEN {1} ELSE {}
  BY <1>1, <1>2 DEF Packets
<1>7. Max({1}) = 1
  BY GreatestIs
<1>8. Newest(old, b) = IF m.kind = "rtp" THEN [no |-> m.no, seq |-> m.seq] ELSE old
  BY <1>2, <1>6, <1>7 DEF Newest
<1> QED
  BY <1>5, <1>8 DEF b

\* What an appended message adds to what the client will have been told.
LEMMA AppendTells ==
  ASSUME NEW w \in Seq(Messages), NEW m \in Messages, NEW knows \in Knowledge, NEW old
  PROVE  /\ Announced(knows, Append(w, m)) = Told(Announced(knows, w), m)
         /\ Newest(old, Append(w, m)) =
              IF m.kind = "rtp" THEN [no |-> m.no, seq |-> m.seq] ELSE Newest(old, w)
<1>1. Splits(Append(w, m), w, <<m>>)
  BY AppendSplits
<1>2. Announced(knows, w) \in Knowledge
  BY DEF Announced, Knowledge
<1>3. /\ Announced(knows, Append(w, m)) = Announced(Announced(knows, w), <<m>>)
      /\ Newest(old, Append(w, m)) = Newest(Newest(old, w), <<m>>)
  BY <1>1, AnnouncedSplits, NewestSplits
<1>4. /\ Announced(Announced(knows, w), <<m>>) = Told(Announced(knows, w), m)
      /\ Newest(Newest(old, w), <<m>>) =
           IF m.kind = "rtp" THEN [no |-> m.no, seq |-> m.seq] ELSE Newest(old, w)
  BY <1>2, OneMessage
<1> QED
  BY <1>3, <1>4

\* The client's view has its type.
LEMMA ViewTypes ==
  ASSUME NEW w \in Seq(Messages), NEW knows \in Knowledge, NEW old \in Newests
  PROVE  Announced(knows, w) \in Knowledge /\ Newest(old, w) \in Newests
<1>1. Announced(knows, w) \in Knowledge
  BY DEF Announced, Knowledge
<1>2. CASE Packets(w) # {}
  <2> DEFINE i == Max(Packets(w))
  <2>1. Packets(w) \subseteq 1..Len(w) /\ Len(w) \in Nat
    BY LenProperties DEF Packets
  <2>2. i \in Packets(w)
    BY <1>2, <2>1, Greatest
  <2>3. w[i].kind = "rtp" /\ w[i] \in Messages
    BY <2>1, <2>2, ElementOfSeq DEF Packets
  <2>4. w[i].no \in 0..MaxPackets /\ w[i].seq \in Nat
    BY <2>3 DEF Messages
  <2>5. Newest(old, w) = [no |-> w[i].no, seq |-> w[i].seq]
    BY <1>2 DEF Newest
  <2> HIDE DEF i
  <2> QED
    BY <1>1, <2>4, <2>5 DEF Newests
<1>3. CASE Packets(w) = {}
  BY <1>1, <1>3 DEF Newest
<1> QED
  BY <1>2, <1>3

\* The packets of w continue those the client has been sent.
InOrder(knows, old, w, gap) ==
  \A i \in Packets(w) :
    LET before == SubSeq(w, 1, i - 1)
        new    == Newest(old, before)
    IN  /\ w[i].no > new.no
        /\ ~gap => w[i].seq = new.seq + 1 /\ Announced(knows, before) \in {"playing", "again"}

\* They still do when some of them have been sent...
LEMMA RestInOrder ==
  ASSUME NEW w \in Seq(Messages), NEW knows \in Knowledge, NEW old, NEW gap,
         InOrder(knows, old, w, gap), NEW k \in 0..Len(w)
  PROVE  InOrder(Announced(knows, SubSeq(w, 1, k)), Newest(old, SubSeq(w, 1, k)),
                 SubSeq(w, k + 1, Len(w)), gap)
<1> DEFINE a == SubSeq(w, 1, k)
           r == SubSeq(w, k + 1, Len(w))
<1>0. Len(w) \in Nat
  BY LenProperties
<1>1. /\ r \in Seq(Messages) /\ Len(r) = Len(w) - k
      /\ \A i \in 1..Len(w) - k : r[i] = w[k + i]
  BY <1>0, PartIs
<1> SUFFICES ASSUME NEW i \in Packets(r)
             PROVE  LET before == SubSeq(r, 1, i - 1)
                        new    == Newest(Newest(old, a), before)
                    IN  /\ r[i].no > new.no
                        /\ ~gap => /\ r[i].seq = new.seq + 1
                                   /\ Announced(Announced(knows, a), before)
                                        \in {"playing", "again"}
  BY DEF InOrder
<1> DEFINE before == SubSeq(r, 1, i - 1)
           all    == SubSeq(w, 1, k + i - 1)
<1>2. i \in 1..Len(w) - k /\ r[i] = w[k + i] /\ r[i].kind = "rtp"
  BY <1>1 DEF Packets
<1>3. k + i \in Packets(w)
  BY <1>0, <1>2 DEF Packets
<1>4. k + i - 1 \in k..Len(w) /\ (k + i - 1) - k = i - 1
  BY <1>0, <1>2
<1>5. Splits(all, a, before)
  <2>1. Splits(SubSeq(w, 1, k + i - 1), SubSeq(w, 1, k),
               SubSeq(SubSeq(w, k + 1, Len(w)), 1, (k + i - 1) - k))
    BY <1>4, CutSplits
  <2> QED
    BY <1>4, <2>1
<1>6. /\ w[k + i].no > Newest(old, all).no
      /\ ~gap => /\ w[k + i].seq = Newest(old, all).seq + 1
                 /\ Announced(knows, all) \in {"playing", "again"}
  <2> DEFINE j == k + i
  <2>1. j \in Packets(w)
    BY <1>3
  <2>3. all = SubSeq(w, 1, j - 1)
    <3>1. k + i - 1 = j - 1
      BY <1>0, <1>2
    <3> QED
      BY <3>1
  <2> HIDE DEF j, all
  <2>2. /\ w[j].no > Newest(old, all).no
        /\ ~gap => /\ w[j].seq = Newest(old, all).seq + 1
                   /\ Announced(knows, all) \in {"playing", "again"}
    BY <2>1, <2>3 DEF InOrder
  <2> QED
    BY <2>2 DEF j
<1> HIDE DEF a, r, before, all
<1>7. /\ Newest(old, all) = Newest(Newest(old, a), before)
      /\ Announced(knows, all) = Announced(Announced(knows, a), before)
  BY <1>5, NewestSplits, AnnouncedSplits
<1> QED
  BY <1>2, <1>6, <1>7 DEF before

\* ...and when a message is added that does.
LEMMA AppendInOrder ==
  ASSUME NEW w \in Seq(Messages), NEW m \in Messages, NEW knows, NEW old, NEW gap,
         InOrder(knows, old, w, gap),
         m.kind = "rtp" =>
           /\ m.no > Newest(old, w).no
           /\ ~gap => /\ m.seq = Newest(old, w).seq + 1
                      /\ Announced(knows, w) \in {"playing", "again"}
  PROVE  InOrder(knows, old, Append(w, m), gap)
<1> DEFINE v == Append(w, m)
<1>1. /\ v \in Seq(Messages) /\ Len(v) = Len(w) + 1 /\ Len(w) \in Nat
      /\ \A i \in 1..Len(w) : v[i] = w[i]
      /\ v[Len(w) + 1] = m
  BY AppendProperties, LenProperties
<1> HIDE DEF v
<1>2. ASSUME NEW n \in 0..Len(w)
      PROVE  SubSeq(v, 1, n) = SubSeq(w, 1, n)
  <2> DEFINE x == SubSeq(v, 1, n)
             y == SubSeq(w, 1, n)
  <2>1. x \in Seq(Messages) /\ Len(x) = n /\ \A i \in 1..n : x[i] = v[i]
    BY <1>1, PartIs
  <2>2. y \in Seq(Messages) /\ Len(y) = n /\ \A i \in 1..n : y[i] = w[i]
    BY <1>1, PartIs
  <2> HIDE DEF x, y
  <2>3. \A i \in 1..n : x[i] = y[i]
    BY <1>1, <2>1, <2>2
  <2>4. x = y
    BY <2>1, <2>2, <2>3, SeqEqual
  <2> QED
    BY <2>4 DEF x, y
<1>3. SubSeq(v, 1, Len(w)) = w
  <2>1. SubSeq(v, 1, Len(w)) = SubSeq(w, 1, Len(w))
    BY <1>1, <1>2
  <2> QED
    BY <2>1, SubSeqFull
<1>4. ASSUME NEW i \in Packets(v)
      PROVE  LET before == SubSeq(v, 1, i - 1)
                 new    == Newest(old, before)
             IN  /\ v[i].no > new.no
                 /\ ~gap => /\ v[i].seq = new.seq + 1
                            /\ Announced(knows, before) \in {"playing", "again"}
  <2>1. i \in 1..Len(w) + 1 /\ v[i].kind = "rtp"
    BY <1>1 DEF Packets
  <2>2. CASE i \in 1..Len(w)
    <3>1. i \in Packets(w) /\ i - 1 \in 0..Len(w) /\ v[i] = w[i]
      BY <1>1, <2>1, <2>2 DEF Packets
    <3>2. SubSeq(v, 1, i - 1) = SubSeq(w, 1, i - 1)
      BY <1>2, <3>1
    <3> QED
      BY <3>1, <3>2 DEF InOrder
  <2>3. CASE i = Len(w) + 1
    <3>1. i - 1 = Len(w) /\ v[i] = m /\ m.kind = "rtp"
      BY <1>1, <2>1, <2>3
    <3> QED
      BY <1>3, <3>1
  <2> QED
    BY <1>1, <2>1, <2>2, <2>3
<1>5. InOrder(knows, old, v, gap)
  BY <1>4 DEF InOrder
<1> QED
  BY <1>5 DEF v

-----------------------------------------------------------------------------
(* What a step does to the output of a connection.                         *)

\* A part of the messages wb is written.
Flushed(c, wb) ==
  /\ phase[c] = "open" /\ UNCHANGED phase
  /\ \E t \in Taken(wb) :
       /\ wbuf' = [wbuf EXCEPT ![c] = t.rest]
       /\ writing' = [writing EXCEPT ![c] = WantsWriting(c, t.rest)]
       /\ seen' = [seen EXCEPT ![c] = Announced(@, t.gone)]
       /\ last' = [last EXCEPT ![c] = Newest(@, t.gone)]

\* A message is added before.
Queues(c, m) ==
  /\ Flushed(c, AppendTo(c, m))
  /\ gaps' = IF Len(wbuf[c]) < WriteCapacity THEN gaps ELSE gaps \union {c}

Shut(c) ==
  /\ Closes(c) /\ NothingWritten(c) /\ gaps \subseteq gaps'
  /\ \A d \in Conns \ {c} : sess'[d] = sess[d]

Replied(c) ==
  \E m \in Requests : \E o \in Serve(sess[c], m, published) :
    /\ sess' = [sess EXCEPT ![c] = o.s] /\ o.res # "none"
    /\ Queues(c, [kind |-> o.res])

PacketQueued ==
  LET c == task.by
      s == SetRtpHeader(sess[c])
  IN  /\ RunSend /\ c \in Conns /\ s.is_play
      /\ sess' = [sess EXCEPT ![c] = s]
      /\ Queues(c, [kind |-> "rtp", no |-> task.no, seq |-> s.seq])

\* Neither is written nor closed; what a session says of an open connection
\* that is without gaps stays.
Stays(c) ==
  \/ sess'[c] = sess[c] /\ (phase'[c] = "open" => phase[c] = "open")
  \/ Started(c)
  \/ phase'[c] # "open"
  \/ c \in gaps'
  \/ /\ phase[c] = "open"
     /\ sess'[c].seq = sess[c].seq
     /\ sess'[c].is_play = sess[c].is_play /\ sess'[c].is_closed = sess[c].is_closed

Silent ==
  /\ UNCHANGED outVars /\ gaps \subseteq gaps'
  /\ \A c \in Conns : (phase[c] = "open" => phase'[c] = "open") /\ Stays(c)

\* Writing to a connection, in these terms.
LEMMA WriteIs ==
  ASSUME TypeOK, NEW c \in Conns, phase[c] = "open", NEW wb, NEW cls,
         HandleWrite(c, wb, cls), UNCHANGED <<connections, fd, raced>>, TaskDone,
         gaps \subseteq gaps', \A d \in Conns \ {c} : sess'[d] = sess[d]
  PROVE  Flushed(c, wb) \/ Shut(c)
<1>1. CASE Close(c, cls)
  <2>1. Closes(c) /\ NothingWritten(c)
    BY <1>1 DEF Close, Closes
  <2> QED
    BY <2>1 DEF Shut
<1>2. CASE UNCHANGED phase /\ \E t \in Taken(wb) :
             /\ wbuf' = [wbuf EXCEPT ![c] = t.rest]
             /\ writing' = [writing EXCEPT ![c] = WantsWriting(c, t.rest)]
             /\ seen' = [seen EXCEPT ![c] = Announced(@, t.gone)]
             /\ last' = [last EXCEPT ![c] = Newest(@, t.gone)]
  BY <1>2 DEF Flushed
<1> QED
  BY <1>1, <1>2 DEF HandleWrite

\* A request is answered, or leaves the output alone.
LEMMA RequestOutput ==
  ASSUME TypeOK, NEW c \in Conns, Request(c)
  PROVE  Silent \/ Shut(c) \/ Replied(c)
<1>0. /\ sess \in [Conns -> Sessions] /\ published \in BOOLEAN /\ Requests \subseteq Methods
      /\ phase[c] = "open" /\ UNCHANGED <<connections, fd, raced, task>>
  BY Assumption DEF TypeOK, NetOK, StreamOK, Request
<1>1. PICK m \in Requests : \E o \in Serve(sess[c], m, published) :
        LET cls == IF m = "DESCRIBE" /\ o.s.session_id THEN AddClient(c) ELSE clients
        IN  /\ sess' = [sess EXCEPT ![c] = o.s]
            /\ IF o.res = "none"
               THEN UNCHANGED <<owner, tcpVars, outVars, gaps>>
               ELSE SendTo(c, [kind |-> o.res], cls)
  BY DEF Request
<1>2. PICK o \in Serve(sess[c], m, published) :
        LET cls == IF m = "DESCRIBE" /\ o.s.session_id THEN AddClient(c) ELSE clients
        IN  /\ sess' = [sess EXCEPT ![c] = o.s]
            /\ IF o.res = "none"
               THEN UNCHANGED <<owner, tcpVars, outVars, gaps>>
               ELSE SendTo(c, [kind |-> o.res], cls)
  BY <1>1
<1>3. Follows(sess[c], o, m)
  BY <1>0, Served
<1>4. \A d \in Conns \ {c} : sess'[d] = sess[d]
  BY <1>0, <1>2
<1>5. CASE o.res = "none"
  <2>1. UNCHANGED <<outVars, gaps, phase>>
    BY <1>2, <1>5 DEF tcpVars
  <2>2. sess'[c] = o.s
    BY <1>0, <1>2
  <2>3. Stays(c)
    BY <1>0, <1>3, <1>5, <2>2 DEF Stays, Follows
  <2>4. \A d \in Conns : Stays(d)
    BY <1>4, <2>1, <2>3 DEF Stays
  <2> QED
    BY <2>1, <2>4 DEF Silent
<1>6. CASE o.res # "none"
  <2>1. PICK cls : /\ HandleWrite(c, AppendTo(c, [kind |-> o.res]), cls)
                   /\ gaps' = IF Len(wbuf[c]) < WriteCapacity THEN gaps ELSE gaps \union {c}
    BY <1>2, <1>6 DEF SendTo
  <2>2. TaskDone
    BY <1>0 DEF TaskDone
  <2>3. Flushed(c, AppendTo(c, [kind |-> o.res])) \/ Shut(c)
    BY <1>0, <1>4, <2>1, <2>2, WriteIs
  <2> QED
    BY <1>2, <1>6, <2>1, <2>3 DEF Replied, Queues
<1> QED
  BY <1>5, <1>6

\* A packet is queued for a connection that plays over it, or leaves the
\* output alone.
LEMMA PacketOutput ==
  ASSUME TypeOK, RunSend
  PROVE  Silent \/ PacketQueued \/ \E c \in Conns : Shut(c)
<1> DEFINE c == task.by
           s == SetRtpHeader(sess[c])
<1>0. /\ sess \in [Conns -> Sessions] /\ c \in Conns
      /\ UNCHANGED <<connections, fd, raced>> /\ TaskDone
  BY DEF TypeOK, NetOK, LoopOK, Removals, Sendings, NoTask, RunSend, TaskDone
<1>1. CASE UNCHANGED <<sess, outVars, gaps, phase>>
  BY <1>1 DEF Silent, Stays
<1>2. ASSUME NEW t, sess' = [sess EXCEPT ![c] = t], UNCHANGED <<outVars, phase>>,
             gaps \subseteq gaps', phase[c] # "open" \/ c \in gaps'
      PROVE  Silent
  BY <1>0, <1>2 DEF Silent, Stays
<1>3. CASE s.is_play /\ s.transport = "tcp"
  <2>1. sess' = [sess EXCEPT ![c] = s] /\ SendRtpOverTcp(c, s, task.no)
    BY <1>3 DEF RunSend
  <2>2. CASE phase[c] # "open"
    BY <1>2, <2>1, <2>2 DEF SendRtpOverTcp, tcpVars
  <2>3. CASE phase[c] = "open"
    <3> DEFINE p == [kind |-> "rtp", no |-> task.no, seq |-> s.seq]
    <3>1. /\ HandleWrite(c, AppendTo(c, p), clients)
          /\ gaps' = IF Len(wbuf[c]) < WriteCapacity THEN gaps ELSE gaps \union {c}
      BY <2>1, <2>3 DEF SendRtpOverTcp, SendTo
    <3>2. \A d \in Conns \ {c} : sess'[d] = sess[d]
      BY <1>0, <2>1
    <3>3. gaps \subseteq gaps'
      BY <3>1
    <3> HIDE DEF p
    <3>4. Flushed(c, AppendTo(c, p)) \/ Shut(c)
      BY <1>0, <2>3, <3>1, <3>2, <3>3, WriteIs
    <3> QED
      BY <1>0, <1>3, <2>1, <3>1, <3>4 DEF PacketQueued, Queues, p
  <2> QED
    BY <2>2, <2>3
<1>4. CASE ~(s.is_play /\ s.transport = "tcp")
  BY <1>1, <1>2, <1>4 DEF RunSend, SendRtpOverUdp, tcpVars
<1> QED
  BY <1>3, <1>4

\* Every step treats what the clients are sent in one of five ways.
LEMMA OutKinds ==
  ASSUME TypeOK, ConnInv, HeldInv, PostedInv, [Next]_vars
  PROVE  \/ Silent \/ PacketQueued
         \/ \E c \in Conns : Shut(c) \/ Replied(c) \/
                             (Flushed(c, wbuf[c]) /\ UNCHANGED <<sess, gaps>>)
<1> USE DEF netVars, tcpVars, outVars, streamVars, loopAndClients
<1>0. /\ sess \in [Conns -> Sessions]
      /\ phase \in [Conns -> {"new", "open", "closed", "freed"}]
  BY DEF TypeOK, NetOK
<1>1. CASE UNCHANGED <<outVars, gaps, sess, phase>>
  BY <1>1 DEF Silent, Stays
<1>2. ASSUME NEW c \in Conns, Gone(c) \/ Writable(c)
      PROVE  Shut(c) \/ (Flushed(c, wbuf[c]) /\ UNCHANGED <<sess, gaps>>)
  <2>1. /\ phase[c] = "open" /\ UNCHANGED <<connections, fd, raced, task, sess, gaps>>
        /\ Close(c, clients) \/ HandleWrite(c, wbuf[c], clients)
    BY <1>2 DEF Gone, Writable
  <2>2. TaskDone
    BY <2>1 DEF TaskDone
  <2>3. CASE Close(c, clients)
    <3>1. Closes(c) /\ NothingWritten(c)
      BY <2>1, <2>2, <2>3 DEF Close, Closes
    <3> QED
      BY <2>1, <3>1 DEF Shut
  <2>4. CASE HandleWrite(c, wbuf[c], clients)
    BY <2>1, <2>2, <2>4, WriteIs
  <2> QED
    BY <2>1, <2>3, <2>4
<1>3. ASSUME NEW c \in Conns, Accept(c)
      PROVE  Silent
  <2>1. Started(c) /\ UNCHANGED <<outVars, gaps>>
    BY <1>0, <1>3 DEF Accept, Started
  <2>2. \A d \in Conns \ {c} : sess'[d] = sess[d] /\ phase'[d] = phase[d]
    BY <1>0, <1>3 DEF Accept
  <2>3. \A d \in Conns : Stays(d)
    BY <2>1, <2>2 DEF Stays
  <2> QED
    BY <2>1, <2>2, <2>3 DEF Silent, Started
<1>4. CASE RunRemoval \/ FireTimer \/ Release
  <2>1. \A c \in Conns : /\ phase'[c] = "open" <=> phase[c] = "open"
                         /\ phase[c] = "open" => sess'[c] = sess[c]
    BY ONLY TypeOK, ConnInv, HeldInv, PostedInv, <1>4, NotOpened
  <2>2. UNCHANGED <<outVars, gaps>>
    BY <1>4 DEF RunRemoval, FireTimer, Release
  <2> QED
    BY <2>1, <2>2 DEF Silent, Stays
<1>5. CASE CallbackEnds
  <2>1. \A c \in Conns : sess'[c] = sess[c] \/ phase[c] = "freed"
    BY <1>0, <1>5 DEF CallbackEnds
  <2>2. UNCHANGED <<outVars, gaps, phase>>
    BY <1>5 DEF CallbackEnds
  <2> QED
    BY <2>1, <2>2 DEF Silent, Stays
<1>6. ASSUME NEW c \in Conns, NothingToDo(c) \/ RtcpDangling(c)
      PROVE  UNCHANGED <<outVars, gaps, sess, phase>>
  BY <1>6 DEF NothingToDo, RtcpDangling
<1>7. CASE \/ TakeTask \/ SendDangling \/ ToPoll \/ BatchDone \/ AcceptNothing \/ Poll
           \/ RtspInit \/ Collect \/ LockConnection \/ CheckSize \/ Post \/ PushFrame
           \/ UNCHANGED vars
  <2>1. UNCHANGED <<outVars, gaps, sess, phase>>
    BY <1>7 DEF TakeTask, SendDangling, ToPoll, BatchDone, AcceptNothing, Poll,
       RtspInit, Collect, LockConnection, CheckSize, Post, PushFrame, vars
  <2> QED
    BY <1>1, <2>1
<1> QED
  BY <1>1, <1>2, <1>3, <1>4, <1>5, <1>6, <1>7, RequestOutput, PacketOutput
     DEF Next, LoopStep, HandleEvent, StreamStep

-----------------------------------------------------------------------------
(* The output of the connections.                                          *)

\* Writing a part changes neither what the client knows in the end nor the
\* order of what is left.
LEMMA FlushIs ==
  ASSUME OutputOK, NEW c \in Conns, NEW wb \in Seq(Messages), Len(wb) <= WriteCapacity,
         Flushed(c, wb)
  PROVE  /\ OutputOK'
         /\ \A d \in Conns \ {c} : /\ wbuf'[d] = wbuf[d] /\ writing'[d] = writing[d]
                                   /\ seen'[d] = seen[d] /\ last'[d] = last[d]
         /\ wbuf'[c] # << >> => writing'[c]
         /\ Announced(seen'[c], wbuf'[c]) = Announced(seen[c], wb)
         /\ Newest(last'[c], wbuf'[c]) = Newest(last[c], wb)
         /\ \A g : InOrder(seen[c], last[c], wb, g)
                     => InOrder(seen'[c], last'[c], wbuf'[c], g)
<1>0. /\ writing \in [Conns -> BOOLEAN] /\ wbuf \in [Conns -> Seq(Messages)]
      /\ seen \in [Conns -> Knowledge] /\ last \in [Conns -> Newests]
      /\ \A d \in Conns : Len(wbuf[d]) <= WriteCapacity
  BY DEF OutputOK, Knowledge, Newests
<1>1. PICK t \in Taken(wb) :
        /\ wbuf' = [wbuf EXCEPT ![c] = t.rest]
        /\ writing' = [writing EXCEPT ![c] = WantsWriting(c, t.rest)]
        /\ seen' = [seen EXCEPT ![c] = Announced(@, t.gone)]
        /\ last' = [last EXCEPT ![c] = Newest(@, t.gone)]
  BY DEF Flushed
<1>2. PICK k \in 0..Len(wb) :
        t.gone = SubSeq(wb, 1, k) /\ t.rest = SubSeq(wb, k + 1, Len(wb))
  BY <1>1 DEF Taken
<1> DEFINE gone == t.gone
           rest == t.rest
<1>3. Splits(wb, gone, rest)
  BY <1>2, WholeSplits
<1>4. /\ gone \in Seq(Messages) /\ rest \in Seq(Messages) /\ Len(rest) <= WriteCapacity
  <2> HIDE DEF gone, rest
  <2>1. /\ gone \in Seq(Messages) /\ rest \in Seq(Messages)
        /\ Len(wb) = Len(gone) + Len(rest)
    BY <1>3 DEF Splits
  <2>2. Len(gone) \in Nat /\ Len(rest) \in Nat /\ WriteCapacity \in Nat
    BY <2>1, LenProperties, Assumption
  <2> QED
    BY <2>1, <2>2
<1>5. \A g : InOrder(seen[c], last[c], wb, g)
               => InOrder(Announced(seen[c], gone), Newest(last[c], gone), rest, g)
  BY <1>0, <1>2, RestInOrder
<1> HIDE DEF gone, rest
<1>6. /\ wbuf' = [wbuf EXCEPT ![c] = rest]
      /\ writing' = [writing EXCEPT ![c] = (rest # << >>)]
      /\ seen' = [seen EXCEPT ![c] = Announced(seen[c], gone)]
      /\ last' = [last EXCEPT ![c] = Newest(last[c], gone)]
  BY <1>0, <1>1 DEF gone, rest, WantsWriting
<1>7. Announced(seen[c], gone) \in Knowledge /\ Newest(last[c], gone) \in Newests
  BY <1>0, <1>4, ViewTypes
<1>8. /\ wbuf'[c] = rest /\ writing'[c] = (rest # << >>)
      /\ seen'[c] = Announced(seen[c], gone) /\ last'[c] = Newest(last[c], gone)
  BY <1>0, <1>6
<1>9. \A d \in Conns \ {c} : /\ wbuf'[d] = wbuf[d] /\ writing'[d] = writing[d]
                             /\ seen'[d] = seen[d] /\ last'[d] = last[d]
  BY <1>0, <1>6
<1>10. OutputOK'
  <2>1. writing' \in [Conns -> BOOLEAN]
    BY <1>0, <1>6
  <2>2. wbuf' \in [Conns -> Seq(Messages)] /\ \A d \in Conns : Len(wbuf'[d]) <= WriteCapacity
    BY <1>0, <1>4, <1>6
  <2>3. seen' \in [Conns -> Knowledge] /\ last' \in [Conns -> Newests]
    BY <1>0, <1>6, <1>7
  <2> QED
    BY <2>1, <2>2, <2>3 DEF OutputOK, Knowledge, Newests
<1>11. /\ Announced(seen'[c], rest) = Announced(seen[c], wb)
       /\ Newest(last'[c], rest) = Newest(last[c], wb)
  BY <1>0, <1>3, <1>8, AnnouncedSplits, NewestSplits
<1> QED
  BY <1>5, <1>8, <1>9, <1>10, <1>11

\* Appending to a write buffer keeps it within its capacity: a message that
\* does not fit is left out.
LEMMA AppendToIs ==
  ASSUME OutputOK, NEW c \in Conns, NEW m \in Messages
  PROVE  /\ AppendTo(c, m) \in Seq(Messages) /\ Len(AppendTo(c, m)) <= WriteCapacity
         /\ AppendTo(c, m) = IF Len(wbuf[c]) < WriteCapacity THEN Append(wbuf[c], m)
                             ELSE wbuf[c]
<1>1. /\ wbuf[c] \in Seq(Messages) /\ Len(wbuf[c]) <= WriteCapacity
      /\ Len(wbuf[c]) \in Nat /\ WriteCapacity \in Nat
  BY Assumption, LenProperties DEF OutputOK
<1>2. Append(wbuf[c], m) \in Seq(Messages) /\ Len(Append(wbuf[c], m)) = Len(wbuf[c]) + 1
  BY <1>1, AppendProperties
<1> QED
  BY <1>1, <1>2 DEF AppendTo

\* The message of an answer, and of a packet.
LEMMA MessageOf ==
  ASSUME TypeOK
  PROVE  /\ \A c \in Conns, m \in Requests : \A o \in Serve(sess[c], m, published) :
              o.res # "none" => /\ [kind |-> o.res] \in Messages
                                /\ Follows(sess[c], o, m) /\ o.res # "rtp"
         /\ RunSend => task \in Sendings /\ task.by \in Conns /\ task.no \in 0..MaxPackets
<1>1. ASSUME NEW c \in Conns, NEW m \in Requests, NEW o \in Serve(sess[c], m, published),
             o.res # "none"
      PROVE  [kind |-> o.res] \in Messages /\ Follows(sess[c], o, m) /\ o.res # "rtp"
  <2>1. sess[c] \in Sessions /\ m \in Methods /\ published \in BOOLEAN
    BY Assumption DEF TypeOK, NetOK, StreamOK
  <2>2. Follows(sess[c], o, m)
    BY <2>1, Served
  <2>3. o.res \in {"play", "teardown", "other"}
    BY <1>1, <2>2 DEF Follows, Answers
  <2> QED
    BY <2>2, <2>3 DEF Messages
<1>2. ASSUME RunSend
      PROVE  task \in Sendings /\ task.by \in Conns /\ task.no \in 0..MaxPackets
  BY <1>2 DEF RunSend, TypeOK, LoopOK, Removals, Sendings, NoTask
<1> QED
  BY <1>1, <1>2

\* The packet that is queued for a playing client, and its number.
LEMMA PacketIs ==
  ASSUME TypeOK, PacketQueued
  PROVE  LET c == task.by
             m == [kind |-> "rtp", no |-> task.no, seq |-> sess[c].seq + 1]
         IN  /\ c \in Conns /\ task \in Tasks /\ task.kind = "send" /\ task' = NoTask
             /\ m \in Messages /\ Queues(c, m)
             /\ sess[c].is_play /\ sess[c].seq \in Nat
             /\ sess'[c].seq = sess[c].seq + 1 /\ sess'[c].is_play
             /\ sess'[c].is_closed = sess[c].is_closed
             /\ \A d \in Conns \ {c} : sess'[d] = sess[d]
<1> DEFINE c == task.by
           s == sess[c]
           u == SetRtpHeader(s)
<1>1. /\ RunSend /\ c \in Conns /\ u.is_play /\ sess' = [sess EXCEPT ![c] = u]
      /\ Queues(c, [kind |-> "rtp", no |-> task.no, seq |-> u.seq])
  BY DEF PacketQueued
<1>2. s \in Sessions /\ sess \in [Conns -> Sessions]
  BY <1>1 DEF TypeOK, NetOK
<1>3. task.no \in 0..MaxPackets /\ task.kind = "send" /\ task' = NoTask /\ task \in Tasks
  BY <1>1, MessageOf DEF RunSend, Tasks
<1>4. s.is_play /\ u = [s EXCEPT !.seq = @ + 1]
  BY <1>1 DEF SetRtpHeader
<1>5. s.seq \in Nat /\ u.seq = s.seq + 1 /\ u.is_play /\ u.is_closed = s.is_closed
  BY <1>2, <1>4 DEF Sessions
<1>6. sess'[c] = u /\ \A d \in Conns \ {c} : sess'[d] = sess[d]
  BY <1>1, <1>2
<1>7. [kind |-> "rtp", no |-> task.no, seq |-> s.seq + 1] \in Messages
  BY <1>3, <1>5 DEF Messages
<1> HIDE DEF u, s
<1>8. Queues(c, [kind |-> "rtp", no |-> task.no, seq |-> s.seq + 1])
  BY <1>1, <1>5
<1> QED
  BY <1>1, <1>3, <1>4, <1>5, <1>6, <1>7, <1>8 DEF s

\* Output that is left is watched.
LEMMA OutputStep ==
  ASSUME TypeOK, ConnInv, HeldInv, PostedInv, OutputIsWatched, [Next]_vars
  PROVE  OutputOK' /\ OutputIsWatched'
<1>0. /\ OutputOK /\ phase \in [Conns -> {"new", "open", "closed", "freed"}]
      /\ writing \in [Conns -> BOOLEAN] /\ wbuf \in [Conns -> Seq(Messages)]
      /\ seen \in [Conns -> Knowledge] /\ last \in [Conns -> Newests]
      /\ \A d \in Conns : Len(wbuf[d]) <= WriteCapacity
  BY DEF TypeOK, NetOK, OutputOK, Knowledge, Newests
<1>1. \A c \in Conns : phase'[c] = "open" => c \in polled'
  BY ConnStep DEF ConnInv
<1>2. ASSUME NEW c \in Conns, NEW wb \in Seq(Messages), Len(wb) <= WriteCapacity,
             Flushed(c, wb)
      PROVE  OutputOK' /\ OutputIsWatched'
  <2>1. phase[c] = "open" /\ UNCHANGED phase
    BY <1>2 DEF Flushed
  <2>2. /\ OutputOK'
        /\ wbuf'[c] # << >> => writing'[c]
        /\ \A d \in Conns \ {c} : wbuf'[d] = wbuf[d] /\ writing'[d] = writing[d]
    BY <1>0, <1>2, FlushIs
  <2>3. ASSUME NEW d \in Conns, wbuf'[d] # << >>
        PROVE  phase'[d] = "open" /\ writing'[d]
    <3>1. CASE d = c
      BY <2>1, <2>2, <2>3, <3>1
    <3>2. CASE d # c
      BY <2>1, <2>2, <2>3, <3>2 DEF OutputIsWatched
    <3> QED
      BY <3>1, <3>2
  <2> QED
    BY <1>1, <2>2, <2>3 DEF OutputIsWatched
<1>3. ASSUME NEW c \in Conns, NEW m \in Messages, Queues(c, m)
      PROVE  OutputOK' /\ OutputIsWatched'
  BY <1>0, <1>2, <1>3, AppendToIs DEF Queues
<1>4. ASSUME NEW c \in Conns, Shut(c)
      PROVE  OutputOK' /\ OutputIsWatched'
  <2>1. /\ phase' = [phase EXCEPT ![c] = "closed"] /\ NothingWritten(c)
    BY <1>4 DEF Shut, Closes
  <2>2. << >> \in Seq(Messages) /\ Len(<< >>) = 0 /\ WriteCapacity \in Nat /\ MaxPackets \in Nat
    BY Assumption, EmptySeq
  <2>3. [no |-> 0, seq |-> 0] \in Newests /\ "nothing" \in Knowledge
    BY <2>2 DEF Newests, Knowledge
  <2> DEFINE z == [no |-> 0, seq |-> 0]
             e == << >>
  <2>4. /\ wbuf' = [wbuf EXCEPT ![c] = e] /\ writing' = [writing EXCEPT ![c] = FALSE]
        /\ seen' = [seen EXCEPT ![c] = "nothing"] /\ last' = [last EXCEPT ![c] = z]
    BY <2>1 DEF NothingWritten
  <2>11. e \in Seq(Messages) /\ Len(e) <= WriteCapacity /\ e = << >> /\ z \in Newests
    BY <2>2, <2>3
  <2> HIDE DEF z, e
  <2>5. wbuf' \in [Conns -> Seq(Messages)] /\ \A d \in Conns : Len(wbuf'[d]) <= WriteCapacity
    BY <1>0, <2>4, <2>11
  <2>6. writing' \in [Conns -> BOOLEAN]
    BY <1>0, <2>4
  <2>7. seen' \in [Conns -> Knowledge] /\ last' \in [Conns -> Newests]
    BY <1>0, <2>3, <2>4, <2>11
  <2>8. \A d \in Conns \ {c} : /\ wbuf'[d] = wbuf[d] /\ writing'[d] = writing[d]
                               /\ phase'[d] = phase[d]
    BY <1>0, <2>1, <2>4
  <2>9. wbuf'[c] = << >>
    BY <1>0, <2>4, <2>11
  <2>10. OutputIsWatched'
    BY <1>1, <2>8, <2>9 DEF OutputIsWatched
  <2> QED
    BY <2>5, <2>6, <2>7, <2>10 DEF OutputOK, Knowledge, Newests
<1>5. CASE Silent
  BY <1>0, <1>1, <1>5 DEF Silent, outVars, OutputOK, OutputIsWatched
<1>6. ASSUME NEW c \in Conns, Replied(c)
      PROVE  OutputOK' /\ OutputIsWatched'
  BY <1>3, <1>6, MessageOf DEF Replied
<1>7. CASE PacketQueued
  BY <1>3, <1>7, PacketIs
<1>8. ASSUME NEW c \in Conns, Flushed(c, wbuf[c])
      PROVE  OutputOK' /\ OutputIsWatched'
  BY <1>0, <1>2, <1>8
<1> QED
  BY <1>4, <1>5, <1>6, <1>7, <1>8, OutKinds

-----------------------------------------------------------------------------
(* The answers and the packets.                                            *)

\* The session s stands for what a client knows and its newest packet.
Tells(s, knows, new) ==
  /\ s.seq = new.seq
  /\ s.is_closed => knows \in {"ended", "again"}
  /\ s.is_play => knows \in {"playing", "again"}

Knows(c) == Announced(seen[c], wbuf[c])
New(c)   == Newest(last[c], wbuf[c])

\* An answer tells the client what the request has made of its session.
LEMMA AnswerTells ==
  ASSUME NEW s \in Sessions, NEW o, NEW m, Follows(s, o, m), o.res # "none",
         NEW knows \in Knowledge, NEW new, Tells(s, knows, new)
  PROVE  Tells(o.s, Told(knows, [kind |-> o.res]), new)
<1>1. /\ o.s.is_play \in BOOLEAN /\ o.s.is_closed \in BOOLEAN /\ o.s.seq = s.seq
      /\ s.is_play \in BOOLEAN /\ s.is_closed \in BOOLEAN
      /\ o.res \in {"other", "play", "teardown"}
  BY DEF Follows, Sessions, Answers
<1>2. CASE o.res = "other"
  BY <1>1, <1>2 DEF Follows, Tells, Told
<1>3. CASE o.res = "play"
  BY <1>1, <1>3 DEF Follows, Tells, Told, Knowledge
<1>4. CASE o.res = "teardown"
  BY <1>1, <1>4 DEF Follows, Tells, Told, Knowledge
<1> QED
  BY <1>1, <1>2, <1>3, <1>4

\* What queueing a message does.
LEMMA QueuesIs ==
  ASSUME TypeOK, NEW c \in Conns, NEW m \in Messages, Queues(c, m)
  PROVE  /\ phase[c] = "open" /\ UNCHANGED phase /\ gaps \subseteq gaps'
         /\ \A d \in Conns \ {c} : /\ Knows(d)' = Knows(d) /\ New(d)' = New(d)
                                   /\ last'[d] = last[d] /\ seen'[d] = seen[d]
                                   /\ wbuf'[d] = wbuf[d] /\ (d \in gaps' <=> d \in gaps)
         /\ \/ /\ c \in gaps' /\ Knows(c)' = Knows(c) /\ New(c)' = New(c)
               /\ AppendTo(c, m) = wbuf[c]
            \/ /\ gaps' = gaps /\ Knows(c)' = Told(Knows(c), m)
               /\ New(c)' = IF m.kind = "rtp" THEN [no |-> m.no, seq |-> m.seq] ELSE New(c)
               /\ AppendTo(c, m) = Append(wbuf[c], m)
<1>0. /\ OutputOK /\ wbuf[c] \in Seq(Messages) /\ seen[c] \in Knowledge
  BY DEF TypeOK, OutputOK, Knowledge
<1> DEFINE wb == AppendTo(c, m)
<1>1. /\ wb \in Seq(Messages) /\ Len(wb) <= WriteCapacity
      /\ wb = IF Len(wbuf[c]) < WriteCapacity THEN Append(wbuf[c], m) ELSE wbuf[c]
  BY <1>0, AppendToIs
<1>2. /\ Flushed(c, wb)
      /\ gaps' = IF Len(wbuf[c]) < WriteCapacity THEN gaps ELSE gaps \union {c}
  BY DEF Queues
<1> HIDE DEF wb
<1>3. /\ \A d \in Conns \ {c} : wbuf'[d] = wbuf[d] /\ seen'[d] = seen[d] /\ last'[d] = last[d]
      /\ Announced(seen'[c], wbuf'[c]) = Announced(seen[c], wb)
      /\ Newest(last'[c], wbuf'[c]) = Newest(last[c], wb)
  BY <1>0, <1>1, <1>2, FlushIs
<1>4. phase[c] = "open" /\ UNCHANGED phase
  BY <1>2 DEF Flushed
<1>5. CASE Len(wbuf[c]) < WriteCapacity
  <2>1. /\ Announced(seen[c], wb) = Told(Knows(c), m)
        /\ Newest(last[c], wb) =
             IF m.kind = "rtp" THEN [no |-> m.no, seq |-> m.seq] ELSE New(c)
    BY <1>0, <1>1, <1>5, AppendTells DEF Knows, New
  <2> QED
    BY <1>1, <1>2, <1>3, <1>4, <1>5, <2>1 DEF Knows, New, wb
<1>6. CASE ~(Len(wbuf[c]) < WriteCapacity)
  BY <1>1, <1>2, <1>3, <1>4, <1>6 DEF Knows, New, wb
<1> QED
  BY <1>5, <1>6

\* What a client that has lost nothing knows is what its session stands for.
LEMMA AnswerStep ==
  ASSUME TypeOK, ConnInv, HeldInv, PostedInv, OutputIsWatched, AnswerInv, [Next]_vars
  PROVE  AnswerInv'
<1> DEFINE Good(c) == /\ phase[c] = "new" => last[c].seq = 0
                      /\ phase[c] = "open" /\ c \notin gaps => Tells(sess[c], Knows(c), New(c))
<1>0. /\ OutputOK /\ phase \in [Conns -> {"new", "open", "closed", "freed"}]
      /\ sess \in [Conns -> Sessions]
      /\ \A c \in Conns : /\ seen[c] \in Knowledge /\ wbuf[c] \in Seq(Messages)
                          /\ Knows(c) \in Knowledge /\ Len(wbuf[c]) <= WriteCapacity
  BY DEF TypeOK, NetOK, OutputOK, Knowledge, Knows, Announced
<1>1. \A c \in Conns : Good(c)
  BY DEF AnswerInv, Tells, Knows, New
<1>2. \A c \in Conns : phase'[c] = "new" => phase[c] = "new"
  BY PhasesMoveOn
<1> SUFFICES \A c \in Conns : Good(c)'
  BY DEF AnswerInv, Tells, Knows, New
<1>3. CASE Silent
  <2> SUFFICES ASSUME NEW c \in Conns
               PROVE  Good(c)'
    OBVIOUS
  <2>1. Knows(c)' = Knows(c) /\ New(c)' = New(c) /\ UNCHANGED last /\ gaps \subseteq gaps'
    BY <1>3 DEF Silent, outVars, Knows, New
  <2>2. CASE Started(c)
    <3>1. phase[c] = "new" /\ phase'[c] = "open" /\ sess'[c] = NewSession(auth_info)
      BY <1>0, <2>2 DEF Started
    <3>2. wbuf[c] = << >>
      BY <3>1 DEF OutputIsWatched
    <3>3. Packets(<< >>) = {}
      BY EmptySeq DEF Packets
    <3>4. New(c).seq = 0
      BY <1>1, <3>1, <3>2, <3>3 DEF New, Newest
    <3>5. /\ NewSession(auth_info).seq = 0 /\ ~NewSession(auth_info).is_play
          /\ ~NewSession(auth_info).is_closed
      BY DEF NewSession
    <3> QED
      BY <2>1, <3>1, <3>4, <3>5 DEF Tells
  <2>3. CASE ~Started(c)
    BY <1>1, <1>2, <1>3, <2>1, <2>3 DEF Silent, Stays, Tells
  <2> QED
    BY <2>2, <2>3
<1>4. ASSUME NEW c \in Conns, Shut(c)
      PROVE  \A d \in Conns : Good(d)'
  <2>1. /\ phase' = [phase EXCEPT ![c] = "closed"] /\ NothingWritten(c) /\ gaps \subseteq gaps'
        /\ \A d \in Conns \ {c} : sess'[d] = sess[d]
    BY <1>4 DEF Shut, Closes
  <2>2. ASSUME NEW d \in Conns \ {c}
        PROVE  /\ phase'[d] = phase[d] /\ Knows(d)' = Knows(d) /\ New(d)' = New(d)
               /\ last'[d] = last[d]
    BY <1>0, <2>1 DEF NothingWritten, Knows, New, OutputOK
  <2>3. \A d \in Conns \ {c} : Good(d)'
    BY <1>1, <2>1, <2>2
  <2>4. phase'[c] = "closed"
    BY <1>0, <2>1
  <2> QED
    BY <2>3, <2>4
<1>5. ASSUME NEW c \in Conns, Flushed(c, wbuf[c]), UNCHANGED <<sess, gaps>>
      PROVE  \A d \in Conns : Good(d)'
  <2>1. /\ \A d \in Conns \ {c} : wbuf'[d] = wbuf[d] /\ seen'[d] = seen[d] /\ last'[d] = last[d]
        /\ Knows(c)' = Knows(c) /\ New(c)' = New(c)
    BY <1>0, <1>5, FlushIs DEF Knows, New
  <2>2. phase[c] = "open" /\ UNCHANGED phase
    BY <1>5 DEF Flushed
  <2>3. \A d \in Conns \ {c} : Knows(d)' = Knows(d) /\ New(d)' = New(d)
    BY <2>1 DEF Knows, New
  <2>4. ASSUME NEW d \in Conns
        PROVE  Good(d)'
    BY <1>1, <1>5, <2>1, <2>2, <2>3
  <2> QED
    BY <2>4
<1>6. ASSUME NEW c \in Conns, NEW m \in Messages, Queues(c, m),
             \A d \in Conns \ {c} : sess'[d] = sess[d],
             c \notin gaps /\ Tells(sess[c], Knows(c), New(c)) =>
               Tells(sess'[c], Told(Knows(c), m),
                     IF m.kind = "rtp" THEN [no |-> m.no, seq |-> m.seq] ELSE New(c))
      PROVE  \A d \in Conns : Good(d)'
  <2>1. /\ phase[c] = "open" /\ UNCHANGED phase /\ gaps \subseteq gaps'
        /\ \A d \in Conns \ {c} : /\ Knows(d)' = Knows(d) /\ New(d)' = New(d)
                                  /\ last'[d] = last[d]
        /\ \/ c \in gaps'
           \/ /\ gaps' = gaps /\ Knows(c)' = Told(Knows(c), m)
              /\ New(c)' = IF m.kind = "rtp" THEN [no |-> m.no, seq |-> m.seq] ELSE New(c)
    BY <1>6, QueuesIs
  <2>2. \A d \in Conns \ {c} : Good(d)'
    BY <1>1, <1>6, <2>1
  <2>3. Good(c)'
    BY <1>1, <1>6, <2>1
  <2> QED
    BY <2>2, <2>3
<1>7. ASSUME NEW c \in Conns, Replied(c)
      PROVE  \A d \in Conns : Good(d)'
  <2>1. PICK m \in Requests : \E o \in Serve(sess[c], m, published) :
          /\ sess' = [sess EXCEPT ![c] = o.s] /\ o.res # "none"
          /\ Queues(c, [kind |-> o.res])
    BY <1>7 DEF Replied
  <2>2. PICK o \in Serve(sess[c], m, published) :
          /\ sess' = [sess EXCEPT ![c] = o.s] /\ o.res # "none"
          /\ Queues(c, [kind |-> o.res])
    BY <2>1
  <2> DEFINE a == [kind |-> o.res]
  <2>3. a \in Messages /\ Follows(sess[c], o, m) /\ a.kind # "rtp"
    BY <2>2, MessageOf
  <2>4. Tells(sess[c], Knows(c), New(c)) => Tells(o.s, Told(Knows(c), a), New(c))
    BY <1>0, <2>2, <2>3, AnswerTells
  <2>5. sess'[c] = o.s /\ \A d \in Conns \ {c} : sess'[d] = sess[d]
    BY <1>0, <2>2
  <2>6. Queues(c, a)
    BY <2>2
  <2> HIDE DEF a
  <2> QED
    BY <1>6, <2>3, <2>4, <2>5, <2>6
<1>8. CASE PacketQueued
  <2> DEFINE c == task.by
             m == [kind |-> "rtp", no |-> task.no, seq |-> sess[c].seq + 1]
  <2>1. /\ c \in Conns /\ m \in Messages /\ Queues(c, m)
        /\ sess[c].is_play /\ sess'[c].seq = sess[c].seq + 1
        /\ sess'[c].is_closed = sess[c].is_closed
        /\ \A d \in Conns \ {c} : sess'[d] = sess[d]
    BY <1>8, PacketIs
  <2>2. m.kind = "rtp" /\ m.no = task.no /\ m.seq = sess[c].seq + 1
    OBVIOUS
  <2> HIDE DEF c, m
  <2>3. Tells(sess[c], Knows(c), New(c)) =>
          Tells(sess'[c], Told(Knows(c), m), [no |-> m.no, seq |-> m.seq])
    BY <2>1, <2>2 DEF Tells, Told
  <2> QED
    BY <1>6, <2>1, <2>2, <2>3
<1> QED
  BY <1>3, <1>4, <1>5, <1>7, <1>8, OutKinds

\* The packets that wait to be written continue those that have been.
LEMMA PacketsStep ==
  ASSUME TypeOK, ConnInv, HeldInv, PostedInv, OutputIsWatched, AnswerInv, OrderInv,
         PacketsWhilePlaying, [Next]_vars
  PROVE  PacketsWhilePlaying'
<1> DEFINE Good(c) == InOrder(seen[c], last[c], wbuf[c], c \in gaps)
<1>0. /\ OutputOK /\ wbuf \in [Conns -> Seq(Messages)]
      /\ \A c \in Conns : /\ seen[c] \in Knowledge /\ wbuf[c] \in Seq(Messages)
                          /\ Len(wbuf[c]) <= WriteCapacity
  BY DEF TypeOK, OutputOK, Knowledge
<1>1. \A c \in Conns : Good(c)
  BY DEF PacketsWhilePlaying, InOrder
<1> SUFFICES \A c \in Conns : Good(c)'
  BY DEF PacketsWhilePlaying, InOrder
<1>2. ASSUME NEW c \in Conns, wbuf'[c] = wbuf[c], seen'[c] = seen[c], last'[c] = last[c],
             gaps \subseteq gaps'
      PROVE  Good(c)'
  <2>1. c \in gaps => c \in gaps'
    BY <1>2
  <2>2. InOrder(seen[c], last[c], wbuf[c], c \in gaps')
    BY <1>1, <2>1 DEF InOrder
  <2> QED
    BY <1>2, <2>2
<1>3. CASE Silent
  BY <1>2, <1>3 DEF Silent, outVars
<1>4. ASSUME NEW c \in Conns, Shut(c)
      PROVE  \A d \in Conns : Good(d)'
  <2>1. NothingWritten(c) /\ gaps \subseteq gaps'
    BY <1>4 DEF Shut
  <2>2. \A d \in Conns \ {c} : wbuf'[d] = wbuf[d] /\ seen'[d] = seen[d] /\ last'[d] = last[d]
    BY <2>1 DEF NothingWritten, TypeOK, OutputOK
  <2>3. wbuf'[c] = << >>
    BY <1>0, <2>1 DEF NothingWritten
  <2>4. Packets(<< >>) = {}
    BY EmptySeq DEF Packets
  <2>5. Good(c)'
    BY <2>3, <2>4 DEF InOrder
  <2> QED
    BY <1>2, <2>1, <2>2, <2>5
<1>5. ASSUME NEW c \in Conns, NEW wb \in Seq(Messages), Len(wb) <= WriteCapacity,
             Flushed(c, wb), gaps \subseteq gaps', InOrder(seen[c], last[c], wb, c \in gaps')
      PROVE  \A d \in Conns : Good(d)'
  <2>1. /\ \A d \in Conns \ {c} : wbuf'[d] = wbuf[d] /\ seen'[d] = seen[d] /\ last'[d] = last[d]
        /\ \A g : InOrder(seen[c], last[c], wb, g)
                    => InOrder(seen'[c], last'[c], wbuf'[c], g)
    BY <1>0, <1>5, FlushIs
  <2>2. InOrder(seen'[c], last'[c], wbuf'[c], c \in gaps')
    BY <1>5, <2>1
  <2> QED
    BY <1>2, <1>5, <2>1, <2>2
<1>6. ASSUME NEW c \in Conns, Flushed(c, wbuf[c]), UNCHANGED gaps
      PROVE  \A d \in Conns : Good(d)'
  <2>1. InOrder(seen[c], last[c], wbuf[c], c \in gaps')
    BY <1>1, <1>6
  <2> QED
    BY <1>0, <1>5, <1>6, <2>1
<1>7. ASSUME NEW c \in Conns, NEW m \in Messages, Queues(c, m),
             m.kind = "rtp" =>
               /\ m.no > New(c).no
               /\ c \notin gaps => /\ m.seq = New(c).seq + 1
                                   /\ Knows(c) \in {"playing", "again"}
      PROVE  \A d \in Conns : Good(d)'
  <2> DEFINE wb == AppendTo(c, m)
  <2>1. /\ wb \in Seq(Messages) /\ Len(wb) <= WriteCapacity
    BY <1>0, AppendToIs
  <2>2. /\ gaps \subseteq gaps' /\ Flushed(c, wb)
        /\ \/ c \in gaps' /\ wb = wbuf[c]
           \/ gaps' = gaps /\ wb = Append(wbuf[c], m)
    BY <1>7, QueuesIs DEF Queues
  <2>3. CASE c \in gaps' /\ wb = wbuf[c]
    <3>1. InOrder(seen[c], last[c], wbuf[c], c \in gaps')
      BY <1>1, <2>3 DEF InOrder
    <3> QED
      BY <1>5, <2>1, <2>2, <2>3, <3>1
  <2>4. CASE gaps' = gaps /\ wb = Append(wbuf[c], m)
    <3>1. InOrder(seen[c], last[c], Append(wbuf[c], m), c \in gaps)
      BY <1>0, <1>1, <1>7, AppendInOrder DEF Knows, New
    <3>2. InOrder(seen[c], last[c], wb, c \in gaps')
      BY <2>4, <3>1
    <3> HIDE DEF wb
    <3> QED
      BY <1>5, <2>1, <2>2, <3>2
  <2> QED
    BY <2>2, <2>3, <2>4
<1>8. ASSUME NEW c \in Conns, Replied(c)
      PROVE  \A d \in Conns : Good(d)'
  <2>1. PICK m \in Requests : \E o \in Serve(sess[c], m, published) :
          o.res # "none" /\ Queues(c, [kind |-> o.res])
    BY <1>8 DEF Replied
  <2>2. PICK o \in Serve(sess[c], m, published) :
          o.res # "none" /\ Queues(c, [kind |-> o.res])
    BY <2>1
  <2>3. [kind |-> o.res] \in Messages /\ o.res # "rtp"
    BY <2>2, MessageOf
  <2> QED
    BY <1>7, <2>2, <2>3
<1>9. CASE PacketQueued
  <2> DEFINE c == task.by
             m == [kind |-> "rtp", no |-> task.no, seq |-> sess[c].seq + 1]
  <2>1. /\ c \in Conns /\ m \in Messages /\ Queues(c, m)
        /\ sess[c].is_play /\ task \in Tasks /\ task.kind = "send"
    BY <1>9, PacketIs
  <2>2. m.no = task.no /\ m.seq = sess[c].seq + 1
    OBVIOUS
  <2>3. New(c).no < task.no
    BY <2>1 DEF OrderInv, NewestOf, New
  <2>4. phase[c] = "open"
    BY <2>1 DEF Queues, Flushed
  <2>5. c \notin gaps => sess[c].seq = New(c).seq /\ Knows(c) \in {"playing", "again"}
    BY <2>1, <2>4 DEF AnswerInv, Knows, New
  <2>6. New(c).no \in Nat /\ task.no \in Nat
    <3>1. New(c) \in Newests
      BY <1>0, <2>1, ViewTypes DEF New, OutputOK, Newests
    <3>2. task.no \in 0..MaxPackets
      BY <1>9, MessageOf DEF PacketQueued
    <3> QED
      BY <3>1, <3>2 DEF Newests
  <2> HIDE DEF c, m
  <2>7. m.no > New(c).no
    BY <2>2, <2>3, <2>6
  <2>8. c \notin gaps => m.seq = New(c).seq + 1 /\ Knows(c) \in {"playing", "again"}
    BY <2>2, <2>5
  <2> QED
    BY <1>7, <2>1, <2>7, <2>8
<1> QED
  BY <1>3, <1>4, <1>6, <1>8, <1>9, OutKinds

-----------------------------------------------------------------------------
(* The order of the packets.                                               *)

\* A client's newest packet is a number.
LEMMA NewestTypes ==
  ASSUME TypeOK
  PROVE  /\ \A c \in Conns : NewestOf(c) \in 0..MaxPackets
         /\ packet \in 0..MaxPackets /\ packet \in Nat /\ MaxPackets \in Nat
         /\ \A t \in Tasks : IsSend(t) => t.no \in 0..MaxPackets /\ t.by \in Conns
<1>1. \A c \in Conns : NewestOf(c) \in 0..MaxPackets
  <2> TAKE c \in Conns
  <2>1. wbuf[c] \in Seq(Messages) /\ seen[c] \in Knowledge /\ last[c] \in Newests
    BY DEF TypeOK, OutputOK, Knowledge, Newests
  <2>2. Newest(last[c], wbuf[c]) \in Newests
    BY <2>1, ViewTypes
  <2> QED
    BY <2>2 DEF NewestOf, Newests
<1>2. packet \in 0..MaxPackets /\ MaxPackets \in Nat
  BY Assumption DEF TypeOK, StreamOK
<1> QED
  BY <1>1, <1>2, TaskTypes DEF IsSend

\* Only a packet that is queued for it is newer to a client than the one
\* before.
LEMMA NewestKinds ==
  ASSUME TypeOK, ConnInv, HeldInv, PostedInv, [Next]_vars
  PROVE  \/ \A c \in Conns : NewestOf(c)' \in {NewestOf(c), 0}
         \/ /\ PacketQueued /\ task' = NoTask /\ task \in Tasks /\ IsSend(task)
            /\ \A c \in Conns : \/ NewestOf(c)' = NewestOf(c)
                                \/ c = task.by /\ NewestOf(c)' = task.no
<1>0. /\ OutputOK
      /\ \A c \in Conns : /\ wbuf[c] \in Seq(Messages) /\ Len(wbuf[c]) <= WriteCapacity
  BY DEF TypeOK, OutputOK
<1>1. CASE Silent
  BY <1>1 DEF Silent, outVars, NewestOf
<1>2. ASSUME NEW c \in Conns, Shut(c)
      PROVE  \A d \in Conns : NewestOf(d)' \in {NewestOf(d), 0}
  <2>1. NothingWritten(c)
    BY <1>2 DEF Shut
  <2>2. \A d \in Conns \ {c} : NewestOf(d)' = NewestOf(d)
    BY <2>1 DEF NothingWritten, TypeOK, OutputOK, NewestOf
  <2>3. wbuf'[c] = << >> /\ last'[c] = [no |-> 0, seq |-> 0]
    BY <2>1 DEF NothingWritten, TypeOK, OutputOK
  <2>4. Packets(<< >>) = {}
    BY EmptySeq DEF Packets
  <2>5. NewestOf(c)' = 0
    BY <2>3, <2>4 DEF NewestOf, Newest
  <2> QED
    BY <2>2, <2>5
<1>3. ASSUME NEW c \in Conns, Flushed(c, wbuf[c])
      PROVE  \A d \in Conns : NewestOf(d)' \in {NewestOf(d), 0}
  BY <1>0, <1>3, FlushIs DEF NewestOf
<1>4. ASSUME NEW c \in Conns, NEW m \in Messages, Queues(c, m)
      PROVE  /\ NewestOf(c)' \in {NewestOf(c), IF m.kind = "rtp" THEN m.no ELSE NewestOf(c)}
             /\ \A d \in Conns \ {c} : NewestOf(d)' = NewestOf(d)
  <2>1. \A d : NewestOf(d) = New(d).no /\ NewestOf(d)' = New(d)'.no
    BY DEF NewestOf, New
  <2>2. /\ \A d \in Conns \ {c} : New(d)' = New(d)
        /\ \/ New(c)' = New(c)
           \/ New(c)' = IF m.kind = "rtp" THEN [no |-> m.no, seq |-> m.seq] ELSE New(c)
    BY <1>4, QueuesIs
  <2>3. NewestOf(c)' \in {NewestOf(c), IF m.kind = "rtp" THEN m.no ELSE NewestOf(c)}
    BY <2>1, <2>2
  <2> QED
    BY <2>1, <2>2, <2>3
<1>5. ASSUME NEW c \in Conns, Replied(c)
      PROVE  \A d \in Conns : NewestOf(d)' \in {NewestOf(d), 0}
  <2>1. PICK m \in Messages : m.kind # "rtp" /\ Queues(c, m)
    BY <1>5, MessageOf DEF Replied
  <2> QED
    BY <1>4, <2>1
<1>6. CASE PacketQueued
  <2> DEFINE m == [kind |-> "rtp", no |-> task.no, seq |-> sess[task.by].seq + 1]
  <2>1. /\ task.by \in Conns /\ task \in Tasks /\ IsSend(task) /\ task' = NoTask
        /\ m \in Messages /\ Queues(task.by, m)
    BY <1>6, PacketIs DEF IsSend
  <2>2. m.no = task.no /\ m.kind = "rtp"
    OBVIOUS
  <2>3. PICK c \in Conns : c = task.by
    BY <2>1
  <2> HIDE DEF m
  <2>4. /\ NewestOf(c)' \in {NewestOf(c), task.no}
        /\ \A d \in Conns \ {c} : NewestOf(d)' = NewestOf(d)
    BY <1>4, <2>1, <2>2, <2>3
  <2> QED
    BY <1>6, <2>1, <2>3, <2>4
<1> QED
  BY <1>1, <1>2, <1>3, <1>5, <1>6, OutKinds

\* What a step of the loop does to the sends.
LEMMA LoopTasks ==
  ASSUME TypeOK, ConnInv, HeldInv, PostedInv,
         LoopStep \/ FireTimer \/ Poll \/ UNCHANGED vars
  PROVE  \/ TakeTask
         \/ /\ task' \in {task, NoTask}
            /\ \A i \in 1..Len(queue') : IsSend(queue'[i]) =>
                 i \in 1..Len(queue) /\ queue'[i] = queue[i]
<1>0. [Next]_vars
  BY DEF Next
<1>1. CASE Quiet
  BY <1>1 DEF Quiet, TaskDone
<1>2. ASSUME NEW c \in Conns, Closes(c)
      PROVE  /\ task' \in {task, NoTask}
             /\ \A i \in 1..Len(queue') : IsSend(queue'[i]) =>
                  i \in 1..Len(queue) /\ queue'[i] = queue[i]
  <2>1. task' \in {task, NoTask}
    BY <1>2 DEF Closes, TaskDone
  <2>2. CASE UNCHANGED queue
    BY <2>1, <2>2
  <2>3. CASE queue' = Append(queue, Removal(c))
    <3>1. /\ Len(queue) \in Nat /\ Len(queue') = Len(queue) + 1
          /\ \A i \in 1..Len(queue) : queue'[i] = queue[i]
          /\ queue'[Len(queue')] = Removal(c)
      BY <1>2, <2>3, RemovalIs, AppendIs
    <3>2. ~IsSend(Removal(c))
      BY DEF Removal, IsSend
    <3>3. \A i \in 1..Len(queue') : i \in 1..Len(queue) \/ i = Len(queue')
      BY <3>1
    <3> QED
      BY <2>1, <3>1, <3>2, <3>3
  <2> QED
    BY <1>2, <2>2, <2>3, RemovalIs
<1>3. ASSUME NEW c \in Conns, Accept(c)
      PROVE  UNCHANGED <<task, queue>>
  BY <1>3 DEF Accept
<1>4. CASE RunRemoval \/ FireTimer
  BY <1>4, RemovalRuns
<1>5. ~(Release \/ Post) \/ Quiet
  <2>1. CASE LoopStep \/ FireTimer \/ Poll
    <3>1. UNCHANGED spc
      BY LoopKeepsStream DEF streamVars
    <3> QED
      BY <3>1 DEF Release, Post
  <2>2. CASE UNCHANGED vars
    BY <2>2 DEF vars, netVars, tcpVars, Quiet, connVars, TaskDone
  <2> QED
    BY <2>1, <2>2
<1> QED
  BY <1>0, <1>1, <1>2, <1>3, <1>4, <1>5, StepKinds

\* The loop takes the packets of a client in the order of the stream.
LEMMA LoopOrder ==
  ASSUME TypeOK, ConnInv, HeldInv, PostedInv, OrderInv,
         LoopStep \/ FireTimer \/ Poll \/ UNCHANGED vars
  PROVE  OrderInv'
<1>0. /\ Len(queue) \in Nat /\ \A i \in 1..Len(queue) : queue[i] \in Tasks
      /\ \A i \in 1..Len(queue') : queue'[i] \in Tasks'
      /\ task \in Tasks /\ task' \in Tasks' /\ ~IsSend(NoTask)
  BY TaskTypes DEF Tasks, NoTask, IsSend
<1>1. UNCHANGED <<packet, left, spc, todo, conn>> /\ \A c : Waiting(c)' <=> Waiting(c)
  BY LoopKeepsStream DEF streamVars, Waiting
<1>2. [Next]_vars
  BY DEF Next
<1>3. ASSUME NEW c \in Conns
      PROVE  NewestOf(c)' <= packet /\ (Waiting(c) => NewestOf(c)' < packet)
  <2>1. /\ NewestOf(c) \in Nat /\ packet \in Nat
        /\ NewestOf(c) <= packet /\ (Waiting(c) => NewestOf(c) < packet)
    BY <1>3, NewestTypes DEF OrderInv
  <2>2. CASE NewestOf(c)' \in {NewestOf(c), 0}
    BY <2>1, <2>2
  <2>3. CASE task \in Tasks /\ IsSend(task) /\ c = task.by /\ NewestOf(c)' = task.no
    BY <2>3 DEF OrderInv, IsSend
  <2> QED
    BY <1>2, <1>3, <2>2, <2>3, NewestKinds
<1>4. CASE TakeTask
  <2>1. /\ task.kind = "none" /\ task' = queue[1] /\ 1 \in 1..Len(queue)
        /\ \A i \in 1..Len(queue') : i + 1 \in 1..Len(queue) /\ queue'[i] = queue[i + 1]
        /\ Tasks' \subseteq Tasks
    BY <1>4, TakeIs
  <2>2. \A c \in Conns : NewestOf(c)' = NewestOf(c)
    BY <1>4 DEF TakeTask, outVars, NewestOf
  <2>3. \A t \in Tasks' : t.kind = "send" =>
          /\ NewestOf(t.by)' < t.no /\ t.no <= packet
          /\ Waiting(t.by) => t.no < packet
    BY <2>1, <2>2, NewestTypes DEF OrderInv, IsSend
  <2>4. ASSUME NEW i \in 1..Len(queue'), NEW j \in 1..Len(queue'), i < j,
               queue'[i].kind = "send", queue'[j].kind = "send"
        PROVE  queue'[i].by # queue'[j].by \/ queue'[i].no < queue'[j].no
    <3>1. i + 1 < j + 1
      BY <2>4
    <3> QED
      BY <2>1, <2>4, <3>1 DEF OrderInv
  <2>5. ASSUME task'.kind = "send", NEW j \in 1..Len(queue'), queue'[j].kind = "send"
        PROVE  queue'[j].by # task'.by \/ task'.no < queue'[j].no
    <3>1. 1 < j + 1
      OBVIOUS
    <3> QED
      BY <2>1, <2>5, <3>1 DEF OrderInv
  <2> QED
    BY <1>1, <1>3, <2>3, <2>4, <2>5 DEF OrderInv
<1>5. CASE /\ task' \in {task, NoTask}
           /\ \A i \in 1..Len(queue') : IsSend(queue'[i]) =>
                i \in 1..Len(queue) /\ queue'[i] = queue[i]
  <2>1. ASSUME NEW t \in Tasks', IsSend(t)
        PROVE  t \in Tasks /\ (task' = NoTask => \E j \in 1..Len(queue) : t = queue[j])
    BY <1>0, <1>5, <2>1 DEF Tasks
  <2>2. ASSUME NEW t \in Tasks', IsSend(t)
        PROVE  NewestOf(t.by)' < t.no
    <3>1. t \in Tasks /\ t.by \in Conns /\ NewestOf(t.by) < t.no
      BY <2>1, <2>2, NewestTypes DEF OrderInv, IsSend
    <3>2. CASE NewestOf(t.by)' \in {NewestOf(t.by), 0}
      <4>1. NewestOf(t.by) \in Nat /\ t.no \in Nat
        BY <2>2, <3>1, NewestTypes
      <4> QED
        BY <3>1, <3>2, <4>1
    <3>3. CASE /\ task' = NoTask /\ IsSend(task) /\ t.by = task.by
               /\ NewestOf(t.by)' = task.no
      <4>1. PICK j \in 1..Len(queue) : t = queue[j]
        BY <2>1, <2>2, <3>3
      <4>2. task.no < t.no
        BY <2>2, <3>3, <4>1 DEF OrderInv, IsSend
      <4> QED
        BY <3>3, <4>2
    <3> QED
      BY <1>2, <3>1, <3>2, <3>3, NewestKinds
  <2>3. \A t \in Tasks' : t.kind = "send" =>
          /\ NewestOf(t.by)' < t.no /\ t.no <= packet
          /\ Waiting(t.by) => t.no < packet
    BY <2>1, <2>2 DEF OrderInv, IsSend
  <2>4. ASSUME NEW i \in 1..Len(queue'), NEW j \in 1..Len(queue'), i < j,
               queue'[i].kind = "send", queue'[j].kind = "send"
        PROVE  queue'[i].by # queue'[j].by \/ queue'[i].no < queue'[j].no
    BY <1>5, <2>4 DEF OrderInv, IsSend
  <2>5. ASSUME task'.kind = "send", NEW j \in 1..Len(queue'), queue'[j].kind = "send"
        PROVE  queue'[j].by # task'.by \/ task'.no < queue'[j].no
    BY <1>0, <1>5, <2>5 DEF OrderInv, IsSend
  <2> QED
    BY <1>1, <1>3, <2>3, <2>4, <2>5 DEF OrderInv
<1> QED
  BY <1>4, <1>5, LoopTasks

\* The streaming thread posts its packets in their order.
LEMMA StreamOrder ==
  ASSUME TypeOK, HeldInv, OrderInv, StreamStep \/ PushFrame
  PROVE  OrderInv'
<1> USE DEF netVars, tcpVars, outVars, loopAndClients
<1>0. /\ Len(queue) \in Nat /\ \A i \in 1..Len(queue) : queue[i] \in Tasks
      /\ task \in Tasks /\ packet \in Nat /\ left \in Nat /\ MaxPackets \in Nat
      /\ PacketsPerFrame \in Nat \ {0}
      /\ conn \in Conns \union {None} /\ None \notin Conns /\ todo \subseteq Conns
      /\ \A c \in Conns : NewestOf(c) \in Nat
      /\ \A t \in Tasks : IsSend(t) => t.by \in Conns /\ t.no \in Nat
  BY Assumption, NewestTypes, TaskTypes DEF TypeOK, StreamOK, Tasks
<1>1. \A c : NewestOf(c)' = NewestOf(c)
  <2>1. UNCHANGED outVars
    BY DEF StreamStep, RtspInit, Collect, LockConnection, CheckSize, Post, Release,
           CallbackEnds, PushFrame
  <2> QED
    BY <2>1 DEF NewestOf
\* The queue is left alone, and no connection waits anew.
<1>2. ASSUME UNCHANGED <<queue, task, packet>>, packet + left' <= MaxPackets,
             spc' = "collect" => left' > 0, conn' \notin todo',
             \A c \in Conns : Waiting(c)' => Waiting(c)
      PROVE  OrderInv'
  <2>1. Tasks' = Tasks
    BY <1>2 DEF Tasks
  <2> QED
    BY <1>0, <1>1, <1>2, <2>1 DEF OrderInv, IsSend
<1>3. CASE RtspInit
  BY <1>0, <1>2, <1>3 DEF RtspInit, Start, SetAuthConfig, AddSession, OrderInv, Waiting
<1>4. CASE PushFrame
  BY <1>0, <1>2, <1>4 DEF PushFrame, OrderInv, Waiting
<1>5. CASE LockConnection
  BY <1>0, <1>2, <1>5 DEF LockConnection, OrderInv, Waiting, HeldInv
<1>6. CASE CheckSize
  BY <1>0, <1>2, <1>6 DEF CheckSize, OrderInv, Waiting
<1>7. CASE Release
  BY <1>0, <1>2, <1>7 DEF Release, OrderInv, Waiting
<1>8. CASE CallbackEnds
  BY <1>0, <1>2, <1>8 DEF CallbackEnds, OrderInv, Waiting
<1>9. CASE Collect
  <2>1. /\ packet' = packet + 1 /\ left' = left - 1 /\ spc' = "each" /\ spc = "collect"
        /\ UNCHANGED <<queue, task, conn>> /\ conn = None
        /\ todo' \subseteq {clients[f] : f \in Fds} \ {None}
    BY <1>9 DEF Collect, HeldInv
  <2>2. Tasks' = Tasks /\ conn' \notin todo'
    BY <2>1 DEF Tasks
  <2>3. packet + left <= MaxPackets /\ left > 0
    BY <2>1 DEF OrderInv
  <2>4. packet' + left' <= MaxPackets
    BY <1>0, <2>1, <2>3
  <2>5. \A c \in Conns : NewestOf(c)' < packet'
    BY <1>0, <1>1, <2>1 DEF OrderInv
  <2>6. \A t \in Tasks : IsSend(t) => NewestOf(t.by)' < t.no /\ t.no < packet'
    BY <1>0, <1>1, <2>1 DEF OrderInv, IsSend
  <2>7. \A n \in Nat : n < packet' => n <= packet'
    BY <1>0, <2>1
  <2> QED
    BY <1>0, <1>1, <2>1, <2>2, <2>4, <2>5, <2>6, <2>7 DEF OrderInv, IsSend
<1>10. CASE Post
  <2> DEFINE e == SendOf(conn, packet)
  <2>1. /\ conn \in Conns /\ spc = "push" /\ spc' = "release"
        /\ UNCHANGED <<task, conn, todo, packet, left>>
        /\ UNCHANGED queue \/ (e \in Sendings /\ queue' = Append(queue, e))
    BY <1>10, PostIs
  <2>2. \A c \in Conns : Waiting(c)' => Waiting(c) /\ c # conn
    BY <2>1 DEF OrderInv, Waiting
  <2>3. Waiting(conn)
    BY <2>1 DEF Waiting
  <2>4. CASE UNCHANGED queue
    BY <1>2, <2>1, <2>2, <2>4 DEF OrderInv
  <2>5. CASE e \in Sendings /\ queue' = Append(queue, e)
    <3>1. /\ Len(queue') = Len(queue) + 1
          /\ \A i \in 1..Len(queue) : queue'[i] = queue[i]
          /\ queue'[Len(queue')] = e
          /\ Tasks' \subseteq Tasks \union {e, task'}
      BY <2>5, AppendIs
    <3>2. e.kind = "send" /\ e.by = conn /\ e.no = packet
      BY DEF SendOf
    <3> HIDE DEF e
    <3>3. \A i \in 1..Len(queue') : i \in 1..Len(queue) \/ i = Len(queue')
      BY <1>0, <3>1
    \* What was posted for this connection is older.
    <3>4. /\ \A c \in Conns : c = conn => NewestOf(c)' < packet
          /\ \A t \in Tasks : IsSend(t) /\ t.by = conn => t.no < packet
      BY <1>1, <2>1, <2>3 DEF OrderInv, IsSend
    <3>5. \A t \in Tasks' : t.kind = "send" =>
            /\ NewestOf(t.by)' < t.no /\ t.no <= packet
            /\ Waiting(t.by)' => t.no < packet
      <4> TAKE t \in Tasks'
      <4>1. CASE t = e
        BY <1>0, <2>1, <2>2, <3>2, <3>4, <4>1
      <4>2. CASE t \in Tasks
        BY <1>0, <1>1, <2>2, <4>2 DEF OrderInv, IsSend
      <4> QED
        BY <1>0, <2>1, <3>1, <4>1, <4>2
    <3>6. ASSUME NEW i \in 1..Len(queue'), NEW j \in 1..Len(queue'), i < j,
                 queue'[i].kind = "send", queue'[j].kind = "send"
          PROVE  queue'[i].by # queue'[j].by \/ queue'[i].no < queue'[j].no
      <4>1. i \in 1..Len(queue) /\ queue'[i] = queue[i]
        BY <1>0, <3>1, <3>6
      <4>2. CASE j \in 1..Len(queue)
        BY <3>1, <3>6, <4>1, <4>2 DEF OrderInv
      <4>3. CASE j = Len(queue')
        BY <1>0, <3>1, <3>2, <3>4, <3>6, <4>1, <4>3 DEF IsSend
      <4> QED
        BY <3>3, <4>2, <4>3
    <3>7. ASSUME task'.kind = "send", NEW j \in 1..Len(queue'), queue'[j].kind = "send"
          PROVE  queue'[j].by # task'.by \/ task'.no < queue'[j].no
      <4>1. CASE j \in 1..Len(queue)
        BY <2>1, <3>1, <3>7, <4>1 DEF OrderInv
      <4>2. CASE j = Len(queue')
        BY <1>0, <2>1, <3>1, <3>2, <3>4, <3>7, <4>2 DEF IsSend
      <4> QED
        BY <3>3, <4>1, <4>2
    <3>8. \A c \in Conns : NewestOf(c)' <= packet /\ (Waiting(c)' => NewestOf(c)' < packet)
      BY <1>1, <2>2 DEF OrderInv
    <3>9. packet + left <= MaxPackets /\ conn \notin todo
      BY DEF OrderInv
    <3> QED
      BY <2>1, <3>5, <3>6, <3>7, <3>8, <3>9 DEF OrderInv
  <2> QED
    BY <2>1, <2>4, <2>5
<1> QED
  BY <1>3, <1>4, <1>5, <1>6, <1>7, <1>8, <1>9, <1>10 DEF StreamStep

-----------------------------------------------------------------------------
(* The types.                                                              *)

\* The variables of the connections keep their types.
LEMMA NetStep ==
  ASSUME TypeOK, ConnInv, HeldInv, PostedInv, SessionInv, ClientInv, [Next]_vars
  PROVE  NetOK'
<1>0. /\ {owner, connections} \subseteq [Fds -> Conns \union {None}]
      /\ fd \in [Conns -> Fds \union {0}] /\ polled \subseteq Conns
      /\ conn \in Conns \union {None}
  BY DEF TypeOK, NetOK, StreamOK
<1>1. phase' \in [Conns -> {"new", "open", "closed", "freed"}]
  BY PhasesMoveOn
<1>2. sess' \in [Conns -> Sessions]
  BY SessionStep
<1>3. clients' \in [Fds -> Conns \union {None}]
  BY ClientStep DEF ClientsOK
<1> SUFFICES /\ {owner', connections'} \subseteq [Fds -> Conns \union {None}]
             /\ fd' \in [Conns -> Fds \union {0}] /\ polled' \subseteq Conns
  BY <1>1, <1>2, <1>3 DEF NetOK
<1>4. CASE UNCHANGED connVars
  BY <1>0, <1>4 DEF connVars
<1>5. ASSUME NEW c \in Conns, Closes(c)
      PROVE  /\ {owner', connections'} \subseteq [Fds -> Conns \union {None}]
             /\ fd' \in [Conns -> Fds \union {0}] /\ polled' \subseteq Conns
  <2>1. UNCHANGED <<owner, connections>> /\ polled' = polled \ {c} /\ UNCHANGED fd
    BY <1>5 DEF Closes
  <2> QED
    BY <1>0, <2>1
<1>6. ASSUME NEW c \in Conns, Accept(c)
      PROVE  /\ {owner', connections'} \subseteq [Fds -> Conns \union {None}]
             /\ fd' \in [Conns -> Fds \union {0}] /\ polled' \subseteq Conns
  <2>1. PICK f \in Fds :
          /\ owner' = [owner EXCEPT ![f] = c] /\ fd' = [fd EXCEPT ![c] = f]
          /\ connections' = [connections EXCEPT ![f] = IF @ = None THEN c ELSE @]
    BY <1>6 DEF Accept
  <2>2. polled' = polled \union {c}
    BY <1>6 DEF Accept
  <2> QED
    BY <1>0, <2>1, <2>2
<1>7. CASE RunRemoval \/ FireTimer \/ Release
  <2>1. UNCHANGED <<fd, polled>>
    BY <1>7 DEF RunRemoval, FireTimer, Release
  <2>2. connections' = connections \/ \E f : connections' = [connections EXCEPT ![f] = None]
    BY <1>7 DEF RunRemoval, FireTimer, Release, RemoveConnection
  <2>3. owner' = owner \/ \E f : owner' = [owner EXCEPT ![f] = None]
    BY <1>7 DEF RunRemoval, FireTimer, Release, RemoveConnection, Destroy
  <2> QED
    BY <1>0, <2>1, <2>2, <2>3
<1>8. CASE Quiet \/ TakeTask \/ Post
  BY <1>4, <1>8 DEF Quiet, TakeTask, Post, connVars, netVars
<1> QED
  BY <1>5, <1>6, <1>7, <1>8, StepKinds

\* What the requests and the histories hold.
LEMMA HistoryStep ==
  ASSUME TypeOK, HeldInv, [Next]_vars
  PROVE  /\ requests' \in 0..MaxRequests
         /\ gaps' \subseteq Conns /\ raced' \subseteq Conns /\ lost' \subseteq Conns
<1> USE DEF netVars, tcpVars, outVars, streamVars, loopAndClients
<1>0. /\ requests \in 0..MaxRequests /\ MaxRequests \in Nat
      /\ gaps \subseteq Conns /\ raced \subseteq Conns /\ lost \subseteq Conns
      /\ conn \in Conns \union {None}
  BY Assumption DEF TypeOK, LoopOK, StreamOK
<1>1. ASSUME NEW c \in Conns, NEW cls, Close(c, cls)
      PROVE  lost' \subseteq Conns
  BY <1>0, <1>1 DEF Close, PostRemoval
<1>2. ASSUME NEW c \in Conns, NEW wb, NEW cls, HandleWrite(c, wb, cls)
      PROVE  lost' \subseteq Conns
  BY <1>0, <1>1, <1>2 DEF HandleWrite
<1>3. ASSUME NEW c \in Conns, NEW m, NEW cls, SendTo(c, m, cls)
      PROVE  lost' \subseteq Conns /\ gaps' \subseteq Conns
  <2>1. lost' \subseteq Conns
    BY <1>2, <1>3 DEF SendTo
  <2> QED
    BY <1>0, <1>3, <2>1 DEF SendTo
<1>4. ASSUME NEW c \in Conns, Request(c)
      PROVE  /\ requests' \in 0..MaxRequests
             /\ gaps' \subseteq Conns /\ raced' \subseteq Conns /\ lost' \subseteq Conns
  <2>1. requests < MaxRequests /\ requests' = requests + 1 /\ UNCHANGED raced
    BY <1>4 DEF Request
  <2>2. UNCHANGED <<lost, gaps>> \/ \E m, cls : SendTo(c, m, cls)
    BY <1>4 DEF Request
  <2> QED
    BY <1>0, <1>3, <2>1, <2>2
<1>5. ASSUME NEW c \in Conns, Gone(c) \/ Writable(c)
      PROVE  UNCHANGED <<requests, gaps, raced>> /\ lost' \subseteq Conns
  BY <1>1, <1>2, <1>5 DEF Gone, Writable
<1>6. CASE RunSend
  <2>1. task.by \in Conns /\ UNCHANGED <<requests, raced>>
    BY <1>6, MessageOf DEF RunSend
  <2>2. \/ UNCHANGED <<lost, gaps>> \/ \E m, cls : SendTo(task.by, m, cls)
        \/ UNCHANGED lost /\ gaps' = gaps \union {task.by}
    BY <1>6 DEF RunSend, SendRtpOverTcp, SendRtpOverUdp
  <2> QED
    BY <1>0, <1>3, <2>1, <2>2
<1>7. CASE Post
  BY <1>0, <1>7 DEF Post, HeldInv
<1>8. ASSUME NEW c \in Conns, Accept(c) \/ NothingToDo(c) \/ RtcpDangling(c)
      PROVE  UNCHANGED <<requests, gaps, raced, lost>>
  BY <1>8 DEF Accept, NothingToDo, RtcpDangling
<1>9. CASE \/ TakeTask \/ RunRemoval \/ SendDangling \/ FireTimer \/ ToPoll \/ BatchDone
           \/ AcceptNothing \/ Poll \/ UNCHANGED vars
  <2>1. UNCHANGED <<requests, gaps, raced, lost>>
    BY <1>9 DEF TakeTask, RunRemoval, SendDangling, FireTimer, ToPoll, BatchDone,
       AcceptNothing, Poll, vars
  <2> QED
    BY <1>0, <2>1
<1>10. CASE RtspInit \/ Collect \/ LockConnection \/ CheckSize \/ Release \/ CallbackEnds
            \/ PushFrame
  <2>1. UNCHANGED <<requests, gaps, raced, lost>>
    BY <1>10 DEF RtspInit, Collect, LockConnection, CheckSize, Release, CallbackEnds,
       PushFrame
  <2> QED
    BY <1>0, <2>1
<1> QED
  BY <1>0, <1>4, <1>5, <1>6, <1>7, <1>8, <1>9, <1>10
     DEF Next, LoopStep, HandleEvent, StreamStep

\* The queue, the timers and the running task keep their types, and the queue
\* its capacity.
LEMMA LoopTypes ==
  ASSUME TypeOK, ConnInv, HeldInv, PostedInv, [Next]_vars
  PROVE  LoopOK'
<1> DEFINE QueueOK == queue \in Seq(Removals \union Sendings) /\ Len(queue) <= QueueCapacity
           TimersOK == timers \subseteq Removals
           TaskOK == task \in Removals \union Sendings \union {NoTask}
<1>0. /\ QueueOK /\ TimersOK /\ TaskOK /\ Len(queue) \in Nat /\ QueueCapacity \in Nat
      /\ batch \subseteq Events /\ lpc \in {"trigger", "poll", "handle"}
  BY Assumption, LenProperties DEF TypeOK, LoopOK
<1>1. requests' \in 0..MaxRequests
  BY HistoryStep
<1>2. lpc' \in {"trigger", "poll", "handle"}
  BY <1>0, LoopKinds DEF TakeTask, ToPoll, Poll, BatchDone
<1>3. batch' \subseteq Events
  <2>1. SocketEvents \subseteq Events
    BY DEF SocketEvents, Events, TypeOK, NetOK
  <2>2. CASE Poll
    BY <2>1, <2>2 DEF Poll
  <2>3. Poll \/ batch' \subseteq batch
    BY LoopKinds DEF TakeTask, ToPoll, BatchDone
  <2> QED
    BY <1>0, <2>2, <2>3
<1> SUFFICES QueueOK' /\ TimersOK' /\ TaskOK'
  BY <1>1, <1>2, <1>3 DEF LoopOK
<1>4. ASSUME NEW e \in Removals \union Sendings, Len(queue) < QueueCapacity,
             queue' = Append(queue, e)
      PROVE  QueueOK'
  <2>1. /\ Append(queue, e) \in Seq(Removals \union Sendings)
        /\ Len(Append(queue, e)) = Len(queue) + 1
    BY <1>0, AppendProperties
  <2>2. Len(queue) + 1 <= QueueCapacity
    BY <1>0, <1>4
  <2> QED
    BY <1>4, <2>1, <2>2
<1>5. ASSUME NEW c \in Conns, Closes(c)
      PROVE  QueueOK' /\ TimersOK' /\ TaskOK'
  <2>1. Removal(c) \in Removals
    BY <1>5, RemovalIs
  <2>2. /\ \/ UNCHANGED queue
           \/ Len(queue) < QueueCapacity /\ queue' = Append(queue, Removal(c))
        /\ UNCHANGED timers \/ timers' = timers \union {Removal(c)}
    BY <1>5 DEF Closes, PostRemoval
  <2>3. TaskOK'
    BY <1>0, <1>5 DEF Closes, TaskDone
  <2>4. QueueOK'
    BY <1>0, <1>4, <2>1, <2>2
  <2> QED
    BY <1>0, <2>1, <2>2, <2>3, <2>4
<1>6. CASE TakeTask
  <2>1. /\ queue # << >> /\ task' = Head(queue) /\ queue' = Tail(queue) /\ UNCHANGED timers
    BY <1>6 DEF TakeTask
  <2>2. /\ Head(queue) \in Removals \union Sendings
        /\ Tail(queue) \in Seq(Removals \union Sendings)
        /\ Len(Tail(queue)) = Len(queue) - 1
    BY <1>0, <2>1, HeadTailProperties
  <2> QED
    BY <1>0, <2>1, <2>2
<1>7. CASE Post
  <2>1. /\ UNCHANGED <<timers, task>>
        /\ \/ UNCHANGED queue
           \/ Len(queue) < QueueCapacity /\ queue' = Append(queue, SendOf(conn, packet))
    BY <1>7 DEF Post
  <2>2. SendOf(conn, packet) \in Sendings
    <3>1. conn \in Conns /\ packet \in 0..MaxPackets
      BY <1>7, PostIs DEF TypeOK, StreamOK
    <3> QED
      BY <3>1 DEF SendOf, Sendings
  <2> QED
    BY <1>0, <1>4, <2>1, <2>2
<1>8. CASE RunRemoval \/ FireTimer
  <2>1. UNCHANGED queue /\ timers' \subseteq timers /\ task' \in {task, NoTask}
    BY <1>8, RemovalRuns
  <2> QED
    BY <1>0, <2>1
<1>9. CASE Quiet
  BY <1>0, <1>9 DEF Quiet, TaskDone
<1>10. CASE Release \/ \E c \in Conns : Accept(c)
  <2>1. UNCHANGED <<queue, timers, task>>
    BY <1>10 DEF Release, Accept
  <2> QED
    BY <1>0, <2>1
<1> HIDE DEF QueueOK, TimersOK, TaskOK
<1> QED
  BY <1>5, <1>6, <1>7, <1>8, <1>9, <1>10, StepKinds

\* The variables of the streaming thread keep their types.
LEMMA StreamTypes ==
  ASSUME TypeOK, HeldInv, OrderInv, [Next]_vars
  PROVE  StreamOK'
<1> USE DEF netVars, tcpVars, outVars, loopAndClients
<1> DEFINE OK == /\ spc \in {"listen", "credentials", "publish", "idle", "collect", "each",
                             "size", "push", "release"}
                 /\ packet \in 0..MaxPackets /\ left \in 0..PacketsPerFrame
                 /\ held \subseteq Conns /\ todo \subseteq held
                 /\ conn \in Conns \union {None}
                 /\ auth_info \in BOOLEAN /\ published \in BOOLEAN
<1>0. OK /\ MaxPackets \in Nat /\ PacketsPerFrame \in Nat
  BY Assumption DEF TypeOK, StreamOK
<1>1. gaps' \subseteq Conns /\ raced' \subseteq Conns /\ lost' \subseteq Conns
  BY HistoryStep
<1> SUFFICES OK'
  BY <1>1 DEF StreamOK
<1>2. CASE UNCHANGED streamVars
  BY <1>0, <1>2 DEF streamVars
<1>3. CASE RtspInit
  BY <1>0, <1>3 DEF RtspInit, Start, SetAuthConfig, AddSession
<1>4. CASE Collect
  <2>1. /\ packet' = packet + 1 /\ left' = left - 1 /\ spc = "collect" /\ spc' = "each"
        /\ held' \subseteq {clients[f] : f \in Fds} \ {None} /\ todo' = held'
        /\ UNCHANGED <<conn, auth_info, published>>
    BY <1>4 DEF Collect
  <2>2. packet + left <= MaxPackets /\ left > 0
    BY <2>1 DEF OrderInv
  <2>3. held' \subseteq Conns
    BY <2>1 DEF TypeOK, NetOK
  <2>4. packet' \in 0..MaxPackets /\ left' \in 0..PacketsPerFrame
    BY <1>0, <2>1, <2>2
  <2> QED
    BY <1>0, <2>1, <2>3, <2>4
<1>5. CASE LockConnection
  BY <1>0, <1>5 DEF LockConnection
<1>6. CASE CheckSize \/ Post
  BY <1>0, <1>6 DEF CheckSize, Post
<1>7. CASE Release \/ CallbackEnds
  BY <1>0, <1>7 DEF Release, CallbackEnds
<1>8. CASE PushFrame
  BY <1>0, <1>8 DEF PushFrame
<1> QED
  BY <1>2, <1>3, <1>4, <1>5, <1>6, <1>7, <1>8, LoopKeepsStream DEF Next, StreamStep

-----------------------------------------------------------------------------
(* The theorems.                                                           *)

\* The invariant holds when the server starts.
LEMMA InitInv ==
  ASSUME Init
  PROVE  IInv
<1>0. /\ MaxPackets \in Nat /\ MaxRequests \in Nat /\ QueueCapacity \in Nat
      /\ WriteCapacity \in Nat /\ PacketsPerFrame \in Nat /\ None \notin Conns
      /\ Fds \subseteq Nat \ {0}
  BY Assumption
<1>1. << >> \in Seq(Removals \union Sendings) /\ << >> \in Seq(Messages) /\ Len(<< >>) = 0
  BY EmptySeq
<1> DEFINE e == << >>
<1>2. NewSession(FALSE) \in Sessions
  BY DEF NewSession, Sessions, Transports
<1>3. \A s : Packets(<< >>) = {} /\ Newest(s, << >>) = s
  BY <1>1 DEF Packets, Newest
<1>4. NetOK
  BY <1>2 DEF Init, NetOK
<1>5. LoopOK
  BY <1>0, <1>1 DEF Init, LoopOK
<1>6. OutputOK
  BY <1>0, <1>1 DEF Init, OutputOK
<1>7. StreamOK
  <2>1. /\ spc = "listen" /\ packet = 0 /\ left = 0 /\ held = {} /\ todo = {}
        /\ conn = None /\ auth_info = FALSE /\ published = FALSE
        /\ gaps = {} /\ raced = {} /\ lost = {}
    BY DEF Init
  <2>2. packet \in 0..MaxPackets /\ left \in 0..PacketsPerFrame
    BY <1>0, <2>1
  <2>3. /\ held \subseteq Conns /\ todo \subseteq held
        /\ gaps \subseteq Conns /\ raced \subseteq Conns /\ lost \subseteq Conns
    BY <2>1
  <2>4. auth_info \in BOOLEAN /\ published \in BOOLEAN
    BY <2>1, Zenon
  <2>5. conn \in Conns \union {None}
    BY <2>1
  <2>6. spc \in {"listen", "credentials", "publish", "idle", "collect", "each", "size",
                 "push", "release"}
    BY <2>1
  <2> QED
    BY <2>2, <2>3, <2>4, <2>5, <2>6 DEF StreamOK
<1>8. ConnInv /\ HeldInv /\ ClientInv /\ BatchInv
  BY <1>0 DEF Init, ConnInv, HeldInv, ClientInv, BatchInv, Alive
<1>9. Tasks = {NoTask} /\ NoTask.kind = "none" /\ timers = {}
  BY <1>1 DEF Init, Tasks, NoTask
<1>10. PostedInv /\ OnceInv /\ SendInv
  BY <1>1, <1>9 DEF Init, PostedInv, OnceInv, SendInv
<1>11. SessionInv
  BY DEF Init, SessionInv, NewSession
<1>12. OutputIsWatched
  BY DEF Init, OutputIsWatched
<1>13. \A c \in Conns : /\ wbuf[c] = << >> /\ phase[c] = "new"
                        /\ last[c] = [no |-> 0, seq |-> 0]
  BY DEF Init
<1>14. AnswerInv
  BY <1>13 DEF AnswerInv
<1>15. \A c \in Conns : NewestOf(c) = 0
  BY <1>3, <1>13 DEF NewestOf
<1>16. OrderInv
  BY <1>0, <1>1, <1>9, <1>15 DEF Init, OrderInv, Waiting
<1>17. PacketsWhilePlaying
  BY <1>3, <1>13 DEF PacketsWhilePlaying
<1> QED
  BY <1>4, <1>5, <1>6, <1>7, <1>8, <1>10, <1>11, <1>12, <1>14, <1>16, <1>17
     DEF IInv, TypeOK

\* Every step keeps the invariant.
LEMMA NextInv ==
  ASSUME IInv, [Next]_vars
  PROVE  IInv'
<1>1. /\ TypeOK /\ ConnInv /\ HeldInv /\ PostedInv /\ OnceInv /\ SessionInv
      /\ ClientInv /\ SendInv /\ BatchInv /\ OutputIsWatched /\ AnswerInv
      /\ OrderInv /\ PacketsWhilePlaying
  BY DEF IInv
<1>2. TypeOK'
  BY <1>1, NetStep, LoopTypes, OutputStep, StreamTypes DEF TypeOK
<1>3. ConnInv' /\ HeldInv' /\ PostedInv' /\ OnceInv'
  BY <1>1, ConnStep, HeldStep, PostedStep, OnceStep
<1>4. SessionInv' /\ ClientInv' /\ SendInv' /\ BatchInv'
  BY <1>1, SessionStep, ClientStep, SendStep, BatchStep
<1>5. OutputIsWatched' /\ AnswerInv' /\ PacketsWhilePlaying'
  BY <1>1, OutputStep, AnswerStep, PacketsStep
<1>6. OrderInv'
  <2>1. \/ LoopStep \/ FireTimer \/ Poll \/ UNCHANGED vars
        \/ StreamStep \/ PushFrame
    BY DEF Next
  <2> QED
    BY <1>1, <2>1, LoopOrder, StreamOrder
<1> QED
  BY <1>2, <1>3, <1>4, <1>5, <1>6 DEF IInv

\* The invariant holds in every state the server can reach.
THEOREM Invariance == Spec => []IInv
<1>1. Init => IInv
  BY InitInv
<1>2. IInv /\ [Next]_vars => IInv'
  BY NextInv
<1> QED
  BY <1>1, <1>2, PTL DEF Spec

\* Every variable keeps its type, and neither the trigger queue nor a write
\* buffer outgrows its capacity.
THEOREM TypeCorrect == Spec => []TypeOK
<1>1. IInv => TypeOK
  BY DEF IInv
<1> QED
  BY <1>1, Invariance, PTL

\* A removal that RemoveConnection runs finds, under its descriptor, the
\* connection that posted it, however often the number has been reused; a
\* connection in the server's map owns its socket.
THEOREM RemovalsAreRight == Spec => []RemovesTheRightConnection
<1>1. ASSUME IInv
      PROVE  RemovesTheRightConnection
  <2>1. TypeOK /\ ConnInv /\ PostedInv
    BY <1>1 DEF IInv
  <2>2. \A f \in Fds : connections[f] # None => connections[f] \in Conns
    BY <2>1 DEF TypeOK, NetOK
  <2> QED
    BY <2>1, <2>2 DEF ConnInv, PostedInv, RemovesTheRightConnection
<1> QED
  BY <1>1, Invariance, PTL

\* MediaSession's clients are, at every moment, the open connections that have
\* described the session.
THEOREM ClientsAreRight == Spec => []ClientsAreTheDescribed
<1>1. IInv => ClientsAreTheDescribed
  BY DEF IInv, ClientInv, ClientsAreTheDescribed
<1> QED
  BY <1>1, Invariance, PTL

\* A queued send reaches a freed RtpConnection only when it was posted after
\* its connection had been closed, and only an RTCP channel that a second UDP
\* SETUP left behind outlives its connection in epoll.
THEOREM DanglingIsTheRace == Spec => []DanglesOnlyInTheRace
<1>1. ASSUME IInv
      PROVE  DanglesOnlyInTheRace
  <2>0. TypeOK /\ ConnInv /\ SessionInv /\ SendInv /\ BatchInv
    BY <1>1 DEF IInv
  <2>1. \A c \in Conns : Listed(c) => phase[c] # "freed"
    <3>1. None \notin Conns
      BY Assumption
    <3> QED
      BY <2>0, <3>1 DEF ConnInv, Alive, Listed
  <2>2. ASSUME NEW t \in Tasks, t.kind = "send", sess[t.by].rtp = "freed"
        PROVE  t.by \in raced
    <3>1. t.by \in Conns
      BY <2>0, <2>2, TaskTypes
    <3> QED
      BY <2>0, <2>1, <2>2, <3>1 DEF SessionInv, SendInv
  <2>3. ASSUME NEW b \in batch, b[1] # None, phase[b[1]] = "freed"
        PROVE  b[2] = "rtcp"
    <3>1. b[1] \in Conns
      BY <2>0, <2>3 DEF TypeOK, LoopOK, Events
    <3> QED
      BY <2>0, <2>1, <2>3, <3>1 DEF BatchInv
  <2> QED
    BY <2>0, <2>2, <2>3 DEF DanglesOnlyInTheRace, BatchInv
<1> QED
  BY <1>1, Invariance, PTL

\* Whenever messages are left in a write buffer, HandleWrite has left the
\* connection open and watched for writability.
THEOREM OutputFlows == Spec => []OutputIsWatched
<1>1. IInv => OutputIsWatched
  BY DEF IInv
<1> QED
  BY <1>1, Invariance, PTL

\* The interleaved packets of a client come in the order of the stream, under
\* consecutive sequence numbers and between the answers to its PLAY and its
\* TEARDOWN, unless it has lost some or plays again.
THEOREM StreamsAreInOrder == Spec => []PacketsWhilePlaying
<1>1. IInv => PacketsWhilePlaying
  BY DEF IInv
<1> QED
  BY <1>1, Invariance, PTL
=============================================================================
