--------------------------- MODULE TaskScheduler ---------------------------
(***************************************************************************)
(* The event loop of the RTSP server: TaskScheduler::Start, the ring       *)
(* buffer of trigger events (RingBuffer.h), the pipe that wakes the loop   *)
(* (Pipe.cpp), its timers (Timer.cpp) and epoll_wait as the loop uses it.  *)
(* Producers are the threads that post callbacks (the streaming thread,    *)
(* RtpConnection::SendRtpPacket) and the loop itself, from inside a        *)
(* callback (a closed connection posts its own removal).  The ring buffer  *)
(* has no lock of its own: Pop runs against Push, and the size is checked  *)
(* before the mutex that guards Push is taken.                             *)
(***************************************************************************)
EXTENDS Integers, Sequences, FiniteSets, FiniteSetsExt

CONSTANTS
  Threads,       \* threads other than the loop that post
  Loop,          \* the loop's thread
  NoThread,
  Capacity,      \* kMaxTriggetEvents, also the capacity of the ring buffer
  PipeCapacity,  \* bytes the pipe holds; a write to a full pipe is dropped
  ReadSize,      \* sizeof(event) in Wake
  Interval,      \* msec of the timer a refused removal is put on
  MaxPosts,      \* bound: posts of every producer
  MaxTime        \* bound: the clock

Producers == Threads \union {Loop}
Events    == Producers \X (1..MaxPosts)
NoEvent   == <<NoThread, 0>>

ASSUME Assumption ==
  /\ Loop \notin Threads
  /\ NoThread \notin Producers
  /\ Capacity \in Nat \ {0}
  /\ PipeCapacity \in Nat \ {0}
  /\ ReadSize \in Nat \ {0}
  /\ Interval \in Nat \ {0}
  /\ MaxPosts \in Nat
  /\ MaxTime \in Nat

VARIABLES
  buffer, put_pos, get_pos, num_datas,   \* RingBuffer
  mutex,                                 \* TaskScheduler::mutex_
  pipe,                                  \* bytes in the wake-up pipe
  ppc, posts,                            \* the producers, in AddTriggerEvent
  lpc, taken, batch, deadline,           \* the loop
  ran,                                   \* history: callbacks run
  is_shutdown, spc,                      \* Stop
  timers, last_timer_id, time_point, now

ringVars  == <<buffer, put_pos, get_pos, num_datas>>
postVars  == <<mutex, ppc, posts>>
loopVars  == <<lpc, taken, batch, deadline, ran>>
stopVars  == <<is_shutdown, spc>>
timerVars == <<timers, last_timer_id, time_point>>
vars == <<ringVars, pipe, postVars, loopVars, stopVars, timerVars, now>>

Slots == 0..(Capacity - 1)
Never == -1

Init ==
  /\ buffer = [i \in Slots |-> NoEvent]
  /\ put_pos = 0 /\ get_pos = 0 /\ num_datas = 0
  /\ mutex = NoThread
  /\ pipe = 0
  /\ ppc = [p \in Producers |-> "idle"]
  /\ posts = [p \in Producers |-> 0]
  /\ lpc = "start" /\ taken = NoEvent /\ batch = {} /\ deadline = Never
  /\ ran = << >>
  /\ is_shutdown = FALSE /\ spc = "idle"
  /\ timers = {} /\ last_timer_id = 0 /\ time_point = 0
  /\ now = 0

Add(pos) == (pos + 1) % Capacity

PipeAfterWrite == IF pipe < PipeCapacity THEN pipe + 1 ELSE pipe

-----------------------------------------------------------------------------
(* AddTriggerEvent.  The loop posts only while it is inside a callback.    *)

InCallback == lpc = "callback" \/ (lpc = "handle" /\ "socket" \in batch)

\* Timer ids count up, so <<due, id>> orders timers as events_ does.
AddTimer ==
  /\ timers' = timers \union {[due |-> now + Interval, id |-> last_timer_id + 1]}
  /\ last_timer_id' = last_timer_id + 1
  /\ UNCHANGED time_point

\* TcpServer: a refused removal is put on a timer; the streaming thread
\* drops its packet.
Refused(p) == IF p = Loop THEN AddTimer ELSE UNCHANGED timerVars

CheckSize(p) ==
  /\ ppc[p] = "idle" /\ posts[p] < MaxPosts
  /\ p = Loop => InCallback
  /\ posts' = [posts EXCEPT ![p] = @ + 1]
  /\ \/ /\ num_datas < Capacity
        /\ ppc' = [ppc EXCEPT ![p] = "lock"]
        /\ UNCHANGED timerVars
     \/ /\ num_datas >= Capacity
        /\ Refused(p)
        /\ UNCHANGED ppc
  /\ UNCHANGED <<ringVars, mutex, pipe, loopVars, stopVars, now>>

\* Mutant: Push is called without the mutex.
NoLock(p) ==
  /\ ppc[p] = "lock"
  /\ ppc' = [ppc EXCEPT ![p] = "push"]
  /\ UNCHANGED <<ringVars, mutex, posts, pipe, loopVars, stopVars, timerVars, now>>

Lock(p) ==
  /\ ppc[p] = "lock" /\ mutex = NoThread
  /\ mutex' = p
  /\ ppc' = [ppc EXCEPT ![p] = "push"]
  /\ UNCHANGED <<ringVars, posts, pipe, loopVars, stopVars, timerVars, now>>

\* PushData: the element is stored before it is counted.  The result of a
\* push into a full buffer is ignored: that callback is lost.
Store(p) ==
  /\ ppc[p] = "push"
  /\ \/ /\ num_datas < Capacity
        /\ buffer' = [buffer EXCEPT ![put_pos] = <<p, posts[p]>>]
        /\ put_pos' = Add(put_pos)
        /\ ppc' = [ppc EXCEPT ![p] = "count"]
     \/ /\ num_datas >= Capacity
        /\ ppc' = [ppc EXCEPT ![p] = "write"]
        /\ UNCHANGED <<buffer, put_pos>>
  /\ UNCHANGED <<get_pos, num_datas, mutex, posts, pipe, loopVars, stopVars,
                 timerVars, now>>

Count(p) ==
  /\ ppc[p] = "count"
  /\ num_datas' = num_datas + 1
  /\ ppc' = [ppc EXCEPT ![p] = "write"]
  /\ UNCHANGED <<buffer, put_pos, get_pos, mutex, posts, pipe, loopVars,
                 stopVars, timerVars, now>>

Write(p) ==
  /\ ppc[p] = "write"
  /\ pipe' = PipeAfterWrite
  /\ mutex' = NoThread
  /\ ppc' = [ppc EXCEPT ![p] = "idle"]
  /\ UNCHANGED <<ringVars, posts, loopVars, stopVars, timerVars, now>>

Posting(p) == Lock(p) \/ Store(p) \/ Count(p) \/ Write(p)

-----------------------------------------------------------------------------
(* Start and HandleTriggerEvent.                                           *)

Goto(from, to) == lpc = from /\ lpc' = to

StartLoop ==
  /\ Goto("start", "while")
  /\ is_shutdown' = FALSE
  /\ UNCHANGED <<ringVars, pipe, postVars, taken, batch, deadline, ran, spc,
                 timerVars, now>>

While ==
  /\ Goto("while", IF is_shutdown THEN "ended" ELSE "pop")
  /\ UNCHANGED <<ringVars, pipe, postVars, taken, batch, deadline, ran, stopVars,
                 timerVars, now>>

\* Pop moves the callback out before it gives the slot back.
Pop ==
  /\ num_datas > 0
  /\ Goto("pop", "release")
  /\ taken' = buffer[get_pos]
  /\ get_pos' = Add(get_pos)
  /\ UNCHANGED <<buffer, put_pos, num_datas, pipe, postVars, batch, deadline, ran,
                 stopVars, timerVars, now>>

PopNothing ==
  /\ num_datas = 0
  /\ Goto("pop", "size")
  /\ UNCHANGED <<ringVars, pipe, postVars, taken, batch, deadline, ran, stopVars,
                 timerVars, now>>

\* num_datas_--, and the callback begins.
Release ==
  /\ Goto("release", "callback")
  /\ num_datas' = num_datas - 1
  /\ ran' = Append(ran, taken)
  /\ taken' = NoEvent
  /\ UNCHANGED <<buffer, put_pos, get_pos, pipe, postVars, batch, deadline,
                 stopVars, timerVars, now>>

CallbackReturns ==
  /\ Goto("callback", "size")
  /\ ppc[Loop] = "idle"
  /\ UNCHANGED <<ringVars, pipe, postVars, taken, batch, deadline, ran, stopVars,
                 timerVars, now>>

\* Mutant: one callback per round of the loop.
CheckOnce ==
  /\ Goto("size", "timers")
  /\ time_point' = now
  /\ UNCHANGED <<ringVars, pipe, postVars, taken, batch, deadline, ran, stopVars,
                 timers, last_timer_id, now>>

CheckMore ==
  /\ Goto("size", IF num_datas > 0 THEN "pop" ELSE "timers")
  /\ time_point' = now
  /\ UNCHANGED <<ringVars, pipe, postVars, taken, batch, deadline, ran, stopVars,
                 timers, last_timer_id, now>>

-----------------------------------------------------------------------------
(* HandleTimerEvent, with the time read once, and GetTimeRemaining.        *)

First(ts) == CHOOSE t \in ts : \A u \in ts :
               t.due < u.due \/ (t.due = u.due /\ t.id <= u.id)

HasDue == timers # {} /\ First(timers).due <= time_point

\* The callback of the only timer the code sets removes the connection and
\* returns false: the timer is erased.
FireTimer ==
  /\ lpc = "timers" /\ HasDue
  /\ timers' = timers \ {First(timers)}
  /\ UNCHANGED <<ringVars, pipe, postVars, loopVars, stopVars, last_timer_id,
                 time_point, now>>

\* Mutant: epoll_wait is called without a time limit.
NoLimit == Never

TimeRemaining == IF timers = {} THEN Never ELSE First(timers).due

TimersDone ==
  /\ ~HasDue
  /\ Goto("timers", "wait")
  /\ deadline' = TimeRemaining
  /\ UNCHANGED <<ringVars, pipe, postVars, taken, batch, ran, stopVars, timerVars,
                 now>>

-----------------------------------------------------------------------------
(* HandleEvent: epoll_wait returns what is ready, or nothing at the        *)
(* deadline.  A socket may become ready at any time.                       *)

Ready == IF pipe > 0 THEN {"pipe"} ELSE {}

WaitReturns ==
  /\ Goto("wait", "handle")
  /\ Ready # {} \/ (deadline # Never /\ deadline <= now)
  /\ batch' = Ready
  /\ UNCHANGED <<ringVars, pipe, postVars, taken, deadline, ran, stopVars,
                 timerVars, now>>

SocketReady ==
  /\ Goto("wait", "handle")
  /\ batch' = Ready \union {"socket"}
  /\ UNCHANGED <<ringVars, pipe, postVars, taken, deadline, ran, stopVars,
                 timerVars, now>>

\* Wake: read until the pipe is empty.
WakeReads ==
  /\ lpc = "handle" /\ "pipe" \in batch
  /\ ppc[Loop] = "idle"
  /\ pipe' = IF pipe > ReadSize THEN pipe - ReadSize ELSE 0
  /\ batch' = IF pipe = 0 THEN batch \ {"pipe"} ELSE batch
  /\ UNCHANGED <<ringVars, postVars, lpc, taken, deadline, ran, stopVars,
                 timerVars, now>>

SocketHandled ==
  /\ lpc = "handle" /\ "socket" \in batch
  /\ ppc[Loop] = "idle"
  /\ batch' = batch \ {"socket"}
  /\ UNCHANGED <<ringVars, pipe, postVars, lpc, taken, deadline, ran, stopVars,
                 timerVars, now>>

BatchDone ==
  /\ batch = {}
  /\ Goto("handle", "while")
  /\ UNCHANGED <<ringVars, pipe, postVars, taken, batch, deadline, ran, stopVars,
                 timerVars, now>>

LoopStep ==
  \/ StartLoop \/ While \/ Pop \/ PopNothing \/ Release \/ CallbackReturns
  \/ CheckMore \/ FireTimer \/ TimersDone \/ WaitReturns \/ WakeReads
  \/ SocketHandled \/ BatchDone

-----------------------------------------------------------------------------
(* Stop, called once from another thread, and the clock.                   *)

\* Mutant: Stop only sets the flag.
StopSilently ==
  /\ spc = "idle"
  /\ is_shutdown' = TRUE
  /\ spc' = "done"
  /\ UNCHANGED <<ringVars, pipe, postVars, loopVars, timerVars, now>>

Stop ==
  /\ spc = "idle"
  /\ is_shutdown' = TRUE
  /\ spc' = "write"
  /\ UNCHANGED <<ringVars, pipe, postVars, loopVars, timerVars, now>>

StopWrites ==
  /\ spc = "write"
  /\ pipe' = PipeAfterWrite
  /\ spc' = "done"
  /\ UNCHANGED <<ringVars, postVars, loopVars, is_shutdown, timerVars, now>>

Tick ==
  /\ now < MaxTime
  /\ now' = now + 1
  /\ UNCHANGED <<ringVars, pipe, postVars, loopVars, stopVars, timerVars>>

Next ==
  \/ \E p \in Producers : CheckSize(p) \/ Posting(p)
  \/ LoopStep \/ SocketReady
  \/ Stop \/ StopWrites \/ Tick

\* The loop and a thread inside AddTriggerEvent or Stop keep running, and
\* time passes.  Nobody has to post, to stop the loop or to use a socket.
Fairness ==
  /\ WF_vars(LoopStep)
  /\ \A p \in Producers : WF_vars(Posting(p))
  /\ WF_vars(StopWrites)
  /\ WF_vars(Tick)

Spec == Init /\ [][Next]_vars /\ Fairness

-----------------------------------------------------------------------------
(* Properties.                                                             *)

TypeOK ==
  /\ buffer \in [Slots -> Events \union {NoEvent}]
  /\ put_pos \in Slots /\ get_pos \in Slots /\ num_datas \in 0..Capacity
  /\ mutex \in Producers \union {NoThread}
  /\ pipe \in 0..PipeCapacity
  /\ ppc \in [Producers -> {"idle", "lock", "push", "count", "write"}]
  /\ posts \in [Producers -> 0..MaxPosts]
  /\ lpc \in {"start", "while", "pop", "release", "callback", "size", "timers",
              "wait", "handle", "ended"}
  /\ taken \in Events \union {NoEvent}
  /\ batch \subseteq {"pipe", "socket"}
  /\ deadline \in Nat \union {Never}
  /\ ran \in Seq(Events)
  /\ is_shutdown \in BOOLEAN /\ spc \in {"idle", "write", "done"}
  /\ timers \subseteq [due : Nat, id : Nat \ {0}]
  /\ last_timer_id \in Nat /\ time_point \in Nat /\ now \in 0..MaxTime

\* A loop that is about to sleep in epoll_wait, or sleeps there, while a
\* callback is queued or the loop has been told to stop, has a byte in its
\* pipe or will be given one: no wake-up is lost between the last look at
\* the queue and the wait.
NoLostWakeup ==
  lpc = "wait" =>
    /\ num_datas > 0 => pipe > 0 \/ \E p \in Producers : ppc[p] = "write"
    /\ is_shutdown => pipe > 0 \/ spc = "write"

\* The n callbacks in the ring, from get_pos_ on.
Counted(n) == [i \in 1..n |-> buffer[(get_pos + i - 1) % Capacity]]

\* The callbacks the channel holds: the one being popped and the counted
\* part of the ring.
Waiting == IF lpc = "release" THEN <<taken>> \o Counted(num_datas - 1)
                              ELSE Counted(num_datas)

Channel == INSTANCE TriggerChannel
             WITH waiting <- Waiting, closed <- (lpc = "ended")

\* The unlocked ring buffer and the pipe implement the channel: no slot is
\* overwritten or read early, callbacks run in the order they were pushed,
\* each once, and every pushed callback runs unless the loop is shut down.
ImplementsChannel == Channel!Spec

\* A Stop that comes after Start has reset the flag ends the loop, wherever
\* in its round the loop is.
StopIsHeard == (is_shutdown /\ lpc # "start") ~> (lpc = "ended")

\* The removal of a connection that a full queue refused runs from its
\* timer, even if no socket and no thread ever wakes the loop again.
RefusedRemovalRuns ==
  \A id \in 1..MaxPosts :
    (\E t \in timers : t.id = id /\ t.due <= MaxTime)
      ~> (lpc = "ended" \/ ~\E t \in timers : t.id = id)
=============================================================================
