---------------------------- MODULE WebSocketHub ----------------------------
(***************************************************************************)
(* The WebSocket server (WebSocket.h) and its connections (connection.cpp):*)
(* the event loop thread (run_websocket), which runs one callback at a     *)
(* time, the transfer thread (WSTransferData), and the face detector that  *)
(* announces faces through put_msg.  libevent is external: it reads, and   *)
(* it calls the write callback when an output buffer has been drained.     *)
(* A user is one connection, from accept to close.  A message is its       *)
(* origin and its number there.  user_vec is modelled with the memory of   *)
(* the vector: the transfer thread may read an element that an erase by    *)
(* the event loop has just moved or cut off.                               *)
(***************************************************************************)
EXTENDS SBuffer, WsFrame, Functions

CONSTANTS
  Users,
  NoUser,
  MaxMsgs,       \* _max_size of both sBuffers
  MaxFrames,     \* bound: frames all clients send
  MaxAnnounced   \* bound: faces announced

ASSUME Assumption ==
  /\ NoUser \notin Users
  /\ Sizes \subseteq {"empty", "short", "long"}
  /\ MaxMsgs \in Nat \ {0}
  /\ MaxFrames \in Nat /\ MaxAnnounced \in Nat

VARIABLES
  user_vec,                        \* the elements and, behind them, stale memory
  user_count,                      \* user_vec.size()
  state,                           \* of a user: "new", "live" or "freed"
  step, frame,                     \* of its connection
  asked,                           \* its handshake request has been read
  pending,                         \* its output buffer is not empty
  frames_read,
  messages_in, put_msg, get_msg,   \* message queues
  ready_to_send, send_mutex,
  caller,                          \* the user whose broadcast the loop waits to make
  fpc, announced,                  \* the face detector
  tpc, index, message,             \* the transfer thread
  received,                        \* history: broadcasts written to every user
  owed,                            \* history: users listed during the whole transfer
  undefined                        \* the transfer thread has used a freed user

connVars     == <<state, step, frame, asked, pending, frames_read>>
faceVars     == <<fpc, announced>>
transferVars == <<tpc, index, message>>
vars == <<user_vec, user_count, connVars, messages_in, put_msg, get_msg,
          ready_to_send, send_mutex, caller, faceVars, transferVars, received,
          owed, undefined>>

NoFrame   == [kind |-> "ping", fin |-> TRUE, size |-> "empty"]
NoMessage == [from |-> NoUser, no |-> 0]

Init ==
  /\ user_vec = << >> /\ user_count = 0
  /\ state = [u \in Users |-> "new"]
  /\ step = [u \in Users |-> "ZERO"]
  /\ frame = [u \in Users |-> NoFrame]
  /\ asked = [u \in Users |-> FALSE]
  /\ pending = [u \in Users |-> FALSE]
  /\ frames_read = [u \in Users |-> 0]
  /\ messages_in = << >> /\ put_msg = << >> /\ get_msg = << >>
  /\ ready_to_send = FALSE
  /\ send_mutex = "free"
  /\ caller = NoUser
  /\ fpc = "idle" /\ announced = 0
  /\ tpc = "top" /\ index = 1 /\ message = NoMessage
  /\ received = [u \in Users |-> << >>]
  /\ owed = {}
  /\ undefined = FALSE

Listed == {user_vec[i] : i \in 1..user_count}

-----------------------------------------------------------------------------
(* The event loop.  It runs a callback when it is not inside another one.   *)

Polls(u) == ~undefined /\ caller = NoUser /\ state[u] = "live"

\* user_vec.push_back: the element behind the last one is written.
PushedBack(u) ==
  IF user_count < Len(user_vec) THEN [user_vec EXCEPT ![user_count + 1] = u]
  ELSE Append(user_vec, u)

\* listencb
Connect(u) ==
  /\ ~undefined /\ caller = NoUser
  /\ state[u] = "new"
  /\ state' = [state EXCEPT ![u] = "live"]
  /\ user_vec' = PushedBack(u)
  /\ user_count' = user_count + 1
  /\ UNCHANGED <<step, frame, asked, pending, frames_read, messages_in, put_msg,
                 get_msg, ready_to_send, send_mutex, caller, faceVars,
                 transferVars, received, owed, undefined>>

\* Mutant: the write callback is called for an empty buffer too.
AnyOutput(u) == TRUE

HasOutput(u) == pending[u]

\* request_read_cb: the end of the request; reading stops, the response is
\* written.
ReadRequest(u) ==
  /\ Polls(u)
  /\ step[u] = "ZERO" /\ ~asked[u]
  /\ asked' = [asked EXCEPT ![u] = TRUE]
  /\ pending' = [pending EXCEPT ![u] = TRUE]
  /\ UNCHANGED <<user_vec, user_count, state, step, frame, frames_read,
                 messages_in, put_msg, get_msg, ready_to_send, send_mutex, caller,
                 faceVars, transferVars, received, owed, undefined>>

\* The output buffer is empty.  Before the first frame the write callback is
\* response_write_cb, which starts the frame reader; later it does nothing.
OutputDrained(u) ==
  /\ Polls(u)
  /\ HasOutput(u)
  /\ pending' = [pending EXCEPT ![u] = FALSE]
  /\ step' = [step EXCEPT ![u] = IF @ = "ZERO" THEN "ONE" ELSE @]
  /\ UNCHANGED <<user_vec, user_count, state, frame, asked, frames_read,
                 messages_in, put_msg, get_msg, ready_to_send, send_mutex, caller,
                 faceVars, transferVars, received, owed, undefined>>

FramesSent == FoldFunction(+, 0, frames_read)

\* frame_read_cb, step ONE.  What is read before the request was, is the
\* request itself, taken for frames.
ReadHeader(u) ==
  /\ Polls(u)
  /\ step[u] = "ONE" /\ FramesSent < MaxFrames
  /\ \E f \in IF asked[u] THEN Frames ELSE GarbledFrames :
       /\ frame' = [frame EXCEPT ![u] = f]
       /\ step' = [step EXCEPT ![u] = StepAfterHeader(f)]
  /\ frames_read' = [frames_read EXCEPT ![u] = @ + 1]
  /\ UNCHANGED <<user_vec, user_count, state, asked, pending, messages_in, put_msg,
                 get_msg, ready_to_send, send_mutex, caller, faceVars,
                 transferVars, received, owed, undefined>>

\* Steps TWO and THREE, when a payload follows.
ReadOn(u) ==
  /\ Polls(u)
  /\ \/ step[u] = "TWO" /\ step' = [step EXCEPT ![u] = "THREE"]
     \/ /\ step[u] = "THREE" /\ ~CompleteAfterMask(frame[u])
        /\ step' = [step EXCEPT ![u] = "FOUR"]
  /\ UNCHANGED <<user_vec, user_count, state, frame, asked, pending, frames_read,
                 messages_in, put_msg, get_msg, ready_to_send, send_mutex, caller,
                 faceVars, transferVars, received, owed, undefined>>

\* The frame is complete, in step THREE or FOUR.  After a close frame the step
\* stays: whatever the client may still send is answered like the frame itself.
FrameCompletes(u) ==
  /\ Polls(u)
  /\ \/ step[u] = "THREE" /\ CompleteAfterMask(frame[u])
     \/ step[u] = "FOUR"
  /\ step' = [step EXCEPT ![u] = StepAfterFrame(frame[u], @)]
  /\ frame' = [frame EXCEPT ![u] = IF Closes(@) THEN @ ELSE NoFrame]
  /\ UNCHANGED <<user_vec, user_count, state, asked, frames_read, put_msg,
                 get_msg, send_mutex, faceVars, transferVars, received, owed,
                 undefined>>

\* A close frame is written back.
AnswerClose(u) ==
  /\ FrameCompletes(u) /\ Closes(frame[u])
  /\ pending' = [pending EXCEPT ![u] = TRUE]
  /\ UNCHANGED <<messages_in, ready_to_send, caller>>

IgnorePing(u) ==
  /\ FrameCompletes(u) /\ ~Closes(frame[u]) /\ ~Delivered(frame[u])
  /\ UNCHANGED <<pending, messages_in, ready_to_send, caller>>

\* frame_recv_cb: a fragment is kept in user->msg, which is only logged...
ReceiveFragment(u) ==
  /\ FrameCompletes(u) /\ Delivered(frame[u]) /\ ~frame[u].fin
  /\ ready_to_send' = TRUE
  /\ UNCHANGED <<pending, messages_in, caller>>

\* ...the last one is stored under _receiv_mutex and then broadcast.
ReceiveMessage(u) ==
  /\ FrameCompletes(u) /\ Delivered(frame[u]) /\ frame[u].fin
  /\ messages_in' = Append(messages_in, [from |-> u, no |-> frames_read[u]])
  /\ caller' = u
  /\ UNCHANGED <<pending, ready_to_send>>

\* Mutant: the broadcast does not wait for the other one.
NoMutex == TRUE

SendMutexFree == send_mutex = "free"

\* One step: while it holds the mutex no other thread broadcasts, and only the
\* event loop changes the list.
BroadcastFrame ==
  LET to == Listed \ {caller}
  IN  /\ ~undefined /\ caller # NoUser
      /\ SendMutexFree
      /\ received' = [u \in Users |->
           IF u \in to
           THEN Append(received[u], [from |-> caller, no |-> frames_read[caller]])
           ELSE received[u]]
      /\ pending' = [u \in Users |-> pending[u] \/ u \in to]
      /\ ready_to_send' = TRUE
      /\ caller' = NoUser
      /\ UNCHANGED <<user_vec, user_count, state, step, frame, asked, frames_read,
                     messages_in, put_msg, get_msg, send_mutex, faceVars,
                     transferVars, owed, undefined>>

\* user_vec.erase: the elements behind move down; the last one stays in memory.
Erased(at) ==
  [i \in 1..Len(user_vec) |->
     IF at <= i /\ i < user_count THEN user_vec[i + 1] ELSE user_vec[i]]

\* close_cb, user_disconnect: no mutex is taken; the connection goes with its user.
Disconnect(u) == \E at \in 1..user_count :
  /\ Polls(u)
  /\ user_vec[at] = u
  /\ user_vec' = Erased(at)
  /\ user_count' = user_count - 1
  /\ state' = [state EXCEPT ![u] = "freed"]
  /\ pending' = [pending EXCEPT ![u] = FALSE]
  /\ step' = [step EXCEPT ![u] = "ZERO"]
  /\ frame' = [frame EXCEPT ![u] = NoFrame]
  /\ asked' = [asked EXCEPT ![u] = FALSE]
  /\ ready_to_send' = (ready_to_send /\ user_count' > 0)
  /\ owed' = owed \ {u}
  /\ UNCHANGED <<frames_read, messages_in, put_msg, get_msg, send_mutex, caller,
                 faceVars, transferVars, received, undefined>>

EventLoop ==
  \/ BroadcastFrame
  \/ \E u \in Users :
       \/ Connect(u) \/ ReadRequest(u) \/ OutputDrained(u) \/ ReadHeader(u)
       \/ ReadOn(u) \/ AnswerClose(u) \/ IgnorePing(u) \/ ReceiveFragment(u)
       \/ ReceiveMessage(u) \/ Disconnect(u)

-----------------------------------------------------------------------------
(* The face detector, the only sender of put_msg.                           *)

SendSeesSize ==
  /\ fpc = "idle" /\ announced < MaxAnnounced
  /\ fpc' = IF TooMany(put_msg, MaxMsgs) THEN "evict" ELSE "push"
  /\ UNCHANGED <<user_vec, user_count, connVars, messages_in, put_msg, get_msg,
                 ready_to_send, send_mutex, caller, announced, transferVars,
                 received, owed, undefined>>

SendEvicts ==
  /\ fpc = "evict"
  /\ put_msg' = DropOldest(put_msg)
  /\ fpc' = "idle"
  /\ UNCHANGED <<user_vec, user_count, connVars, messages_in, get_msg,
                 ready_to_send, send_mutex, caller, announced, transferVars,
                 received, owed, undefined>>

SendPushes ==
  /\ fpc = "push"
  /\ announced' = announced + 1
  /\ put_msg' = Append(put_msg, [from |-> NoUser, no |-> announced'])
  /\ fpc' = "idle"
  /\ UNCHANGED <<user_vec, user_count, connVars, messages_in, get_msg,
                 ready_to_send, send_mutex, caller, transferVars, received, owed,
                 undefined>>

FaceDetector == ~undefined /\ (SendSeesSize \/ SendEvicts \/ SendPushes)

-----------------------------------------------------------------------------
(* The transfer thread.  While _ready_to_send is false it sleeps.           *)

TransferWakes ==
  /\ tpc = "top" /\ ready_to_send
  /\ tpc' = "lock"
  /\ UNCHANGED <<user_vec, user_count, connVars, messages_in, put_msg, get_msg,
                 ready_to_send, send_mutex, caller, faceVars, index, message,
                 received, owed, undefined>>

TransferLocks ==
  /\ tpc = "lock" /\ send_mutex = "free"
  /\ send_mutex' = "transfer"
  /\ tpc' = "locked"
  /\ UNCHANGED <<user_vec, user_count, connVars, messages_in, put_msg, get_msg,
                 ready_to_send, caller, faceVars, index, message, received, owed,
                 undefined>>

TransferSeesMessage ==
  /\ tpc = "locked"
  /\ user_count > 0 /\ Len(put_msg) > 0
  /\ tpc' = "pop"
  /\ UNCHANGED <<user_vec, user_count, connVars, messages_in, put_msg, get_msg,
                 ready_to_send, send_mutex, caller, faceVars, index, message,
                 received, owed, undefined>>

\* The last message may have been evicted since: an empty one is sent then.
TransferPops ==
  /\ tpc = "pop"
  /\ message' = Oldest(put_msg, NoMessage)
  /\ put_msg' = DropOldest(put_msg)
  /\ index' = 1
  /\ owed' = Listed
  /\ tpc' = "loop"
  /\ UNCHANGED <<user_vec, user_count, connVars, messages_in, get_msg,
                 ready_to_send, send_mutex, caller, faceVars, received, undefined>>

\* Nothing to send, or the end of the loop over the users.
TransferUnlocks ==
  /\ \/ tpc = "locked" /\ (user_count = 0 \/ Len(put_msg) = 0)
     \/ tpc = "loop" /\ index > user_count
  /\ send_mutex' = "free"
  /\ tpc' = "forward"
  /\ UNCHANGED <<user_vec, user_count, connVars, messages_in, put_msg, get_msg,
                 ready_to_send, caller, faceVars, index, message, received, owed,
                 undefined>>

TransferSeesUser ==
  /\ tpc = "loop" /\ index <= user_count
  /\ tpc' = "send"
  /\ UNCHANGED <<user_vec, user_count, connVars, messages_in, put_msg, get_msg,
                 ready_to_send, send_mutex, caller, faceVars, index, message,
                 received, owed, undefined>>

\* send_a_frame(user_vec[i]->wscon, ...)
TransferSends ==
  LET u == user_vec[index]
  IN  /\ tpc = "send" /\ state[u] = "live"
      /\ received' = [received EXCEPT ![u] = Append(@, message)]
      /\ pending' = [pending EXCEPT ![u] = TRUE]
      /\ index' = index + 1
      /\ tpc' = "loop"
      /\ UNCHANGED <<user_vec, user_count, state, step, frame, asked, frames_read,
                     messages_in, put_msg, get_msg, ready_to_send, send_mutex,
                     caller, faceVars, message, owed, undefined>>

\* The user has been freed since: what the write does is undefined.
TransferUsesFreed ==
  /\ tpc = "send" /\ state[user_vec[index]] = "freed"
  /\ undefined' = TRUE
  /\ UNCHANGED <<user_vec, user_count, connVars, messages_in, put_msg, get_msg,
                 ready_to_send, send_mutex, caller, faceVars, transferVars,
                 received, owed>>

\* erase(begin() + i) moves the next message to i, and i++ skips it.
OddOf(s)  == [i \in 1..(Len(s) + 1) \div 2 |-> s[2 * i - 1]]
EvenOf(s) == [i \in 1..Len(s) \div 2 |-> s[2 * i]]

\* Mutant: the messages that were skipped are cleared with the others.
ClearedAll(s) == << >>

\* Mutant: messages stay after they were forwarded.
NotErasedIn(s) == s

Skipped(s) == EvenOf(s)

\* Under _receiv_mutex; get_msg has no other user.
TransferForwards ==
  /\ tpc = "forward"
  /\ get_msg' = SendAll(get_msg, MaxMsgs, OddOf(messages_in))
  /\ messages_in' = Skipped(messages_in)
  /\ tpc' = "top"
  /\ index' = 1 /\ message' = NoMessage /\ owed' = {}
  /\ UNCHANGED <<user_vec, user_count, connVars, put_msg, ready_to_send,
                 send_mutex, caller, faceVars, received, undefined>>

Transfer ==
  /\ ~undefined
  /\ \/ TransferWakes \/ TransferLocks \/ TransferSeesMessage \/ TransferPops
     \/ TransferUnlocks \/ TransferSeesUser \/ TransferSends
     \/ TransferUsesFreed \/ TransferForwards

-----------------------------------------------------------------------------
Next == EventLoop \/ FaceDetector \/ Transfer

Spec == Init /\ [][Next]_vars

(* The transfer thread never waits for more than a callback: the event loop *)
(* takes _send_mutex for one broadcast.  The event loop itself may wait for *)
(* ever, for clients and for a mutex that is not fair.                      *)
Fairness == WF_vars(Transfer)

FairSpec == Spec /\ Fairness

-----------------------------------------------------------------------------
Messages == [from : Users, no : Nat \ {0}]
Announcements == [from : {NoUser}, no : 1..MaxAnnounced]

ConnectionsOK ==
  /\ state \in [Users -> {"new", "live", "freed"}]
  /\ step \in [Users -> {"ZERO", "ONE", "TWO", "THREE", "FOUR"}]
  /\ frame \in [Users -> Frames \union {NoFrame}]
  /\ asked \in [Users -> BOOLEAN] /\ pending \in [Users -> BOOLEAN]
  /\ frames_read \in [Users -> Nat]

QueuesOK ==
  /\ messages_in \in Seq(Messages)
  /\ get_msg \in Seq(Messages) /\ Len(get_msg) <= MaxMsgs + 1
  /\ put_msg \in Seq(Announcements) /\ Len(put_msg) <= MaxMsgs + 1
  /\ fpc \in {"idle", "evict", "push"} /\ announced \in 0..MaxAnnounced

TransferOK ==
  /\ user_vec \in Seq(Users) /\ user_count \in 0..Len(user_vec)
  /\ send_mutex \in {"free", "transfer"} /\ caller \in Users \union {NoUser}
  /\ tpc \in {"top", "lock", "locked", "pop", "loop", "send", "forward"}
  /\ index \in 1..Len(user_vec) + 1
  /\ message \in Announcements \union {NoMessage}
  /\ ready_to_send \in BOOLEAN

HistoryOK ==
  /\ received \in [Users -> Seq(Messages \union Announcements \union {NoMessage})]
  /\ owed \subseteq Users
  /\ undefined \in BOOLEAN

\* Every variable has its type: the transfer thread stays within the memory of
\* user_vec, and get_msg and put_msg are one over their limit at most.
TypeOK == ConnectionsOK /\ QueuesOK /\ TransferOK /\ HistoryOK

-----------------------------------------------------------------------------
(* Safety. *)

Before(s, m, n) == \E i, j \in 1..Len(s) : i < j /\ s[i] = m /\ s[j] = n

\* Two users see the broadcasts they both get in the same order, and none of
\* them twice, whichever thread made them (_send_mutex).  Empty messages, from
\* an eviction that overtakes the pop, do not count.
OneOrder ==
  \A u, v \in Users : \A i, j \in 1..Len(received[u]) :
    i < j /\ NoMessage \notin {received[u][i], received[u][j]}
      => ~Before(received[v], received[u][j], received[u][i])
         /\ received[u][i] # received[u][j]

\* A user gets the messages of one origin in the order they were made there,
\* although two threads broadcast and sBuffer drops the oldest.
OriginsInOrder ==
  \A u \in Users : \A i, j \in 1..Len(received[u]) :
    i < j /\ received[u][i].from = received[u][j].from
      /\ NoMessage \notin {received[u][i], received[u][j]}
      => received[u][i].no < received[u][j].no

\* websocket.h:53 says of step ZERO "before websocket handshake".  A connection
\* leaves it before it has read the request only if a broadcast has been written
\* to it, whose end response_write_cb takes for that of the response.
OnlyBroadcastsPreempt ==
  \A u \in Users : step[u] # "ZERO" /\ ~asked[u] => received[u] # << >>

\* No message of a client is forwarded twice, and a message is neither left in
\* place nor forgotten by the loop that erases while it counts up: as many are
\* waiting or forwarded as were ever broadcast, up to the limit of get_msg.
ForwardedOnce ==
  LET all == messages_in \o get_msg
  IN  /\ \A i, j \in 1..Len(all) : all[i] = all[j] => i = j
      /\ Len(get_msg) <= MaxMsgs =>
           \A u, v \in Users : \A i \in 1..Len(received[u]) :
             received[u][i].from = v => \E j \in 1..Len(all) : all[j] = received[u][i]

\* WebSocket.h:268 says "send to other users": when the transfer thread has
\* sent an announcement, every user that was connected all the time has it.
BroadcastReachesUsers ==
  tpc = "forward" /\ ~undefined =>
    \A u \in owed : \E i \in 1..Len(received[u]) : received[u][i] = message

-----------------------------------------------------------------------------
(* Liveness. *)

\* Every message of a client is forwarded, although each pass skips half of
\* them, unless the last user leaves and the transfer thread falls asleep.
MessagesForwarded ==
  messages_in # << >> ~> messages_in = << >> \/ ~ready_to_send \/ undefined
=============================================================================
