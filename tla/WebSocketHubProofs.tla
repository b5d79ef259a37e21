------------------------- MODULE WebSocketHubProofs -------------------------
(***************************************************************************)
(* Proofs about WebSocketHub, for every set of users, every limit of the   *)
(* message queues and every number of frames and announcements.            *)
(***************************************************************************)
EXTENDS WebSocketHub, SequenceTheorems, TLAPS

-----------------------------------------------------------------------------
(* The inductive invariant.                                                *)

\* The elements of user_vec are connected users, each once; the event loop
\* waits to broadcast for a connected one, and nobody has written to a user
\* that has yet to connect.
UserInv ==
  /\ \A i \in 1..user_count : state[user_vec[i]] = "live"
  /\ \A i, j \in 1..user_count : user_vec[i] = user_vec[j] => i = j
  /\ caller # NoUser => state[caller] = "live" /\ step[caller] = "ONE"
  /\ \A u \in Users : state[u] = "new" => received[u] = << >>

\* Each of the two threads acts on what it has seen before: the detector on the
\* size of put_msg, the transfer thread on the size of user_vec.
SeenInv ==
  /\ fpc = "push" => Len(put_msg) <= MaxMsgs /\ announced < MaxAnnounced
  /\ tpc = "send" => index <= Len(user_vec)

MutexInv == send_mutex = "transfer" <=> tpc \in {"locked", "pop", "loop", "send"}

\* Only a broadcast fills the output buffer of a connection that has not read
\* its request.
PreemptInv ==
  \A u \in Users : ~asked[u] /\ (pending[u] \/ step[u] # "ZERO") => received[u] # << >>

\* A client's messages are numbered by its frames: while a frame is being read
\* no message has its number yet.
Reading(u) == step[u] \in {"TWO", "THREE", "FOUR"}

Numbered(m) ==
  m.no <= frames_read[m.from] /\ (Reading(m.from) => m.no < frames_read[m.from])

NumberInv ==
  /\ \A u \in Users : Reading(u) \/ caller = u => frames_read[u] > 0
  /\ \A u \in Users : \A i \in 1..Len(received[u]) :
       received[u][i].from # NoUser =>
         /\ Numbered(received[u][i])
         /\ caller = received[u][i].from => received[u][i].no < frames_read[caller]
  /\ \A i \in 1..Len(messages_in) : Numbered(messages_in[i])
  /\ \A i \in 1..Len(get_msg) : Numbered(get_msg[i])

\* The transfer thread is sending the announcement it has popped.
Sending == tpc \in {"loop", "send"} /\ message # NoMessage

\* Announcements wait in the order of their numbers, behind those that were
\* sent.
AnnounceInv ==
  /\ \A i, j \in 1..Len(put_msg) : i < j => put_msg[i].no < put_msg[j].no
  /\ \A i \in 1..Len(put_msg) : put_msg[i].no <= announced
  /\ \A u \in Users : \A i \in 1..Len(received[u]) :
       received[u][i].from = NoUser =>
         /\ received[u][i].no <= announced
         /\ \A j \in 1..Len(put_msg) : received[u][i].no < put_msg[j].no
         /\ Sending => received[u][i].no <= message.no
  /\ Sending =>
       /\ message.no <= announced
       /\ \A j \in 1..Len(put_msg) : message.no < put_msg[j].no

\* The announcement is the last message of those who have it; the users that
\* the loop has yet to reach, and the one it has read from user_vec, do not.
ToReach(k) == index <= k /\ (k <= user_count \/ (tpc = "send" /\ k = index))

SendingInv ==
  Sending =>
    /\ \A u \in Users : \A i \in 1..Len(received[u]) :
         received[u][i] = message => i = Len(received[u])
    /\ \A k \in 1..Len(user_vec) : ToReach(k) =>
         \A i \in 1..Len(received[user_vec[k]]) : received[user_vec[k]][i] # message

\* A message of a client is in messages_in or in get_msg, once, unless get_msg
\* has dropped it.
Stored(m) ==
  \/ \E i \in 1..Len(messages_in) : messages_in[i] = m
  \/ \E i \in 1..Len(get_msg) : get_msg[i] = m

ForwardInv ==
  /\ \A i, j \in 1..Len(messages_in) : messages_in[i] = messages_in[j] => i = j
  /\ \A i, j \in 1..Len(get_msg) : get_msg[i] = get_msg[j] => i = j
  /\ \A i \in 1..Len(messages_in), j \in 1..Len(get_msg) : messages_in[i] # get_msg[j]
  /\ Len(get_msg) <= MaxMsgs =>
       /\ \A u \in Users : \A i \in 1..Len(received[u]) :
            received[u][i].from # NoUser => Stored(received[u][i])
       /\ caller # NoUser => Stored([from |-> caller, no |-> frames_read[caller]])

IInv ==
  /\ TypeOK /\ UserInv /\ SeenInv /\ MutexInv /\ PreemptInv /\ NumberInv
  /\ AnnounceInv /\ SendingInv /\ ForwardInv /\ OneOrder /\ OriginsInOrder

-----------------------------------------------------------------------------
(* Lemmas about the operators.                                             *)

\* An appended element comes last, and the others keep their places.
LEMMA AppendIs ==
  ASSUME NEW S, NEW s \in Seq(S), NEW m \in S
  PROVE  /\ Append(s, m) \in Seq(S) /\ Len(Append(s, m)) = Len(s) + 1 /\ Len(s) \in Nat
         /\ \A i \in 1..Len(s) : Append(s, m)[i] = s[i]
         /\ Append(s, m)[Len(s) + 1] = m
         /\ \A i \in 1..Len(Append(s, m)) : i \in 1..Len(s) \/ i = Len(s) + 1
  BY AppendProperties, LenProperties

\* sBuffer::pop: the messages behind the first move up by one place.
LEMMA DropIs ==
  ASSUME NEW S, NEW s \in Seq(S)
  PROVE  /\ DropOldest(s) \in Seq(S)
         /\ Len(DropOldest(s)) <= Len(s)
         /\ s # << >> => Len(DropOldest(s)) = Len(s) - 1
         /\ \A i \in 1..Len(DropOldest(s)) : s # << >> /\ DropOldest(s)[i] = s[i + 1]
<1>1. CASE s = << >>
  BY <1>1, EmptySeq DEF DropOldest
<1>2. CASE s # << >>
  BY <1>2, HeadTailProperties, LenProperties DEF DropOldest
<1> QED
  BY <1>1, <1>2

\* The elements of a sequence have its type.
LEMMA ElementIs ==
  ASSUME NEW S, NEW s \in Seq(S)
  PROVE  Len(s) \in Nat /\ \A i \in 1..Len(s) : s[i] \in S
  BY ElementOfSeq, LenProperties

\* erase: every element of the new memory was there before, at its place or
\* one further on; the elements of the list stay distinct and lose one user.
LEMMA ErasedIs ==
  ASSUME user_vec \in Seq(Users), user_count \in 0..Len(user_vec),
         NEW at \in 1..user_count
  PROVE  /\ Erased(at) \in Seq(Users) /\ Len(Erased(at)) = Len(user_vec)
         /\ \A i \in 1..Len(user_vec) :
              \/ Erased(at)[i] = user_vec[i] /\ (i < at \/ user_count <= i)
              \/ /\ at <= i /\ i < user_count
                 /\ i + 1 \in 1..user_count /\ Erased(at)[i] = user_vec[i + 1]
<1>1. \A i \in 1..Len(user_vec) : user_vec[i] \in Users
  BY ElementIs
<1>2. Len(user_vec) \in Nat /\ user_count \in Nat /\ at \in Nat
  BY ElementIs
<1>3. \A i \in 1..Len(user_vec) : at <= i /\ i < user_count => i + 1 \in 1..Len(user_vec)
  BY <1>2
<1> QED
  BY <1>1, <1>2, <1>3, IsASeq DEF Erased

\* push_back writes one element, behind the last.
LEMMA PushedBackIs ==
  ASSUME user_vec \in Seq(Users), user_count \in 0..Len(user_vec), NEW u \in Users
  PROVE  /\ PushedBack(u) \in Seq(Users)
         /\ user_count + 1 \in 0..Len(PushedBack(u)) /\ Len(user_vec) <= Len(PushedBack(u))
         /\ \A i \in 1..Len(PushedBack(u)) :
              IF i = user_count + 1 THEN PushedBack(u)[i] = u
              ELSE i \in 1..Len(user_vec) /\ PushedBack(u)[i] = user_vec[i]
<1>1. Len(user_vec) \in Nat /\ user_count \in Nat
  BY ElementIs
<1>2. CASE user_count < Len(user_vec)
  <2>1. user_count + 1 \in 1..Len(user_vec)
    BY <1>1, <1>2
  <2>2. PushedBack(u) = [user_vec EXCEPT ![user_count + 1] = u]
    BY <1>2 DEF PushedBack
  <2> QED
    BY <1>1, <2>1, <2>2, ExceptSeq
<1>3. CASE ~(user_count < Len(user_vec))
  <2>1. PushedBack(u) = Append(user_vec, u) /\ user_count = Len(user_vec)
    BY <1>1, <1>3 DEF PushedBack
  <2> QED
    BY <1>1, <2>1, AppendIs
<1> QED
  BY <1>2, <1>3

\* w is what is left of b and ms when the d oldest messages have been dropped.
KeepsEnd(w, b, ms, d) ==
  /\ Len(b) + Len(ms) = Len(w) + d
  /\ d > 0 => Len(w) > MaxMsgs
  /\ \A i \in 1..Len(w) : w[i] = IF i + d <= Len(b) THEN b[i + d] ELSE ms[i + d - Len(b)]

\* SendAll keeps the end of the messages, all of them while they are few.
LEMMA SendAllIs ==
  ASSUME NEW S, NEW b \in Seq(S), NEW ms \in Seq(S)
  PROVE  /\ SendAll(b, MaxMsgs, ms) \in Seq(S)
         /\ Len(SendAll(b, MaxMsgs, ms)) <= MaxMsgs + 1
         /\ \E d \in Nat : KeepsEnd(SendAll(b, MaxMsgs, ms), b, ms, d)
<1> DEFINE all == b \o ms
           L == Len(all)
<1>1. /\ all \in Seq(S) /\ L = Len(b) + Len(ms) /\ Len(b) \in Nat /\ Len(ms) \in Nat
      /\ L \in Nat
      /\ \A i \in 1..L : all[i] \in S /\ all[i] = IF i <= Len(b) THEN b[i] ELSE ms[i - Len(b)]
  BY ConcatProperties, ElementIs
<1>2. MaxMsgs \in Nat
  BY Assumption
<1>3. CASE ~(L > MaxMsgs + 1)
  <2>1. SendAll(b, MaxMsgs, ms) = all
    BY <1>3 DEF SendAll
  <2> HIDE DEF all
  <2>2. L + 0 = L /\ \A i \in 1..L : i + 0 = i
    BY <1>1
  <2>3. KeepsEnd(all, b, ms, 0) /\ Len(all) <= MaxMsgs + 1
    BY <1>1, <1>2, <1>3, <2>2 DEF KeepsEnd
  <2> QED
    BY <1>1, <2>1, <2>3
<1>4. CASE L > MaxMsgs + 1
  <2> DEFINE d == L - MaxMsgs - 1
             w == SubSeq(all, L - MaxMsgs, L)
  <2>1. SendAll(b, MaxMsgs, ms) = w
    BY <1>4 DEF SendAll
  <2>2. /\ L - MaxMsgs \in Int /\ L - MaxMsgs <= L /\ L - (L - MaxMsgs) + 1 = MaxMsgs + 1
        /\ \A i \in L - MaxMsgs..L : all[i] \in S
    BY <1>1, <1>2, <1>4
  <2>3. /\ w \in Seq(S) /\ Len(w) = MaxMsgs + 1
        /\ \A i \in 1..MaxMsgs + 1 : w[i] = all[L - MaxMsgs + i - 1]
    <3> HIDE DEF L, all
    <3>1. L \in Int /\ L - MaxMsgs \in Int
      BY <1>1, <1>2
    <3> QED
      BY <2>2, <3>1, SubSeqProperties
  <2>4. d \in Nat /\ d > 0 /\ L = MaxMsgs + 1 + d
    BY <1>1, <1>2, <1>4
  <2>5. \A i \in 1..MaxMsgs + 1 : L - MaxMsgs + i - 1 = i + d /\ i + d \in 1..L
    BY <1>1, <1>2, <2>4
  <2>6. \A i \in 1..MaxMsgs + 1 : w[i] = IF i + d <= Len(b) THEN b[i + d] ELSE ms[i + d - Len(b)]
    BY <1>1, <2>3, <2>5
  <2> HIDE DEF w, d, L, all
  <2>7. L = Len(b) + Len(ms) /\ Len(w) = MaxMsgs + 1 /\ d \in Nat
    BY <1>1, <2>3, <2>4
  <2>8. Len(w) > MaxMsgs /\ Len(w) <= MaxMsgs + 1 /\ L = Len(w) + d
    BY <1>2, <2>4, <2>7
  <2>9. KeepsEnd(w, b, ms, d)
    BY <2>6, <2>7, <2>8 DEF KeepsEnd
  <2> QED
    BY <2>1, <2>3, <2>7, <2>8, <2>9
<1> QED
  BY <1>3, <1>4

\* The loop that erases while it counts up takes the messages at odd places
\* and leaves those at even places: each message goes one of the two ways.
LEMMA HalvesAre ==
  ASSUME NEW S, NEW s \in Seq(S)
  PROVE  /\ OddOf(s) \in Seq(S) /\ EvenOf(s) \in Seq(S)
         /\ \A i \in 1..Len(OddOf(s)) : 2 * i - 1 \in 1..Len(s) /\ OddOf(s)[i] = s[2 * i - 1]
         /\ \A i \in 1..Len(EvenOf(s)) : 2 * i \in 1..Len(s) /\ EvenOf(s)[i] = s[2 * i]
         /\ \A k \in 1..Len(s) :
              \/ \E i \in 1..Len(OddOf(s)) : k = 2 * i - 1
              \/ \E i \in 1..Len(EvenOf(s)) : k = 2 * i
<1>1. Len(s) \in Nat /\ \A i \in 1..Len(s) : s[i] \in S
  BY ElementIs
<1> DEFINE n == Len(s)
           o == (n + 1) \div 2
           e == n \div 2
<1>2. o \in Nat /\ e \in Nat /\ ((n = 2 * e /\ o = e) \/ (n = 2 * e + 1 /\ o = e + 1))
  BY <1>1
<1> HIDE DEF o, e
<1>3. \A i \in 1..o : 2 * i - 1 \in 1..n
  BY <1>1, <1>2
<1>4. \A i \in 1..e : 2 * i \in 1..n
  BY <1>1, <1>2
<1>5. OddOf(s) = [i \in 1..o |-> s[2 * i - 1]] /\ EvenOf(s) = [i \in 1..e |-> s[2 * i]]
  BY DEF OddOf, EvenOf, o, e
<1>6. /\ OddOf(s) \in Seq(S) /\ EvenOf(s) \in Seq(S)
      /\ Len(OddOf(s)) = o /\ Len(EvenOf(s)) = e
  BY <1>1, <1>2, <1>3, <1>4, <1>5, IsASeq
<1>7. ASSUME NEW k \in 1..n
      PROVE  (\E i \in 1..o : k = 2 * i - 1) \/ (\E i \in 1..e : k = 2 * i)
  <2>1. (k + 1) \div 2 \in Nat /\ (k = 2 * ((k + 1) \div 2) \/ k = 2 * ((k + 1) \div 2) - 1)
    BY <1>1
  <2>2. CASE k = 2 * ((k + 1) \div 2)
    <3>1. (k + 1) \div 2 \in 1..e
      BY <1>1, <1>2, <2>1, <2>2
    <3> QED
      BY <2>2, <3>1
  <2>3. CASE k = 2 * ((k + 1) \div 2) - 1
    <3>1. (k + 1) \div 2 \in 1..o
      BY <1>1, <1>2, <2>1, <2>3
    <3> QED
      BY <2>3, <3>1
  <2> QED
    BY <2>1, <2>2, <2>3
<1> QED
  BY <1>3, <1>4, <1>5, <1>6, <1>7

-----------------------------------------------------------------------------
(* Who writes what.                                                        *)

\* Which steps touch the list of users, the mutex, what was received, the
\* queues and the variables of each thread.
LEMMA WhoWrites ==
  ASSUME [Next]_vars
  PROVE  /\ \/ UNCHANGED <<user_vec, user_count, state>>
            \/ \E u \in Users : Connect(u) \/ Disconnect(u)
         /\ UNCHANGED received \/ BroadcastFrame \/ TransferSends
         /\ UNCHANGED caller \/ BroadcastFrame \/ (\E u \in Users : ReceiveMessage(u))
         /\ \/ UNCHANGED <<messages_in, get_msg>>
            \/ TransferForwards \/ \E u \in Users : ReceiveMessage(u)
         /\ \/ UNCHANGED <<put_msg, fpc, announced>>
            \/ SendSeesSize \/ SendEvicts \/ SendPushes \/ TransferPops
         /\ \/ UNCHANGED <<transferVars, send_mutex>>
            \/ TransferWakes \/ TransferLocks \/ TransferSeesMessage \/ TransferPops
            \/ TransferUnlocks \/ TransferSeesUser \/ TransferSends \/ TransferForwards
         /\ \/ UNCHANGED owed \/ TransferPops \/ TransferForwards
            \/ \E u \in Users : Disconnect(u)
         /\ UNCHANGED <<state, step, asked, frames_read>> \/ caller = NoUser
         /\ \/ UNCHANGED <<step, frames_read>>
            \/ \E u \in Users : OutputDrained(u) \/ ReadHeader(u) \/ ReadOn(u)
                               \/ FrameCompletes(u) \/ Disconnect(u)
<1> USE DEF connVars, faceVars, transferVars, vars, Next, EventLoop, FaceDetector, Transfer,
            Connect, ReadRequest, OutputDrained, ReadHeader, ReadOn, AnswerClose,
            IgnorePing, ReceiveFragment, ReceiveMessage, FrameCompletes, BroadcastFrame,
            Disconnect, SendSeesSize, SendEvicts, SendPushes, TransferWakes, TransferLocks,
            TransferSeesMessage, TransferPops, TransferUnlocks, TransferSeesUser,
            TransferSends, TransferUsesFreed, TransferForwards
<1>1. \/ UNCHANGED <<user_vec, user_count, state>>
      \/ \E u \in Users : Connect(u) \/ Disconnect(u)
  BY ZenonT(60)
<1>2. UNCHANGED received \/ BroadcastFrame \/ TransferSends
  BY ZenonT(60)
<1>3. UNCHANGED caller \/ BroadcastFrame \/ (\E u \in Users : ReceiveMessage(u))
  BY ZenonT(60)
<1>4. \/ UNCHANGED <<messages_in, get_msg>>
      \/ TransferForwards \/ \E u \in Users : ReceiveMessage(u)
  BY ZenonT(60)
<1>5. \/ UNCHANGED <<put_msg, fpc, announced>>
      \/ SendSeesSize \/ SendEvicts \/ SendPushes \/ TransferPops
  BY ZenonT(60)
<1>6. \/ UNCHANGED <<transferVars, send_mutex>>
      \/ TransferWakes \/ TransferLocks \/ TransferSeesMessage \/ TransferPops
      \/ TransferUnlocks \/ TransferSeesUser \/ TransferSends \/ TransferForwards
  BY ZenonT(60)
<1>7. \/ UNCHANGED owed \/ TransferPops \/ TransferForwards
      \/ \E u \in Users : Disconnect(u)
  BY ZenonT(60)
<1>8. UNCHANGED <<state, step, asked, frames_read>> \/ caller = NoUser
  BY ZenonT(60) DEF Polls
<1>9. \/ UNCHANGED <<step, frames_read>>
      \/ \E u \in Users : OutputDrained(u) \/ ReadHeader(u) \/ ReadOn(u)
                         \/ FrameCompletes(u) \/ Disconnect(u)
  BY ZenonT(60)
<1> QED
  BY <1>1, <1>2, <1>3, <1>4, <1>5, <1>6, <1>7, <1>8, <1>9

-----------------------------------------------------------------------------
(* Types.                                                                  *)

\* The booleans stay booleans.
LEMMA BooleansStep ==
  ASSUME TypeOK, [Next]_vars
  PROVE  /\ asked' \in [Users -> BOOLEAN] /\ pending' \in [Users -> BOOLEAN]
         /\ ready_to_send' \in BOOLEAN /\ undefined' \in BOOLEAN
<1>0. /\ asked \in [Users -> BOOLEAN] /\ pending \in [Users -> BOOLEAN]
      /\ ready_to_send \in BOOLEAN /\ undefined \in BOOLEAN
  BY DEF TypeOK, ConnectionsOK, TransferOK, HistoryOK
<1>1. /\ \/ UNCHANGED asked
         \/ \E u \in Users : \E x \in BOOLEAN : asked' = [asked EXCEPT ![u] = x]
      /\ \/ UNCHANGED pending
         \/ \E u : \E x \in BOOLEAN : pending' = [pending EXCEPT ![u] = x]
         \/ pending' = [u \in Users |-> pending[u] \/ u \in Listed \ {caller}]
      /\ \/ UNCHANGED ready_to_send
         \/ ready_to_send' = TRUE
         \/ ready_to_send' = (ready_to_send /\ user_count' > 0)
      /\ UNCHANGED undefined \/ undefined' = TRUE
  <2> USE DEF connVars, faceVars, transferVars, vars, Next, EventLoop, FaceDetector, Transfer,
              Connect, ReadRequest, OutputDrained, ReadHeader, ReadOn, AnswerClose,
              IgnorePing, ReceiveFragment, ReceiveMessage, FrameCompletes, BroadcastFrame,
              Disconnect, SendSeesSize, SendEvicts, SendPushes, TransferWakes, TransferLocks,
              TransferSeesMessage, TransferPops, TransferUnlocks, TransferSeesUser,
              TransferSends, TransferUsesFreed, TransferForwards
  <2>1. \/ UNCHANGED asked
        \/ \E u \in Users : \E x \in BOOLEAN : asked' = [asked EXCEPT ![u] = x]
    BY ZenonT(60)
  <2>2. \/ UNCHANGED pending
        \/ \E u : \E x \in BOOLEAN : pending' = [pending EXCEPT ![u] = x]
        \/ pending' = [u \in Users |-> pending[u] \/ u \in Listed \ {caller}]
    BY ZenonT(60)
  <2>3. \/ UNCHANGED ready_to_send
        \/ ready_to_send' = TRUE
        \/ ready_to_send' = (ready_to_send /\ user_count' > 0)
    BY ZenonT(60)
  <2>4. UNCHANGED undefined \/ undefined' = TRUE
    BY ZenonT(60)
  <2> QED
    BY <2>1, <2>2, <2>3, <2>4
<1>2. asked' \in [Users -> BOOLEAN]
  BY <1>0, <1>1, Zenon
<1>3. pending' \in [Users -> BOOLEAN]
  BY <1>0, <1>1, Zenon
<1>4. ready_to_send' \in BOOLEAN
  BY <1>0, <1>1, Zenon
<1>5. undefined' \in BOOLEAN
  BY <1>0, <1>1, Zenon
<1> QED
  BY <1>2, <1>3, <1>4, <1>5

\* The users, their connections and frame numbers keep their types.
LEMMA ConnectionsStep ==
  ASSUME TypeOK, [Next]_vars
  PROVE  ConnectionsOK'
<1> USE DEF connVars, faceVars, transferVars
<1> DEFINE St == {"new", "live", "freed"}
           Sp == {"ZERO", "ONE", "TWO", "THREE", "FOUR"}
           Fr == Frames \union {NoFrame}
<1>0. /\ state \in [Users -> St] /\ step \in [Users -> Sp] /\ frame \in [Users -> Fr]
      /\ frames_read \in [Users -> Nat]
  BY DEF TypeOK, ConnectionsOK
<1> SUFFICES /\ state' \in [Users -> St] /\ step' \in [Users -> Sp]
             /\ frame' \in [Users -> Fr] /\ frames_read' \in [Users -> Nat]
  BY BooleansStep DEF ConnectionsOK
<1>1. CASE UNCHANGED <<state, step, frame, frames_read>>
  BY <1>0, <1>1
<1>2. ASSUME NEW u \in Users, Connect(u) \/ Disconnect(u)
      PROVE  state' \in [Users -> St] /\ step' \in [Users -> Sp]
             /\ frame' \in [Users -> Fr] /\ frames_read' \in [Users -> Nat]
  BY <1>0, <1>2 DEF Connect, Disconnect
<1>3. ASSUME NEW u \in Users, ReadHeader(u)
      PROVE  state' \in [Users -> St] /\ step' \in [Users -> Sp]
             /\ frame' \in [Users -> Fr] /\ frames_read' \in [Users -> Nat]
  BY <1>0, <1>3 DEF ReadHeader, StepAfterHeader, GarbledFrames
<1>4. ASSUME NEW u \in Users, OutputDrained(u) \/ ReadOn(u) \/ FrameCompletes(u)
      PROVE  state' \in [Users -> St] /\ step' \in [Users -> Sp]
             /\ frame' \in [Users -> Fr] /\ frames_read' \in [Users -> Nat]
  BY <1>0, <1>4 DEF OutputDrained, ReadOn, FrameCompletes, StepAfterFrame
<1>5. CASE BroadcastFrame \/ (\E u \in Users : ReadRequest(u)) \/ FaceDetector \/ UNCHANGED vars
  BY <1>1, <1>5 DEF BroadcastFrame, ReadRequest, FaceDetector, SendSeesSize, SendEvicts,
                    SendPushes, vars
<1>6. CASE Transfer
  BY <1>1, <1>6 DEF Transfer, TransferWakes, TransferLocks, TransferSeesMessage,
                    TransferPops, TransferUnlocks, TransferSeesUser, TransferSends,
                    TransferUsesFreed, TransferForwards
<1> QED
  BY <1>2, <1>3, <1>4, <1>5, <1>6
     DEF Next, EventLoop, AnswerClose, IgnorePing, ReceiveFragment, ReceiveMessage

\* The message queues keep their types, and two of them their limits.
LEMMA QueuesStep ==
  ASSUME TypeOK, SeenInv, NumberInv, [Next]_vars
  PROVE  QueuesOK' /\ (fpc' = "push" => Len(put_msg') <= MaxMsgs /\ announced' < MaxAnnounced)
<1> USE DEF connVars, faceVars, transferVars
<1> DEFINE Mine == /\ messages_in \in Seq(Messages) /\ get_msg \in Seq(Messages)
                   /\ Len(get_msg) <= MaxMsgs + 1
           Put == /\ put_msg \in Seq(Announcements) /\ Len(put_msg) <= MaxMsgs + 1
                  /\ fpc \in {"idle", "evict", "push"} /\ announced \in 0..MaxAnnounced
                  /\ fpc = "push" => Len(put_msg) <= MaxMsgs /\ announced < MaxAnnounced
<1>0. /\ Mine /\ Put /\ Len(put_msg) \in Nat
      /\ MaxMsgs \in Nat /\ MaxAnnounced \in Nat /\ NoUser \notin Users
  BY Assumption, ElementIs DEF TypeOK, QueuesOK, SeenInv
<1>1. Mine'
  <2>1. CASE UNCHANGED <<messages_in, get_msg>>
    BY <1>0, <2>1
  <2>2. ASSUME NEW u \in Users, ReceiveMessage(u)
        PROVE  Mine'
    <3>1. [from |-> u, no |-> frames_read[u]] \in Messages
      BY <2>2 DEF ReceiveMessage, FrameCompletes, NumberInv, Reading, Messages, TypeOK,
                  ConnectionsOK
    <3> QED
      BY <1>0, <2>2, <3>1, AppendIs DEF ReceiveMessage, FrameCompletes
  <2>3. CASE TransferForwards
    BY <1>0, <2>3, HalvesAre, SendAllIs DEF TransferForwards, Skipped
  <2> QED
    BY <2>1, <2>2, <2>3, WhoWrites
<1>2. Put'
  <2>1. CASE UNCHANGED <<put_msg, fpc, announced>>
    BY <1>0, <2>1
  <2>2. CASE SendSeesSize
    BY <1>0, <2>2 DEF SendSeesSize, TooMany
  <2>3. CASE SendEvicts \/ TransferPops
    BY <1>0, <2>3, DropIs DEF SendEvicts, TransferPops
  <2>4. CASE SendPushes
    <3>1. [from |-> NoUser, no |-> announced + 1] \in Announcements
      BY <1>0, <2>4 DEF SendPushes, Announcements
    <3> QED
      BY <1>0, <2>4, <3>1, AppendIs DEF SendPushes
  <2> QED
    BY <2>1, <2>2, <2>3, <2>4, WhoWrites
<1> QED
  BY <1>1, <1>2 DEF QueuesOK

\* The list of users, the mutex and the transfer thread keep their types.
LEMMA TransferStep ==
  ASSUME TypeOK, SeenInv, [Next]_vars
  PROVE  TransferOK' /\ (tpc' = "send" => index' <= Len(user_vec'))
<1> USE DEF connVars, faceVars, transferVars
<1> DEFINE Ann == Announcements \union {NoMessage}
           Vec == user_vec \in Seq(Users) /\ user_count \in 0..Len(user_vec)
           Locks == send_mutex \in {"free", "transfer"} /\ caller \in Users \union {NoUser}
           At == /\ tpc \in {"top", "lock", "locked", "pop", "loop", "send", "forward"}
                 /\ index \in 1..Len(user_vec) + 1 /\ (tpc = "send" => index <= Len(user_vec))
                 /\ message \in Ann
<1>0. Vec /\ Locks /\ At /\ Len(user_vec) \in Nat /\ put_msg \in Seq(Announcements)
  BY ElementIs DEF TypeOK, TransferOK, QueuesOK, SeenInv
<1>1. Vec' /\ Len(user_vec) <= Len(user_vec') /\ Len(user_vec') \in Nat
  <2>1. ASSUME NEW u \in Users, Connect(u)
        PROVE  Vec' /\ Len(user_vec) <= Len(user_vec') /\ Len(user_vec') \in Nat
    <3>1. user_vec' = PushedBack(u) /\ user_count' = user_count + 1
      BY <2>1 DEF Connect
    <3> QED
      BY <1>0, <3>1, PushedBackIs, ElementIs
  <2>2. ASSUME NEW u \in Users, Disconnect(u)
        PROVE  Vec' /\ Len(user_vec) <= Len(user_vec') /\ Len(user_vec') \in Nat
    <3>1. PICK at \in 1..user_count : user_vec' = Erased(at) /\ user_count' = user_count - 1
      BY <2>2 DEF Disconnect
    <3> QED
      BY <1>0, <3>1, ErasedIs
  <2>3. CASE UNCHANGED <<user_vec, user_count>>
    BY <1>0, <2>3
  <2> QED
    BY <2>1, <2>2, <2>3, WhoWrites
<1>2. Locks'
  BY <1>0, WhoWrites DEF BroadcastFrame, ReceiveMessage, FrameCompletes, TransferWakes,
      TransferLocks, TransferSeesMessage, TransferPops, TransferUnlocks, TransferSeesUser,
      TransferSends, TransferForwards
<1>3. At'
  <2>1. CASE UNCHANGED transferVars
    BY <1>0, <1>1, <2>1
  <2>2. CASE TransferWakes \/ TransferLocks \/ TransferSeesMessage \/ TransferUnlocks
             \/ TransferSeesUser \/ TransferSends
    BY <1>0, <2>2 DEF TransferWakes, TransferLocks, TransferSeesMessage, TransferUnlocks,
                      TransferSeesUser, TransferSends
  <2>3. CASE TransferPops
    <3>1. Oldest(put_msg, NoMessage) \in Ann
      BY <1>0, ElementIs, HeadTailProperties DEF Oldest
    <3> QED
      BY <1>0, <2>3, <3>1 DEF TransferPops
  <2>4. CASE TransferForwards
    BY <1>0, <2>4 DEF TransferForwards
  <2> QED
    BY <2>1, <2>2, <2>3, <2>4, WhoWrites
<1> QED
  BY <1>1, <1>2, <1>3, BooleansStep DEF TransferOK

\* What is broadcast and what is sent to a user is a message.
LEMMA HistoryStep ==
  ASSUME TypeOK, UserInv, SeenInv, NumberInv, [Next]_vars
  PROVE  HistoryOK'
<1> USE DEF connVars, faceVars, transferVars
<1> DEFINE All == Messages \union Announcements \union {NoMessage}
<1>0. /\ received \in [Users -> Seq(All)] /\ owed \subseteq Users
      /\ message \in All /\ Listed \subseteq Users
  BY ElementIs DEF TypeOK, HistoryOK, TransferOK, Listed
<1>1. received' \in [Users -> Seq(All)]
  <2>1. CASE UNCHANGED received
    BY <1>0, <2>1
  <2>2. CASE BroadcastFrame
    <3> DEFINE m == [from |-> caller, no |-> frames_read[caller]]
    <3>1. caller \in Users /\ frames_read[caller] \in Nat /\ frames_read[caller] > 0
      BY <2>2 DEF BroadcastFrame, TypeOK, TransferOK, ConnectionsOK, NumberInv
    <3>2. m \in All
      BY <3>1 DEF Messages
    <3>3. \A u \in Users : received'[u] \in {received[u], Append(received[u], m)}
      BY <2>2 DEF BroadcastFrame
    <3>4. received' = [u \in Users |-> received'[u]]
      BY <2>2 DEF BroadcastFrame
    <3> HIDE DEF m, All
    <3>5. ASSUME NEW u \in Users
          PROVE  received'[u] \in Seq(All)
      <4>1. received[u] \in Seq(All)
        BY <1>0
      <4>2. Append(received[u], m) \in Seq(All)
        BY <3>2, <4>1, AppendIs
      <4> QED
        BY <3>3, <4>1, <4>2
    <3> QED
      BY <3>4, <3>5
  <2>3. CASE TransferSends
    <3>1. user_vec[index] \in Users
      BY <2>3, ElementIs DEF TransferSends, TypeOK, TransferOK, SeenInv
    <3>2. Append(received[user_vec[index]], message) \in Seq(All)
      BY <1>0, <3>1, AppendIs
    <3> QED
      BY <1>0, <2>3, <3>1, <3>2 DEF TransferSends
  <2> QED
    BY <2>1, <2>2, <2>3, WhoWrites
<1>2. owed' \subseteq Users
  BY <1>0, WhoWrites DEF TransferPops, TransferForwards, Disconnect
<1> QED
  BY <1>1, <1>2, BooleansStep DEF HistoryOK

-----------------------------------------------------------------------------
(* The invariant, one part at a time.                                      *)

\* push_back adds a user that is not in the list, erase takes one out of it.
LEMMA UserStep ==
  ASSUME TypeOK, UserInv, [Next]_vars
  PROVE  UserInv'
<1> USE DEF connVars, faceVars, transferVars
<1>0. /\ user_vec \in Seq(Users) /\ user_count \in 0..Len(user_vec) /\ Len(user_vec) \in Nat
      /\ state \in [Users -> {"new", "live", "freed"}]
      /\ step \in [Users -> {"ZERO", "ONE", "TWO", "THREE", "FOUR"}]
      /\ caller \in Users \union {NoUser} /\ NoUser \notin Users
      /\ \A i \in 1..Len(user_vec) : user_vec[i] \in Users
  BY Assumption, ElementIs DEF TypeOK, TransferOK, ConnectionsOK
<1> DEFINE Good == /\ \A i \in 1..user_count : state[user_vec[i]] = "live"
                   /\ \A i, j \in 1..user_count : user_vec[i] = user_vec[j] => i = j
<1>1. Good'
  <2>1. ASSUME NEW u \in Users, Connect(u)
        PROVE  Good'
    <3>1. /\ user_vec' = PushedBack(u) /\ user_count' = user_count + 1
          /\ state[u] = "new" /\ state' = [state EXCEPT ![u] = "live"]
      BY <2>1 DEF Connect
    <3>2. /\ user_count + 1 \in 0..Len(user_vec')
          /\ \A i \in 1..Len(user_vec') :
               IF i = user_count + 1 THEN user_vec'[i] = u
               ELSE i \in 1..Len(user_vec) /\ user_vec'[i] = user_vec[i]
      BY <1>0, <3>1, PushedBackIs
    <3>3. user_vec'[user_count + 1] = u
      BY <1>0, <3>2
    <3>4. ASSUME NEW i \in 1..user_count
          PROVE  user_vec'[i] = user_vec[i]
      <4>1. i \in 1..Len(user_vec') /\ i # user_count + 1
        BY <1>0, <3>2
      <4> QED
        BY <3>2, <4>1
    <3>5. user_count' = user_count + 1 /\ user_count \in Nat
      BY <1>0, <3>1
    <3>6. /\ user_vec'[user_count + 1] = u
          /\ \A i \in 1..user_count : user_vec'[i] = user_vec[i]
          /\ \A i \in 1..user_count' : i \in 1..user_count \/ i = user_count + 1
      BY <3>3, <3>4, <3>5
    <3>7. \A i \in 1..user_count : user_vec[i] # u /\ user_vec[i] \in Users
      BY <1>0, <3>1 DEF UserInv
    <3> QED
      BY <1>0, <3>1, <3>6, <3>7 DEF UserInv
  <2>2. ASSUME NEW u \in Users, Disconnect(u)
        PROVE  Good'
    <3>1. PICK at \in 1..user_count :
            /\ user_vec[at] = u /\ user_vec' = Erased(at) /\ user_count' = user_count - 1
            /\ state' = [state EXCEPT ![u] = "freed"]
      BY <2>2 DEF Disconnect
    <3>2. \A i \in 1..user_count' : i \in 1..Len(user_vec) /\ i < user_count
      BY <1>0, <3>1
    <3>3. \A i \in 1..user_count' :
            \/ user_vec'[i] = user_vec[i] /\ i < at
            \/ user_vec'[i] = user_vec[i + 1] /\ at <= i /\ i + 1 \in 1..user_count
      BY <1>0, <3>1, <3>2, ErasedIs
    <3>4. \A i \in 1..user_count : i # at => user_vec[i] # u /\ user_vec[i] \in Users
      BY <1>0, <3>1 DEF UserInv
    <3>5. \A i \in 1..user_count' : \E j \in 1..user_count : j # at /\ user_vec'[i] = user_vec[j]
      BY <1>0, <3>2, <3>3
    <3>7. \A i \in 1..user_count' : state'[user_vec'[i]] = "live"
      BY <1>0, <3>1, <3>4, <3>5 DEF UserInv
    <3>6. \A i, j \in 1..user_count' : user_vec'[i] = user_vec'[j] => i = j
      BY <1>0, <3>1, <3>2, <3>3 DEF UserInv
    <3> QED
      BY <3>6, <3>7
  <2>3. CASE UNCHANGED <<user_vec, user_count, state>>
    BY <2>3 DEF UserInv
  <2> QED
    BY <2>1, <2>2, <2>3, WhoWrites
<1>2. caller' # NoUser => state'[caller'] = "live" /\ step'[caller'] = "ONE"
  <2>1. CASE UNCHANGED caller
    BY <2>1, WhoWrites DEF UserInv
  <2>2. CASE BroadcastFrame
    BY <2>2 DEF BroadcastFrame
  <2>3. ASSUME NEW u \in Users, ReceiveMessage(u)
        PROVE  state'[caller'] = "live" /\ step'[caller'] = "ONE"
    BY <1>0, <2>3 DEF ReceiveMessage, FrameCompletes, Polls, StepAfterFrame, Delivered
  <2> QED
    BY <2>1, <2>2, <2>3, WhoWrites
<1>3. \A u \in Users : state'[u] = "new" => received'[u] = << >>
  <2>1. \A u \in Users : state'[u] = "new" => state[u] = "new"
    BY <1>0, WhoWrites DEF Connect, Disconnect
  <2>2. CASE UNCHANGED received
    BY <2>1, <2>2 DEF UserInv
  <2>3. CASE BroadcastFrame
    BY <1>0, <2>1, <2>3 DEF BroadcastFrame, Listed, UserInv
  <2>4. CASE TransferSends
    BY <1>0, <2>1, <2>4 DEF TransferSends, UserInv
  <2> QED
    BY <2>2, <2>3, <2>4, WhoWrites
<1> QED
  BY <1>1, <1>2, <1>3 DEF UserInv

\* The transfer thread holds the mutex from lock to unlock.
LEMMA MutexStep ==
  ASSUME TypeOK, MutexInv, [Next]_vars
  PROVE  MutexInv'
<1>1. CASE UNCHANGED <<transferVars, send_mutex>>
  BY <1>1 DEF MutexInv, transferVars
<1>2. CASE TransferWakes \/ TransferLocks \/ TransferSeesMessage \/ TransferPops
           \/ TransferUnlocks \/ TransferSeesUser \/ TransferSends \/ TransferForwards
  BY <1>2 DEF MutexInv, TransferWakes, TransferLocks, TransferSeesMessage, TransferPops,
              TransferUnlocks, TransferSeesUser, TransferSends, TransferForwards
<1> QED
  BY <1>1, <1>2, WhoWrites

-----------------------------------------------------------------------------
(* What users receive.                                                     *)

\* m is written to the users in to.
Written(to, m) ==
  \A u \in Users :
    /\ Len(received'[u]) = Len(received[u]) + (IF u \in to THEN 1 ELSE 0)
    /\ \A i \in 1..Len(received[u]) : received'[u][i] = received[u][i]
    /\ u \in to => received'[u][Len(received[u]) + 1] = m

All == Messages \union Announcements \union {NoMessage}

\* Appending m to what they have received is writing m.
LEMMA WritesOne ==
  ASSUME TypeOK, NEW to, NEW m \in All,
         \A u \in Users : received'[u] = IF u \in to THEN Append(received[u], m) ELSE received[u]
  PROVE  Written(to, m)
<1> SUFFICES ASSUME NEW u \in Users
             PROVE  /\ Len(received'[u]) = Len(received[u]) + (IF u \in to THEN 1 ELSE 0)
                    /\ \A i \in 1..Len(received[u]) : received'[u][i] = received[u][i]
                    /\ u \in to => received'[u][Len(received[u]) + 1] = m
  BY DEF Written
<1>1. received[u] \in Seq(All) /\ Len(received[u]) \in Nat
  BY ElementIs DEF TypeOK, HistoryOK, All
<1>2. CASE u \in to
  <2>1. received'[u] = Append(received[u], m)
    BY <1>2
  <2> QED
    BY <1>1, <1>2, <2>1, AppendIs
<1>3. CASE u \notin to
  BY <1>1, <1>3
<1> QED
  BY <1>2, <1>3

\* Messages are written by a broadcast of the event loop and by the transfer
\* thread, which serves one user at a time.
LEMMA ReceivedIs ==
  ASSUME TypeOK, SeenInv, NumberInv, [Next]_vars
  PROVE  /\ UNCHANGED received \/ BroadcastFrame \/ TransferSends
         /\ BroadcastFrame =>
              /\ caller \in Users
              /\ [from |-> caller, no |-> frames_read[caller]] \in Messages
              /\ Written(Listed \ {caller}, [from |-> caller, no |-> frames_read[caller]])
         /\ TransferSends =>
              /\ user_vec[index] \in Users /\ message \in Announcements \union {NoMessage}
              /\ Written({user_vec[index]}, message)
<1>2. ASSUME BroadcastFrame
      PROVE  /\ caller \in Users
             /\ [from |-> caller, no |-> frames_read[caller]] \in Messages
             /\ Written(Listed \ {caller}, [from |-> caller, no |-> frames_read[caller]])
  <2> DEFINE m == [from |-> caller, no |-> frames_read[caller]]
             to == Listed \ {caller}
  <2>1. caller \in Users /\ frames_read[caller] \in Nat /\ frames_read[caller] > 0
    BY <1>2 DEF BroadcastFrame, TypeOK, TransferOK, ConnectionsOK, NumberInv
  <2>2. m \in Messages /\ m \in All
    BY <2>1 DEF Messages, All
  <2>3. \A u \in Users :
          received'[u] = IF u \in to THEN Append(received[u], m) ELSE received[u]
    BY <1>2 DEF BroadcastFrame
  <2> HIDE DEF m, to
  <2>4. Written(to, m)
    BY <2>2, <2>3, WritesOne
  <2> QED
    BY <2>1, <2>2, <2>4 DEF m, to
<1>3. ASSUME TransferSends
      PROVE  /\ user_vec[index] \in Users /\ message \in Announcements \union {NoMessage}
             /\ Written({user_vec[index]}, message)
  <2> DEFINE v == user_vec[index]
  <2>1. v \in Users /\ message \in Announcements \union {NoMessage}
    BY <1>3, ElementIs DEF TransferSends, TypeOK, TransferOK, SeenInv
  <2>2. message \in All
    BY <2>1 DEF All
  <2>3. received' = [received EXCEPT ![v] = Append(@, message)]
    BY <1>3 DEF TransferSends
  <2> HIDE DEF v
  <2>4. \A u \in Users :
          received'[u] = IF u \in {v} THEN Append(received[u], message) ELSE received[u]
    BY <2>1, <2>3 DEF TypeOK, HistoryOK
  <2>5. Written({v}, message)
    BY <2>1, <2>2, <2>4, WritesOne
  <2> QED
    BY <2>1, <2>5 DEF v
<1> QED
  BY <1>2, <1>3, WhoWrites

\* What a user has received is kept, in its place; what is new comes last.
LEMMA WrittenIs ==
  ASSUME TypeOK, NEW to, NEW m, Written(to, m), NEW u \in Users
  PROVE  /\ Len(received[u]) \in Nat
         /\ \A i \in 1..Len(received[u]) :
              i \in 1..Len(received'[u]) /\ received'[u][i] = received[u][i]
         /\ \A i \in 1..Len(received'[u]) :
              \/ i \in 1..Len(received[u]) /\ received'[u][i] = received[u][i]
              \/ /\ u \in to /\ i = Len(received[u]) + 1 /\ i = Len(received'[u])
                 /\ received'[u][i] = m
<1>1. Len(received[u]) \in Nat
  BY ElementIs DEF TypeOK, HistoryOK
<1>2. CASE u \in to
  <2>1. /\ Len(received'[u]) = Len(received[u]) + 1
        /\ \A i \in 1..Len(received[u]) : received'[u][i] = received[u][i]
        /\ received'[u][Len(received[u]) + 1] = m
    BY <1>2 DEF Written
  <2> QED
    BY <1>1, <1>2, <2>1
<1>3. CASE u \notin to
  <2>1. /\ Len(received'[u]) = Len(received[u]) + 0
        /\ \A i \in 1..Len(received[u]) : received'[u][i] = received[u][i]
    BY <1>3 DEF Written
  <2>2. Len(received'[u]) = Len(received[u])
    BY <1>1, <2>1
  <2> QED
    BY <1>1, <2>1, <2>2
<1> QED
  BY <1>2, <1>3

\* Nothing that was received is taken back.
LEMMA ReceivedGrows ==
  ASSUME TypeOK, SeenInv, NumberInv, [Next]_vars
  PROVE  \A u \in Users : received[u] # << >> => received'[u] # << >>
<1>1. ASSUME NEW to, NEW m, Written(to, m), NEW u \in Users, received[u] # << >>
      PROVE  received'[u] # << >>
  <2>1. 1 \in 1..Len(received[u])
    BY <1>1, LenProperties, EmptySeq DEF TypeOK, HistoryOK
  <2>2. 1 \in 1..Len(received'[u])
    BY <1>1, <2>1, WrittenIs
  <2> QED
    BY <2>2
<1> QED
  BY <1>1, ReceivedIs

\* A connection that has not read its request is written to by broadcasts only.
LEMMA PreemptStep ==
  ASSUME TypeOK, PreemptInv, SeenInv, NumberInv, [Next]_vars
  PROVE  PreemptInv'
<1> USE DEF connVars, faceVars, transferVars
<1>0. /\ step \in [Users -> {"ZERO", "ONE", "TWO", "THREE", "FOUR"}]
      /\ asked \in [Users -> BOOLEAN] /\ pending \in [Users -> BOOLEAN]
  BY DEF TypeOK, ConnectionsOK
<1>1. \A u \in Users : received[u] # << >> => received'[u] # << >>
  BY ReceivedGrows
<1>2. ASSUME NEW to, NEW m, Written(to, m), NEW u \in Users, u \in to
      PROVE  received'[u] # << >>
  <2>1. Len(received'[u]) = Len(received[u]) + 1 /\ Len(received[u]) \in Nat
    BY <1>2, ElementIs DEF Written, TypeOK, HistoryOK
  <2> QED
    BY <2>1, EmptySeq
<1>3. CASE UNCHANGED <<asked, pending, step>>
  BY <1>1, <1>3 DEF PreemptInv
<1>4. CASE BroadcastFrame
  <2>1. \A u \in Listed \ {caller} : u \in Users => received'[u] # << >>
    BY <1>2, <1>4, ReceivedIs DEF BroadcastFrame
  <2>2. \A u \in Users : /\ asked' = asked /\ step' = step
                         /\ pending'[u] => pending[u] \/ received'[u] # << >>
    BY <1>0, <1>4, <2>1 DEF BroadcastFrame
  <2> QED
    BY <1>1, <2>2 DEF PreemptInv
<1>5. CASE TransferSends
  <2>1. received'[user_vec[index]] # << >> /\ user_vec[index] \in Users
    BY <1>2, <1>5, ReceivedIs DEF TransferSends
  <2>2. \A u \in Users : /\ asked' = asked /\ step' = step
                         /\ pending'[u] => pending[u] \/ received'[u] # << >>
    BY <1>0, <1>5, <2>1 DEF TransferSends
  <2> QED
    BY <1>1, <2>2 DEF PreemptInv
<1>6. ASSUME NEW u \in Users,
             \/ ReadRequest(u) \/ OutputDrained(u) \/ ReadHeader(u) \/ ReadOn(u)
             \/ AnswerClose(u) \/ IgnorePing(u) \/ ReceiveFragment(u) \/ ReceiveMessage(u)
             \/ Disconnect(u)
      PROVE  PreemptInv'
  <2>1. \A v \in Users \ {u} :
          /\ ~asked'[v] => ~asked[v]
          /\ step'[v] = step[v]
          /\ pending'[v] => pending[v]
    BY <1>0, <1>6 DEF ReadRequest, OutputDrained, ReadHeader, ReadOn, FrameCompletes,
                      AnswerClose, IgnorePing, ReceiveFragment, ReceiveMessage, Disconnect
  <2>2. ~asked'[u] => ~asked[u] \/ (step'[u] = "ZERO" /\ ~pending'[u])
    BY <1>0, <1>6 DEF ReadRequest, OutputDrained, ReadHeader, ReadOn, FrameCompletes,
                      AnswerClose, IgnorePing, ReceiveFragment, ReceiveMessage, Disconnect
  <2>3. ~asked'[u] /\ (pending'[u] \/ step'[u] # "ZERO") => pending[u] \/ step[u] # "ZERO"
    BY <1>0, <1>6 DEF ReadRequest, OutputDrained, ReadHeader, ReadOn, FrameCompletes, HasOutput,
                      AnswerClose, IgnorePing, ReceiveFragment, ReceiveMessage, Disconnect
  <2> QED
    BY <1>1, <2>1, <2>2, <2>3 DEF PreemptInv
<1>7. \/ UNCHANGED <<asked, pending, step>> \/ BroadcastFrame \/ TransferSends
      \/ \E u \in Users :
           \/ ReadRequest(u) \/ OutputDrained(u) \/ ReadHeader(u) \/ ReadOn(u)
           \/ AnswerClose(u) \/ IgnorePing(u) \/ ReceiveFragment(u) \/ ReceiveMessage(u)
           \/ Disconnect(u)
  BY DEF Next, EventLoop, FaceDetector, Transfer, Connect, SendSeesSize, SendEvicts,
         SendPushes, TransferWakes, TransferLocks, TransferSeesMessage, TransferPops,
         TransferUnlocks, TransferSeesUser, TransferUsesFreed, TransferForwards, vars
<1> QED
  BY <1>3, <1>4, <1>5, <1>6, <1>7

-----------------------------------------------------------------------------
(* The messages of clients.                                                *)

\* A forwarding pass: every message of messages_in stays, or goes to get_msg,
\* behind what is left of the older ones.
LEMMA ForwardIs ==
  ASSUME TypeOK, TransferForwards
  PROVE  /\ \A i \in 1..Len(messages_in') :
              2 * i \in 1..Len(messages_in) /\ messages_in'[i] = messages_in[2 * i]
         /\ \E d \in Nat :
              /\ d > 0 => Len(get_msg') > MaxMsgs
              /\ \A i \in 1..Len(get_msg') :
                   \/ /\ i + d \in 1..Len(get_msg)
                      /\ get_msg'[i] = get_msg[i + d]
                   \/ /\ i + d > Len(get_msg)
                      /\ 2 * (i + d - Len(get_msg)) - 1 \in 1..Len(messages_in)
                      /\ get_msg'[i] = messages_in[2 * (i + d - Len(get_msg)) - 1]
              /\ d = 0 =>
                   /\ \A i \in 1..Len(get_msg) :
                        i \in 1..Len(get_msg') /\ get_msg'[i] = get_msg[i]
                   /\ \A k \in 1..Len(messages_in) :
                        \/ \E i \in 1..Len(messages_in') : messages_in'[i] = messages_in[k]
                        \/ \E i \in 1..Len(get_msg') : get_msg'[i] = messages_in[k]
<1> DEFINE odd == OddOf(messages_in)
           g == Len(get_msg)
<1>0. /\ messages_in \in Seq(Messages) /\ get_msg \in Seq(Messages)
      /\ g \in Nat /\ Len(messages_in) \in Nat
  BY ElementIs DEF TypeOK, QueuesOK
<1>1. messages_in' = EvenOf(messages_in) /\ get_msg' = SendAll(get_msg, MaxMsgs, odd)
  BY DEF TransferForwards, Skipped
<1>2. /\ odd \in Seq(Messages) /\ Len(odd) \in Nat
      /\ \A i \in 1..Len(odd) :
           2 * i - 1 \in 1..Len(messages_in) /\ odd[i] = messages_in[2 * i - 1]
      /\ \A i \in 1..Len(messages_in') :
           2 * i \in 1..Len(messages_in) /\ messages_in'[i] = messages_in[2 * i]
      /\ \A k \in 1..Len(messages_in) :
           \/ \E i \in 1..Len(odd) : k = 2 * i - 1
           \/ \E i \in 1..Len(messages_in') : k = 2 * i
  BY <1>0, <1>1, HalvesAre, ElementIs
<1> HIDE DEF odd
<1>3. PICK d \in Nat : KeepsEnd(get_msg', get_msg, odd, d)
  BY <1>0, <1>1, <1>2, SendAllIs
<1>4. Len(get_msg') \in Nat
  BY <1>0, <1>1, <1>2, SendAllIs, ElementIs
<1> HIDE DEF g
<1>5. ASSUME NEW i \in 1..Len(get_msg')
      PROVE  \/ i + d \in 1..g /\ get_msg'[i] = get_msg[i + d]
             \/ /\ i + d > g /\ i + d - g \in 1..Len(odd)
                /\ get_msg'[i] = odd[i + d - g]
  <2>1. /\ g + Len(odd) = Len(get_msg') + d
        /\ get_msg'[i] = IF i + d <= g THEN get_msg[i + d] ELSE odd[i + d - g]
    BY <1>3 DEF KeepsEnd, g
  <2>2. i + d <= g => i + d \in 1..g
    BY <1>0, <1>4
  <2>3. ~(i + d <= g) => i + d > g /\ i + d - g \in 1..Len(odd)
    BY <1>0, <1>2, <1>4, <2>1
  <2> QED
    BY <2>1, <2>2, <2>3
<1>6. \A i \in 1..Len(get_msg') :
        \/ i + d \in 1..g /\ get_msg'[i] = get_msg[i + d]
        \/ /\ i + d > g
           /\ 2 * (i + d - g) - 1 \in 1..Len(messages_in)
           /\ get_msg'[i] = messages_in[2 * (i + d - g) - 1]
  BY <1>2, <1>5
<1>7. ASSUME d = 0
      PROVE  /\ \A i \in 1..g : i \in 1..Len(get_msg') /\ get_msg'[i] = get_msg[i]
             /\ \A i \in 1..Len(odd) : g + i \in 1..Len(get_msg') /\ get_msg'[g + i] = odd[i]
  <2>1. Len(get_msg') = g + Len(odd)
    BY <1>0, <1>2, <1>3, <1>4, <1>7 DEF KeepsEnd, g
  <2>2. ASSUME NEW i \in 1..g
        PROVE  i \in 1..Len(get_msg') /\ get_msg'[i] = get_msg[i]
    BY <1>0, <1>2, <1>5, <1>7, <2>1
  <2>3. ASSUME NEW i \in 1..Len(odd)
        PROVE  g + i \in 1..Len(get_msg') /\ get_msg'[g + i] = odd[i]
    <3>1. g + i \in 1..Len(get_msg') /\ g + i + d = g + i /\ g + i - g = i /\ g + i > g
      BY <1>0, <1>2, <1>7, <2>1
    <3> QED
      BY <1>0, <1>2, <1>5, <3>1
  <2> QED
    BY <2>2, <2>3
<1>8. ASSUME d = 0, NEW k \in 1..Len(messages_in)
      PROVE  \/ \E i \in 1..Len(messages_in') : messages_in'[i] = messages_in[k]
             \/ \E i \in 1..Len(get_msg') : get_msg'[i] = messages_in[k]
  <2>1. CASE \E i \in 1..Len(odd) : k = 2 * i - 1
    <3>1. PICK i \in 1..Len(odd) : k = 2 * i - 1
      BY <2>1
    <3>2. odd[i] = messages_in[k] /\ g + i \in 1..Len(get_msg') /\ get_msg'[g + i] = odd[i]
      BY <1>2, <1>7, <1>8, <3>1
    <3> QED
      BY <3>2
  <2>2. CASE \E i \in 1..Len(messages_in') : k = 2 * i
    BY <1>2, <2>2
  <2> QED
    BY <1>2, <2>1, <2>2
<1> QED
  BY <1>2, <1>3, <1>6, <1>7, <1>8 DEF KeepsEnd, g

\* The numbers of the messages go up with the frames of their clients.
LEMMA NumberStep ==
  ASSUME TypeOK, UserInv, SeenInv, NumberInv, [Next]_vars
  PROVE  NumberInv'
<1> USE DEF connVars, faceVars, transferVars
<1>0. /\ frames_read \in [Users -> Nat] /\ caller \in Users \union {NoUser}
      /\ step \in [Users -> {"ZERO", "ONE", "TWO", "THREE", "FOUR"}]
      /\ NoUser \notin Users
  BY Assumption DEF TypeOK, ConnectionsOK, TransferOK
<1> DEFINE Later(m) ==
             /\ m.no <= frames_read'[m.from]
             /\ step'[m.from] \in {"TWO", "THREE", "FOUR"} => m.no < frames_read'[m.from]
<1>1. ASSUME NEW v \in Users
      PROVE  \/ frames_read'[v] = frames_read[v] /\ (Reading(v)' => Reading(v))
             \/ frames_read'[v] = frames_read[v] + 1
  <2>1. CASE UNCHANGED <<step, frames_read>>
    BY <2>1 DEF Reading
  <2>2. ASSUME NEW u \in Users, OutputDrained(u) \/ FrameCompletes(u) \/ Disconnect(u) \/ ReadOn(u)
        PROVE  frames_read'[v] = frames_read[v] /\ (Reading(v)' => Reading(v))
    BY <1>0, <2>2 DEF OutputDrained, FrameCompletes, StepAfterFrame, Disconnect, ReadOn, Reading
  <2>3. ASSUME NEW u \in Users, ReadHeader(u)
        PROVE  \/ frames_read'[v] = frames_read[v] /\ (Reading(v)' => Reading(v))
               \/ frames_read'[v] = frames_read[v] + 1
    BY <1>0, <2>3 DEF ReadHeader, Reading
  <2> QED
    BY <2>1, <2>2, <2>3, WhoWrites
<1>2. ASSUME NEW m, m.from \in Users, m.no \in Nat, Numbered(m)
      PROVE  Later(m)
  <2>1. frames_read'[m.from] \in Nat /\ frames_read[m.from] \in Nat
    BY <1>0, <1>1, <1>2
  <2> QED
    BY <1>1, <1>2, <2>1 DEF Numbered, Reading
<1>3. \A u \in Users : Reading(u)' \/ caller' = u => frames_read'[u] > 0
  <2>1. \A u \in Users : caller' = u => caller = u \/ Reading(u)
    BY <1>0, WhoWrites DEF BroadcastFrame, ReceiveMessage, FrameCompletes, Reading
  <2> QED
    BY <1>0, <1>1, <2>1 DEF NumberInv
<1>4. \A u \in Users : \A i \in 1..Len(received[u]) :
        received[u][i].from # NoUser => received[u][i] \in Messages
  BY ElementIs DEF TypeOK, HistoryOK, Announcements, NoMessage
<1>5. ASSUME NEW u \in Users, NEW i \in 1..Len(received'[u]), received'[u][i].from # NoUser
      PROVE  /\ Later(received'[u][i])
             /\ caller' = received'[u][i].from => received'[u][i].no < frames_read'[caller']
  <2>1. ASSUME i \in 1..Len(received[u]), received'[u][i] = received[u][i]
        PROVE  /\ Later(received'[u][i])
               /\ caller' = received'[u][i].from => received'[u][i].no < frames_read'[caller']
    <3> DEFINE m == received[u][i]
    <3>1. m.from \in Users /\ m.no \in Nat /\ Numbered(m)
      BY <1>4, <1>5, <2>1 DEF Messages, NumberInv
    <3>2. caller' = m.from => m.no < frames_read[m.from]
      <4>1. CASE UNCHANGED caller
        BY <1>5, <2>1, <4>1 DEF NumberInv
      <4>2. CASE BroadcastFrame
        BY <1>0, <3>1, <4>2 DEF BroadcastFrame
      <4>3. ASSUME NEW v \in Users, ReceiveMessage(v), caller' = m.from
            PROVE  m.no < frames_read[m.from]
        BY <3>1, <4>3 DEF ReceiveMessage, FrameCompletes, Numbered, Reading
      <4> QED
        BY <4>1, <4>2, <4>3, WhoWrites
    <3>3. Later(m) /\ frames_read[m.from] <= frames_read'[m.from]
      BY <1>0, <1>1, <1>2, <3>1
    <3>4. frames_read[m.from] \in Nat /\ frames_read'[m.from] \in Nat
      BY <1>0, <1>1, <3>1
    <3> QED
      BY <2>1, <3>1, <3>2, <3>3, <3>4
  <2>2. ASSUME BroadcastFrame, received'[u][i] = [from |-> caller, no |-> frames_read[caller]]
        PROVE  /\ Later(received'[u][i])
               /\ caller' = received'[u][i].from => received'[u][i].no < frames_read'[caller']
    <3>1. caller \in Users /\ caller' = NoUser /\ UNCHANGED <<step, frames_read>>
      BY <1>0, <2>2 DEF BroadcastFrame
    <3>2. step[caller] = "ONE"
      BY <1>0, <3>1 DEF UserInv
    <3>3. received'[u][i].from = caller /\ received'[u][i].no = frames_read[caller]
      BY <2>2
    <3> QED
      BY <1>0, <3>1, <3>2, <3>3
  <2>3. ASSUME received'[u][i] = message, message \in Announcements \union {NoMessage}
        PROVE  FALSE
    BY <1>5, <2>3 DEF Announcements, NoMessage
  <2> QED
    BY <2>1, <2>2, <2>3, ReceivedIs, WrittenIs
<1>6. /\ \A i \in 1..Len(messages_in) : Later(messages_in[i])
      /\ \A i \in 1..Len(get_msg) : Later(get_msg[i])
  <2>1. /\ \A i \in 1..Len(messages_in) : messages_in[i] \in Messages
        /\ \A i \in 1..Len(get_msg) : get_msg[i] \in Messages
    BY ElementIs DEF TypeOK, QueuesOK
  <2>2. \A m \in Messages : m.from \in Users /\ m.no \in Nat
    BY DEF Messages
  <2> HIDE DEF Later
  <2> QED
    BY <1>2, <2>1, <2>2 DEF NumberInv
<1>7. /\ \A i \in 1..Len(messages_in') : Later(messages_in'[i])
      /\ \A i \in 1..Len(get_msg') : Later(get_msg'[i])
  <2>1. CASE UNCHANGED <<messages_in, get_msg>>
    BY <1>6, <2>1
  <2>2. CASE TransferForwards
    <3> HIDE DEF Later
    <3> QED
      BY <1>6, <2>2, ForwardIs
  <2>3. ASSUME NEW u \in Users, ReceiveMessage(u)
        PROVE  /\ \A i \in 1..Len(messages_in') : Later(messages_in'[i])
               /\ \A i \in 1..Len(get_msg') : Later(get_msg'[i])
    <3> DEFINE m == [from |-> u, no |-> frames_read[u]]
    <3>1. /\ messages_in' = Append(messages_in, m) /\ UNCHANGED <<get_msg, frames_read>>
          /\ step'[u] = "ONE"
      BY <1>0, <2>3 DEF ReceiveMessage, FrameCompletes, StepAfterFrame, Delivered
    <3>2. Later(m) /\ m \in Messages /\ messages_in \in Seq(Messages)
      BY <1>0, <2>3, <3>1 DEF Messages, TypeOK, QueuesOK, NumberInv, Reading, ReceiveMessage,
                              FrameCompletes
    <3> HIDE DEF m, Later
    <3> QED
      BY <1>6, <3>1, <3>2, AppendIs
  <2> QED
    BY <2>1, <2>2, <2>3, WhoWrites
<1> QED
  BY <1>3, <1>5, <1>7 DEF NumberInv, Numbered, Reading

-----------------------------------------------------------------------------
(* The announcements.                                                      *)

\* The announcements that wait are among those that waited, or new.
LEMMA PutIs ==
  ASSUME TypeOK, [Next]_vars
  PROVE  \/ \E d \in {0, 1} :
              /\ announced' = announced
              /\ \A i \in 1..Len(put_msg') : i + d \in 1..Len(put_msg) /\ put_msg'[i] = put_msg[i + d]
         \/ /\ announced' = announced + 1
            /\ \A i \in 1..Len(put_msg') :
                 \/ i \in 1..Len(put_msg) /\ put_msg'[i] = put_msg[i]
                 \/ i = Len(put_msg) + 1 /\ put_msg'[i].no = announced'
            /\ SendPushes
<1>0. put_msg \in Seq(Announcements) /\ Len(put_msg) \in Nat /\ announced \in Nat
  BY ElementIs, Assumption DEF TypeOK, QueuesOK
<1>1. CASE UNCHANGED <<put_msg, fpc, announced>> \/ SendSeesSize
  <2>1. UNCHANGED <<put_msg, announced>>
    BY <1>1 DEF SendSeesSize
  <2>2. \A i \in 1..Len(put_msg) : i + 0 = i
    BY <1>0
  <2> QED
    BY <2>1, <2>2
<1>2. CASE SendEvicts \/ TransferPops
  <2>1. put_msg' = DropOldest(put_msg) /\ announced' = announced
    BY <1>2 DEF SendEvicts, TransferPops, faceVars
  <2>2. \A i \in 1..Len(put_msg') : i + 1 \in 1..Len(put_msg) /\ put_msg'[i] = put_msg[i + 1]
    <3>1. CASE put_msg = << >>
      BY <1>0, <2>1, <3>1, DropIs
    <3>2. CASE put_msg # << >>
      <4>1. Len(put_msg') = Len(put_msg) - 1
        BY <1>0, <2>1, <3>2, DropIs
      <4> QED
        BY <1>0, <2>1, <4>1, DropIs
    <3> QED
      BY <3>1, <3>2
  <2> QED
    BY <2>1, <2>2
<1>3. CASE SendPushes
  <2> DEFINE m == [from |-> NoUser, no |-> announced']
  <2>1. announced' = announced + 1 /\ put_msg' = Append(put_msg, m)
    BY <1>3 DEF SendPushes
  <2>2. m.no = announced'
    OBVIOUS
  <2>3. put_msg \in Seq(Announcements \union {m})
    BY <1>0, SeqMonotonic
  <2> HIDE DEF m
  <2>4. \A i \in 1..Len(put_msg') :
          \/ i \in 1..Len(put_msg) /\ put_msg'[i] = put_msg[i]
          \/ i = Len(put_msg) + 1 /\ put_msg'[i] = m
    BY <2>1, <2>3, AppendIs
  <2> QED
    BY <1>3, <2>1, <2>2, <2>4
<1> QED
  BY <1>1, <1>2, <1>3, WhoWrites

\* The announcement that is popped was the oldest.
LEMMA PopIs ==
  ASSUME TypeOK, TransferPops
  PROVE  \/ message' = NoMessage
         \/ 1 \in 1..Len(put_msg) /\ message' = put_msg[1]
  BY ElementIs, HeadTailProperties, EmptySeq DEF TransferPops, Oldest, TypeOK, QueuesOK

\* The transfer thread sends what it has popped, from the first user on.
LEMMA SendingIs ==
  ASSUME [Next]_vars
  PROVE  Sending' =>
           \/ TransferPops
           \/ /\ Sending /\ message' = message
              /\ TransferSends \/ (index' = index /\ (tpc' = tpc \/ TransferSeesUser))
<1> USE DEF Sending, transferVars
<1>1. CASE UNCHANGED <<transferVars, send_mutex>>
  BY <1>1
<1>2. CASE \/ TransferWakes \/ TransferLocks \/ TransferSeesMessage \/ TransferPops
           \/ TransferUnlocks \/ TransferSeesUser \/ TransferSends \/ TransferForwards
  BY <1>2 DEF TransferWakes, TransferLocks, TransferSeesMessage, TransferUnlocks,
              TransferSeesUser, TransferSends, TransferForwards
<1> QED
  BY <1>1, <1>2, WhoWrites

\* Numbers go up along the queue, and what was sent is older.
LEMMA AnnounceStep ==
  ASSUME TypeOK, SeenInv, NumberInv, AnnounceInv, [Next]_vars
  PROVE  AnnounceInv'
<1>0. /\ announced \in Nat /\ announced' \in Nat /\ Len(put_msg) \in Nat
      /\ \A i \in 1..Len(put_msg) : put_msg[i].no \in Nat /\ put_msg[i].no > 0
      /\ message \in Announcements \union {NoMessage}
      /\ message.no \in Nat
      /\ NoUser \notin Users
  <2>1. announced \in Nat /\ put_msg \in Seq(Announcements) /\ MaxAnnounced \in Nat
        /\ message \in Announcements \union {NoMessage} /\ NoUser \notin Users
    BY Assumption DEF TypeOK, QueuesOK, TransferOK
  <2>2. \A m \in Announcements : m.no \in Nat /\ m.no > 0
    BY <2>1 DEF Announcements
  <2>3. announced' = announced \/ announced' = announced + 1
    BY PutIs
  <2> QED
    BY <2>1, <2>2, <2>3, ElementIs DEF NoMessage
<1>1. /\ \A i, j \in 1..Len(put_msg') : i < j => put_msg'[i].no < put_msg'[j].no
      /\ \A i \in 1..Len(put_msg') : put_msg'[i].no <= announced'
  <2>1. ASSUME NEW d \in {0, 1}, announced' = announced,
               \A i \in 1..Len(put_msg') :
                 i + d \in 1..Len(put_msg) /\ put_msg'[i] = put_msg[i + d]
        PROVE  /\ \A i, j \in 1..Len(put_msg') : i < j => put_msg'[i].no < put_msg'[j].no
               /\ \A i \in 1..Len(put_msg') : put_msg'[i].no <= announced'
    <3>1. \A i, j \in 1..Len(put_msg') : i < j => i + d < j + d
      OBVIOUS
    <3> QED
      BY <1>0, <2>1, <3>1 DEF AnnounceInv
  <2>2. ASSUME announced' = announced + 1,
               \A i \in 1..Len(put_msg') :
                 \/ i \in 1..Len(put_msg) /\ put_msg'[i] = put_msg[i]
                 \/ i = Len(put_msg) + 1 /\ put_msg'[i].no = announced'
        PROVE  /\ \A i, j \in 1..Len(put_msg') : i < j => put_msg'[i].no < put_msg'[j].no
               /\ \A i \in 1..Len(put_msg') : put_msg'[i].no <= announced'
    <3>1. \A i \in 1..Len(put_msg) : put_msg[i].no < announced'
      BY <1>0, <2>2 DEF AnnounceInv
    <3>2. \A i \in 1..Len(put_msg') : put_msg'[i].no <= announced'
      BY <1>0, <2>2, <3>1
    <3>3. \A i, j \in 1..Len(put_msg') :
            i < j => i \in 1..Len(put_msg) /\ put_msg'[i] = put_msg[i]
      <4>1. \A i, j \in 1..Len(put_msg') : i < j => i # Len(put_msg) + 1
        BY <1>0, <2>2
      <4> QED
        BY <2>2, <4>1
    <3>4. ASSUME NEW i \in 1..Len(put_msg'), NEW j \in 1..Len(put_msg'), i < j
          PROVE  put_msg'[i].no < put_msg'[j].no
      <4>1. i \in 1..Len(put_msg) /\ put_msg'[i] = put_msg[i]
        BY <3>3, <3>4
      <4> QED
        BY <2>2, <3>1, <3>4, <4>1 DEF AnnounceInv
    <3> QED
      BY <3>2, <3>4
  <2> QED
    BY <2>1, <2>2, PutIs
<1>2. ASSUME NEW n \in Nat, n <= announced, \A j \in 1..Len(put_msg) : n < put_msg[j].no
      PROVE  n <= announced' /\ \A j \in 1..Len(put_msg') : n < put_msg'[j].no
  <2>1. CASE \E d \in {0, 1} :
               /\ announced' = announced
               /\ \A i \in 1..Len(put_msg') :
                    i + d \in 1..Len(put_msg) /\ put_msg'[i] = put_msg[i + d]
    BY <1>2, <2>1
  <2>2. CASE /\ announced' = announced + 1
             /\ \A i \in 1..Len(put_msg') :
                  \/ i \in 1..Len(put_msg) /\ put_msg'[i] = put_msg[i]
                  \/ i = Len(put_msg) + 1 /\ put_msg'[i].no = announced'
    BY <1>0, <1>2, <2>2
  <2> QED
    BY <2>1, <2>2, PutIs
<1>3. ASSUME TransferPops, Sending'
      PROVE  1 \in 1..Len(put_msg) /\ message' = put_msg[1]
  BY <1>3, PopIs DEF Sending
<1>4. Sending' =>
        /\ message'.no <= announced'
        /\ \A j \in 1..Len(put_msg') : message'.no < put_msg'[j].no
  <2>1. ASSUME TransferPops, Sending'
        PROVE  /\ message'.no <= announced'
               /\ \A j \in 1..Len(put_msg') : message'.no < put_msg'[j].no
    <3>1. put_msg' = DropOldest(put_msg) /\ announced' = announced
      BY <2>1 DEF TransferPops, faceVars
    <3>2. put_msg \in Seq(Announcements)
      BY DEF TypeOK, QueuesOK
    <3>3. ASSUME NEW j \in 1..Len(put_msg')
          PROVE  j + 1 \in 1..Len(put_msg) /\ 1 < j + 1 /\ put_msg'[j] = put_msg[j + 1]
      <4>1. put_msg # << >>
        BY <1>3, <2>1
      <4>2. Len(put_msg') = Len(put_msg) - 1 /\ put_msg'[j] = put_msg[j + 1]
        BY <3>1, <3>2, <4>1, DropIs
      <4> QED
        BY <1>0, <4>2
    <3> QED
      BY <1>0, <1>3, <2>1, <3>1, <3>3 DEF AnnounceInv
  <2>2. ASSUME Sending, message' = message
        PROVE  /\ message'.no <= announced'
               /\ \A j \in 1..Len(put_msg') : message'.no < put_msg'[j].no
    BY <1>0, <1>2, <2>2 DEF AnnounceInv
  <2> QED
    BY <2>1, <2>2, SendingIs
<1>5. ASSUME NEW u \in Users, NEW i \in 1..Len(received'[u]), received'[u][i].from = NoUser
      PROVE  /\ received'[u][i].no <= announced'
             /\ \A j \in 1..Len(put_msg') : received'[u][i].no < put_msg'[j].no
             /\ Sending' => received'[u][i].no <= message'.no
  <2> DEFINE n == received'[u][i].no
  <2>1. ASSUME i \in 1..Len(received[u]), received'[u][i] = received[u][i]
        PROVE  /\ n \in Nat /\ n <= announced
               /\ \A j \in 1..Len(put_msg) : n < put_msg[j].no
               /\ Sending => n <= message.no
    <3>1. received[u][i] \in All
      BY <2>1, ElementIs DEF TypeOK, HistoryOK, All
    <3>2. n \in Nat
      BY <2>1, <3>1, Assumption DEF All, Messages, Announcements, NoMessage
    <3> QED
      BY <1>5, <2>1, <3>2 DEF AnnounceInv
  <2>2. ASSUME TransferSends, received'[u][i] = message
        PROVE  /\ n \in Nat /\ n <= announced
               /\ \A j \in 1..Len(put_msg) : n < put_msg[j].no
               /\ Sending => n <= message.no
    <3>1. CASE message = NoMessage
      BY <1>0, <2>2, <3>1 DEF NoMessage
    <3>2. CASE message # NoMessage
      <4>1. Sending
        BY <2>2, <3>2 DEF TransferSends, Sending
      <4> QED
        BY <1>0, <2>2, <4>1 DEF AnnounceInv
    <3> QED
      BY <3>1, <3>2
  <2>3. ASSUME BroadcastFrame, received'[u][i] = [from |-> caller, no |-> frames_read[caller]]
        PROVE  FALSE
    BY <1>0, <1>5, <2>3 DEF BroadcastFrame
  <2>4. /\ n \in Nat /\ n <= announced
        /\ \A j \in 1..Len(put_msg) : n < put_msg[j].no
        /\ Sending => n <= message.no
    BY <2>1, <2>2, <2>3, ReceivedIs, WrittenIs
  <2>5. n <= announced' /\ \A j \in 1..Len(put_msg') : n < put_msg'[j].no
    BY <1>2, <2>4
  <2>6. Sending' => n <= message'.no
    <3> HIDE DEF n
    <3>1. ASSUME TransferPops, Sending'
          PROVE  n <= message'.no
      BY <1>0, <1>3, <2>4, <3>1
    <3> QED
      BY <2>4, <3>1, SendingIs
  <2> QED
    BY <2>5, <2>6
<1> QED
  BY <1>1, <1>4, <1>5 DEF AnnounceInv

\* An announcement is sent to the users of the list in turn, once to each.
LEMMA SendingStep ==
  ASSUME TypeOK, UserInv, SeenInv, MutexInv, NumberInv, AnnounceInv, SendingInv, [Next]_vars,
         Sending'
  PROVE  /\ \A u \in Users : \A i \in 1..Len(received'[u]) :
              received'[u][i] = message' => i = Len(received'[u])
         /\ \A k \in 1..Len(user_vec') : ToReach(k)' =>
              \A i \in 1..Len(received'[user_vec'[k]]) : received'[user_vec'[k]][i] # message'
<1> DEFINE Last == \A u \in Users : \A i \in 1..Len(received[u]) :
                     received[u][i] = message => i = Len(received[u])
           Misses(k) == \A i \in 1..Len(received[user_vec[k]]) : received[user_vec[k]][i] # message
           MissesNow(k) ==
             \A i \in 1..Len(received'[user_vec'[k]]) : received'[user_vec'[k]][i] # message'
           Reaches(k) == index' <= k /\ (k <= user_count' \/ (tpc' = "send" /\ k = index'))
<1>0. /\ user_vec \in Seq(Users) /\ user_count \in 0..Len(user_vec) /\ user_count \in Nat
      /\ Len(user_vec) \in Nat /\ index \in Nat /\ index \in 1..Len(user_vec) + 1
      /\ \A k \in 1..Len(user_vec) : user_vec[k] \in Users
  BY ElementIs DEF TypeOK, TransferOK
<1>1. CASE TransferPops
  <2>1. 1 \in 1..Len(put_msg) /\ message' = put_msg[1] /\ put_msg[1] \in Announcements
    BY <1>1, PopIs, ElementIs DEF Sending, TypeOK, QueuesOK
  <2>2. received' = received /\ user_vec' = user_vec
    BY <1>1 DEF TransferPops
  <2>3. put_msg[1].from = NoUser /\ put_msg[1].no \in Nat
    BY <2>1, Assumption DEF Announcements
  <2>4. \A u \in Users : \A i \in 1..Len(received[u]) : received[u][i] # message'
    BY <2>1, <2>3 DEF AnnounceInv
  <2> QED
    BY <1>0, <2>2, <2>4
<1>2. CASE /\ Sending /\ message' = message
           /\ TransferSends \/ (index' = index /\ (tpc' = tpc \/ TransferSeesUser))
  <2>1. Last /\ \A k \in 1..Len(user_vec) : ToReach(k) => Misses(k)
    BY <1>2 DEF SendingInv
  <2>2. ~BroadcastFrame
    BY <1>2 DEF Sending, MutexInv, BroadcastFrame, SendMutexFree
  <2>3. CASE TransferSends
    <3> DEFINE v == user_vec[index]
    <3>1. /\ v \in Users /\ Written({v}, message) /\ tpc = "send" /\ tpc' = "loop"
          /\ index' = index + 1 /\ user_vec' = user_vec /\ user_count' = user_count
      BY <2>3, ReceivedIs DEF TransferSends
    <3>2. index \in 1..Len(user_vec) /\ ToReach(index)
      BY <1>0, <3>1 DEF SeenInv, ToReach
    <3>3. \A i \in 1..Len(received[v]) : received[v][i] # message
      BY <2>1, <3>2
    <3> HIDE DEF v
    <3>4. Last'
      <4> SUFFICES ASSUME NEW u \in Users, NEW i \in 1..Len(received'[u]),
                          received'[u][i] = message
                   PROVE  i = Len(received'[u])
        BY <1>2
      <4>1. CASE u = v
        BY <3>1, <3>3, <4>1, WrittenIs
      <4>2. CASE u # v
        <5>1. /\ i \in 1..Len(received[u]) /\ received'[u][i] = received[u][i]
              /\ Len(received[u]) \in Nat
          BY <3>1, <4>2, WrittenIs
        <5>2. u \notin {v}
          BY <4>2
        <5>3. Len(received'[u]) = Len(received[u]) + 0
          BY <3>1, <5>2 DEF Written
        <5>4. Len(received'[u]) = Len(received[u])
          BY <5>1, <5>3
        <5> QED
          BY <2>1, <5>1, <5>4
      <4> QED
        BY <4>1, <4>2
    <3>5. ASSUME NEW k \in 1..Len(user_vec'), Reaches(k)
          PROVE  MissesNow(k)
      <4>1. /\ k \in 1..Len(user_vec) /\ k \in 1..user_count /\ index \in 1..user_count
            /\ k # index /\ index <= k
        BY <1>0, <3>1, <3>2, <3>5
      <4>2. user_vec[k] # v /\ user_vec[k] \in Users
        BY <1>0, <4>1 DEF UserInv, v
      <4>3. Misses(k)
        BY <2>1, <4>1 DEF ToReach
      <4> QED
        BY <1>2, <3>1, <4>2, <4>3, WrittenIs
    <3> QED
      BY <3>4, <3>5 DEF ToReach
  <2>4. CASE UNCHANGED received
    <3>1. Last'
      BY <1>2, <2>1, <2>4
    <3>2. index' = index /\ (tpc' = tpc \/ TransferSeesUser)
      <4>1. ~TransferSends
        <5>1. ASSUME TransferSends
              PROVE  FALSE
          <6>1. LET v == user_vec[index]
                IN  Len(received'[v]) = Len(received[v]) + 1 /\ Len(received[v]) \in Nat
            BY <5>1, ReceivedIs, ElementIs DEF Written, TypeOK, HistoryOK
          <6> QED
            BY <2>4, <6>1
        <5> QED
          BY <5>1
      <4> QED
        BY <1>2, <4>1
    <3>3. ASSUME NEW k \in 1..Len(user_vec'), Reaches(k)
          PROVE  MissesNow(k)
      <4>1. CASE UNCHANGED <<user_vec, user_count, state>>
        <5>1. ToReach(k)
          BY <1>0, <3>2, <3>3, <4>1 DEF ToReach, TransferSeesUser
        <5> QED
          BY <1>2, <2>1, <2>4, <4>1, <5>1
      <4>2. ASSUME NEW u \in Users, Connect(u)
            PROVE  MissesNow(k)
        <5>1. /\ user_vec' = PushedBack(u) /\ user_count' = user_count + 1 /\ tpc' = tpc
              /\ received[u] = << >>
          BY <4>2 DEF Connect, transferVars, UserInv
        <5>2. CASE k = user_count + 1
          <6>1. user_vec'[k] = u
            BY <1>0, <5>1, <5>2, PushedBackIs
          <6> QED
            BY <2>4, <5>1, <6>1
        <5>3. CASE k # user_count + 1
          <6>1. k \in 1..Len(user_vec) /\ user_vec'[k] = user_vec[k]
            BY <1>0, <5>1, <5>3, PushedBackIs
          <6>2. ToReach(k)
            BY <1>0, <3>2, <3>3, <5>1, <5>3, <6>1 DEF ToReach
          <6> QED
            BY <1>2, <2>1, <2>4, <6>1, <6>2
        <5> QED
          BY <5>2, <5>3
      <4>3. ASSUME NEW u \in Users, Disconnect(u)
            PROVE  MissesNow(k)
        <5>1. PICK at \in 1..user_count :
                user_vec' = Erased(at) /\ user_count' = user_count - 1 /\ tpc' = tpc
          BY <4>3 DEF Disconnect, transferVars
        <5>2. /\ k \in 1..Len(user_vec)
              /\ \/ user_vec'[k] = user_vec[k]
                 \/ /\ k < user_count /\ k + 1 \in 1..user_count
                    /\ user_vec'[k] = user_vec[k + 1]
          BY <1>0, <5>1, ErasedIs
        <5>3. CASE user_vec'[k] = user_vec[k]
          <6>1. ToReach(k)
            BY <1>0, <3>2, <3>3, <5>1, <5>2 DEF ToReach
          <6> QED
            BY <1>2, <2>1, <2>4, <5>2, <5>3, <6>1
        <5>4. CASE k + 1 \in 1..user_count /\ user_vec'[k] = user_vec[k + 1]
          <6>1. ToReach(k + 1) /\ k + 1 \in 1..Len(user_vec)
            BY <1>0, <3>2, <3>3, <5>1, <5>2, <5>4 DEF ToReach
          <6> QED
            BY <1>2, <2>1, <2>4, <5>4, <6>1
        <5> QED
          BY <5>2, <5>3, <5>4
      <4> QED
        BY <4>1, <4>2, <4>3, WhoWrites
    <3> QED
      BY <3>1, <3>3 DEF ToReach
  <2> QED
    BY <2>2, <2>3, <2>4, WhoWrites
<1> QED
  BY <1>1, <1>2, SendingIs

\* Each message of a client is stored in one place, and found there while
\* get_msg has dropped nothing.
LEMMA ForwardStep ==
  ASSUME TypeOK, UserInv, SeenInv, NumberInv, ForwardInv, [Next]_vars
  PROVE  ForwardInv'
<1> USE DEF connVars, faceVars, transferVars
<1> DEFINE Later(m) == \/ \E i \in 1..Len(messages_in') : messages_in'[i] = m
                       \/ \E i \in 1..Len(get_msg') : get_msg'[i] = m
           Once == /\ \A i, j \in 1..Len(messages_in) :
                        messages_in[i] = messages_in[j] => i = j
                   /\ \A i, j \in 1..Len(get_msg) : get_msg[i] = get_msg[j] => i = j
                   /\ \A i \in 1..Len(messages_in), j \in 1..Len(get_msg) :
                        messages_in[i] # get_msg[j]
           Kept == Len(get_msg') <= MaxMsgs =>
                     Len(get_msg) <= MaxMsgs /\ \A m : Stored(m) => Later(m)
<1>0. /\ messages_in \in Seq(Messages) /\ get_msg \in Seq(Messages)
      /\ Len(messages_in) \in Nat /\ Len(get_msg) \in Nat
      /\ Len(messages_in') \in Nat /\ Len(get_msg') \in Nat
      /\ \A i \in 1..Len(messages_in) : messages_in[i] \in Messages
      /\ \A i \in 1..Len(get_msg) : get_msg[i] \in Messages
      /\ MaxMsgs \in Nat /\ NoUser \notin Users /\ Once
  BY ElementIs, Assumption, QueuesStep DEF TypeOK, QueuesOK, ForwardInv
<1>1. ASSUME UNCHANGED <<messages_in, get_msg>>
      PROVE  Once' /\ Kept
  BY <1>0, <1>1 DEF Stored
<1>2. ASSUME NEW u \in Users, ReceiveMessage(u)
      PROVE  Once' /\ Kept /\ Later([from |-> u, no |-> frames_read[u]])
  <2> DEFINE m == [from |-> u, no |-> frames_read[u]]
  <2>1. /\ messages_in' = Append(messages_in, m) /\ get_msg' = get_msg
        /\ Reading(u) /\ frames_read[u] \in Nat /\ m \in Messages
    BY <1>2 DEF ReceiveMessage, FrameCompletes, Reading, TypeOK, ConnectionsOK, Messages,
                NumberInv
  <2>2. ASSUME NEW n \in Messages, Numbered(n)
        PROVE  n # m
    BY <2>1, <2>2 DEF Numbered
  <2>3. /\ \A i \in 1..Len(messages_in) : messages_in[i] # m
        /\ \A i \in 1..Len(get_msg) : get_msg[i] # m
    BY <1>0, <2>2 DEF NumberInv
  <2> HIDE DEF m
  <2>4. /\ Len(messages_in') = Len(messages_in) + 1
        /\ \A i \in 1..Len(messages_in) :
             i \in 1..Len(messages_in') /\ messages_in'[i] = messages_in[i]
        /\ Len(messages_in) + 1 \in 1..Len(messages_in')
        /\ messages_in'[Len(messages_in) + 1] = m
        /\ \A i \in 1..Len(messages_in') :
             i \in 1..Len(messages_in) \/ i = Len(messages_in) + 1
    BY <1>0, <2>1, AppendIs
  <2>5. Once'
    BY <1>0, <2>1, <2>3, <2>4
  <2>6. Kept /\ Later(m)
    BY <2>1, <2>4 DEF Stored
  <2> QED
    BY <2>5, <2>6 DEF m
<1>3. ASSUME TransferForwards
      PROVE  Once' /\ Kept
  <2>1. \A i \in 1..Len(messages_in') :
          2 * i \in 1..Len(messages_in) /\ messages_in'[i] = messages_in[2 * i]
    BY <1>3, ForwardIs
  <2>2. PICK d \in Nat :
          /\ d > 0 => Len(get_msg') > MaxMsgs
          /\ \A i \in 1..Len(get_msg') :
               \/ i + d \in 1..Len(get_msg) /\ get_msg'[i] = get_msg[i + d]
               \/ /\ i + d > Len(get_msg)
                  /\ 2 * (i + d - Len(get_msg)) - 1 \in 1..Len(messages_in)
                  /\ get_msg'[i] = messages_in[2 * (i + d - Len(get_msg)) - 1]
          /\ d = 0 =>
               /\ \A i \in 1..Len(get_msg) : i \in 1..Len(get_msg') /\ get_msg'[i] = get_msg[i]
               /\ \A k \in 1..Len(messages_in) :
                    \/ \E i \in 1..Len(messages_in') : messages_in'[i] = messages_in[k]
                    \/ \E i \in 1..Len(get_msg') : get_msg'[i] = messages_in[k]
    BY <1>3, ForwardIs
  <2>3. \A i, j \in 1..Len(messages_in') : messages_in'[i] = messages_in'[j] => i = j
    BY <1>0, <2>1
  <2>4. \A i, j \in 1..Len(get_msg') : get_msg'[i] = get_msg'[j] => i = j
    <3> SUFFICES ASSUME NEW i \in 1..Len(get_msg'), NEW j \in 1..Len(get_msg'),
                        get_msg'[i] = get_msg'[j]
                 PROVE  i = j
      OBVIOUS
    <3>1. CASE i + d \in 1..Len(get_msg) /\ get_msg'[i] = get_msg[i + d]
      <4>1. j + d \in 1..Len(get_msg) /\ get_msg'[j] = get_msg[j + d]
        <5>1. ASSUME NEW k \in 1..Len(messages_in), get_msg'[j] = messages_in[k]
              PROVE  FALSE
          BY <1>0, <3>1, <5>1
        <5> QED
          BY <2>2, <5>1
      <4>2. i + d = j + d
        BY <1>0, <3>1, <4>1
      <4> QED
        BY <1>0, <4>2
    <3>2. CASE /\ i + d > Len(get_msg)
               /\ 2 * (i + d - Len(get_msg)) - 1 \in 1..Len(messages_in)
               /\ get_msg'[i] = messages_in[2 * (i + d - Len(get_msg)) - 1]
      <4>1. ~(j + d \in 1..Len(get_msg) /\ get_msg'[j] = get_msg[j + d])
        BY <1>0, <3>2
      <4>2. /\ 2 * (j + d - Len(get_msg)) - 1 \in 1..Len(messages_in)
            /\ get_msg'[j] = messages_in[2 * (j + d - Len(get_msg)) - 1]
        BY <2>2, <4>1
      <4>3. 2 * (i + d - Len(get_msg)) - 1 = 2 * (j + d - Len(get_msg)) - 1
        BY <1>0, <3>2, <4>2
      <4> QED
        BY <1>0, <4>3
    <3> QED
      BY <2>2, <3>1, <3>2
  <2>5. ASSUME NEW i \in 1..Len(messages_in'), NEW j \in 1..Len(get_msg')
        PROVE  messages_in'[i] # get_msg'[j]
    <3>1. 2 * i \in 1..Len(messages_in) /\ messages_in'[i] = messages_in[2 * i]
      BY <2>1
    <3>2. CASE j + d \in 1..Len(get_msg) /\ get_msg'[j] = get_msg[j + d]
      BY <1>0, <3>1, <3>2
    <3>3. CASE /\ 2 * (j + d - Len(get_msg)) - 1 \in 1..Len(messages_in)
               /\ get_msg'[j] = messages_in[2 * (j + d - Len(get_msg)) - 1]
      <4>1. 2 * i # 2 * (j + d - Len(get_msg)) - 1
        BY <1>0
      <4> QED
        BY <1>0, <3>1, <3>3, <4>1
    <3> QED
      BY <2>2, <3>2, <3>3
  <2>6. ASSUME Len(get_msg') <= MaxMsgs
        PROVE  Len(get_msg) <= MaxMsgs /\ \A m : Stored(m) => Later(m)
    <3>1. d = 0
      BY <1>0, <2>2, <2>6
    <3>2. Len(get_msg) = 0 \/ Len(get_msg) \in 1..Len(get_msg)
      BY <1>0
    <3>3. Len(get_msg) <= MaxMsgs
      BY <1>0, <2>2, <2>6, <3>1, <3>2
    <3>4. \A m : Stored(m) => Later(m)
      BY <2>2, <3>1 DEF Stored
    <3> QED
      BY <3>3, <3>4
  <2> QED
    BY <2>3, <2>4, <2>5, <2>6
<1>4. Once' /\ Kept
  BY <1>1, <1>2, <1>3, WhoWrites
<1>5. ASSUME Len(get_msg') <= MaxMsgs, NEW u \in Users, NEW i \in 1..Len(received'[u]),
             received'[u][i].from # NoUser
      PROVE  Later(received'[u][i])
  <2>1. ASSUME i \in 1..Len(received[u]), received'[u][i] = received[u][i]
        PROVE  Stored(received'[u][i])
    BY <1>4, <1>5, <2>1 DEF ForwardInv
  <2>2. ASSUME BroadcastFrame, received'[u][i] = [from |-> caller, no |-> frames_read[caller]]
        PROVE  Stored(received'[u][i])
    BY <1>4, <1>5, <2>2 DEF ForwardInv, BroadcastFrame
  <2>3. ASSUME received'[u][i] = message, message \in Announcements \union {NoMessage}
        PROVE  FALSE
    BY <1>5, <2>3 DEF Announcements, NoMessage
  <2>4. Stored(received'[u][i])
    BY <2>1, <2>2, <2>3, ReceivedIs, WrittenIs
  <2> QED
    BY <1>4, <1>5, <2>4
<1>6. ASSUME Len(get_msg') <= MaxMsgs, caller' # NoUser
      PROVE  Later([from |-> caller', no |-> frames_read'[caller']])
  <2>1. CASE UNCHANGED caller
    <3>1. UNCHANGED frames_read
      BY <1>6, <2>1, WhoWrites
    <3>2. Stored([from |-> caller, no |-> frames_read[caller]])
      BY <1>4, <1>6, <2>1 DEF ForwardInv
    <3> QED
      BY <1>4, <1>6, <2>1, <3>1, <3>2
  <2>2. CASE BroadcastFrame
    BY <1>6, <2>2 DEF BroadcastFrame
  <2>3. ASSUME NEW u \in Users, ReceiveMessage(u)
        PROVE  Later([from |-> caller', no |-> frames_read'[caller']])
    BY <1>2, <2>3 DEF ReceiveMessage, FrameCompletes
  <2> QED
    BY <2>1, <2>2, <2>3, WhoWrites
<1> QED
  BY <1>4, <1>5, <1>6 DEF ForwardInv, Stored

-----------------------------------------------------------------------------
(* The order of what is received, and the theorems.                        *)

\* What is written is written to users that do not have it, and only as the
\* last message of the others; an empty message may be written at any time.
LEMMA NewIs ==
  ASSUME TypeOK, UserInv, SeenInv, NumberInv, SendingInv, [Next]_vars,
         ~UNCHANGED received
  PROVE  \E to \in SUBSET Users, m \in All :
           /\ Written(to, m)
           /\ \/ BroadcastFrame /\ m = [from |-> caller, no |-> frames_read[caller]]
              \/ TransferSends /\ m = message
           /\ m # NoMessage =>
                /\ \A u \in to : \A i \in 1..Len(received[u]) : received[u][i] # m
                /\ \A u \in Users : \A i \in 1..Len(received[u]) :
                     received[u][i] = m => i = Len(received[u])
<1>1. CASE BroadcastFrame
  <2> DEFINE m == [from |-> caller, no |-> frames_read[caller]]
             to == Listed \ {caller}
  <2>1. m \in All /\ Written(to, m) /\ to \in SUBSET Users
    BY <1>1, ReceivedIs, ElementIs DEF All, Listed, TypeOK, TransferOK
  <2>2. m.from = caller /\ m.no = frames_read[caller] /\ caller # NoUser
        /\ frames_read[caller] \in Nat
    BY <1>1, ReceivedIs DEF BroadcastFrame, TypeOK, ConnectionsOK
  <2>3. ASSUME NEW u \in Users, NEW i \in 1..Len(received[u])
        PROVE  received[u][i] # m
    BY <2>2 DEF NumberInv
  <2> HIDE DEF m, to
  <2>4. BroadcastFrame /\ m = [from |-> caller, no |-> frames_read[caller]]
    BY <1>1 DEF m
  <2>5. \A u \in to : \A i \in 1..Len(received[u]) : received[u][i] # m
    BY <2>1, <2>3
  <2>6. \A u \in Users : \A i \in 1..Len(received[u]) :
          received[u][i] = m => i = Len(received[u])
    BY <2>3
  <2> QED
    BY <2>1, <2>4, <2>5, <2>6
<1>2. CASE TransferSends
  <2> DEFINE v == user_vec[index]
  <2>1. message \in All /\ Written({v}, message) /\ v \in Users
    BY <1>2, ReceivedIs DEF All
  <2>2. ASSUME message # NoMessage
        PROVE  /\ \A i \in 1..Len(received[v]) : received[v][i] # message
               /\ \A u \in Users : \A i \in 1..Len(received[u]) :
                    received[u][i] = message => i = Len(received[u])
    <3>1. tpc = "send" /\ Sending
      BY <1>2, <2>2 DEF TransferSends, Sending
    <3>2. index \in 1..Len(user_vec) /\ index <= index
      BY <3>1, ElementIs DEF SeenInv, TypeOK, TransferOK
    <3>3. ToReach(index)
      BY <3>1, <3>2 DEF ToReach
    <3> QED
      BY <3>1, <3>2, <3>3 DEF SendingInv
  <2> HIDE DEF v
  <2>3. {v} \in SUBSET Users
    BY <2>1
  <2>4. message # NoMessage =>
          \A u \in {v} : \A i \in 1..Len(received[u]) : received[u][i] # message
    BY <2>2
  <2> QED
    BY <1>2, <2>1, <2>2, <2>3, <2>4
<1> QED
  BY <1>1, <1>2, WhoWrites

\* Nothing changes places: two messages come in one order for all users.
LEMMA OneOrderStep ==
  ASSUME TypeOK, UserInv, SeenInv, NumberInv, SendingInv, OneOrder, [Next]_vars
  PROVE  OneOrder'
<1>1. CASE UNCHANGED received
  BY <1>1 DEF OneOrder, Before
<1>2. CASE ~UNCHANGED received
  <2>1. PICK to \in SUBSET Users, m \in All :
          /\ Written(to, m)
          /\ m # NoMessage =>
               /\ \A w \in to : \A k \in 1..Len(received[w]) : received[w][k] # m
               /\ \A w \in Users : \A k \in 1..Len(received[w]) :
                    received[w][k] = m => k = Len(received[w])
    BY <1>2, NewIs
  <2> SUFFICES ASSUME NEW u \in Users, NEW v \in Users,
                      NEW i \in 1..Len(received'[u]), NEW j \in 1..Len(received'[u]),
                      i < j, NoMessage \notin {received'[u][i], received'[u][j]}
               PROVE  /\ \A p, q \in 1..Len(received'[v]) :
                           p < q => ~(/\ received'[v][p] = received'[u][j]
                                      /\ received'[v][q] = received'[u][i])
                      /\ received'[u][i] # received'[u][j]
    BY DEF OneOrder, Before
  <2> DEFINE a == received'[u][i]
             b == received'[u][j]
  <2>2. /\ Len(received[u]) \in Nat /\ Len(received[v]) \in Nat
        /\ Len(received'[u]) \in Nat /\ Len(received'[v]) \in Nat
    <3>1. HistoryOK'
      BY HistoryStep
    <3> QED
      BY <3>1, ElementIs DEF TypeOK, HistoryOK
  <2>3. a # NoMessage /\ b # NoMessage
    OBVIOUS
  <2>4. i \in 1..Len(received[u]) /\ received[u][i] = a
    BY <2>1, <2>2, WrittenIs
  <2>5. CASE j \in 1..Len(received[u]) /\ received[u][j] = b
    <3>1. /\ ~Before(received[v], b, a)
          /\ a # b
      BY <2>3, <2>4, <2>5 DEF OneOrder
    <3>2. ASSUME NEW p \in 1..Len(received'[v]), NEW q \in 1..Len(received'[v]), p < q,
                 received'[v][p] = b, received'[v][q] = a
          PROVE  FALSE
      <4>1. p \in 1..Len(received[v]) /\ received[v][p] = b
        BY <2>1, <2>2, <3>2, WrittenIs
      <4>2. CASE q \in 1..Len(received[v]) /\ received[v][q] = a
        BY <3>1, <3>2, <4>1, <4>2 DEF Before
      <4>3. CASE a = m
        BY <2>1, <2>2, <2>3, <2>4, <2>5, <4>3
      <4> QED
        BY <2>1, <3>2, <4>2, <4>3, WrittenIs
    <3> QED
      BY <3>1, <3>2
  <2>6. CASE u \in to /\ b = m
    <3>1. a # b
      BY <2>1, <2>3, <2>4, <2>6
    <3>2. ASSUME NEW p \in 1..Len(received'[v]), NEW q \in 1..Len(received'[v]), p < q,
                 received'[v][p] = b, received'[v][q] = a
          PROVE  FALSE
      <4>1. p \in 1..Len(received[v]) /\ received[v][p] = b
        BY <2>1, <2>2, <3>2, WrittenIs
      <4>2. p = Len(received[v])
        BY <2>1, <2>3, <2>6, <4>1
      <4>3. a = m
        BY <2>1, <2>2, <3>2, <4>2, WrittenIs
      <4> QED
        BY <2>6, <3>1, <4>3
    <3> QED
      BY <3>1, <3>2
  <2> QED
    BY <2>1, <2>5, <2>6, WrittenIs
<1> QED
  BY <1>1, <1>2

\* A message is newer than those of its origin that were written before.
LEMMA OriginsStep ==
  ASSUME TypeOK, UserInv, SeenInv, NumberInv, AnnounceInv, SendingInv, OriginsInOrder,
         [Next]_vars
  PROVE  OriginsInOrder'
<1>1. CASE UNCHANGED received
  BY <1>1 DEF OriginsInOrder
<1>2. CASE ~UNCHANGED received
  <2>1. PICK to \in SUBSET Users, m \in All :
          /\ Written(to, m)
          /\ \/ BroadcastFrame /\ m = [from |-> caller, no |-> frames_read[caller]]
             \/ TransferSends /\ m = message
          /\ m # NoMessage =>
               \A w \in to : \A k \in 1..Len(received[w]) : received[w][k] # m
    BY <1>2, NewIs
  <2> SUFFICES ASSUME NEW u \in Users, NEW i \in 1..Len(received'[u]),
                      NEW j \in 1..Len(received'[u]), i < j,
                      received'[u][i].from = received'[u][j].from,
                      NoMessage \notin {received'[u][i], received'[u][j]}
               PROVE  received'[u][i].no < received'[u][j].no
    BY DEF OriginsInOrder
  <2>2. Len(received[u]) \in Nat /\ Len(received'[u]) \in Nat
    <3>1. HistoryOK'
      BY HistoryStep
    <3> QED
      BY <3>1, ElementIs DEF TypeOK, HistoryOK
  <2>3. i \in 1..Len(received[u]) /\ received'[u][i] = received[u][i]
    BY <2>1, <2>2, WrittenIs
  <2>4. CASE j \in 1..Len(received[u]) /\ received'[u][j] = received[u][j]
    BY <2>3, <2>4 DEF OriginsInOrder
  <2>5. CASE u \in to /\ received'[u][j] = m
    <3>1. CASE BroadcastFrame /\ m = [from |-> caller, no |-> frames_read[caller]]
      BY <2>3, <2>5, <3>1 DEF NumberInv, BroadcastFrame
    <3>2. CASE TransferSends /\ m = message
      <4> DEFINE n == received[u][i]
      <4>1. Sending /\ message \in Announcements
        BY <2>5, <3>2 DEF Sending, TransferSends, TypeOK, TransferOK
      <4>2. n.from = NoUser /\ message = [from |-> NoUser, no |-> message.no]
            /\ message.no \in Nat
        BY <2>3, <2>5, <3>2, <4>1, Assumption DEF Announcements
      <4>3. n.no <= message.no
        BY <2>3, <4>1, <4>2 DEF AnnounceInv
      <4>4. n \in All /\ n # NoMessage /\ n # message
        BY <2>1, <2>3, <2>5, <3>2, <4>1, ElementIs DEF TypeOK, HistoryOK, All
      <4>5. n \in Announcements
        BY <4>2, <4>4, Assumption DEF All, Messages
      <4>6. n = [from |-> NoUser, no |-> n.no] /\ n.no \in Nat
        BY <4>5, Assumption DEF Announcements
      <4>7. n.no # message.no
        BY <4>2, <4>4, <4>6
      <4> QED
        BY <2>3, <2>5, <3>2, <4>2, <4>3, <4>6, <4>7
    <3> QED
      BY <2>1, <3>1, <3>2
  <2> QED
    BY <2>1, <2>4, <2>5, WrittenIs
<1> QED
  BY <1>1, <1>2

\* The first state has the invariant.
LEMMA InitInv == Init => IInv
<1> SUFFICES ASSUME Init
             PROVE  IInv
  OBVIOUS
<1>1. /\ user_vec = << >> /\ user_count = 0 /\ messages_in = << >> /\ put_msg = << >>
      /\ get_msg = << >> /\ announced = 0 /\ tpc = "top" /\ fpc = "idle" /\ index = 1
      /\ message = NoMessage /\ caller = NoUser /\ send_mutex = "free" /\ owed = {}
      /\ \A u \in Users : /\ received[u] = << >> /\ step[u] = "ZERO" /\ ~pending[u]
                          /\ frames_read[u] = 0 /\ state[u] = "new"
  BY DEF Init
<1>2. MaxMsgs \in Nat /\ MaxAnnounced \in Nat
  BY Assumption
<1>3. /\ << >> \in Seq(Messages) /\ << >> \in Seq(Announcements) /\ << >> \in Seq(Users)
      /\ << >> \in Seq(Messages \union Announcements \union {NoMessage}) /\ Len(<< >>) = 0
  BY EmptySeq
<1>4. TypeOK
  <2>1. ConnectionsOK
    BY DEF Init, ConnectionsOK
  <2>2. QueuesOK
    <3>1. 0 <= MaxMsgs + 1 /\ 0 \in 0..MaxAnnounced
      BY <1>2
    <3>2. Len(get_msg) = 0 /\ Len(put_msg) = 0
      BY <1>1, <1>3
    <3> QED
      BY <1>1, <1>3, <3>1, <3>2 DEF QueuesOK
  <2>3. TransferOK
    <3>1. ready_to_send \in BOOLEAN
      BY Zenon DEF Init
    <3>2. index \in 1..Len(user_vec) + 1
      BY <1>1, <1>3
    <3>3. user_count \in 0..Len(user_vec)
      BY <1>1, <1>3
    <3> QED
      BY <1>1, <1>3, <3>1, <3>2, <3>3 DEF TransferOK
  <2>4. HistoryOK
    BY <1>3 DEF Init, HistoryOK
  <2> QED
    BY <2>1, <2>2, <2>3, <2>4 DEF TypeOK
<1>5. UserInv /\ SeenInv /\ MutexInv
  BY <1>1, <1>2, <1>3 DEF UserInv, SeenInv, MutexInv
<1>6. PreemptInv /\ NumberInv
  BY <1>1, <1>3, Assumption DEF PreemptInv, NumberInv, Reading
<1>7. AnnounceInv /\ SendingInv /\ ForwardInv
  BY <1>1, <1>2, <1>3 DEF AnnounceInv, SendingInv, ForwardInv, Sending
<1>8. OneOrder /\ OriginsInOrder
  BY <1>1, <1>3 DEF OneOrder, OriginsInOrder
<1> QED
  BY <1>4, <1>5, <1>6, <1>7, <1>8 DEF IInv

\* Every step keeps the invariant.
LEMMA NextInv == IInv /\ [Next]_vars => IInv'
<1> SUFFICES ASSUME IInv, [Next]_vars
             PROVE  IInv'
  OBVIOUS
<1> USE DEF IInv
<1>1. TypeOK'
  BY ConnectionsStep, QueuesStep, TransferStep, HistoryStep DEF TypeOK
<1>2. SeenInv'
  BY QueuesStep, TransferStep DEF SeenInv
<1>3. UserInv' /\ MutexInv' /\ PreemptInv' /\ NumberInv'
  BY UserStep, MutexStep, PreemptStep, NumberStep
<1>4. AnnounceInv' /\ ForwardInv'
  BY AnnounceStep, ForwardStep
<1>5. SendingInv'
  BY SendingStep DEF SendingInv
<1>6. OneOrder' /\ OriginsInOrder'
  BY OneOrderStep, OriginsStep
<1> QED
  BY <1>1, <1>2, <1>3, <1>4, <1>5, <1>6

\* The invariant holds in every reachable state of the hub.
THEOREM Invariance == Spec => []IInv
<1>1. Init => IInv
  BY InitInv
<1>2. IInv /\ [Next]_vars => IInv'
  BY NextInv
<1> QED
  BY <1>1, <1>2, PTL DEF Spec

\* Every variable keeps its type: the transfer thread reads within the memory
\* of user_vec, and the two queues it shares stay within one of their limit.
THEOREM TypeCorrect == Spec => []TypeOK
<1>1. IInv => TypeOK
  BY DEF IInv
<1> QED
  BY <1>1, Invariance, PTL

\* All users see the broadcasts of both threads in one order.
THEOREM OneOrderHolds == Spec => []OneOrder
<1>1. IInv => OneOrder
  BY DEF IInv
<1> QED
  BY <1>1, Invariance, PTL

\* A user gets the messages of each origin in the order they were made.
THEOREM OriginsInOrderHolds == Spec => []OriginsInOrder
<1>1. IInv => OriginsInOrder
  BY DEF IInv
<1> QED
  BY <1>1, Invariance, PTL

\* A connection goes on without a request only after a broadcast to it.
THEOREM OnlyBroadcastsPreemptHolds == Spec => []OnlyBroadcastsPreempt
<1>1. IInv => OnlyBroadcastsPreempt
  BY DEF IInv, PreemptInv, OnlyBroadcastsPreempt
<1> QED
  BY <1>1, Invariance, PTL

\* A message of a client is forwarded once, and none is lost below the limit.
THEOREM ForwardedOnceHolds == Spec => []ForwardedOnce
<1>1. IInv => ForwardedOnce
  <2> SUFFICES ASSUME IInv
               PROVE  ForwardedOnce
    OBVIOUS
  <2> DEFINE all == messages_in \o get_msg
             n == Len(messages_in)
  <2>1. /\ messages_in \in Seq(Messages) /\ get_msg \in Seq(Messages)
        /\ n \in Nat /\ Len(get_msg) \in Nat
    BY ElementIs DEF IInv, TypeOK, QueuesOK
  <2>2. /\ Len(all) = n + Len(get_msg)
        /\ \A i \in 1..Len(all) : all[i] = IF i <= n THEN messages_in[i] ELSE get_msg[i - n]
    BY <2>1, ConcatProperties
  <2> HIDE DEF all, n
  <2>3. \A i \in 1..Len(all) :
          \/ i \in 1..n /\ all[i] = messages_in[i]
          \/ i - n \in 1..Len(get_msg) /\ all[i] = get_msg[i - n]
    BY <2>1, <2>2 DEF n
  <2>4. /\ \A i \in 1..n : \E k \in 1..Len(all) : all[k] = messages_in[i]
        /\ \A i \in 1..Len(get_msg) : \E k \in 1..Len(all) : all[k] = get_msg[i]
    <3> HIDE DEF n
    <3>1. \A i \in 1..n : i \in 1..Len(all) /\ i <= n
      BY <2>1, <2>2
    <3>2. \A i \in 1..Len(get_msg) : \E k \in 1..Len(all) : k - n = i /\ ~(k <= n)
      <4>1. \A i \in 1..Len(get_msg) : n + i \in 1..Len(all) /\ (n + i) - n = i /\ ~(n + i <= n)
        BY <2>1, <2>2
      <4> QED
        BY <4>1
    <3>3. \A i \in 1..n : \E k \in 1..Len(all) : all[k] = messages_in[i]
      BY <2>2, <3>1
    <3>4. \A i \in 1..Len(get_msg) : \E k \in 1..Len(all) : all[k] = get_msg[i]
      BY <2>2, <3>2
    <3> QED
      BY <3>3, <3>4
  <2>5. \A i, j \in 1..Len(all) : all[i] = all[j] => i = j
    <3> SUFFICES ASSUME NEW i \in 1..Len(all), NEW j \in 1..Len(all), all[i] = all[j]
                 PROVE  i = j
      OBVIOUS
    <3>1. ForwardInv
      BY DEF IInv
    <3>2. CASE i \in 1..n /\ all[i] = messages_in[i]
      <4>1. j \in 1..n /\ all[j] = messages_in[j]
        BY <2>3, <3>1, <3>2 DEF ForwardInv, n
      <4> QED
        BY <3>1, <3>2, <4>1 DEF ForwardInv, n
    <3>3. CASE i - n \in 1..Len(get_msg) /\ all[i] = get_msg[i - n]
      <4>1. j - n \in 1..Len(get_msg) /\ all[j] = get_msg[j - n]
        BY <2>3, <3>1, <3>3 DEF ForwardInv, n
      <4>2. i - n = j - n
        BY <3>1, <3>3, <4>1 DEF ForwardInv
      <4> QED
        BY <2>1, <2>2, <4>2
    <3> QED
      BY <2>3, <3>2, <3>3
  <2>6. ASSUME Len(get_msg) <= MaxMsgs, NEW u \in Users, NEW v \in Users,
               NEW i \in 1..Len(received[u]), received[u][i].from = v
        PROVE  \E j \in 1..Len(all) : all[j] = received[u][i]
    <3>1. Stored(received[u][i])
      BY <2>6, Assumption DEF IInv, ForwardInv
    <3> QED
      BY <2>4, <3>1 DEF Stored, n
  <2> QED
    BY <2>5, <2>6 DEF ForwardedOnce, all
<1> QED
  BY <1>1, Invariance, PTL
=============================================================================
