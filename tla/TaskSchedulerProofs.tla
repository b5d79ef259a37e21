------------------------ MODULE TaskSchedulerProofs ------------------------
(***************************************************************************)
(* Proofs about TaskScheduler, for every number of posting threads, every  *)
(* capacity of the ring buffer and of the pipe, and every interval.        *)
(***************************************************************************)
EXTENDS TaskScheduler, SequenceTheorems, WellFoundedInduction, TLAPS

-----------------------------------------------------------------------------
(* The inductive invariant.                                                *)

\* A thread between Lock and the end of AddTriggerEvent holds mutex_, and has
\* posted something.
MutexInv ==
  \A p \in Producers :
    /\ ppc[p] \in {"push", "count", "write"} <=> mutex = p
    /\ ppc[p] # "idle" => posts[p] \in 1..MaxPosts

\* Pop has moved get_pos_ on and num_datas_ not yet.
Popped == IF lpc = "release" THEN 1 ELSE 0

\* Push has moved put_pos_ on and num_datas_ not yet.
IsStored == \E p \in Producers : ppc[p] = "count"

\* The slot i places behind slot 0.
Slot(i) == IF i < Capacity THEN i ELSE i - Capacity

\* The slot behind those that are counted.
Behind == Slot(get_pos + num_datas - Popped)

\* The two positions and the counter agree, up to the halves of a push and of a
\* pop that are under way: an element that is stored and not counted lies behind
\* the counted ones, and one that is taken and not released is still counted.
RingInv ==
  /\ lpc = "release" => num_datas > 0
  /\ put_pos = IF IsStored THEN Add(Behind) ELSE Behind
  /\ \A p \in Producers :
       ppc[p] = "count" => num_datas < Capacity /\ buffer[Behind] = <<p, posts[p]>>

\* The slots that are counted hold callbacks, and so does what Pop moved out.
FilledInv ==
  /\ lpc = "release" => taken \in Events
  /\ \A i \in 0..(num_datas - Popped - 1) : buffer[Slot(get_pos + i)] \in Events

\* Between its last look at the flag and the end of its wait the loop has a byte
\* in its pipe, or will be given one, when it was told to stop; likewise
\* between its last look at the queue and the end of its wait when something
\* is queued.
WakeInv ==
  /\ lpc \in {"timers", "wait"} /\ num_datas > 0 =>
       pipe > 0 \/ \E p \in Producers : ppc[p] = "write"
  /\ lpc \in {"pop", "release", "callback", "size", "timers", "wait"} /\ is_shutdown =>
       pipe > 0 \/ spc = "write"

IInv == TypeOK /\ MutexInv /\ RingInv /\ FilledInv /\ WakeInv
-----------------------------------------------------------------------------
(* Lemmas about the operators.                                             *)

\* RingBuffer::add moves a position one slot on, around the end of the ring.
LEMMA AddIs ==
  ASSUME NEW pos \in Slots
  PROVE  /\ Add(pos) = (IF pos + 1 = Capacity THEN 0 ELSE pos + 1)
         /\ Add(pos) \in Slots
  BY Assumption DEF Add, Slots

\* The index expressions of the ring buffer wrap around at most once.
LEMMA SlotIs ==
  ASSUME NEW i \in 0..(2 * Capacity - 1)
  PROVE  i % Capacity = Slot(i) /\ Slot(i) \in Slots
  BY Assumption DEF Slot, Slots

\* A set of natural numbers has a least element.
LEMMA LeastNumber ==
  ASSUME NEW S \in SUBSET Nat, S # {}
  PROVE  \E n \in S : \A m \in S : n <= m
<1> DEFINE Less == {ss \in Nat \X Nat : ss[1] < ss[2]}
<1>1. IsWellFoundedOn(Less, Nat)
  BY NatLessThanWellFounded DEF OpToRel
<1>2. PICK n \in S : \A m \in S : <<m, n>> \notin Less
  <2> HIDE DEF Less
  <2> QED
    BY <1>1, WFMin
<1>3. ASSUME NEW m \in S
      PROVE  n <= m
  <2>1. m \in Nat /\ n \in Nat
    OBVIOUS
  <2>2. ~(m < n)
    BY <1>2, <2>1
  <2> QED
    BY <2>1, <2>2
<1> QED
  BY <1>3

\* The first timer exists, whatever timers there are.
LEMMA FirstIs ==
  ASSUME NEW ts \in SUBSET [due : Nat, id : Nat \ {0}], ts # {}
  PROVE  First(ts) \in ts
<1> DEFINE dues == {t.due : t \in ts}
<1>1. PICK d \in dues : \A e \in dues : d <= e
  <2>1. dues \subseteq Nat /\ dues # {}
    OBVIOUS
  <2> HIDE DEF dues
  <2> QED
    BY <2>1, LeastNumber
<1> DEFINE ids == {t.id : t \in {u \in ts : u.due = d}}
<1>2. PICK n \in ids : \A m \in ids : n <= m
  <2>1. ids \subseteq Nat /\ ids # {}
    BY <1>1
  <2> HIDE DEF ids
  <2> QED
    BY <2>1, LeastNumber
<1>3. PICK t \in ts : t.due = d /\ t.id = n
  BY <1>2
<1>4. ASSUME NEW u \in ts
      PROVE  t.due < u.due \/ (t.due = u.due /\ t.id <= u.id)
  <2>1. d <= u.due /\ d \in Nat /\ u.due \in Nat /\ t.id \in Nat
    BY <1>1
  <2>2. u.due = d => n <= u.id
    BY <1>2
  <2> QED
    BY <1>3, <2>1, <2>2
<1> QED
  BY <1>3, <1>4 DEF First

-----------------------------------------------------------------------------
(* The invariant, one part at a time.                                      *)

\* Every step of a poster, of the loop, of a timer and of Stop keeps the types.
LEMMA TypeStep ==
  ASSUME TypeOK, MutexInv, RingInv, FilledInv, [Next]_vars
  PROVE  TypeOK'
<1> USE DEF TypeOK, ringVars, postVars, loopVars, stopVars, timerVars, Goto
<1>1. ASSUME NEW p \in Producers, CheckSize(p)
      PROVE  TypeOK'
  <2>1. posts' \in [Producers -> 0..MaxPosts] /\ ppc' \in [Producers -> {"idle", "lock", "push", "count", "write"}]
    BY <1>1, Assumption DEF CheckSize
  <2>2. timers' \subseteq [due : Nat, id : Nat \ {0}] /\ last_timer_id' \in Nat /\ time_point' \in Nat
    BY <1>1, Assumption DEF CheckSize, Refused, AddTimer
  <2> QED
    BY <1>1, <2>1, <2>2 DEF CheckSize
<1>2. ASSUME NEW p \in Producers, Posting(p)
      PROVE  TypeOK'
  <2>1. CASE Lock(p)
    BY <2>1 DEF Lock
  <2>2. CASE Store(p)
    <3>1. <<p, posts[p]>> \in Events
      BY <2>2, Assumption DEF Store, MutexInv, Events
    <3>2. Add(put_pos) \in Slots
      BY AddIs
    <3>3. \/ UNCHANGED <<buffer, put_pos>>
          \/ /\ buffer' = [buffer EXCEPT ![put_pos] = <<p, posts[p]>>]
             /\ put_pos' = Add(put_pos)
      BY <2>2 DEF Store
    <3>4. buffer' \in [Slots -> Events \union {NoEvent}] /\ put_pos' \in Slots
      BY <3>1, <3>2, <3>3
    <3>5. ppc' \in [Producers -> {"idle", "lock", "push", "count", "write"}]
      BY <2>2 DEF Store
    <3> QED
      BY <2>2, <3>4, <3>5 DEF Store
  <2>3. CASE Count(p)
    BY <2>3, Assumption DEF Count, RingInv
  <2>4. CASE Write(p)
    BY <2>4, Assumption DEF Write, PipeAfterWrite
  <2> QED
    BY <1>2, <2>1, <2>2, <2>3, <2>4 DEF Posting
<1>3. CASE LoopStep
  <2>1. CASE StartLoop \/ While \/ PopNothing \/ CallbackReturns
    BY <2>1 DEF StartLoop, While, PopNothing, CallbackReturns
  <2>2. CASE Pop
    <3>1. Add(get_pos) \in Slots
      BY AddIs
    <3> QED
      BY <2>2, <3>1 DEF Pop
  <2>3. CASE Release
    <3>1. num_datas' \in 0..Capacity
      BY <2>3, Assumption DEF Release, RingInv
    <3>2. taken \in Events
      BY <2>3 DEF Release, FilledInv
    <3> QED
      BY <2>3, <3>1, <3>2 DEF Release
  <2>4. CASE CheckMore \/ FireTimer
    <3>1. now \in Nat
      BY Assumption
    <3>2. /\ lpc' \in {"pop", "timers"} /\ time_point' \in Nat
          /\ timers' \subseteq timers
          /\ UNCHANGED <<ringVars, pipe, postVars, taken, batch, deadline, ran, stopVars,
                         last_timer_id, now>>
      BY <2>4, <3>1 DEF CheckMore, FireTimer
    <3> QED
      BY <3>2
  <2>5. CASE TimersDone
    <3>1. timers # {} => First(timers).due \in Nat
      BY FirstIs
    <3>2. deadline' \in Nat \union {Never}
      BY <2>5, <3>1 DEF TimersDone, TimeRemaining
    <3> QED
      BY <2>5, <3>2 DEF TimersDone
  <2>6. CASE WaitReturns \/ SocketHandled \/ BatchDone
    BY <2>6 DEF WaitReturns, SocketHandled, BatchDone, Ready
  <2>7. CASE WakeReads
    BY <2>7, Assumption DEF WakeReads
  <2> QED
    BY <1>3, <2>1, <2>2, <2>3, <2>4, <2>5, <2>6, <2>7 DEF LoopStep
<1>4. CASE SocketReady
  BY <1>4 DEF SocketReady, Ready
<1>5. CASE Stop \/ Tick
  <2>1. is_shutdown' \in BOOLEAN
    BY <1>5, Zenon DEF Stop, Tick
  <2>2. UNCHANGED <<ringVars, pipe, postVars, loopVars, timerVars>>
    BY <1>5 DEF Stop, Tick
  <2>3. spc' \in {"idle", "write", "done"} /\ now' \in 0..MaxTime
    BY <1>5, Assumption DEF Stop, Tick
  <2> QED
    BY <2>1, <2>2, <2>3
<1>6. CASE StopWrites
  BY <1>6, Assumption DEF StopWrites, PipeAfterWrite
<1>7. CASE UNCHANGED vars
  BY <1>7 DEF vars
<1> QED
  BY <1>1, <1>2, <1>3, <1>4, <1>5, <1>6, <1>7 DEF Next

\* mutex_ has one holder: the thread between Lock and the end of the section.
LEMMA MutexStep ==
  ASSUME TypeOK, MutexInv, [Next]_vars
  PROVE  MutexInv'
<1> USE DEF TypeOK, MutexInv, ringVars, postVars, loopVars, stopVars, timerVars
<1>1. ASSUME UNCHANGED postVars
      PROVE  MutexInv'
  BY <1>1
<1>2. ASSUME NEW p \in Producers, CheckSize(p)
      PROVE  MutexInv'
  <2>1. posts[p] + 1 \in 1..MaxPosts
    BY <1>2, Assumption DEF CheckSize
  <2> QED
    BY <1>2, <2>1 DEF CheckSize
<1>3. ASSUME NEW p \in Producers, Posting(p)
      PROVE  MutexInv'
  <2>1. NoThread \notin Producers
    BY Assumption
  <2>2. CASE Lock(p)
    BY <2>1, <2>2 DEF Lock
  <2>3. CASE Store(p)
    BY <2>3 DEF Store
  <2>4. CASE Count(p)
    BY <2>4 DEF Count
  <2>5. CASE Write(p)
    BY <2>1, <2>5 DEF Write
  <2> QED
    BY <1>3, <2>2, <2>3, <2>4, <2>5 DEF Posting
<1>4. CASE LoopStep
  BY <1>1, <1>4 DEF LoopStep, StartLoop, While, Pop, PopNothing, Release, CallbackReturns,
                    CheckMore, FireTimer, TimersDone, WaitReturns, WakeReads,
                    SocketHandled, BatchDone
<1>5. CASE SocketReady \/ Stop \/ StopWrites \/ Tick
  BY <1>1, <1>5 DEF SocketReady, Stop, StopWrites, Tick
<1>6. CASE UNCHANGED vars
  BY <1>1, <1>6 DEF vars
<1> QED
  BY <1>2, <1>3, <1>4, <1>5, <1>6 DEF Next

\* Push and Pop each move a position first and the counter later; whatever runs
\* in between, the positions and the counter agree again when both are done.
LEMMA RingStep ==
  ASSUME TypeOK, MutexInv, RingInv, [Next]_vars
  PROVE  RingInv'
<1> USE DEF ringVars, postVars, loopVars, stopVars, timerVars, Goto
<1>0. /\ num_datas \in 0..Capacity /\ get_pos \in Slots /\ put_pos \in Slots
      /\ Capacity \in Nat \ {0}
      /\ ppc \in [Producers -> {"idle", "lock", "push", "count", "write"}]
      /\ posts \in [Producers -> 0..MaxPosts]
      /\ buffer \in [Slots -> Events \union {NoEvent}]
  BY Assumption DEF TypeOK
<1>1. ASSUME UNCHANGED ringVars, Popped' = Popped,
             \A q \in Producers : ppc'[q] = "count" <=> ppc[q] = "count",
             \A q \in Producers : ppc'[q] = "count" => posts'[q] = posts[q],
             lpc' = "release" => lpc = "release"
      PROVE  RingInv'
  <2>1. IsStored' = IsStored /\ Behind' = Behind
    BY <1>1 DEF IsStored, Behind, Slot
  <2>2. Add(Behind)' = Add(Behind)
    BY <2>1 DEF Add
  <2> QED
    BY <1>1, <2>1, <2>2 DEF RingInv
<1>2. ASSUME NEW p \in Producers, CheckSize(p)
      PROVE  RingInv'
  <2>1. UNCHANGED <<ringVars, lpc>>
    BY <1>2 DEF CheckSize
  <2>2. \A q \in Producers : (ppc'[q] = "count" <=> ppc[q] = "count")
                             /\ (ppc'[q] = "count" => posts'[q] = posts[q])
    BY <1>0, <1>2 DEF CheckSize
  <2> QED
    BY <1>1, <2>1, <2>2 DEF Popped
<1>3. ASSUME NEW p \in Producers, Lock(p) \/ Write(p)
      PROVE  RingInv'
  <2>1. UNCHANGED <<ringVars, lpc, posts>>
    BY <1>3 DEF Lock, Write
  <2>2. \A q \in Producers : ppc'[q] = "count" <=> ppc[q] = "count"
    BY <1>0, <1>3 DEF Lock, Write
  <2> QED
    BY <1>1, <2>1, <2>2 DEF Popped
<1>4. ASSUME NEW p \in Producers, Store(p)
      PROVE  RingInv'
  <2>1. UNCHANGED <<num_datas, get_pos, lpc, posts>> /\ Behind' = Behind
    BY <1>4 DEF Store, Behind, Popped, Slot
  <2>2. ~IsStored
    BY <1>4 DEF Store, MutexInv, IsStored
  <2>3. CASE num_datas < Capacity
    <3>1. /\ put_pos = Behind /\ put_pos' = Add(put_pos)
          /\ buffer' = [buffer EXCEPT ![put_pos] = <<p, posts[p]>>]
          /\ ppc' = [ppc EXCEPT ![p] = "count"]
      BY <1>0, <1>4, <2>2, <2>3 DEF Store, RingInv
    <3>2. IsStored' /\ \A q \in Producers : ppc'[q] = "count" => q = p
      BY <1>0, <2>2, <3>1 DEF IsStored
    <3> QED
      BY <1>0, <2>1, <2>3, <3>1, <3>2 DEF RingInv, Add
  <2>4. CASE num_datas >= Capacity
    <3>1. UNCHANGED <<buffer, put_pos>> /\ ppc' = [ppc EXCEPT ![p] = "write"]
      BY <1>0, <1>4, <2>4 DEF Store
    <3> QED
      BY <1>0, <1>1, <1>4, <2>1, <3>1 DEF Store, Popped
  <2> QED
    BY <1>0, <2>3, <2>4
<1>5. ASSUME NEW p \in Producers, Count(p)
      PROVE  RingInv'
  <2>1. /\ UNCHANGED <<buffer, put_pos, get_pos, lpc, posts>>
        /\ num_datas' = num_datas + 1 /\ Popped' = Popped
        /\ ppc' = [ppc EXCEPT ![p] = "write"]
    BY <1>5 DEF Count, Popped
  <2>2. ~IsStored' /\ IsStored
    BY <1>0, <1>5, <2>1 DEF Count, MutexInv, IsStored
  <2>3. num_datas < Capacity /\ put_pos = Add(Behind) /\ (lpc = "release" => num_datas > 0)
    BY <1>5, <2>2 DEF Count, RingInv
  <2>4. Behind \in Slots /\ Behind' = Add(Behind)
    BY <1>0, <2>1, <2>3, AddIs DEF Behind, Slot, Slots, Popped
  <2> QED
    BY <1>0, <2>1, <2>2, <2>3, <2>4 DEF RingInv, IsStored
<1>6. CASE Pop
  <2>1. UNCHANGED <<buffer, put_pos, num_datas, ppc, posts>>
    BY <1>6 DEF Pop
  <2>2. get_pos' = Add(get_pos) /\ Popped = 0 /\ Popped' = 1 /\ num_datas > 0
    BY <1>6 DEF Pop, Popped
  <2>3. get_pos' = IF get_pos + 1 = Capacity THEN 0 ELSE get_pos + 1
    BY <1>0, <2>2, AddIs
  <2>4. Behind' = Behind
    BY <1>0, <2>1, <2>2, <2>3 DEF Behind, Slot, Slots
  <2> QED
    BY <2>1, <2>2, <2>4 DEF RingInv, IsStored, Add
<1>7. CASE Release
  <2>1. /\ UNCHANGED <<buffer, put_pos, get_pos, ppc, posts>>
        /\ num_datas' = num_datas - 1 /\ Popped = 1 /\ Popped' = 0 /\ lpc' = "callback"
    BY <1>7 DEF Release, Popped
  <2>2. Behind' = Behind
    BY <1>0, <2>1 DEF Behind, Slot, Slots
  <2> QED
    BY <1>0, <2>1, <2>2 DEF RingInv, IsStored, Add
<1>8. CASE LoopStep /\ ~Pop /\ ~Release
  <2>1. UNCHANGED <<ringVars, ppc, posts>> /\ lpc # "release" /\ lpc' # "release"
    BY <1>8 DEF LoopStep, StartLoop, While, PopNothing, CallbackReturns, CheckMore,
                FireTimer, TimersDone, WaitReturns, WakeReads, SocketHandled, BatchDone
  <2> QED
    BY <1>1, <2>1 DEF Popped
<1>9. CASE SocketReady \/ Stop \/ StopWrites \/ Tick \/ UNCHANGED vars
  <2>1. UNCHANGED <<ringVars, ppc, posts>> /\ (lpc' = "release" <=> lpc = "release")
    BY <1>9 DEF SocketReady, Stop, StopWrites, Tick, vars
  <2> QED
    BY <1>1, <2>1 DEF Popped
<1> QED
  BY <1>2, <1>3, <1>4, <1>5, <1>6, <1>7, <1>8, <1>9 DEF Next, Posting

\* A slot that is counted was written, and is not written again while counted.
LEMMA FilledStep ==
  ASSUME TypeOK, MutexInv, RingInv, FilledInv, [Next]_vars
  PROVE  FilledInv'
<1> USE DEF ringVars, postVars, loopVars, stopVars, timerVars, Goto
<1>0. /\ num_datas \in 0..Capacity /\ get_pos \in Slots
      /\ Capacity \in Nat \ {0}
      /\ ppc \in [Producers -> {"idle", "lock", "push", "count", "write"}]
      /\ buffer \in [Slots -> Events \union {NoEvent}]
  BY Assumption DEF TypeOK
<1>1. ASSUME UNCHANGED <<buffer, get_pos, num_datas, taken>>, Popped' = Popped,
             lpc' = "release" => lpc = "release"
      PROVE  FilledInv'
  BY <1>1 DEF FilledInv, Slot
<1>2. ASSUME NEW p \in Producers, CheckSize(p) \/ Lock(p) \/ Write(p)
      PROVE  FilledInv'
  <2>1. UNCHANGED <<buffer, get_pos, num_datas, taken, lpc>>
    BY <1>2 DEF CheckSize, Lock, Write
  <2> QED
    BY <1>1, <2>1 DEF Popped
<1>3. ASSUME NEW p \in Producers, Store(p)
      PROVE  FilledInv'
  <2>1. UNCHANGED <<get_pos, num_datas, taken, lpc>>
    BY <1>3 DEF Store
  <2>2. <<p, posts[p]>> \in Events
    BY <1>3 DEF Store, MutexInv, Events
  <2>3. \A s \in Slots : buffer[s] \in Events => buffer'[s] \in Events
    BY <1>0, <1>3, <2>2 DEF Store
  <2>4. \A i \in 0..(num_datas - Popped - 1) : Slot(get_pos + i) \in Slots
    BY <1>0 DEF Slot, Slots, Popped
  <2> QED
    BY <2>1, <2>3, <2>4 DEF FilledInv, Slot, Popped
<1>4. ASSUME NEW p \in Producers, Count(p)
      PROVE  FilledInv'
  <2>1. UNCHANGED <<buffer, get_pos, taken, lpc>> /\ num_datas' = num_datas + 1
    BY <1>4 DEF Count
  <2>2. Popped' = Popped /\ Popped \in {0, 1} /\ num_datas - Popped \in Nat
    BY <1>0, <2>1 DEF Popped, RingInv
  <2>3. buffer[Behind] \in Events
    <3>1. buffer[Behind] = <<p, posts[p]>>
      BY <1>4 DEF Count, RingInv
    <3>2. posts[p] \in 1..MaxPosts
      BY <1>4 DEF Count, MutexInv
    <3> QED
      BY <3>1, <3>2 DEF Events
  <2>4. ASSUME NEW i \in 0..(num_datas' - Popped' - 1)
        PROVE  buffer[Slot(get_pos + i)] \in Events
    <3>1. CASE i = num_datas - Popped
      <4>1. get_pos + i = get_pos + num_datas - Popped
        BY <1>0, <2>2, <3>1 DEF Slots
      <4> QED
        BY <2>3, <4>1 DEF Behind
    <3>2. CASE i # num_datas - Popped
      BY <1>0, <2>1, <2>2, <3>2 DEF FilledInv
    <3> QED
      BY <3>1, <3>2
  <2> QED
    BY <2>1, <2>2, <2>4 DEF FilledInv, Slot
<1>5. CASE Pop
  <2>1. /\ UNCHANGED <<buffer, num_datas>> /\ num_datas > 0 /\ taken' = buffer[get_pos]
        /\ get_pos' = Add(get_pos) /\ Popped = 0 /\ Popped' = 1
    BY <1>5 DEF Pop, Popped
  <2>2. get_pos' = IF get_pos + 1 = Capacity THEN 0 ELSE get_pos + 1
    BY <1>0, <2>1, AddIs
  <2>3. taken' \in Events
    <3>1. Slot(get_pos + 0) = get_pos /\ 0 \in 0..(num_datas - Popped - 1)
      BY <1>0, <2>1 DEF Slot, Slots
    <3> QED
      BY <2>1, <3>1 DEF FilledInv
  <2>4. ASSUME NEW i \in 0..(num_datas' - Popped' - 1)
        PROVE  buffer[Slot(get_pos' + i)] \in Events
    <3>1. i + 1 \in 0..(num_datas - Popped - 1)
      BY <1>0, <2>1
    <3>2. Slot(get_pos' + i) = Slot(get_pos + (i + 1))
      BY <1>0, <2>1, <2>2 DEF Slot, Slots
    <3> QED
      BY <3>1, <3>2 DEF FilledInv
  <2> QED
    BY <2>1, <2>3, <2>4 DEF FilledInv, Slot
<1>6. CASE Release
  <2>1. /\ UNCHANGED <<buffer, get_pos>> /\ lpc' = "callback"
        /\ num_datas' = num_datas - 1 /\ Popped = 1 /\ Popped' = 0
    BY <1>6 DEF Release, Popped
  <2>2. 0..(num_datas' - Popped' - 1) = 0..(num_datas - Popped - 1)
    BY <1>0, <2>1
  <2> QED
    BY <2>1, <2>2 DEF FilledInv, Slot
<1>7. CASE LoopStep /\ ~Pop /\ ~Release
  <2>1. UNCHANGED <<buffer, get_pos, num_datas, taken>> /\ lpc # "release" /\ lpc' # "release"
    BY <1>7 DEF LoopStep, StartLoop, While, PopNothing, CallbackReturns, CheckMore,
                FireTimer, TimersDone, WaitReturns, WakeReads, SocketHandled, BatchDone
  <2> QED
    BY <1>1, <2>1 DEF Popped
<1>8. CASE SocketReady \/ Stop \/ StopWrites \/ Tick \/ UNCHANGED vars
  <2>1. /\ UNCHANGED <<buffer, get_pos, num_datas, taken>>
        /\ lpc' = "release" <=> lpc = "release"
    BY <1>8 DEF SocketReady, Stop, StopWrites, Tick, vars
  <2> QED
    BY <1>1, <2>1 DEF Popped
<1> QED
  BY <1>2, <1>3, <1>4, <1>5, <1>6, <1>7, <1>8 DEF Next, Posting

\* Every callback that is queued, and Stop, has its byte in the pipe or is about
\* to write it, when the loop waits.
LEMMA WakeStep ==
  ASSUME TypeOK, WakeInv, [Next]_vars
  PROVE  WakeInv'
<1> USE DEF WakeInv, ringVars, postVars, loopVars, stopVars, timerVars, Goto
<1>0. /\ pipe \in 0..PipeCapacity /\ PipeCapacity \in Nat \ {0}
      /\ num_datas \in 0..Capacity /\ Capacity \in Nat
      /\ ppc \in [Producers -> {"idle", "lock", "push", "count", "write"}]
  BY Assumption DEF TypeOK
<1>1. ASSUME NEW p \in Producers, CheckSize(p) \/ Lock(p) \/ Store(p)
      PROVE  WakeInv'
  <2>1. UNCHANGED <<num_datas, pipe, lpc, is_shutdown, spc>>
    BY <1>1 DEF CheckSize, Lock, Store
  <2>2. \A q \in Producers : ppc[q] = "write" => ppc'[q] = "write"
    BY <1>0, <1>1 DEF CheckSize, Lock, Store
  <2> QED
    BY <2>1, <2>2
<1>2. ASSUME NEW p \in Producers, Count(p)
      PROVE  WakeInv'
  BY <1>0, <1>2 DEF Count
<1>3. ASSUME NEW p \in Producers, Write(p)
      PROVE  WakeInv'
  <2>1. pipe' > 0
    BY <1>0, <1>3 DEF Write, PipeAfterWrite
  <2> QED
    BY <2>1
<1>4. CASE LoopStep
  <2>1. CASE StartLoop \/ While \/ Pop \/ PopNothing \/ CallbackReturns
    BY <2>1 DEF StartLoop, While, Pop, PopNothing, CallbackReturns
  <2>2. CASE Release
    BY <2>2 DEF Release
  <2>3. CASE CheckMore
    BY <2>3 DEF CheckMore
  <2>4. CASE FireTimer \/ TimersDone
    BY <2>4 DEF FireTimer, TimersDone
  <2>5. CASE WaitReturns \/ WakeReads \/ SocketHandled \/ BatchDone
    BY <2>5 DEF WaitReturns, WakeReads, SocketHandled, BatchDone
  <2> QED
    BY <1>4, <2>1, <2>2, <2>3, <2>4, <2>5 DEF LoopStep
<1>5. CASE SocketReady \/ Stop \/ Tick \/ UNCHANGED vars
  BY <1>5 DEF SocketReady, Stop, Tick, vars
<1>6. CASE StopWrites
  <2>1. pipe' > 0
    BY <1>0, <1>6 DEF StopWrites, PipeAfterWrite
  <2> QED
    BY <2>1
<1> QED
  BY <1>1, <1>2, <1>3, <1>4, <1>5, <1>6 DEF Next, Posting
-----------------------------------------------------------------------------
(* The theorems.                                                           *)

\* The invariant is inductive: it holds of every reachable state.
THEOREM Invariance == Spec => []IInv
<1>1. Init => IInv
  <2> SUFFICES ASSUME Init
               PROVE  IInv
    OBVIOUS
  <2>1. TypeOK
    BY Assumption DEF Init, TypeOK, Slots, Never
  <2>2. MutexInv
    BY Assumption DEF Init, MutexInv
  <2>3. RingInv
    BY Assumption DEF Init, RingInv, IsStored, Behind, Popped, Slot
  <2>4. FilledInv
    BY DEF Init, FilledInv, Popped
  <2>5. WakeInv
    BY DEF Init, WakeInv
  <2> QED
    BY <2>1, <2>2, <2>3, <2>4, <2>5 DEF IInv
<1>2. IInv /\ [Next]_vars => IInv'
  BY TypeStep, MutexStep, RingStep, FilledStep, WakeStep DEF IInv
<1> QED
  BY <1>1, <1>2, PTL DEF Spec

\* The variables of the scheduler, of its ring and of its pipe keep their types.
THEOREM TypeCorrect == Spec => []TypeOK
<1>1. IInv => TypeOK
  BY DEF IInv
<1> QED
  BY <1>1, Invariance, PTL

\* TaskScheduler::Start never sleeps in select while a callback is queued or Stop
\* was called, unless the byte that ends the sleep is in the pipe or on its way.
THEOREM NoWakeupLost == Spec => []NoLostWakeup
<1>1. IInv => NoLostWakeup
  BY DEF IInv, WakeInv, NoLostWakeup
<1> QED
  BY <1>1, Invariance, PTL

-----------------------------------------------------------------------------
(* The channel the ring buffer implements.                                 *)

\* The i-th callback of the channel.
WaitingAt(i) ==
  IF lpc = "release" THEN IF i = 1 THEN taken ELSE buffer[Slot(get_pos + i - 2)]
                     ELSE buffer[Slot(get_pos + i - 1)]

\* The channel holds as many callbacks as the counter says, in the order of
\* their slots.
WaitingInv ==
  /\ Waiting \in Seq(Events) /\ Len(Waiting) = num_datas
  /\ \A i \in 1..num_datas : Waiting[i] = WaitingAt(i)

\* This follows from the invariant.
LEMMA WaitingIs == IInv => WaitingInv
<1> SUFFICES ASSUME IInv
             PROVE  /\ Waiting \in Seq(Events) /\ Len(Waiting) = num_datas
                    /\ \A i \in 1..num_datas : Waiting[i] = WaitingAt(i)
  BY DEF WaitingInv
<1>0. /\ num_datas \in 0..Capacity /\ get_pos \in Slots /\ Capacity \in Nat \ {0}
      /\ lpc = "release" => num_datas > 0 /\ taken \in Events
  BY Assumption DEF IInv, TypeOK, RingInv, FilledInv
<1> DEFINE n == num_datas - Popped
<1>1. n \in 0..Capacity
  BY <1>0 DEF Popped
<1>2. ASSUME NEW i \in 1..n
      PROVE  /\ Counted(n)[i] = buffer[Slot(get_pos + i - 1)]
             /\ buffer[Slot(get_pos + i - 1)] \in Events
  <2>1. get_pos + i - 1 \in 0..(2 * Capacity - 1) /\ i - 1 \in 0..(n - 1)
    BY <1>0, <1>1 DEF Slots
  <2>2. Counted(n)[i] = buffer[(get_pos + i - 1) % Capacity]
    BY DEF Counted
  <2>3. (get_pos + i - 1) % Capacity = Slot(get_pos + i - 1)
    BY <2>1, SlotIs
  <2>4. buffer[Slot(get_pos + (i - 1))] \in Events
    BY <2>1 DEF IInv, FilledInv
  <2>5. get_pos + (i - 1) = get_pos + i - 1
    BY <1>0 DEF Slots
  <2> QED
    BY <2>2, <2>3, <2>4, <2>5
<1>3. Counted(n) \in Seq(Events) /\ Len(Counted(n)) = n
  <2>1. Counted(n) \in [1..n -> Events]
    BY <1>2 DEF Counted
  <2> QED
    BY <1>1, <2>1
<1>4. CASE lpc = "release"
  <2>1. Waiting = <<taken>> \o Counted(n) /\ n = num_datas - 1
    BY <1>4 DEF Waiting, Popped
  <2>2. <<taken>> \in Seq(Events) /\ Len(<<taken>>) = 1 /\ <<taken>>[1] = taken
    BY <1>0, <1>4
  <2>3. /\ Waiting \in Seq(Events) /\ Len(Waiting) = 1 + n
        /\ \A i \in 1..(1 + n) :
             Waiting[i] = IF i <= 1 THEN <<taken>>[i] ELSE Counted(n)[i - 1]
    BY <1>3, <2>1, <2>2, ConcatProperties
  <2>4. ASSUME NEW i \in 1..num_datas
        PROVE  Waiting[i] = WaitingAt(i)
    <3>1. CASE i = 1
      BY <1>1, <1>4, <2>2, <2>3, <3>1 DEF WaitingAt
    <3>2. CASE i # 1
      <4>1. i - 1 \in 1..n /\ ~(i <= 1) /\ i \in 1..(1 + n)
        BY <1>0, <2>1, <3>2
      <4>2. get_pos + (i - 1) - 1 = get_pos + i - 2
        BY <1>0 DEF Slots
      <4>3. Waiting[i] = Counted(n)[i - 1]
        BY <2>3, <4>1
      <4> QED
        BY <1>2, <1>4, <3>2, <4>1, <4>2, <4>3 DEF WaitingAt
    <3> QED
      BY <3>1, <3>2
  <2> QED
    BY <1>0, <2>1, <2>3, <2>4
<1>5. CASE lpc # "release"
  <2>1. Waiting = Counted(n) /\ n = num_datas
    BY <1>0, <1>5 DEF Waiting, Popped
  <2> QED
    BY <1>2, <1>3, <1>5, <2>1 DEF WaitingAt
<1> QED
  BY <1>4, <1>5

\* Initially the channel is empty and open.
LEMMA ChannelInit == Init => Channel!Init
<1> SUFFICES ASSUME Init
             PROVE  Channel!Init
  OBVIOUS
<1>1. Waiting = << >>
  BY DEF Init, Waiting, Counted
<1>2. (lpc = "ended") = FALSE /\ ran = << >>
  BY DEF Init
<1> QED
  BY <1>1, <1>2 DEF Channel!Init

\* Counting a stored element posts it, releasing a slot runs its callback, and
\* leaving the loop closes the channel; no other step shows.
LEMMA ChannelStep == IInv /\ IInv' /\ [Next]_vars => [Channel!Next]_Channel!vars
<1> SUFFICES ASSUME IInv, IInv', [Next]_vars
             PROVE  [Channel!Next]_Channel!vars
  OBVIOUS
<1> USE DEF ringVars, postVars, loopVars, stopVars, timerVars, Goto
<1>0. /\ num_datas \in 0..Capacity /\ get_pos \in Slots /\ put_pos \in Slots
      /\ Capacity \in Nat \ {0}
      /\ buffer \in [Slots -> Events \union {NoEvent}]
      /\ posts \in [Producers -> 0..MaxPosts]
      /\ lpc = "release" => num_datas > 0
  BY Assumption DEF IInv, TypeOK, RingInv
<1>1. /\ Waiting \in Seq(Events) /\ Len(Waiting) = num_datas
      /\ \A i \in 1..num_datas : Waiting[i] = WaitingAt(i)
  BY WaitingIs DEF WaitingInv
<1>2. /\ Waiting' \in Seq(Events) /\ Len(Waiting') = num_datas'
      /\ \A i \in 1..num_datas' : Waiting'[i] = WaitingAt(i)'
  <2>1. WaitingInv'
    BY WaitingIs, PTL
  <2> QED
    BY <2>1 DEF WaitingInv
<1>3. ASSUME num_datas' = num_datas, \A i \in 1..num_datas : WaitingAt(i)' = WaitingAt(i)
      PROVE  Waiting' = Waiting
  BY <1>1, <1>2, <1>3, SeqEqual
<1>4. ASSUME UNCHANGED <<buffer, get_pos, num_datas, taken, ran>>,
             lpc' = "release" <=> lpc = "release", (lpc' = "ended") = (lpc = "ended")
      PROVE  UNCHANGED Channel!vars
  <2>1. \A i \in 1..num_datas : WaitingAt(i)' = WaitingAt(i)
    BY <1>4 DEF WaitingAt, Slot
  <2> QED
    BY <1>3, <1>4, <2>1 DEF Channel!vars
<1>5. ASSUME NEW p \in Producers, CheckSize(p) \/ Lock(p) \/ Write(p)
      PROVE  UNCHANGED Channel!vars
  <2>1. UNCHANGED <<buffer, get_pos, num_datas, taken, ran, lpc>>
    BY <1>5 DEF CheckSize, Lock, Write
  <2> QED
    BY <1>4, <2>1
<1>6. ASSUME NEW p \in Producers, Store(p)
      PROVE  UNCHANGED Channel!vars
  <2>1. UNCHANGED <<get_pos, num_datas, taken, ran, lpc>>
    BY <1>6 DEF Store
  <2>2. CASE UNCHANGED buffer
    BY <1>4, <2>1, <2>2
  <2>3. CASE ~UNCHANGED buffer
    <3>1. num_datas < Capacity /\ buffer' = [buffer EXCEPT ![put_pos] = <<p, posts[p]>>]
      BY <1>6, <2>3 DEF Store
    <3>2. ~IsStored
      BY <1>6 DEF Store, IInv, MutexInv, IsStored
    <3>3. put_pos = Behind
      BY <3>2 DEF IInv, RingInv
    <3>4. \A i \in 1..num_datas : WaitingAt(i)' = WaitingAt(i)
      BY <1>0, <2>1, <3>1, <3>3 DEF WaitingAt, Behind, Slot, Slots, Popped
    <3> QED
      BY <1>3, <2>1, <3>4 DEF Channel!vars
  <2> QED
    BY <2>2, <2>3
<1>7. ASSUME NEW p \in Producers, Count(p)
      PROVE  Channel!Post(<<p, posts[p]>>) /\ <<p, posts[p]>> \in Events
  <2>1. UNCHANGED <<buffer, get_pos, taken, ran, lpc>> /\ num_datas' = num_datas + 1
    BY <1>7 DEF Count
  <2>2. num_datas < Capacity /\ buffer[Behind] = <<p, posts[p]>>
    BY <1>7 DEF Count, IInv, RingInv
  <2>3. <<p, posts[p]>> \in Events
    BY <1>7 DEF Count, IInv, MutexInv, Events
  <2>4. \A i \in 1..num_datas : WaitingAt(i)' = WaitingAt(i)
    BY <2>1 DEF WaitingAt, Slot
  <2>5. ASSUME NEW i, i = num_datas + 1
        PROVE  WaitingAt(i)' = <<p, posts[p]>>
    <3>1. CASE lpc = "release"
      <4>1. get_pos + i - 2 = get_pos + num_datas - 1 /\ i # 1
        BY <1>0, <2>5, <3>1 DEF Slots
      <4> QED
        BY <2>1, <2>2, <3>1, <4>1 DEF WaitingAt, Behind, Popped, Slot
    <3>2. CASE lpc # "release"
      <4>1. get_pos + i - 1 = get_pos + num_datas - 0
        BY <1>0, <2>5 DEF Slots
      <4> QED
        BY <2>1, <2>2, <3>2, <4>1 DEF WaitingAt, Behind, Popped, Slot
    <3> QED
      BY <3>1, <3>2
  <2>6. Waiting' = Append(Waiting, <<p, posts[p]>>)
    <3> DEFINE w == Append(Waiting, <<p, posts[p]>>)
    <3>1. /\ w \in Seq(Events) /\ Len(w) = num_datas + 1
          /\ \A i \in 1..num_datas : w[i] = Waiting[i]
          /\ w[num_datas + 1] = <<p, posts[p]>>
      BY <1>1, <2>3, AppendProperties
    <3>2. ASSUME NEW i \in 1..(num_datas + 1)
          PROVE  Waiting'[i] = w[i]
      <4>1. CASE i = num_datas + 1
        BY <1>0, <1>2, <2>1, <2>5, <3>1, <4>1
      <4>2. CASE i # num_datas + 1
        BY <1>0, <1>1, <1>2, <2>1, <2>4, <3>1, <4>2
      <4> QED
        BY <4>1, <4>2
    <3> HIDE DEF w
    <3>3. Waiting' = w
      BY <1>2, <2>1, <3>1, <3>2, SeqEqual
    <3> QED
      BY <3>3 DEF w
  <2>7. (lpc' = "ended") = (lpc = "ended")
    BY <2>1
  <2> QED
    BY <1>1, <2>1, <2>2, <2>3, <2>6, <2>7 DEF Channel!Post
<1>8. CASE Pop
  <2>1. /\ UNCHANGED <<buffer, num_datas, ran>> /\ num_datas > 0 /\ taken' = buffer[get_pos]
        /\ get_pos' = Add(get_pos) /\ lpc = "pop" /\ lpc' = "release"
    BY <1>8 DEF Pop
  <2>2. get_pos' = IF get_pos + 1 = Capacity THEN 0 ELSE get_pos + 1
    BY <1>0, <2>1, AddIs
  <2>3. \A i \in 1..num_datas : WaitingAt(i)' = WaitingAt(i)
    BY <1>0, <2>1, <2>2 DEF WaitingAt, Slot, Slots
  <2>4. (lpc' = "ended") = (lpc = "ended")
    BY <2>1
  <2> QED
    BY <1>3, <2>1, <2>3, <2>4 DEF Channel!vars
<1>9. CASE Release
  <2>1. /\ UNCHANGED <<buffer, get_pos>> /\ lpc = "release" /\ lpc' = "callback"
        /\ num_datas' = num_datas - 1 /\ ran' = Append(ran, taken)
    BY <1>9 DEF Release
  <2>2. Waiting # << >> /\ Head(Waiting) = taken
    <3>1. 1 \in 1..num_datas /\ Waiting[1] = taken
      BY <1>0, <1>1, <2>1 DEF WaitingAt
    <3> QED
      BY <1>1, <3>1
  <2>3. Waiting' = Tail(Waiting)
    <3> DEFINE w == Tail(Waiting)
    <3>1. /\ w \in Seq(Events) /\ Len(w) = num_datas - 1
          /\ \A i \in 1..(num_datas - 1) : w[i] = Waiting[i + 1]
      BY <1>1, <2>2, HeadTailProperties
    <3>2. ASSUME NEW i \in 1..(num_datas - 1)
          PROVE  Waiting'[i] = w[i]
      <4>1. i + 1 \in 1..num_datas /\ i + 1 # 1 /\ get_pos + (i + 1) - 2 = get_pos + i - 1
        BY <1>0 DEF Slots
      <4>2. Waiting[i + 1] = buffer[Slot(get_pos + i - 1)]
        BY <1>1, <2>1, <4>1 DEF WaitingAt
      <4>3. Waiting'[i] = buffer[Slot(get_pos + i - 1)]
        BY <1>2, <2>1 DEF WaitingAt, Slot
      <4> QED
        BY <3>1, <4>2, <4>3
    <3> HIDE DEF w
    <3>3. Waiting' = w
      BY <1>2, <2>1, <3>1, <3>2, SeqEqual
    <3> QED
      BY <3>3 DEF w
  <2>4. Channel!Run
    <3>1. ~(lpc = "ended") /\ (lpc' = "ended") = (lpc = "ended")
      BY <2>1
    <3> QED
      BY <2>1, <2>2, <2>3, <3>1 DEF Channel!Run
  <2> QED
    BY <2>4 DEF Channel!Next
<1>10. CASE While
  <2>1. UNCHANGED <<buffer, get_pos, num_datas, taken, ran>> /\ lpc = "while"
        /\ lpc' \in {"ended", "pop"}
    BY <1>10 DEF While
  <2>2. CASE lpc' = "ended"
    <3>1. \A i \in 1..num_datas : WaitingAt(i)' = WaitingAt(i)
      BY <2>1 DEF WaitingAt, Slot
    <3>2. (lpc' = "ended") = TRUE
      BY <2>2
    <3>3. Channel!Close
      BY <1>3, <2>1, <3>1, <3>2 DEF Channel!Close
    <3> QED
      BY <3>3 DEF Channel!Next
  <2>3. CASE lpc' = "pop"
    BY <1>4, <2>1, <2>3
  <2> QED
    BY <2>1, <2>2, <2>3
<1>11. CASE LoopStep /\ ~While /\ ~Pop /\ ~Release
  <2>1. /\ UNCHANGED <<buffer, get_pos, num_datas, taken, ran>>
        /\ lpc \notin {"release", "ended"} /\ lpc' \notin {"release", "ended"}
    BY <1>11 DEF LoopStep, StartLoop, PopNothing, CallbackReturns, CheckMore,
                 FireTimer, TimersDone, WaitReturns, WakeReads, SocketHandled, BatchDone
  <2> QED
    BY <1>4, <2>1
<1>12. CASE SocketReady \/ Stop \/ StopWrites \/ Tick \/ UNCHANGED vars
  <2>1. /\ UNCHANGED <<buffer, get_pos, num_datas, taken, ran>>
        /\ lpc' = "release" <=> lpc = "release"
        /\ lpc' = "ended" <=> lpc = "ended"
    BY <1>12 DEF SocketReady, Stop, StopWrites, Tick, vars
  <2> QED
    BY <1>4, <2>1
<1> QED
  BY <1>5, <1>6, <1>7, <1>8, <1>9, <1>10, <1>11, <1>12 DEF Next, Posting, Channel!Next

\* The safety half of ImplementsChannel: whatever the interleaving of Push, Pop and
\* the callbacks, callbacks run in the order in which they were taken over, each
\* once, and no slot is overwritten or read early.
THEOREM ChannelImplemented == Spec => Channel!Safety
<1>1. IInv /\ IInv' /\ [Next]_vars => [Channel!Next]_Channel!vars
  BY ChannelStep
<1> QED
  BY <1>1, ChannelInit, Invariance, PTL DEF Spec, Channel!Safety
=============================================================================
