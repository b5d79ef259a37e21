------------------------ MODULE FramePipelineProofs ------------------------
(***************************************************************************)
(* Proofs about FramePipeline, for every number of detectors, queue        *)
(* capacity, batch length and number of frames.                            *)
(***************************************************************************)
EXTENDS FramePipeline, TLAPS

-----------------------------------------------------------------------------
(* Lemmas about the operators of VBuffer. *)

\* An index computed from a position is the position relative to the front,
\* and is out of the buffer when the position has left it: receive() answers
\* exactly the message sent at the position, or none.
LEMMA ReceiveExact ==
  ASSUME NEW b, IsVBuffer(b), Consecutive(b), GetSize(b) <= MaxSize,
         NEW at \in Keys
  PROVE  \/ Receive(b, at) = NoMessage
         \/ /\ Receive(b, at) = at
            /\ at \in b.offset .. b.offset + GetSize(b) - 1
<1> DEFINE index == MinusSizeT(at, b.offset)
<1>1. b.offset \in 0..MaxFrames /\ Len(b.messages) \in Nat
  BY DEF IsVBuffer
<1>2. CASE at >= b.offset
  <2>1. index = at - b.offset
    BY <1>2 DEF MinusSizeT
  <2>2. CASE index < GetSize(b)
    <3>1. index + 1 \in 1..GetSize(b)
      BY <1>1, <1>2, <2>1, <2>2, Assumption DEF GetSize, Keys
    <3>2. b.messages[index + 1] = b.offset + (index + 1) - 1
      BY <3>1 DEF Consecutive
    <3> QED
      BY <1>1, <2>1, <2>2, <3>1, <3>2, Assumption DEF Receive, GetSize, Keys
  <2> QED
    BY <2>2 DEF Receive
<1>3. CASE at < b.offset
  <2>1. index = SizeT + at - b.offset
    BY <1>1, <1>3, Assumption DEF MinusSizeT, Keys
  <2>2. ~(index < GetSize(b))
    BY <1>1, <2>1, Assumption DEF Keys, GetSize
  <2> QED
    BY <2>2 DEF Receive
<1> QED
  BY <1>1, <1>2, <1>3, Assumption DEF Keys

\* A push at the position that follows the last one keeps the buffer in order.
LEMMA PushInOrder ==
  ASSUME NEW b, IsVBuffer(b), Consecutive(b),
         NEW t \in Frames, t = b.offset + GetSize(b)
  PROVE  /\ IsVBuffer(Push(b, t)) /\ Consecutive(Push(b, t))
         /\ Push(b, t).offset = b.offset
         /\ GetSize(Push(b, t)) = GetSize(b) + 1
<1> DEFINE c == Push(b, t)
<1>1. b.messages \in Seq(Frames) /\ b.offset \in 0..MaxFrames
  BY DEF IsVBuffer
<1>2. c = [messages |-> Append(b.messages, t), offset |-> b.offset]
  BY SMTT(30) DEF Push, IsVBuffer
<1>3. /\ c.messages \in Seq(Frames) /\ Len(c.messages) = Len(b.messages) + 1
      /\ \A i \in 1..Len(b.messages) : c.messages[i] = b.messages[i]
      /\ c.messages[Len(b.messages) + 1] = t
  BY <1>1, <1>2, SMTT(30)
<1>4. IsVBuffer(c)
  BY <1>1, <1>2, <1>3 DEF IsVBuffer
<1>5. Consecutive(c)
  <2> SUFFICES ASSUME NEW i \in 1..Len(b.messages) + 1
               PROVE  c.messages[i] = b.offset + i - 1
    BY <1>2, <1>3 DEF Consecutive, GetSize
  <2>1. CASE i \in 1..Len(b.messages)
    BY <1>1, <1>3, <2>1 DEF Consecutive, GetSize
  <2>2. CASE i = Len(b.messages) + 1
    BY <1>1, <1>3, <2>2 DEF GetSize, Frames
  <2> QED
    BY <1>1, <2>1, <2>2
<1> QED
  BY <1>2, <1>3, <1>4, <1>5 DEF GetSize

\* A pop keeps the buffer in order, answers the front and counts it.
LEMMA PopInOrder ==
  ASSUME NEW b, IsVBuffer(b), Consecutive(b), GetSize(b) > 0,
         b.offset + GetSize(b) <= MaxFrames
  PROVE  /\ IsVBuffer(Pop(b)) /\ Consecutive(Pop(b))
         /\ Pop(b).offset = b.offset + 1
         /\ GetSize(Pop(b)) = GetSize(b) - 1
         /\ Front(b) = b.offset
<1> DEFINE c == Pop(b)
<1>1. /\ b.messages \in Seq(Frames) /\ b.offset \in 0..MaxFrames
      /\ Len(b.messages) \in Nat /\ Len(b.messages) > 0
  BY DEF IsVBuffer, GetSize
<1>2. c = [messages |-> Tail(b.messages), offset |-> b.offset + 1]
  BY <1>1 DEF Pop, GetSize
<1>3. /\ c.messages \in Seq(Frames) /\ Len(c.messages) = Len(b.messages) - 1
      /\ \A i \in 1..Len(b.messages) - 1 : c.messages[i] = b.messages[i + 1]
  BY <1>1, <1>2
<1>4. IsVBuffer(c)
  BY <1>1, <1>2, <1>3, Assumption DEF IsVBuffer, GetSize
<1>5. Consecutive(c)
  <2> SUFFICES ASSUME NEW i \in 1..Len(b.messages) - 1
               PROVE  c.messages[i] = (b.offset + 1) + i - 1
    BY <1>1, <1>2, <1>3 DEF Consecutive, GetSize
  <2>1. i + 1 \in 1..Len(b.messages) /\ c.messages[i] = b.messages[i + 1]
    BY <1>1, <1>3
  <2>2. b.messages[i + 1] = b.offset + (i + 1) - 1
    BY <2>1 DEF Consecutive, GetSize
  <2> QED
    BY <1>1, <2>1, <2>2
<1>6. Front(b) = b.offset
  <2>1. Head(b.messages) = b.messages[1] /\ 1 \in 1..Len(b.messages)
    BY <1>1
  <2>2. b.messages[1] = b.offset + 1 - 1
    BY <2>1 DEF Consecutive, GetSize
  <2> QED
    BY <1>1, <2>1, <2>2 DEF Front, GetSize
<1>7. c.offset = b.offset + 1
  BY <1>2
<1>8. GetSize(c) = GetSize(b) - 1
  BY <1>3 DEF GetSize
<1> QED
  BY <1>4, <1>5, <1>6, <1>7, <1>8
-----------------------------------------------------------------------------
(***************************************************************************)
(* The inductive invariant.  The properties of the runs are not inductive: *)
(* each relies on what a thread has established at its program counter.    *)
(***************************************************************************)

\* The reader saw room before it pushes, has a frame left to push, and waits
\* for the detectors after its first frame and only then.
ReaderInv ==
  /\ rpc \in {"send", "push"} => f_count < MaxFrames
  /\ rpc = "push" => GetSize(image_in) < MaxSize
  /\ rpc = "prime" => first_time
  /\ first_time => f_count = (IF rpc = "prime" THEN 1 ELSE 0)

\* Main saw two frames before it pops, room before it pushes, and holds the
\* frame it popped last.
MainInv ==
  /\ mpc = "pop" => GetSize(image_in) >= 2
  /\ mpc = "push" => GetSize(image_out) < MaxSize
  /\ mpc \in Holding => shown \in Frames /\ shown = image_in.offset - 1

\* A detector that examines a frame examines the one its position names, and
\* counts through the frames of its batch.
DetectorInv ==
  \A k \in Detectors :
    /\ dpc[k] \in Examining => current[k] \in Frames /\ current[k] = d_count[k]
    /\ dpc[k] \in Storing => stored[k] < detected_frames[k]

\* The frame a detector examines has been read, and a detector jumps only
\* when the display has overtaken it, which nothing undoes.
PositionInv ==
  \A k \in Detectors :
    /\ dpc[k] \in Examining => current[k] < f_count
    /\ dpc[k] = "jump" => d_count[k] < image_in.offset

\* Results are filed less than one batch after the frame they were computed
\* on, and before the frontier of their detector.
ResultInv ==
  \A t \in DOMAIN rects : \A i \in 1..Len(rects[t]) :
    /\ rects[t][i].of <= t /\ t < rects[t][i].of + MaxBatch
    /\ t < Frontier[rects[t][i].by]

\* What the queues and the threads of the display path do...
StreamInv == FramesInOrder /\ CapacityRespected /\ NeverDrained /\ ReaderInv /\ MainInv
\* ...and what the detectors and their results do.
IInv ==
  /\ TypeOK /\ StreamInv /\ DetectorInv /\ PositionInv
  /\ ResultInv /\ NoDuplicateResult /\ DrawnBelongs

-----------------------------------------------------------------------------
(* Which variables the threads leave alone. *)

\* No step of a detector touches the queues, the reader or the main thread.
LEMMA DetectorFrame ==
  ASSUME NEW k \in Detectors, Detector(k)
  PROVE  UNCHANGED <<image_in, image_out, readVars, mainVars>>
  BY DEF Detector, Register, CheckPosition, Jump, ReceiveFrame, Detect,
         MarkReady, StoreSeesSize, StoreEvicts, StorePuts

\* No step of the reader, the main thread or the encoder touches a detector.
LEMMA DisplayFrame ==
  ASSUME Reader \/ Main \/ EncoderPops
  PROVE  UNCHANGED <<data_ready, detectVars>>
  BY DEF Reader, GrabAndSkip, Grab, SendSeesRoom, SendPushes, Prime, Main,
         WaitEnds, WaitTicks, WaitTimesOut, ShowSeesTwo, ShowPops, Draw, OutSeesRoom,
         OutPushes, EncoderPops

-----------------------------------------------------------------------------
(* The display path: one step per action that moves a frame. *)

\* Sending, priming, showing and encoding keep the order of the frames.
LEMMA StreamStep ==
  ASSUME TypeOK, StreamInv, [Next]_vars
  PROVE  StreamInv' /\ IsVBuffer(image_in)' /\ IsVBuffer(image_out)'
<1> USE DEF StreamInv
<1>0. /\ IsVBuffer(image_in) /\ IsVBuffer(image_out)
      /\ Consecutive(image_in) /\ Consecutive(image_out)
      /\ GetSize(image_in) \in Nat /\ GetSize(image_out) \in Nat
      /\ image_in.offset \in Nat /\ image_out.offset \in Nat
      /\ f_count \in 0..MaxFrames
  BY DEF TypeOK, TypeShared, TypeReader, IsVBuffer, FramesInOrder, GetSize
<1> DEFINE Goal == StreamInv' /\ IsVBuffer(image_in)' /\ IsVBuffer(image_out)'
<1>1. ASSUME UNCHANGED <<image_in, image_out, readVars, mainVars>>
      PROVE  Goal
  BY <1>0, <1>1 DEF readVars, mainVars, FramesInOrder, CapacityRespected,
                    NeverDrained, ReaderInv, MainInv
<1>2. CASE SendPushes
  <2>1. /\ f_count \in Frames /\ GetSize(image_in) < MaxSize
        /\ f_count = image_in.offset + GetSize(image_in)
    BY <1>0, <1>2, Assumption
       DEF SendPushes, ReaderInv, FramesInOrder, Frames
  <2>2. /\ IsVBuffer(image_in)' /\ Consecutive(image_in)'
        /\ image_in'.offset = image_in.offset
        /\ GetSize(image_in)' = GetSize(image_in) + 1
    BY <1>0, <1>2, <2>1, PushInOrder DEF SendPushes
  <2>3. /\ UNCHANGED <<image_out, mpc, shown, first_time>>
        /\ f_count' = f_count + 1
        /\ rpc' = IF first_time THEN "prime" ELSE "grab"
    BY <1>2 DEF SendPushes, mainVars
  <2>4. FramesInOrder' /\ CapacityRespected' /\ NeverDrained'
    BY <1>0, <2>1, <2>2, <2>3, Assumption
       DEF FramesInOrder, CapacityRespected, NeverDrained
  <2>5. first_time => f_count = 0
    BY <1>2 DEF SendPushes, ReaderInv
  <2>6. ReaderInv' /\ MainInv'
    BY <1>0, <2>1, <2>2, <2>3, <2>5, Assumption DEF ReaderInv, MainInv
  <2> QED
    BY <1>0, <2>2, <2>3, <2>4, <2>6
<1>3. ASSUME Reader, ~SendPushes
      PROVE  Goal
  <2>1. UNCHANGED <<image_in, image_out, mpc, shown, f_count>>
    BY <1>3 DEF Reader, GrabAndSkip, Grab, SendSeesRoom, Prime, mainVars
  <2>2. ReaderInv'
    <3>1. CASE GrabAndSkip \/ Grab
      <4>1. /\ rpc = "grab" /\ rpc' \in {"grab", "send"} /\ f_count < MaxFrames
            /\ UNCHANGED <<image_in, f_count, first_time>>
        BY <3>1 DEF GrabAndSkip, Grab
      <4> QED
        BY <1>0, <4>1 DEF ReaderInv
    <3>2. CASE SendSeesRoom
      BY <1>0, <3>2, Assumption DEF SendSeesRoom, ReaderInv, IsFull
    <3>3. CASE Prime
      BY <1>0, <3>3 DEF Prime, ReaderInv
    <3> QED
      BY <1>3, <3>1, <3>2, <3>3 DEF Reader
  <2> QED
    BY <1>0, <2>1, <2>2
       DEF FramesInOrder, CapacityRespected, NeverDrained, MainInv
<1>4. CASE ShowPops
  <2>1. GetSize(image_in) >= 2 /\ image_in.offset + GetSize(image_in) <= MaxFrames
    BY <1>0, <1>4 DEF ShowPops, MainInv, FramesInOrder
  <2>2. /\ IsVBuffer(image_in)' /\ Consecutive(image_in)'
        /\ image_in'.offset = image_in.offset + 1
        /\ GetSize(image_in)' = GetSize(image_in) - 1
        /\ shown' = image_in.offset
    BY <1>0, <1>4, <2>1, PopInOrder DEF ShowPops
  <2>3. shown' \in Frames /\ mpc' = "draw"
    BY <1>0, <1>4, <2>1, <2>2, Assumption DEF ShowPops, Frames
  <2>4. UNCHANGED <<image_out, rpc, f_count, first_time>> /\ mpc = "pop"
    BY <1>4 DEF ShowPops, readVars
  <2>5. FramesInOrder' /\ CapacityRespected' /\ NeverDrained'
    BY <1>0, <2>1, <2>2, <2>3, <2>4, Assumption
       DEF FramesInOrder, CapacityRespected, NeverDrained, Holding
  <2>6. ReaderInv' /\ MainInv'
    BY <1>0, <2>1, <2>2, <2>3, <2>4, Assumption
       DEF ReaderInv, MainInv, Holding
  <2> QED
    BY <1>0, <2>2, <2>4, <2>5, <2>6
<1>5. CASE OutPushes
  <2>1. /\ shown \in Frames /\ GetSize(image_out) < MaxSize
        /\ shown = image_out.offset + GetSize(image_out)
    BY <1>0, <1>5 DEF OutPushes, MainInv, FramesInOrder, Holding
  <2>2. /\ IsVBuffer(image_out)' /\ Consecutive(image_out)'
        /\ image_out'.offset = image_out.offset
        /\ GetSize(image_out)' = GetSize(image_out) + 1
    BY <1>0, <1>5, <2>1, PushInOrder DEF OutPushes
  <2>3. /\ UNCHANGED <<image_in, rpc, f_count, first_time, shown>>
        /\ mpc = "push" /\ mpc' = "show"
    BY <1>5 DEF OutPushes, readVars
  <2>4. FramesInOrder' /\ CapacityRespected' /\ NeverDrained'
    BY <1>0, <2>1, <2>2, <2>3, Assumption
       DEF FramesInOrder, CapacityRespected, NeverDrained, Holding
  <2>5. ReaderInv' /\ MainInv'
    BY <1>0, <2>3 DEF ReaderInv, MainInv, Holding
  <2> QED
    BY <1>0, <2>2, <2>3, <2>4, <2>5
<1>6. ASSUME Main, ~ShowPops, ~OutPushes
      PROVE  Goal
  <2>1. UNCHANGED <<image_in, image_out, rpc, f_count, first_time, shown>>
    BY <1>6 DEF Main, WaitEnds, WaitTicks, WaitTimesOut, ShowSeesTwo, Draw, OutSeesRoom, readVars
  <2>2. MainInv'
    BY <1>0, <1>6, Assumption
       DEF Main, WaitEnds, WaitTicks, WaitTimesOut, ShowSeesTwo, EnoughToShow, Draw,
           OutSeesRoom, MainInv, IsFull, Holding
  <2>3. FramesInOrder'
    <3>1. mpc' \in Holding <=> mpc \in Holding
      BY <1>6 DEF Main, WaitEnds, WaitTicks, WaitTimesOut, ShowSeesTwo, Draw, OutSeesRoom,
                  Holding
    <3> QED
      BY <1>0, <2>1, <3>1 DEF FramesInOrder
  <2>4. CapacityRespected' /\ NeverDrained' /\ ReaderInv'
    BY <1>0, <2>1 DEF CapacityRespected, NeverDrained, ReaderInv
  <2> QED
    BY <1>0, <2>1, <2>2, <2>3, <2>4
<1>7. CASE EncoderPops
  <2>1. GetSize(image_out) > 0 /\ image_out.offset + GetSize(image_out) <= MaxFrames
    BY <1>0, <1>7, Assumption DEF EncoderPops, FramesInOrder
  <2>2. /\ IsVBuffer(image_out)' /\ Consecutive(image_out)'
        /\ image_out'.offset = image_out.offset + 1
        /\ GetSize(image_out)' = GetSize(image_out) - 1
    BY <1>0, <1>7, <2>1, PopInOrder DEF EncoderPops
  <2>3. UNCHANGED <<image_in, rpc, f_count, first_time, mpc, shown>>
    BY <1>7 DEF EncoderPops, readVars, mainVars
  <2>4. FramesInOrder' /\ CapacityRespected' /\ NeverDrained'
    BY <1>0, <2>1, <2>2, <2>3, Assumption
       DEF FramesInOrder, CapacityRespected, NeverDrained
  <2>5. ReaderInv' /\ MainInv'
    BY <1>0, <2>2, <2>3, Assumption DEF ReaderInv, MainInv
  <2> QED
    BY <1>0, <2>2, <2>3, <2>4, <2>5
<1>8. ASSUME NEW k \in Detectors, Detector(k)
      PROVE  Goal
  BY <1>1, <1>8, DetectorFrame
<1>9. CASE UNCHANGED vars
  BY <1>1, <1>9 DEF vars
<1> QED
  BY <1>2, <1>3, <1>4, <1>5, <1>6, <1>7, <1>8, <1>9 DEF Next

-----------------------------------------------------------------------------
(* Type correctness, one part of the state at a time. *)

\* The variables of readFrames keep their types.
LEMMA TypeReaderStep ==
  ASSUME TypeReader, ReaderInv, [Next]_vars
  PROVE  TypeReader'
<1>1. ASSUME UNCHANGED readVars
      PROVE  TypeReader'
  BY <1>1 DEF TypeReader, readVars
<1>2. CASE Reader
  <2>1. CASE SendPushes
    BY <2>1, Assumption DEF SendPushes, TypeReader, ReaderInv
  <2>2. CASE GrabAndSkip \/ Grab \/ SendSeesRoom \/ Prime
    BY <2>2 DEF GrabAndSkip, Grab, SendSeesRoom, Prime, TypeReader
  <2> QED
    BY <1>2, <2>1, <2>2 DEF Reader
<1>3. CASE Main \/ EncoderPops
  BY <1>1, <1>3 DEF Main, WaitEnds, WaitTicks, WaitTimesOut, ShowSeesTwo, ShowPops, Draw,
                    OutSeesRoom, OutPushes, EncoderPops
<1>4. ASSUME NEW k \in Detectors, Detector(k)
      PROVE  TypeReader'
  BY <1>1, <1>4, DetectorFrame
<1> QED
  BY <1>1, <1>2, <1>3, <1>4 DEF Next, vars

\* The variables of the loop of main keep their types.
LEMMA TypeMainStep ==
  ASSUME TypeOK, StreamInv, [Next]_vars
  PROVE  TypeMain'
<1> USE DEF TypeOK
<1>1. ASSUME UNCHANGED mainVars
      PROVE  TypeMain'
  BY <1>1 DEF TypeMain, mainVars
<1>2. CASE ShowPops
  <2>1. Front(image_in) \in Frames \union {NoMessage}
    BY DEF TypeShared, IsVBuffer, Front, GetSize
  <2>2. << >> \in Seq(Results)
    OBVIOUS
  <2> QED
    BY <1>2, <2>1, <2>2 DEF ShowPops, TypeMain
<1>3. CASE Draw
  <2>1. ResultsAt(rects, shown) \in Seq(Results)
    BY DEF ResultsAt, TypeShared
  <2> QED
    BY <1>3, <2>1 DEF Draw, TypeMain
<1>4. CASE \/ WaitEnds \/ WaitTicks \/ WaitTimesOut \/ ShowSeesTwo
           \/ OutSeesRoom \/ OutPushes
  <2>1. CASE WaitTicks
    <3>1. waited + 1 \in 0..WaitLimit
      BY <2>1, Assumption DEF WaitTicks, TypeMain
    <3> QED
      BY <2>1, <3>1 DEF WaitTicks, TypeMain
  <2>2. CASE WaitTimesOut
    BY <2>2, Assumption DEF WaitTimesOut, TypeMain
  <2>3. CASE WaitEnds \/ ShowSeesTwo \/ OutSeesRoom \/ OutPushes
    BY <2>3 DEF WaitEnds, ShowSeesTwo, OutSeesRoom, OutPushes, TypeMain
  <2> QED
    BY <1>4, <2>1, <2>2, <2>3
<1>5. CASE Reader \/ EncoderPops
  BY <1>1, <1>5 DEF Reader, GrabAndSkip, Grab, SendSeesRoom, SendPushes, Prime,
                    EncoderPops
<1>6. ASSUME NEW k \in Detectors, Detector(k)
      PROVE  TypeMain'
  BY <1>1, <1>6, DetectorFrame
<1> QED
  BY <1>1, <1>2, <1>3, <1>4, <1>5, <1>6 DEF Next, vars, Main

\* The variables of the detectors keep their types, and what one holds between
\* two steps stays what its program counter says.
LEMMA TypeDetectorsStep ==
  ASSUME TypeOK, StreamInv, DetectorInv, [Next]_vars
  PROVE  TypeDetectors' /\ DetectorInv'
<1> DEFINE Goal == TypeDetectors' /\ DetectorInv'
<1>0. TypeDetectors
  BY DEF TypeOK
<1>1. ASSUME UNCHANGED detectVars
      PROVE  Goal
  BY <1>0, <1>1 DEF TypeDetectors, DetectorInv, detectVars
<1>2. ASSUME NEW k \in Detectors, Detector(k)
      PROVE  Goal
  <2> USE DEF Goto, Examining, Storing
  <2>1. CASE Register(k) \/ CheckPosition(k) \/ MarkReady(k)
             \/ StoreSeesSize(k) \/ StoreEvicts(k)
    BY <1>0, <2>1 DEF Register, CheckPosition, MarkReady, StoreSeesSize,
                     StoreEvicts, TypeDetectors, DetectorInv
  <2>2. CASE Jump(k)
    <3>1. GetPopCounter(image_in) + detected_frames[k] \in Keys
      BY <1>0, Assumption
         DEF TypeOK, TypeShared, IsVBuffer, GetPopCounter, TypeDetectors, Keys
    <3> QED
      BY <1>0, <2>2, <3>1 DEF Jump, TypeDetectors, DetectorInv
  <2>3. CASE ReceiveFrame(k)
    <3> DEFINE frame == Receive(image_in, d_count[k])
    <3>1. /\ IsVBuffer(image_in) /\ Consecutive(image_in)
          /\ GetSize(image_in) <= MaxSize /\ d_count[k] \in Keys
      BY <1>0 DEF TypeOK, TypeShared, StreamInv, FramesInOrder,
                  CapacityRespected, TypeDetectors
    <3>2. \/ frame = NoMessage
          \/ /\ frame = d_count[k]
             /\ frame \in image_in.offset .. image_in.offset + GetSize(image_in) - 1
      BY <3>1, ReceiveExact
    <3>3. /\ image_in.offset \in Nat /\ GetSize(image_in) \in Nat
          /\ image_in.offset + GetSize(image_in) <= MaxFrames
      BY <3>1 DEF IsVBuffer, GetSize, StreamInv, FramesInOrder, TypeOK, TypeReader
    <3>4. \/ frame = NoMessage
          \/ frame = d_count[k] /\ frame \in Frames
      BY <3>2, <3>3, Assumption DEF Frames
    <3>5. /\ dpc' = [dpc EXCEPT ![k] =
                       IF frame = NoMessage THEN "check" ELSE "detect"]
          /\ current' = [current EXCEPT ![k] = frame]
          /\ UNCHANGED <<d_count, detected_frames, stored, warm>>
      BY <2>3 DEF ReceiveFrame
    <3> QED
      BY <1>0, <3>4, <3>5 DEF TypeDetectors, DetectorInv
  <2>4. CASE Detect(k)
    <3>1. PICK n \in 1..MaxBatch, found \in BOOLEAN :
            /\ dpc[k] = "detect"
            /\ dpc' = [dpc EXCEPT ![k] = IF ~warm[k] THEN "ready"
                                         ELSE IF found THEN "store" ELSE "check"]
            /\ detected_frames' = [detected_frames EXCEPT ![k] = n]
            /\ stored' = [stored EXCEPT ![k] = 0]
            /\ d_count' = IF warm[k] /\ ~found THEN Advanced(k, n) ELSE d_count
            /\ UNCHANGED <<current, warm>>
      BY <2>4 DEF Detect
    <3>2. current[k] \in Frames /\ current[k] = d_count[k]
      BY <3>1 DEF DetectorInv
    <3>3. d_count[k] + n \in Keys
      BY <3>1, <3>2, Assumption DEF Frames, Keys
    <3>4. TypeDetectors'
      BY <1>0, <3>1, <3>3, Assumption DEF TypeDetectors, Advanced
    <3>5. /\ dpc'[k] \in {"ready", "store", "check"} /\ current'[k] = current[k]
          /\ stored'[k] = 0 /\ detected_frames'[k] \in 1..MaxBatch
          /\ dpc'[k] # "check" => d_count'[k] = d_count[k]
      BY <1>0, <3>1 DEF TypeDetectors
    <3>6. \A j \in Detectors \ {k} :
            /\ dpc'[j] = dpc[j] /\ current'[j] = current[j]
            /\ stored'[j] = stored[j] /\ d_count'[j] = d_count[j]
            /\ detected_frames'[j] = detected_frames[j]
      BY <1>0, <3>1 DEF TypeDetectors, Advanced
    <3> QED
      BY <3>2, <3>4, <3>5, <3>6, Assumption DEF DetectorInv
  <2>5. CASE StorePuts(k)
    <3>1. /\ dpc[k] = "put" /\ current[k] \in Frames /\ current[k] = d_count[k]
          /\ stored[k] < detected_frames[k]
      BY <2>5 DEF StorePuts, DetectorInv
    <3>2. d_count[k] + detected_frames[k] \in Keys
      BY <1>0, <3>1, Assumption DEF Frames, Keys, TypeDetectors
    <3>3. LastOfBatch(k) \/ (stored[k] + 1 \in 0..MaxBatch - 1
                             /\ stored[k] + 1 < detected_frames[k])
      BY <1>0, <3>1, Assumption DEF LastOfBatch, TypeDetectors
    <3>4. /\ dpc' = [dpc EXCEPT ![k] = IF LastOfBatch(k) THEN "check" ELSE "store"]
          /\ stored' = [stored EXCEPT ![k] =
                          IF LastOfBatch(k) THEN 0 ELSE stored[k] + 1]
          /\ d_count' = IF LastOfBatch(k) THEN Advanced(k, detected_frames[k])
                                          ELSE d_count
          /\ UNCHANGED <<detected_frames, current, warm>>
      BY <2>5 DEF StorePuts
    <3> QED
      BY <1>0, <3>1, <3>2, <3>3, <3>4, Assumption
         DEF TypeDetectors, DetectorInv, Advanced
  <2> QED
    BY <1>2, <2>1, <2>2, <2>3, <2>4, <2>5 DEF Detector
<1>3. CASE Reader \/ Main \/ EncoderPops
  BY <1>1, <1>3, DisplayFrame
<1> QED
  BY <1>1, <1>2, <1>3 DEF Next, vars

-----------------------------------------------------------------------------
(* Positions only grow. *)

\* Frames are numbered in the order they leave the queue and never twice.
LEMMA CountersGrow ==
  ASSUME TypeOK, StreamInv, [Next]_vars
  PROVE  /\ image_in'.offset >= image_in.offset /\ f_count' >= f_count
         /\ image_in'.offset \in Nat /\ f_count' \in Nat
<1> DEFINE Goal == /\ image_in'.offset >= image_in.offset /\ f_count' >= f_count
                   /\ image_in'.offset \in Nat /\ f_count' \in Nat
<1>0. image_in.offset \in Nat /\ f_count \in Nat
  BY DEF TypeOK, TypeShared, TypeReader, IsVBuffer
<1>1. ASSUME UNCHANGED <<image_in, f_count>>
      PROVE  Goal
  BY <1>0, <1>1
<1>2. CASE SendPushes
  BY <1>0, <1>2 DEF SendPushes, Push, TypeOK, TypeShared, IsVBuffer
<1>3. CASE ShowPops
  BY <1>0, <1>3 DEF ShowPops, Pop, readVars
<1>4. ASSUME Reader, ~SendPushes
      PROVE  UNCHANGED <<image_in, f_count>>
  BY <1>4 DEF Reader, GrabAndSkip, Grab, SendSeesRoom, Prime
<1>5. ASSUME Main \/ EncoderPops, ~ShowPops
      PROVE  UNCHANGED <<image_in, f_count>>
  BY <1>5 DEF Main, WaitEnds, WaitTicks, WaitTimesOut, ShowSeesTwo, Draw,
              OutSeesRoom, OutPushes, EncoderPops, readVars
<1>6. ASSUME NEW k \in Detectors, Detector(k)
      PROVE  UNCHANGED <<image_in, f_count>>
  BY <1>6, DetectorFrame DEF readVars
<1> QED
  BY <1>1, <1>2, <1>3, <1>4, <1>5, <1>6 DEF Next, vars, readVars

\* No detector is ahead of the queue it reads from.
LEMMA PositionStep ==
  ASSUME TypeOK, StreamInv, DetectorInv, PositionInv, [Next]_vars
  PROVE  PositionInv'
<1>0. /\ TypeDetectors /\ image_in.offset \in Nat /\ f_count \in Nat
      /\ GetSize(image_in) \in Nat
      /\ \A k \in Detectors : d_count[k] \in Nat
      /\ \A k \in Detectors : dpc[k] \in Examining => current[k] \in Nat
  BY Assumption
     DEF TypeOK, TypeShared, TypeReader, TypeDetectors, IsVBuffer, DetectorInv,
         Frames, Keys, GetSize
<1>1. ASSUME UNCHANGED detectVars
      PROVE  PositionInv'
  <2>1. /\ image_in'.offset >= image_in.offset /\ f_count' >= f_count
        /\ image_in'.offset \in Nat /\ f_count' \in Nat
    BY CountersGrow
  <2> QED
    BY <1>0, <1>1, <2>1 DEF PositionInv, detectVars
<1>2. ASSUME NEW k \in Detectors, Detector(k)
      PROVE  PositionInv'
  <2> USE DEF Goto, Examining
  <2>0. UNCHANGED <<image_in, f_count>>
    BY <1>2, DetectorFrame DEF readVars
  <2>1. CASE ReceiveFrame(k)
    <3> DEFINE frame == Receive(image_in, d_count[k])
    <3>1. /\ IsVBuffer(image_in) /\ Consecutive(image_in)
          /\ GetSize(image_in) <= MaxSize /\ d_count[k] \in Keys
      BY <1>0 DEF TypeOK, TypeShared, StreamInv, FramesInOrder,
                  CapacityRespected, TypeDetectors
    <3>2. frame = NoMessage \/ frame < f_count
      BY <1>0, <3>1, ReceiveExact DEF StreamInv, FramesInOrder
    <3>3. /\ dpc' = [dpc EXCEPT ![k] =
                       IF frame = NoMessage THEN "check" ELSE "detect"]
          /\ current' = [current EXCEPT ![k] = frame]
          /\ UNCHANGED d_count
      BY <2>1 DEF ReceiveFrame
    <3> QED
      BY <1>0, <2>0, <3>2, <3>3 DEF TypeDetectors, PositionInv
  <2>2. CASE CheckPosition(k)
    BY <1>0, <2>0, <2>2
       DEF CheckPosition, FallenBehind, GetPopCounter, TypeDetectors, PositionInv
  <2>3. CASE Register(k) \/ Jump(k) \/ MarkReady(k) \/ StoreSeesSize(k)
             \/ StoreEvicts(k) \/ StorePuts(k)
    BY <1>0, <2>0, <2>3
       DEF Register, Jump, MarkReady, StoreSeesSize, StoreEvicts, StorePuts,
           Advanced, TypeDetectors, PositionInv
  <2>4. CASE Detect(k)
    BY <1>0, <2>0, <2>4 DEF Detect, Advanced, TypeDetectors, PositionInv
  <2> QED
    BY <1>2, <2>1, <2>2, <2>3, <2>4 DEF Detector
<1>3. CASE Reader \/ Main \/ EncoderPops
  BY <1>1, <1>3, DisplayFrame
<1> QED
  BY <1>1, <1>2, <1>3 DEF Next, vars

\* A detector files a result at its frontier and leaves it behind.
LEMMA FilingStep ==
  ASSUME TypeOK, StreamInv, DetectorInv, PositionInv,
         NEW k \in Detectors, StorePuts(k)
  PROVE  /\ FiledAt(k) = Frontier[k]
         /\ Frontier' = [Frontier EXCEPT ![k] = Frontier[k] + 1]
         /\ Frontier[k] + 1 \in Frontier[k] + 1 .. f_count + MaxBatch - 1
<1> USE DEF Goto
<1>0. /\ TypeDetectors /\ f_count \in Nat
      /\ d_count[k] \in Nat /\ detected_frames[k] \in 1..MaxBatch
      /\ stored[k] \in Nat
  BY Assumption DEF TypeOK, TypeReader, TypeDetectors, Keys
<1>1. /\ dpc[k] = "put" /\ current[k] = d_count[k] /\ current[k] < f_count
      /\ stored[k] < detected_frames[k] /\ Frontier[k] = current[k] + stored[k]
  BY DEF StorePuts, DetectorInv, PositionInv, Examining, Storing, Frontier
<1>2. /\ dpc' = [dpc EXCEPT ![k] = IF LastOfBatch(k) THEN "check" ELSE "store"]
      /\ stored' = [stored EXCEPT ![k] =
                      IF LastOfBatch(k) THEN 0 ELSE stored[k] + 1]
      /\ d_count' = IF LastOfBatch(k) THEN Advanced(k, detected_frames[k])
                                      ELSE d_count
      /\ UNCHANGED current
  BY DEF StorePuts
<1>3. Frontier' = [Frontier EXCEPT ![k] = current[k] + stored[k] + 1]
  <2>1. CASE LastOfBatch(k)
    <3>1. current[k] + detected_frames[k] = current[k] + stored[k] + 1
      BY <1>0, <1>1, <2>1 DEF LastOfBatch
    <3> QED
      BY <1>0, <1>1, <1>2, <2>1, <3>1
         DEF Frontier, Storing, TypeDetectors, Advanced
  <2>2. CASE ~LastOfBatch(k)
    <3>1. current[k] + (stored[k] + 1) = current[k] + stored[k] + 1
      BY <1>0, <1>1
    <3> QED
      BY <1>0, <1>1, <1>2, <2>2, <3>1 DEF Frontier, Storing, TypeDetectors
  <2> QED
    BY <2>1, <2>2
<1>4. current[k] + stored[k] + 1 \in Frontier[k] + 1 .. f_count + MaxBatch - 1
  BY <1>0, <1>1, Assumption
<1> QED
  BY <1>1, <1>3, <1>4 DEF FiledAt

\* A detector step leaves every frontier alone, or moves the frontier of this
\* detector forward to a frame less than a batch ahead of the frames read.
LEMMA FrontierStep ==
  ASSUME TypeOK, StreamInv, DetectorInv, PositionInv,
         NEW k \in Detectors, Detector(k)
  PROVE  \/ Frontier' = Frontier
         \/ \E f \in Frontier[k] + 1 .. f_count + MaxBatch - 1 :
              Frontier' = [Frontier EXCEPT ![k] = f]
<1> USE DEF Goto
<1>0. /\ TypeDetectors /\ image_in.offset \in Nat /\ f_count \in Nat
      /\ GetSize(image_in) \in Nat
      /\ d_count[k] \in Nat /\ detected_frames[k] \in 1..MaxBatch
      /\ stored[k] \in Nat
  BY Assumption DEF TypeOK, TypeShared, TypeReader, IsVBuffer, TypeDetectors,
                    GetSize, Keys
<1>1. ASSUME UNCHANGED <<d_count, stored, current>>,
             dpc[k] \in Storing <=> dpc'[k] \in Storing,
             \A j \in Detectors \ {k} : dpc'[j] = dpc[j]
      PROVE  Frontier' = Frontier
  BY <1>1 DEF Frontier
<1>2. CASE Register(k) \/ CheckPosition(k) \/ MarkReady(k)
           \/ StoreSeesSize(k) \/ StoreEvicts(k)
  <2>1. /\ UNCHANGED <<d_count, stored, current>>
        /\ \A j \in Detectors \ {k} : dpc'[j] = dpc[j]
    BY <1>0, <1>2 DEF Register, CheckPosition, MarkReady, StoreSeesSize,
                      StoreEvicts, TypeDetectors
  <2>2. dpc[k] \in Storing <=> dpc'[k] \in Storing
    BY <1>0, <1>2 DEF Register, CheckPosition, MarkReady, StoreSeesSize,
                      StoreEvicts, TypeDetectors, Storing
  <2> QED
    BY <1>1, <2>1, <2>2
<1>3. CASE ReceiveFrame(k)
  <2>1. /\ UNCHANGED <<d_count, stored>>
        /\ dpc[k] = "receive" /\ dpc'[k] \in {"check", "detect"}
        /\ \A j \in Detectors \ {k} : dpc'[j] = dpc[j] /\ current'[j] = current[j]
    BY <1>0, <1>3 DEF ReceiveFrame, TypeDetectors
  <2> QED
    BY <2>1 DEF Frontier, Storing
<1>4. CASE Jump(k)
  <2> DEFINE f == image_in.offset + detected_frames[k]
  <2>1. d_count[k] < image_in.offset
    BY <1>4 DEF Jump, PositionInv
  <2>2. image_in.offset < f_count
    BY <1>0, <2>1 DEF StreamInv, FramesInOrder, NeverDrained
  <2>3. /\ dpc[k] = "jump" /\ dpc' = [dpc EXCEPT ![k] = "receive"]
        /\ d_count' = [d_count EXCEPT ![k] = f] /\ UNCHANGED <<stored, current>>
    BY <1>4 DEF Jump, GetPopCounter
  <2>4. Frontier' = [Frontier EXCEPT ![k] = f] /\ Frontier[k] = d_count[k]
    BY <1>0, <2>3 DEF Frontier, Storing, TypeDetectors
  <2>5. f \in Frontier[k] + 1 .. f_count + MaxBatch - 1
    BY <1>0, <2>1, <2>2, <2>4, Assumption
  <2> QED
    BY <2>4, <2>5
<1>5. CASE Detect(k)
  <2>1. PICK n \in 1..MaxBatch, found \in BOOLEAN :
          /\ dpc[k] = "detect"
          /\ dpc' = [dpc EXCEPT ![k] = IF ~warm[k] THEN "ready"
                                       ELSE IF found THEN "store" ELSE "check"]
          /\ stored' = [stored EXCEPT ![k] = 0]
          /\ d_count' = IF warm[k] /\ ~found THEN Advanced(k, n) ELSE d_count
          /\ UNCHANGED current
    BY <1>5 DEF Detect
  <2>2. /\ current[k] = d_count[k] /\ current[k] < f_count
        /\ Frontier[k] = d_count[k]
    BY <2>1 DEF DetectorInv, PositionInv, Examining, Frontier, Storing
  <2>3. CASE warm[k] /\ ~found
    <3>1. Frontier' = [Frontier EXCEPT ![k] = d_count[k] + n]
      BY <1>0, <2>1, <2>3 DEF Frontier, Storing, TypeDetectors, Advanced
    <3>2. d_count[k] + n \in Frontier[k] + 1 .. f_count + MaxBatch - 1
      BY <1>0, <2>1, <2>2, Assumption
    <3> QED
      BY <3>1, <3>2
  <2>4. CASE ~(warm[k] /\ ~found)
    <3>1. /\ dpc'[k] \in {"ready", "store"} /\ stored'[k] = 0 /\ d_count' = d_count
          /\ \A j \in Detectors \ {k} : dpc'[j] = dpc[j] /\ stored'[j] = stored[j]
      BY <1>0, <2>1, <2>4 DEF TypeDetectors
    <3> QED
      BY <1>0, <2>1, <2>2, <3>1 DEF Frontier, Storing
  <2> QED
    BY <2>3, <2>4
<1>6. CASE StorePuts(k)
  BY <1>6, FilingStep
<1> QED
  BY <1>2, <1>3, <1>4, <1>5, <1>6 DEF Detector
-----------------------------------------------------------------------------
(* The map of results. *)

HoldsResults(m) ==
  DOMAIN m \subseteq Keys /\ \A t \in DOMAIN m : m[t] \in Seq(Results)

\* Erasing a timestamp leaves the others with their results.
LEMMA EraseShape ==
  ASSUME NEW m, NEW at, HoldsResults(m)
  PROVE  /\ HoldsResults(Erase(m, at))
         /\ \A t \in DOMAIN Erase(m, at) :
              t \in DOMAIN m /\ Erase(m, at)[t] = m[t]
  BY DEF Erase, HoldsResults

\* Storing a result appends it to those of its timestamp and to no other.
LEMMA StoreShape ==
  ASSUME NEW m, HoldsResults(m), NEW at \in Keys, NEW r \in Results
  PROVE  /\ HoldsResults(Store(m, at, r))
         /\ \A t \in DOMAIN Store(m, at, r) : \A i \in 1..Len(Store(m, at, r)[t]) :
              \/ /\ t \in DOMAIN m /\ i \in 1..Len(m[t])
                 /\ Store(m, at, r)[t][i] = m[t][i]
              \/ /\ t = at /\ i = Len(ResultsAt(m, at)) + 1
                 /\ Store(m, at, r)[t][i] = r
<1> DEFINE new == Store(m, at, r)
           old == ResultsAt(m, at)
<1>1. old \in Seq(Results) /\ (at \in DOMAIN m => old = m[at])
      /\ (at \notin DOMAIN m => Len(old) = 0)
  BY DEF ResultsAt, HoldsResults
<1>2. /\ DOMAIN new = DOMAIN m \union {at}
      /\ new[at] = Append(old, r)
      /\ \A t \in DOMAIN m \ {at} : new[t] = m[t]
  BY DEF Store
<1>3. /\ Append(old, r) \in Seq(Results)
      /\ Len(Append(old, r)) = Len(old) + 1
      /\ \A i \in 1..Len(old) : Append(old, r)[i] = old[i]
      /\ Append(old, r)[Len(old) + 1] = r
  BY <1>1
<1>4. HoldsResults(new)
  BY <1>2, <1>3 DEF HoldsResults
<1>5. ASSUME NEW t \in DOMAIN new, NEW i \in 1..Len(new[t])
      PROVE  \/ /\ t \in DOMAIN m /\ i \in 1..Len(m[t]) /\ new[t][i] = m[t][i]
             \/ /\ t = at /\ i = Len(old) + 1 /\ new[t][i] = r
  <2>1. CASE t # at
    BY <1>2, <1>5, <2>1
  <2>2. CASE t = at
    <3>1. Len(old) \in Nat /\ i \in 1..Len(old) + 1
      BY <1>1, <1>2, <1>3, <1>5, <2>2
    <3>2. CASE i = Len(old) + 1
      BY <1>2, <1>3, <2>2, <3>2
    <3>3. CASE i \in 1..Len(old)
      <4>1. at \in DOMAIN m
        BY <1>1, <3>1, <3>3
      <4> QED
        BY <1>1, <1>2, <1>3, <2>2, <3>3, <4>1
    <3> QED
      BY <3>1, <3>2, <3>3
  <2> QED
    BY <2>1, <2>2
<1> QED
  BY <1>4, <1>5

\* The queues and the maps of results keep their types.
LEMMA TypeSharedStep ==
  ASSUME TypeOK, StreamInv, DetectorInv, [Next]_vars
  PROVE  TypeShared'
<1>0. /\ IsVBuffer(image_in)' /\ IsVBuffer(image_out)'
      /\ HoldsResults(rects) /\ TypeDetectors
  BY StreamStep DEF TypeOK, TypeShared, HoldsResults
<1> DEFINE Ready(r) == DOMAIN r \subseteq Detectors
                       /\ \A k \in DOMAIN r : r[k] \in {0, 1}
<1>1. ASSUME HoldsResults(rects'), Ready(data_ready')
      PROVE  TypeShared'
  BY <1>0, <1>1 DEF TypeShared, HoldsResults
<1>2. Ready(data_ready)
  BY DEF TypeOK, TypeShared
<1>3. CASE Draw
  BY <1>0, <1>1, <1>2, <1>3, EraseShape DEF Draw
<1>4. ASSUME Reader \/ Main \/ EncoderPops, ~Draw
      PROVE  TypeShared'
  <2>1. UNCHANGED <<rects, data_ready>>
    BY <1>4, DisplayFrame
       DEF Reader, GrabAndSkip, Grab, SendSeesRoom, SendPushes, Prime, Main,
           WaitEnds, WaitTicks, WaitTimesOut, ShowSeesTwo, ShowPops, OutSeesRoom,
           OutPushes, EncoderPops
  <2> QED
    BY <1>0, <1>1, <1>2, <2>1
<1>5. ASSUME NEW k \in Detectors, Detector(k)
      PROVE  TypeShared'
  <2>1. CASE Register(k) \/ MarkReady(k)
    <3>1. Ready(data_ready') /\ UNCHANGED rects
      BY <1>2, <2>1 DEF Register, MarkReady, SetDataReady
    <3> QED
      BY <1>0, <1>1, <3>1
  <2>2. CASE StoreEvicts(k)
    BY <1>0, <1>1, <1>2, <2>2, EraseShape DEF StoreEvicts
  <2>3. CASE StorePuts(k)
    <3>1. current[k] \in Frames /\ stored[k] \in 0..MaxBatch - 1
      BY <1>0, <2>3 DEF StorePuts, Goto, DetectorInv, Examining, TypeDetectors
    <3>2. FiledAt(k) \in Keys /\ [by |-> k, of |-> current[k]] \in Results
      BY <3>1, Assumption DEF FiledAt, Frames, Keys, Results
    <3> QED
      BY <1>0, <1>1, <1>2, <2>3, <3>2, StoreShape DEF StorePuts
  <2>4. CASE CheckPosition(k) \/ Jump(k) \/ ReceiveFrame(k) \/ Detect(k)
             \/ StoreSeesSize(k)
    <3>1. UNCHANGED <<rects, data_ready>>
      BY <2>4 DEF CheckPosition, Jump, ReceiveFrame, Detect, StoreSeesSize
    <3> QED
      BY <1>0, <1>1, <1>2, <3>1
  <2> QED
    BY <1>5, <2>1, <2>2, <2>3, <2>4 DEF Detector
<1>6. CASE UNCHANGED vars
  BY <1>0, <1>1, <1>2, <1>6 DEF vars
<1> QED
  BY <1>3, <1>4, <1>5, <1>6 DEF Next
-----------------------------------------------------------------------------
(* Results: a detector files at its frontier, which it then leaves behind. *)

\* The frame a detector will file at next only moves forward.
LEMMA FrontierGrows ==
  ASSUME TypeOK, StreamInv, DetectorInv, PositionInv, [Next]_vars
  PROVE  \A k \in Detectors :
           Frontier[k] \in Nat /\ Frontier'[k] \in Nat /\ Frontier[k] <= Frontier'[k]
<1>1. \A k \in Detectors : Frontier[k] \in Nat
  BY Assumption DEF TypeOK, TypeDetectors, DetectorInv, Frontier, Storing, Examining,
                    Frames, Keys
<1>2. ASSUME UNCHANGED detectVars
      PROVE  Frontier' = Frontier
  BY <1>2 DEF detectVars, Frontier
<1>3. ASSUME Frontier' = Frontier
      PROVE  \A k \in Detectors : Frontier'[k] \in Nat /\ Frontier[k] <= Frontier'[k]
  BY <1>1, <1>3
<1>4. ASSUME NEW k \in Detectors, Detector(k)
      PROVE  \A j \in Detectors : Frontier'[j] \in Nat /\ Frontier[j] <= Frontier'[j]
  <2>1. CASE Frontier' = Frontier
    BY <1>3, <2>1
  <2>2. CASE Frontier' # Frontier
    <3>1. PICK f \in Frontier[k] + 1 .. f_count + MaxBatch - 1 :
            Frontier' = [Frontier EXCEPT ![k] = f]
      BY <1>4, <2>2, FrontierStep
    <3>2. f \in Nat /\ Frontier[k] <= f
      BY <1>1, <3>1, Assumption DEF TypeOK, TypeReader
    <3>3. DOMAIN Frontier = Detectors
      BY DEF Frontier
    <3> QED
      BY <1>1, <3>1, <3>2, <3>3
  <2> QED
    BY <2>1, <2>2
<1>5. ASSUME Reader \/ Main \/ EncoderPops \/ UNCHANGED vars
      PROVE  UNCHANGED detectVars
  BY <1>5, DisplayFrame DEF vars
<1>6. \A j \in Detectors : Frontier'[j] \in Nat /\ Frontier[j] <= Frontier'[j]
  BY <1>2, <1>3, <1>4, <1>5 DEF Next
<1> QED
  BY <1>1, <1>6

\* A detector leaves the frame it filed at behind, so it files there once.
LEMMA ResultStep ==
  ASSUME IInv, [Next]_vars
  PROVE  ResultInv' /\ NoDuplicateResult'
<1> DEFINE Goal == ResultInv' /\ NoDuplicateResult'
<1>0. /\ HoldsResults(rects) /\ TypeDetectors
      /\ \A k \in Detectors : Frontier[k] \in Nat /\ Frontier'[k] \in Nat
                              /\ Frontier[k] <= Frontier'[k]
  BY FrontierGrows DEF IInv, TypeOK, TypeShared, HoldsResults
<1>1. ASSUME NEW t \in DOMAIN rects, NEW i \in 1..Len(rects[t])
      PROVE  /\ t \in Nat /\ i \in Nat /\ rects[t][i] \in Results
             /\ rects[t][i].by \in Detectors /\ rects[t][i].of \in Nat
  <2>1. t \in Nat /\ rects[t] \in Seq(Results)
    BY <1>0, <1>1, Assumption DEF HoldsResults, Keys
  <2>2. i \in Nat /\ rects[t][i] \in Results
    BY <1>1, <2>1
  <2> QED
    BY <2>1, <2>2, Assumption DEF Results, Frames
<1>2. ASSUME \A t \in DOMAIN rects' : t \in DOMAIN rects /\ rects'[t] = rects[t]
      PROVE  Goal
  <2>1. ResultInv'
    <3> SUFFICES ASSUME NEW t \in DOMAIN rects, NEW i \in 1..Len(rects[t])
                 PROVE  /\ rects[t][i].of <= t /\ t < rects[t][i].of + MaxBatch
                        /\ t < Frontier'[rects[t][i].by]
      BY <1>2 DEF ResultInv
    <3> QED
      BY <1>0, <1>1 DEF IInv, ResultInv
  <2> QED
    BY <1>2, <2>1 DEF IInv, NoDuplicateResult
<1>3. CASE Draw
  BY <1>0, <1>2, <1>3, EraseShape DEF Draw
<1>4. ASSUME Reader \/ Main \/ EncoderPops, ~Draw
      PROVE  UNCHANGED rects
  BY <1>4
     DEF Reader, GrabAndSkip, Grab, SendSeesRoom, SendPushes, Prime, Main,
         WaitEnds, WaitTicks, WaitTimesOut, ShowSeesTwo, ShowPops, OutSeesRoom,
         OutPushes, EncoderPops
<1>5. ASSUME NEW k \in Detectors, Detector(k), ~StorePuts(k)
      PROVE  Goal
  <2>1. CASE StoreEvicts(k)
    BY <1>0, <1>2, <2>1, EraseShape DEF StoreEvicts
  <2>2. ASSUME ~StoreEvicts(k)
        PROVE  UNCHANGED rects
    BY <1>5, <2>2 DEF Detector, Register, CheckPosition, Jump, ReceiveFrame,
                      Detect, MarkReady, StoreSeesSize
  <2> QED
    BY <1>2, <2>1, <2>2
<1>6. ASSUME NEW k \in Detectors, StorePuts(k)
      PROVE  Goal
  <2> DEFINE at  == FiledAt(k)
             new == [by |-> k, of |-> current[k]]
  <2>1. /\ dpc[k] = "put" /\ current[k] \in Frames /\ stored[k] \in 0..MaxBatch - 1
        /\ rects' = Store(rects, at, new)
    BY <1>0, <1>6
       DEF StorePuts, Goto, IInv, DetectorInv, Examining, TypeDetectors
  <2>2. /\ at \in Keys /\ new \in Results /\ at = Frontier[k]
        /\ current[k] <= at /\ at < current[k] + MaxBatch
    BY <2>1, Assumption DEF FiledAt, Frames, Keys, Results, Frontier, Storing
  <2>3. at < Frontier'[k]
    <3>1. Frontier' # Frontier
      <4>1. CASE LastOfBatch(k)
        <5>1. /\ dpc'[k] = "check" /\ d_count'[k] = d_count[k] + detected_frames[k]
              /\ d_count[k] = current[k] /\ detected_frames[k] = stored[k] + 1
          BY <1>0, <1>6, <2>1, <4>1
             DEF StorePuts, Goto, Advanced, LastOfBatch, TypeDetectors, IInv,
                 DetectorInv, Examining
        <5>2. Frontier'[k] = current[k] + (stored[k] + 1)
          BY <5>1 DEF Frontier, Storing
        <5> QED
          BY <2>1, <2>2, <5>2, Assumption DEF Frames, FiledAt
      <4>2. CASE ~LastOfBatch(k)
        <5>1. /\ dpc'[k] = "store" /\ stored'[k] = stored[k] + 1
              /\ current'[k] = current[k]
          BY <1>0, <1>6, <2>1, <4>2 DEF StorePuts, Goto, TypeDetectors
        <5>2. Frontier'[k] = current[k] + (stored[k] + 1)
          BY <5>1 DEF Frontier, Storing
        <5> QED
          BY <2>1, <2>2, <5>2, Assumption DEF Frames, FiledAt
      <4> QED
        BY <4>1, <4>2
    <3>2. PICK f \in Frontier[k] + 1 .. f_count + MaxBatch - 1 :
            Frontier' = [Frontier EXCEPT ![k] = f]
      BY <1>6, <3>1, FrontierStep DEF IInv, Detector
    <3>3. DOMAIN Frontier = Detectors
      BY DEF Frontier
    <3> QED
      BY <1>0, <2>2, <3>2, <3>3
  <2>4. \A t \in DOMAIN rects' : \A i \in 1..Len(rects'[t]) :
          \/ /\ t \in DOMAIN rects /\ i \in 1..Len(rects[t])
             /\ rects'[t][i] = rects[t][i]
          \/ /\ t = at /\ i = Len(ResultsAt(rects, at)) + 1
             /\ rects'[t][i] = new
    BY <1>0, <2>1, <2>2, StoreShape
  <2>5. ResultInv'
    <3> SUFFICES ASSUME NEW t \in DOMAIN rects', NEW i \in 1..Len(rects'[t])
                 PROVE  /\ rects'[t][i].of <= t /\ t < rects'[t][i].of + MaxBatch
                        /\ t < Frontier'[rects'[t][i].by]
      BY DEF ResultInv
    <3>1. CASE rects'[t][i] = new /\ t = at
      BY <2>2, <2>3, <3>1
    <3>2. CASE t \in DOMAIN rects /\ i \in 1..Len(rects[t])
               /\ rects'[t][i] = rects[t][i]
      BY <1>0, <1>1, <3>2 DEF IInv, ResultInv
    <3> QED
      BY <2>4, <3>1, <3>2
  <2>6. NoDuplicateResult'
    <3> SUFFICES ASSUME NEW t \in DOMAIN rects', NEW i \in 1..Len(rects'[t]),
                        NEW j \in 1..Len(rects'[t]),
                        rects'[t][i].by = rects'[t][j].by
                 PROVE  i = j
      BY DEF NoDuplicateResult
    <3> DEFINE Old(n) == /\ t \in DOMAIN rects /\ n \in 1..Len(rects[t])
                         /\ rects'[t][n] = rects[t][n]
               New(n) == /\ t = at /\ n = Len(ResultsAt(rects, at)) + 1
                         /\ rects'[t][n] = new
    <3>1. (Old(i) \/ New(i)) /\ (Old(j) \/ New(j))
      BY <2>4
    <3>2. ASSUME NEW n, Old(n), t = at
          PROVE  rects[t][n].by # k
      BY <1>0, <1>1, <2>2, <3>2 DEF IInv, ResultInv
    <3>3. CASE Old(i) /\ Old(j)
      BY <3>3 DEF IInv, NoDuplicateResult
    <3>4. CASE Old(i) /\ New(j)
      BY <3>2, <3>4
    <3>5. CASE New(i) /\ Old(j)
      BY <3>2, <3>5
    <3> QED
      BY <3>1, <3>3, <3>4, <3>5
  <2> QED
    BY <2>5, <2>6
<1>7. CASE UNCHANGED vars
  BY <1>2, <1>7 DEF vars
<1> QED
  BY <1>2, <1>3, <1>4, <1>5, <1>6, <1>7 DEF Next

\* What main draws was filed for the batch of the frame it shows.
LEMMA DrawnStep ==
  ASSUME IInv, [Next]_vars
  PROVE  DrawnBelongs'
<1>1. CASE Draw
  <2>1. shown' = shown /\ drawn' = ResultsAt(rects, shown)
    BY <1>1 DEF Draw
  <2>2. CASE shown \in DOMAIN rects
    <3>1. drawn' = rects[shown]
      BY <2>1, <2>2 DEF ResultsAt
    <3>2. \A i \in 1..Len(rects[shown]) :
            /\ rects[shown][i].of <= shown /\ shown < rects[shown][i].of + MaxBatch
            /\ \A j \in 1..Len(rects[shown]) :
                 rects[shown][i].by = rects[shown][j].by => i = j
      BY <2>2 DEF IInv, ResultInv, NoDuplicateResult
    <3> QED
      BY <2>1, <3>1, <3>2 DEF DrawnBelongs
  <2>3. CASE shown \notin DOMAIN rects
    BY <2>1, <2>3 DEF ResultsAt, DrawnBelongs
  <2> QED
    BY <2>2, <2>3
<1>2. CASE ShowPops
  BY <1>2 DEF ShowPops, DrawnBelongs
<1>3. ASSUME UNCHANGED <<shown, drawn>>
      PROVE  DrawnBelongs'
  BY <1>3 DEF IInv, DrawnBelongs
<1>4. ASSUME Reader \/ Main \/ EncoderPops, ~Draw, ~ShowPops
      PROVE  UNCHANGED <<shown, drawn>>
  BY <1>4
     DEF Reader, GrabAndSkip, Grab, SendSeesRoom, SendPushes, Prime, Main,
         WaitEnds, WaitTicks, WaitTimesOut, ShowSeesTwo, OutSeesRoom, OutPushes,
         EncoderPops, mainVars
<1>5. ASSUME NEW k \in Detectors, Detector(k)
      PROVE  UNCHANGED <<shown, drawn>>
  BY <1>5, DetectorFrame DEF mainVars
<1> QED
  BY <1>1, <1>2, <1>3, <1>4, <1>5 DEF Next, vars, mainVars

-----------------------------------------------------------------------------
(* The invariant holds, and with it the properties. *)

\* The invariant holds when the threads start.
LEMMA InitInv == Init => IInv
<1> SUFFICES ASSUME Init PROVE IInv
  OBVIOUS
<1>1. /\ EmptyVBuffer.messages = << >> /\ EmptyVBuffer.offset = 0
      /\ GetSize(EmptyVBuffer) = 0 /\ IsVBuffer(EmptyVBuffer)
      /\ Consecutive(EmptyVBuffer)
  BY Assumption DEF EmptyVBuffer, GetSize, IsVBuffer, Consecutive
<1>2. DOMAIN EmptyMap = {}
  BY DEF EmptyMap
<1>3. TypeOK
  <2>1. TypeShared
    <3>1. IsVBuffer(image_in) /\ IsVBuffer(image_out)
      BY <1>1 DEF Init
    <3>2. DOMAIN rects = {} /\ DOMAIN data_ready = {}
      BY <1>2 DEF Init
    <3> QED
      BY <3>1, <3>2 DEF TypeShared
  <2>2. TypeReader /\ TypeMain
    <3>1. << >> \in Seq(Results) /\ 0 \in 0..WaitLimit /\ 0 \in 0..MaxFrames
      BY Assumption
    <3>2. TypeReader
      BY <3>1 DEF Init, TypeReader
    <3> QED
      BY <3>1, <3>2 DEF Init, TypeMain
  <2>3. TypeDetectors
    BY Assumption DEF Init, TypeDetectors, Keys
  <2> QED
    BY <2>1, <2>2, <2>3 DEF TypeOK
<1>4. StreamInv
  BY <1>1, Assumption
     DEF Init, StreamInv, FramesInOrder, CapacityRespected, NeverDrained, ReaderInv,
         MainInv, Holding
<1>5. DetectorInv /\ PositionInv
  BY DEF Init, DetectorInv, PositionInv, Examining, Storing
<1>6. ResultInv /\ NoDuplicateResult
  BY <1>2 DEF Init, ResultInv, NoDuplicateResult
<1>7. DrawnBelongs
  BY DEF Init, DrawnBelongs
<1> QED
  BY <1>3, <1>4, <1>5, <1>6, <1>7 DEF IInv

\* Every step of every thread keeps the invariant.
LEMMA NextInv == IInv /\ [Next]_vars => IInv'
<1> SUFFICES ASSUME IInv, [Next]_vars PROVE IInv'
  OBVIOUS
<1> USE DEF IInv
<1>1. TypeReader'
  BY TypeReaderStep DEF TypeOK, StreamInv
<1>2. TypeOK'
  BY <1>1, TypeSharedStep, TypeMainStep, TypeDetectorsStep DEF TypeOK
<1> QED
  BY <1>2, StreamStep, TypeDetectorsStep, PositionStep, ResultStep, DrawnStep

\* The strengthened invariant is an invariant of the specification.
THEOREM Invariance == Spec => []IInv
  BY InitInv, NextInv, PTL DEF Spec
\* Every variable keeps its type: in particular no counter of readImage,
\* objectDetection or vBuffer leaves the range the bounds of the model give it.
THEOREM TypeCorrect == Spec => []TypeOK
<1>1. IInv => TypeOK
  BY DEF IInv
<1> QED
  BY <1>1, Invariance, PTL

\* The display path loses, repeats and reorders no frame, never holds more
\* than MaxSize frames in a queue though send() checks and pushes in two lock
\* sections, and never takes the last frame from the detectors.
THEOREM StreamSafe ==
  Spec => [](FramesInOrder /\ CapacityRespected /\ NeverDrained)
<1>1. IInv => FramesInOrder /\ CapacityRespected /\ NeverDrained
  BY DEF IInv, StreamInv
<1> QED
  BY <1>1, Invariance, PTL

\* While the reader waits for the detectors the first frame is in the queue.
THEOREM PrimingSafe == Spec => []PrimingKeepsFirstFrame
<1>1. IInv => PrimingKeepsFirstFrame
  <2> SUFFICES ASSUME IInv, rpc = "prime" PROVE image_in.offset = 0
    BY DEF PrimingKeepsFirstFrame
  <2>1. f_count = 1 /\ GetSize(image_in) >= 1
    BY DEF IInv, StreamInv, ReaderInv, NeverDrained
  <2>2. image_in.offset \in Nat /\ GetSize(image_in) \in Nat
    BY DEF IInv, TypeOK, TypeShared, IsVBuffer, GetSize
  <2> QED
    BY <2>1, <2>2 DEF IInv, StreamInv, FramesInOrder
<1> QED
  BY <1>1, Invariance, PTL

\* A detector never examines another frame than the one its position names,
\* whatever the display pops between its lock sections.
THEOREM DetectorsExamineTheirFrame == Spec => []ExaminesItsFrame
<1>1. IInv => ExaminesItsFrame
  BY DEF IInv, DetectorInv, ExaminesItsFrame
<1> QED
  BY <1>1, Invariance, PTL

\* The map of results holds at most one vector per detector and frame,
\* whatever the detectors store and evict there concurrently.
THEOREM ResultsSafe == Spec => []NoDuplicateResult
<1>1. IInv => NoDuplicateResult
  BY DEF IInv
<1> QED
  BY <1>1, Invariance, PTL

\* What drawResult is given belongs to the frame it draws on: it was computed
\* on that frame or less than a batch before it.
THEOREM DrawnSafe == Spec => []DrawnBelongs
<1>1. IInv => DrawnBelongs
  BY DEF IInv
<1> QED
  BY <1>1, Invariance, PTL

-----------------------------------------------------------------------------
(* The pipeline implements FrameStream. *)

\* Erasing a timestamp withdraws the reports on it and no other.
LEMMA FiledErase ==
  ASSUME NEW m, NEW at
  PROVE  FiledIn(Erase(m, at)) = {r \in FiledIn(m) : r[2] # at}
  BY DEF FiledIn, Erase

\* Storing a result files one report.
LEMMA FiledStore ==
  ASSUME NEW m, HoldsResults(m), NEW at \in Keys, NEW x \in Results
  PROVE  FiledIn(Store(m, at, x)) = FiledIn(m) \union {<<x.by, at>>}
<1> DEFINE new == Store(m, at, x)
           old == ResultsAt(m, at)
<1>1. old \in Seq(Results) /\ (at \in DOMAIN m => old = m[at])
      /\ (at \notin DOMAIN m => Len(old) = 0)
  BY DEF ResultsAt, HoldsResults
<1>2. /\ DOMAIN new = DOMAIN m \union {at}
      /\ new[at] = Append(old, x)
      /\ \A t \in DOMAIN m \ {at} : new[t] = m[t]
  BY DEF Store
<1>3. /\ Len(old) \in Nat /\ Len(Append(old, x)) = Len(old) + 1
      /\ \A i \in 1..Len(old) : Append(old, x)[i] = old[i]
      /\ Append(old, x)[Len(old) + 1] = x
  BY <1>1
<1>4. x.by \in Detectors
  BY DEF Results
<1>5. ASSUME NEW r \in Detectors \X Keys
      PROVE  r \in FiledIn(new) <=> r \in FiledIn(m) \/ r = <<x.by, at>>
  <2>1. CASE r[2] # at
    BY <1>2, <2>1 DEF FiledIn
  <2>2. CASE r[2] = at
    <3>1. r \in FiledIn(new) <=>
            \E i \in 1..Len(old) + 1 : Append(old, x)[i].by = r[1]
      BY <1>2, <1>3, <2>2 DEF FiledIn
    <3>2. r \in FiledIn(m) <=> \E i \in 1..Len(old) : old[i].by = r[1]
      <4>1. CASE at \in DOMAIN m
        BY <1>1, <2>2, <4>1 DEF FiledIn
      <4>2. CASE at \notin DOMAIN m
        BY <1>1, <2>2, <4>2 DEF FiledIn
      <4> QED
        BY <4>1, <4>2
    <3>3. r = <<x.by, at>> <=> x.by = r[1]
      BY <1>5, <2>2
    <3>4. (\E i \in 1..Len(old) + 1 : Append(old, x)[i].by = r[1])
            <=> (\E i \in 1..Len(old) : old[i].by = r[1]) \/ x.by = r[1]
      BY <1>3
    <3> QED
      BY <3>1, <3>2, <3>3, <3>4
  <2> QED
    BY <2>1, <2>2
<1>6. <<x.by, at>> \in Detectors \X Keys
  BY <1>4
<1> QED
  BY <1>5, <1>6 DEF FiledIn

\* The threads start as the abstract stream starts.
LEMMA StreamInit == Init => Stream!Init
  BY DEF Init, Stream!Init, EmptyVBuffer, EmptyMap, Frontier, Storing, FiledIn

\* Every step of the pipeline is a step of the abstract stream or a stutter.
LEMMA StreamNext == IInv /\ [Next]_vars => [Stream!Next]_Stream!vars
<1> SUFFICES ASSUME IInv, [Next]_vars PROVE [Stream!Next]_Stream!vars
  OBVIOUS
<1>0. /\ TypeOK /\ StreamInv /\ DetectorInv /\ PositionInv
      /\ IsVBuffer(image_in) /\ Consecutive(image_in)
      /\ f_count \in Nat /\ image_in.offset \in Nat /\ GetSize(image_in) \in Nat
      /\ f_count = image_in.offset + GetSize(image_in)
  BY DEF IInv, TypeOK, TypeShared, TypeReader, IsVBuffer, GetSize, StreamInv,
         FramesInOrder
<1>1. ASSUME UNCHANGED detectVars
      PROVE  Frontier' = Frontier
  BY <1>1 DEF detectVars, Frontier
<1>2. ASSUME UNCHANGED <<image_in, f_count, rects, detectVars>>
      PROVE  UNCHANGED Stream!vars
  BY <1>1, <1>2 DEF Stream!vars
<1>3. CASE SendPushes
  <2>1. /\ image_in'.offset = image_in.offset /\ f_count' = f_count + 1
        /\ GetSize(image_in) < MaxSize
    BY <1>0, <1>3 DEF SendPushes, Push, IsVBuffer, StreamInv, ReaderInv
  <2>2. f_count - image_in.offset < MaxSize
    BY <1>0, <2>1
  <2>3. Frontier' = Frontier /\ rects' = rects
    BY <1>1, <1>3 DEF SendPushes
  <2> QED
    BY <2>1, <2>2, <2>3 DEF Stream!Next, Stream!Produce
<1>4. CASE ShowPops
  <2>1. /\ f_count' = f_count /\ GetSize(image_in) >= 2
        /\ image_in' = Pop(image_in)
    BY <1>0, <1>4 DEF ShowPops, readVars, StreamInv, MainInv
  <2>2. image_in'.offset = image_in.offset + 1
    BY <1>0, <2>1 DEF Pop
  <2>3. f_count - image_in.offset >= 2
    BY <1>0, <2>1
  <2>4. Frontier' = Frontier /\ rects' = rects
    BY <1>1, <1>4 DEF ShowPops
  <2> QED
    BY <2>1, <2>2, <2>3, <2>4 DEF Stream!Next, Stream!Consume
<1>5. ASSUME NEW k \in Detectors, Detector(k)
      PROVE  Stream!Next \/ UNCHANGED Stream!vars
  <2>1. UNCHANGED <<image_in, f_count>>
    BY <1>5, DetectorFrame DEF readVars
  <2>2. \/ Frontier' = Frontier
        \/ \E f \in Frontier[k] + 1 .. f_count + MaxBatch - 1 :
             Frontier' = [Frontier EXCEPT ![k] = f]
    BY <1>0, <1>5, FrontierStep
  <2>3. CASE StorePuts(k)
    <3>1. /\ FiledAt(k) = Frontier[k]
          /\ Frontier' = [Frontier EXCEPT ![k] = Frontier[k] + 1]
          /\ Frontier[k] + 1 <= f_count + MaxBatch - 1
      BY <1>0, <2>3, FilingStep
    <3>2. FiledAt(k) \in Keys /\ current[k] \in Frames
      BY <1>0, <2>3, Assumption
         DEF StorePuts, Goto, DetectorInv, Examining, TypeOK, TypeDetectors,
             FiledAt, Frames, Keys
    <3>3. rects' = Store(rects, FiledAt(k), [by |-> k, of |-> current[k]])
      BY <2>3 DEF StorePuts
    <3>4. FiledIn(rects') = FiledIn(rects) \union {<<k, Frontier[k]>>}
      <4> DEFINE x == [by |-> k, of |-> current[k]]
      <4>1. x \in Results /\ x.by = k /\ HoldsResults(rects)
        BY <1>0, <3>2 DEF TypeOK, TypeShared, HoldsResults, Results
      <4> HIDE DEF x
      <4>2. FiledIn(Store(rects, FiledAt(k), x))
              = FiledIn(rects) \union {<<x.by, FiledAt(k)>>}
        BY <3>2, <4>1, FiledStore
      <4> QED
        BY <3>1, <3>3, <4>1, <4>2 DEF x
    <3> QED
      BY <2>1, <3>1, <3>4 DEF Stream!Next, Stream!Report
  <2>4. CASE StoreEvicts(k)
    <3>1. rects' = Erase(rects, 0)
      BY <2>4 DEF StoreEvicts
    <3>2. Frontier' = Frontier
      <4>1. /\ UNCHANGED <<d_count, stored, current>>
            /\ dpc[k] \in Storing /\ dpc'[k] \in Storing
            /\ \A j \in Detectors \ {k} : dpc'[j] = dpc[j]
        BY <1>0, <2>4 DEF StoreEvicts, Goto, Storing, TypeOK, TypeDetectors
      <4> QED
        BY <4>1 DEF Frontier
    <3>3. FiledIn(rects') = {r \in FiledIn(rects) : r[2] # 0}
      BY <3>1, FiledErase
    <3> QED
      BY <1>0, <2>1, <3>2, <3>3 DEF Stream!Next, Stream!Withdraw
  <2>5. ASSUME ~StorePuts(k), ~StoreEvicts(k)
        PROVE  Stream!Next \/ UNCHANGED Stream!vars
    <3>1. rects' = rects
      BY <1>5, <2>5 DEF Detector, Register, CheckPosition, Jump, ReceiveFrame,
                        Detect, MarkReady, StoreSeesSize
    <3>2. CASE Frontier' = Frontier
      BY <2>1, <3>1, <3>2 DEF Stream!vars
    <3>3. CASE Frontier' # Frontier
      BY <2>1, <2>2, <3>1, <3>3 DEF Stream!Next, Stream!Advance
    <3> QED
      BY <3>2, <3>3
  <2> QED
    BY <2>3, <2>4, <2>5
<1>6. CASE Draw
  <2>1. /\ UNCHANGED <<image_in, f_count>> /\ Frontier' = Frontier
        /\ rects' = Erase(rects, shown)
    BY <1>1, <1>6 DEF Draw, readVars
  <2>2. shown \in 0..image_in.offset /\ shown + 1 = image_in.offset
    BY <1>0, <1>6, Assumption DEF Draw, StreamInv, MainInv, Holding, Frames
  <2>3. FiledIn(rects') = {r \in FiledIn(rects) : r[2] # shown}
    BY <2>1, FiledErase
  <2> QED
    BY <2>1, <2>2, <2>3 DEF Stream!Next, Stream!Withdraw
<1>7. ASSUME Reader \/ Main \/ EncoderPops, ~SendPushes, ~ShowPops, ~Draw
      PROVE  UNCHANGED Stream!vars
  <2>1. UNCHANGED <<image_in, f_count, rects>>
    BY <1>7 DEF Reader, GrabAndSkip, Grab, SendSeesRoom, Prime, Main, WaitEnds,
                WaitTicks, WaitTimesOut, ShowSeesTwo, OutSeesRoom, OutPushes,
                EncoderPops, readVars
  <2> QED
    BY <1>2, <1>7, <2>1, DisplayFrame
<1>8. CASE UNCHANGED vars
  BY <1>2, <1>8 DEF vars, readVars
<1> QED
  BY <1>3, <1>4, <1>5, <1>6, <1>7, <1>8 DEF Next

\* The pipeline is a bounded stream of consecutive frames that the display
\* never drains; its detectors file frame by frame and only move forward.
THEOREM StreamImplemented == Spec => ImplementsStream
<1>1. Spec => [][Stream!Next]_Stream!vars
  BY Invariance, StreamNext, PTL DEF Spec
<1> QED
  BY <1>1, StreamInit, PTL DEF Spec, ImplementsStream, Stream!Spec
=============================================================================
