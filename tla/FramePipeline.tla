--------------------------- MODULE FramePipeline ---------------------------
(***************************************************************************)
(* The frame pipeline of the application: the reading thread               *)
(* (Graphic::readImage), one thread per detector                           *)
(* (Detection::objectDetection), the main thread (the waiting loop and the *)
(* display loop of main.cpp) and, as the consumer of the drawn frames, the *)
(* front of the encoder's loop (FFMPEGLib::encode_frame).  They share      *)
(*   image_in    image_in_queue, a vBuffer<FrameInfo>;                     *)
(*   rects       rects_out, an mBuffer<RectOut>, and its data_ready map;   *)
(*   image_out   image_out_queue, a vBuffer<FrameInfo>.                    *)
(* A frame is its timestamp.  A vector of detections is the record of the  *)
(* detector that made it and the frame it was computed on.  Every step     *)
(* takes at most one lock, as in the code, except where the rest of the    *)
(* step touches only the thread's own variables.                           *)
(***************************************************************************)
EXTENDS VBuffer, MBuffer

CONSTANTS
  Detectors,   \* the detector objects main starts
  MaxSize,     \* MAX_VBUFFER_SIZE
  MaxRects,    \* _max_size of the mBuffer
  MaxBatch,    \* bound: frames one inference can last (_detected_frames)
  MaxFrames,   \* bound: frames read from the video
  SkipFrame,   \* _skip_frame: the video is faster than 25 frames per second
  SkipEvery,   \* 5: one source frame is dropped at these counts
  WaitLimit    \* the bound main gives to countTimeOut

ASSUME Assumption ==
  /\ MaxSize \in Nat /\ MaxSize >= 2
  /\ MaxRects \in Nat
  /\ MaxBatch \in Nat \ {0}
  /\ MaxFrames \in Nat
  /\ SkipFrame \in BOOLEAN
  /\ SkipEvery \in Nat \ {0}
  /\ WaitLimit \in Nat
  /\ SizeT \in Nat /\ SizeT > MaxFrames + MaxSize + 2 * MaxBatch
  /\ NoMessage \notin Nat

VARIABLES
  image_in, image_out, rects, data_ready,   \* shared
  rpc, f_count, frame_skipped, first_time,  \* the reading thread
  dpc,              \* program counter of every detector
  d_count,          \* the absolute position a detector will examine next
  detected_frames,  \* _detected_frames: how many frames the last inference took
  current,          \* timestamp of the frame being examined
  stored,           \* loop index i over the frames of a batch
  warm,             \* _data_ready of the detector
  mpc, waited, gave_up,                     \* the main thread
  shown, drawn      \* the frame main popped and the results it drew on it

readVars   == <<rpc, f_count, frame_skipped, first_time>>
detectVars == <<dpc, d_count, detected_frames, current, stored, warm>>
mainVars   == <<mpc, waited, gave_up, shown, drawn>>
vars       == <<image_in, image_out, rects, data_ready,
                readVars, detectVars, mainVars>>

Init ==
  /\ image_in = EmptyVBuffer
  /\ image_out = EmptyVBuffer
  /\ rects = EmptyMap
  /\ data_ready = EmptyMap
  /\ rpc = "grab"
  /\ f_count = 0
  /\ frame_skipped = FALSE
  /\ first_time = TRUE
  /\ dpc = [k \in Detectors |-> "register"]
  /\ d_count = [k \in Detectors |-> 0]
  /\ detected_frames = [k \in Detectors |-> 1]
  /\ current = [k \in Detectors |-> NoMessage]
  /\ stored = [k \in Detectors |-> 0]
  /\ warm = [k \in Detectors |-> FALSE]
  /\ mpc = "wait"
  /\ waited = 0
  /\ gave_up = FALSE
  /\ shown = NoMessage
  /\ drawn = << >>

-----------------------------------------------------------------------------
(* The reading thread.  At the end of the file it rewinds, so there is     *)
(* always a next source frame; MaxFrames only bounds the model.            *)

AtSkipPoint == SkipFrame /\ f_count > 0 /\ f_count % SkipEvery = 0

\* cap >> frame; the frame is dropped once at every SkipEvery-th count.
GrabAndSkip ==
  /\ rpc = "grab" /\ f_count < MaxFrames
  /\ AtSkipPoint /\ ~frame_skipped
  /\ frame_skipped' = TRUE
  /\ UNCHANGED <<image_in, image_out, rects, data_ready, rpc, f_count,
                 first_time, detectVars, mainVars>>

Grab ==
  /\ rpc = "grab" /\ f_count < MaxFrames
  /\ ~(AtSkipPoint /\ ~frame_skipped)
  /\ frame_skipped' = IF AtSkipPoint THEN FALSE ELSE frame_skipped
  /\ rpc' = "send"
  /\ UNCHANGED <<image_in, image_out, rects, data_ready, f_count, first_time,
                 detectVars, mainVars>>

\* The loop of send(): the lock is released again before the push.
SendSeesRoom ==
  /\ rpc = "send"
  /\ ~IsFull(image_in, MaxSize)
  /\ rpc' = "push"
  /\ UNCHANGED <<image_in, image_out, rects, data_ready, f_count,
                 frame_skipped, first_time, detectVars, mainVars>>

SendPushes ==
  /\ rpc = "push"
  /\ image_in' = Push(image_in, f_count)
  /\ f_count' = f_count + 1
  /\ rpc' = IF first_time THEN "prime" ELSE "grab"
  /\ UNCHANGED <<image_out, rects, data_ready, frame_skipped, first_time,
                 detectVars, mainVars>>

\* while(first_time): after its first frame the reader waits for the detectors.
Prime ==
  /\ rpc = "prime"
  /\ GetDataReady(data_ready)
  /\ first_time' = FALSE
  /\ rpc' = "grab"
  /\ UNCHANGED <<image_in, image_out, rects, data_ready, f_count,
                 frame_skipped, detectVars, mainVars>>

Reader == GrabAndSkip \/ Grab \/ SendSeesRoom \/ SendPushes \/ Prime

-----------------------------------------------------------------------------
(* A detector thread.  Nothing ever resets _continue_update (readImage     *)
(* rewinds instead of leaving its loop), so the loop's break is not taken. *)

Goto(k, from, to) == dpc[k] = from /\ dpc' = [dpc EXCEPT ![k] = to]

Register(k) ==
  /\ Goto(k, "register", "check")
  /\ data_ready' = SetDataReady(data_ready, k, 0)
  /\ UNCHANGED <<image_in, image_out, rects, readVars, d_count,
                 detected_frames, current, stored, warm, mainVars>>

\* if(d_count < getPopCounter()): the counter is read again by the jump.
FallenBehind(k) == d_count[k] < GetPopCounter(image_in)

CheckPosition(k) ==
  /\ Goto(k, "check", IF FallenBehind(k) THEN "jump" ELSE "receive")
  /\ UNCHANGED <<image_in, image_out, rects, data_ready, readVars, d_count,
                 detected_frames, current, stored, warm, mainVars>>

Jump(k) ==
  /\ Goto(k, "jump", "receive")
  /\ d_count' = [d_count EXCEPT ![k] =
                   GetPopCounter(image_in) + detected_frames[k]]
  /\ UNCHANGED <<image_in, image_out, rects, data_ready, readVars,
                 detected_frames, current, stored, warm, mainVars>>

\* An empty frame restarts the loop; a copy of the frame is examined otherwise.
ReceiveFrame(k) ==
  LET frame == Receive(image_in, d_count[k])
  IN  /\ Goto(k, "receive", IF frame = NoMessage THEN "check" ELSE "detect")
      /\ current' = [current EXCEPT ![k] = frame]
      /\ UNCHANGED <<image_in, image_out, rects, data_ready, readVars,
                     d_count, detected_frames, stored, warm, mainVars>>

\* Mutant: the next frame is examined, whatever the last batch covered.
AdvancedByOne(k, n) == [d_count EXCEPT ![k] = @ + 1]

\* d_count += _detected_frames closes the iteration.
Advanced(k, n) == [d_count EXCEPT ![k] = @ + n]

\* detect(): it lasts n frames; the first inference only measures that.
Detect(k) == \E n \in 1..MaxBatch, found \in BOOLEAN :
  /\ Goto(k, "detect", IF ~warm[k] THEN "ready"
                       ELSE IF found THEN "store" ELSE "check")
  /\ detected_frames' = [detected_frames EXCEPT ![k] = n]
  /\ stored' = [stored EXCEPT ![k] = 0]
  /\ d_count' = IF warm[k] /\ ~found THEN Advanced(k, n) ELSE d_count
  /\ UNCHANGED <<image_in, image_out, rects, data_ready, readVars, current,
                 warm, mainVars>>

MarkReady(k) ==
  /\ Goto(k, "ready", "check")
  /\ warm' = [warm EXCEPT ![k] = TRUE]
  /\ data_ready' = SetDataReady(data_ready, k, 1)
  /\ UNCHANGED <<image_in, image_out, rects, readVars, d_count,
                 detected_frames, current, stored, mainVars>>

\* mBuffer::send(timestamp + i, ...): while(getSize() > _max_size) pop();
StoreSeesSize(k) ==
  /\ Goto(k, "store", IF ResultsSize(rects) > MaxRects THEN "evict" ELSE "put")
  /\ UNCHANGED <<image_in, image_out, rects, data_ready, readVars, d_count,
                 detected_frames, current, stored, warm, mainVars>>

\* pop() without an argument erases the results of timestamp 0, if any.
StoreEvicts(k) ==
  /\ Goto(k, "evict", "store")
  /\ rects' = Erase(rects, 0)
  /\ UNCHANGED <<image_in, image_out, data_ready, readVars, d_count,
                 detected_frames, current, stored, warm, mainVars>>

\* Mutant: the results are filed under the frame on display.
FiledAtDisplay(k) == GetPopCounter(image_in) + stored[k]

\* current_frame.timestamp + i
FiledAt(k) == current[k] + stored[k]

\* Mutant: the loop runs once too often.
LastOfBatchLate(k) == stored[k] = detected_frames[k]

LastOfBatch(k) == stored[k] + 1 = detected_frames[k]

StorePuts(k) ==
  /\ Goto(k, "put", IF LastOfBatch(k) THEN "check" ELSE "store")
  /\ rects' = Store(rects, FiledAt(k),
                    [by |-> k, of |-> current[k]])
  /\ stored' = [stored EXCEPT ![k] = IF LastOfBatch(k) THEN 0 ELSE @ + 1]
  /\ d_count' = IF LastOfBatch(k) THEN Advanced(k, detected_frames[k])
                                  ELSE d_count
  /\ UNCHANGED <<image_in, image_out, data_ready, readVars, detected_frames,
                 current, warm, mainVars>>

Detector(k) ==
  \/ Register(k) \/ CheckPosition(k) \/ Jump(k) \/ ReceiveFrame(k)
  \/ Detect(k) \/ MarkReady(k)
  \/ StoreSeesSize(k) \/ StoreEvicts(k) \/ StorePuts(k)

-----------------------------------------------------------------------------
(* The main thread.  isActive() stays true for the reason given above.     *)

\* if(rects_out->getDataReady()) break;
WaitEnds ==
  /\ mpc = "wait"
  /\ GetDataReady(data_ready)
  /\ mpc' = "show"
  /\ UNCHANGED <<image_in, image_out, rects, data_ready, readVars, detectVars,
                 waited, gave_up, shown, drawn>>

\* countTimeOut(WaitLimit) counts the failed attempts...
WaitTicks ==
  /\ mpc = "wait"
  /\ ~GetDataReady(data_ready)
  /\ waited < WaitLimit
  /\ waited' = waited + 1
  /\ UNCHANGED <<image_in, image_out, rects, data_ready, readVars, detectVars,
                 mpc, gave_up, shown, drawn>>

\* ...and past the limit answers true, once, and starts again.
WaitTimesOut ==
  /\ mpc = "wait"
  /\ ~GetDataReady(data_ready)
  /\ waited >= WaitLimit
  /\ waited' = 0
  /\ gave_up' = TRUE
  /\ mpc' = "show"
  /\ UNCHANGED <<image_in, image_out, rects, data_ready, readVars, detectVars,
                 shown, drawn>>

\* Mutants: the last frame is shown too; one frame more is kept back.
EnoughForOne   == GetSize(image_in) >= 1
EnoughForThree == GetSize(image_in) > 2

\* if(image_in_queue->getSize() < 2) continue;
EnoughToShow == GetSize(image_in) >= 2

ShowSeesTwo ==
  /\ mpc = "show"
  /\ EnoughToShow
  /\ mpc' = "pop"
  /\ UNCHANGED <<image_in, image_out, rects, data_ready, readVars, detectVars,
                 waited, gave_up, shown, drawn>>

ShowPops ==
  /\ mpc = "pop"
  /\ shown' = Front(image_in)
  /\ image_in' = Pop(image_in)
  /\ mpc' = IF shown' = NoMessage THEN "show" ELSE "draw"
  /\ drawn' = << >>
  /\ UNCHANGED <<image_out, rects, data_ready, readVars, detectVars, waited,
                 gave_up>>

\* rects_out->pop(timestamp), then drawResult
Draw ==
  /\ mpc = "draw"
  /\ drawn' = ResultsAt(rects, shown)
  /\ rects' = Erase(rects, shown)
  /\ mpc' = "send"
  /\ UNCHANGED <<image_in, image_out, data_ready, readVars, detectVars, waited,
                 gave_up, shown>>

OutSeesRoom ==
  /\ mpc = "send"
  /\ ~IsFull(image_out, MaxSize)
  /\ mpc' = "push"
  /\ UNCHANGED <<image_in, image_out, rects, data_ready, readVars, detectVars,
                 waited, gave_up, shown, drawn>>

OutPushes ==
  /\ mpc = "push"
  /\ image_out' = Push(image_out, shown)
  /\ mpc' = "show"
  /\ UNCHANGED <<image_in, rects, data_ready, readVars, detectVars, waited,
                 gave_up, shown, drawn>>

Main ==
  \/ WaitEnds \/ WaitTicks \/ WaitTimesOut \/ ShowSeesTwo \/ ShowPops \/ Draw
  \/ OutSeesRoom \/ OutPushes

\* if(_image_out_queue->getSize()) pop(): the encoder is the only consumer, and
\* main starts its thread after the waiting loop.
EncoderPops ==
  /\ mpc # "wait"
  /\ GetSize(image_out) > 0
  /\ image_out' = Pop(image_out)
  /\ UNCHANGED <<image_in, rects, data_ready, readVars, detectVars, mainVars>>

-----------------------------------------------------------------------------
Next == Reader \/ (\E k \in Detectors : Detector(k)) \/ Main \/ EncoderPops

Spec == Init /\ [][Next]_vars

(* Every thread runs as long as it has a step to take: std::thread with the *)
(* operating system's scheduler, and loops that sleep or spin.              *)
Fairness ==
  /\ WF_vars(Reader)
  /\ \A k \in Detectors : WF_vars(Detector(k))
  /\ WF_vars(Main)
  /\ WF_vars(EncoderPops)

FairSpec == Spec /\ Fairness

-----------------------------------------------------------------------------
(* The type invariant. *)

Frames  == 0..MaxFrames - 1
Results == [by : Detectors, of : Frames]
Keys    == 0..MaxFrames + MaxBatch

IsVBuffer(b) == b \in [messages : Seq(Frames), offset : 0..MaxFrames]

TypeShared ==
  /\ IsVBuffer(image_in) /\ IsVBuffer(image_out)
  /\ DOMAIN rects \subseteq Keys
  /\ \A t \in DOMAIN rects : rects[t] \in Seq(Results)
  /\ DOMAIN data_ready \subseteq Detectors
  /\ \A k \in DOMAIN data_ready : data_ready[k] \in {0, 1}

TypeReader ==
  /\ rpc \in {"grab", "send", "push", "prime"}
  /\ f_count \in 0..MaxFrames
  /\ frame_skipped \in BOOLEAN /\ first_time \in BOOLEAN

TypeDetectors ==
  /\ dpc \in [Detectors -> {"register", "check", "jump", "receive", "detect",
                            "ready", "store", "evict", "put"}]
  /\ d_count \in [Detectors -> Keys]
  /\ detected_frames \in [Detectors -> 1..MaxBatch]
  /\ current \in [Detectors -> Frames \union {NoMessage}]
  /\ stored \in [Detectors -> 0..MaxBatch - 1]
  /\ warm \in [Detectors -> BOOLEAN]

TypeMain ==
  /\ mpc \in {"wait", "show", "pop", "draw", "send", "push"}
  /\ waited \in 0..WaitLimit
  /\ gave_up \in BOOLEAN
  /\ shown \in Frames \union {NoMessage}
  /\ drawn \in Seq(Results)

\* Every variable has its type: counters stay within the bounds of the model,
\* and what the buffers hold are frames that were read and results on them.
TypeOK == TypeShared /\ TypeReader /\ TypeDetectors /\ TypeMain

-----------------------------------------------------------------------------
(* Safety. *)

Examining == {"detect", "ready", "store", "evict", "put"}
Storing   == {"store", "evict", "put"}
Holding   == {"draw", "send", "push"}

Consecutive(b) ==
  \A i \in 1..GetSize(b) : b.messages[i] = b.offset + i - 1

\* Both queues hold consecutive frames, the position of each equal to its
\* timestamp, and between the reader and the encoder no frame is lost,
\* repeated or overtaken (Buffer.h pop, readImage, the display loop).
FramesInOrder ==
  /\ Consecutive(image_in) /\ Consecutive(image_out)
  /\ f_count = image_in.offset + GetSize(image_in)
  /\ image_in.offset = image_out.offset + GetSize(image_out)
                       + (IF mpc \in Holding THEN 1 ELSE 0)

\* Each queue has one producer, so the room that send() saw in one lock
\* section is still there when it pushes in the next one (Buffer.h send).
CapacityRespected ==
  /\ GetSize(image_in) <= MaxSize /\ GetSize(image_out) <= MaxSize

\* A detector examines the frame its position names, or none: never another
\* frame, however far the display got between its lock sections, and not
\* when position - offset wraps around (objectDetection, vBuffer receive).
ExaminesItsFrame ==
  \A k \in Detectors : dpc[k] \in Examining => current[k] = d_count[k]

\* Once the first frame is there the display always leaves one frame in the
\* queue, so a detector that waits for a frame always finds the newest.
NeverDrained == f_count > 0 => GetSize(image_in) >= 1

\* Mutual consent of the reader and the display: no frame leaves the queue
\* while the reader waits for the detectors' first inference.
PrimingKeepsFirstFrame == rpc = "prime" => image_in.offset = 0

\* A detector files at most one vector of results per frame: the batches of
\* frames its inferences stand for do not overlap.
NoDuplicateResult ==
  \A t \in DOMAIN rects : \A i, j \in 1..Len(rects[t]) :
    rects[t][i].by = rects[t][j].by => i = j

\* What is drawn on a frame was computed on this frame or on an earlier one
\* that is less than one batch old, once per detector.
DrawnBelongs ==
  \A i \in 1..Len(drawn) :
    /\ drawn[i].of <= shown /\ shown < drawn[i].of + MaxBatch
    /\ \A j \in 1..Len(drawn) : drawn[i].by = drawn[j].by => i = j

-----------------------------------------------------------------------------
(* The pipeline implements FrameStream. *)

Frontier ==
  [k \in Detectors |-> IF dpc[k] \in Storing THEN current[k] + stored[k]
                                             ELSE d_count[k]]

\* Which detector has results on file under which timestamp.
FiledIn(m) ==
  {r \in Detectors \X Keys :
     r[2] \in DOMAIN m /\ \E i \in 1..Len(m[r[2]]) : m[r[2]][i].by = r[1]}

Stream == INSTANCE FrameStream WITH
            produced <- f_count, consumed <- image_in.offset,
            frontier <- Frontier, reports <- FiledIn(rects)

\* Reader, detectors and display only do what FrameStream allows: the window
\* is bounded and never empties, a detector files its results frame by frame
\* and never goes back, and only the display and the eviction take them out.
ImplementsStream == Stream!Spec

-----------------------------------------------------------------------------
(* Liveness. *)

\* The reader gets past while(first_time): every detector that registered
\* finds the first frame and becomes ready, whatever the display does.
PrimingEnds == <>(~first_time)

\* Every frame but the newest reaches the encoder, whatever the detectors do.
EveryFrameEncoded ==
  \A t \in 0..MaxFrames - 2 : <>(image_out.offset > t)

\* Results under a timestamp that the display has yet to pop leave the map
\* with the frame; results filed after that never do, those of frame 0 apart.
DisplayWillTakeResults == \E t \in DOMAIN rects : t >= image_in.offset

\* Detection.cpp:100 says of objectDetection: "perform detection, and store
\* the result in queues".  A batch that starts to be stored is stored, unless
\* the full map waits for results that the display will take.
ResultsGetStored ==
  \A k \in Detectors :
    (dpc[k] = "store") ~> (dpc[k] = "check" \/ DisplayWillTakeResults)
=============================================================================
