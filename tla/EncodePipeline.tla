--------------------------- MODULE EncodePipeline ---------------------------
(***************************************************************************)
(* The encoding thread (FFMPEGLib::encodeVideo, encode_frame and           *)
(* writeVideoFile) and the streaming thread (LiveStream::SendFrameThread). *)
(* They share avpacket_out, a vBuffer<AVPacket>; the encoder takes frames  *)
(* from image_out, which the main thread fills (FramePipeline).            *)
(* A frame is its number, and so is the packet made of it: what matters of *)
(* a packet is the number of references to its data.  The ffmpeg encoder   *)
(* is external: it keeps up to Lookahead frames and emits them in order.   *)
(***************************************************************************)
EXTENDS VBuffer, FiniteSets, Functions

CONSTANTS
  QueueSize,       \* MAX_VBUFFER_SIZE
  Lookahead,       \* frames the encoder keeps before it emits the oldest
  PacketsPerFile,  \* 2000
  MaxFrames,       \* bound: frames sent by the main thread
  MaxErrors        \* bound: failures of avcodec_send_frame and of fopen

ASSUME Assumption ==
  /\ QueueSize \in Nat \ {0}
  /\ Lookahead \in Nat
  /\ PacketsPerFile \in Nat \ {0}
  /\ MaxFrames \in Nat
  /\ MaxErrors \in Nat
  /\ NoMessage \notin Nat

VARIABLES
  image_out, avpacket_out,  \* the queues
  refs,                     \* references to the data of every packet
  epc, image, inside, pkt,  \* the encoding thread and the encoder's frames
  lost,                     \* frames an encoder error has cost
  video_open, header_kept,  \* _video_file and _header_file are not null
  count_write,
  writes, file_no,          \* what was written where; files opened so far
  unwritten,                \* packets that found no file
  errors,
  spc, copying, streamed    \* the streaming thread

fileVars   == <<video_open, header_kept, count_write, writes, file_no, unwritten>>
streamVars == <<spc, copying, streamed>>
vars == <<image_out, avpacket_out, refs, epc, image, inside, pkt, lost,
          fileVars, errors, streamVars>>

Frames == 0..MaxFrames - 1

Init ==
  /\ image_out = EmptyVBuffer
  /\ avpacket_out = EmptyVBuffer
  /\ refs = [n \in Frames |-> 0]
  /\ epc = "pop"
  /\ image = NoMessage
  /\ inside = << >>
  /\ pkt = NoMessage
  /\ lost = {}
  /\ video_open = FALSE
  /\ header_kept = FALSE
  /\ count_write = 0
  /\ writes = << >>
  /\ file_no = 0
  /\ unwritten = {}
  /\ errors = 0
  /\ spc = "pop"
  /\ copying = NoMessage
  /\ streamed = << >>

\* A write through a null FILE* ends the process.
Running == epc # "crashed"

-----------------------------------------------------------------------------
(* The main thread: FramePipeline has the two lock sections of this send.  *)

Arrived == image_out.offset + GetSize(image_out)

MainSends ==
  /\ Running
  /\ Arrived < MaxFrames
  /\ ~IsFull(image_out, QueueSize)
  /\ image_out' = Push(image_out, Arrived)
  /\ UNCHANGED <<avpacket_out, refs, epc, image, inside, pkt, lost, fileVars,
                 errors, streamVars>>

-----------------------------------------------------------------------------
(* The encoding thread: the loop of encode_frame.                          *)

\* Mutant: the last frame is kept back, as the display loop of main does.
HasTwoFrames == GetSize(image_out) >= 2

\* if(_image_out_queue->getSize()): the encoder is the only consumer.
HasFrame == GetSize(image_out) > 0

EncoderPops ==
  /\ epc = "pop"
  /\ HasFrame
  /\ image' = Front(image_out)
  /\ image_out' = Pop(image_out)
  /\ epc' = "encode"
  /\ UNCHANGED <<avpacket_out, refs, inside, pkt, lost, fileVars, errors,
                 streamVars>>

SendFrame ==
  /\ epc = "encode"
  /\ inside' = Append(inside, image)
  /\ epc' = "drain"
  /\ UNCHANGED <<image_out, avpacket_out, refs, image, pkt, lost, fileVars,
                 errors, streamVars>>

\* The loop breaks, encode_frame frees its contexts and returns, and
\* encodeVideo calls it again: the frames inside the encoder go with it.
SendFrameFails ==
  /\ epc = "encode"
  /\ errors < MaxErrors
  /\ errors' = errors + 1
  /\ lost' = lost \union {image} \union {inside[i] : i \in 1..Len(inside)}
  /\ inside' = << >>
  /\ image' = NoMessage
  /\ epc' = "pop"
  /\ UNCHANGED <<image_out, avpacket_out, refs, pkt, fileVars, streamVars>>

\* avcodec_receive_packet: the packet holds the first reference to its data.
ReceivePacket ==
  /\ epc = "drain"
  /\ Len(inside) > 0
  /\ pkt' = Head(inside)
  /\ inside' = Tail(inside)
  /\ refs' = [refs EXCEPT ![pkt'] = 1]
  /\ epc' = "ref"
  /\ UNCHANGED <<image_out, avpacket_out, image, lost, fileVars, errors,
                 streamVars>>

\* It answers EAGAIN: the loop releases the image and waits for the next one.
DrainEnds ==
  /\ epc = "drain"
  /\ Len(inside) <= Lookahead
  /\ image' = NoMessage
  /\ epc' = "pop"
  /\ UNCHANGED <<image_out, avpacket_out, refs, inside, pkt, lost, fileVars,
                 errors, streamVars>>

\* Mutant: the copy shares the data without a reference of its own.
ShallowCopied(r, n) == r

\* av_packet_ref(&rtsp_pkt, pkt)
Referenced(r, n) == [r EXCEPT ![n] = @ + 1]

RefPacket ==
  /\ epc = "ref"
  /\ refs' = Referenced(refs, pkt)
  /\ epc' = "send"
  /\ UNCHANGED <<image_out, avpacket_out, image, inside, pkt, lost, fileVars,
                 errors, streamVars>>

SendSeesRoom ==
  /\ epc = "send"
  /\ ~IsFull(avpacket_out, QueueSize)
  /\ epc' = "push"
  /\ UNCHANGED <<image_out, avpacket_out, refs, image, inside, pkt, lost,
                 fileVars, errors, streamVars>>

SendPushes ==
  /\ epc = "push"
  /\ avpacket_out' = Push(avpacket_out, pkt)
  /\ epc' = "write"
  /\ UNCHANGED <<image_out, refs, image, inside, pkt, lost, fileVars, errors,
                 streamVars>>

Unreferenced(n) == [refs EXCEPT ![n] = @ - 1]

\* The first packet gives the header that is written before all later ones.
HeaderWritten == header_kept

\* if(count_write > 2000) close the file.
FileIsFull == count_write + 1 > PacketsPerFile

\* Mutant: the counter is not reset with the file.
CountedOn(closes) == count_write + 1

Counted(closes) == IF closes THEN 0 ELSE count_write + 1

\* writeVideoFile(pkt->data, pkt->size); av_packet_unref(pkt)
WriteVideoFile ==
  /\ epc = "write"
  /\ file_no' = IF video_open THEN file_no ELSE file_no + 1
  /\ writes' = Append(writes, [file |-> file_no', packet |-> pkt,
                               headed |-> HeaderWritten])
  /\ header_kept' = TRUE
  /\ count_write' = Counted(FileIsFull)
  /\ video_open' = ~FileIsFull
  /\ refs' = Unreferenced(pkt)
  /\ pkt' = NoMessage
  /\ epc' = "drain"
  /\ UNCHANGED <<image_out, avpacket_out, image, inside, lost, unwritten,
                 errors, streamVars>>

\* fopen fails: the packet is not written, and the header, which is written
\* without looking at the file, ends the process.
OpenFails ==
  /\ epc = "write"
  /\ ~video_open
  /\ errors < MaxErrors
  /\ errors' = errors + 1
  /\ IF header_kept
     THEN epc' = "crashed" /\ UNCHANGED <<header_kept, count_write, refs,
                                             pkt, unwritten>>
     ELSE /\ epc' = "drain"
          /\ header_kept' = TRUE
          /\ count_write' = Counted(FALSE)
          /\ refs' = Unreferenced(pkt)
          /\ pkt' = NoMessage
          /\ unwritten' = {pkt}
  /\ UNCHANGED <<image_out, avpacket_out, image, inside, lost, video_open,
                 writes, file_no, streamVars>>

Encoder ==
  \/ EncoderPops \/ SendFrame \/ SendFrameFails \/ ReceivePacket \/ DrainEnds
  \/ RefPacket \/ SendSeesRoom \/ SendPushes \/ WriteVideoFile \/ OpenFails

-----------------------------------------------------------------------------
(* The streaming thread.                                                   *)

StreamPops ==
  /\ Running
  /\ spc = "pop"
  /\ GetSize(avpacket_out) > 0
  /\ copying' = Front(avpacket_out)
  /\ avpacket_out' = Pop(avpacket_out)
  /\ spc' = "copy"
  /\ UNCHANGED <<image_out, refs, epc, image, inside, pkt, lost, fileVars,
                 errors, streamed>>

\* memcpy, RtspServer::PushFrame, av_packet_unref
StreamCopies ==
  /\ Running
  /\ spc = "copy"
  /\ streamed' = Append(streamed, copying)
  /\ refs' = Unreferenced(copying)
  /\ copying' = NoMessage
  /\ spc' = "pop"
  /\ UNCHANGED <<image_out, avpacket_out, epc, image, inside, pkt, lost,
                 fileVars, errors>>

Streamer == StreamPops \/ StreamCopies

-----------------------------------------------------------------------------
Next == MainSends \/ Encoder \/ Streamer

Spec == Init /\ [][Next]_vars

(* Both threads are std::threads whose loops never wait for one another    *)
(* except through the queues.                                              *)
Fairness == WF_vars(Encoder) /\ WF_vars(Streamer)

FairSpec == Spec /\ Fairness

-----------------------------------------------------------------------------
IsQueue(b) == b \in [messages : Seq(Frames), offset : 0..MaxFrames]

\* Every variable has its type; no packet has more than two references.
TypeOK ==
  /\ IsQueue(image_out) /\ IsQueue(avpacket_out)
  /\ refs \in [Frames -> 0..2]
  /\ epc \in {"pop", "encode", "drain", "ref", "send", "push", "write", "crashed"}
  /\ {image, pkt, copying} \subseteq Frames \union {NoMessage}
  /\ inside \in Seq(Frames)
  /\ lost \subseteq Frames /\ unwritten \subseteq Frames
  /\ video_open \in BOOLEAN /\ header_kept \in BOOLEAN
  /\ count_write \in 0..PacketsPerFile
  /\ writes \in Seq([file : 1..file_no, packet : Frames, headed : BOOLEAN])
  /\ file_no \in 0..MaxFrames
  /\ errors \in 0..MaxErrors
  /\ spc \in {"pop", "copy"}
  /\ streamed \in Seq(Frames)

-----------------------------------------------------------------------------
(* Safety. *)

InHand(held, n) == IF held THEN <<n>> ELSE << >>

\* The packets that were sent to the streaming thread, in that order.
Sent == streamed \o InHand(spc = "copy", copying) \o avpacket_out.messages

\* Frames and packets between image_out and PushFrame, the oldest first.
OnTheirWay ==
  Sent \o InHand(epc \in {"ref", "send", "push"}, pkt) \o inside
       \o InHand(epc = "encode", image) \o image_out.messages

Increasing(s) == \A i, j \in 1..Len(s) : i < j => s[i] < s[j]

\* Every frame main sent is streamed, on its way in the order of the frames,
\* or was lost with the encoder that failed on it: none is skipped, repeated
\* or overtaken between image_out and PushFrame.
FramesAccounted ==
  Increasing(OnTheirWay) /\ Range(OnTheirWay) = (0..Arrived - 1) \ lost

Recorded == [i \in 1..Len(writes) |-> writes[i].packet]

\* The packet that was sent and not written yet.
NotYetWritten == IF epc \in {"write", "crashed"} THEN {pkt} ELSE {}

\* What is recorded is what is streamed, in that order: a packet that was sent
\* is written next, or is the one that found no file.
RecordingMatchesStream ==
  /\ Increasing(Recorded)
  /\ Range(Recorded) = Range(Sent) \ (unwritten \union NotYetWritten)

Holders(n) ==
  (IF n = pkt THEN 1 ELSE 0) + (IF n = copying THEN 1 ELSE 0)
  + (IF epc \in {"send", "push"} /\ n = pkt THEN 1 ELSE 0)
  + Cardinality({i \in 1..GetSize(avpacket_out) : avpacket_out.messages[i] = n})

\* The data of a packet lives exactly as long as someone holds the packet:
\* the two threads never touch freed data, and nothing leaks.
ReferencesBalance == \A n \in Frames : refs[n] = Holders(n)

InFile(f) == {i \in 1..Len(writes) : writes[i].file = f}

\* Every file can be played: it starts with the stored header, or with the
\* first packet, which brings its own.
EveryFileHasHeader ==
  \A i \in 1..Len(writes) :
    (i = 1 \/ writes[i - 1].file # writes[i].file)
      => writes[i].headed \/ writes[i].packet = Sent[1]

\* A file is closed when it is full and only then: all files but the open one
\* hold the same number of packets, less the one that found no file.
FilesFilled ==
  \A f \in 1..file_no : f < file_no \/ ~video_open =>
    Cardinality(InFile(f)) + (IF f = 1 THEN Cardinality(unwritten) ELSE 0)
      = PacketsPerFile + 1

\* Both hold of every file, however often the encoder restarts and whatever
\* file cannot be opened: none is cut short, none cannot be played.
FilesComplete == EveryFileHasHeader /\ FilesFilled

-----------------------------------------------------------------------------
(* Liveness. *)

\* Every frame main sent is streamed in the end, or is lost with the encoder or
\* kept in it: back pressure from the queues never becomes a deadlock.
EveryFrameStreamed ==
  \A n \in Frames :
    (Arrived > n) ~> \/ \E i \in 1..Len(streamed) : streamed[i] = n
                     \/ \E i \in 1..Len(inside) : inside[i] = n
                     \/ n \in lost
                     \/ ~Running
=============================================================================
