# A TLA+ model of MBEDAI

MBEDAI reads a video, runs several object and face detectors on it in parallel,
draws what they find, records the result, streams it over RTSP and exchanges
commands with a browser over a WebSocket.  This directory models the parts of
the program where threads meet, checks them with TLC and proves the most
important properties with TLAPS.

Paths below are relative to the repository, which is mounted as `src/`; the
application is `src/src/`, its libraries are `src/include/`.

## 1. Inventory

### Threads and what they share

```
 reading thread        detector threads (one per model)
 Graphic::readImage    Detection::objectDetection
      | send               ^ receive     | send(timestamp + i)   setDataReady
      v                    |             v                           |
   image_in : vBuffer -----+        rects_out : mBuffer  <-----------+
      | pop                              | pop(timestamp)
      +-------------> main: wait, then display <---+
                           | send
                           v
                      image_out : vBuffer
                           | pop
                           v
        encoding thread  FFMPEGLib::encode_frame ---> ../result/*.h264
                           | send
                           v
                      avpacket_out : vBuffer
                           | pop
                           v
        streaming thread LiveStream::SendFrameThread
                           | RtspServer::PushFrame
                           v
        event loop       TaskScheduler, RtspConnection, RtpConnection  ---> clients

 main --- sBuffer ---> WSTransferData ---\
      <-- sBuffer ---                     user_vec (shared list of users)
                      run_websocket -----/   libevent loop, ws_conn_t per user
```

| Component | State | Operations | Hard behaviour | What makes it correct |
|---|---|---|---|---|
| Frame queues (`Buffer.h`) | vector and pop counter; map of results; map of readiness | send, receive, pop, counters | `send` checks and pushes in two lock sections; size_t arithmetic on positions; eviction loop | order, capacity, a position names one frame |
| Frame pipeline (`Graphic.cpp`, `Detection.cpp`, `main.cpp`) | position and batch of every detector, the first-frame handshake, the frame on display | read, detect, store, wait, show | four kinds of thread with one lock per step; detectors slower than the video | no frame lost or reordered, no detector examines or draws on a wrong frame, no frame reported twice, no deadlock |
| Encoding and streaming (`ffmpeg_lib.h`, `rtsp_stream.h`) | packet references, current file and its packet count, stored header | encode, restart, write, stream | encoder and streaming thread share the data of a packet; errors restart the encoder; files are split | every frame streamed in order, recording equals stream, no freed or leaked packet, playable files |
| WebSocket hub (`WebSocket.h`) | `user_vec`, incoming messages, flags | connect, disconnect, broadcast, transfer | two threads share `user_vec`, only one of them always under the mutex | no use of a freed user, messages delivered in order |
| WebSocket connections (`connection.cpp`, `frame.cpp`, `websocket.cpp`) | step of the frame reader, pending lengths, callbacks | handshake, read a frame, close | callbacks that start the next step, including a write callback that others trigger | handshake before frames, a message is the sum of its fragments |
| Event loop (`rtsp/net`) | trigger queue, wake pipe, timers | post a callback, poll, time out, stop | a ring buffer without a lock, a check outside the lock, a bounded queue and a bounded pipe | no lost or reordered callback, no lost wake-up, Stop is heard |
| TCP and RTSP server (`rtsp/net`, `rtsp/xop`) | connections by descriptor, the session's clients, write buffers, a connection's transport and play state | accept, describe, setup, play, teardown, push, close, destroy | closes come from several places and in several steps, descriptors are reused, packets travel through callbacks with a raw pointer; no session automaton | a removal finds its own connection, packets go to playing clients in order, every closed connection is freed |
| RTSP messages (`RtspMessage.cpp`) | read buffer, a parser that lives as long as the connection | parse a request, answer | bytes come in any pieces; only part of the parser is cleared between requests | each request served once with its own parameters |
| RTSP pusher (`RtspPusher.cpp`) | the connection, its step, the caller's wait | open, time out, close, answers | the caller gives up while the event loop works | records only what was accepted, what was given up is closed |
| RTP packets and hashes | | cut a frame; cut, count and pad a message | sizes at the limits | frames and blocks come out whole |
| Face recognition (`FacesRecog.h`) | names and descriptors, their two files, announcement counters | recognise, learn, save, announce | two files, a SIGKILL in between; a debounce in two counters | every descriptor keeps its owner's name, a face gets the name of an entry about as near as any, announcements are rare |
| Model adapters (`SSDMobile.h`, `Tensorflow.h`) | class names, number of colours | set up, detect | two adapters share one table of colours | what is found can be drawn under its name |
| Object tracking, utilities, vendored code | | | not started by main, or no state | not modelled |

`PROJECT.json` lists every component with its sources and, under `hazards`, the
places of the code that a test would hardly reach, with the properties that
cover them.

### Bounds the program itself has

`MAX_VBUFFER_SIZE` frames per `vBuffer`, 1000 timestamps in an `mBuffer`, 2000
packets per file, 500 packets in a connection's write buffer, 50000 trigger
events, RTP payloads of 1420 bytes.

## 2. Plan

In the order of importance, with what is done:

1. `VBuffer`, `MBuffer`: the queues as operators, one per lock section. *Done.*
2. `FramePipeline`: the threads around the queues, refining `FrameStream`. *Done;
   every safety property of its runs is proved.*
3. `EncodePipeline`: encoding and streaming threads. *Done; safety is proved.*
4. `SBuffer`, `WsFrame` (frame reader) and `WebSocketHub` (users, their
   connections, the two threads, the message buffers), in one module because the
   write callback of a connection is triggered by the hub's broadcasts. *Done;
   safety is proved.*
5. `TriggerChannel` and `TaskScheduler`: a bounded channel that runs callbacks in
   order, and the ring buffer, pipe and timers that implement it. *Done; safety and
   the safety half of the refinement are proved.*
6. `RtspSession` and `RtspServer`: the requests of clients, the connections'
   life, the session's list and the pushed packets. *Done; safety is proved.*
7. `RtspRequest`, `RtspPusher`: the bytes of an RTSP conversation, on either side.
   *Done; safety is proved on both sides.*
8. `Faces`, `RtpPackets`, `BlockHash`, `WsCodec`, `Handshake`, `Detections`: the
   face database with its files, and the algorithms without threads against
   reference definitions, composed in `Components`. *Done; everything its run checks is
   proved, the algorithms for inputs of every size.*

Runs: one per question, on two clients or users and two to five messages.

## 3. What is modelled

### VBuffer and MBuffer

A `vBuffer` is a record `[messages, offset]`: `_messages` and `_frame_offset`.
Only the front is ever removed, so the message at index 0 has the absolute
position `offset`. `Receive`, `Front`/`Pop`, `IsFull`, `Push`, `GetSize` and
`GetPopCounter` are the lock sections of `receive`, `pop`, `send` (two of them),
`getSize` and `getPopCounter`. `MinusSizeT` is subtraction on `size_t`: `SizeT` is
the number of values of the type, and the proofs need only that it exceeds the
positions of the model.

An `mBuffer` is a function from timestamps to sequences of results, and a
function from the threads that have registered to 0 or 1. The eviction loop of
`send` is two actions of the detector, because it takes the lock anew for every
`pop` and reads the size without it. A result stands for the vector of
rectangles of one inference and names its detector and the frame it was
computed on; both are what the properties tell apart.

### FramePipeline

| Module | Code |
|---|---|
| `rpc`, `f_count`, `frame_skipped`, `first_time` | local variables and position of `readImage` |
| `dpc[k]`, `d_count[k]`, `current[k]`, `stored[k]`, `detected_frames[k]`, `warm[k]` | position, `d_count`, `current_frame`, loop index, `_detected_frames`, `_data_ready` of a detector |
| `mpc`, `waited`, `gave_up`, `shown`, `drawn` | position of `main`, the counter of `countTimeOut`, whether it timed out, the frame popped and the results drawn on it |
| `GrabAndSkip`, `Grab`, `SendSeesRoom`, `SendPushes`, `Prime` | an iteration of `readImage` |
| `Register`, `CheckPosition`, `Jump`, `ReceiveFrame`, `Detect`, `MarkReady`, `StoreSeesSize`, `StoreEvicts`, `StorePuts` | an iteration of `objectDetection` |
| `WaitEnds`, `WaitTicks`, `WaitTimesOut` | the waiting loop of `main` |
| `ShowSeesTwo`, `ShowPops`, `Draw`, `OutSeesRoom`, `OutPushes` | an iteration of the display loop |
| `EncoderPops` | the encoder's pop, all that this module needs of it |

Every lock section is a step of its own, so that all interleavings the mutexes
allow are behaviours: `d_count < getPopCounter()`, the `getPopCounter()` of the jump
and the `receive` are three steps. Steps that touch only local variables are
joined to the lock section before them.

What an inference answers is a choice: whether it found anything, and how many
frames the video advanced meanwhile (`MaxBatch` bounds it). The first inference
only measures this and makes the detector ready, as in the code. `readImage`
rewinds the file at its end and nothing else resets `_continue_update`, so the
loops' exits are not taken.

`FrameStream` is what this machinery promises, in four variables: frames
produced, frames consumed, per detector the first frame it may still report on,
and the reports on file. `FramePipeline` implements it under the mapping
`produced = f_count`, `consumed = image_in.offset`, `frontier[k] = d_count[k]` or,
while a batch is being stored, the next timestamp it will be stored under, and
`reports` = which detector has results under which timestamp of `rects`.

### EncodePipeline

| Module | Code |
|---|---|
| `epc`, `image`, `inside`, `pkt` | position of the encoding thread, the image and the packet it holds, the frames inside ffmpeg |
| `refs` | the reference count of every packet's data |
| `video_open`, `header_kept`, `count_write` | `_video_file`, `_header_file` and the static counter of `writeVideoFile` |
| `writes`, `file_no`, `unwritten` | history: what went to which file, and what found none |
| `lost` | history: frames an encoder error has cost |
| `spc`, `copying`, `streamed` | position of the streaming thread, its packet, and the packets pushed to the RTSP server |

`SendFrameFails` is the `break` on a failed `avcodec_send_frame`, the cleanup at the
end of `encode_frame` and its next call from `encodeVideo`, in one step: no other
thread sees anything in between but the queue, which it leaves alone.
`WriteVideoFile` and `OpenFails` are the two outcomes of `writeVideoFile` together
with the `av_packet_unref` behind it. The ffmpeg encoder is external: it takes
frames in order, keeps up to `Lookahead` of them and emits the oldest. A write
through a null `FILE*` ends the process (`epc = "crashed"`), after which nothing runs.

### SBuffer, WsFrame and WebSocketHub

| Module | Code |
|---|---|
| `user_vec`, `user_count` | the vector with the memory behind its last element, and its size |
| `state[u]` | whether a user has not come yet, is connected, or has been freed |
| `step[u]`, `frame[u]`, `asked[u]`, `pending[u]` | `step` and `frame` of its `ws_conn_t`, whether its request has been read, whether its output buffer holds something |
| `messages_in`, `put_msg`, `get_msg`, `ready_to_send`, `send_mutex` | `_messages_in`, the two `sBuffer`s, `_ready_to_send`, `_send_mutex` |
| `caller` | the event loop is inside `frame_recv_cb` of this user, before its broadcast |
| `fpc`, `tpc`, `index`, `message` | position of the face detector in `sBuffer::send`, and of `WSTransferData` with its locals |
| `received`, `owed`, `undefined` | history: what was written to each user, who was connected during the whole transfer, whether a freed user was used |

The event loop runs one callback at a time. A callback is one step, but for
`frame_recv_cb`, which stores a message and then waits for `_send_mutex`
(`ReceiveMessage`, `BroadcastFrame`). A broadcast of the event loop is one step,
because it holds the mutex and nobody else changes the list: `SendAll` says in one
formula what the loop over the users does, and `MCWebSocketHub` compares it with the
loop. The transfer thread
goes through the list element by element (`TransferSeesUser`, `TransferSends`), and
`Disconnect`, which takes no mutex, may come between any two of these steps.
`Erased` is what `std::vector::erase` does to the memory: the elements behind move
down and the last one is left where it was, so that the transfer thread may read
a user twice, miss one, or use one that has been freed. After that the behaviour
of the program is undefined and the model stops (`undefined`).

`sBuffer::send` is three steps (a look at the size without the lock, the pop, the
push), and so is taking an announcement (`TransferSeesMessage`, `TransferPops`): an
eviction in between may leave nothing to pop, and an empty message is sent.

Of a frame matter kind, final bit and size. When a broadcast is drained before the
request was read, `response_write_cb` starts the frame reader and the request is
read as frames; its bytes are text, so such a frame is never final
(`GarbledFrames`). Only the last fragment of a message is stored and sent, as in the
code; `user->msg`, which collects all of them, is only logged. libevent is
external: it delivers what clients send, one read at a time, and calls the write
callback when an output buffer has been emptied.

### TriggerChannel and TaskScheduler

| Module | Code |
|---|---|
| `buffer`, `put_pos`, `get_pos`, `num_datas` | `RingBuffer`: `buffer_`, `put_pos_`, `get_pos_`, the atomic `num_datas_` |
| `mutex`, `ppc[p]` | `mutex_` and the position of a posting thread in `AddTriggerEvent` |
| `lpc`, `taken`, `batch`, `deadline` | position of the loop in `Start`, the callback it has popped, what `epoll_wait` returned, when that returns at the latest |
| `pipe` | bytes in the wake-up pipe; a write to a full one is dropped |
| `timers`, `last_timer_id`, `time_point`, `now` | `TimerQueue`, and the clock |
| `CheckSize`, `Lock`, `Store`, `Count`, `Write` | `AddTriggerEvent` and `RingBuffer::Push` |
| `Pop`, `Release`, `CallbackReturns`, `CheckOnce`, `CheckMore` | `HandleTriggerEvent` and `RingBuffer::Pop` |
| `FireTimer`, `TimersDone`, `WaitReturns`, `SocketReady`, `WakeReads`, `SocketHandled` | the rest of a round |
| `Stop`, `StopWrites`, `StopSilently` | `TaskScheduler::Stop` |

The ring buffer has no lock of its own, so storing an element and counting it are
two steps of the producer, and taking an element and giving its slot back are two
of the loop. The size is looked at before the mutex is taken, as in the code. A
post from inside a callback that finds the queue full becomes a timer, which is
what `TcpServer` does with a removal (`Refused`). `TriggerChannel` promises that
callbacks run in the order they were taken over, each once; the refinement maps
its `waiting` to the counted part of the ring. `TriggerChannel!Safety` is that
promise without its fairness, `TriggerChannel!Spec` all of it.

### RtspSession and RtspServer

`RtspSession` is one connection's answer to one request, as operators: the
challenge and the check of an authorization, transport, PLAY and TEARDOWN, and what
each leaves in the record of the connection (`transport`, `is_play`, `is_closed`,
sequence number and whether a first RTCP channel was left in epoll).

`RtspServer` composes it with both threads:

| Module | Code |
|---|---|
| `owner`, `fd[c]` | which connection has a descriptor, the descriptor of a connection |
| `connections`, `clients`, `polled` | `TcpServer::connections_`, `MediaSession::clients_`, the channels in epoll |
| `phase[c]`, `writing[c]`, `wbuf[c]`, `sess[c]` | a `TcpConnection` from accept to its destruction, whether it waits for EPOLLOUT, its `BufferWriter`, its session |
| `queue`, `timers`, `lpc`, `task`, `batch` | the event loop, with the trigger events by what they do |
| `spc`, `held`, `todo`, `conn` | the streaming thread in `rtspInit`, `PushFrame` and `HandleFrame`, the shared pointers it holds |
| `seen`, `last`, `gaps`, `raced`, `lost` | history |
| `fault` | memory used after it was freed, or a descriptor closed that belongs to somebody else; the model records it and stops |

A callback of the loop is one step. The streaming thread is not: it copies the
list under the mutex (`Collect`), locks one weak pointer (`LockConnection`), looks at
the size of the trigger queue (`CheckSize`) and pushes (`Post`); a connection may
close and be removed between any two of them, and the last shared pointer may be
the streaming thread's (`Release`, `CallbackEnds`). A closed socket's number is
given to the next client. The kernel takes any part of the write buffer.

### RtspRequest and RtspPusher

A request is a sequence of tokens (its line, its headers, CRLFs) and a read brings
any number of them, so that requests arrive cut and joined in every way;
`OnRead` is `BufferReader::Read` and the whole of `RtspConnection::OnRead`. The
parser's fields that `Reset` does not clear are kept from request to request.
`HandleRtcp` drops a packet only when nothing follows it, as the comparison in the
code says. `WholeRequestsServed` is about clients that keep to the standards
(`WellFormed`: a session for PLAY, one transport for SETUP and for no other method):
what others write is parsed by the same actions, and only `AnswersMatchRequests` holds of
it. `RtspPusher` is the other side, in the library but not used by the
application: the caller of `OpenUrl`, the trigger events, and responses that are
searched with `strstr` in a buffer whose old bytes are still there (`stale`).

### Faces, RtpPackets, BlockHash, WsCodec, Handshake, Detections and Components

`Faces` is `FaceRecog`. A frame is taken (`TakeFrame`), each of its faces is left out
or named, which may grow the database (`SkipFace`, `NameFace`), and in the end the
files are written and the faces announced (`EndFrame`). `KillWhileSaving` is what
SIGKILL leaves between the two `serialize` calls, each of which truncates its file
first, `Kill` a SIGKILL at any other time, `Start` the constructor. A descriptor is
a number and a distance that of numbers. Distances and thresholds are counted in a unit
in which all are whole numbers, which floating-point numbers always have; a step between two
thresholds is `ThresholdStep` of them. (The thresholds, at most 40 times a `float` added up in
a `double`, are exact multiples of the step.)

The others have no variables:

* `RtpPackets`: `HandleFrame` of the five sources, and a receiver that puts the
  packets together again.
* `BlockHash`: how `SHA1` (`sha1.cpp`) and `md5` (`md5.hpp`) cut a message into
  blocks, count its length in words of `Word` values, and pad it, against the
  definition of the standards. The rounds on a block are left out. SHA-1 is used by
  the library's second server, MD5 by the digest authorization of RTSP; the
  WebSocket server of the application takes OpenSSL's SHA1, which is external.
* `WsCodec`: `frame_buffer_new` and the three steps of `frame_read_cb` byte for byte,
  and Base64, against a browser that follows the standard. The mask is applied bit by
  bit (`Xor`); a length is at most the largest `int` (`MaxInt`), so that the upper four
  bytes of a length field are 0.
* `Handshake`: header lines to accept key, for both servers of the library. A `Host` line
  has a value, as HTTP requires of a line that names a host.
* `Detections`: class numbers to colours and names, network outputs to rectangles. A
  `vBuffer` starts with 100 colours, and an adapter with more classes asks for more.

Loops over data are written as recursive functions on the number of elements done
(`After[i]`), or, where a packetizer cuts at regular places, as the least number of
rounds after which its loop condition fails.

`Components` puts them side by side: `input` is what an algorithm is given, or `"none"`
for the face database, whose steps are then those of `Faces`. It states the properties
and says what may be given (`InputsAssumption`): sizes, bytes, pieces and lines of any
number, a detection that reaches less than a frame beyond the frame. `MCComponents` gives
`Inputs` a small set with the edges of every size, an initial state for each. `MCRtspMessages` runs either of
the two sides of an RTSP conversation; the definitions of `RtspPusher` that it would
confuse with those of `RtspRequest` have names of their own (`PusherNext`,
`read_buffer`). The other MC modules only define the symmetry of the instances.

## 4. Runs

| Run | Question | Bounds |
|---|---|---|
| `FramePipelineSafety` | Do order, capacity, positions, batches and drawing hold in every interleaving, and is `FrameStream` implemented? | 2 detectors (symmetric), capacity 2, 3 frames, inferences of 1 or 2 frames, a skip every 2 frames, more results than the map takes, a wait that may time out |
| `FramePipelineLiveness` | Does the handshake of the first frame end, and is every frame but the newest encoded? | 2 detectors, capacity 2, 3 frames, inferences of 1 frame |
| `ResultsGetStored` | Is a batch of results always stored in the end? **No** | 1 detector, 5 frames, a map of 1 entry |
| `EncodePipeline` | Do references balance, does the recording match the stream, is every frame accounted for and streamed in the end, and does every file begin with a header and hold its number of packets? | queues of 2, 8 frames, files of 2 (+1) packets, 2 failures of any kind |
| `WebSocketHub` | Do all users see one order, is a message forwarded once, and what can start the frame reader early? | 3 users (symmetric), 2 frames of two sizes, 1 announcement, `sBuffer`s of 1 |
| `WebSocketQueues` | Does each origin's order survive, is every message forwarded in the end? | 2 users, 2 frames, 3 announcements, `sBuffer`s of 1 |
| `BroadcastReachesUsers` | Does an announcement reach every user connected during its transfer? **No** | 2 users, 2 frames of two sizes, 1 announcement |
| `TaskScheduler` | Is no wake-up lost, is `TriggerChannel` implemented, does Stop end the loop, does a refused removal run? | 1 thread and the loop, 2 posts each, a ring of 2, a pipe of 3 bytes read 2 at a time, 2 ticks |
| `RtspServer` | What can outlive its connection, when are packets sent and in which order, does output stall? | 2 clients one after the other on one descriptor, 5 requests of any kind, 2 packets, queue and write buffer of 2 |
| `RtspServerCleanup` | Does a removal find its connection, does the client list match, is every closed connection freed? | 2 clients at once, 2 requests, frames of 2 packets, write buffer of 1 |
| `RtspMessages` | Whose parameters does an answer carry, however the bytes arrive? Does the pusher record only what was accepted, and close what it gave up? | 3 messages of 8 kinds in all cuts; 0 to 2 channels |
| `Components` | Do the face database and the algorithms without threads do what their reference definitions say? | see `MCComponents` |

### Why the bounds are enough

Capacity 2 is the smallest at which the display runs (it keeps one frame back);
with 3 frames the queue fills, blocks its producer, is drained and fills again.
Inferences of two frames make a detector fall behind, jump, run ahead of the
reader and wait for a frame, and make batches of two detectors overlap under the
same timestamps. The map of results is over its limit with the fourth timestamp
filed, so the eviction loop is entered. `SizeT = 64` leaves the wrap-around of a
position that has left the queue far from the indices in it; the theorems cover
every larger value. In `EncodePipeline` 8 frames fill two files and open a third,
and two failures give an encoder error before and after a packet was sent, and a
file that cannot be opened as the first one or as a later one.
With three users one can send and two receive, so that orders can be compared, and
one can leave in front of another while the list is gone through. Two frames are
what the loop that erases while it counts needs to skip one, and three
announcements are what it takes to find a buffer of 1 over its limit and evict.
A ring of 2 is full, wraps around and is seen empty with two posts by each of two
producers, and a pipe of 3 drops the fourth byte and keeps one after a read of 2.
One descriptor makes the second client inherit the number of the first at every
point of the first one's end; two make a removal of one overtake the other's. Five
requests are what DESCRIBE, SETUP, PLAY, TEARDOWN and a PLAY after it take.
Three messages are the least in which a request is read together with the end of
the one before and the beginning of the next. `MaxPayload = 6` with
frames of up to 25 bytes gives up to seven packets with every remainder; blocks of 4
bytes and length words of 32 values with messages of up to 20 bytes, and some of 125 to 129, pass the
room left for the length and the carry of both words; the frame sizes are the boundaries of the length
field, with their neighbours; a class file of 110 names is longer than what a `vBuffer` starts
with. For these algorithms the bounds only serve to find mistakes early: the theorems cover every size. `Repeat = 3` stands for the ten frames of the
debounce. Of the thresholds 0, 3 and 6 the first two let the database grow; a
step of 3 leaves two distances between them, so that a face at 7 is within the same
threshold of an entry at 4 and of the nearer one at 9, which is another person's.
`CHECK_DEADLOCK FALSE` is there because the models stop when the bounded video, or
the bounded number of frames and announcements, ends; that they do not stop before is what the liveness properties say.

### Fairness

Each thread is weakly fair: a `std::thread` under a preemptive scheduler whose loop
sleeps or spins and never gives up. The mutexes protect short sections without
blocking calls, so a lock section is a step and needs no fairness of its own.
Nothing is assumed about how long an inference lasts, that a detector ever finds
something, that frames reach the encoding thread, or about clients.
In `WebSocketHub` only the transfer thread is fair. It waits for the event loop
during one broadcast at most. The event loop waits for clients, and for a mutex the
transfer thread takes again as soon as it has released it: nothing is promised
about it.
In `TaskScheduler` the loop, the posting threads and the clock are weakly fair; sockets,
and who calls Stop when, are not. In `RtspServer` the loop and the streaming thread
are weakly fair, and the timer strongly: the loop asks for due timers in every
round, but whether a round finds one due depends on when it comes. No client has to do anything.
`RtspMessages` needs only that the loop runs queued callbacks.
Two things that look like assumptions are not: `EveryFrameEncoded` does not use
that a detector ever becomes ready before the timeout, and `EveryFrameStreamed`
does not use fairness of the main thread.

## 5. Where code and comments disagree

* **Results that come too late are never removed**, and `mBuffer::send` makes room
  by erasing key 0 only. Once more than `_max_size` of them have piled up, every
  detector spins for ever in `send` (`ResultsGetStored`; `Buffer.h:269-272`).
* **An announcement can miss a connected user**, or be written to one that has been
  freed, when a user leaves during the transfer (`BroadcastReachesUsers`;
  `WebSocket.h:166`, `269-276`). The event loop's own broadcasts are not exposed to
  this, because it runs `user_disconnect` itself.

Smaller surprises are in the models as they are in the code, and the properties
hold with them or name them as their exception: the
waiting loop may end before any detector has registered (`main.cpp:163`); a file
holds 2001 packets, not the 2000 of the comment, and its header is written without a look at
whether it was opened (`ffmpeg_lib.h:326-337`); a broadcast that drains before a browser's handshake was
read ends the handshake (`OnlyBroadcastsPreempt`); a removal can be lost in the race
for the last slot of the trigger queue (`ClosedIsFreed`); a queued packet may be
sent through a freed connection (`DanglesOnlyInTheRace`); a client that plays again
after TEARDOWN cannot be stopped by a second one (`PacketsWhilePlaying`); requests
that arrive together are swallowed or mixed (`AnswersMatchRequests`); a VP8 frame
of a multiple of 1420 bytes has no last packet (`FramesReassemble`); a kill between
the two files of the face database leaves names without descriptors (`FacesAreNamed`).

Among the entries within the same threshold `findFaces` takes the first of the vector,
whoever owns it (`FacesRecog.h:232-256`): a face may be given the name of one person although
an entry of another is nearer, by less than a step of 0.01, and be entered in the database under
that name. `FacesAreNamed` says how far off the name can be, and no more.

The comment at `FacesRecog.h:210` ("if have no faces appeared in 10 times, then reset") can be read
as counting frames without faces. The code counts ten frames in which the number of faces did not
change, whatever it is, and so does `AnnouncementsAreRare`.

Some properties exclude a fault of the code, which is in the models, instead of catching it;
their comments and the list of hazards say so:

* `FramesReassemble`: a VP8 frame whose last packet is full (`VP8Source.cpp:69`).
* `WholeRequestsServed`, `AnswersMatchRequests`: an RTCP packet with something behind it blocks the
  buffer, and a part of one empties it (`RtspConnection.cpp:211`).
* `RecordsWhatWasAccepted`: an incomplete response moves the pusher one step on
  (`RtspMessage.cpp:557`).
* `ForwardedOnce`, `MessagesForwarded`: what the loop skips is forwarded late, in another order
  (`WebSocket.h:287`).

## 6. What is proved

There are eight proof modules. Each proves that its specification keeps
its types (`TypeCorrect`) and an inductive invariant (`Invariance`), and from that
the safety properties its runs check, for every value of the constants; the last
one also proves the algorithms. The
assumptions are those stated as `ASSUME` in the modules, which give the ranges of
the constants (a queue has room for at least two frames, a pipe for a byte, a debounce
lasts at least a frame) and which TLC evaluates in every run. No theorem assumes
fairness or a bound on what threads do.

None of the properties is inductive by itself. In the proof modules the invariant comes first,
a conjunction of named parts; each was checked by TLC on the instances of the runs
before it was proved.

### Frame pipeline

* `StreamInv`: order and capacity of the queues, strengthened by what each thread
  knows between the two lock sections of an operation. The reader at `push` still
  has room, because no one else sends; the display at `pop` still has two frames,
  because no one else pops; and while the reader waits with its first frame there
  is only that frame, so the display cannot have seen two;
* `DetectorInv`: the frame a detector examines is the one its position names, and
  while it stores a batch it stands at an index within the batch;
* `PositionInv`: the frame a detector examines has been read, so its position is at
  most a batch ahead of the frames read, and a detector jumps only when the
  display has overtaken it, so a jump never goes back. Positions stay below
  `SizeT` (`TypeOK`), so a wrapped index never falls into the queue;
* `ResultInv`: every result in the map is less than a batch older than its
  timestamp, and lies below the frontier of its detector;
* `NoDuplicateResult` and `DrawnBelongs`.

The last two rest on the frontier: a result is filed at the frontier, all earlier
ones lie below it, and the frontier only grows. That is also what the refinement
proof needs: `StreamImplemented` maps every step to `Produce`, `Consume`, `Advance`, `Report`,
`Withdraw` or a stutter. Its lemmas on `VBuffer` (`ReceiveExact`, `PushInOrder`, `PopInOrder`) say what
the queue operators do to a queue in order, and `ReceiveExact` is where the
wrap-around of `size_t` is dealt with.

| Theorem | States |
|---|---|
| `StreamSafe` | `FramesInOrder`, `CapacityRespected`, `NeverDrained` |
| `PrimingSafe` | `PrimingKeepsFirstFrame` |
| `DetectorsExamineTheirFrame` | `ExaminesItsFrame` |
| `ResultsSafe`, `DrawnSafe` | `NoDuplicateResult`, `DrawnBelongs` |
| `StreamImplemented` | `ImplementsStream` |

### Encoding and streaming

The frames on their way form one sequence: written, in a hand, streamed, in a
queue, inside the encoder. `OrderInv` says that it increases and that, with what was
lost, it is every frame that came; `SentInv` that the packet
being written is the last one sent; `HandInv` which thread holds what. A step moves a frame from
one part of the sequence to the next, and the lemmas on increasing sequences
(`TakeInOrder`, `PutInOrder`, `SmallSequences`) say that this changes neither its order nor its range.
`HeaderInv` and `FileInv` tie the header and the counter of `writeVideoFile` to the
packets of the open file. That a packet is in flight once (`QueuedOnce`) makes the
reference counts balance.

| Theorem | States |
|---|---|
| `NoFrameGoesMissing` | `FramesAccounted` |
| `RecordingIsFaithful` | `RecordingMatchesStream` |
| `ReferencesAreBalanced` | `ReferencesBalance` |
| `FilesAreComplete` | `FilesComplete` |

### WebSocket hub

`UserInv` and `SeenInv` are the list of users and what each thread has seen of the
sizes; `MutexInv` says where the transfer thread holds the mutex. An order common to
all users follows from two numberings: `NumberInv` (a client's message has its
number from the frame it came in, and there is none of a frame still being read) and
`AnnounceInv` (announcements wait in the order of their numbers behind those sent).
`SendingInv` is the state of a transfer in the middle of the list: who has the
announcement has nothing newer, who is still to be reached does not have it.
`ForwardInv` follows a client's message through both buffers as long as nothing has
been dropped; `PreemptInv` finds the broadcast behind every early start of a frame
reader.

| Theorem | States |
|---|---|
| `OneOrderHolds` | `OneOrder` |
| `OriginsInOrderHolds` | `OriginsInOrder` |
| `OnlyBroadcastsPreemptHolds` | `OnlyBroadcastsPreempt` |
| `ForwardedOnceHolds` | `ForwardedOnce` |

### Event loop

`RingInv` says that positions and counter of the ring agree up to the halves of a push
and of a pop that are under way, `FilledInv` that the counted slots hold callbacks,
`MutexInv` who is in `AddTriggerEvent`. `WakeInv` is `NoLostWakeup` made inductive: from
its last look at the queue to the end of its wait the loop has a byte in the pipe, or a
producer is about to write one, and likewise for Stop. `ChannelImplemented` states
`Channel!Safety`, the half of `ImplementsChannel` without fairness.

| Theorem | States |
|---|---|
| `NoWakeupLost` | `NoLostWakeup` |
| `ChannelImplemented` | `Channel!Safety` |

### RTSP server

`ConnInv`, `PostedInv` and `OnceInv` follow a descriptor from `accept` to the removal: a
connection that has not ended owns its number, and its removal is posted once, by
itself, while it is still listed. So the number cannot have been given to another client.
`SendInv` orders a connection's sends before its removal, up to the race that
`DanglesOnlyInTheRace` names; `HeldInv` and `BatchInv` say what the streaming thread and a
round of the loop still hold. `SessionInv` and `ClientInv` tie the session's list to the
connections. `AnswerInv` compares the state of a session with the last answer its client
has been sent or will be, and `OrderInv` says where the packets of a connection are between the streaming
thread, the queue and the write buffer. The lemmas from `Greatest` to `OneMessage` show that what a client has
been told does not depend on where the kernel cuts its stream.

| Theorem | States |
|---|---|
| `RemovalsAreRight` | `RemovesTheRightConnection` |
| `ClientsAreRight` | `ClientsAreTheDescribed` |
| `DanglingIsTheRace` | `DanglesOnlyInTheRace` |
| `OutputFlows` | `OutputIsWatched` |
| `StreamsAreInOrder` | `PacketsWhilePlaying` |

### RTSP messages

The bytes of a client are a concatenation of any number of messages, of which the buffer
holds a part that may begin anywhere, and the parser looks for its headers in all of it. The
invariant does not say which requests are in it. `Framed` says what it looks like from
any place: a request line is followed by its line break and its own CSeq, and CSeqs
increase. This is kept by whatever is taken off the front (`FramedRest`) and by what a
client sends next. `ParserInv` (`Ready`) puts the parser between two requests or behind the
line of one, with that one's CSeq before any other; `ServedInv` says that whatever was
served lies before all that is to come. For `WholeRequestsServed`, `WholeInv` says that, as
long as every read brought one whole well-formed message, the parser is back at a request line with
nothing left over, and all but the message on the wire are served. That one read serves it
as it was asked is shown stage by stage: the request line, the headers, the transport,
the channel, the authorization. That the first line break or header is where a search
finds it takes a lemma `LeastIs`.

The provers do not know that a string literal is a string, so `Text` adds to
`STRING` the three that the model uses as initial or special values.

| Theorem | States |
|---|---|
| `AnswersMatchRequestsHolds` | `AnswersMatchRequests` |
| `WholeRequestsServedHolds` | `WholeRequestsServed` |

### RTSP pusher

As long as each read brings one answer, an open connection is at one request of the
conversation (`StepInv`): its method, its channels and its CSeq are that request's, and the
request or its answer is on its way and nothing else. What keeps an old OK from
being read again is `StaleInv`: what lies behind the buffer holds a status at its start
only, and the next answer is written over it. `QueueInv` and `Unsent` say that the conversation starts
once, `RecordInv` that nothing is under way when it has ended.

| Theorem | States |
|---|---|
| `RecordsWhatWasAcceptedHolds` | `RecordsWhatWasAccepted` |

### Face recognition and the algorithms

`ComponentsProofs` first proves `Faces` by itself. `LengthInv` is what the order of the two files gives: unless it is cut off, the file of
names has a name for every descriptor of the other. `SavedInv` says that only the frame under
way has anything not yet on disk, `OwnersInv` that names and descriptors grow in step,
`CountInv` that the count of faces is forgotten only after `Repeat` quiet frames. The loop over
thresholds of `findFaces` stops at the least one that some entry is within (`LeastIs`, by
well-founded induction on the numbers), and there at the first entry. Entries in front of it are
therefore farther than the threshold, and as every distance has a threshold less than a step above it
(`ThresholdAbove`), no entry is nearer by a step (`FindIs`).

| Theorem | States |
|---|---|
| `FacesAreNamedHolds` | `FacesAreNamed` |
| `AnnouncementsAreRareHolds` | `AnnouncementsAreRare` |
| `FacesAmongOthers` | `ComponentsSpec` implements `Spec`, so both hold among the other components |

The input of an algorithm never changes, so that the invariant of `ComponentsSpec` is
only that it is one of `Inputs` (`InputIsGiven`); the work is in what the algorithms compute for
inputs of every size. Induction over data is done with sets of numbers: `Induction` says that a
set with 0 and the successors of its members has every number (by `LeastIs`), `UpTo` the same up to a
bound, and `RunExists` that a loop has a state after each of its rounds, which is what an
`After[i]` of the models is. Each algorithm then has a loop invariant, in a predicate of its own:

* **Packets.** Every source cuts a frame at increasing places (`Cuts`), so that its packets
  deliver the bytes in order and the last one only is marked (`Delivers`, `Sized`). The receiver,
  after packets that deliver a frame, has that frame and no more (`FrameArrives`), hence two of them in a row.
* **WebSocket frames.** A byte is the sum of its bits, so a mask applied twice is none
  (`XorTwice`, `UnmaskTwice`). The bytes of a length, swapped, are those in network order, and their number
  is the length again (`BytesOfLength`). A frame is a header, a key, the masked payload and the rest
  (`PartsOfFrame`), and the two readers cut it at the same places.
* **Base64.** After i rounds whole groups are coded and fewer than k signs are kept (`GroupedTo`);
  decoding undoes a group, and a last group up to the sign that fills it.
* **SHA-1.** After i bytes the blocks hashed are the first ones of the message, the bytes kept are those
  behind them (`CutTo`), and the two words of the length are that of i bytes, or the message
  is marked corrupted. Padding fills one block or two (`PaddedTo`, `LastBlocks`).
* **MD5.** After each piece the same holds of its buffer (`Md5Cut`), which keeps old bytes behind the ones in
  use, and of the count modulo two words, added word by word with a carry (`LengthsAdd`).
* **Handshake.** After i lines the field of the key is that of the browser if its line
  was among them, whatever the others have put elsewhere.
* **Detections.** The number of colours is never less than the classes of an adapter
  already set up, and a rectangle cut off to whole pixels loses less than one on each side.

| Theorem | States |
|---|---|
| `FramesAreReassembled` | `FramesReassemble` |
| `EveryFrameIsUnderstood` | `FramesAreUnderstood` |
| `EveryRequestIsAnswered` | `HandshakeIsAnswered` (Base64 included; the library's second server for lines spelled with one space) |
| `EveryMessageIsHashed` | `MessagesAreHashed` |
| `EveryDetectionIsDrawable` | `DetectionsAreDrawable` |

### What is only model-checked

* Liveness under fairness: `PrimingEnds`, `EveryFrameEncoded`, `EveryFrameStreamed`,
  `MessagesForwarded`, `StopIsHeard`, `RefusedRemovalRuns`, `ClosedIsFreed`,
  `GivenUpIsClosed` and the fairness of `ImplementsChannel` are out of the prover's reach.

Every safety property that a passing run checks is stated by a theorem, and so is the
safety half of both refinements. The library's induction theorems take
an operator as a parameter and cannot be instantiated by the provers at hand; where a proof goes
through data it uses sets of numbers instead, as described above.

## 7. What is not modelled

* Pixels, rectangles, names and the networks. `cv::Mat` copies share their pixels,
  so a detector may see a frame that `drawResult` has already painted on; the
  model does not tell such frames apart.
* The key press that ends the program with SIGKILL, but for the face database: nothing
  else is read back later.
* The codec: opening its contexts, the trailer of the container, its own errors
  other than those of `avcodec_send_frame`.
* `vBuffer::update`, which has no caller, object tracking, which `main` never starts,
  the adapters it does not construct (YOLO, Caffe, Mask R-CNN, SVM), directory
  listing, and vendored code.
* Of the RTSP library: multicast, `select`, the memory pool, the H.264 parser,
  repeating timers and the removal of timers, the end of the server, the text of a
  session description, timestamps, the password and the response hash.
* A failure of the RTSP server to listen (`rtsp_stream.h:71`), after which frames are pushed to
  an uninitialised session.
* What a network answers, the suppression of overlapping rectangles, the rounds of
  the hash functions.
* `getSize` of `mBuffer` and `sBuffer` without the lock is read as one step.
* Reallocation of `user_vec` by `push_back`, and libevent's buffers, which two threads
  write to without a lock: a write is one step in the model. Failures of libevent's calls.
  A message of several fragments is broadcast with its last fragment only, as the code does.
