# zenremote: TLA+ models and proofs

zenremote is a remote desktop in C++: a *controller* watches and steers the
screen of a *controlled host* over UDP. This directory holds TLA+ models of its
protocols and of the concurrent classes they stand on, TLC configurations that
check the models on small instances, and TLAPS proofs of what matters most for
every size. Paths below are relative to the repository's `src/`; `foo.cpp:12` is
line 12 of that file.

Run `tlc -config MCX.cfg MCX` to check a model, `tlapm X_proofs.tla` for its proofs.
`PROJECT.json` lists the runs, what each checks, the lines behind every
definition, mutations that each property catches, and the hazards below.

## 1. The system

The controller captures input events and sends them reliably; the host captures,
encodes and sends video and audio. A `ControllerSession` or `ControlledSession`
owns a `PeerConnection`, which owns a `DirectConnection` over a `UdpSocket`, and
tracks and data channels that keep raw pointers to the connection. The classes of
`network/protocol/` (handshake, reliable input, RTP, pacer, jitter buffer) are
complete but not yet wired into the sessions. RTP receiver, pacer and jitter buffer have
no user but their tests, the RTP sender none but the handshake; handshake and
reliable input have neither a user nor a test of their classes (`tests/test_network_protocol.cpp`
covers the messages). The models use the former as the tests do, and call every public
operation of the latter in every order their headers allow.

| Component (source) | State | Operations | What is hard | Correct when |
|---|---|---|---|---|
| Reliable input (`network/protocol/reliable_input`) | FIFO of pending events with retry count and send time; next 16-bit number; statistics | SendInputEvent, OnAckMessage, ProcessRetries; OnControlMessage | loss, repeats, late and overtaking ACKs, retry against ACK, failed sends, wrap | acknowledged events were applied; counters account for all; retries bounded; the queue drains |
| Handshake (`network/protocol/handshake`) | state, session id, remote SSRC | InitiateHandshake, WaitForHandshakeResponse, WaitForHandshakeRequest, SendHandshakeResponse | answers of older sessions, repeats, lost answers, failing sends, a public answer without a guard | both ends agree, and a host serves one attempt, unless the application makes it answer another |
| Pacer (`network/protocol/pacer`) | time of the last batch, its size | CanSend, OnPacketSent, Reset | batches that touch, the edge of the interval | bursts bounded |
| RTP (`network/protocol/rtp_sender`, `rtp_receiver`) | counters per payload type; expected number, statistics | Send..., ReceivePacket | wrap, late packets, long gaps | losses are counted |
| Jitter buffer (`network/protocol/jitter_buffer`) | frames by timestamp | InsertPacket, TryExtractFrame, Reset | overflow, reordering | bounded, ordered, nothing vanishes in silence |
| PeerConnection, DirectConnection, UdpSocket (`transport/`, `network/connection`, `network/io`) | connection, tracks, channels, socket, WSAStartup count | Initialize, Connect, Disconnect, AddTrack, RemoveTrack, CreateDataChannel | calls in any order, partial failure, raw pointers | sockets owned, startups balanced, no use of a destroyed connection |
| Sessions (`app/session`) | PeerConnection, tracks, channel | Initialize, Shutdown, SetVideoEnabled, SetAudioEnabled, sending | failed and repeated Initialize | tracks follow the connection |
| Timer (`common/timer`) | running_, should_stop_, timer_thread_, config | Start, Stop, Restart, SetInterval, SetType, destructor, thread | overlapping calls, a callback that stops its timer, one-shot timers | no orphaned thread; a stopped timer is silent; Stop returns |
| BlockingQueue (`common/blocking_queue.h`) | deque, stopped_, two condition variables | Push, Pop, with timeout, Try..., Stop, Clear, Reset | lost wake-ups, stop against blocked threads | capacity, no lost wake-up, everybody released |
| Configuration (`config/`) | settings, file, policy, save_pending_, delayed tasks; watchers | Set, Load, Save, SetAutoSavePolicy, delayed save, destructor; Watch, Unwatch, ResetToDefaults | save against set, crash within a write, failing saves, callbacks under the lock | file whole; changes saved or lost in known ways; watchers told of every Set |
| Encoders (`media/codec/encoder`) | codec context, next pts, request for a key frame | CreateVideoEncoder, Initialize, Encode, Flush, ForceKeyFrame, Shutdown | a full codec (EAGAIN), refused frames, reopening | each packet once and in order; no request lost |
| Decoder (`media/codec/decoder`) | hardware context, codec context, frame pool | Initialize, Decode, Flush, FlushBuffers, Shutdown, get_format | EAGAIN, fall-back from hardware, references | each frame once and in order; references balanced |
| Screen capture (`media/capture`) | five COM pointers, three flags, config | Initialize, Start, Stop, CaptureFrame, ForceKeyFrame, ReleaseFrame, Shutdown | failed steps, lost duplications, removed GPU, frames that are acquired and dropped | nothing leaks, no dangling pointer is used, every change is reported |
| Renderers (`media/renderer`) | D3D11: shared or own device, render target, video texture; SDL: window, texture | CreateVideoRenderer, Initialize, Render, Clear, OnResize, Shutdown | device shared with a decoder that is reopened, failed resize, changes of size and format | the frame shown is on the device; references and windows balanced |
| TURN, packet formats, logging, errors, ThreadSafeQueue, main | little or none | | | not modelled (section 7) |

How they interact: a session calls its PeerConnection on the caller's thread; the
connection calls back on its receive thread (which never starts, finding 2); the
delayed save of the configuration runs on Loki's IO thread; its watchers run on the
thread that calls Set, inside that call; a Timer's callback runs
on the Timer's thread; RTP, pacer and jitter buffer pass values through the code that
calls them; the two hosts exchange UDP datagrams.

## 2. Modules

| Module | Models | Composition |
|---|---|---|
| `InputDelivery` | abstract specification: what the input channel promises | instantiated by `ReliableInput` |
| `ReliableInput` | sender, receiver and network | implements `InputDelivery` |
| `Handshake` | both roles and the network | |
| `BoundedQueue` | abstract specification: what a blocking queue promises | instantiated by `BlockingQueue` |
| `BlockingQueue` | queue, wait sets, wake-ups | implements `BoundedQueue` |
| `Timer` | callers, object, timer threads | |
| `Pacer`, `RtpStream`, `JitterBuffer` | the three classes, as actions without a Next | composed by `MediaPath` |
| `MediaPath` | a paced stream from pacer to decoder, beside packets of other payload types | |
| `PeerConnection` | effects of the calls on a PeerConnection and on the machine's sockets | extended by `Session` |
| `Session` | sessions, and applications that drive a PeerConnection | |
| `ConfigManager` | callers, IO thread, file, exit, crash | |
| `ConfigWatchers` | the tree of settings, callers, callbacks under the lock | |
| `AvCodec` | what libavcodec answers to send and receive; a codec context and the account of what went through it | extended by encoder and decoder |
| `VideoEncoder`, `ScreenCapturer` | encoders with their factory; the DXGI capturer | composed by `HostVideo` |
| `D3DDevices` | reference counts of devices | extended by decoder and renderer |
| `VideoDecoder`, `D3D11Renderer` | the two users of one device | composed by `ViewerVideo` |
| `SDLRenderer` | the renderer without a shared device | composed by `ViewerVideo` |
| `MC...` | instances for TLC | extend the module |
| `Protocol_proofs` | theorems about `ReliableInput` and `Handshake` | extends both |
| `Video_proofs` | theorems about `HostVideo` and `ViewerVideo` | extends both |
| other `..._proofs` | theorems about the module of that name | extend the module |

**ReliableInput.** Event *i* is the *i*-th call of SendInputEvent that reaches the
connection; only `SeqOf(i)` travels in an ACK. The queue is a function on the queued
events, because a retry keeps an event's place and the queue is in order of number.
`OnAckMessage` takes from the front what is numbered below the ACK, then the matching
event. `ProcessRetries` is one pass, with any subset of resends refused; only those
that were sent count as retried. Time is an
age per event that stops at the timeout. Datagrams are kept for ever and may arrive
any number of times, in any order, or never.

**Handshake.** One manager is one attempt. Every answer ever sent may be read by any
controller. A failed send, a timeout or an unexpected packet fails a controller; the
host stays idle and may be called again. `SendHandshakeResponse` is public and looks at no state
(`network/protocol/handshake.h:29`): it is an action of its own, taken in any state with the ids of
any request that was sent, beside the call that `WaitForHandshakeRequest` makes of it. The history
`directly` keeps the requests that were answered by it. A manager takes one role, on one thread.

**BlockingQueue.** A step is a critical section. `waiting` and `woken` keep apart
threads that still need a notification and threads that have one but not the mutex;
`WakeUp` is a timeout or spurious wake-up. `notify_one` picks any waiter. `Stop`
releases the mutex before its two `notify_all`s, so they are two steps. Mapping the
number of items and `stopped_` to `BoundedQueue`, every critical section is one abstract
step or none.

**Timer.** A step is what happens between two accesses to `running_`, `should_stop_`
or `timer_thread_` that another thread can tell apart. Assigning to a joinable
`std::thread`, or destroying it, is `std::terminate`. `SetInterval` calls the
destructor of its lock by hand, so the lock is released again at the end of the
scope; the model lets this undefined unlock do nothing or take the mutex from its
holder. Left out: the move operations, SetCallback and the counters.

**MediaPath.** Ticks age the pacer's interval and the frames. `Fresh` bounds how far
the network may delay: no packet stays under way while a full cycle of sequence
numbers goes by. `SendAside` and `ReceiveAside` are packets of the other payload types, which
have numbers of their own but meet one expected number in the receiver; `mixed` says whether
that has happened to the stream. Packets are numbered as they enter the jitter buffer, and
`sentWithin[a]` is what was sent in the window that began `a` ticks ago: both are histories.

**Session and PeerConnection.** Connections are numbered as they are opened; a pointer
is such a number. `UdpSocket::Open` may fail in WSAStartup, socket() or bind, and
bind fails on a used port. The calls on one PeerConnection come from one thread, as
nothing in the class is locked. Connect on an initialized PeerConnection always reports
an error (finding 2), so the code behind its success is unreachable and has no action.

**ConfigManager.** The settings are the number of the Set that made them. A write of
the file is two steps, because opening empties it; `text` is what the open writer will
put there. The reader-writer lock is `Exclusive`: changes wait for writers, writers do
not wait for each other; they write the same settings, so their bytes are not told apart.
`save_pending_` is not protected: a Trigger and the Arm that follows, and `SetAutoSavePolicy` and the
`CancelDebouncedSave` that follows, are two steps each. The models follow the build
the sources get: `CMakeLists.txt` defines `ZENREMOTE_CONFIG_USE_...`, the sources
look at `ZENPLAY_CONFIG_USE_...`, so calls run on the caller's thread under the lock, which
`config/global_config.h:14` defines when nothing else does.

**ConfigWatchers.** The settings are one tree with the paths "group" and "group.item", which is
what it takes for one path to lie above another. Set is the only call that is more than one
step: it holds the exclusive lock while it calls the watchers of its path one by one, and any
thread may ask for the lock in between. A callback returns (or throws a `std::exception`, which
is swallowed), throws something else, which leaves Set, or calls the configuration again: taking
a `std::shared_mutex` that the own thread has is undefined, so that callback never returns or
the lock throws a `std::system_error`, which is swallowed. `owed` and `told` are what a watcher
should have been given and was given. Ids grow and the vector of watchers is only appended to
and thinned out, so its order is the order of the ids and the model keeps a function of them.

**HostVideo** is the loop that `media/capture/screen_capturer.h:108` prescribes: capture, encode,
release. `SoftwareEncoder` and `HardwareEncoder` have the same Encode and Flush, so they are
one set of actions; a frame is the number Encode writes into its pts, and the codec holds such
numbers (`AvCodec`). The capturer's raw COM pointers are null, set or never written, and
`refs` says how many references exist: a pointer that is set without a reference
dangles. `LoseAccess`, `RemoveGpu` and `Draw` are the desktop. What the rectangles of a frame
report is counted by regions: `changes` is what the duplication has noted of a region since
the last acquired frame, `unseen` are regions whose change no frame has reported,
`excused` those among them that were lost with a frame that was acquired and dropped, to a switch of
the config, or to moves that could not be read.

**ViewerVideo** pairs a decoder with the renderer that gets its `hw_context`
(`media/renderer/video_renderer.h:45`). `mem` counts the references to a device and to
FFmpeg's context around it; who holds one is in the members. A hardware decoder of type D3D11VA has
a device of `D3D11Devices`, one of another type (DXVA2, CUDA, QSV, ...) another of `Devices`, and
`GetD3D11Device` gives the renderer nothing then. `drawn` says what a Render that
answered Ok has put on the screen: the video, nothing (a null view), a texture of another
device, a hardware surface taken for pixels, a frame of another size than the texture it was copied
into, or the brightness of a software frame that is not NV12. `seen_sizes` are the sizes since
Initialize, its own and those of the frames, a history. `epoch` numbers the openings of the decoder. The viewer
has either this renderer or the SDL one, as `CreateVideoRenderer` was asked; the latter takes no
notice of the context, so frames of a hardware decoder reach it as they are.

## 3. Runs

| Run | Instance | Shows |
|---|---|---|
| `reliable_input` | 3 events, 2 retries, timeout of 2 ticks | `ImplementsDelivery` (what the sender concludes is true, and stays), `StatsAccount`, `SendsBounded` (sends and `events_retried`), `QueueDrains`; 64,243 states |
| `reliable_input_lost` | 2 events | finding 1 |
| `handshake` | 3 attempts, 2 host managers, 3 session ids, symmetric | `Agreement`, `HostKnowsPeer`; 51,297 states |
| `blocking_queue` | 4 threads, no limit (2 items at most) and sizes 1, 2 | `ImplementsQueue` (capacity, nothing pushed after Stop), `NoLostWakeup`, `StopReleases`; 43,776 states |
| `timer` | 2 callers, 2 thread identities, one-shot and repeating | `NoOrphanThread`, `TerminatesOnlyAs`, `IsRunningTruthful`, `StopSilences`, `StopReturns`; 92,358 states |
| `media_path` | 5 packets of the stream, 1 aside, 3 arrivals, numbers modulo 4, gaps counted up to 1, 2 packets a frame, 2 frames | `WindowBounded`, `AllAccounted`, `OrderedUnlessLate`, `LossReported`; 3,694,732 states |
| `session` | a controller, a host, an application; 1 track, 1 channel, 1 port, 4 connections, 1 failing socket() | `SocketsOwned`, `SessionsAttached`, `StartupsBalanced`, `UsedOnlyWhenReopened`; 250,816 states |
| `session_open` | a controller | finding 2 |
| `config` | 2 callers, 3 changes | `LostOnlyAs`, `FileWhole`, `SavedMeansSame`, `EventuallySaved`; 114,591 states |
| `config_watchers` | 2 threads, 2 values, 2 watchers, 4 calls | `ToldEverySet`, `KnowsUnlessSilent`, `NoneAfterUnwatch`, `CallsReturn`; 141,011 states |
| `host_video` | 3 Encode calls between two openings, one object of each kind per Initialize, 1 region | `PacketsAccounted`, `KeyRequestLostOnlyAs`, `RefsNamed`, `FaultOnlyAfterFailure`, `ChangesReported`; 3,536,192 states |
| `viewer_video` | either renderer; 2 D3D11 devices (symmetric) and 1 of another kind, 3 packets between two openings, 2 openings, 1 detached reference, 2 frame sizes, 2 software formats | `DeviceRefsAccounted`, `WrongDeviceOnlyWhenReopened`, `DarkOnlyAs`, `FramesAccounted`, `SDLWindowOwned`; 1,834,152 states |

Why the bounds are enough. Three events give a matched one with one popped before it
and one left behind it. Three attempts give an old answer, a current one and a
competitor; two hosts let a request be answered by either, by both, and again by a direct call. Four threads let two producers race for a place while a consumer and a
stopping thread act. Two callers are what an overlap needs, and two thread identities
show a second thread beside a first; a third would need a `std::terminate` before it.
Five packets modulo 4 wrap the sequence number once and
leave a gap that is cut short. Four connections allow a session and an application to
reopen with the port taken. Three changes let one be written, one race with the clearing
of the flag, and one come after it. Three frames let a full codec give up one while one
stays inside and one is refused; two openings and two devices show a renderer that holds
the device of the first opening while the decoder has another, the device of another kind is a decoder
without a D3D11 device, and one detached reference is a leak. Two sizes are that of the texture and another. One packet aside is one jump of the expected number and one back.
One region is enough because no step relates two of them; a software format with an SDL format
and one without meet both of its branches. Two watchers and
two threads let an Unwatch or a second Set wait while the first watcher is told and the second
is not; four calls are a Watch twice, and two calls that meet. The types are part of the inductive
invariants of section 5, whose theorems do not depend on the bounds.

Deadlock is checked in `blocking_queue`, where a state without a step would be a queue
that nobody can use. The other systems really stop: their bounds are reached, every attempt
is over, a callback waits for its own lock, the process has terminated, or a pointer to nothing was
used.

## 4. Fairness

Fairness is used by the five liveness properties and by no safety property.

- `QueueDrains`: time passes (`Tick`) and the controller's loop keeps calling
  `ProcessRetries`, which the class asks of its owner. Nothing is assumed of the network.
- `StopReleases`: a thread that was woken gets the mutex, and Stop ends. No thread has
  to begin a call and no wake-up comes by itself.
- `StopReturns`: the timer thread runs, the callback returns, `join` returns. Callers
  are not fair: they need not call anything. The property excepts overlapping Start and Stop,
  which really can wait for ever (`Start` clears `should_stop_` after Stop has set it).
- `CallsReturn`: a thread inside a call of the configuration goes on when it can; none has to
  begin one. The lock itself is not assumed to be fair: the number of calls is bounded, so
  nobody is passed for ever. It excepts a callback that calls the configuration calling it.
- `EventuallySaved`: calls that have begun end, and the IO thread runs what was posted to
  it. It excepts the three ways in which `LostOnlyAs` says a save gets lost.

## 5. Theorems

All are proved for every value of the constants, under the named ASSUMEs of the modules.

**ReliableInput** (`Protocol_proofs`). `TypeCorrect`, then `IInvCorrect`: what is queued
is exactly what has outcome "pending", numbers below `next` only; what was applied was
sent; every ACK echoes an applied event; `events_retried` is the number of pairs of an event
and a send after its first. From this `RetriesBounded`, `SettledForGood` and
`StatsAccounted`, whatever the number of events. `AckedImpliesApplied`,
`SkippedImpliesLaterApplied` and `Refinement` (every step is a step of
`InputDelivery` or a stutter) need `NoWrap == MaxEvents <= SeqMod` as
well: with more events than numbers an ACK may name two of them, and the properties
then fail. 2^16 events between two ACKs is the limit of the code itself.

**Handshake** (`Protocol_proofs`). The inductive invariant says that every request
carries the session of its controller, with session ids used once, and every answer was made for such a
request, by the host manager it names: the one request that manager has waited for, or one in
`directly`. A host that nobody called directly is idle, failed, or completed with the request it
answered. `HandshakeAgreement`, `HostPeerKnown` and
`HostsServeOne` follow; the first and the last hold of a host until `SendHandshakeResponse` is
called on it directly (for another request, in the first), and say so. Random ids are assumed not to collide (`Unused`).

**BlockingQueue** (`BlockingQueue_proofs`). `NoLostWakeup` and `WithinCapacity` together
with the types are inductive; the proof counts the threads of `woken` against the places that are
free. `CapacityRespected`, `WakeupsNotLost`, and `QueueImplements`: every step is one of
`BoundedQueue` or a stutter.

**Timer** (`Timer_proofs`). `TypeCorrect`; `NeverOrphaned` and `StopIsFinal` from the
types; `TerminatesRarely` needs an invariant about callers that do not overlap: one
caller at most is inside, and where it is says whether `timer_thread_` is joinable.
`RunningIsTrue` adds to it what a thread that ended by itself leaves standing (`Truthful`): whoever
stops the thread has first taken `running_` away, and whoever spawns one has first taken the
stop request back.

**MediaPath** (`MediaPath_proofs`). Four invariants. `CapacityKept` and `FramesInOrder`: the
frames are a finite set of naturals, whose minimum is `Oldest`; the packets of other payload
types do not disturb it. `PacketsAccountedFor` (`Places`): a frame that leaves takes its own
packets with it and no others, and a packet's number was never used before. `PacedWindows`
(`Paced`): what was sent in a window of one interval is at most the batch in progress and the one
before it, and only the former when the window begins after the batch. `LossesReported`
(`Counted`): until packets of another type come in, the receiver expects the number behind the
last packet, whatever the wrap; the proof is arithmetic on remainders, with `Fresh` as the limit of
delay.

**Session** (`Session_proofs`). `IInvCorrect`: the sockets are those of the
PeerConnections, each pointer of a peer that was not reopened is null or its connection, WSAStartup
references are counted. From it `NoSocketLeaks`, `SessionsStayAttached`,
`StartupsBalance`, `UsedRarely`.

**ConfigManager** (`ConfigManager_proofs`). The invariant has parts for the types, the
tasks owed, the file (who has it open writes what is in memory, and finds the file empty or
already so) and what is scheduled. `TypeCorrect` (with no more delayed tasks than calls of Set: one
is posted for each at most, and none is taken back), `FileStaysWhole`, `SavedIsSame`, `LostRarely`.

**ConfigWatchers** (`ConfigWatchers_proofs`). The invariant (`IInvCorrect`): one thread holds the
lock; ids are used once and there are enough of them; while the lock is free a watcher was told
exactly what it is owed, and while a Set tells the watchers those whose turn is to come lack
exactly its change (`Books`, void once an exception has escaped); the last change a watcher is
owed is the setting, unless that went in silence (`Knows`). From it `EverybodyTold`,
`UnwatchIsFinal` (an action property) and `WatchersKnow`. It assumes finitely many threads.

**HostVideo** (`Video_proofs`, first half). The inductive invariant (`InvariantHolds`) has the types of
the capturer's part, the references each pointer stands for, for the encoder that an
unanswered key request is still set or was given to a frame that the codec refused, and the
account of its codec. Because the two components share
no variable, each step of one leaves the other's part alone. `NothingLeaks`, `DanglesOnlyAfterFailure`, `ReportsChanges`,
`KeepsKeyRequest`, `PacketsReachTheCaller`, for any set of regions and any number of Encode calls.
The account (`Ledger`) is shared with the decoder: what came out and what is inside, one behind
the other, are numbers that only grow, and what is in neither is no more than `lost`. One lemma for each thing a codec context
does (take, refuse, give, fail, drain, begin afresh) keeps it; a call is a sequence of them.

**ViewerVideo** (`Video_proofs`, second half). `ViewerInvariantHolds`: the account of the decoder's
codec; `Balanced`, an equation for each device between its two reference counts and the members
that hold it, with one lemma for each reference taken or let go; and what the renderers hold. An
initialized D3D11 renderer has the device of every frame of the opening it was paired with, now
and in the future, if that device is a D3D11 one, which is why `WrongDeviceOnlyWhenReopened` holds; the
size of its texture is in `seen_sizes`; an SDL texture is the one
of Initialize or of a format that was decoded in software. `DevicesBalance`, `WrongDeviceNeedsReopening`,
`FramesReachTheCaller`, `DarkForAReason`, `WindowsOwned`, for any number of devices and openings.

Every safety property that a passing run checks, invariant or action property, and both
refinements, are stated by a theorem. Model-checked only: the five liveness properties, whose
fairness is out of the prover's reach. Induction over data is as well, so no model that is proved about
computes by recursion: the watchers, for one, are a function of their ids and not a
sequence that is filtered.

## 6. Findings

1. `network/protocol/reliable_input.cpp:50`: an ACK removes all older pending events,
   so a lost event is no longer retried once a later one is acknowledged, although the
   documents promise its delivery (`reliable_input_lost`).
2. `network/connection/direct_connection.cpp:14`: `Open` is `Initialize` again, which
   refuses an open socket; Connect and both sessions' Initialize always report an error
   while the socket is open, and the receive thread never starts (`session_open`).

What the code does wrong in known ways, each shown by the property that admits these ways and no
other:

- `TerminatesOnlyAs`: a one-shot timer that has fired clears `running_` itself; Stop and the
  destructor then skip the join (`common/timer.cpp:178`), and destroying the joinable thread
  terminates the process.
- `LostOnlyAs`: a debounced save clears the flag after its write, also when a newer change has just
  set it; that change is never saved (`config/config_manager.cpp:56`). A save that fails is
  not tried again. A switch away from debounced saves cancels a step after it has changed the
  policy, also what another caller has armed in between after a switch back (`config_manager.cpp:32`).
- `Agreement`: `SendHandshakeResponse` has no guard: called on a completed host it changes the peer
  under the controller that completed with it, and when the send of a repeated answer fails the host
  is kFailed although its controller has completed (`network/protocol/handshake.cpp:82`).
- `KeyRequestLostOnlyAs`: a frame that the codec refuses takes the request for a key frame with it.
- `PacketsAccounted`, `FramesAccounted`: what is received to make room in a full codec is dropped.
- `FaultOnlyAfterFailure`: a failed Initialize of the capturer leaves dangling pointers for its
  destructor; a failed recreation leaves a null duplication for the next CaptureFrame.
- `ChangesReported`: a change is missing from the rectangles of all frames only when the frame that
  had it was acquired and then dropped (`media/capture/screen_capturer_win.cpp:212`), the config does
  not ask for its kind or the move rects could not be read, although
  `media/capture/screen_capturer.h:101` says that without move rects all changes count as dirty.
- `LossReported`: packets of two payload types interleaved in one receiver move its one expected
  number back and forth; the losses it reports then say nothing.
- `KnowsUnlessSilent`: ResetToDefaults, Load, and a Set of a path above or below a watcher's
  own change its setting without a call.
- `CallsReturn`: a watcher that reads or writes a setting, or removes itself, deadlocks.
- `DeviceRefsAccounted`: each Shutdown of a renderer that shares a device leaks a reference, and
  zero copy stays on, so a renderer used again leaks its own device as well.
- `WrongDeviceOnlyWhenReopened`, `DarkOnlyAs`: a renderer is not told that its decoder has
  been opened again; after a failed OnResize it draws nothing and answers Ok. A hardware frame of
  another size is copied into the texture of the configured size without the check that software frames get
  (`media/renderer/d3d11_renderer.cpp:521`, `532`). Frames of a DXVA2, CUDA or QSV decoder are uploaded as if they
  were pixels (`d3d11_renderer.cpp:110`, `479`). Software frames are uploaded as NV12 from
  their first plane, whatever their format, so yuv420p, what software decoders give, shows its
  brightness only (`d3d11_renderer.cpp:541`). The SDL renderer
  gets hardware frames it cannot show; keeps a texture of the format it was configured with
  until the size changes; and has no texture at all once a new one could not be made.

Seen while reading, without a run:

- `network/protocol/rtp_sender.h` and `network/rtp/rtp_sender.h` both define
  `zenremote::RTPSender`, with different layouts, in one program.
- `GlobalConfig`'s static is constructed after `ConfigManager`'s and so destroyed before it;
  the destructor of ConfigManager then saves from a destroyed object (`Exit` in `ConfigManager`
  lets that write all, part or nothing).
- Timer's move assignment calls Start, which locks `config_mutex_`, while it holds it (`timer.cpp:75`, `99`).
- `ControlledSession::input_channel_` is never set, so its input methods always fail.
- The handshake has two messages where the design document calls it a 3-way handshake:
  a host whose answer is lost stays completed.
- `max_packets` of the jitter buffer counts frames; the packets of one frame are joined in the order
  of their arrival (`network/protocol/jitter_buffer.cpp:24`), where `docs/udp_transport_design.md:654`
  says that the buffer reorders.
- A capturer whose GPU was removed is never initialized again, although a comment
  (`media/capture/screen_capturer_win.cpp:177`) and `docs/00_START_HERE.md:82` say so; after
  a recreated duplication the next frame is not marked as a key frame.
- get_format answers AV_PIX_FMT_NONE "to fall back to software", but the decoder stays a
  hardware decoder and every packet fails (`media/codec/decoder/hw_decoder_context.cpp:230`).
- A decoder whose Initialize failed altogether keeps `hw_init_attempted_`: it never tries
  hardware again. Encode after Flush answers Ok(false) for ever.
- Stop of a standard timer waits out the interval: the condition variable of `StandardSleep` is local, and
  nobody notifies it (`common/timer.cpp:360`).
- A retried input event that had arrived is applied again (`last_acked_sequence_` is unused);
  `max_packets = 0` erases from an empty map; the tracks' media threads would race with Shutdown.

## 7. Not modelled, and why

- Packet formats: pure serialization; messages are records of what the receivers use.
- TURN: a stub, refused by PeerConnection.
- The receive loop of DirectConnection: unreachable (finding 2).
- Logging, errors, main: calls of libraries, value types, wiring.
- The color converter: nothing calls it. Statistics and codec parameters; UpdateBitrate.
- Of the capturer, sizes after a change of the display mode, the frame rate and the choice of the adapter.
- ThreadSafeQueue: one mutex and one condition variable, used by its test only.
- Of the hardware decoder types, which one is detected: the models have D3D11 and any other. One HandshakeManager in
  both roles, or on two threads.
- The hardware detection tool, an example. Timer's move operations, SetCallback and counters.
- Validate beyond its lookup: the validator runs on a copy, after the lock was released.
- Two threads on one PeerConnection or track: no code starts them yet.
- Wrap of the 16-bit numbers with events pending (a hazard in `PROJECT.json`), and of the 32-bit timestamps.

## 8. Plan

The order was: the input protocol and its abstract specification, handshake, queue and timer,
media path, sessions, configuration; each with runs, then proofs; then the video of both
sides, the other payload types, the watchers, the SDL renderer, what a captured frame reports, the
abstract queue, and the proofs of all safety properties. That is done. Next, in this order:

1. An abstract session for `Session`, as a refinement that is checked and proved.
2. `MediaPath` with wrapping timestamps; `Timer` with its move operations.
3. `VideoEncoder` with UpdateBitrate, `ScreenCapturer` with the size of the
   staging texture after a change of the mode.
4. `Handshake` with one manager in both roles.
