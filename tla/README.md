# Augmented Normalcy: a TLA+ model of the streaming system

Cameras stream JPEG frames to a server, which forwards each camera's frames to
the headsets and displays that watch it; a headset has a button with which its
wearer starts, stops and switches cameras. This directory holds TLA+ modules for
the parts of the program where several threads meet, TLC configurations that
check them on small instances, and TLAPS proofs of the properties that matter
most.

    tlc -config Registry.cfg MCConnectionManager      # one run
    tlapm ConnectionManagerProofs.tla                 # one module of proofs

## 1. Inventory

All paths are under `src/internal/`. The rest of the repository (`prototype/`,
`scratch/`, `third_party/`, `management/`, `packer/`, `scripts/`, `test/`) is
experiments, libraries, deployment and hand-run tests. Most of its lines are
vendored headers and generated OpenGL loaders under `prototype/scratch/`; none of it
is part of the program that is installed.

### Server

| Part | State | Operations | Correct when |
|---|---|---|---|
| `service/server/connection_manager` | four maps under three mutexes: sessions by address, and who is fed by whom, both ways; session numbers | add and remove cameras and headsets, post a frame, rotate, reset, point, clear | the maps agree; a headset is fed at most once, by its current session; a late removal does not hit a successor |
| `service/server/server_streamer` | strategies, a switching thread | start, stop, assign a connection's kind, handle websocket requests | stop returns; requests reach the registry |
| `infrastructure/tcp/tcp_server` | acceptor; per session: socket, timer, liveness, queue, pool | accept, read frames (camera), write frames (headset), time out, close | frames whole and in order; one send at a time; closed once; buffers come back |
| `infrastructure/websocket/websocket_server` | sessions by address, numbered | accept, read, close, replace, stop | a live session is in its map or about to be closed; stop closes all |
| `utils/asio_context` | `io_context`, thread pool | start, stop | every handler has returned when stop does |

The acceptor and every session have a strand. The registry is called from all of
them, from the switching thread and from the main thread, and calls back into
sessions (`Write`, `TryClose`).

### Headset, display and camera

| Part | State | Operations | Correct when |
|---|---|---|---|
| `service/headset/headset_streamer`, `domain/headset_domain` | the headset's state and two connection flags | reports from both clients, button, stop | state and flags agree; nothing stays waiting; stop returns |
| `domain/button`, `infrastructure/gpio/pigpio_gpio` | debounce automaton | poll | one push per press, holds when held |
| `infrastructure/tcp/tcp_client` | socket, timer, send queue | connect, read, write, reconnect, stop | one connection chain; frames whole |
| `infrastructure/websocket/websocket_client` | session number, send queue | connect, read, write, reconnect, stop | one chain of attempts; each message written once, in order |
| `infrastructure/encoder`, `decoder` | work queue, downstream buffers, thread | post, run, stop | no buffer lost, stop returns |
| `infrastructure/camera` | requests, buffers in use | start, complete, requeue, stop | every buffer returns once |
| `infrastructure/graphics` | image queue, state to draw, the picture shown | post, run, close and remake the window, stop | buffers come back; a picture shown is whole |
| `infrastructure/bms` | read buffer, thread | run, stop | recovers from a bad response |
| `service/camera_streamer`, `display_streamer` | started flag | start, stop | parts stopped in an order that lets each stop |

### What is hard

* A call that takes a lock twice, and what another thread does in between:
  `AddReaderSession`, `AddWriterSession`, the button's read-then-post.
* Something found under a lock and used after it: a pointer into a map, a state,
  a session id.
* Reconnections: an old session's end arrives after the new one began.
* Handlers already posted when a session is closed, and timers that fire with the
  event that would cancel them.
* Shutdown while all of this goes on.

* Buffers that are lent to another thread and come back when the last reference
  goes, on whichever thread that is, under that thread's locks.
* Handlers that are left by an exception: the thread pool goes on, what the handler
  was to do is not done.

`PROJECT.json` lists each of these at its line, with the properties that cover it
or the reason why none does.

## 2. Plan

| Order | Module | Models | Status |
|---|---|---|---|
| 1 | `ConnectionManager` | registry, its callers, server shutdown | checked, proved |
| 2 | `HeadsetStreamer` | headset state, button callback, stop | checked, proved |
| 3 | `Button` | debounce automaton and its polling | checked, proved |
| 4 | `TcpHeadsetSession` | write path, pool, closing | checked, proved |
| 5 | `PacketStream` | `PacketHeader` with a writer and a reader over one byte stream; implements `FrameChannel`, an abstract channel of frames | checked, proved |
| 6 | `TcpClient` | connection chains, read timer, write path against `disconnect`, start and stop | checked, proved |
| 7 | `WebsocketClient` | session numbers, handshake, send queue, start and stop | checked, proved |
| 8 | `WebsocketServer` | sessions replaced, removed, closed and stopped | checked, proved |
| 9 | `CameraPipeline` | camera, encoder and camera streamer: request cycle, downstream buffers, stop and start | checked, proved |
| 10 | `PicturePipeline` | decoder and graphics of headset and display: buffers, windows, states, stop | checked, proved |
| 11 | `FrameRouter` | what the registry promises; `ConnectionManager` is shown to implement it | checked, proved |

Composition: `ConnectionManager` contains the part of the sessions that calls it,
`HeadsetStreamer` the part of both clients that it sees, `CameraPipeline` and
`PicturePipeline` a whole camera and a whole headset or display but for their
clients. All safety and action properties that the runs check are also proved;
section 5 says what is not.

## 3. The modules

### ConnectionManager and FrameRouter

Variables carry the names of the four maps. A session is named by the order in
which it was accepted. An action is one critical section: `RegisterReader` and
`AttachReader` are the two of `AddReaderSession`; `RegisterWriter` and then
`AttachWriter` or `SwapWriter` those of `AddWriterSession`; `CloseReplaced` and
`AssignSessionId` what follows them. The record `acceptor` holds the locals of the
call under way; there is one, since accepting is sequential. `SwapWriter` reads
through the pointer kept from the first section: if the map node it points to is
gone, any address may be read. `CloseSession` and `RemoveReaderSession` or
`RemoveWriterSession` are `TryClose(true)` before and after it enters the
registry. `RemoveWriterDuringAssign` is the data race on `_session_id`.
`RotateWriterConnection`, `ResetWriterConnection`, `RotateAllConnections` and
`PointReaderAtWriters` are the calls that move headsets; each return without
effect is a stutter. `Clear`, `CloseRemoved` and `StopWorkThread` to `JoinPool` are
`ServerStreamer::Stop`.

Vectors are sets. Their order decides only in which order headsets are written
to; that nothing is in a vector twice is part of `OneFeedPerHeadset`.

Whether a connection is a camera's or a headset's is a function of its address,
as under the `ip_bounds` strategy. `switcher` is the switching thread and where it is:
there is none, or it sleeps between rotations, or it selects on its input or reads from
it. `Selected` is a `select` that found something to read, or failed; after it the thread
waits in `std::cin`, for as long as nobody types on, and does not test `_work_stop`. A turn
of its loop ends with `LoopAgain`. `StopWorkThread` sets `_work_stop`, and
`JoinWorkThread` is possible only once the thread has ended.

`FrameRouter` is the registry as its users see it, without locks, maps or locals: the
cameras that are connected, the connection that counts for each headset, each
camera's audience, and the camera that is about to get its first one. It has an action
for everything that may happen to an audience, and says by its guards what may not: nobody loses its frames because somebody else
leaves, frames come only from a camera that is there, a camera that came when there was
none must be given all headsets (`FirstCameraStarts`) and any other must be given nobody
(`NextCameraStarts`). That a camera which connects anew loses its audience is what the code does
(`connection_manager.cpp:38`), and so it is there too. `RoutesFrames` is that
`ConnectionManager` implements it, under the mapping given with `Router`: the audience
of a camera is its vector, or nobody when it has none.

### HeadsetStreamer

`state` and `connected` are `HeadsetState`. Each client reports on its strand:
`Connect`, `Disconnect`, `ReadTimeout` and `StopHandler` make the locked update
(`PostConnection`), and if the state changed, `HandleStateChange` and
`HandleStateChangeConnecting` do the rest after the unlock. The button callback is
`Poll`, `ReadState`, then `PostState` and `ShowState`, or `RotateCamera`. The main
thread's `Stop` is `BeginStop` to `JoinPool`; a client's `Stop` sets its flag and
waits for a handler on the client's strand. A client's sockets are abstracted to
`up`, except for the tcp client's read timer, which reports a loss even when
there is no connection or the client is stopped. `StopHandlerThrows` is the
websocket client's handler when the socket's `shutdown` throws: the flag is not
reported down, and `Stop` returns all the same, as the promise is broken.

### Button

`NextButtonState` is the switch of `UpdateButtonState`, `ReturnedAction` what it returns.
Samples are arbitrary and polls are between `MinStep` and `MaxStep` apart. The
other variables are history that the properties are stated with. Time is taken to
run forward, though `high_resolution_clock` may be the system clock, which can be set.

### TcpHeadsetSession

`strand` is the sequence of handlers posted and not yet run. `RunWrite`,
`RunHeaderSent`, `RunBodySent`, `RunError`, `RunTimer` and `RunClose` run its head;
`Write`, `SocketDone`, `TimerFires` and `ClosePosted` post. How many bytes a send
took is abstracted to the cases the code tells apart: an error, part of what it
was given, all of a header or body, all of a frame. `shutdown` does not cancel a
send: it fails, or it had succeeded already and its handler is waiting. Calling
`front` or `pop` on an empty queue is undefined; the model sets `fault` and stops
there. The test and the assignment of `_is_live` by another thread are two steps;
on the strand one suffices, as nothing the strand does lies between them.

### TcpClient

`strand` again holds the handlers posted and not yet run, by name: how an attempt,
a read or a send ended, the timer's, and the one `Stop` waits for. `Start` and
`Stop` are two steps each, since the flag is set before the rest; `Post` is four
steps of the encoder's thread, since it tests, pushes, sets up the header and
sends without a lock. `Wake` is the part of `startConnection` after its sleep,
which blocks the strand. `late`, `overlapped` and `raced` record that one of three
things has happened which the code does not exclude: the timer's handler ran
without a connection, `Start` came before the handlers of a `Stop` had all run, a
`Post` was under way during the last disconnect. A call on a null socket or on an
empty queue sets `fault`, and the model stops there.

Of the socket it is assumed that connecting one that is connecting or connected
fails at once, and that what is in progress on a socket that is replaced ends with
`operation_aborted`; for a read that has no effect and is left out. When there is no
socket, the one `startConnection` makes may throw, as its fixed port is still held
(`tcp_client.cpp:86`): the handler ends there, `_socket` stays null, and `threw` says that
this is how the last attempt ended.

### PacketStream and FrameChannel

A writer and a reader at the two ends of `pipe`, a sequence of bytes. `w` and `r` are
their `PacketHeader`s, and `Counted`, `IsFinished`, `OffsetPacket`, `SetupHeader`,
`SetupNextHeader` and `ResetHeader` its methods; `Counted` is there because
`IsFinished` changes what it tests. `WriteHeader`, `WriteBody`, `ReadHeader` and
`ReadBody` are one completed send or receive each, of any part of what was asked
for. A byte carries what it is (which header byte, or which byte of which frame),
so that a header read from the wrong place, or a frame put together wrongly, shows.
A connection is lost as `Reconnect` (the reader is a client, which resets its
header and keeps its pool) or as `NewSession` (the reader is a session of the
server, and another one takes over).

`FrameChannel` says what both ends rely on: frames arrive whole and in order, some
are dropped at the reader, and a lost connection loses those under way and no
others. `PacketStream` is shown to implement it (`Implements`), under the mapping of
the channel's variables to the two history variables of the stream.

### WebsocketClient

As in `TcpClient`, `strand` holds the handlers posted and not yet run, `ops` what is in
progress on the stream, each with the session number it was started for. `inside` is
a handler that has not returned: in the sleep of `startConnection`, or between the
test and the increment of `disconnect`, where `Stop` on another thread may increment
too. `Start` runs `startConnection` on its caller's thread, `Stop` is the flag, the
number and a handler it waits for. Messages are numbers; `wire` is what was written.
A write on a stream that is still connecting or shaking hands fails, or is the one
in progress when the handshake's handler starts another (`early`). Binding the fixed
port and shutting down a socket that is not connected may throw (`threw`).

### WebsocketServer

`registered` is the two maps in one, as an address belongs to one of them: the
session of each address. A session is named by its number. The acceptor's call of
`handleConnection` is `Register` to `ClearReplaced`, where closing the replaced session
is two steps, since `TryClose` tests `_is_live` and sets it in two and the session's own
`TryClose` (`Fail`, `ClearOwn`, `DestroySession`) and `Stop`'s (`CloseTaken`,
`ClearTaken`) may come between. `pending` is the session's next handler: to start, to accept the
handshake, to read. `closes` counts calls of `async_close`.

### CameraPipeline

A request is with libcamera (`camera`), given up by it (`cancelled`), or behind a buffer
that the callback, the work queue or the encoder's thread holds; buffers carry the
number of the `Start` they were made under, as `StopCamera` forgets those that are
still out. Whoever drops a buffer runs `QueueRequest`, the deleter, which needs
`_camera_stop_mutex`. `Stop` is `StopEncoder` to `CameraStopped`; libcamera's `stop` waits
for its thread to be idle. `StopEncoder` empties the queue
without the lock, and a `PushBuffer` may come meanwhile; the two touch different ends of the
queue, and each is taken to be atomic. The client's side is `sending`, a number of
buffers that come back when they like. JPEG coding is one step. Definitions that
`PicturePipeline` has too carry other names here, as the two are proved about in one
module; `Button` and `HeadsetStreamer` do the same.

### PicturePipeline

One module for both graphics, told apart by `kind`. A buffer of the decoder is in
`free`, with the decoder's thread, in `image_queue`, drawn (`render.data`) or lost;
`content` is the frame last written to it. `render.shown` is the buffer whose texture
is drawn, long after the buffer itself has gone back. `Window` stands for all that it
takes to make one, `WindowFails` for each `continue`; a window is closed by a key.
`TurnHeadset` is an iteration of the headset's loop up to the switch; when it leaves
`RUNNING`, images are refused from there on and `Leave` drops those that wait, so a post
that has passed the test may come before, between or after. A window that is made again
starts with `CONNECTING` as its last state and leaves `_is_display` as it was.
`TurnDisplay` is the display's iteration, `Drain` and `Draw` are `handleRunningState`, or
the same lines of the display.
The state the headset posts is arbitrary here; `HeadsetStreamer` says which it is.

## 4. What the runs show

| Run | Instance | States | Result |
|---|---|---|---|
| `registry` | 2 camera and 2 headset addresses, 4 connections, switching by hand, no shutdown | 593,007 | passes |
| `shutdown` | the same addresses, 3 connections, each switching strategy, shutdown | 609,081 | passes |
| `headset` | complete | 43,586 | passes |
| `button` | debounce 2, hold 3, polls 1 or 2 ticks apart | 3,620 | passes |
| `headset_session` | 2 buffers, 4 frames | 41,261 | passes |
| `tcp_client` | a camera and a headset; queue of 2, 1 timeout, 3 starts | 157,945 | passes |
| `packet_stream` | headers and packets of 2 bytes, frames of 0, 1, 4 and 5, pipe of 3, 1 buffer, 3 frames, 1 break | 27,361 | passes |
| `websocket_client` | fixed port, 2 messages, 1 failure, 2 starts | 790,708 | passes |
| `websocket_server` | 2 addresses, 3 sessions | 101,008 | passes |
| `camera_pipeline` | 3 requests, 2 downstream buffers, 3 starts | 22,659 | passes |
| `picture_pipeline` | both kinds; 3 buffers, 4 frames, 3 decoding errors, 1 window closed | 788,646 | passes |
| `orphaned_headset` | as `registry` | | exhibits the comment's opposite |

Bounds. Two cameras are needed to move headsets, and two headsets to tell "the
last" from "one of"; a third address of either kind would only be one more of the
same in maps that are searched by key, first or next. Four connections allow each
address to be used, or one of each kind to reconnect. Three are enough for
shutdown, which treats all sessions alike. Times in `Button` stop counting at
`Horizon`, beyond everything they are compared with. Two buffers and four frames
find the pool empty and filled again. Switching by hand points every headset at any
camera, so it does whatever the timer's rotation does to the maps, and `registry` takes
that strategy alone; where the thread is matters to `shutdown`, which takes all three.
A second start is
what it takes for a client's old handlers to meet a new connection, and a third for
the handler of an attempt that `Start` made during `Stop` to do so; the queue needs
two buffers to tell the last one from the others. A single timeout of the read timer
can already come late. Frames of 0, 1, 4 and 5 bytes in
packets of 2 are: an empty one, one shorter than a packet, a whole number of
packets, and a rest. A pipe of 3 bytes holds neither a packet with its header nor
two headers, so that both are cut at every place. A client's one failure may be at any
operation, and a second start brings a second session; without a fixed port there is
only less that can happen. Three sessions on two addresses are a replacement beside
another session, or two replacements. A camera's third start shows that a buffer left
over from the first is gone. Three picture buffers are one shown, one waiting and one
being written; the fourth frame is the first that needs a buffer for the second time. Three
decoding errors can lose all three buffers.

`registry` checks the agreement of the maps, `shutdown` that `ServerStreamer::Stop`
returns from every state of the registry and of the sessions, unless the thread of manual
entry waits for input (`WaitsForInput`): after a bare Enter `std::cin >> value` goes on
waiting, and so does `Stop`. `tcp_client` says what
holds of every client, and which of the events above is to blame when more
is wrong. After a late timer there may be a second chain of attempts, which fails
against the connected socket again and again and each time resets the count of
bytes, within a frame too (`OneConnection` holds until then). After a `Post` that
straddled a disconnect, the queue may hold a buffer that nobody sends, and a camera
whose queue is not empty starts no send. A `Start` that does not wait for the handlers
of a `Stop` may meet the outcome of an older attempt, and start a second send.
`Sending` holds until either of these. An attempt whose fixed port is still held is left
by an exception: the client then neither tries again nor arms a timer, until the next
`Start`. `NeverAbandoned` names this as the only way in which a started client gives up,
and `FaultOnlyRaced` that after it, and a late timer that took the socket, a handler may
find no socket.

`websocket_client` shows what the session numbers achieve: but for two races between
`Start`, `Stop` and `disconnect` and for an exception thrown by the fixed port, there is
one chain of attempts, and each message is written once and in order, the pop by a
handler of an earlier session included. A message posted before the handshake's
handler has run can make two writes at once, or end the attempt.
`websocket_server` shows the maps exact although `_is_live` is tested and set in two
steps: two closes of a session may both go through, and the number keeps the second
from removing a successor. `camera_pipeline` shows one way in which `Stop` does not
return (`Deadlocked`): libcamera's thread releases a frame that the stopped encoder
refused while `StopCamera` holds the mutex that needs. `picture_pipeline` shows that a
picture on the screen is overwritten only when the pool is exhausted or images went
back undrawn, and that it is the order of the pool that sees to it. It shows also how the
decoder can be left without a buffer for good. One way is that decoding errors have lost
them all (`lost = Buffer`), or all but one that waits in the queue outside `RUNNING`. The
other is a window closed in `RUNNING` and made again after the state has changed:
`_is_display` is still set, since only an iteration whose last state was `RUNNING` clears it
(`headset_graphics.cpp:336`, `352`), and images are accepted until the pool is empty, with
nobody to draw them, until `RUNNING` comes back. `PoolRefills` names exactly these
(`Undrawn`) and says that in every other state a decoder without a buffer gets one;
without either alternative of `Undrawn` TLC finds it violated.

Some properties name an exception where the code is at fault: the loss to decoding errors
(`sw_decoder.cpp:189`) in `PoolRefills` and `Accounted`, the remade window there, the
deadlock of `camera_pipeline` in its `StopCompletes`, the wait for input in
`ShutdownCompletes`, the exceptions of the fixed port. They do not report these; they say
that nothing else goes wrong, and the hazards in `PROJECT.json` say which they are.

Where the code disagrees with what its comments say of it:

* `connection_manager.cpp:207`, "this should never get here", is reached: a
  reconnecting camera loses its headsets (line 38). Run `orphaned_headset`.
* `connection_manager.cpp:149`, "this is an existing connection": the pointer kept past
  the unlock may dangle. `SwapWriter` then reads any address, and the properties of
  `registry` hold all the same.
* `connection_manager.cpp:184`, "We've already been removed": the id is stored while it
  is compared; the closed session may stay (`RemoveWriterDuringAssign`).
* `headset_domain.hpp:46`, "we expected to be connected": the button overwrites a lost
  connection. `ReadyOnlyWhenConnected` names the stale read as the only way.
* `tcp_server.cpp:311`, "post to the executor for synchronization": a close empties the
  queue under a handler that is waiting. `FaultOnlyClosed` says that there is no other
  way.

`registry` also checks the refinement: between them the router's steps leave no room
for a vector cleared or moved too many, which none of the other properties would see.

Every property of a passing run has a variant of the code, in the module beside
the definition it changes (`Variant: ...`), that violates it.

Fairness. A function call under way on some thread goes on: the acceptor strand,
each session's handler, the main thread inside `Stop`, the button callback (weak
fairness of their steps). The switching thread's sleep and `select` time out
(`TimedOut`); nobody is assumed to type, so nothing is assumed of `Selected`,
`PointReaderAtWriters` and `InvalidInput`. In `ConnectionManager` mutexes are not modelled: a
critical section is one action, so waiting for a mutex never shows. That no two of its
critical sections wait on one another follows from the code, not from a run: those that need
several mutexes take them in one `std::lock`, which backs off, and the one that nests
(`connection_manager.cpp:118` and `123`) is the only one.

A strand serves its handlers in the order they were
posted; in `HeadsetStreamer`, which has no explicit queue, this is strong fairness
of the handler that `Stop` posted. An armed timer that is not cancelled fires.
In `TcpClient` the strand runs what is posted and `Stop` goes on to post its
handler; a camera's `Post` is not assumed to return. In `PacketStream` both ends go
on while they can. In `WebsocketClient` and `WebsocketServer` the strands and `Stop` go
on, and a server's session that began to close itself does. In the two pipelines each
thread runs, also the main thread of a camera once it is stopping; in `PicturePipeline`
a window that is tried again and again is made some time (strong fairness of `Window`).
Nothing is assumed of the network, of the socket, of the camera or of the wearer.
`CHECK_DEADLOCK FALSE` is used for the headset session, both clients, the websocket
server, the camera pipeline and the packet stream: a session or stream with no frames
left to come, a client or server that is stopped, and a camera that has been started
as often as the bound allows, or hangs in `Stop` as above, may rest.

## 5. What is proved

`ConnectionManagerProofs`, for any sets of addresses and any number of sessions: the
types, `OneFeedPerHeadset`, `FeedsCurrentSession`, `VectorPerCamera`,
`EveryHeadsetRouted` and the action properties `UnregisteredByItself` and
`OnlyAttachReaderUnfeeds`. None is inductive. The invariant `Inv`
adds how sessions are numbered (`Numbering`: ids are handed out in order and are
different, one session at most is without), that a map holds a session under its
own address (`OwnAddress`), what the acceptor's locals say of the maps (`Pending`),
that a first camera finds no routes (`FirstReader`), that whoever is in a vector
is routed to it (`Routes`), and that a vector outlives its camera only when it is
empty (`EmptyStubs`). `Numbering` is what makes the comparison of ids decide
whether a session is its own (`SameSessionIsSame`); `Routes` is what lets a move,
which erases from one vector and changes one route, preserve uniqueness. The
proof has a lemma for each action or group of actions that leaves the same parts
alone. `EveryHeadsetRouted` needs `Routed` besides: while there are cameras, a registered
headset without a route is the one whose registration is under way, since the first
camera is given all headsets that came before it.

The same invariant carries the refinement, `Spec => RoutesFrames`, one lemma for each
action that changes what the router sees. Where the code writes more than the router
allows, the invariant says that there was nothing to write over: `EmptyStubs`, that the
last camera's removal, which clears all vectors, takes the frames of its own audience
only; `FeedsCurrentSession` and `Numbering`, that the last headset's removal, which clears
them too, finds nobody else in them, although a reconnection may be between its sections;
`FirstReader`, that the headsets a first camera is given are fed by nobody; `Pending`, that
an `Add` which `Clear` overtook changes nothing. `RouterFeedsOnce` shows of the router alone
that its steps keep every headset with one camera. `OnlyAttachReaderUnfeeds` is not
checked by a run, since `RoutesFrames` says more; it names the one call that takes frames
away from a headset that stays.

`HeadsetProofs`, on `HeadsetStreamer`: `TypeOK`, `NeverStuckConnecting` and the action
properties `ReadyOnlyWhenConnected` and `ClosingLeftOnlyByButton`. The module is finite and
TLC covers it completely; the proof says why: all four reports make the same
locked update, and one lemma (`PostConnectionInv`) covers it. On `Button`, for any
timeouts and polling intervals: all properties, also that there is one push per press
and one hold per push. `ByState` relates, for each state of the automaton, the time
spent in it to the history.

`TcpHeadsetSessionProofs`, for any number of buffers and frames: `TypeOK`,
`PoolBalanced`, `DestroyedOnce`, `FramesInOrder`, `OneSend` and `FaultOnlyClosed`. `Inv` is the types with
`PoolBalanced` and `ToldClosed` (a live session has not been reported gone). For the
order, `Order` strings together all places where a frame can be, what was sent, the
queue, the handlers of `Write` that wait in the strand and the last number given
out, and says that numbers increase along them. For the sends, `Sending` says
that a live session with an empty queue sends nothing and has no send's handler
waiting, and that no close is waiting for it; so `Enqueue`, which asks only the queue,
starts no second send, and no handler of a live session finds the queue empty.

`PacketStreamProofs`, for any sizes of headers, packets and frames: `PoolBalanced`,
`InStep` (what each end believes of its place in the frame, the reader against the
bytes that come) and `Implements`, that the stream is a `FrameChannel`. `PoolInv` and
`WriterInv` only add types: the lemma `NextPacket` says that a packet which was counted
and did not finish the frame leaves enough of it for the next one. What relates the two
ends is `Sync`: a cursor is a place in the stream (which frame, how much of it has
passed, in a header or in a body and how far), each byte moves it on, and the bytes in
the pipe lead, one `Linked` to the next, from the reader's place to the writer's. An end
that sends or receives moves its own place by as much as the pipe grows or shrinks, and
a lost connection puts both at the start of a frame with nothing between. That the
reader finishes a frame exactly where the writer began the next is then the step of the
channel.

`TcpClientProofs`, for a camera and a headset and any bounds: `NeverAbandoned`,
`OneConnection`, `Sending` and `FaultOnlyRaced`. What must not happen twice is counted
over the handlers that wait and the places where a call can be; the lemmas on `Occurs`
say how the count of a sequence changes with an element more at its end, with its head
gone and with another appended. `Inv` adds to the types which handlers there are of each
kind of client (`Kinds`), where `Stop` is (`Stopping`: `After` it has posted its handler,
what waits behind that one), that there is one attempt, connection or sleep of a client
that was started and none of one that is stopped (`Single`), that whoever will touch the
socket has one (`HasSocket`), that an attempt or its outcome is what the socket says
(`Trying`), and what a `Post` between its four steps knows of the queue (`Posting`).
Each part is stated with no more of the four exceptions (`late`, `overlapped`, `raced`,
`threw`) than it needs; that `Sending` depends on the second came out when this invariant was
sought. The proof has a lemma for each action.

`WebsocketClientProofs`, for any bounds and with and without a fixed port: the types,
`OneChain`, `OneWrite` and `MessagesInOrder`. Everything a session number guards rests on
`Numbered`: what is in progress, posted or inside a handler carries a number that was
given out, so what the number leaves behind never becomes current again. `Stopping` and
`Quiet` say what `Stop` knows: that it waits for the one handler it posted, that messages
wait in the strand as they were posted, and that once it has taken the number nothing is
current. `Single` is `OneChain` with the moments in which the client is being stopped.
`Shaken` is what makes the handshake a turning point: until its handler has run the
stream has nothing else to do, and what is read afterwards is read from a stream that
writes for its own session only. `Pending` says that nothing but the front of the queue
is being written, once, whichever session began it, and `Writing` that a connected client
is writing exactly if its queue is not empty; both need `Shaken`, since the handshake's
handler starts a write without asking whether there is one. `First` says that until the
first `Stop` nothing has overlapped, and `Sequel` gives the order: the wire, the queue and what is posted are numbered one
after the other, where the message whose write has ended is still in the queue and
already on the wire (`Gone`). `Shaken`, `Pending` and `Writing` are stated with all three
exceptions (`early`, `overlapped`, `raced`), `Single` with the last two only: a message
that is posted too early does not disturb the connecting. The proof has a lemma for each
action; what a new stream, a write and its failure do is a lemma of its own, since
several actions end in it.

`WebsocketServerProofs`, for any addresses and any number of sessions: `MapsExact`, and
`AllClosed`, that nothing is live or registered once `Stop` has returned. `Inv` adds to
`MapsExact` that sessions not yet made are untouched (`Unmade`), what the acceptor and
`Stop` hold at each of their steps (`AcceptorHolds`, `StopHolds`: while the acceptor is in
`handleConnection` `Stop` has not emptied the maps, and afterwards they stay empty), and
how often a session can have been closed (`CloseCount`: once by itself, and once by
whoever took it out of the map, which only one can). There is a lemma for each action
that touches a session.

`PipelineProofs`, on `CameraPipeline`, for any number of requests, downstream buffers and
starts: `RequestsAccounted`. `CameraInv` adds to it `Stages` (which of the camera, the
encoder's thread and the callback can be at work at each stage of `Start` and `Stop`: when
`DrainQueue` empties the queue without the lock, the encoder's thread has ended),
`Holders` (the callback and the encoder hold one buffer where they hold any, and none is of
a start yet to come) and `LeftBehind` (what `Stop` leaves in the queue is at most the
one buffer whose post had passed the test of `_work_stop`).
`OneHolder` is proved in two parts, that nobody shares a buffer (`Apart`) and that each
request has a place (`Cycle`), since different actions disturb them.

On `PicturePipeline`, for any number of buffers and frames: `Accounted` and
`TornOnlyWhenExhausted`. Of a headset `Accounted` says that it keeps at most one image once
it has left `RUNNING`, and that it still accepts images in another state only if a window
of it has been closed. `PictureInv` adds `DisplayKept` (between two windows `_is_display` is
set only when one was closed in `RUNNING`), `ThreadsHold` (what each thread holds at each
place in its code), `Newer` (the frames that wait, and the frame being decoded, are newer than any
in the images) and `ShownLast`, the reason why a picture on the screen is safe: until an image
is handed back undrawn, the buffer shown is the last of the pool, so the decoder comes to
it only when there is no other. Both rest on lemmas on sequences, what the elements of
one are after an element was added at its end, its head taken, another appended.

Assumptions are those named in the modules: addresses are numbers (they need an
order), bounds are natural numbers, `Horizon` lies beyond the timeouts.

Only model-checked: the liveness properties (`ShutdownCompletes`, `StopCompletes` of four
modules, `StuckIsClosed`, `CloseReleases`, `FramesArrive`, `StopClosesAll`, `RequestsReturn`,
`PoolRefills`), which need fairness and are beyond the prover. The safety that is in two of
them is proved: what `Stop` of a websocket client has done by the time it returns is a
conjunct of `Stopping`, and what that of the server leaves is `AllClosed`. Not proved
either is that the variants violate the properties, nor the finding: both are single
behaviours, which TLC exhibits.

## 6. What is not modelled

* Everything outside `internal/`: the applications, which read a configuration, start
  a streamer, wait for a signal and stop it; prototypes, scratch programs and vendored
  code, which are not part of the program; scripts and deployment.
* `SerialBms`: no service creates one.
* `StringCamera`, a source of test pictures, apart from what it has in common with
  `LibcameraCamera`.
* The strategies by which `ServerStreamer` tells cameras from headsets and displays: the
  answer is an input here. `GetConnectionCounts`, which only they use.
* JPEG coding, drawing, camera configuration, the serial port, pin and socket options:
  libraries and hardware.
* The text of messages, packet and sequence numbers in headers, which nobody reads.
* A second start of a whole streamer: `AsioContext` cannot run again after `Stop`, and no
  application does it. Of the parts, the two clients, the camera with its encoder, and the
  button are started again in the model; the servers, and the decoder with the graphics, are
  started once.
* Lifetimes of C++ objects, except where a use after the end is named above.
* A websocket message that does not parse: it stays in `_read_buffer` over the
  reconnection (`websocket_client.cpp:178`), but no server sends one.
* What the screen shows besides: `egl_buffer` is static, so the last picture, by then
  overwritten, comes back with `RUNNING` (`headset_graphics.cpp:408`), and `_buffers` keeps
  textures of an OpenGL context that ended with its window (line 419).
