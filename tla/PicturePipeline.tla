--------------------------- MODULE PicturePipeline --------------------------
(***************************************************************************)
(* The headset's and the display's side of a stream: SwDecoder, then       *)
(* HeadsetGraphics or DisplayGraphics, started and stopped by the streamer.*)
(*                                                                         *)
(* A jpeg frame is queued by the tcp client's thread, decoded by the       *)
(* decoder's thread into a buffer of the pool and posted to the graphics,  *)
(* whose thread draws the newest one.  A buffer goes back to the pool when *)
(* its last reference is dropped, on whichever thread that is; its texture *)
(* stays on the screen.                                                    *)
(***************************************************************************)
EXTENDS Integers, Sequences, FiniteSets, SequencesExt

CONSTANTS
  Buffers,    \* downstream buffers of the decoder
  MaxFrames,  \* bound: frames received
  MaxErrors,  \* bound: frames whose decoding fails half way, each with its buffer
  MaxCloses   \* bound: times the window is closed

ASSUME BoundsAssumption ==
  /\ Buffers \in Nat \ {0} /\ MaxFrames \in Nat /\ MaxErrors \in Nat /\ MaxCloses \in Nat

VARIABLES
  kind,         \* the graphics: "headset" or "display"
  frames,       \* counts the frames received, and numbers them
  work_stop, work_queue,
  worker,       \* the decoder's thread: its place, frame and buffer
  free,         \* _downstream_buffers
  lost,         \* buffers lost by a decoding error
  content,      \* the frame last written to each buffer, if only in part
  state,        \* _state, as the streamer has posted it
  is_ready, is_display, stop_running, image_queue,
  closes,       \* counts the windows closed
  render,       \* the graphics' thread: its place, last_state, data and egl_buffer
  skipped,      \* a buffer came back undrawn since the shown one was taken
  main          \* the thread that calls Start and Stop

decoder == <<work_stop, work_queue, worker>>
pool == <<free, lost, content>>
flags == <<is_ready, is_display, stop_running>>
screen == <<render, closes>>
vars == <<kind, frames, decoder, pool, state, flags, image_queue, screen, skipped, main>>

Buffer == 1 .. Buffers
None == 0
States == {"CONNECTING", "READY", "RUNNING"}
At(pc, f, b) == [pc |-> pc, frame |-> f, buf |-> b]
AtCheck == At("check", 0, None)

Init ==
  /\ kind \in {"headset", "display"}
  /\ frames = 0
  /\ work_stop = TRUE /\ work_queue = <<>> /\ worker = At("off", 0, None)
  /\ free = [i \in Buffer |-> i] /\ lost = {} /\ content = [b \in Buffer |-> 0]
  /\ state = "CONNECTING"
  /\ is_ready = FALSE /\ is_display = FALSE /\ stop_running = TRUE /\ image_queue = <<>>
  /\ closes = 0
  /\ render = [pc |-> "off", last_state |-> "CONNECTING", data |-> None, shown |-> None]
  /\ skipped = FALSE
  /\ main = "new"

-----------------------------------------------------------------------------
(* SwDecoder *)

\* Variant: the pool is a stack.
ReturnedFirst(s) == s \o free

\* queueDownstreamBuffer, for the buffers of s in turn.
Returned(s) == free \o s

\* notify_one: a worker that waits looks again.
Notified == IF worker.pc = "waiting" THEN AtCheck ELSE worker

\* PostJpegBuffer, on a thread of the context.
PostJpegBuffer ==
  /\ main = "up" /\ frames < MaxFrames
  /\ frames' = frames + 1
  /\ work_queue' = Append(work_queue, frames + 1)
  /\ worker' = Notified
  /\ UNCHANGED <<kind, work_stop, pool, state, flags, image_queue, screen, skipped, main>>

\* run: end, take the front of the queue, or wait.
Check ==
  /\ worker.pc = "check"
  /\ IF work_stop THEN worker' = At("off", 0, None) /\ UNCHANGED work_queue
     ELSE IF work_queue = <<>> THEN worker' = At("waiting", 0, None) /\ UNCHANGED work_queue
     ELSE /\ worker' = At("decode", Head(work_queue), None)
          /\ work_queue' = Tail(work_queue)
  /\ UNCHANGED <<kind, frames, work_stop, pool, state, flags, image_queue, screen, skipped, main>>

\* Without a buffer, or with a header it cannot read, decodeBuffer drops the frame.
DropFrame ==
  /\ worker.pc = "decode"
  /\ worker' = AtCheck
  /\ UNCHANGED <<kind, frames, work_stop, work_queue, pool, state, flags, image_queue, screen,
                 skipped, main>>

\* decodeBuffer takes a buffer and begins to write the frame to it.
TakeBuffer ==
  /\ worker.pc = "decode" /\ free # <<>>
  /\ worker' = At("fill", worker.frame, Head(free))
  /\ free' = Tail(free)
  /\ content' = [content EXCEPT ![Head(free)] = worker.frame]
  /\ UNCHANGED <<kind, frames, work_stop, work_queue, lost, state, flags, image_queue, screen,
                 skipped, main>>

\* An error while it is written: the exception passes the raw pointer by.
ErrorBuffer == lost' = lost \union {worker.buf} /\ UNCHANGED free

Fill ==
  /\ worker.pc = "fill"
  /\ \/ worker' = At("post", worker.frame, worker.buf) /\ UNCHANGED <<free, lost>>
     \/ Cardinality(lost) < MaxErrors /\ worker' = AtCheck /\ ErrorBuffer
  /\ UNCHANGED <<kind, frames, work_stop, work_queue, content, state, flags, image_queue, screen,
                 skipped, main>>

-----------------------------------------------------------------------------
(* HeadsetGraphics and DisplayGraphics *)

Accepts == is_ready /\ (kind = "headset" => is_display)

\* PostImage's test; a refused buffer goes back.
PostImage ==
  /\ worker.pc = "post"
  /\ IF Accepts
     THEN worker' = At("push", worker.frame, worker.buf) /\ UNCHANGED <<free, skipped>>
     ELSE worker' = AtCheck /\ free' = Returned(<<worker.buf>>) /\ skipped' = TRUE
  /\ UNCHANGED <<kind, frames, work_stop, work_queue, lost, content, state, flags, image_queue,
                 screen, main>>

\* The rest of PostImage, under _image_mutex.
Push ==
  /\ worker.pc = "push"
  /\ image_queue' = Append(image_queue, worker.buf)
  /\ worker' = AtCheck
  /\ UNCHANGED <<kind, frames, work_stop, work_queue, pool, state, flags, screen, skipped, main>>

PostGraphicsHeadsetState(s) ==
  /\ kind = "headset" /\ main = "up"
  /\ state' = s
  /\ UNCHANGED <<kind, frames, decoder, pool, flags, image_queue, screen, skipped, main>>

\* The queue is emptied undrawn.
EmptyImages ==
  /\ image_queue' = <<>> /\ free' = Returned(image_queue)
  /\ skipped' = (skipped \/ image_queue # <<>>)

\* Variant: the thread ends with its window.
RunEndsOnce == stop_running \/ closes > 0

RunEnds == stop_running

\* run: end, or make a window, which takes a while and may have to be tried again.
Setup ==
  /\ render.pc = "setup"
  /\ render' = [render EXCEPT !.pc = IF RunEnds THEN "off" ELSE "window"]
  /\ UNCHANGED <<kind, frames, decoder, pool, state, flags, image_queue, closes, skipped, main>>

\* The display's egl_buffer is a local of the window, the headset's is static.
Window ==
  /\ render.pc = "window"
  /\ is_ready' = TRUE
  /\ render' = [render EXCEPT !.pc = "turn", !.last_state = "CONNECTING",
                              !.shown = IF kind = "display" THEN None ELSE @]
  /\ UNCHANGED <<kind, frames, decoder, pool, state, is_display, stop_running, image_queue, closes, skipped, main>>

WindowFails ==
  /\ render.pc = "window"
  /\ render' = [render EXCEPT !.pc = "setup"]
  /\ UNCHANGED <<kind, frames, decoder, pool, state, flags, image_queue, closes, skipped, main>>

\* The window is closed or the graphics are stopped: _is_display stays as it is.
Close ==
  /\ render.pc = "turn" /\ (stop_running \/ closes < MaxCloses)
  /\ closes' = IF stop_running THEN closes ELSE closes + 1
  /\ is_ready' = FALSE
  /\ render' = [render EXCEPT !.pc = "setup"]
  /\ UNCHANGED <<kind, frames, decoder, pool, state, is_display, stop_running, image_queue, skipped,
                 main>>

\* An iteration of the headset's loop: read the state and handle the transition.
\* When RUNNING is left, images are refused from now on.
TurnHeadset ==
  /\ kind = "headset" /\ render.pc = "turn" /\ ~stop_running
  /\ is_display' = IF render.last_state = "RUNNING" THEN state = "RUNNING" ELSE is_display
  /\ render' = [render EXCEPT !.pc = IF state = "RUNNING" THEN "drain"
                                     ELSE IF render.last_state = "RUNNING" THEN "leave"
                                     ELSE "turn",
                              !.last_state = state]
  /\ UNCHANGED <<kind, frames, decoder, pool, state, is_ready, stop_running, image_queue, closes,
                 skipped, main>>

\* Variant: images that wait when the state is left stay in the queue.
LeavingKeeps == UNCHANGED <<image_queue, free, skipped>>

\* Those that wait are dropped, under _image_mutex.
Leaving == EmptyImages

Leave ==
  /\ render.pc = "leave"
  /\ Leaving
  /\ render' = [render EXCEPT !.pc = "turn"]
  /\ UNCHANGED <<kind, frames, decoder, lost, content, state, flags, closes, main>>

TurnDisplay ==
  /\ kind = "display" /\ render.pc = "turn" /\ ~stop_running
  /\ render' = [render EXCEPT !.pc = "drain"]
  /\ UNCHANGED <<kind, frames, decoder, pool, state, flags, image_queue, closes, skipped, main>>

\* handleRunningState: the queue is drained, the older images go back at once.
Drain ==
  /\ render.pc = "drain"
  /\ IF image_queue = <<>> THEN render' = [render EXCEPT !.pc = "draw"] /\ UNCHANGED <<free, skipped>>
     ELSE /\ render' = [render EXCEPT !.pc = "draw", !.data = Last(image_queue),
                                      !.shown = Last(image_queue)]
          /\ free' = Returned(Front(image_queue)) /\ skipped' = FALSE
  /\ image_queue' = <<>>
  /\ UNCHANGED <<kind, frames, decoder, lost, content, state, flags, closes, main>>

\* The shown buffer is drawn, and given back if it is new.
Draw ==
  /\ render.pc = "draw"
  /\ free' = Returned(IF render.data = None THEN <<>> ELSE <<render.data>>)
  /\ render' = [render EXCEPT !.pc = "turn", !.data = None]
  /\ UNCHANGED <<kind, frames, decoder, lost, content, state, flags, image_queue, closes, skipped,
                 main>>

-----------------------------------------------------------------------------
(* HeadsetStreamer and DisplayStreamer *)

Start ==
  /\ main = "new"
  /\ stop_running' = FALSE /\ render' = [render EXCEPT !.pc = "setup"]
  /\ work_stop' = FALSE /\ worker' = AtCheck
  /\ main' = "up"
  /\ UNCHANGED <<kind, frames, work_queue, pool, state, is_ready, is_display, image_queue, closes, skipped>>

\* StopGraphics, once the clients and the context are stopped.
StopGraphics ==
  /\ main = "up"
  /\ is_ready' = FALSE /\ stop_running' = TRUE
  /\ main' = "join_graphics"
  /\ UNCHANGED <<kind, frames, decoder, pool, state, is_display, image_queue, screen, skipped>>

JoinGraphics ==
  /\ main = "join_graphics" /\ render.pc = "off"
  /\ EmptyImages
  /\ main' = "stop_decoder"
  /\ UNCHANGED <<kind, frames, decoder, lost, content, state, flags, screen>>

StopDecoder ==
  /\ main = "stop_decoder"
  /\ work_stop' = TRUE /\ worker' = Notified
  /\ main' = "join_decoder"
  /\ UNCHANGED <<kind, frames, work_queue, pool, state, flags, image_queue, screen, skipped>>

JoinDecoder ==
  /\ main = "join_decoder" /\ worker.pc = "off"
  /\ work_queue' = <<>>
  /\ main' = "down"
  /\ UNCHANGED <<kind, frames, work_stop, worker, pool, state, flags, image_queue, screen, skipped>>

\* The context cannot be started again: no frame comes any more.
Stopped == main = "down" /\ UNCHANGED vars

-----------------------------------------------------------------------------

Worker == Check \/ DropFrame \/ TakeBuffer \/ Fill \/ PostImage \/ Push
Render == Setup \/ Window \/ TurnHeadset \/ Leave \/ TurnDisplay \/ Drain \/ Draw \/ (stop_running /\ Close)

Next ==
  \/ PostJpegBuffer \/ Worker
  \/ \E s \in States : PostGraphicsHeadsetState(s)
  \/ Render \/ WindowFails \/ Close
  \/ Start \/ StopGraphics \/ JoinGraphics \/ StopDecoder \/ JoinDecoder \/ Stopped

\* The two threads run; a window that can be made is made some time.
Fairness == WF_vars(Worker) /\ WF_vars(Render) /\ SF_vars(Window)

Spec == Init /\ [][Next]_vars /\ Fairness

-----------------------------------------------------------------------------
(* Properties *)

TypeOK ==
  /\ kind \in {"headset", "display"} /\ frames \in 0 .. MaxFrames
  /\ work_stop \in BOOLEAN /\ work_queue \in Seq(1 .. MaxFrames)
  /\ worker \in [pc : {"off", "check", "waiting", "decode", "fill", "post", "push"},
                 frame : 0 .. MaxFrames, buf : Buffer \union {None}]
  /\ free \in Seq(Buffer) /\ lost \subseteq Buffer /\ content \in [Buffer -> 0 .. MaxFrames]
  /\ state \in States
  /\ is_ready \in BOOLEAN /\ is_display \in BOOLEAN /\ stop_running \in BOOLEAN
  /\ image_queue \in Seq(Buffer) /\ closes \in 0 .. MaxCloses
  /\ render \in [pc : {"off", "setup", "window", "turn", "leave", "drain", "draw"}, last_state : States,
                 data : Buffer \union {None}, shown : Buffer \union {None}]
  /\ skipped \in BOOLEAN
  /\ main \in {"new", "up", "join_graphics", "stop_decoder", "join_decoder", "down"}

Held(b) == {b} \ {None}

\* Every buffer of the decoder is in one place: the pool, the decoder's or the
\* graphics' thread, the image queue, or lost.
OnePlace ==
  LET places == <<ToSet(free), Held(worker.buf), ToSet(image_queue), Held(render.data), lost>>
  IN  /\ UNION ToSet(places) = Buffer
      /\ \A i, j \in DOMAIN places : i # j => places[i] \intersect places[j] = {}
      /\ IsInjective(free) /\ IsInjective(image_queue)

\* Once RUNNING is left, a headset keeps at most the one image whose post had begun
\* before.  The exception: a window that is closed in RUNNING and made again in
\* another state begins as if RUNNING had not been left.  _is_display is still set,
\* and images are accepted that nobody draws.
AtMostOneStraggler ==
  kind = "headset" =>
    /\ ~is_display /\ render.pc # "leave" =>
         /\ Len(image_queue) <= 1
         /\ worker.pc = "push" => image_queue = <<>>
    /\ is_display /\ render.last_state # "RUNNING" => closes > 0

\* Images wait in the order in which their frames came, older than the frame in work.
InOrder ==
  /\ \A i, j \in DOMAIN image_queue : i < j => content[image_queue[i]] < content[image_queue[j]]
  /\ worker.frame # 0 => \A b \in ToSet(image_queue) : content[b] < worker.frame

\* Buffers are accounted for however posting, drawing and leaving the state interleave.
Accounted == TypeOK /\ OnePlace /\ AtMostOneStraggler /\ InOrder

\* The buffer on the screen is back in the pool.  It is written again only when
\* all the others wait to be drawn or are lost, or when the graphics have handed
\* some back undrawn: the pool's order is what keeps a picture whole.
TornOnlyWhenExhausted ==
  worker.pc = "fill" /\ worker.buf = render.shown /\ ~skipped =>
    Buffer \ {worker.buf} = ToSet(image_queue) \union lost

\* The end of the headset's pictures outside RUNNING: every buffer is lost or waits
\* undrawn.  All of them wait only behind a window that was made again; one is
\* enough when it is all that decoding errors have left.
Undrawn ==
  /\ kind = "headset" /\ state # "RUNNING"
  /\ image_queue # <<>> /\ ToSet(image_queue) \union lost = Buffer
  /\ (is_display /\ closes > 0) \/ Len(image_queue) = 1

\* A decoder without a buffer gets one again, in every state.
PoolRefills == (free = <<>>) ~> (free # <<>> \/ lost = Buffer \/ main # "up" \/ Undrawn)
=============================================================================
