--------------------------- MODULE CameraPipeline ---------------------------
(***************************************************************************)
(* The camera's side of a stream: LibcameraCamera, SwEncoder and the order *)
(* in which CameraStreamer starts and stops them.                          *)
(*                                                                         *)
(* A request cycles: the camera fills its buffer, libcamera's thread posts *)
(* the buffer to the encoder, the encoder's thread encodes it into a       *)
(* downstream buffer, and whoever drops the last reference to it, on its   *)
(* own thread, gives the request back.  Stop runs on the main thread.      *)
(*                                                                         *)
(* Its names differ from PicturePipeline's: PipelineProofs extends both.   *)
(***************************************************************************)
EXTENDS Naturals, Sequences

CONSTANTS
  Request,     \* the requests made by makeRequests
  Downstream,  \* downstream buffers of the encoder
  MaxStarts    \* bound: calls of CameraStreamer::Start

ASSUME CameraAssumption == Downstream \in Nat /\ MaxStarts \in Nat \ {0}

VARIABLES
  camera_started,
  starts,          \* counts Start; a buffer carries the count it was made under
  camera,          \* requests queued with libcamera
  cancelled,       \* requests libcamera has cancelled while it ran
  camera_buffers,  \* _camera_buffers
  callback,        \* libcamera's thread: idle, or in requestComplete with a buffer
  encoder_stop,    \* the encoder's _work_stop
  encode_queue,    \* the encoder's _work_queue
  encoder,         \* the encoder's thread
  downstream,      \* buffers in _downstream_buffers
  sending,         \* encoded buffers with the tcp client
  streamer         \* the main thread, in CameraStreamer

cam == <<camera_started, starts, camera, cancelled, camera_buffers>>
out == <<downstream, sending>>
camera_vars == <<cam, callback, encoder_stop, encode_queue, encoder, out, streamer>>

CameraBuffer == [start : 1 .. MaxStarts, request : Request]
Buf(r) == [start |-> starts, request |-> r]
Holding(pc, b) == [pc |-> pc, buffers |-> b]
Idle == Holding("idle", {})

\* Before the first Start.
CameraInit ==
  /\ camera_started = FALSE /\ starts = 0 /\ camera = {} /\ cancelled = {} /\ camera_buffers = {}
  /\ callback = Idle
  /\ encoder_stop = TRUE /\ encode_queue = <<>> /\ encoder = Holding("off", {})
  /\ downstream = Downstream /\ sending = 0
  /\ streamer = "down"

-----------------------------------------------------------------------------
(* LibcameraCamera *)

\* Variant: any buffer's request is queued again.
FoundAlways(b) == TRUE

Found(b) == b \in camera_buffers

\* _camera_stop_mutex is held by StopCamera.
StopLocked == streamer = "camera_stop"

\* queueRequest, the deleter of a buffer.
QueueRequest(b) ==
  /\ ~StopLocked
  /\ camera_buffers' = camera_buffers \ {b}
  /\ camera' = IF camera_started /\ Found(b) THEN camera \union {b.request} ELSE camera
  /\ UNCHANGED <<camera_started, starts, cancelled>>

\* requestComplete, up to PostCameraBuffer's test.
RequestComplete(r) ==
  /\ callback = Idle /\ r \in camera
  /\ camera' = camera \ {r}
  /\ camera_buffers' = camera_buffers \union {Buf(r)}
  /\ callback' = Holding(IF encoder_stop THEN "release" ELSE "push", {Buf(r)})
  /\ UNCHANGED <<camera_started, starts, cancelled, encoder_stop, encode_queue, encoder, out,
                 streamer>>

\* A request that libcamera gives up is not queued again.
RequestCancelled(r) ==
  /\ callback = Idle /\ r \in camera
  /\ camera' = camera \ {r} /\ cancelled' = cancelled \union {r}
  /\ UNCHANGED <<camera_started, starts, camera_buffers, callback, encoder_stop, encode_queue,
                 encoder, out, streamer>>

\* A buffer the encoder refused is released on libcamera's thread.
CallbackRelease ==
  /\ callback.pc = "release"
  /\ \E b \in callback.buffers : QueueRequest(b)
  /\ callback' = Idle
  /\ UNCHANGED <<encoder_stop, encode_queue, encoder, out, streamer>>

-----------------------------------------------------------------------------
(* SwEncoder *)

\* notify_one: a worker that waits looks again.
EncoderNotified == IF encoder.pc = "waiting" THEN Holding("check", {}) ELSE encoder

\* The rest of PostCameraBuffer, under _work_mutex.
PushBuffer ==
  /\ callback.pc = "push"
  /\ \E b \in callback.buffers : encode_queue' = Append(encode_queue, b)
  /\ encoder' = EncoderNotified
  /\ callback' = Idle
  /\ UNCHANGED <<cam, encoder_stop, out, streamer>>

\* run: end, take the front of the queue, or wait.
CheckQueue ==
  /\ encoder.pc = "check"
  /\ IF encoder_stop THEN encoder' = Holding("off", {}) /\ UNCHANGED encode_queue
     ELSE IF encode_queue = <<>> THEN encoder' = Holding("waiting", {}) /\ UNCHANGED encode_queue
     ELSE encoder' = Holding("encode", {Head(encode_queue)}) /\ encode_queue' = Tail(encode_queue)
  /\ UNCHANGED <<cam, callback, encoder_stop, out, streamer>>

\* Variant: the worker waits for a downstream buffer.
NoDownstreamWaits == FALSE

\* Without a downstream buffer the frame is dropped.
NoDownstream ==
  downstream = 0 /\ encoder' = Holding("release", encoder.buffers) /\ UNCHANGED downstream

EncodeBuffer ==
  /\ encoder.pc = "encode"
  /\ \/ downstream > 0 /\ downstream' = downstream - 1 /\ encoder' = Holding("send", encoder.buffers)
     \/ NoDownstream
  /\ UNCHANGED <<cam, callback, encoder_stop, encode_queue, sending, streamer>>

\* _send_callback: TcpClient::Post queues the encoded buffer or drops it.
Send ==
  /\ encoder.pc = "send"
  /\ encoder' = Holding("release", encoder.buffers)
  /\ \/ sending' = sending + 1 /\ UNCHANGED downstream
     \/ downstream' = downstream + 1 /\ UNCHANGED sending
  /\ UNCHANGED <<cam, callback, encoder_stop, encode_queue, streamer>>

\* The client is done with an encoded buffer: queueDownstreamBuffer.
Sent ==
  /\ sending > 0
  /\ sending' = sending - 1 /\ downstream' = downstream + 1
  /\ UNCHANGED <<cam, callback, encoder_stop, encode_queue, encoder, streamer>>

WorkerRelease ==
  /\ encoder.pc = "release"
  /\ \E b \in encoder.buffers : QueueRequest(b)
  /\ encoder' = Holding(IF encoder_stop THEN "off" ELSE "check", {})
  /\ UNCHANGED <<callback, encoder_stop, encode_queue, out, streamer>>

-----------------------------------------------------------------------------
(* CameraStreamer *)

\* StartCamera makes and queues new requests; frames may come before StartEncoder.
StartCamera ==
  /\ streamer = "down" /\ starts < MaxStarts
  /\ starts' = starts + 1
  /\ camera_started' = TRUE /\ camera' = Request /\ cancelled' = {}
  /\ streamer' = "start_encoder"
  /\ UNCHANGED <<camera_buffers, callback, encoder_stop, encode_queue, encoder, out>>

StartEncoder ==
  /\ streamer = "start_encoder"
  /\ streamer' = "up"
  /\ encoder_stop' = FALSE /\ encoder' = Holding("check", {})
  /\ UNCHANGED <<cam, callback, encode_queue, out>>

\* Variant: the worker is not woken.
WokenNot == encoder

\* The worker is notified.
Woken == EncoderNotified

\* StopEncoder, once the client and the context are stopped: the flag and the
\* notification, the join, and the queue is emptied.
StopEncoder ==
  /\ streamer = "up"
  /\ streamer' = "join"
  /\ encoder_stop' = TRUE /\ encoder' = Woken
  /\ UNCHANGED <<cam, callback, encode_queue, out>>

JoinWorker ==
  /\ streamer = "join" /\ encoder.pc = "off"
  /\ streamer' = "drain"
  /\ UNCHANGED <<cam, callback, encoder_stop, encode_queue, encoder, out>>

DrainQueue ==
  /\ streamer = "drain" /\ encode_queue # <<>>
  /\ QueueRequest(Head(encode_queue))
  /\ encode_queue' = Tail(encode_queue)
  /\ UNCHANGED <<callback, encoder_stop, encoder, out, streamer>>

\* StopCamera: with the mutex locked, the camera's stop is to run on libcamera's
\* thread, and is waited for.
StopCamera ==
  /\ streamer = "drain" /\ encode_queue = <<>>
  /\ streamer' = "camera_stop"
  /\ UNCHANGED <<cam, callback, encoder_stop, encode_queue, encoder, out>>

CameraStopped ==
  /\ streamer = "camera_stop" /\ callback = Idle
  /\ camera_started' = FALSE /\ camera' = {} /\ cancelled' = {}
  /\ camera_buffers' = {}
  /\ streamer' = "down"
  /\ UNCHANGED <<starts, callback, encoder_stop, encode_queue, encoder, out>>

-----------------------------------------------------------------------------

Callback == PushBuffer \/ CallbackRelease
Encoder == CheckQueue \/ EncodeBuffer \/ Send \/ WorkerRelease
Stopping == JoinWorker \/ DrainQueue \/ StopCamera \/ CameraStopped

CameraNext ==
  \/ \E r \in Request : RequestComplete(r) \/ RequestCancelled(r)
  \/ Callback \/ Encoder \/ Sent
  \/ StartCamera \/ StartEncoder
  \/ StopEncoder \/ Stopping

\* The threads run.  Nothing is assumed of the camera or of the connection.
CameraFairness ==
  /\ WF_camera_vars(Callback) /\ WF_camera_vars(Encoder)
  /\ WF_camera_vars(StartEncoder) /\ WF_camera_vars(Stopping)

CameraSpec == CameraInit /\ [][CameraNext]_camera_vars /\ CameraFairness

-----------------------------------------------------------------------------
(* Properties *)

CameraTypeOK ==
  /\ camera_started \in BOOLEAN /\ starts \in 0 .. MaxStarts
  /\ camera \subseteq Request /\ cancelled \subseteq Request
  /\ camera_buffers \subseteq CameraBuffer
  /\ callback \in [pc : {"idle", "push", "release"}, buffers : SUBSET CameraBuffer]
  /\ encoder_stop \in BOOLEAN /\ encode_queue \in Seq(CameraBuffer)
  /\ encoder \in [pc : {"off", "check", "waiting", "encode", "send", "release"},
                  buffers : SUBSET CameraBuffer]
  /\ downstream \in 0 .. Downstream /\ sending \in 0 .. Downstream
  /\ streamer \in {"down", "start_encoder", "up", "join", "drain", "camera_stop"}

Queued == {encode_queue[i] : i \in DOMAIN encode_queue}

\* Buffers that are out.
HeldBuffers == Queued \union callback.buffers \union encoder.buffers

\* A request is with libcamera, given up, or with one holder of its buffer, which
\* alone can give it back; a buffer left over from an earlier Start, of which
\* there is at most one, cannot: its request is gone.
OneHolder ==
  /\ \A i, j \in DOMAIN encode_queue : encode_queue[i] = encode_queue[j] => i = j
  /\ Queued \intersect callback.buffers = {} /\ Queued \intersect encoder.buffers = {}
  /\ callback.buffers \intersect encoder.buffers = {}
  /\ camera_buffers = {b \in HeldBuffers : b.start = starts /\ camera_started}
  /\ \A b, c \in HeldBuffers : b \notin camera_buffers /\ c \notin camera_buffers => b = c
  /\ camera \intersect cancelled = {}
  /\ {b.request : b \in camera_buffers} \intersect (camera \union cancelled) = {}
  /\ camera_started => {b.request : b \in camera_buffers} \union camera \union cancelled = Request

\* No downstream buffer is lost.
DownstreamBalanced ==
  downstream + sending + (IF encoder.pc = "send" THEN 1 ELSE 0) = Downstream

\* Requests and downstream buffers are all accounted for, over Stop and Start.
RequestsAccounted == CameraTypeOK /\ OneHolder /\ DownstreamBalanced

\* StopCamera waits for libcamera's thread, which waits for StopCamera's mutex.
Deadlocked == streamer = "camera_stop" /\ callback.pc = "release"

\* Whatever the connection does, a request comes back to the camera, unless Stop
\* comes: a slow receiver costs frames, never the camera.
RequestsReturn ==
  \A r \in Request :
    (camera_started /\ r \notin camera \union cancelled) ~>
      (r \in camera \union cancelled \/ ~camera_started \/ Deadlocked)

\* Stop returns, unless libcamera's thread is releasing a buffer that the stopped
\* encoder has refused.
StopCompletes == (streamer = "join") ~> (streamer = "down" \/ Deadlocked)
=============================================================================
