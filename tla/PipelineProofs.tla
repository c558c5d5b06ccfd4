--------------------------- MODULE PipelineProofs ---------------------------
(***************************************************************************)
(* What is proved of the two pipelines, for any number of requests,        *)
(* buffers, frames, starts and closed windows.                             *)
(***************************************************************************)
EXTENDS CameraPipeline, PicturePipeline, SequenceTheorems, TLAPS

-----------------------------------------------------------------------------
(* Queues: their elements, and that none is in a queue twice *)

\* The empty queue and a queue of one.
LEMMA ShortQueues ==
  /\ ToSet(<<>>) = {} /\ IsInjective(<<>>)
  /\ \A e : ToSet(<<e>>) = {e} /\ IsInjective(<<e>>)
BY DEF ToSet, IsInjective

LEMMA ElementsInRange ==
  ASSUME NEW S, NEW s \in Seq(S)
  PROVE ToSet(s) \subseteq S
BY DEF ToSet

\* push
LEMMA AppendElements ==
  ASSUME NEW S, NEW s \in Seq(S), NEW e \in S
  PROVE /\ Append(s, e) \in Seq(S) /\ Append(s, e) # <<>>
        /\ ToSet(Append(s, e)) = ToSet(s) \union {e}
        /\ IsInjective(s) /\ e \notin ToSet(s) => IsInjective(Append(s, e))
<1>1. /\ DOMAIN s = 1 .. Len(s) /\ Len(s) \in Nat
      /\ DOMAIN Append(s, e) = 1 .. (Len(s) + 1)
      /\ \A i \in 1 .. Len(s) : Append(s, e)[i] = s[i]
      /\ Append(s, e)[Len(s) + 1] = e
  OBVIOUS
<1>2. ToSet(Append(s, e)) = ToSet(s) \union {e}
  <2>1. ASSUME NEW x \in ToSet(Append(s, e)) PROVE x \in ToSet(s) \union {e}
    BY <1>1 DEF ToSet
  <2>2. ASSUME NEW x \in ToSet(s) PROVE x \in ToSet(Append(s, e))
    <3>1. PICK i \in 1 .. Len(s) : x = s[i]
      BY <1>1 DEF ToSet
    <3>2. i \in DOMAIN Append(s, e) /\ x = Append(s, e)[i]
      BY <1>1, <3>1
    <3> QED BY <3>2 DEF ToSet
  <2>3. e \in ToSet(Append(s, e))
    <3>1. Len(s) + 1 \in DOMAIN Append(s, e)
      BY <1>1
    <3> QED BY <1>1, <3>1 DEF ToSet
  <2> QED BY <2>1, <2>2, <2>3
<1>3. IsInjective(s) /\ e \notin ToSet(s) => IsInjective(Append(s, e))
  BY <1>1 DEF IsInjective, ToSet
<1> QED BY <1>1, <1>2, <1>3, AppendProperties

\* A queue of one after another queue.
LEMMA AddedElements ==
  ASSUME NEW S, NEW s \in Seq(S), NEW e \in S
  PROVE /\ ToSet(s \o <<e>>) = ToSet(s) \union {e}
        /\ IsInjective(s) /\ e \notin ToSet(s) => IsInjective(s \o <<e>>)
<1>1. s \o <<e>> = Append(s, e)
  BY AppendIsConcat
<1>2. /\ ToSet(Append(s, e)) = ToSet(s) \union {e}
      /\ IsInjective(s) /\ e \notin ToSet(s) => IsInjective(Append(s, e))
  BY AppendElements
<1> QED BY <1>1, <1>2

\* front and pop
LEMMA TailElements ==
  ASSUME NEW S, NEW s \in Seq(S), s # <<>>
  PROVE /\ Head(s) \in S /\ Tail(s) \in Seq(S)
        /\ ToSet(s) = {Head(s)} \union ToSet(Tail(s))
        /\ IsInjective(s) => IsInjective(Tail(s)) /\ Head(s) \notin ToSet(Tail(s))
<1>1. /\ DOMAIN s = 1 .. Len(s) /\ Len(s) \in Nat \ {0}
      /\ DOMAIN Tail(s) = 1 .. (Len(s) - 1)
      /\ \A i \in 1 .. (Len(s) - 1) : Tail(s)[i] = s[i + 1]
      /\ Head(s) = s[1]
  OBVIOUS
<1>2. ToSet(s) = {Head(s)} \union ToSet(Tail(s))
  <2>1. ASSUME NEW x \in ToSet(s) PROVE x \in {Head(s)} \union ToSet(Tail(s))
    <3>1. PICK i \in 1 .. Len(s) : x = s[i]
      BY <1>1 DEF ToSet
    <3>2. CASE i # 1
      <4>1. i - 1 \in DOMAIN Tail(s) /\ x = Tail(s)[i - 1]
        BY <1>1, <3>1, <3>2
      <4> QED BY <4>1 DEF ToSet
    <3> QED BY <1>1, <3>1, <3>2
  <2>2. ASSUME NEW x \in ToSet(Tail(s)) PROVE x \in ToSet(s)
    <3>1. PICK i \in 1 .. (Len(s) - 1) : x = s[i + 1]
      BY <1>1 DEF ToSet
    <3>2. i + 1 \in DOMAIN s
      BY <1>1
    <3> QED BY <3>1, <3>2 DEF ToSet
  <2>3. Head(s) \in ToSet(s)
    BY <1>1 DEF ToSet
  <2> QED BY <2>1, <2>2, <2>3
<1>3. ASSUME IsInjective(s) PROVE IsInjective(Tail(s)) /\ Head(s) \notin ToSet(Tail(s))
  <2>1. \A i, j \in 1 .. Len(s) : s[i] = s[j] => i = j
    BY <1>1, <1>3 DEF IsInjective
  <2>2. \A i \in 1 .. (Len(s) - 1) : i + 1 \in 1 .. Len(s) /\ i + 1 # 1
    BY <1>1
  <2>3. \A i, j \in 1 .. (Len(s) - 1) : i + 1 = j + 1 => i = j
    OBVIOUS
  <2>4. IsInjective(Tail(s))
    BY <1>1, <2>1, <2>2, <2>3 DEF IsInjective
  <2>5. 1 \in 1 .. Len(s)
    BY <1>1
  <2> QED BY <1>1, <2>1, <2>2, <2>4, <2>5 DEF ToSet
<1> QED BY <1>1, <1>2, <1>3, HeadTailProperties

\* The elements of one queue after those of another.
LEMMA ConcatElements ==
  ASSUME NEW S, NEW s \in Seq(S), NEW t \in Seq(S)
  PROVE /\ s \o t \in Seq(S)
        /\ ToSet(s \o t) = ToSet(s) \union ToSet(t)
        /\ IsInjective(s) /\ IsInjective(t) /\ ToSet(s) \intersect ToSet(t) = {} =>
             IsInjective(s \o t)
<1> DEFINE m == Len(s)
           n == Len(t)
<1>1. /\ DOMAIN s = 1 .. m /\ m \in Nat /\ DOMAIN t = 1 .. n /\ n \in Nat
      /\ DOMAIN (s \o t) = 1 .. (m + n)
  OBVIOUS
<1>2. \A i \in 1 .. (m + n) : (s \o t)[i] = IF i <= m THEN s[i] ELSE t[i - m]
  BY ConcatProperties
<1>3. ToSet(s \o t) = ToSet(s) \union ToSet(t)
  <2>1. ASSUME NEW x \in ToSet(s \o t) PROVE x \in ToSet(s) \union ToSet(t)
    <3>1. PICK i \in 1 .. (m + n) : x = (s \o t)[i]
      BY <1>1 DEF ToSet
    <3>2. CASE i <= m
      BY <1>1, <1>2, <3>1, <3>2 DEF ToSet
    <3>3. CASE ~(i <= m)
      <4>1. i - m \in DOMAIN t /\ x = t[i - m]
        BY <1>1, <1>2, <3>1, <3>3
      <4> QED BY <4>1 DEF ToSet
    <3> QED BY <3>2, <3>3
  <2>2. ASSUME NEW x \in ToSet(s) PROVE x \in ToSet(s \o t)
    <3>1. PICK i \in 1 .. m : x = s[i]
      BY <1>1 DEF ToSet
    <3>2. i \in DOMAIN (s \o t) /\ x = (s \o t)[i]
      BY <1>1, <1>2, <3>1
    <3> QED BY <3>2 DEF ToSet
  <2>3. ASSUME NEW x \in ToSet(t) PROVE x \in ToSet(s \o t)
    <3>1. PICK i \in 1 .. n : x = t[i]
      BY <1>1 DEF ToSet
    <3>2. i + m \in DOMAIN (s \o t) /\ x = (s \o t)[i + m]
      BY <1>1, <1>2, <3>1
    <3> QED BY <3>2 DEF ToSet
  <2> QED BY <2>1, <2>2, <2>3
<1>4. ASSUME IsInjective(s), IsInjective(t), ToSet(s) \intersect ToSet(t) = {}
      PROVE IsInjective(s \o t)
  <2>1. SUFFICES ASSUME NEW i \in 1 .. (m + n), NEW j \in 1 .. (m + n),
                        (s \o t)[i] = (s \o t)[j]
                 PROVE i = j
    BY <1>1 DEF IsInjective
  <2>2. CASE i <= m /\ j <= m
    BY <1>1, <1>2, <1>4, <2>1, <2>2 DEF IsInjective
  <2>3. CASE ~(i <= m) /\ ~(j <= m)
    <3>1. i - m \in DOMAIN t /\ j - m \in DOMAIN t /\ t[i - m] = t[j - m]
      BY <1>1, <1>2, <2>1, <2>3
    <3> QED BY <1>1, <1>4, <3>1 DEF IsInjective
  <2>4. CASE i <= m /\ ~(j <= m)
    <3>1. s[i] \in ToSet(s)
      BY <1>1, <2>4 DEF ToSet
    <3>2. j - m \in DOMAIN t
      BY <1>1, <2>4
    <3>3. t[j - m] \in ToSet(t) /\ s[i] = t[j - m]
      BY <1>2, <2>1, <2>4, <3>2 DEF ToSet
    <3> QED BY <1>4, <3>1, <3>3
  <2>5. CASE ~(i <= m) /\ j <= m
    <3>1. s[j] \in ToSet(s)
      BY <1>1, <2>5 DEF ToSet
    <3>2. i - m \in DOMAIN t
      BY <1>1, <2>5
    <3>3. t[i - m] \in ToSet(t) /\ s[j] = t[i - m]
      BY <1>2, <2>1, <2>5, <3>2 DEF ToSet
    <3> QED BY <1>4, <3>1, <3>3
  <2> QED BY <2>2, <2>3, <2>4, <2>5
<1> QED BY <1>3, <1>4, ConcatProperties

-----------------------------------------------------------------------------
(* CameraPipeline: the inductive invariant *)

CameraPCs == {"push", "release"}
EncoderPCs == {"encode", "send", "release"}

\* A thread has one buffer at these places, and none elsewhere.
HoldsOneAt(t, pcs) ==
  IF t.pc \in pcs THEN \E b \in CameraBuffer : t.buffers = {b} ELSE t.buffers = {}

\* What runs at each stage of Start and Stop.
Stages ==
  /\ camera_started <=> streamer # "down"
  /\ encoder_stop <=> streamer # "up"
  /\ streamer \in {"down", "start_encoder", "drain", "camera_stop"} => encoder.pc = "off"
  /\ ~camera_started => camera = {} /\ cancelled = {} /\ callback = Idle
  /\ camera_started => starts > 0

\* No buffer is of a later Start, and requestComplete holds one of this Start.
Holders ==
  /\ HoldsOneAt(callback, CameraPCs) /\ HoldsOneAt(encoder, EncoderPCs)
  /\ \A b \in callback.buffers : b.start = starts
  /\ \A b \in HeldBuffers : b.start <= starts

\* What Stop can leave behind: the encoder's queue was emptied, and requestComplete,
\* if it had passed the test before, may add one buffer.
LeftBehind ==
  /\ streamer = "camera_stop" =>
       /\ \A b \in HeldBuffers : b.start = starts
       /\ Len(encode_queue) <= 1 /\ (callback.pc = "push" => encode_queue = <<>>)
  /\ streamer = "down" => Len(encode_queue) <= 1

CameraInv ==
  CameraTypeOK /\ OneHolder /\ DownstreamBalanced /\ Stages /\ Holders /\ LeftBehind

\* The parts of it that say who may do what, whatever the buffers.
CameraControl == CameraTypeOK /\ DownstreamBalanced /\ Stages

LEMMA CameraInitInv == CameraInit => CameraInv
<1> SUFFICES ASSUME CameraInit PROVE CameraInv
  OBVIOUS
<1> USE CameraAssumption DEF CameraInit, Holding, Idle
<1>1. CameraTypeOK
  <2>1. encode_queue \in Seq(CameraBuffer)
    BY EmptySeq
  <2>2. /\ callback \in [pc : {"idle", "push", "release"}, buffers : SUBSET CameraBuffer]
        /\ encoder \in [pc : {"off", "check", "waiting", "encode", "send", "release"},
                        buffers : SUBSET CameraBuffer]
    OBVIOUS
  <2>3. camera_started \in BOOLEAN /\ encoder_stop \in BOOLEAN
    OBVIOUS
  <2>4. starts \in 0 .. MaxStarts /\ downstream \in 0 .. Downstream /\ sending \in 0 .. Downstream
    OBVIOUS
  <2> QED BY <2>1, <2>2, <2>3, <2>4 DEF CameraTypeOK
<1>2. DownstreamBalanced /\ Stages
  BY DEF DownstreamBalanced, Stages
<1>3. HeldBuffers = {} /\ Len(encode_queue) = 0
  BY DEF HeldBuffers, Queued
<1>4. OneHolder
  BY <1>3 DEF OneHolder, HeldBuffers
<1>5. Holders /\ LeftBehind
  BY <1>3 DEF Holders, HoldsOneAt, CameraPCs, EncoderPCs, LeftBehind
<1> QED BY <1>1, <1>2, <1>4, <1>5 DEF CameraInv

\* Who is where, step by step.
LEMMA CameraControlStep == CameraInv /\ [CameraNext]_camera_vars => CameraControl'
<1> SUFFICES ASSUME CameraInv, [CameraNext]_camera_vars PROVE CameraControl'
  OBVIOUS
<1> USE CameraAssumption DEF CameraInv, CameraControl, Holding, Idle, cam, out
<1>1. ASSUME NEW r \in Request, RequestComplete(r) PROVE CameraControl'
  <2>1. Buf(r) \in CameraBuffer
    BY <1>1 DEF RequestComplete, CameraTypeOK, Stages, Buf, CameraBuffer
  <2> QED BY <1>1, <2>1 DEF RequestComplete, CameraTypeOK, DownstreamBalanced, Stages
<1>2. ASSUME NEW r \in Request, RequestCancelled(r) PROVE CameraControl'
  BY <1>2 DEF RequestCancelled, CameraTypeOK, DownstreamBalanced, Stages
<1>3. CASE PushBuffer
  BY <1>3, AppendProperties
     DEF PushBuffer, EncoderNotified, CameraTypeOK, DownstreamBalanced, Stages
<1>4. CASE CallbackRelease
  BY <1>4 DEF CallbackRelease, QueueRequest, CameraBuffer, CameraTypeOK, DownstreamBalanced, Stages
<1>5. CASE CheckQueue
  BY <1>5, HeadTailProperties DEF CheckQueue, CameraTypeOK, DownstreamBalanced, Stages
<1>6. CASE EncodeBuffer
  BY <1>6 DEF EncodeBuffer, NoDownstream, CameraTypeOK, DownstreamBalanced, Stages
<1>7. CASE Send
  BY <1>7 DEF Send, CameraTypeOK, DownstreamBalanced, Stages
<1>8. CASE WorkerRelease
  BY <1>8 DEF WorkerRelease, QueueRequest, CameraBuffer, CameraTypeOK, DownstreamBalanced, Stages
<1>9. CASE Sent
  BY <1>9 DEF Sent, CameraTypeOK, DownstreamBalanced, Stages
<1>10. CASE StartCamera
  BY <1>10 DEF StartCamera, CameraTypeOK, DownstreamBalanced, Stages
<1>11. CASE StartEncoder
  BY <1>11 DEF StartEncoder, CameraTypeOK, DownstreamBalanced, Stages
<1>12. CASE StopEncoder
  BY <1>12 DEF StopEncoder, Woken, EncoderNotified, CameraTypeOK, DownstreamBalanced, Stages
<1>13. CASE JoinWorker
  BY <1>13 DEF JoinWorker, CameraTypeOK, DownstreamBalanced, Stages
<1>14. CASE DrainQueue
  <2>1. Head(encode_queue) \in CameraBuffer /\ Tail(encode_queue) \in Seq(CameraBuffer)
    BY <1>14, HeadTailProperties DEF DrainQueue, CameraTypeOK
  <2>2. Head(encode_queue).request \in Request
    BY <2>1 DEF CameraBuffer
  <2> QED BY <1>14, <2>1, <2>2
          DEF DrainQueue, QueueRequest, CameraTypeOK, DownstreamBalanced, Stages
<1>15. CASE StopCamera
  BY <1>15 DEF StopCamera, CameraTypeOK, DownstreamBalanced, Stages
<1>16. CASE CameraStopped
  BY <1>16 DEF CameraStopped, CameraTypeOK, DownstreamBalanced, Stages
<1>17. CASE UNCHANGED camera_vars
  BY <1>17 DEF camera_vars, CameraTypeOK, DownstreamBalanced, Stages
<1> QED BY <1>1, <1>2, <1>3, <1>4, <1>5, <1>6, <1>7, <1>8, <1>9, <1>10, <1>11, <1>12, <1>13,
           <1>14, <1>15, <1>16, <1>17
        DEF CameraNext, Callback, Encoder, Stopping

\* Each thread holds one buffer or none.
LEMMA HoldsOneStep ==
  CameraInv /\ [CameraNext]_camera_vars =>
    HoldsOneAt(callback, CameraPCs)' /\ HoldsOneAt(encoder, EncoderPCs)'
<1> SUFFICES ASSUME CameraInv, [CameraNext]_camera_vars
             PROVE HoldsOneAt(callback', CameraPCs) /\ HoldsOneAt(encoder', EncoderPCs)
  BY DEF HoldsOneAt
<1> USE DEF CameraInv, Holders, HoldsOneAt, CameraPCs, EncoderPCs, Holding, Idle, cam, out
<1>1. ASSUME NEW r \in Request, RequestComplete(r)
      PROVE HoldsOneAt(callback', CameraPCs) /\ HoldsOneAt(encoder', EncoderPCs)
  <2>1. Buf(r) \in CameraBuffer
    BY <1>1 DEF RequestComplete, CameraTypeOK, Stages, Buf, CameraBuffer
  <2> QED BY <1>1, <2>1 DEF RequestComplete
<1>2. ASSUME NEW r \in Request, RequestCancelled(r)
      PROVE HoldsOneAt(callback', CameraPCs) /\ HoldsOneAt(encoder', EncoderPCs)
  BY <1>2 DEF RequestCancelled
<1>3. CASE PushBuffer \/ CallbackRelease
  BY <1>3 DEF PushBuffer, CallbackRelease, EncoderNotified
<1>4. CASE CheckQueue
  <2>1. encode_queue # <<>> => Head(encode_queue) \in CameraBuffer
    BY HeadTailProperties DEF CameraTypeOK
  <2> QED BY <1>4, <2>1 DEF CheckQueue
<1>5. CASE EncodeBuffer \/ Send \/ WorkerRelease \/ Sent
  BY <1>5 DEF EncodeBuffer, NoDownstream, Send, WorkerRelease, Sent
<1>6. CASE StartCamera \/ StartEncoder \/ StopEncoder
  BY <1>6 DEF StartCamera, StartEncoder, StopEncoder, Woken, EncoderNotified
<1>7. CASE Stopping
  BY <1>7 DEF Stopping, JoinWorker, DrainQueue, StopCamera, CameraStopped
<1>8. CASE UNCHANGED camera_vars
  BY <1>8 DEF camera_vars
<1> QED BY <1>1, <1>2, <1>3, <1>4, <1>5, <1>6, <1>7, <1>8
        DEF CameraNext, Callback, Encoder

\* OneHolder in two parts.  No two holders have the same buffer:
Apart ==
  /\ IsInjective(encode_queue)
  /\ Queued \intersect callback.buffers = {} /\ Queued \intersect encoder.buffers = {}
  /\ callback.buffers \intersect encoder.buffers = {}

\* and every request is in one place, wherever the buffers are held.
Cycle ==
  /\ camera_buffers = {b \in HeldBuffers : b.start = starts /\ camera_started}
  /\ \A b, c \in HeldBuffers : b \notin camera_buffers /\ c \notin camera_buffers => b = c
  /\ camera \intersect cancelled = {}
  /\ {b.request : b \in camera_buffers} \intersect (camera \union cancelled) = {}
  /\ camera_started => {b.request : b \in camera_buffers} \union camera \union cancelled = Request

LEMMA OneHolderParts == (OneHolder <=> Apart /\ Cycle) /\ (OneHolder' <=> Apart' /\ Cycle')
BY DEF OneHolder, Apart, Cycle, IsInjective

LEMMA QueuedElements == Queued = ToSet(encode_queue) /\ Queued' = ToSet(encode_queue')
BY DEF Queued, ToSet

\* A buffer that is held is a buffer.
LEMMA HeldAreBuffers == CameraInv => HeldBuffers \subseteq CameraBuffer
<1> SUFFICES ASSUME CameraInv PROVE HeldBuffers \subseteq CameraBuffer
  OBVIOUS
<1>1. Queued \subseteq CameraBuffer
  BY QueuedElements, ElementsInRange DEF CameraInv, CameraTypeOK
<1> QED BY <1>1 DEF CameraInv, CameraTypeOK, HeldBuffers

\* The buffers of this Start are known by their requests.
LEMMA KnownByRequest ==
  CameraInv => \A b, c \in camera_buffers : b.request = c.request => b = c
<1> SUFFICES ASSUME CameraInv, NEW b \in camera_buffers, NEW c \in camera_buffers,
                    b.request = c.request
             PROVE b = c
  OBVIOUS
<1>1. b \in CameraBuffer /\ c \in CameraBuffer /\ b.start = starts /\ c.start = starts
  BY OneHolderParts, HeldAreBuffers DEF CameraInv, Cycle
<1>2. \A x \in CameraBuffer : x = [start |-> x.start, request |-> x.request]
  BY DEF CameraBuffer
<1> QED BY <1>1, <1>2

\* A step that moves buffers between holders, or a request from camera to cancelled.
LEMMA CycleKept ==
  ASSUME CameraInv, HeldBuffers' = HeldBuffers,
         UNCHANGED <<camera_started, starts, camera_buffers>>,
         (camera \union cancelled)' = camera \union cancelled,
         (camera \intersect cancelled)' = {}
  PROVE Cycle'
BY OneHolderParts DEF CameraInv, Cycle

\* A step that gives a buffer back.
LEMMA CycleGivenBack ==
  ASSUME CameraInv, camera_started, NEW b \in HeldBuffers, QueueRequest(b),
         HeldBuffers' = HeldBuffers \ {b}
  PROVE Cycle'
<1> DEFINE Requests(bs) == {x.request : x \in bs}
<1>1. Cycle
  BY OneHolderParts DEF CameraInv
<1>2. /\ camera_buffers' = camera_buffers \ {b}
      /\ camera' = IF b \in camera_buffers THEN camera \union {b.request} ELSE camera
      /\ UNCHANGED <<camera_started, starts, cancelled>>
  BY DEF QueueRequest, Found
<1>3. camera_buffers' = {x \in HeldBuffers' : x.start = starts' /\ camera_started'}
  BY <1>1, <1>2 DEF Cycle
<1>4. \A x, y \in HeldBuffers' : x \notin camera_buffers' /\ y \notin camera_buffers' => x = y
  BY <1>1, <1>2 DEF Cycle
<1>5. CASE b \in camera_buffers
  <2>1. Requests(camera_buffers') = Requests(camera_buffers) \ {b.request}
    BY <1>2, <1>5, KnownByRequest
  <2>2. b.request \in Requests(camera_buffers)
    BY <1>5
  <2>3. /\ camera' = camera \union {b.request} /\ cancelled' = cancelled
        /\ camera_started' = camera_started
    BY <1>2, <1>5
  <2>4. /\ camera \intersect cancelled = {}
        /\ Requests(camera_buffers) \intersect (camera \union cancelled) = {}
        /\ Requests(camera_buffers) \union camera \union cancelled = Request
    BY <1>1 DEF Cycle
  <2> HIDE DEF Requests
  <2>5. /\ camera' \intersect cancelled' = {}
        /\ Requests(camera_buffers') \intersect (camera' \union cancelled') = {}
        /\ Requests(camera_buffers') \union camera' \union cancelled' = Request
    BY <2>1, <2>2, <2>3, <2>4
  <2> QED BY <1>3, <1>4, <2>5 DEF Cycle, Requests
<1>6. CASE b \notin camera_buffers
  <2>1. camera_buffers' = camera_buffers /\ camera' = camera
    BY <1>2, <1>6
  <2> QED BY <1>1, <1>2, <1>3, <1>4, <2>1 DEF Cycle
<1> QED BY <1>5, <1>6

\* Where the buffers are, step by step.  Most steps leave them where they are.
LEMMA QuietSteps ==
  ASSUME CameraInv,
         \/ EncodeBuffer \/ Send \/ Sent \/ StartEncoder \/ StopEncoder \/ JoinWorker
         \/ StopCamera \/ UNCHANGED camera_vars
  PROVE /\ encoder.buffers' = encoder.buffers /\ callback' = callback
        /\ encode_queue' = encode_queue /\ UNCHANGED cam
<1> USE DEF CameraInv, Holding, cam
<1>1. CASE EncodeBuffer \/ Send \/ Sent
  BY <1>1 DEF EncodeBuffer, NoDownstream, Send, Sent
<1>2. CASE StartEncoder
  BY <1>2 DEF StartEncoder, Stages, Holders, HoldsOneAt, EncoderPCs
<1>3. CASE StopEncoder
  BY <1>3 DEF StopEncoder, Woken, EncoderNotified, Holders, HoldsOneAt, EncoderPCs
<1>4. CASE JoinWorker \/ StopCamera \/ UNCHANGED camera_vars
  BY <1>4 DEF JoinWorker, StopCamera, camera_vars
<1> QED BY <1>1, <1>2, <1>3, <1>4

LEMMA QuietHolders ==
  ASSUME CameraInv, encoder.buffers' = encoder.buffers, callback' = callback,
         encode_queue' = encode_queue,
         UNCHANGED <<camera_started, starts, camera_buffers>>,
         (camera \union cancelled)' = camera \union cancelled,
         (camera \intersect cancelled)' = {}
  PROVE OneHolder' /\ HeldBuffers' = HeldBuffers
<1>1. Queued' = Queued /\ HeldBuffers' = HeldBuffers
  BY DEF Queued, HeldBuffers
<1>2. Apart'
  BY <1>1, OneHolderParts DEF CameraInv, Apart
<1>3. Cycle'
  BY <1>1, CycleKept
<1> QED BY <1>1, <1>2, <1>3, OneHolderParts

\* requestComplete takes a buffer that nobody holds.
LEMMA CompleteHolders ==
  ASSUME CameraInv, NEW r \in Request, RequestComplete(r)
  PROVE OneHolder' /\ HeldBuffers' = HeldBuffers \union {Buf(r)}
<1> DEFINE Requests(bs) == {x.request : x \in bs}
<1>1. Apart /\ Cycle
  BY OneHolderParts DEF CameraInv
<1>2. /\ r \in camera /\ camera_started /\ callback.buffers = {}
      /\ camera' = camera \ {r} /\ camera_buffers' = camera_buffers \union {Buf(r)}
      /\ callback'.buffers = {Buf(r)}
      /\ UNCHANGED <<camera_started, starts, cancelled, encode_queue, encoder>>
  BY DEF RequestComplete, CameraInv, Stages, Idle, Holding
<1>3. Buf(r).start = starts /\ Buf(r).request = r
  BY DEF Buf
<1>4. Buf(r) \notin HeldBuffers
  <2>1. r \notin Requests(camera_buffers)
    BY <1>1, <1>2 DEF Cycle
  <2> QED BY <1>1, <1>2, <1>3, <2>1 DEF Cycle
<1>5. Queued' = Queued /\ HeldBuffers' = HeldBuffers \union {Buf(r)}
  BY <1>2 DEF Queued, HeldBuffers
<1>6. Apart'
  BY <1>1, <1>2, <1>4, <1>5 DEF Apart, HeldBuffers
<1>7. Cycle'
  <2>1. camera_buffers' = {b \in HeldBuffers' : b.start = starts' /\ camera_started'}
    BY <1>1, <1>2, <1>3, <1>5 DEF Cycle
  <2>2. \A b, c \in HeldBuffers' : b \notin camera_buffers' /\ c \notin camera_buffers' => b = c
    BY <1>1, <1>2, <1>5 DEF Cycle
  <2>3. Requests(camera_buffers') = Requests(camera_buffers) \union {r}
    BY <1>2, <1>3
  <2>4. /\ camera \intersect cancelled = {}
        /\ Requests(camera_buffers) \intersect (camera \union cancelled) = {}
        /\ Requests(camera_buffers) \union camera \union cancelled = Request
    BY <1>1, <1>2 DEF Cycle
  <2> HIDE DEF Requests
  <2>5. /\ camera' \intersect cancelled' = {}
        /\ Requests(camera_buffers') \intersect (camera' \union cancelled') = {}
        /\ Requests(camera_buffers') \union camera' \union cancelled' = Request
    BY <1>2, <2>3, <2>4
  <2> QED BY <2>1, <2>2, <2>5 DEF Cycle, Requests
<1> QED BY <1>5, <1>6, <1>7, OneHolderParts

\* From libcamera's thread to the queue.
LEMMA PushHolders ==
  ASSUME CameraInv, PushBuffer
  PROVE OneHolder' /\ HeldBuffers' = HeldBuffers
<1>1. Apart /\ Cycle
  BY OneHolderParts DEF CameraInv
<1>2. PICK b \in CameraBuffer : callback.buffers = {b}
  BY DEF PushBuffer, CameraInv, Holders, HoldsOneAt, CameraPCs
<1>3. /\ encode_queue' = Append(encode_queue, b) /\ callback'.buffers = {}
      /\ encoder'.buffers = encoder.buffers /\ UNCHANGED cam
  BY <1>2 DEF PushBuffer, Idle, EncoderNotified, Holding, CameraInv, Holders, HoldsOneAt, EncoderPCs
<1>4. Queued' = Queued \union {b} /\ (IsInjective(encode_queue) /\ b \notin Queued =>
                                        IsInjective(encode_queue'))
  BY <1>3, QueuedElements, AppendElements DEF CameraInv, CameraTypeOK
<1>5. HeldBuffers' = HeldBuffers
  BY <1>2, <1>3, <1>4 DEF HeldBuffers
<1>6. Apart'
  BY <1>1, <1>2, <1>3, <1>4 DEF Apart
<1>7. Cycle'
  BY <1>1, <1>3, <1>5, CycleKept DEF cam, Cycle
<1> QED BY <1>5, <1>6, <1>7, OneHolderParts

\* From the queue to the encoder's thread, if there is one to take.
LEMMA CheckHolders ==
  ASSUME CameraInv, CheckQueue
  PROVE OneHolder' /\ HeldBuffers' = HeldBuffers
<1>1. Apart /\ Cycle /\ encoder.buffers = {} /\ callback' = callback /\ UNCHANGED cam
  BY OneHolderParts DEF CameraInv, CheckQueue, Holders, HoldsOneAt, EncoderPCs
<1>2. CASE encoder'.buffers = {} /\ encode_queue' = encode_queue
  <2>1. Queued' = Queued /\ HeldBuffers' = HeldBuffers
    BY <1>1, <1>2 DEF Queued, HeldBuffers
  <2>2. Apart'
    BY <1>1, <1>2, <2>1 DEF Apart
  <2>3. Cycle'
    BY <1>1, <2>1, CycleKept DEF cam, Cycle
  <2> QED BY <2>1, <2>2, <2>3, OneHolderParts
<1>3. CASE /\ encode_queue # <<>> /\ encoder'.buffers = {Head(encode_queue)}
           /\ encode_queue' = Tail(encode_queue)
  <2> DEFINE b == Head(encode_queue)
  <2>1. Queued = {b} \union Queued' /\ IsInjective(encode_queue') /\ b \notin Queued'
    BY <1>1, <1>3, QueuedElements, TailElements DEF CameraInv, CameraTypeOK, Apart
  <2>2. HeldBuffers' = HeldBuffers
    BY <1>1, <1>3, <2>1 DEF HeldBuffers
  <2>3. Apart'
    BY <1>1, <1>3, <2>1 DEF Apart
  <2>4. Cycle'
    BY <1>1, <2>2, CycleKept DEF cam, Cycle
  <2> QED BY <2>2, <2>3, <2>4, OneHolderParts
<1> QED BY <1>2, <1>3 DEF CheckQueue, Holding

\* A buffer that a thread or the queue gives back is held no more.
LEMMA ReleaseHolders ==
  ASSUME CameraInv, CallbackRelease \/ WorkerRelease \/ DrainQueue
  PROVE OneHolder' /\ \E b \in HeldBuffers : HeldBuffers' = HeldBuffers \ {b}
<1>1. Apart /\ Cycle
  BY OneHolderParts DEF CameraInv
<1>2. camera_started
  BY DEF CameraInv, Stages, CallbackRelease, WorkerRelease, DrainQueue, Idle, Holding
<1> SUFFICES \E b \in HeldBuffers :
               QueueRequest(b) /\ HeldBuffers' = HeldBuffers \ {b} /\ Apart'
  BY <1>2, CycleGivenBack, OneHolderParts
<1>3. CASE CallbackRelease
  <2>1. PICK b \in CameraBuffer : callback.buffers = {b}
    BY <1>3 DEF CallbackRelease, CameraInv, Holders, HoldsOneAt, CameraPCs
  <2>2. QueueRequest(b) /\ callback'.buffers = {} /\ UNCHANGED <<encode_queue, encoder>>
    BY <1>3, <2>1 DEF CallbackRelease, Idle, Holding
  <2>3. Queued' = Queued
    BY <2>2 DEF Queued
  <2> QED BY <1>1, <2>1, <2>2, <2>3 DEF Apart, HeldBuffers
<1>4. CASE WorkerRelease
  <2>1. PICK b \in CameraBuffer : encoder.buffers = {b}
    BY <1>4 DEF WorkerRelease, CameraInv, Holders, HoldsOneAt, EncoderPCs
  <2>2. QueueRequest(b) /\ encoder'.buffers = {} /\ UNCHANGED <<encode_queue, callback>>
    BY <1>4, <2>1 DEF WorkerRelease, Holding
  <2>3. Queued' = Queued
    BY <2>2 DEF Queued
  <2> QED BY <1>1, <2>1, <2>2, <2>3 DEF Apart, HeldBuffers
<1>5. CASE DrainQueue
  <2> DEFINE b == Head(encode_queue)
  <2>1. /\ QueueRequest(b) /\ encode_queue' = Tail(encode_queue) /\ encode_queue # <<>>
        /\ UNCHANGED <<callback, encoder>>
    BY <1>5 DEF DrainQueue
  <2>2. Queued = {b} \union Queued' /\ IsInjective(encode_queue') /\ b \notin Queued'
    BY <1>1, <2>1, QueuedElements, TailElements DEF CameraInv, CameraTypeOK, Apart
  <2> QED BY <1>1, <2>1, <2>2 DEF Apart, HeldBuffers
<1> QED BY <1>3, <1>4, <1>5

\* A new Start: what is held is left over from an earlier one.
LEMMA StartHolders ==
  ASSUME CameraInv, StartCamera
  PROVE /\ OneHolder' /\ HeldBuffers' = HeldBuffers
        /\ callback.buffers = {} /\ UNCHANGED <<callback, encode_queue>>
<1>1. /\ ~camera_started /\ callback.buffers = {} /\ starts \in Nat
      /\ starts' = starts + 1 /\ camera_started' /\ camera' = Request /\ cancelled' = {}
      /\ UNCHANGED <<camera_buffers, callback, encode_queue, encoder>>
  BY DEF CameraInv, CameraTypeOK, Stages, StartCamera, Idle, Holding
<1>2. Apart /\ Cycle
  BY OneHolderParts DEF CameraInv
<1>3. Queued' = Queued /\ HeldBuffers' = HeldBuffers
  BY <1>1 DEF Queued, HeldBuffers
<1>4. \A b \in HeldBuffers : b.start \in Nat /\ b.start <= starts
  BY HeldAreBuffers DEF CameraInv, Holders, CameraBuffer
<1>5. camera_buffers = {}
  BY <1>1, <1>2 DEF Cycle
<1>6. \A b \in HeldBuffers' : b.start # starts'
  BY <1>1, <1>3, <1>4
<1>7. Cycle'
  BY <1>1, <1>2, <1>3, <1>5, <1>6 DEF Cycle
<1>8. Apart'
  BY <1>1, <1>2, <1>3 DEF Apart
<1> QED BY <1>1, <1>3, <1>7, <1>8, OneHolderParts

\* Once the camera is stopped, what is held is in the queue, and is one at most.
LEMMA StoppedHolders ==
  ASSUME CameraInv, CameraStopped
  PROVE OneHolder' /\ HeldBuffers' = HeldBuffers /\ UNCHANGED <<callback, encode_queue, starts>>
<1>1. /\ camera_started' = FALSE /\ camera' = {} /\ cancelled' = {} /\ camera_buffers' = {}
      /\ callback.buffers = {} /\ encoder.buffers = {}
      /\ UNCHANGED <<callback, encode_queue, encoder, starts>>
  BY DEF CameraStopped, CameraInv, Stages, Holders, HoldsOneAt, EncoderPCs, Idle, Holding
<1>2. Apart
  BY OneHolderParts DEF CameraInv
<1>3. Queued' = Queued /\ HeldBuffers' = Queued /\ HeldBuffers = Queued
  BY <1>1 DEF Queued, HeldBuffers
<1>4. \A b, c \in Queued : b = c
  <2>1. /\ Len(encode_queue) \in Nat /\ Len(encode_queue) <= 1
        /\ DOMAIN encode_queue = 1 .. Len(encode_queue)
    BY LenProperties DEF CameraInv, LeftBehind, CameraStopped, CameraTypeOK
  <2>2. \A i, j \in DOMAIN encode_queue : i = j
    BY <2>1
  <2> QED BY <2>2 DEF Queued
<1>5. Cycle'
  BY <1>1, <1>3, <1>4 DEF Cycle
<1>6. Apart'
  BY <1>1, <1>2, <1>3 DEF Apart
<1> QED BY <1>1, <1>3, <1>5, <1>6, OneHolderParts

\* Stop leaves no more behind than LeftBehind says, and makes nothing new.
LEMMA CameraInvStep == CameraInv /\ [CameraNext]_camera_vars => CameraInv'
<1> SUFFICES ASSUME CameraInv, [CameraNext]_camera_vars
             PROVE /\ OneHolder'
                   /\ \A b \in callback'.buffers : b.start = starts'
                   /\ \A b \in HeldBuffers' : b.start <= starts'
                   /\ LeftBehind'
  BY CameraControlStep, HoldsOneStep DEF CameraInv, CameraControl, Holders
<1> DEFINE Ages == /\ \A b \in callback'.buffers : b.start = starts'
                   /\ \A b \in HeldBuffers' : b.start <= starts'
           Goal == OneHolder' /\ Ages /\ LeftBehind'
<1>1. /\ \A b \in callback.buffers : b.start = starts
      /\ \A b \in HeldBuffers : b.start <= starts /\ b.start \in Nat
      /\ LeftBehind /\ starts \in Nat /\ encode_queue \in Seq(CameraBuffer)
  BY HeldAreBuffers DEF CameraInv, Holders, CameraTypeOK, CameraBuffer
<1>2. ASSUME \/ EncodeBuffer \/ Send \/ Sent \/ StartEncoder \/ StopEncoder \/ JoinWorker
             \/ StopCamera \/ UNCHANGED camera_vars
      PROVE Goal
  <2>1. /\ encoder.buffers' = encoder.buffers /\ callback' = callback
        /\ encode_queue' = encode_queue /\ UNCHANGED cam
    BY <1>2, QuietSteps
  <2>2. OneHolder' /\ HeldBuffers' = HeldBuffers
    BY <2>1, QuietHolders DEF cam, CameraInv, OneHolder
  <2>3. Ages
    BY <1>1, <2>1, <2>2 DEF cam
  <2>4. CASE StopCamera
    <3>1. encode_queue = <<>> /\ encoder.buffers = {}
      BY <2>4 DEF StopCamera, CameraInv, Stages, Holders, HoldsOneAt, EncoderPCs
    <3>2. HeldBuffers = callback.buffers
      BY <3>1 DEF HeldBuffers, Queued
    <3>3. Len(encode_queue') <= 1
      BY <2>1, <3>1
    <3> QED BY <1>1, <2>1, <2>2, <2>3, <2>4, <3>1, <3>2, <3>3 DEF LeftBehind, StopCamera, cam
  <2>5. CASE streamer' = streamer
    BY <1>1, <2>1, <2>2, <2>3, <2>5 DEF LeftBehind, cam
  <2>6. CASE streamer' \in {"up", "join", "drain"}
    BY <2>2, <2>3, <2>6 DEF LeftBehind
  <2> QED BY <1>2, <2>4, <2>5, <2>6
          DEF EncodeBuffer, Send, Sent, StartEncoder, StopEncoder, JoinWorker, camera_vars
<1>3. ASSUME NEW r \in Request, RequestComplete(r) PROVE Goal
  <2>1. OneHolder' /\ HeldBuffers' = HeldBuffers \union {Buf(r)}
    BY <1>3, CompleteHolders
  <2>2. Buf(r).start = starts /\ callback'.buffers = {Buf(r)}
    BY <1>3 DEF RequestComplete, Buf, Holding
  <2>3. /\ UNCHANGED <<starts, streamer, encode_queue>>
        /\ streamer = "camera_stop" => callback'.pc # "push"
    BY <1>3 DEF RequestComplete, CameraInv, Stages, Holding
  <2> QED BY <1>1, <2>1, <2>2, <2>3 DEF LeftBehind
<1>4. ASSUME NEW r \in Request, RequestCancelled(r) PROVE Goal
  <2>1. UNCHANGED <<camera_started, starts, camera_buffers, callback, encode_queue, encoder,
                    streamer>>
    BY <1>4 DEF RequestCancelled, out
  <2>2. OneHolder
    BY DEF CameraInv
  <2>3. /\ (camera \union cancelled)' = camera \union cancelled
        /\ (camera \intersect cancelled)' = {}
    BY <1>4, <2>2 DEF RequestCancelled, OneHolder
  <2>4. OneHolder' /\ HeldBuffers' = HeldBuffers
    BY <2>1, <2>3, QuietHolders
  <2> QED BY <1>1, <2>1, <2>4 DEF LeftBehind
<1>5. CASE PushBuffer
  <2>1. OneHolder' /\ HeldBuffers' = HeldBuffers
    BY <1>5, PushHolders
  <2>2. callback.pc = "push" /\ callback' = Idle /\ UNCHANGED <<starts, streamer>>
    BY <1>5 DEF PushBuffer, cam
  <2>3. PICK b \in CameraBuffer : encode_queue' = Append(encode_queue, b)
    BY <1>5 DEF PushBuffer, CameraInv, CameraTypeOK
  <2>4. streamer = "camera_stop" => Len(encode_queue') <= 1
    BY <1>1, <2>2, <2>3, AppendProperties DEF LeftBehind
  <2>5. streamer # "down"
    BY <2>2 DEF CameraInv, Stages, Idle, Holding
  <2> QED BY <1>1, <2>1, <2>2, <2>4, <2>5 DEF LeftBehind, Idle, Holding
<1>6. CASE CheckQueue
  <2>1. OneHolder' /\ HeldBuffers' = HeldBuffers
    BY <1>6, CheckHolders
  <2>2. UNCHANGED <<callback, starts, streamer>> /\ streamer \notin {"camera_stop", "down"}
    BY <1>6 DEF CheckQueue, cam, CameraInv, Stages
  <2> QED BY <1>1, <2>1, <2>2 DEF LeftBehind
<1>7. CASE CallbackRelease \/ WorkerRelease \/ DrainQueue
  <2>1. OneHolder' /\ \E b \in HeldBuffers : HeldBuffers' = HeldBuffers \ {b}
    BY <1>7, ReleaseHolders
  <2>2. UNCHANGED <<starts, streamer>> /\ streamer \notin {"camera_stop", "down"}
    BY <1>7 DEF CallbackRelease, WorkerRelease, DrainQueue, QueueRequest, StopLocked, CameraInv,
                Stages, Idle, Holding
  <2>3. callback'.buffers \subseteq callback.buffers
    BY <1>7 DEF CallbackRelease, WorkerRelease, DrainQueue, Idle, Holding
  <2> QED BY <1>1, <2>1, <2>2, <2>3 DEF LeftBehind
<1>8. CASE StartCamera
  <2>1. starts' = starts + 1 /\ streamer' = "start_encoder"
    BY <1>8 DEF StartCamera
  <2> QED BY <1>1, <1>8, <2>1, StartHolders DEF LeftBehind
<1>9. CASE CameraStopped
  <2>1. streamer = "camera_stop" /\ streamer' = "down"
    BY <1>9 DEF CameraStopped
  <2> QED BY <1>1, <1>9, <2>1, StoppedHolders DEF LeftBehind
<1> QED BY <1>2, <1>3, <1>4, <1>5, <1>6, <1>7, <1>8, <1>9
        DEF CameraNext, Callback, Encoder, Stopping

LEMMA CameraInvariant == CameraSpec => []CameraInv
BY CameraInitInv, CameraInvStep, PTL DEF CameraSpec

\* Whatever the camera, the encoder, the connection and Stop and Start do in between,
\* every request is with libcamera, given up, or with the one holder of its buffer
\* who alone can give it back, and no downstream buffer is lost.
THEOREM RequestsAreAccounted == CameraSpec => []RequestsAccounted
<1>1. CameraInv => RequestsAccounted
  BY DEF CameraInv, RequestsAccounted
<1> QED BY <1>1, CameraInvariant, PTL

-----------------------------------------------------------------------------
(* The back of a queue *)

LEMMA FrontElements ==
  ASSUME NEW S, NEW s \in Seq(S), s # <<>>
  PROVE /\ Front(s) \in Seq(S) /\ Last(s) \in S
        /\ ToSet(s) = ToSet(Front(s)) \union {Last(s)}
        /\ IsInjective(s) => IsInjective(Front(s)) /\ Last(s) \notin ToSet(Front(s))
<1> DEFINE n == Len(s)
<1>1. DOMAIN s = 1 .. n /\ n \in Nat \ {0} /\ \A i \in 1 .. n : s[i] \in S
  BY LenProperties, EmptySeq
<1> HIDE DEF n
<1>2. /\ Front(s) \in Seq(S) /\ DOMAIN Front(s) = 1 .. (n - 1)
      /\ \A i \in 1 .. (n - 1) : Front(s)[i] = s[i]
  <2>1. \A i \in 1 .. (n - 1) : s[i] \in S
    BY <1>1
  <2>2. /\ Front(s) \in Seq(S) /\ Len(Front(s)) = IF 1 <= n - 1 THEN n - 1 - 1 + 1 ELSE 0
        /\ \A i \in 1 .. (n - 1 - 1 + 1) : Front(s)[i] = s[1 + i - 1]
    BY <1>1, <2>1, SubSeqProperties DEF Front, n
  <2>3. Len(Front(s)) = n - 1 /\ DOMAIN Front(s) = 1 .. Len(Front(s))
    BY <1>1, <2>2, LenProperties
  <2> QED BY <1>1, <2>2, <2>3
<1>3. n \in DOMAIN s /\ Last(s) = s[n]
  BY <1>1 DEF Last, n
<1>4. ToSet(s) = ToSet(Front(s)) \union {Last(s)}
  <2>1. ASSUME NEW x \in ToSet(s) PROVE x \in ToSet(Front(s)) \union {Last(s)}
    <3>1. PICK i \in 1 .. n : x = s[i]
      BY <1>1 DEF ToSet
    <3>2. CASE i # n
      <4>1. i \in DOMAIN Front(s) /\ x = Front(s)[i]
        BY <1>1, <1>2, <3>1, <3>2
      <4> QED BY <4>1 DEF ToSet
    <3> QED BY <1>3, <3>1, <3>2
  <2>2. ToSet(Front(s)) \subseteq ToSet(s)
    <3>1. \A i \in 1 .. (n - 1) : i \in DOMAIN s
      BY <1>1
    <3> QED BY <1>2, <3>1 DEF ToSet
  <2>3. Last(s) \in ToSet(s)
    BY <1>3 DEF ToSet
  <2> QED BY <2>1, <2>2, <2>3
<1>5. ASSUME IsInjective(s) PROVE IsInjective(Front(s)) /\ Last(s) \notin ToSet(Front(s))
  <2>1. \A i \in 1 .. (n - 1) : i \in DOMAIN s /\ i # n
    BY <1>1
  <2> QED BY <1>2, <1>3, <1>5, <2>1 DEF IsInjective, ToSet
<1> QED BY <1>1, <1>2, <1>3, <1>4, <1>5

\* The last element stays the last when the front is taken, and is t's in s \o t.
LEMMA LastElements ==
  ASSUME NEW S, NEW s \in Seq(S), NEW t \in Seq(S)
  PROVE /\ s # <<>> => Last(s) \in ToSet(s)
        /\ s # <<>> /\ Tail(s) # <<>> => Last(Tail(s)) = Last(s)
        /\ t # <<>> => Last(s \o t) = Last(t)
        /\ t = <<>> => s \o t = s
        /\ s \o t = <<>> <=> s = <<>> /\ t = <<>>
<1>1. /\ Len(s) \in Nat /\ Len(t) \in Nat /\ DOMAIN s = 1 .. Len(s)
      /\ (s # <<>> => Len(s) > 0) /\ (t # <<>> => Len(t) > 0)
  BY LenProperties, EmptySeq
<1>2. s # <<>> => Last(s) \in ToSet(s)
  BY <1>1 DEF Last, ToSet
<1>3. s # <<>> /\ Tail(s) # <<>> => Last(Tail(s)) = Last(s)
  <2>1. s # <<>> => /\ Tail(s) \in Seq(S) /\ Len(Tail(s)) = Len(s) - 1
                    /\ \A i \in 1 .. Len(Tail(s)) : Tail(s)[i] = s[i + 1]
    BY HeadTailProperties
  <2>2. s # <<>> /\ Tail(s) # <<>> => Len(Tail(s)) \in 1 .. Len(Tail(s))
    BY <2>1, <1>1, EmptySeq
  <2> QED BY <1>1, <2>1, <2>2 DEF Last
<1>4. t # <<>> => Last(s \o t) = Last(t)
  BY <1>1, ConcatProperties DEF Last
<1> QED BY <1>2, <1>3, <1>4, ConcatEmptySeq, ConcatEqualIffEmpty

-----------------------------------------------------------------------------
(* PicturePipeline: the inductive invariant *)

WithFrame == {"decode", "fill", "post", "push"}
WithBuffer == {"fill", "post", "push"}

\* What the threads hold at each place.
ThreadsHold ==
  /\ worker.frame # 0 <=> worker.pc \in WithFrame
  /\ worker.buf # None <=> worker.pc \in WithBuffer
  /\ worker.buf # None => content[worker.buf] = worker.frame
  /\ render.data # None => render.pc = "draw" /\ render.shown = render.data
  /\ main = "new" => worker.pc = "off" /\ render.pc = "off"

\* Frames are numbered as they come: those that wait for the decoder are newer than
\* the one in work and than every image that waits to be drawn.
Newer ==
  /\ worker.frame <= frames
  /\ \A i \in DOMAIN work_queue : worker.frame < work_queue[i] /\ work_queue[i] <= frames
  /\ \A i, j \in DOMAIN work_queue : i < j => work_queue[i] < work_queue[j]
  /\ \A b \in ToSet(image_queue) :
       /\ content[b] <= frames
       /\ \A i \in DOMAIN work_queue : content[b] < work_queue[i]

\* Unless a buffer came back undrawn, the shown one is the last of the pool, so that
\* the pool is empty once it is taken.
ShownLast ==
  ~skipped /\ render.shown # None =>
    /\ render.shown \in ToSet(free) => Last(free) = render.shown
    /\ worker.pc = "fill" /\ worker.buf = render.shown => free = <<>>

\* Between two windows _is_display is set only when one was closed in RUNNING.
DisplayKept ==
  /\ main = "new" => ~is_display
  /\ is_display /\ render.pc = "setup" => closes > 0 \/ stop_running
  /\ is_display /\ render.pc = "window" => closes > 0

PictureInv == Accounted /\ ThreadsHold /\ DisplayKept /\ Newer /\ ShownLast

\* OnePlace, place by place.
Placed ==
  /\ ToSet(free) \union Held(worker.buf) \union ToSet(image_queue) \union Held(render.data)
       \union lost = Buffer
  /\ ToSet(free) \intersect (Held(worker.buf) \union ToSet(image_queue) \union Held(render.data)
       \union lost) = {}
  /\ Held(worker.buf) \intersect (ToSet(image_queue) \union Held(render.data) \union lost) = {}
  /\ ToSet(image_queue) \intersect (Held(render.data) \union lost) = {}
  /\ Held(render.data) \intersect lost = {}
  /\ IsInjective(free) /\ IsInjective(image_queue)

LEMMA FivePlaces ==
  ASSUME NEW A, NEW B, NEW C, NEW D, NEW E, NEW W
  PROVE LET places == <<A, B, C, D, E>>
        IN  /\ UNION ToSet(places) = A \union B \union C \union D \union E
            /\ (\A i, j \in DOMAIN places : i # j => places[i] \intersect places[j] = {})
                 <=> /\ A \intersect (B \union C \union D \union E) = {}
                     /\ B \intersect (C \union D \union E) = {}
                     /\ C \intersect (D \union E) = {} /\ D \intersect E = {}
<1> DEFINE places == <<A, B, C, D, E>>
<1>1. /\ DOMAIN places = 1 .. 5 /\ places[1] = A /\ places[2] = B /\ places[3] = C
      /\ places[4] = D /\ places[5] = E
  OBVIOUS
<1>2. 1 .. 5 = {1, 2, 3, 4, 5}
  OBVIOUS
<1>3. ToSet(places) = {A, B, C, D, E}
  BY <1>1, <1>2 DEF ToSet
<1>4. (\A i, j \in DOMAIN places : i # j => places[i] \intersect places[j] = {})
        <=> /\ A \intersect (B \union C \union D \union E) = {}
            /\ B \intersect (C \union D \union E) = {}
            /\ C \intersect (D \union E) = {} /\ D \intersect E = {}
  <2> HIDE DEF places
  <2>1. ASSUME \A i, j \in DOMAIN places : i # j => places[i] \intersect places[j] = {}
        PROVE /\ A \intersect B = {} /\ A \intersect C = {} /\ A \intersect D = {}
              /\ A \intersect E = {} /\ B \intersect C = {} /\ B \intersect D = {}
              /\ B \intersect E = {} /\ C \intersect D = {} /\ C \intersect E = {}
              /\ D \intersect E = {}
    <3>1. \A i, j \in {1, 2, 3, 4, 5} : i # j => places[i] \intersect places[j] = {}
      BY <1>1, <1>2, <2>1
    <3> QED BY <1>1, <3>1
  <2>2. ASSUME /\ A \intersect B = {} /\ A \intersect C = {} /\ A \intersect D = {}
               /\ A \intersect E = {} /\ B \intersect C = {} /\ B \intersect D = {}
               /\ B \intersect E = {} /\ C \intersect D = {} /\ C \intersect E = {}
               /\ D \intersect E = {}
        PROVE \A i, j \in {1, 2, 3, 4, 5} : i # j => places[i] \intersect places[j] = {}
    BY <1>1, <2>2
  <2> QED BY <1>1, <1>2, <2>1, <2>2
<1> QED BY <1>3, <1>4

LEMMA PlacedIsOnePlace == (OnePlace <=> Placed) /\ (OnePlace' <=> Placed')
BY FivePlaces DEF OnePlace, Placed

LEMMA PictureInit == Init => PictureInv
<1> SUFFICES ASSUME Init PROVE PictureInv
  OBVIOUS
<1> USE BoundsAssumption DEF Init, At, None
<1>1. /\ ToSet(image_queue) = {} /\ IsInjective(image_queue) /\ image_queue \in Seq(Buffer)
      /\ DOMAIN image_queue = {} /\ Len(image_queue) = 0
      /\ work_queue \in Seq(1 .. MaxFrames) /\ DOMAIN work_queue = {}
  BY ShortQueues, EmptySeq
<1>2. /\ free \in Seq(Buffer) /\ ToSet(free) = Buffer /\ IsInjective(free)
  <2>1. free = [i \in 1 .. Buffers |-> i]
    BY DEF Buffer
  <2>2. free \in Seq(Buffer)
    BY <2>1, IsASeq DEF Buffer
  <2> QED BY <2>1, <2>2 DEF ToSet, IsInjective, Buffer
<1>3. TypeOK
  <2>1. /\ worker \in [pc : {"off", "check", "waiting", "decode", "fill", "post", "push"},
                       frame : 0 .. MaxFrames, buf : Buffer \union {None}]
        /\ content \in [Buffer -> 0 .. MaxFrames] /\ lost \subseteq Buffer
    OBVIOUS
  <2>2. render \in [pc : {"off", "setup", "window", "turn", "leave", "drain", "draw"}, last_state : States,
                    data : Buffer \union {None}, shown : Buffer \union {None}]
    BY DEF States
  <2>3. /\ kind \in {"headset", "display"} /\ frames \in 0 .. MaxFrames /\ closes \in 0 .. MaxCloses
        /\ state \in States /\ main = "new"
    BY DEF States
  <2>4. /\ work_stop \in BOOLEAN /\ is_ready \in BOOLEAN /\ is_display \in BOOLEAN
        /\ stop_running \in BOOLEAN /\ skipped \in BOOLEAN
    OBVIOUS
  <2> QED BY <1>1, <1>2, <2>1, <2>2, <2>3, <2>4 DEF TypeOK
<1>4. OnePlace
  BY <1>1, <1>2, PlacedIsOnePlace DEF Placed, Held
<1>5. AtMostOneStraggler /\ InOrder /\ ThreadsHold
  BY <1>1 DEF AtMostOneStraggler, InOrder, ThreadsHold, WithFrame, WithBuffer
<1>6. DisplayKept /\ Newer /\ ShownLast
  BY <1>1 DEF DisplayKept, Newer, ShownLast
<1> QED BY <1>3, <1>4, <1>5, <1>6 DEF PictureInv, Accounted

WorkerType ==
  [pc : {"off", "check", "waiting", "decode", "fill", "post", "push"}, frame : 0 .. MaxFrames,
   buf : Buffer \union {None}]

RenderType ==
  [pc : {"off", "setup", "window", "turn", "leave", "drain", "draw"}, last_state : States,
   data : Buffer \union {None}, shown : Buffer \union {None}]

\* Types and what the threads hold, step by step.
LEMMA PictureTypesStep == PictureInv /\ [Next]_vars => TypeOK' /\ ThreadsHold'
<1> SUFFICES ASSUME PictureInv, [Next]_vars PROVE TypeOK' /\ ThreadsHold'
  OBVIOUS
<1> USE BoundsAssumption DEF PictureInv, Accounted, At, AtCheck, None, decoder, pool, flags, screen
<1>1. CASE PostJpegBuffer
  <2>1. work_queue' \in Seq(1 .. MaxFrames)
    BY <1>1, AppendProperties DEF PostJpegBuffer, TypeOK
  <2> QED BY <1>1, <2>1 DEF PostJpegBuffer, Notified, TypeOK, ThreadsHold, WithFrame, WithBuffer
<1>2. CASE Check
  <2>1. work_queue # <<>> =>
          Head(work_queue) \in 1 .. MaxFrames /\ Tail(work_queue) \in Seq(1 .. MaxFrames)
    BY HeadTailProperties DEF TypeOK
  <2>2. worker' \in WorkerType /\ work_queue' \in Seq(1 .. MaxFrames)
    <3>1. CASE work_stop \/ work_queue = <<>>
      BY <1>2, <3>1 DEF Check, TypeOK, WorkerType
    <3>2. CASE ~(work_stop \/ work_queue = <<>>)
      <4>1. /\ worker' = [pc |-> "decode", frame |-> Head(work_queue), buf |-> 0]
            /\ work_queue' = Tail(work_queue) /\ work_queue # <<>>
        BY <1>2, <3>2 DEF Check
      <4>2. Head(work_queue) \in 0 .. MaxFrames
        BY <2>1, <4>1
      <4> QED BY <2>1, <4>1, <4>2 DEF WorkerType
    <3> QED BY <3>1, <3>2
  <2>3. TypeOK'
    BY <1>2, <2>2 DEF Check, TypeOK, WorkerType
  <2>4. ThreadsHold'
    BY <1>2, <2>1 DEF Check, TypeOK, ThreadsHold, WithFrame, WithBuffer
  <2> QED BY <2>3, <2>4
<1>3. CASE DropFrame
  BY <1>3 DEF DropFrame, TypeOK, ThreadsHold, WithFrame, WithBuffer
<1>4. CASE TakeBuffer
  <2>1. Head(free) \in Buffer /\ Tail(free) \in Seq(Buffer)
    BY <1>4, HeadTailProperties DEF TakeBuffer, TypeOK
  <2>2. Head(free) # None
    BY <2>1 DEF Buffer
  <2> QED BY <1>4, <2>1, <2>2 DEF TakeBuffer, TypeOK, ThreadsHold, WithFrame, WithBuffer
<1>5. CASE Fill
  BY <1>5 DEF Fill, ErrorBuffer, TypeOK, ThreadsHold, WithFrame, WithBuffer
<1>6. CASE PostImage
  <2>1. worker.buf \in Buffer
    BY <1>6 DEF PostImage, TypeOK, ThreadsHold, WithBuffer
  <2>2. <<worker.buf>> \in Seq(Buffer)
    BY <2>1
  <2>3. free \o <<worker.buf>> \in Seq(Buffer)
    BY <2>2, ConcatProperties DEF TypeOK
  <2>4. worker' \in WorkerType /\ free' \in Seq(Buffer) /\ skipped' \in BOOLEAN
    <3>1. CASE Accepts
      BY <1>6, <3>1 DEF PostImage, TypeOK, WorkerType
    <3>2. CASE ~Accepts
      <4>1. /\ worker' = [pc |-> "check", frame |-> 0, buf |-> 0] /\ skipped' = TRUE
            /\ free' = free \o <<worker.buf>>
        BY <1>6, <3>2 DEF PostImage, Returned
      <4> QED BY <2>3, <4>1 DEF WorkerType
    <3> QED BY <3>1, <3>2
  <2>5. TypeOK'
    BY <1>6, <2>4 DEF PostImage, TypeOK, WorkerType
  <2>6. ThreadsHold'
    BY <1>6 DEF PostImage, TypeOK, ThreadsHold, WithFrame, WithBuffer
  <2> QED BY <2>5, <2>6
<1>7. CASE Push
  <2>1. worker.buf \in Buffer
    BY <1>7 DEF Push, TypeOK, ThreadsHold, WithBuffer
  <2>2. Append(image_queue, worker.buf) \in Seq(Buffer)
    BY <2>1, AppendProperties DEF TypeOK
  <2> QED BY <1>7, <2>2 DEF Push, TypeOK, ThreadsHold, WithFrame, WithBuffer
<1>8. ASSUME NEW s \in States, PostGraphicsHeadsetState(s) PROVE TypeOK' /\ ThreadsHold'
  BY <1>8 DEF PostGraphicsHeadsetState, TypeOK, ThreadsHold
<1>9. CASE Setup \/ WindowFails \/ Close \/ TurnDisplay
  <2>1. /\ UNCHANGED <<kind, frames, decoder, pool, state, is_display, stop_running, image_queue,
                       skipped, main>>
        /\ is_ready' \in BOOLEAN /\ closes' \in 0 .. MaxCloses
    <3>1. CASE Setup \/ WindowFails \/ TurnDisplay
      BY <3>1 DEF Setup, WindowFails, TurnDisplay, TypeOK
    <3>2. CASE Close
      <4>1. closes' \in 0 .. MaxCloses
        <5>1. closes \in 0 .. MaxCloses /\ (stop_running \/ closes < MaxCloses)
              /\ closes' = IF stop_running THEN closes ELSE closes + 1
          BY <3>2 DEF Close, TypeOK
        <5> QED BY <5>1
      <4> QED BY <3>2, <4>1 DEF Close
    <3> QED BY <1>9, <3>1, <3>2
  <2>2. \E pc \in {"off", "setup", "window", "turn", "leave", "drain", "draw"} :
          render' = [render EXCEPT !.pc = pc]
    BY <1>9 DEF Setup, WindowFails, Close, TurnDisplay
  <2>3. main # "new"
    BY <1>9 DEF Setup, WindowFails, Close, TurnDisplay, ThreadsHold
  <2>4. render.data = None
    BY <1>9 DEF Setup, WindowFails, Close, TurnDisplay, ThreadsHold
  <2>5. render' \in RenderType /\ render'.data = None
    BY <2>2, <2>4 DEF RenderType, TypeOK
  <2>6. TypeOK'
    BY <2>1, <2>5 DEF TypeOK, RenderType
  <2> QED BY <2>1, <2>5, <2>6, <2>3 DEF ThreadsHold
<1>10. CASE Window
  <2>1. render' \in RenderType /\ render'.data = None
    BY <1>10 DEF Window, TypeOK, RenderType, States, ThreadsHold
  <2>2. TypeOK'
    BY <1>10, <2>1 DEF Window, TypeOK, RenderType
  <2> QED BY <1>10, <2>1, <2>2 DEF Window, ThreadsHold
<1>11. free \o image_queue \in Seq(Buffer) /\ <<>> \in Seq(Buffer)
  BY ConcatProperties, EmptySeq DEF TypeOK
<1>12. CASE TurnHeadset
  <2>1. render' \in RenderType /\ render'.data = None
    BY <1>12 DEF TurnHeadset, TypeOK, RenderType, ThreadsHold
  <2>2. /\ is_display' \in BOOLEAN
        /\ UNCHANGED <<kind, frames, decoder, pool, state, is_ready, stop_running, image_queue,
                       closes, skipped, main>>
    BY <1>12 DEF TurnHeadset, TypeOK
  <2>3. TypeOK'
    BY <2>1, <2>2 DEF TypeOK, RenderType
  <2> QED BY <1>12, <2>1, <2>2, <2>3 DEF TurnHeadset, ThreadsHold
<1>20. CASE Leave
  <2>1. render' \in RenderType /\ render'.data = None
    BY <1>20 DEF Leave, TypeOK, RenderType, ThreadsHold
  <2>2. /\ skipped' \in BOOLEAN /\ image_queue' \in Seq(Buffer) /\ free' \in Seq(Buffer)
        /\ UNCHANGED <<kind, frames, decoder, lost, content, state, flags, closes, main>>
    BY <1>11, <1>20 DEF Leave, Leaving, EmptyImages, Returned, TypeOK
  <2>3. TypeOK'
    BY <2>1, <2>2 DEF TypeOK, RenderType
  <2> QED BY <1>20, <2>1, <2>2, <2>3 DEF Leave, ThreadsHold
<1>13. CASE Drain
  <2>1. image_queue # <<>> =>
          /\ Last(image_queue) \in Buffer /\ free \o Front(image_queue) \in Seq(Buffer)
    BY FrontElements, ConcatProperties DEF TypeOK
  <2>2. /\ skipped' \in BOOLEAN /\ image_queue' \in Seq(Buffer) /\ free' \in Seq(Buffer)
        /\ UNCHANGED <<kind, frames, decoder, lost, content, state, flags, closes, main>>
    BY <1>11, <1>13, <2>1 DEF Drain, Returned, TypeOK
  <2>3. render' \in RenderType
    BY <1>13, <2>1 DEF Drain, TypeOK, RenderType
  <2>4. render'.data # None => render'.pc = "draw" /\ render'.shown = render'.data
    BY <1>13 DEF Drain, TypeOK, ThreadsHold
  <2>5. TypeOK'
    BY <2>2, <2>3 DEF TypeOK, RenderType
  <2> QED BY <1>13, <2>2, <2>4, <2>5 DEF Drain, ThreadsHold
<1>14. CASE Draw
  <2>1. (IF render.data = None THEN <<>> ELSE <<render.data>>) \in Seq(Buffer)
    BY <1>11 DEF TypeOK
  <2>2. free' \in Seq(Buffer)
    BY <1>14, <2>1, ConcatProperties DEF Draw, Returned, TypeOK
  <2>3. render' \in RenderType /\ render'.data = None
    BY <1>14 DEF Draw, TypeOK, RenderType
  <2>4. UNCHANGED <<kind, frames, decoder, lost, content, state, flags, image_queue, closes, skipped,
                    main>>
    BY <1>14 DEF Draw
  <2>5. TypeOK'
    BY <2>2, <2>3, <2>4 DEF TypeOK, RenderType
  <2> QED BY <1>14, <2>3, <2>5 DEF Draw, ThreadsHold
<1>15. CASE Start
  <2>1. render' \in RenderType /\ render'.data = None
    BY <1>15 DEF Start, TypeOK, RenderType, ThreadsHold
  <2>2. worker' \in WorkerType
    BY <1>15 DEF Start, WorkerType
  <2>3. TypeOK'
    BY <1>15, <2>1, <2>2 DEF Start, TypeOK, RenderType, WorkerType
  <2> QED BY <1>15, <2>1, <2>3 DEF Start, ThreadsHold, WithFrame, WithBuffer
<1>16. CASE StopGraphics \/ StopDecoder
  <2>1. worker' \in {worker, AtCheck} /\ (worker' = AtCheck => worker.pc \in {"check", "waiting"})
    BY <1>16 DEF StopGraphics, StopDecoder, Notified
  <2>2. worker' \in WorkerType
    BY <2>1 DEF TypeOK, WorkerType
  <2>3. TypeOK'
    BY <1>16, <2>2 DEF StopGraphics, StopDecoder, TypeOK, WorkerType
  <2> QED BY <1>16, <2>1, <2>3 DEF StopGraphics, StopDecoder, ThreadsHold, WithFrame, WithBuffer
<1>17. CASE JoinGraphics
  BY <1>11, <1>17 DEF JoinGraphics, EmptyImages, Returned, TypeOK, ThreadsHold
<1>18. CASE JoinDecoder
  BY <1>18, EmptySeq DEF JoinDecoder, TypeOK, ThreadsHold
<1>19. CASE UNCHANGED vars
  BY <1>19 DEF vars, TypeOK, ThreadsHold
<1> QED BY <1>1, <1>2, <1>3, <1>4, <1>5, <1>6, <1>7, <1>8, <1>9, <1>10, <1>12, <1>13, <1>14,
           <1>15, <1>16, <1>17, <1>18, <1>19, <1>20
        DEF Next, Worker, Render, Stopped

\* Where the buffers are, step by step.  Most steps leave them where they are.
QuietPlaces ==
  /\ worker.buf' = worker.buf /\ render.data' = render.data
  /\ UNCHANGED <<free, image_queue, lost>>

LEMMA QuietPlaced ==
  ASSUME PictureInv, QuietPlaces
  PROVE Placed'
BY PlacedIsOnePlace DEF PictureInv, Accounted, QuietPlaces, Placed, Held

\* Emptying the queue returns its buffers to the pool.
LEMMA EmptyPlaced ==
  ASSUME PictureInv, EmptyImages, worker.buf' = worker.buf, render.data' = render.data,
         UNCHANGED lost
  PROVE Placed'
<1>1. /\ Placed /\ free \in Seq(Buffer) /\ image_queue \in Seq(Buffer)
  BY PlacedIsOnePlace DEF PictureInv, Accounted, TypeOK
<1>2. /\ ToSet(free') = ToSet(free) \union ToSet(image_queue) /\ IsInjective(free')
      /\ ToSet(image_queue') = {} /\ IsInjective(image_queue')
  BY <1>1, ConcatElements, ShortQueues DEF EmptyImages, Returned, Placed
<1> QED BY <1>1, <1>2 DEF Placed, Held

LEMMA PlacedStep == PictureInv /\ [Next]_vars => OnePlace'
<1> SUFFICES ASSUME PictureInv, [Next]_vars PROVE Placed'
  BY PlacedIsOnePlace
<1>0. /\ Placed /\ free \in Seq(Buffer) /\ image_queue \in Seq(Buffer)
      /\ worker.buf \in Buffer \union {None} /\ render.data \in Buffer \union {None}
      /\ None \notin Buffer /\ ThreadsHold
  BY PlacedIsOnePlace DEF PictureInv, Accounted, TypeOK, None, Buffer
<1> USE DEF At, AtCheck, decoder, pool, flags, screen
<1>1. CASE \/ PostJpegBuffer \/ Check \/ DropFrame \/ StopGraphics \/ StopDecoder \/ JoinDecoder
           \/ \E s \in States : PostGraphicsHeadsetState(s)
  <2>1. render' = render /\ UNCHANGED <<free, image_queue, lost>>
    BY <1>1 DEF PostJpegBuffer, Check, DropFrame, StopGraphics, StopDecoder, JoinDecoder,
                PostGraphicsHeadsetState
  <2>2. worker.buf' = worker.buf
    BY <1>0, <1>1 DEF PostJpegBuffer, Check, DropFrame, StopGraphics, StopDecoder, JoinDecoder,
                PostGraphicsHeadsetState, Notified, ThreadsHold, WithBuffer
  <2> QED BY <2>1, <2>2, QuietPlaced DEF QuietPlaces
<1>2. CASE Start
  BY <1>0, <1>2, QuietPlaced DEF Start, QuietPlaces, ThreadsHold, WithBuffer, PictureInv,
                                 Accounted, TypeOK
<1>3. CASE TakeBuffer
  <2> DEFINE b == Head(free)
  <2>1. /\ worker.buf = None /\ worker'.buf = b /\ free' = Tail(free) /\ free # <<>>
        /\ UNCHANGED <<image_queue, lost, render>>
    BY <1>0, <1>3 DEF TakeBuffer, ThreadsHold, WithBuffer
  <2>2. /\ b \in Buffer /\ ToSet(free) = {b} \union ToSet(free')
        /\ IsInjective(free') /\ b \notin ToSet(free')
    BY <1>0, <2>1, TailElements DEF Placed
  <2> QED BY <1>0, <2>1, <2>2 DEF Placed, Held
<1>4. CASE Fill
  <2>1. CASE worker'.buf = worker.buf /\ UNCHANGED <<free, lost>>
    BY <1>4, <2>1, QuietPlaced DEF Fill, QuietPlaces
  <2>2. CASE worker'.buf = None /\ ErrorBuffer
    <3>1. worker.buf # None /\ UNCHANGED <<free, image_queue, render>>
      BY <1>0, <1>4, <2>2 DEF Fill, ErrorBuffer, ThreadsHold, WithBuffer
    <3> QED BY <1>0, <2>2, <3>1 DEF Placed, Held, ErrorBuffer
  <2> QED BY <1>4, <2>1, <2>2 DEF Fill
<1>5. CASE PostImage
  <2>1. CASE Accepts
    BY <1>5, <2>1, QuietPlaced DEF PostImage, QuietPlaces
  <2>2. CASE ~Accepts
    <3>1. /\ worker.buf \in Buffer /\ worker'.buf = None /\ free' = free \o <<worker.buf>>
          /\ UNCHANGED <<image_queue, lost, render>>
      BY <1>0, <1>5, <2>2 DEF PostImage, Returned, ThreadsHold, WithBuffer
    <3>2. ToSet(free') = ToSet(free) \union {worker.buf} /\ IsInjective(free')
      <4>1. IsInjective(free) /\ ToSet(free) \intersect {worker.buf} = {}
        BY <1>0, <3>1 DEF Placed, Held
      <4> QED BY <1>0, <3>1, <4>1, AddedElements
    <3> QED BY <1>0, <3>1, <3>2 DEF Placed, Held
  <2> QED BY <2>1, <2>2
<1>6. CASE Push
  <2>1. /\ worker.buf \in Buffer /\ worker'.buf = None
        /\ image_queue' = Append(image_queue, worker.buf)
        /\ UNCHANGED <<free, lost, render>>
    BY <1>0, <1>6 DEF Push, ThreadsHold, WithBuffer
  <2>2. ToSet(image_queue') = ToSet(image_queue) \union {worker.buf} /\ IsInjective(image_queue')
    BY <1>0, <2>1, AppendElements DEF Placed, Held
  <2> QED BY <1>0, <2>1, <2>2 DEF Placed, Held
<1>7. CASE Setup \/ Window \/ WindowFails \/ Close \/ TurnDisplay \/ TurnHeadset
  BY <1>7, QuietPlaced DEF Setup, Window, WindowFails, Close, TurnDisplay, TurnHeadset, QuietPlaces,
                           PictureInv, Accounted, TypeOK
<1>8. CASE Leave
  <2>1. worker' = worker /\ render'.data = render.data /\ UNCHANGED lost /\ EmptyImages
    BY <1>8 DEF Leave, Leaving, PictureInv, Accounted, TypeOK
  <2> QED BY <2>1, EmptyPlaced
<1>9. CASE Drain
  <2>1. CASE image_queue = <<>>
    BY <1>9, <2>1, QuietPlaced DEF Drain, QuietPlaces, PictureInv, Accounted, TypeOK
  <2>2. CASE image_queue # <<>>
    <3> DEFINE b == Last(image_queue)
    <3>1. /\ render.data = None /\ render'.data = b /\ free' = free \o Front(image_queue)
          /\ image_queue' = <<>> /\ UNCHANGED <<worker, lost>>
      BY <1>0, <1>9, <2>2 DEF Drain, Returned, ThreadsHold, PictureInv, Accounted, TypeOK
    <3>2. /\ Front(image_queue) \in Seq(Buffer) /\ b \in Buffer
          /\ ToSet(image_queue) = ToSet(Front(image_queue)) \union {b}
          /\ IsInjective(Front(image_queue)) /\ b \notin ToSet(Front(image_queue))
      BY <1>0, <2>2, FrontElements DEF Placed
    <3>3. ToSet(free') = ToSet(free) \union ToSet(Front(image_queue)) /\ IsInjective(free')
      BY <1>0, <3>1, <3>2, ConcatElements DEF Placed
    <3>4. ToSet(image_queue') = {} /\ IsInjective(image_queue')
      BY <3>1, ShortQueues
    <3> QED BY <1>0, <3>1, <3>2, <3>3, <3>4 DEF Placed, Held
  <2> QED BY <2>1, <2>2
<1>10. CASE Draw
  <2>1. render'.data = None /\ UNCHANGED <<worker, lost, image_queue>>
    BY <1>10 DEF Draw, PictureInv, Accounted, TypeOK
  <2>2. CASE render.data = None
    <3>1. free' = free
      BY <1>0, <1>10, <2>2, ConcatEmptySeq DEF Draw, Returned
    <3> QED BY <2>1, <2>2, <3>1, QuietPlaced DEF QuietPlaces
  <2>3. CASE render.data # None
    <3>1. render.data \in Buffer /\ free' = free \o <<render.data>>
      BY <1>0, <1>10, <2>3 DEF Draw, Returned
    <3>2. ToSet(free') = ToSet(free) \union {render.data} /\ IsInjective(free')
      <4>1. IsInjective(free) /\ ToSet(free) \intersect {render.data} = {}
        BY <1>0, <2>3 DEF Placed, Held
      <4> QED BY <3>1, <1>0, <4>1, AddedElements
    <3> QED BY <1>0, <2>1, <2>3, <3>2 DEF Placed, Held
  <2> QED BY <2>2, <2>3
<1>11. CASE JoinGraphics
  BY <1>11, EmptyPlaced DEF JoinGraphics
<1>12. CASE UNCHANGED vars
  BY <1>12, QuietPlaced DEF vars, QuietPlaces
<1> QED BY <1>1, <1>2, <1>3, <1>4, <1>5, <1>6, <1>7, <1>8, <1>9, <1>10, <1>11, <1>12
        DEF Next, Worker, Render, Stopped

\* What the steps below need of the invariant.
LEMMA PictureFacts ==
  PictureInv =>
    /\ Placed /\ ThreadsHold /\ InOrder /\ Newer
    /\ free \in Seq(Buffer) /\ image_queue \in Seq(Buffer) /\ ToSet(image_queue) \subseteq Buffer
    /\ work_queue \in Seq(1 .. MaxFrames) /\ frames \in Nat /\ content \in [Buffer -> Nat]
    /\ worker.frame \in Nat /\ worker.buf \in Buffer \union {None}
    /\ render.data \in Buffer \union {None} /\ None \notin Buffer
    /\ \A i \in DOMAIN work_queue : work_queue[i] \in Nat /\ work_queue[i] > 0
<1> SUFFICES ASSUME PictureInv
             PROVE /\ ToSet(image_queue) \subseteq Buffer /\ content \in [Buffer -> Nat]
                   /\ \A i \in DOMAIN work_queue : work_queue[i] \in Nat /\ work_queue[i] > 0
  BY PlacedIsOnePlace, BoundsAssumption DEF PictureInv, Accounted, TypeOK, None, Buffer
<1>1. content \in [Buffer -> 0 .. MaxFrames] /\ image_queue \in Seq(Buffer)
  BY DEF PictureInv, Accounted, TypeOK
<1>2. \A i \in DOMAIN work_queue : work_queue[i] \in Nat /\ work_queue[i] > 0
  <2>1. \A i \in DOMAIN work_queue : work_queue[i] \in 1 .. MaxFrames
    <3>1. work_queue \in Seq(1 .. MaxFrames)
      BY DEF PictureInv, Accounted, TypeOK
    <3>2. work_queue \in [1 .. Len(work_queue) -> 1 .. MaxFrames]
      BY <3>1, LenProperties
    <3> QED BY <3>2
  <2> QED BY <2>1, BoundsAssumption
<1> QED BY <1>1, <1>2, ElementsInRange

\* _is_display is set in RUNNING, and outlasts it only behind a closed window.
LEMMA DisplayStep ==
  PictureInv /\ [Next]_vars =>
    /\ DisplayKept'
    /\ (kind = "headset" /\ is_display /\ render.last_state # "RUNNING" => closes > 0)'
<1> SUFFICES ASSUME PictureInv, [Next]_vars
             PROVE /\ DisplayKept'
                   /\ (kind = "headset" /\ is_display /\ render.last_state # "RUNNING"
                         => closes > 0)'
  OBVIOUS
<1>0. /\ DisplayKept /\ AtMostOneStraggler /\ ThreadsHold /\ render \in RenderType
      /\ closes \in Nat /\ is_display \in BOOLEAN
  BY BoundsAssumption DEF PictureInv, Accounted, TypeOK, RenderType
<1> USE DEF At, AtCheck, DisplayKept, AtMostOneStraggler, RenderType, decoder, pool, flags, screen
<1>1. CASE Worker \/ PostJpegBuffer
  BY <1>0, <1>1 DEF Worker, PostJpegBuffer, Check, DropFrame, TakeBuffer, Fill, PostImage, Push
<1>2. CASE \E s \in States : PostGraphicsHeadsetState(s)
  BY <1>0, <1>2 DEF PostGraphicsHeadsetState
<1>3. CASE Setup \/ Window \/ WindowFails
  BY <1>0, <1>3 DEF Setup, Window, WindowFails, RunEnds, ThreadsHold
<1>4. CASE Close
  BY <1>0, <1>4 DEF Close, ThreadsHold
<1>5. CASE TurnHeadset
  BY <1>0, <1>5 DEF TurnHeadset, ThreadsHold
<1>6. CASE Leave \/ TurnDisplay \/ Drain \/ Draw
  <2>1. /\ UNCHANGED <<kind, is_display, closes, main>> /\ main # "new"
        /\ render'.pc \notin {"setup", "window"} /\ render'.last_state = render.last_state
    <3>1. CASE Leave \/ TurnDisplay
      BY <1>0, <3>1 DEF Leave, TurnDisplay, ThreadsHold
    <3>2. CASE Drain
      BY <1>0, <3>2 DEF Drain, ThreadsHold
    <3>3. CASE Draw
      BY <1>0, <3>3 DEF Draw, ThreadsHold
    <3> QED BY <1>6, <3>1, <3>2, <3>3
  <2> QED BY <1>0, <2>1
<1>7. CASE Start
  BY <1>0, <1>7 DEF Start
<1>8. CASE StopGraphics \/ JoinGraphics \/ StopDecoder \/ JoinDecoder \/ UNCHANGED vars
  BY <1>0, <1>8 DEF StopGraphics, JoinGraphics, StopDecoder, JoinDecoder, vars
<1> QED BY <1>1, <1>2, <1>3, <1>4, <1>5, <1>6, <1>7, <1>8 DEF Next, Render, Stopped

\* An image whose post had begun is the only one that a headset which left its state keeps.
LEMMA StragglerStep == PictureInv /\ [Next]_vars => AtMostOneStraggler'
<1> SUFFICES ASSUME PictureInv, [Next]_vars,
                    kind' = "headset", ~is_display', render'.pc # "leave"
             PROVE Len(image_queue') <= 1 /\ (worker'.pc = "push" => image_queue' = <<>>)
  BY DisplayStep DEF AtMostOneStraggler
<1>0. /\ AtMostOneStraggler /\ image_queue \in Seq(Buffer) /\ Len(<<>>) = 0
      /\ render \in RenderType /\ is_display \in BOOLEAN
  BY EmptySeq DEF PictureInv, Accounted, TypeOK, RenderType
<1> USE DEF At, AtCheck, AtMostOneStraggler, decoder, pool, flags, screen
<1>1. CASE PostJpegBuffer \/ Check \/ DropFrame \/ TakeBuffer \/ Fill
  BY <1>0, <1>1 DEF PostJpegBuffer, Notified, Check, DropFrame, TakeBuffer, Fill
<1>2. CASE PostImage
  BY <1>0, <1>2 DEF PostImage, Accepts
<1>3. CASE Push
  <2>1. worker.buf \in Buffer
    BY <1>3, PictureFacts DEF Push, ThreadsHold, WithBuffer
  <2>2. Len(image_queue') = Len(image_queue) + 1 /\ Len(image_queue) \in Nat
    BY <1>0, <1>3, <2>1, AppendProperties, LenProperties DEF Push
  <2>3. image_queue = <<>> => Len(image_queue') <= 1
    BY <1>0, <2>2
  <2> QED BY <1>0, <1>3, <2>3 DEF Push
<1>4. CASE \E s \in States : PostGraphicsHeadsetState(s)
  BY <1>0, <1>4 DEF PostGraphicsHeadsetState
<1>5. CASE Setup \/ Window \/ WindowFails \/ Close \/ TurnDisplay
  BY <1>0, <1>5 DEF Setup, Window, WindowFails, Close, TurnDisplay
<1>6. CASE TurnHeadset
  BY <1>0, <1>6 DEF TurnHeadset, RenderType
<1>7. CASE Leave \/ Drain
  BY <1>0, <1>7 DEF Leave, Leaving, EmptyImages, Drain
<1>8. CASE Draw
  BY <1>0, <1>8 DEF Draw
<1>9. CASE Start \/ StopGraphics \/ JoinGraphics
  BY <1>0, <1>9, PictureFacts
     DEF Start, StopGraphics, JoinGraphics, EmptyImages, ThreadsHold, PictureInv
<1>10. CASE StopDecoder \/ JoinDecoder \/ UNCHANGED vars
  BY <1>0, <1>10 DEF StopDecoder, Notified, JoinDecoder, vars
<1> QED BY <1>1, <1>2, <1>3, <1>4, <1>5, <1>6, <1>7, <1>8, <1>9, <1>10
        DEF Next, Worker, Render, Stopped

\* A step after which fewer images and frames wait, and no frame is written.
LEMMA QuietOrder ==
  ASSUME PictureInv, UNCHANGED <<frames, content>>,
         image_queue' = image_queue \/ image_queue' = <<>>,
         work_queue' = work_queue \/ work_queue' = <<>>,
         worker'.frame = worker.frame \/ worker'.frame = 0
  PROVE InOrder' /\ Newer'
<1>1. InOrder /\ Newer /\ frames \in Nat /\ worker.frame \in Nat
  BY PictureFacts
<1>2. DOMAIN image_queue' = {} \/ image_queue' = image_queue
  OBVIOUS
<1>3. ToSet(image_queue') = {} \/ image_queue' = image_queue
  BY ShortQueues
<1>4. DOMAIN work_queue' = {} \/ work_queue' = work_queue
  OBVIOUS
<1>5. \A i \in DOMAIN work_queue : work_queue[i] \in Nat /\ work_queue[i] > 0
  BY PictureFacts
<1> QED BY <1>1, <1>2, <1>3, <1>4, <1>5 DEF InOrder, Newer

LEMMA OrderStep == PictureInv /\ [Next]_vars => InOrder' /\ Newer'
<1> SUFFICES ASSUME PictureInv, [Next]_vars PROVE InOrder' /\ Newer'
  OBVIOUS
<1>0. /\ InOrder /\ Newer /\ ThreadsHold /\ Placed
      /\ frames \in Nat /\ worker.frame \in Nat /\ content \in [Buffer -> Nat]
      /\ ToSet(image_queue) \subseteq Buffer
      /\ \A i \in DOMAIN image_queue : image_queue[i] \in ToSet(image_queue)
      /\ \A i \in DOMAIN work_queue : work_queue[i] \in Nat /\ work_queue[i] > 0
  BY PictureFacts DEF ToSet
<1> USE DEF At, AtCheck, decoder, pool, flags, screen
<1>1. CASE PostJpegBuffer
  <2> DEFINE n == Len(work_queue)
  <2>1. /\ frames' = frames + 1 /\ work_queue' = Append(work_queue, frames + 1)
        /\ UNCHANGED <<image_queue, content>>
    BY <1>1 DEF PostJpegBuffer
  <2>2. worker'.frame = worker.frame
    BY <1>0, <1>1 DEF PostJpegBuffer, Notified, ThreadsHold, WithFrame
  <2>3. /\ n \in Nat /\ DOMAIN work_queue = 1 .. n /\ DOMAIN work_queue' = 1 .. (n + 1)
        /\ \A i \in 1 .. n : work_queue'[i] = work_queue[i]
        /\ work_queue'[n + 1] = frames + 1
    BY <2>1, PictureFacts
  <2> HIDE DEF n
  <2>4. \A i \in 1 .. (n + 1) : i \in 1 .. n \/ i = n + 1
    BY <2>3
  <2>5. InOrder'
    BY <1>0, <2>1, <2>2 DEF InOrder
  <2>6. worker'.frame <= frames'
    BY <1>0, <2>1, <2>2 DEF Newer
  <2>7. \A i \in DOMAIN work_queue' : worker'.frame < work_queue'[i] /\ work_queue'[i] <= frames'
    BY <1>0, <2>1, <2>2, <2>3, <2>4 DEF Newer
  <2>8. \A i, j \in DOMAIN work_queue' : i < j => work_queue'[i] < work_queue'[j]
    <3>1. SUFFICES ASSUME NEW i \in 1 .. (n + 1), NEW j \in 1 .. (n + 1), i < j
                   PROVE work_queue'[i] < work_queue'[j]
      BY <2>3
    <3>2. i \in 1 .. n
      BY <2>3, <3>1
    <3>3. CASE j \in 1 .. n
      BY <1>0, <2>3, <3>1, <3>2, <3>3 DEF Newer
    <3>4. CASE j = n + 1
      BY <1>0, <2>3, <3>2, <3>4 DEF Newer
    <3> QED BY <2>4, <3>3, <3>4
  <2>9. \A b \in ToSet(image_queue') :
          content'[b] <= frames' /\ \A i \in DOMAIN work_queue' : content'[b] < work_queue'[i]
    <3>1. SUFFICES ASSUME NEW b \in ToSet(image_queue)
                   PROVE /\ content[b] <= frames + 1
                         /\ \A i \in DOMAIN work_queue' : content[b] < work_queue'[i]
      BY <2>1
    <3>2. content[b] \in Nat /\ content[b] <= frames
      BY <1>0 DEF Newer
    <3>3. \A i \in 1 .. n : content[b] < work_queue[i]
      BY <1>0, <2>3 DEF Newer
    <3> QED BY <1>0, <2>3, <2>4, <3>2, <3>3
  <2> QED BY <2>5, <2>6, <2>7, <2>8, <2>9 DEF Newer
<1>2. CASE Check
  <2>1. CASE worker'.frame = 0 /\ work_queue' = work_queue
    BY <1>2, <2>1, QuietOrder DEF Check
  <2>2. CASE /\ work_queue # <<>> /\ worker'.frame = Head(work_queue)
             /\ work_queue' = Tail(work_queue)
    <3> DEFINE n == Len(work_queue)
    <3>1. UNCHANGED <<frames, image_queue, content>>
      BY <1>2 DEF Check
    <3>2. /\ n \in Nat \ {0} /\ DOMAIN work_queue = 1 .. n /\ DOMAIN work_queue' = 1 .. (n - 1)
          /\ \A i \in 1 .. (n - 1) : work_queue'[i] = work_queue[i + 1]
          /\ worker'.frame = work_queue[1]
      BY <2>2, PictureFacts
    <3> HIDE DEF n
    <3>3. 1 \in 1 .. n /\ \A i \in 1 .. (n - 1) : i + 1 \in 1 .. n /\ 1 < i + 1
      BY <3>2
    <3>4. InOrder'
      BY <1>0, <3>1, <3>2, <3>3 DEF InOrder, Newer
    <3>5. /\ worker'.frame <= frames'
          /\ \A i \in DOMAIN work_queue' :
               worker'.frame < work_queue'[i] /\ work_queue'[i] <= frames'
      BY <1>0, <3>1, <3>2, <3>3 DEF Newer
    <3>6. \A i, j \in DOMAIN work_queue' : i < j => work_queue'[i] < work_queue'[j]
      <4>1. \A i, j \in 1 .. (n - 1) : i < j => i + 1 < j + 1
        BY <3>2
      <4> QED BY <1>0, <3>2, <3>3, <4>1 DEF Newer
    <3>7. \A b \in ToSet(image_queue') :
            content'[b] <= frames' /\ \A i \in DOMAIN work_queue' : content'[b] < work_queue'[i]
      BY <1>0, <3>1, <3>2, <3>3 DEF Newer
    <3> QED BY <3>4, <3>5, <3>6, <3>7 DEF Newer
  <2> QED BY <1>2, <2>1, <2>2 DEF Check
<1>3. CASE TakeBuffer
  <2> DEFINE c == Head(free)
  <2>1. /\ worker'.frame = worker.frame /\ content' = [content EXCEPT ![c] = worker.frame]
        /\ UNCHANGED <<frames, image_queue, work_queue>> /\ free # <<>>
    BY <1>3 DEF TakeBuffer
  <2>2. c \in ToSet(free)
    BY <2>1, PictureFacts, TailElements
  <2>3. \A b \in ToSet(image_queue) : b # c
    BY <1>0, <2>2 DEF Placed
  <2>4. \A b \in ToSet(image_queue) : content'[b] = content[b]
    BY <1>0, <2>1, <2>3
  <2>5. InOrder'
    BY <1>0, <2>1, <2>4 DEF InOrder
  <2>6. Newer'
    BY <1>0, <2>1, <2>4 DEF Newer
  <2> QED BY <2>5, <2>6
<1>4. CASE Push
  <2> DEFINE n == Len(image_queue)
             c == worker.buf
  <2>1. /\ worker'.frame = 0 /\ image_queue' = Append(image_queue, c) /\ c \in Buffer
        /\ worker.frame # 0 /\ content[c] = worker.frame
        /\ UNCHANGED <<frames, work_queue, content>>
    BY <1>4, PictureFacts DEF Push, ThreadsHold, WithFrame, WithBuffer
  <2>2. ToSet(image_queue') = ToSet(image_queue) \union {c}
    BY <2>1, PictureFacts, AppendElements
  <2>3. /\ n \in Nat /\ DOMAIN image_queue = 1 .. n /\ DOMAIN image_queue' = 1 .. (n + 1)
        /\ \A i \in 1 .. n : image_queue'[i] = image_queue[i]
        /\ image_queue'[n + 1] = c
    BY <2>1, PictureFacts
  <2> HIDE DEF n, c
  <2>4. \A i, j \in DOMAIN image_queue' :
          i < j => content'[image_queue'[i]] < content'[image_queue'[j]]
    <3>1. SUFFICES ASSUME NEW i \in 1 .. (n + 1), NEW j \in 1 .. (n + 1), i < j
                   PROVE content[image_queue'[i]] < content[image_queue'[j]]
      BY <2>1, <2>3
    <3>2. i \in 1 .. n /\ (j \in 1 .. n \/ j = n + 1)
      BY <2>3, <3>1
    <3>3. CASE j \in 1 .. n
      BY <1>0, <2>3, <3>1, <3>2, <3>3 DEF InOrder
    <3>4. CASE j = n + 1
      BY <1>0, <2>1, <2>3, <3>2, <3>4 DEF InOrder
    <3> QED BY <3>2, <3>3, <3>4
  <2>5. InOrder'
    BY <2>1, <2>4 DEF InOrder
  <2>6. Newer'
    BY <1>0, <2>1, <2>2 DEF Newer
  <2> QED BY <2>5, <2>6
<1>5. CASE DropFrame \/ Fill \/ PostImage
  BY <1>5, QuietOrder DEF DropFrame, Fill, PostImage
<1>6. CASE \E s \in States : PostGraphicsHeadsetState(s)
  BY <1>6, QuietOrder DEF PostGraphicsHeadsetState
<1>7. CASE Setup \/ Window \/ WindowFails \/ Close \/ TurnDisplay \/ TurnHeadset
  BY <1>7, QuietOrder DEF Setup, Window, WindowFails, Close, TurnDisplay, TurnHeadset
<1>8. CASE Leave
  BY <1>8, QuietOrder DEF Leave, Leaving, EmptyImages
<1>9. CASE Drain \/ Draw
  BY <1>9, QuietOrder DEF Drain, Draw
<1>10. CASE Start \/ StopGraphics \/ JoinGraphics
  BY <1>10, QuietOrder DEF Start, StopGraphics, JoinGraphics, EmptyImages
<1>11. CASE StopDecoder \/ JoinDecoder \/ UNCHANGED vars
  BY <1>11, QuietOrder DEF StopDecoder, Notified, JoinDecoder, vars
<1> QED BY <1>1, <1>2, <1>3, <1>4, <1>5, <1>6, <1>7, <1>8, <1>9, <1>10, <1>11
        DEF Next, Worker, Render, Stopped

\* A step that leaves the pool and the shown buffer alone, and no decoder filling it.
LEMMA QuietShown ==
  ASSUME PictureInv, UNCHANGED free,
         render.shown' = render.shown \/ render.shown' = None,
         skipped' = skipped \/ skipped' = TRUE,
         \/ worker.pc' = worker.pc /\ worker.buf' = worker.buf
         \/ worker.pc' # "fill"
  PROVE ShownLast'
BY DEF PictureInv, ShownLast

LEMMA ShownStep == PictureInv /\ [Next]_vars => ShownLast'
<1> SUFFICES ASSUME PictureInv, [Next]_vars PROVE ShownLast'
  OBVIOUS
<1>0. Placed /\ Placed' /\ ThreadsHold /\ ThreadsHold' /\ ShownLast /\ TypeOK
  BY PlacedStep, PlacedIsOnePlace, PictureTypesStep DEF PictureInv, Accounted
<1> USE DEF At, AtCheck, decoder, pool, flags, screen
<1>1. CASE \/ PostJpegBuffer \/ Check \/ DropFrame \/ StopGraphics \/ StopDecoder \/ JoinDecoder
           \/ \E s \in States : PostGraphicsHeadsetState(s)
  <2>1. UNCHANGED <<free, render, skipped>>
    BY <1>1 DEF PostJpegBuffer, Check, DropFrame, StopGraphics, StopDecoder, JoinDecoder,
                PostGraphicsHeadsetState
  <2>2. CASE PostJpegBuffer \/ StopDecoder
    BY <2>1, <2>2, QuietShown DEF PostJpegBuffer, StopDecoder, Notified
  <2>3. CASE Check \/ DropFrame
    BY <2>1, <2>3, QuietShown DEF Check, DropFrame
  <2>4. CASE \/ StopGraphics \/ JoinDecoder
             \/ \E s \in States : PostGraphicsHeadsetState(s)
    BY <2>1, <2>4, QuietShown DEF StopGraphics, JoinDecoder, PostGraphicsHeadsetState
  <2> QED BY <1>1, <2>2, <2>3, <2>4
<1>2. CASE TakeBuffer
  <2> DEFINE b == Head(free)
  <2>1. /\ worker'.buf = b /\ free' = Tail(free) /\ free # <<>> /\ UNCHANGED <<render, skipped>>
    BY <1>2 DEF TakeBuffer
  <2>2. /\ free' \in Seq(Buffer) /\ ToSet(free) = {b} \union ToSet(free') /\ b \notin ToSet(free')
    BY <1>0, <2>1, PictureFacts, TailElements DEF Placed
  <2>3. free' # <<>> => Last(free') = Last(free) /\ Last(free') \in ToSet(free')
    BY <2>1, <2>2, PictureFacts, LastElements
  <2>4. ToSet(<<>>) = {}
    BY ShortQueues
  <2> QED BY <1>0, <2>1, <2>2, <2>3, <2>4 DEF ShownLast
<1>3. CASE Fill
  <2>1. CASE UNCHANGED free
    BY <1>3, <2>1, QuietShown DEF Fill
  <2> QED BY <1>3, <2>1 DEF Fill, ErrorBuffer
<1>4. CASE PostImage
  <2>1. CASE Accepts
    BY <1>4, <2>1, QuietShown DEF PostImage
  <2>2. CASE ~Accepts
    BY <1>4, <2>2 DEF PostImage, ShownLast
  <2> QED BY <2>1, <2>2
<1>5. CASE Push
  BY <1>5, QuietShown DEF Push
<1>6. CASE Setup \/ Window \/ WindowFails \/ Close \/ TurnDisplay \/ TurnHeadset
  BY <1>0, <1>6, QuietShown DEF Setup, Window, WindowFails, Close, TurnDisplay, TurnHeadset, TypeOK
\* An empty queue returns nothing, any other is skipped.
<1>7. ASSUME EmptyImages, UNCHANGED worker, render'.shown = render.shown PROVE ShownLast'
  <2>1. CASE image_queue = <<>>
    <3>1. free' = free
      BY <1>7, <2>1, PictureFacts, ConcatEmptySeq DEF EmptyImages, Returned
    <3>2. skipped' = skipped
      BY <1>0, <1>7, <2>1 DEF EmptyImages, TypeOK
    <3> QED BY <1>7, <3>1, <3>2, QuietShown
  <2>2. CASE image_queue # <<>>
    BY <1>7, <2>2 DEF EmptyImages, ShownLast
  <2> QED BY <2>1, <2>2
<1>8. CASE Leave
  <2>1. worker' = worker /\ render'.shown = render.shown /\ EmptyImages
    BY <1>0, <1>8 DEF Leave, Leaving, TypeOK
  <2> QED BY <1>7, <2>1
<1>9. CASE Drain
  <2>1. CASE image_queue = <<>>
    BY <1>0, <1>9, <2>1, QuietShown DEF Drain, TypeOK
  <2>2. CASE image_queue # <<>>
    <3>1. render'.data = Last(image_queue) /\ render'.shown = Last(image_queue)
      BY <1>0, <1>9, <2>2 DEF Drain, TypeOK
    <3>2. Last(image_queue) # None
      BY <2>2, PictureFacts, FrontElements
    <3> QED BY <1>0, <3>1, <3>2 DEF ShownLast, Placed, Held
  <2> QED BY <2>1, <2>2
<1>10. CASE Draw
  <2>1. render'.shown = render.shown /\ UNCHANGED <<worker, skipped>>
    BY <1>0, <1>10 DEF Draw, TypeOK
  <2>2. CASE render.data = None
    <3>1. free' = free
      BY <1>10, <2>2, PictureFacts, ConcatEmptySeq DEF Draw, Returned
    <3> QED BY <2>1, <3>1, QuietShown
  <2>3. CASE render.data # None
    <3>1. free' = free \o <<render.data>> /\ render.data \in Buffer
      BY <1>0, <1>10, <2>3, PictureFacts DEF Draw, Returned
    <3>2. Last(free') = render.data
      <4>1. free' = Append(free, render.data)
        BY <3>1, PictureFacts, AppendIsConcat
      <4> QED BY <3>1, <4>1, PictureFacts, AppendProperties DEF Last
    <3>3. render.shown = render.data /\ worker.buf # render.data
      BY <1>0, <2>3 DEF ThreadsHold, Placed, Held
    <3> QED BY <2>1, <3>2, <3>3 DEF ShownLast
  <2> QED BY <2>2, <2>3
<1>11. CASE Start
  BY <1>0, <1>11, QuietShown DEF Start, TypeOK
<1>12. CASE JoinGraphics
  BY <1>7, <1>12 DEF JoinGraphics
<1>13. CASE UNCHANGED vars
  BY <1>13, QuietShown DEF vars
<1> QED BY <1>1, <1>2, <1>3, <1>4, <1>5, <1>6, <1>8, <1>9, <1>10, <1>11, <1>12, <1>13
        DEF Next, Worker, Render, Stopped

LEMMA PictureInvStep == PictureInv /\ [Next]_vars => PictureInv'
BY PictureTypesStep, PlacedStep, DisplayStep, StragglerStep, OrderStep, ShownStep
   DEF PictureInv, Accounted

LEMMA PictureInvariant == Spec => []PictureInv
BY PictureInit, PictureInvStep, PTL DEF Spec

\* However decoding, posting, drawing, leaving the state, closing windows and Stop
\* interleave, every buffer of the pool is in one place, and images wait in the order in
\* which their frames came.  A headset that has left RUNNING keeps one image at most,
\* unless a window of it has been closed: then _is_display may still be set.
THEOREM BuffersAreAccounted == Spec => []Accounted
<1>1. PictureInv => Accounted
  BY DEF PictureInv
<1> QED BY <1>1, PictureInvariant, PTL

\* The pool's order keeps a picture whole: unless the graphics handed a buffer back
\* undrawn, the decoder writes to the shown one only when all the others wait to be
\* drawn or are lost.
THEOREM TornOnlyAtTheEnd == Spec => []TornOnlyWhenExhausted
<1>1. PictureInv => TornOnlyWhenExhausted
  <2>1. SUFFICES ASSUME PictureInv, worker.pc = "fill", worker.buf = render.shown, ~skipped
                 PROVE Buffer \ {worker.buf} = ToSet(image_queue) \union lost
    BY DEF TornOnlyWhenExhausted
  <2>2. Placed /\ ThreadsHold /\ worker.buf # None
    BY <2>1, PictureFacts DEF ThreadsHold, WithBuffer
  <2>3. free = <<>> /\ ToSet(free) = {}
    BY <2>1, <2>2, ShortQueues DEF PictureInv, ShownLast
  <2>4. render.data = None
    BY <2>1, <2>2 DEF ThreadsHold, Placed, Held
  <2> QED BY <2>2, <2>3, <2>4 DEF Placed, Held
<1> QED BY <1>1, PictureInvariant, PTL
=============================================================================
