-------------------------- MODULE TcpHeadsetSession --------------------------
(***************************************************************************)
(* The server's connection to one headset: TcpHeadsetSession with its      *)
(* TcpWriteBufferPool.                                                     *)
(*                                                                         *)
(* Everything the session does to its queue it does in handlers on its     *)
(* strand, which runs them one at a time in the order they were posted.    *)
(* Camera sessions post frames (Write), the socket and the timer post      *)
(* completions, and another thread closes the session when its headset     *)
(* reconnects or the server stops.  A frame goes out as one or more        *)
(* packets, a header and a body each; how much of it a send took is any    *)
(* outcome the code tells apart.                                           *)
(***************************************************************************)
EXTENDS Naturals, Sequences

CONSTANTS
  BufferCount,   \* buffer_count: buffers in _copy_buffer_pool
  MaxFrames      \* bound: frames written to the session

ASSUME BufferCountAssumption == BufferCount \in Nat \ {0}
ASSUME MaxFramesAssumption == MaxFrames \in Nat

VARIABLES
  strand,     \* handlers posted and not yet run, in order
  queue,      \* _message_queue: the frames whose buffers it holds
  free,       \* buffers in _copy_buffer_pool
  sending,    \* the async_send the socket is at: "header", "body" or "none"
  armed,      \* _write_timer is running
  is_live,    \* _is_live
  shut,       \* the socket is shut down
  closer,     \* the other thread's TryClose(false): "idle", "checked", "done"
  destroyed,  \* calls of DestroyHeadsetServerConnection
  posted,     \* frames written to the session so far
  wire,       \* the frames that went out whole, in order
  fault       \* front() or pop() was called on an empty queue: undefined behaviour

vars == <<strand, queue, free, sending, armed, is_live, shut, closer, destroyed, posted, wire, fault>>

Frame == 1 .. MaxFrames

\* Handlers.  A send ends with an error, with a part of what it was given, with
\* all of a header or of a packet's body, or with all of a frame.
WriteHandler(f) == [kind |-> "write", frame |-> f, result |-> "none"]
Handler(k, r) == [kind |-> k, frame |-> 0, result |-> r]
SendResult == [header |-> {"error", "part", "all"}, body |-> {"error", "part", "packet", "all"}]

Post(h) == strand' = Append(strand, h)
Runs(k) == ~fault /\ strand # <<>> /\ Head(strand).kind = k /\ strand' = Tail(strand)

Init ==
  /\ strand = <<>> /\ queue = <<>> /\ free = BufferCount
  /\ sending = "none" /\ armed = FALSE
  /\ is_live = TRUE /\ shut = FALSE /\ closer = "idle" /\ destroyed = 0
  /\ posted = 0 /\ wire = <<>> /\ fault = FALSE

-----------------------------------------------------------------------------
(* Sending *)

\* Variant: the timer is left as it is.
StartSendUntimed(k) == sending' = k /\ UNCHANGED armed

\* startTimer and async_send.
StartSend(k) == sending' = k /\ armed' = TRUE

NoSend == sending' = "none" /\ armed' = FALSE

\* Variant: the buffers are lost.
EmptiedLost == queue' = <<>> /\ free' = free

\* doClose empties the queue; the buffers go back to the pool.
Emptied == queue' = <<>> /\ free' = free + Len(queue)

\* TryClose(true), on the strand.
TryClose ==
  \/ ~is_live /\ UNCHANGED <<is_live, shut, queue, free, destroyed>>
  \/ /\ is_live
     /\ is_live' = FALSE /\ shut' = TRUE /\ Emptied
     /\ destroyed' = destroyed + 1

\* Write, called for each frame of the headset's camera.
Write ==
  /\ ~fault /\ posted < MaxFrames
  /\ posted' = posted + 1
  /\ Post(WriteHandler(posted + 1))
  /\ UNCHANGED <<queue, free, sending, armed, is_live, shut, closer, destroyed, wire, fault>>

\* Variant: the send is started whether or not one is in progress.
EnqueueAlwaysSends(f) ==
  /\ queue' = Append(queue, f) /\ free' = free - 1
  /\ StartSend("header")

\* A buffer is taken for the frame; the send is started if none is in progress.
Enqueue(f) ==
  /\ queue' = Append(queue, f) /\ free' = free - 1
  /\ IF queue = <<>> THEN StartSend("header") ELSE UNCHANGED <<sending, armed>>

\* Write's handler.  The frame is dropped when the session is closed or all
\* buffers are in use.
RunWrite ==
  /\ Runs("write")
  /\ IF is_live /\ free > 0 THEN Enqueue(Head(strand).frame)
     ELSE UNCHANGED <<queue, free, sending, armed>>
  /\ UNCHANGED <<is_live, shut, closer, destroyed, posted, wire, fault>>

\* The socket ends the send: an error at any time, and nothing else once it has
\* been shut down, or what it took.
SocketDone(r) ==
  /\ ~fault /\ sending # "none"
  /\ r \in SendResult[sending]
  /\ shut => r = "error"
  /\ Post(Handler(sending, r))
  /\ sending' = "none"
  /\ UNCHANGED <<queue, free, armed, is_live, shut, closer, destroyed, posted, wire, fault>>

\* A failed send closes the session.
RunError ==
  /\ \/ Runs("header") \/ Runs("body")
  /\ Head(strand).result = "error"
  /\ NoSend /\ TryClose
  /\ UNCHANGED <<closer, posted, wire, fault>>

\* writeHeader's handler.  Part of a header: the rest is sent.  All of it:
\* writeBody, which takes the front of the queue.
RunHeaderSent ==
  /\ Runs("header")
  /\ \/ Head(strand).result = "part" /\ StartSend("header") /\ UNCHANGED fault
     \/ Head(strand).result = "all" /\ queue # <<>> /\ StartSend("body") /\ UNCHANGED fault
     \/ Head(strand).result = "all" /\ queue = <<>> /\ NoSend /\ fault' = TRUE
  /\ UNCHANGED <<queue, free, is_live, shut, closer, destroyed, posted, wire>>

\* Variant: the frame that went out stays in the queue when another is waiting.
PopFrameTwice ==
  /\ queue # <<>>
  /\ wire' = Append(wire, Head(queue))
  /\ queue' = IF Len(queue) > 1 THEN queue ELSE <<>>
  /\ free' = free + 1
  /\ IF Len(queue) > 1 THEN StartSend("header") ELSE NoSend
  /\ UNCHANGED fault

\* The frame is out: pop, and go on with the next one.
PopFrame ==
  /\ queue # <<>>
  /\ wire' = Append(wire, Head(queue))
  /\ queue' = Tail(queue) /\ free' = free + 1
  /\ IF Len(queue) > 1 THEN StartSend("header") ELSE NoSend
  /\ UNCHANGED fault

\* writeBody's handler.  The rest of the body, the header of the next packet, or
\* the next frame.
RunBodySent ==
  /\ Runs("body")
  /\ \/ /\ Head(strand).result = "part" /\ queue # <<>>
        /\ StartSend("body") /\ UNCHANGED <<queue, free, wire, fault>>
     \/ /\ Head(strand).result = "packet"
        /\ StartSend("header") /\ UNCHANGED <<queue, free, wire, fault>>
     \/ Head(strand).result = "all" /\ PopFrame
     \/ /\ Head(strand).result \in {"part", "all"} /\ queue = <<>>
        /\ NoSend /\ fault' = TRUE /\ UNCHANGED <<queue, free, wire>>
  /\ UNCHANGED <<is_live, shut, closer, destroyed, posted>>

-----------------------------------------------------------------------------
(* Closing *)

\* The timer runs out.  Its handler is posted and cancel comes too late for it.
TimerFires ==
  /\ ~fault /\ armed
  /\ armed' = FALSE
  /\ Post(Handler("timer", "none"))
  /\ UNCHANGED <<queue, free, sending, is_live, shut, closer, destroyed, posted, wire, fault>>

RunTimer ==
  /\ Runs("timer")
  /\ TryClose
  /\ UNCHANGED <<sending, armed, closer, posted, wire, fault>>

\* TryClose(false) on another thread: the test of _is_live, and then the
\* assignment and the post of doClose.
CloseChecked ==
  /\ ~fault /\ closer = "idle"
  /\ closer' = IF is_live THEN "checked" ELSE "done"
  /\ UNCHANGED <<strand, queue, free, sending, armed, is_live, shut, destroyed, posted, wire, fault>>

ClosePosted ==
  /\ ~fault /\ closer = "checked"
  /\ closer' = "done" /\ is_live' = FALSE
  /\ Post(Handler("close", "none"))
  /\ UNCHANGED <<queue, free, sending, armed, shut, destroyed, posted, wire, fault>>

\* Variant: the socket is shut down, and the queue is left as it is.
DoCloseKeepsQueue == shut' = TRUE /\ UNCHANGED <<queue, free>>

DoClose == shut' = TRUE /\ Emptied

RunClose ==
  /\ Runs("close")
  /\ DoClose
  /\ UNCHANGED <<sending, armed, is_live, closer, destroyed, posted, wire, fault>>

Strand == RunWrite \/ RunError \/ RunHeaderSent \/ RunBodySent \/ RunTimer \/ RunClose

Next ==
  \/ Write
  \/ \E r \in {"error", "part", "packet", "all"} : SocketDone(r)
  \/ TimerFires
  \/ CloseChecked \/ ClosePosted
  \/ Strand

\* The strand runs what is posted, a timer runs out unless it is cancelled, and a
\* TryClose under way goes on.  The socket owes nothing.
Fairness == WF_vars(Strand) /\ WF_vars(TimerFires) /\ WF_vars(ClosePosted)

Spec == Init /\ [][Next]_vars /\ Fairness

-----------------------------------------------------------------------------
(* Properties *)

\* Completions of a send that wait to be run.
Completions == {i \in DOMAIN strand : strand[i].kind \in {"header", "body"}}

TypeOK ==
  /\ strand \in Seq([kind : {"write", "header", "body", "timer", "close"},
                     frame : 0 .. MaxFrames, result : {"none", "error", "part", "packet", "all"}])
  /\ queue \in Seq(Frame) /\ free \in 0 .. BufferCount
  /\ sending \in {"none", "header", "body"} /\ armed \in BOOLEAN
  /\ is_live \in BOOLEAN /\ shut \in BOOLEAN /\ closer \in {"idle", "checked", "done"}
  /\ destroyed \in Nat /\ posted \in 0 .. MaxFrames
  /\ wire \in Seq(Frame) /\ fault \in BOOLEAN

\* Every buffer is in the pool or in the queue: none is lost when a frame is
\* dropped, sent or thrown away by a close, however often the session is closed.
PoolBalanced == free + Len(queue) = BufferCount

\* Two sends are never in progress at once, which would mix their bytes, and
\* whenever a live session has a frame one is: the queue never waits for nothing.
OneSend ==
  /\ sending # "none" => Completions = {}
  /\ \A i, j \in Completions : i = j
  /\ is_live /\ queue # <<>> => sending # "none" \/ Completions # {}

\* Frames leave in the order they were written, each at most once; some may be
\* missing.
FramesInOrder == \A i, j \in DOMAIN wire : i < j => wire[i] < wire[j]

\* The manager is told of a close once, although the timer, a failed send and
\* another thread may all close the session.
DestroyedOnce == destroyed <= 1

\* As long as the session is open, no handler takes the front of an empty queue.
\* Write posts "to the executor for synchronization", which does not keep a close
\* from emptying the queue between the end of a send and its handler.
FaultOnlyClosed == fault => ~is_live

\* "if the server is really stuck, it will signal a close on write_timeout": a
\* send ends, or the session closes, even if the socket never answers.
StuckIsClosed == (sending # "none" /\ is_live) ~> (sending = "none" \/ ~is_live)

\* A closed session gives its buffers back.
CloseReleases == (~is_live) ~> (fault \/ queue = <<>>)
=============================================================================
