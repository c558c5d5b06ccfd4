------------------------------ MODULE TcpClient ------------------------------
(***************************************************************************)
(* The tcp connection of a camera, headset or display to the server:       *)
(* connecting, reading or writing, noticing a loss and connecting again.   *)
(*                                                                         *)
(* The handlers of the socket and of the read timer run on one strand.     *)
(* Start, Stop and, for a camera, Post run on other threads and share the  *)
(* socket, the flags and the send queue with it.  A handler does not know  *)
(* which socket it was for: it uses the one that is there when it runs.    *)
(***************************************************************************)
EXTENDS Naturals, Sequences, FiniteSets

CONSTANTS
  MaxQueue,     \* buffers the encoder has to post
  MaxTimeouts,  \* bound: times the read timer runs out
  MaxStarts     \* bound: calls of Start

ASSUME BoundsAssumption == MaxQueue \in Nat /\ MaxTimeouts \in Nat /\ MaxStarts \in Nat

VARIABLES
  connection_type,  \* _connection_type: "camera" writes, "headset" (or display) reads
  is_stopped, is_connected,
  socket,    \* _socket: "null", "open" (not connected), "connecting", "connected"
  strand,    \* handlers posted and not yet run, in order
  sleeping,  \* the strand is in the sleep of startConnection(false)
  reads,     \* async_receives in progress on the socket
  sends,     \* async_sends in progress on the socket
  armed,     \* _read_timer is running
  frame,     \* what _receive_buffer and _header hold: "none", "part" of a frame, or
             \* "torn": the count of bytes was reset within a frame
  queue,     \* buffers in _send_buffer_queue
  post,      \* where the encoder's thread is in Post
  starter, stopper,  \* where other threads are in Start and Stop
  timeouts, starts,  \* counts of what is bounded
  late,      \* the timer's handler has run without a connection
  overlapped,  \* Start has been called before the handlers of a Stop had all run
  threw,     \* an exception has left the last attempt to connect
  raced,     \* a Post was under way during the last disconnect
  fault      \* front() or pop() of an empty queue, or a call on a null socket

ops == <<socket, reads, sends>>
conn == <<is_connected, ops, sleeping, frame, queue, raced>>
threads == <<post, starter, stopper>>
fixed == <<connection_type, timeouts, starts, late, overlapped, threw>>
vars == <<fixed, is_stopped, conn, strand, armed, threads, fault>>

ReadHandlers == {"read_part", "read_frame", "read_error"}
SendHandlers == {"send_part", "send_frame", "send_error"}
Handlers == {"connect_ok", "connect_error", "timer", "stop"} \union ReadHandlers \union SendHandlers

Init ==
  /\ connection_type \in {"camera", "headset"}
  /\ is_stopped = TRUE /\ is_connected = FALSE
  /\ socket = "null" /\ strand = <<>> /\ reads = 0 /\ sends = 0
  /\ sleeping = FALSE /\ armed = FALSE /\ frame = "none" /\ queue = 0
  /\ post = "idle" /\ starter = "idle" /\ stopper = "idle"
  /\ timeouts = 0 /\ starts = 0
  /\ late = FALSE /\ overlapped = FALSE /\ threw = FALSE
  /\ raced = FALSE /\ fault = FALSE

Runs(h) == ~fault /\ ~sleeping /\ strand # <<>> /\ Head(strand) = h
Rest == Tail(strand)
Live == ~is_stopped /\ is_connected

-----------------------------------------------------------------------------
(* The socket and the timer *)

\* A connection attempt ends.
ConnectDone(ok) ==
  /\ ~fault /\ socket = "connecting"
  /\ socket' = IF ok THEN "connected" ELSE "open"
  /\ strand' = Append(strand, IF ok THEN "connect_ok" ELSE "connect_error")
  /\ UNCHANGED <<fixed, is_stopped, is_connected, reads, sends, sleeping, frame, queue, raced,
                 armed, threads, fault>>

\* A read or a write ends: with an error, with part of a frame, or with the rest
\* of one.
TransferDone(h) ==
  /\ ~fault /\ socket # "connecting"
  /\ h \in {"read_error", "send_error"} \/ socket = "connected"
  /\ \/ /\ h \in ReadHandlers /\ reads > 0 /\ reads' = reads - 1 /\ UNCHANGED sends
     \/ /\ h \in SendHandlers /\ sends > 0 /\ sends' = sends - 1 /\ UNCHANGED reads
  /\ strand' = Append(strand, h)
  /\ UNCHANGED <<fixed, is_stopped, is_connected, socket, sleeping, frame, queue, raced,
                 armed, threads, fault>>

\* The timer runs out.  cancel comes too late for a handler that is posted.
TimerFires ==
  /\ ~fault /\ armed /\ timeouts < MaxTimeouts
  /\ timeouts' = timeouts + 1
  /\ armed' = FALSE /\ strand' = Append(strand, "timer")
  /\ UNCHANGED <<connection_type, starts, late, overlapped, threw, is_stopped, conn, threads, fault>>

\* startTimer and async_receive, async_send.
StartRead ==
  /\ armed' = TRUE
  /\ \/ socket # "null" /\ reads' = reads + 1 /\ UNCHANGED fault
     \/ socket = "null" /\ fault' = TRUE /\ UNCHANGED reads

StartSend ==
  \/ socket # "null" /\ sends' = sends + 1 /\ UNCHANGED fault
  \/ socket = "null" /\ fault' = TRUE /\ UNCHANGED sends

-----------------------------------------------------------------------------
(* Connecting *)

\* The end of startConnection, unless the client is stopped: make a socket if
\* there is none, ResetHeader and async_connect.  On a socket that is connecting
\* or connected this fails at once.  The constructor of a socket with a fixed port
\* throws when the port is still held: the caller is left by the exception, and
\* there is neither a socket nor an attempt.
Connect ==
  \/ is_stopped /\ UNCHANGED <<socket, strand, frame, threw>>
  \/ /\ ~is_stopped /\ socket = "null"
     /\ threw' = TRUE
     /\ UNCHANGED <<socket, strand, frame>>
  \/ /\ ~is_stopped
     /\ IF socket \in {"null", "open"}
        THEN socket' = "connecting" /\ UNCHANGED strand
        ELSE strand' = Append(strand, "connect_error") /\ UNCHANGED socket
     /\ frame' = IF frame = "part" THEN "torn" ELSE frame
     /\ threw' = FALSE

\* Variant: Start does not ask.
MayStartAlways == TRUE

MayStart == is_stopped

\* Start: the flag, and then startConnection(true), on the caller's thread.  A
\* headset's Start may be called, by the other client's handler, during Stop.
Start ==
  /\ ~fault /\ starter = "idle" /\ starts < MaxStarts /\ MayStart
  /\ connection_type = "camera" => stopper = "idle"
  /\ starts' = starts + 1
  /\ starter' = "starting" /\ is_stopped' = FALSE
  /\ overlapped' = (overlapped \/ stopper # "idle" \/ strand # <<>>)
  /\ UNCHANGED <<connection_type, timeouts, late, threw, conn, strand, armed, post, stopper, fault>>

StartConnection ==
  /\ ~fault /\ starter = "starting"
  /\ starter' = "idle"
  /\ Connect
  /\ UNCHANGED <<connection_type, timeouts, starts, late, overlapped, is_stopped, is_connected,
                 reads, sends, sleeping, queue, raced, armed, post, stopper, fault>>

\* startConnection(false) wakes up on the strand.
Wake ==
  /\ ~fault /\ sleeping
  /\ sleeping' = FALSE
  /\ Connect
  /\ UNCHANGED <<connection_type, timeouts, starts, late, overlapped, is_stopped, is_connected,
                 reads, sends, queue, raced, armed, threads, fault>>

\* async_connect's handler, connected: a headset starts to read, a camera waits
\* for something to write.
RunConnectOk ==
  /\ Runs("connect_ok") /\ strand' = Rest
  /\ \/ is_stopped /\ UNCHANGED <<is_connected, reads, armed, fault>>
     \/ /\ ~is_stopped /\ is_connected' = TRUE
        /\ IF connection_type = "headset" THEN StartRead
           ELSE fault' = (socket = "null") /\ UNCHANGED <<reads, armed>>
  /\ UNCHANGED <<fixed, is_stopped, socket, sends, sleeping, frame, queue, raced, threads>>

\* Variant: after a failed attempt there is no other.
RetriesNever == FALSE

\* startConnection(false): sleep and try again.
Retries == ~is_stopped

\* The handler, not connected.
RunConnectError ==
  /\ Runs("connect_error") /\ strand' = Rest
  /\ sleeping' = Retries
  /\ UNCHANGED <<fixed, is_stopped, is_connected, ops, frame, queue, raced, armed, threads, fault>>

-----------------------------------------------------------------------------
(* Losing a connection *)

\* What is in progress on a socket that is destroyed ends with operation_aborted;
\* for a read that has no effect.
Aborted ==
  (IF socket = "connecting" THEN <<"connect_error">> ELSE <<>>)
    \o [i \in 1 .. sends |-> "send_error"]

\* Variant: the queue is left as it is.
NotEmptied == UNCHANGED queue

\* The send queue of a camera, nothing for a headset.
Emptied == queue' = 0

\* disconnect, called by a handler.  The timer is left as it is.
Disconnect ==
  /\ is_connected' = FALSE
  /\ socket' = "null" /\ reads' = 0 /\ sends' = 0
  /\ strand' = Rest \o Aborted
  /\ raced' = (post # "idle")
  /\ frame' = "none" /\ Emptied

Reconnect == Disconnect /\ sleeping' = ~is_stopped

\* The timer's handler asks nothing.
RunTimer ==
  /\ Runs("timer")
  /\ Reconnect
  /\ late' = (late \/ ~is_connected)
  /\ UNCHANGED <<connection_type, timeouts, starts, overlapped, threw, is_stopped, armed, threads,
                 fault>>

\* Stop: the flag, and then the post of a handler that is waited for.
Stop ==
  /\ ~fault /\ stopper = "idle" /\ ~is_stopped
  /\ connection_type = "camera" => starter = "idle"
  /\ is_stopped' = TRUE /\ stopper' = "flagged"
  /\ UNCHANGED <<fixed, conn, strand, armed, post, starter, fault>>

PostStop ==
  /\ ~fault /\ stopper = "flagged"
  /\ stopper' = "waiting" /\ strand' = Append(strand, "stop")
  /\ UNCHANGED <<fixed, is_stopped, conn, armed, post, starter, fault>>

\* Variant: the promise is kept only if there was a socket.
KeptIfOpen == IF socket = "null" THEN stopper ELSE "idle"

\* set_value: Stop returns.
Kept == "idle"

RunStop ==
  /\ Runs("stop")
  /\ Disconnect
  /\ stopper' = Kept
  /\ UNCHANGED <<fixed, is_stopped, sleeping, armed, post, starter, fault>>

-----------------------------------------------------------------------------
(* Reading: readHeader, readBody *)

\* A read got part of a frame, or the last of it, which is passed on.  The next
\* read is started.
RunRead(h) ==
  /\ h \in {"read_part", "read_frame"} /\ Runs(h) /\ strand' = Rest
  /\ \/ /\ Live /\ StartRead
        /\ frame' = IF frame = "torn" THEN "torn" ELSE IF h = "read_part" THEN "part" ELSE "none"
     \/ ~Live /\ armed' = FALSE /\ UNCHANGED <<reads, frame, fault>>
  /\ UNCHANGED <<fixed, is_stopped, is_connected, socket, sends, sleeping, queue, raced, threads>>

RunReadError ==
  /\ Runs("read_error")
  /\ armed' = FALSE
  /\ \/ Live /\ Reconnect
     \/ ~Live /\ strand' = Rest /\ UNCHANGED conn
  /\ UNCHANGED <<fixed, is_stopped, threads, fault>>

-----------------------------------------------------------------------------
(* Writing: Post, writeHeader, writeBody *)

\* Post is four steps of the encoder's thread: the test of the flags, the push,
\* SetupHeader of the front of the queue with the test of writeHeader, async_send.
PostCheck ==
  /\ ~fault /\ connection_type = "camera" /\ post = "idle" /\ queue < MaxQueue
  /\ Live
  /\ post' = "checked"
  /\ UNCHANGED <<fixed, is_stopped, conn, strand, armed, starter, stopper, fault>>

Push == queue' = queue + 1

PostPush ==
  /\ ~fault /\ post = "checked"
  /\ Push
  /\ post' = IF queue = 0 THEN "first" ELSE "idle"
  /\ UNCHANGED <<fixed, is_stopped, is_connected, ops, sleeping, frame, raced, strand, armed,
                 starter, stopper, fault>>

PostSetup ==
  /\ ~fault /\ post = "first"
  /\ fault' = (queue = 0)
  /\ post' = IF Live THEN "send" ELSE "idle"
  /\ UNCHANGED <<fixed, is_stopped, conn, strand, armed, starter, stopper>>

PostSend ==
  /\ ~fault /\ post = "send"
  /\ post' = "idle"
  /\ StartSend
  /\ UNCHANGED <<fixed, is_stopped, is_connected, socket, reads, sleeping, frame, queue, raced,
                 strand, armed, starter, stopper>>

\* Variant: it is not asked whether there is a next frame.
PopFrameGoesOn ==
  \/ queue = 0 /\ fault' = TRUE /\ UNCHANGED <<queue, sends>>
  \/ queue > 0 /\ queue' = queue - 1 /\ StartSend

\* A frame is out: pop it, and begin with the next one if there is one.
PopFrame ==
  \/ queue = 0 /\ fault' = TRUE /\ UNCHANGED <<queue, sends>>
  \/ queue = 1 /\ queue' = 0 /\ UNCHANGED <<sends, fault>>
  \/ queue > 1 /\ queue' = queue - 1 /\ StartSend

\* Part of a frame is out: go on with it.  Only a body takes the front.
RunSend(h) ==
  /\ h \in {"send_part", "send_frame"} /\ Runs(h) /\ strand' = Rest
  /\ \/ Live /\ h = "send_frame" /\ PopFrame
     \/ Live /\ h = "send_part" /\ StartSend /\ UNCHANGED queue
     \/ Live /\ h = "send_part" /\ queue = 0 /\ fault' = TRUE /\ UNCHANGED <<queue, sends>>
     \/ ~Live /\ UNCHANGED <<sends, queue, fault>>
  /\ UNCHANGED <<fixed, is_stopped, is_connected, socket, reads, sleeping, frame, raced, armed, threads>>

RunSendError ==
  /\ Runs("send_error")
  /\ \/ Live /\ Reconnect
     \/ ~Live /\ strand' = Rest /\ UNCHANGED conn
  /\ UNCHANGED <<fixed, is_stopped, armed, threads, fault>>

-----------------------------------------------------------------------------

Strand ==
  \/ Wake \/ RunConnectOk \/ RunConnectError \/ RunTimer \/ RunStop
  \/ \E h \in Handlers : RunRead(h) \/ RunSend(h)
  \/ RunReadError \/ RunSendError

Next ==
  \/ \E ok \in BOOLEAN : ConnectDone(ok)
  \/ \E h \in Handlers : TransferDone(h)
  \/ TimerFires
  \/ Start \/ StartConnection
  \/ Stop \/ PostStop
  \/ PostCheck \/ PostPush \/ PostSetup \/ PostSend
  \/ Strand

\* The strand runs what is posted; calls under way go on.
Fairness == WF_vars(Strand) /\ WF_vars(PostStop)

Spec == Init /\ [][Next]_vars /\ Fairness

-----------------------------------------------------------------------------
(* Properties *)

Waiting(hs) == Cardinality({i \in DOMAIN strand : strand[i] \in hs})

\* Connection attempts: in progress, ended but not handled, or about to be made.
Chains == Waiting({"connect_ok", "connect_error"})
            + (IF socket = "connecting" THEN 1 ELSE 0) + (IF sleeping THEN 1 ELSE 0)
            + (IF starter = "starting" /\ ~is_stopped THEN 1 ELSE 0)

Reads == reads + Waiting(ReadHandlers)
Sends == sends + Waiting(SendHandlers)

TypeOK ==
  /\ connection_type \in {"camera", "headset"}
  /\ is_stopped \in BOOLEAN /\ is_connected \in BOOLEAN
  /\ socket \in {"null", "open", "connecting", "connected"}
  /\ strand \in Seq(Handlers) /\ sleeping \in BOOLEAN
  /\ reads \in Nat /\ sends \in Nat /\ armed \in BOOLEAN
  /\ frame \in {"none", "part", "torn"} /\ queue \in 0 .. MaxQueue
  /\ post \in {"idle", "checked", "first", "send"}
  /\ starter \in {"idle", "starting"} /\ stopper \in {"idle", "flagged", "waiting"}
  /\ timeouts \in 0 .. MaxTimeouts /\ starts \in 0 .. MaxStarts
  /\ late \in BOOLEAN /\ overlapped \in BOOLEAN /\ threw \in BOOLEAN /\ raced \in BOOLEAN /\ fault \in BOOLEAN

\* A client that was started gives up only when its last attempt to connect was
\* left by the exception of a fixed port that is still held: otherwise, when it is
\* not connected it is trying to be or its timer will make it, and when a headset
\* is connected it is reading, so that a loss is noticed.
NeverAbandoned ==
  ~is_stopped /\ stopper = "idle" /\ ~overlapped /\ ~fault =>
    /\ ~is_connected /\ ~threw => Chains > 0 \/ armed \/ Waiting({"timer"}) > 0
    /\ is_connected /\ connection_type = "headset" => Reads > 0

\* There is one chain of attempts, none while connected, one read at a time, and
\* no frame loses count, unless the timer's handler has run without a connection,
\* or Start during Stop.
OneConnection ==
  TypeOK /\ (~late /\ ~overlapped =>
    /\ Chains + (IF is_connected THEN 1 ELSE 0) <= 1
    /\ Reads <= 1
    /\ frame # "torn")

\* While a camera is connected and has something queued it is sending it, and one
\* buffer at a time, unless a Post was under way when the connection was lost, or
\* Start came before the handlers of a Stop had run.
Sending ==
  ~raced /\ ~overlapped /\ Live =>
    /\ Sends <= 1
    /\ queue > 0 /\ post = "idle" => Sends = 1

\* A call finds the queue empty or the socket gone only then, or when the timer's
\* handler has taken the socket of a connection that is yet to be reported, and
\* the fixed port of the next one is still held.
FaultOnlyRaced == fault => raced \/ overlapped \/ (late /\ threw)

\* Stop returns.
StopCompletes == (stopper # "idle") ~> (stopper = "idle" \/ fault)
=============================================================================
