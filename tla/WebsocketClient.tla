--------------------------- MODULE WebsocketClient ---------------------------
(***************************************************************************)
(* The websocket of a headset or a display to the server, on which it asks *)
(* for another camera: connecting, the handshake, reading, writing what is *)
(* queued, and connecting again after a loss.                              *)
(*                                                                         *)
(* Handlers run on one strand.  Each carries the number of the session it  *)
(* was started for, and one of an earlier session has no effect, except    *)
(* that a message it has written is taken off the queue.  Start and Stop   *)
(* run on other threads and share the flag, the number and the stream.     *)
(***************************************************************************)
EXTENDS Naturals, Sequences, FiniteSets, SequencesExt

CONSTANTS
  UseFixedPort,  \* _use_fixed_port
  MaxMessages,  \* bound: messages the streamer posts
  MaxFailures,  \* bound: operations that fail, or bring a bad message
  MaxStarts     \* bound: calls of Start

ASSUME PortAssumption == UseFixedPort \in BOOLEAN
ASSUME BoundsAssumption == MaxMessages \in Nat /\ MaxFailures \in Nat /\ MaxStarts \in Nat

VARIABLES
  is_stopped, session_number,
  ws,        \* _ws: "null", or the stream and how far it is: "connecting",
             \* "handshaking", "open", "closing", "dead"
  ops,       \* operations in progress on the stream
  strand,    \* handlers posted and not yet run, in order
  inside,    \* where the handler is that has not returned: in the sleep of
             \* startConnection, or past the test of disconnect
  send_queue,
  told,      \* whether the manager was last told of a connection
  starter, stopper,  \* where other threads are in Start and Stop
  posted, failures, starts,  \* counts of what is bounded
  wire,      \* messages written
  early,     \* a write was started before the handshake's handler had run
  raced,     \* Stop has incremented the number between disconnect's test and increment
  overlapped,  \* Start has been called before the handlers of a Stop had all run
  threw,     \* an exception was thrown: by the "bind" of a new stream, by "shutdown"
  fault      \* two writes at a time, a call on a null stream, a pop of what is not there

stream == <<ws, ops>>
messages == <<send_queue, wire, early>>
threads == <<starter, stopper>>
counts == <<posted, failures, starts>>
flags == <<raced, overlapped, threw>>
vars == <<is_stopped, session_number, stream, strand, inside, messages, told,
          threads, counts, flags, fault>>

\* An operation: what it does, the session it is for, and what it writes.  Its
\* handler is posted with the outcome.  Stop and messages are posted too.
Op(name, n, m) == [op |-> name, num |-> n, msg |-> m]
Done(o, r) == [op |-> o.op, num |-> o.num, msg |-> o.msg, result |-> r]
At(place, n) == [at |-> place, num |-> n]
Nowhere == At("no", 0)

Init ==
  /\ is_stopped = TRUE /\ session_number = 0
  /\ ws = "null" /\ ops = {} /\ strand = <<>> /\ inside = Nowhere
  /\ send_queue = <<>> /\ told = FALSE
  /\ starter = Nowhere /\ stopper = "idle"
  /\ posted = 0 /\ failures = 0 /\ starts = 0 /\ wire = <<>>
  /\ early = FALSE /\ raced = FALSE /\ overlapped = FALSE /\ threw = {} /\ fault = FALSE

Runs(h) == ~fault /\ inside = Nowhere /\ strand # <<>> /\ Head(strand).op = h
Handler == Head(strand)
Rest == Tail(strand)
Current(n) == ~is_stopped /\ n = session_number

-----------------------------------------------------------------------------
(* The stream *)

\* How far the stream is after operation o.
Reached(o, r) ==
  CASE o.op = "close" -> "dead"
    [] ws \in {"closing", "dead"} -> ws
    [] r = "error" -> "dead"
    [] o.op = "handshake" -> "open"
    [] OTHER -> ws

\* An operation ends.  On a dead stream it fails, on one that is being closed it
\* may; a write started during the handshake may do either.  A read brings a ping
\* or a message, or one that is bad.  Handlers without effect are left out.
OpDone(o, r) ==
  /\ ~fault /\ o \in ops
  /\ r = "bad" => o.op = "read"
  /\ ws = "dead" => r = "error"
  /\ failures' = IF r # "ok" /\ ws \notin {"closing", "dead"} THEN failures + 1 ELSE failures
  /\ failures' <= MaxFailures
  /\ ops' = ops \ {o} /\ ws' = Reached(o, r)
  /\ wire' = IF o.op = "write" /\ r = "ok" THEN Append(wire, o.msg) ELSE wire
  /\ strand' = IF o.num = session_number \/ (o.op = "write" /\ r = "ok")
               THEN Append(strand, Done(o, r)) ELSE strand
  /\ UNCHANGED <<is_stopped, session_number, inside, send_queue, early, told,
                 threads, posted, starts, flags, fault>>

\* What is in progress on a stream that is destroyed is aborted; for an earlier
\* session that has no effect.
Aborted ==
  LET s == SetToSeq({o \in ops : o.num = session_number})
  IN [i \in DOMAIN s |-> Done(s[i], "error")]

-----------------------------------------------------------------------------
(* Connecting *)

\* startConnection after its test and its sleep: a new stream, and async_connect.
\* Binding the fixed port fails while the old stream has it; nothing catches that.
NewStream(n, before) ==
  \/ /\ ws' = "connecting" /\ ops' = {Op("connect", n, 0)}
     /\ strand' = before \o Aborted
     /\ UNCHANGED threw
  \/ /\ UseFixedPort /\ ws # "null"
     /\ threw' = threw \union {"bind"}
     /\ strand' = before /\ UNCHANGED <<ws, ops>>

Start ==
  /\ ~fault /\ is_stopped /\ starter = Nowhere /\ starts < MaxStarts
  /\ starts' = starts + 1
  /\ is_stopped' = FALSE
  /\ starter' = At("starting", session_number)
  /\ overlapped' = (overlapped \/ stopper # "idle" \/ strand # <<>> \/ inside # Nowhere)
  /\ UNCHANGED <<session_number, stream, strand, inside, messages, told, stopper,
                 posted, failures, raced, threw, fault>>

\* startConnection(n, true), on the thread of Start.
StartConnection ==
  /\ ~fault /\ starter # Nowhere
  /\ starter' = Nowhere
  /\ IF Current(starter.num) THEN NewStream(starter.num, strand)
     ELSE UNCHANGED <<stream, strand, threw>>
  /\ UNCHANGED <<is_stopped, session_number, inside, messages, told, stopper,
                 counts, raced, overlapped, fault>>

\* startConnection(n, false): its test, and then the sleep.  What follows asks
\* nothing.
Retry(n) == inside' = IF Current(n) THEN At("sleep", n) ELSE Nowhere

Wake ==
  /\ ~fault /\ inside.at = "sleep"
  /\ inside' = Nowhere
  /\ NewStream(inside.num, strand)
  /\ UNCHANGED <<is_stopped, session_number, messages, told, threads, counts,
                 raced, overlapped, fault>>

OnConnection ==
  /\ Runs("connect") /\ strand' = Rest
  /\ LET ok == Current(Handler.num) /\ Handler.result = "ok" IN
     \/ /\ ok /\ ws # "null"
        /\ ws' = "handshaking" /\ ops' = ops \union {Op("handshake", Handler.num, 0)}
        /\ UNCHANGED <<inside, fault>>
     \/ ok /\ ws = "null" /\ fault' = TRUE /\ UNCHANGED <<stream, inside>>
     \/ ~ok /\ Retry(Handler.num) /\ UNCHANGED <<stream, fault>>
  /\ UNCHANGED <<is_stopped, session_number, messages, told, threads, counts, flags>>

-----------------------------------------------------------------------------
(* Writing *)

\* The handshake of session n has not been handled.
Shaking(n) ==
  \/ Op("handshake", n, 0) \in ops
  \/ \E i \in DOMAIN Rest : Rest[i].op = "handshake" /\ Rest[i].num = n

\* Nothing is written; a read may be started.
NoWrite(reading) ==
  /\ strand' = Rest /\ ops' = ops \union reading
  /\ fault' = (reading # {} /\ ws = "null")
  /\ UNCHANGED early

\* doWrite of the front of queue q, in session n: on a stream that is not
\* connected, or no longer, async_write fails at once.
DoWrite(q, n, reading) ==
  LET o == Op("write", n, Head(q)) IN
  \/ /\ ws \in {"handshaking", "open", "closing"}
     /\ ops' = ops \union reading \union {o}
     /\ strand' = Rest
     /\ early' = (early \/ Shaking(n))
     /\ fault' = \E p \in ops : p.op = "write"
  \/ /\ ws \in {"connecting", "dead"}
     /\ strand' = Append(Rest, Done(o, "error"))
     /\ ops' = ops \union reading /\ UNCHANGED <<early, fault>>
  \/ ws = "null" /\ NoWrite(reading)

\* PostWebsocketClientMessage.
Post ==
  /\ ~fault /\ ~is_stopped /\ posted < MaxMessages
  /\ posted' = posted + 1
  /\ strand' = Append(strand, Done(Op("post", 0, posted + 1), "ok"))
  /\ UNCHANGED <<is_stopped, session_number, stream, inside, messages, told,
                 threads, failures, starts, flags, fault>>

\* Variant: each message is written as it comes.
WritesAlone(q) == TRUE

\* The message is the only one in the queue.
WritesFirst(q) == Len(q) = 1

\* write: the message is queued even if the client has been stopped.
Write ==
  /\ Runs("post")
  /\ LET q == Append(send_queue, Handler.msg) IN
     /\ send_queue' = q
     /\ IF WritesFirst(q) /\ ~is_stopped THEN DoWrite(q, session_number, {}) ELSE NoWrite({})
  /\ UNCHANGED <<is_stopped, session_number, ws, inside, wire, told, threads,
                 counts, flags>>

\* Variant: a handler of an earlier session does not touch the queue.
OnWriteOkOwn ==
  /\ send_queue' = IF Handler.num = session_number THEN Tail(send_queue) ELSE send_queue
  /\ IF Handler.num = session_number /\ Len(send_queue) > 1
     THEN DoWrite(Tail(send_queue), Handler.num, {}) ELSE NoWrite({})

\* What was written is taken off the queue, whichever session has written it.
OnWriteOk ==
  /\ send_queue' = Tail(send_queue)
  /\ IF Handler.num = session_number /\ Len(send_queue) > 1
     THEN DoWrite(Tail(send_queue), Handler.num, {}) ELSE NoWrite({})

\* disconnect's test, passed: the rest is Leave.
Disconnects == Current(Handler.num) /\ inside' = At("leave", Handler.num)

OnWrite ==
  /\ Runs("write")
  /\ LET front == send_queue # <<>> /\ Head(send_queue) = Handler.msg IN
     \/ /\ ~is_stopped /\ Handler.result = "ok" /\ front
        /\ OnWriteOk /\ UNCHANGED inside
     \/ /\ ~is_stopped /\ Handler.result = "ok" /\ ~front
        /\ fault' = TRUE /\ strand' = Rest /\ UNCHANGED <<send_queue, ops, early, inside>>
     \/ /\ Handler.result # "ok" /\ Disconnects
        /\ NoWrite({}) /\ UNCHANGED send_queue
     \/ /\ is_stopped \/ (Handler.result # "ok" /\ ~Current(Handler.num))
        /\ NoWrite({}) /\ UNCHANGED <<send_queue, inside>>
  /\ UNCHANGED <<is_stopped, session_number, ws, wire, told, threads, counts, flags>>

-----------------------------------------------------------------------------
(* The handshake and reading *)

OnHandshake ==
  /\ Runs("handshake")
  /\ LET reading == {Op("read", Handler.num, 0)} IN
     \/ /\ Current(Handler.num) /\ Handler.result = "ok"
        /\ told' = TRUE
        /\ IF send_queue # <<>> THEN DoWrite(send_queue, Handler.num, reading) ELSE NoWrite(reading)
        /\ UNCHANGED inside
     \/ Handler.result # "ok" /\ Disconnects /\ NoWrite({}) /\ UNCHANGED told
     \/ ~Current(Handler.num) /\ NoWrite({}) /\ UNCHANGED <<told, inside>>
  /\ UNCHANGED <<is_stopped, session_number, ws, send_queue, wire, threads,
                 counts, flags>>

\* A ping or a message, and the next read; a bad message or an error.
OnRead ==
  /\ Runs("read")
  /\ \/ /\ Current(Handler.num) /\ Handler.result = "ok"
        /\ NoWrite({Op("read", Handler.num, 0)}) /\ UNCHANGED inside
     \/ Handler.result # "ok" /\ Disconnects /\ NoWrite({})
     \/ ~Current(Handler.num) /\ NoWrite({}) /\ UNCHANGED inside
  /\ UNCHANGED <<is_stopped, session_number, ws, send_queue, wire, told, threads,
                 counts, flags>>

-----------------------------------------------------------------------------
(* Losing a connection *)

\* Variant: the number stays as it is.
NumberKept == session_number

NextNumber == session_number + 1

Writes == {o \in ops : o.op = "write"}

\* disconnect: a new number, and the manager is told; a stream that is open is
\* closed first, otherwise the next attempt follows.  Of what was in progress only
\* a write can still have an effect.
Leave ==
  /\ ~fault /\ inside.at = "leave"
  /\ session_number' = NextNumber
  /\ told' = FALSE
  /\ \/ /\ ws = "open" /\ ws' = "closing"
        /\ ops' = Writes \union {Op("close", NextNumber, 0)}
        /\ inside' = Nowhere
     \/ /\ ws # "open" /\ ops' = Writes /\ UNCHANGED ws
        /\ inside' = IF is_stopped THEN Nowhere ELSE At("sleep", NextNumber)
  /\ UNCHANGED <<is_stopped, strand, messages, threads, counts, flags, fault>>

OnDisconnect ==
  /\ Runs("close") /\ strand' = Rest
  /\ Retry(Handler.num)
  /\ UNCHANGED <<is_stopped, session_number, stream, messages, told, threads,
                 counts, flags, fault>>

\* Stop: the flag; the number, and the post of a handler that is waited for.
Stop ==
  /\ ~fault /\ ~is_stopped /\ stopper = "idle"
  /\ is_stopped' = TRUE /\ stopper' = "flagged"
  /\ UNCHANGED <<session_number, stream, strand, inside, messages, told, starter,
                 counts, flags, fault>>

PostStop ==
  /\ ~fault /\ stopper = "flagged"
  /\ stopper' = "waiting"
  /\ session_number' = session_number + 1
  /\ strand' = Append(strand, Done(Op("stop", 0, 0), "ok"))
  /\ raced' = (raced \/ inside.at = "leave")
  /\ UNCHANGED <<is_stopped, stream, inside, messages, told, starter, counts,
                 overlapped, threw, fault>>

\* Variant: the promise is kept only if there was a stream.
StopToldIfOpen ==
  /\ told' = FALSE
  /\ stopper' = IF ws = "null" THEN stopper ELSE "idle"

StopTold == told' = FALSE /\ stopper' = "idle"

\* The handler.  Shutting down a socket that is not connected may throw: the
\* stream stays, the manager is not told, and the broken promise ends the wait.
RunStop ==
  /\ Runs("stop")
  /\ \/ /\ ws' = "null" /\ ops' = {}
        /\ strand' = Rest \o Aborted
        /\ StopTold /\ UNCHANGED threw
     \/ /\ ws \in {"connecting", "dead"}
        /\ strand' = Rest
        /\ threw' = threw \union {"shutdown"} /\ stopper' = "idle"
        /\ UNCHANGED <<stream, told>>
  /\ UNCHANGED <<is_stopped, session_number, inside, messages, starter, counts,
                 raced, overlapped, fault>>

-----------------------------------------------------------------------------

Strand ==
  \/ Wake \/ Leave \/ OnConnection \/ OnHandshake \/ OnRead \/ Write \/ OnWrite
  \/ OnDisconnect \/ RunStop

Next ==
  \/ \E o \in ops, r \in {"ok", "bad", "error"} : OpDone(o, r)
  \/ Start \/ StartConnection
  \/ Stop \/ PostStop
  \/ Post
  \/ Strand

\* The strand runs what is posted; calls under way go on.
Fairness == WF_vars(Strand) /\ WF_vars(PostStop)

Spec == Init /\ [][Next]_vars /\ Fairness

-----------------------------------------------------------------------------
(* Properties *)

TypeOK ==
  /\ is_stopped \in BOOLEAN /\ session_number \in Nat
  /\ ws \in {"null", "connecting", "handshaking", "open", "closing", "dead"}
  /\ \A o \in ops : o.op \in {"connect", "handshake", "read", "write", "close"}
  /\ inside.at \in {"no", "sleep", "leave"} /\ starter.at \in {"no", "starting"}
  /\ send_queue \in Seq(1 .. MaxMessages) /\ wire \in Seq(1 .. MaxMessages)
  /\ stopper \in {"idle", "flagged", "waiting"} /\ threw \subseteq {"bind", "shutdown"}
  /\ posted \in 0 .. MaxMessages /\ failures \in 0 .. MaxFailures /\ starts \in 0 .. MaxStarts
  /\ told \in BOOLEAN /\ early \in BOOLEAN
  /\ raced \in BOOLEAN /\ overlapped \in BOOLEAN /\ fault \in BOOLEAN

Handling(n, hs) == Cardinality({i \in DOMAIN strand : strand[i].num = n /\ strand[i].op \in hs})
Doing(n, hs) == Cardinality({o \in ops : o.num = n /\ o.op \in hs})
Busy(p) == IF p.at # "no" /\ p.num = session_number THEN 1 ELSE 0

\* What keeps the current session going.
Chains ==
  LET hs == {"connect", "handshake", "read", "close"}
  IN Handling(session_number, hs) + Doing(session_number, hs) + Busy(inside) + Busy(starter)

\* The usual course: no Start during Stop, no Stop within disconnect, no port that
\* could not be bound.
Regular == ~overlapped /\ ~raced /\ "bind" \notin threw /\ ~fault

Reading == Doing(session_number, {"read"}) + Handling(session_number, {"read"})

\* A client that was started is doing exactly one thing to get, or to notice the
\* loss of, its connection: no second chain of attempts, none that ended.  The
\* manager has been told of a connection exactly if the client is reading (unless a
\* Stop threw before it could tell).
OneChain ==
  Regular /\ ~is_stopped /\ inside.at # "leave" =>
    /\ Chains = 1
    /\ threw = {} => (told <=> Reading = 1)

\* The queue without the message whose write has ended.
Unwritten ==
  IF \E i \in DOMAIN strand : strand[i].op = "write" /\ strand[i].result = "ok"
  THEN Tail(send_queue) ELSE send_queue

\* The messages that write has not been called for yet.
Unposted == {i \in DOMAIN strand : strand[i].op = "post"}

\* Over any losses and reconnections, every message is written once and in the
\* order posted: what is written, what is queued and what is posted make up all.
\* Only Stop repeats one, since a write that ended is then not taken off the queue,
\* and a message posted before the handshake's handler has run.
MessagesInOrder ==
  TypeOK /\ (starts <= 1 /\ ~is_stopped /\ ~early =>
    LET taken == wire \o Unwritten IN
    /\ \A i \in 1 .. Len(taken) : taken[i] = i
    /\ {strand[i].msg : i \in Unposted} = Len(taken) + 1 .. posted
    /\ \A i, j \in Unposted : i < j => strand[i].msg < strand[j].msg)

\* A connected client with a message queued is writing it, once.  Two writes at a
\* time, and a call on no stream, come only of a message posted before the
\* handshake's handler ran, of Start during Stop or of Stop within disconnect.
OneWrite ==
  /\ Regular /\ ~early /\ ~is_stopped /\ Reading = 1 /\ inside = Nowhere /\ send_queue # <<>> =>
       Doing(session_number, {"write"}) + Handling(session_number, {"write"}) = 1
  /\ fault => early \/ overlapped \/ raced

\* Stop returns, and then the manager knows that there is no connection, unless
\* the socket's shutdown threw or the client was started again.
StopCompletes ==
  /\ (stopper # "idle") ~> (stopper = "idle" \/ fault)
  /\ [](is_stopped /\ stopper = "idle" /\ Regular /\ threw = {} => ~told)
=============================================================================
