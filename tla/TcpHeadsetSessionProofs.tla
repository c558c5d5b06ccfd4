----------------------- MODULE TcpHeadsetSessionProofs -----------------------
(***************************************************************************)
(* Proofs about TcpHeadsetSession, for any number of buffers and frames.   *)
(***************************************************************************)
EXTENDS TcpHeadsetSession, SequenceTheorems, TLAPS

HandlerType == [kind : {"write", "header", "body", "timer", "close"},
                frame : 0 .. MaxFrames, result : {"none", "error", "part", "packet", "all"}]

\* What TypeOK says but for the bound of free, which is PoolBalanced's.
Types ==
  /\ strand \in Seq(HandlerType)
  /\ \A i \in 1 .. Len(strand) : strand[i].kind = "write" => strand[i].frame \in Frame
  /\ queue \in Seq(Frame) /\ free \in Nat
  /\ sending \in {"none", "header", "body"} /\ armed \in BOOLEAN
  /\ is_live \in BOOLEAN /\ shut \in BOOLEAN /\ closer \in {"idle", "checked", "done"}
  /\ destroyed \in Nat /\ posted \in 0 .. MaxFrames
  /\ wire \in Seq(Frame) /\ fault \in BOOLEAN

\* The manager was told only if the session is closed.
ToldClosed == destroyed <= 1 /\ (is_live => destroyed = 0)

Inv == Types /\ PoolBalanced /\ ToldClosed

LEMMA InitInv == Init => Inv
<1> SUFFICES ASSUME Init PROVE Inv
  OBVIOUS
<1>1. Types
  <2>1. strand = <<>> /\ Len(strand) = 0 /\ queue = <<>> /\ wire = <<>>
    BY DEF Init
  <2>2. strand \in Seq(HandlerType) /\ queue \in Seq(Frame) /\ wire \in Seq(Frame)
    BY <2>1
  <2>3. free \in Nat /\ posted \in 0 .. MaxFrames /\ destroyed \in Nat
    BY BufferCountAssumption, MaxFramesAssumption DEF Init
  <2>4. \A i \in 1 .. Len(strand) : strand[i].kind = "write" => strand[i].frame \in Frame
    BY <2>1
  <2>5. /\ sending \in {"none", "header", "body"} /\ armed \in BOOLEAN /\ is_live \in BOOLEAN
        /\ shut \in BOOLEAN /\ closer \in {"idle", "checked", "done"} /\ fault \in BOOLEAN
    BY Zenon DEF Init
  <2> QED BY <2>2, <2>3, <2>4, <2>5 DEF Types
<1>2. PoolBalanced
  <2>1. queue = <<>> /\ Len(queue) = 0 /\ free = BufferCount /\ BufferCount \in Nat
    BY BufferCountAssumption DEF Init
  <2> QED BY <2>1 DEF PoolBalanced
<1> QED BY <1>1, <1>2 DEF Init, Inv, ToldClosed

\* Taking a handler from the strand keeps its type.
LEMMA RunsTypes ==
  ASSUME NEW k, Types, Runs(k)
  PROVE /\ strand' \in Seq(HandlerType)
        /\ \A i \in 1 .. Len(strand') : strand'[i].kind = "write" => strand'[i].frame \in Frame
        /\ Head(strand) \in HandlerType
        /\ Head(strand).kind = "write" => Head(strand).frame \in Frame
        /\ Head(strand).kind = k
  <1>1. strand # <<>> /\ strand' = Tail(strand) /\ Head(strand).kind = k
    BY DEF Runs
  <1>2. /\ strand' \in Seq(HandlerType) /\ Head(strand) \in HandlerType
        /\ Head(strand) = strand[1] /\ 1 \in 1 .. Len(strand)
    BY <1>1 DEF Types
  <1>3. Len(strand') = Len(strand) - 1 /\ \A i \in 1 .. Len(strand') : strand'[i] = strand[i + 1]
    BY <1>1 DEF Types
  <1> QED BY <1>1, <1>2, <1>3 DEF Types

LEMMA PostTypes ==
  ASSUME NEW h \in HandlerType, h.kind = "write" => h.frame \in Frame, Types, Post(h)
  PROVE /\ strand' \in Seq(HandlerType)
        /\ \A i \in 1 .. Len(strand') : strand'[i].kind = "write" => strand'[i].frame \in Frame
  BY DEF Post, Types

\* Closing on the strand, which three handlers do.
LEMMA TryCloseInv ==
  ASSUME Inv, TryClose
  PROVE /\ queue' \in Seq(Frame) /\ free' \in Nat /\ PoolBalanced' /\ ToldClosed'
        /\ is_live' \in BOOLEAN /\ shut' \in BOOLEAN /\ destroyed' \in Nat
<1>1. CASE UNCHANGED <<is_live, shut, queue, free, destroyed>>
  BY <1>1 DEF Inv, Types, PoolBalanced, ToldClosed
<1>2. CASE is_live /\ is_live' = FALSE /\ shut' = TRUE /\ Emptied /\ destroyed' = destroyed + 1
  <2>1. queue' = <<>> /\ Len(queue') = 0 /\ Len(queue) \in Nat /\ free' = free + Len(queue)
    BY <1>2 DEF Emptied, Inv, Types
  <2>2. free' = BufferCount /\ BufferCount \in Nat
    BY <2>1, BufferCountAssumption DEF Inv, PoolBalanced
  <2>3. PoolBalanced'
    BY <2>1, <2>2 DEF PoolBalanced
  <2>4. destroyed' \in Nat /\ ToldClosed'
    BY <1>2 DEF Inv, Types, ToldClosed
  <2>5. queue' \in Seq(Frame)
    BY <2>1
  <2> QED BY <1>2, <2>2, <2>3, <2>4, <2>5
<1> QED BY <1>1, <1>2 DEF TryClose

LEMMA NextInv == Inv /\ [Next]_vars => Inv'
<1> SUFFICES ASSUME Inv, [Next]_vars PROVE Inv'
  OBVIOUS
<1> USE BufferCountAssumption, MaxFramesAssumption
<1>1. CASE Write
  <2>1. WriteHandler(posted + 1) \in HandlerType /\ WriteHandler(posted + 1).frame \in Frame
    BY <1>1 DEF Write, WriteHandler, HandlerType, Frame, Inv, Types
  <2>2. /\ strand' \in Seq(HandlerType)
        /\ \A i \in 1 .. Len(strand') : strand'[i].kind = "write" => strand'[i].frame \in Frame
    BY <1>1, <2>1, PostTypes DEF Write, Inv
  <2> QED BY <1>1, <2>2 DEF Write, Inv, Types, PoolBalanced, ToldClosed
<1>2. CASE \E x \in {"error", "part", "packet", "all"} : SocketDone(x)
  <2>1. PICK x \in {"error", "part", "packet", "all"} : SocketDone(x)
    BY <1>2
  <2>2. Handler(sending, x) \in HandlerType /\ Handler(sending, x).kind # "write"
    BY <2>1 DEF SocketDone, Handler, HandlerType, Inv, Types
  <2>3. /\ strand' \in Seq(HandlerType)
        /\ \A i \in 1 .. Len(strand') : strand'[i].kind = "write" => strand'[i].frame \in Frame
    BY <2>1, <2>2, PostTypes DEF SocketDone, Inv
  <2> QED BY <2>1, <2>3 DEF SocketDone, Inv, Types, PoolBalanced, ToldClosed
<1>3. CASE TimerFires
  <2>1. Handler("timer", "none") \in HandlerType /\ Handler("timer", "none").kind # "write"
    BY DEF Handler, HandlerType
  <2>2. /\ strand' \in Seq(HandlerType)
        /\ \A i \in 1 .. Len(strand') : strand'[i].kind = "write" => strand'[i].frame \in Frame
    BY <1>3, <2>1, PostTypes DEF TimerFires, Inv
  <2> QED BY <1>3, <2>2 DEF TimerFires, Inv, Types, PoolBalanced, ToldClosed
<1>4. CASE CloseChecked
  BY <1>4 DEF CloseChecked, Inv, Types, PoolBalanced, ToldClosed
<1>5. CASE ClosePosted
  <2>1. Handler("close", "none") \in HandlerType /\ Handler("close", "none").kind # "write"
    BY DEF Handler, HandlerType
  <2>2. /\ strand' \in Seq(HandlerType)
        /\ \A i \in 1 .. Len(strand') : strand'[i].kind = "write" => strand'[i].frame \in Frame
    BY <1>5, <2>1, PostTypes DEF ClosePosted, Inv
  <2> QED BY <1>5, <2>2 DEF ClosePosted, Inv, Types, PoolBalanced, ToldClosed
<1>6. CASE RunWrite
  <2> DEFINE f == Head(strand).frame
  <2>1. /\ strand' \in Seq(HandlerType) /\ f \in Frame
        /\ \A i \in 1 .. Len(strand') : strand'[i].kind = "write" => strand'[i].frame \in Frame
    BY <1>6, RunsTypes DEF RunWrite, Inv
  <2>2. CASE is_live /\ free > 0
    <3>1. /\ queue' = Append(queue, f) /\ free' = free - 1
          /\ IF queue = <<>> THEN StartSend("header") ELSE UNCHANGED <<sending, armed>>
      BY <1>6, <2>2 DEF RunWrite, Enqueue
    <3>2. sending' \in {"none", "header", "body"} /\ armed' \in BOOLEAN
      BY <3>1 DEF StartSend, Inv, Types
    <3>3. queue' \in Seq(Frame) /\ Len(queue') = Len(queue) + 1 /\ free' \in Nat
      BY <2>1, <2>2, <3>1 DEF Inv, Types
    <3>4. PoolBalanced'
      <4>1. free \in Nat /\ Len(queue) \in Nat /\ free + Len(queue) = BufferCount
        BY DEF Inv, Types, PoolBalanced
      <4>2. free' + Len(queue') = BufferCount
        BY <3>1, <3>3, <4>1
      <4> QED BY <4>2 DEF PoolBalanced
    <3> QED BY <1>6, <2>1, <3>2, <3>3, <3>4 DEF RunWrite, Inv, Types, ToldClosed
  <2>3. CASE ~(is_live /\ free > 0)
    BY <1>6, <2>1, <2>3 DEF RunWrite, Inv, Types, PoolBalanced, ToldClosed
  <2> QED BY <2>2, <2>3
<1>7. CASE RunError
  <2>1. PICK k : Runs(k)
    BY <1>7 DEF RunError
  <2>2. /\ strand' \in Seq(HandlerType)
        /\ \A i \in 1 .. Len(strand') : strand'[i].kind = "write" => strand'[i].frame \in Frame
    BY <2>1, RunsTypes DEF Inv
  <2> QED BY <1>7, <2>2, TryCloseInv DEF RunError, NoSend, Inv, Types
<1>8. CASE RunHeaderSent
  <2>1. /\ strand' \in Seq(HandlerType)
        /\ \A i \in 1 .. Len(strand') : strand'[i].kind = "write" => strand'[i].frame \in Frame
    BY <1>8, RunsTypes DEF RunHeaderSent, Inv
  <2> QED BY <1>8, <2>1 DEF RunHeaderSent, StartSend, NoSend, Inv, Types, PoolBalanced, ToldClosed
<1>9. CASE RunBodySent
  <2>1. /\ strand' \in Seq(HandlerType)
        /\ \A i \in 1 .. Len(strand') : strand'[i].kind = "write" => strand'[i].frame \in Frame
    BY <1>9, RunsTypes DEF RunBodySent, Inv
  <2>2. CASE PopFrame
    <3>1. /\ queue' \in Seq(Frame) /\ Len(queue') = Len(queue) - 1 /\ free' = free + 1
          /\ wire' \in Seq(Frame)
      BY <2>2 DEF PopFrame, Inv, Types
    <3>2. sending' \in {"none", "header", "body"} /\ armed' \in BOOLEAN /\ fault' = fault
      BY <2>2 DEF PopFrame, StartSend, NoSend
    <3> QED BY <1>9, <2>1, <3>1, <3>2 DEF RunBodySent, Inv, Types, PoolBalanced, ToldClosed
  <2>3. CASE UNCHANGED <<queue, free, wire>>
    BY <1>9, <2>1, <2>3 DEF RunBodySent, PopFrame, StartSend, NoSend, Inv, Types, PoolBalanced, ToldClosed
  <2> QED BY <1>9, <2>2, <2>3 DEF RunBodySent
<1>10. CASE RunTimer
  <2>1. /\ strand' \in Seq(HandlerType)
        /\ \A i \in 1 .. Len(strand') : strand'[i].kind = "write" => strand'[i].frame \in Frame
    BY <1>10, RunsTypes DEF RunTimer, Inv
  <2> QED BY <1>10, <2>1, TryCloseInv DEF RunTimer, Inv, Types
<1>11. CASE RunClose
  <2>1. /\ strand' \in Seq(HandlerType)
        /\ \A i \in 1 .. Len(strand') : strand'[i].kind = "write" => strand'[i].frame \in Frame
    BY <1>11, RunsTypes DEF RunClose, Inv
  <2> QED BY <1>11, <2>1 DEF RunClose, DoClose, Emptied, Inv, Types, PoolBalanced, ToldClosed, Frame
<1>12. CASE UNCHANGED vars
  BY <1>12 DEF vars, Inv, Types, PoolBalanced, ToldClosed
<1> QED
  BY <1>1, <1>2, <1>3, <1>4, <1>5, <1>6, <1>7, <1>8, <1>9, <1>10, <1>11, <1>12 DEF Next, Strand

LEMMA InvAlways == Spec => []Inv
  BY InitInv, NextInv, PTL DEF Spec

\* The session's variables keep their types; the pool never has more buffers than
\* it was made with.
THEOREM TypeCorrect == Spec => []TypeOK
<1>1. Inv => TypeOK
  BY BufferCountAssumption DEF Inv, Types, PoolBalanced, TypeOK, HandlerType
<1> QED BY <1>1, InvAlways, PTL

\* No buffer of the pool is lost or returned twice, whether a frame is sent,
\* dropped, or thrown away by one of the three ways to close a session.
THEOREM NoBufferLost == Spec => []PoolBalanced
<1>1. Inv => PoolBalanced
  BY DEF Inv
<1> QED BY <1>1, InvAlways, PTL

\* DestroyHeadsetServerConnection is called at most once in a session's life.
THEOREM ManagerToldOnce == Spec => []DestroyedOnce
<1>1. Inv => DestroyedOnce
  BY DEF Inv, ToldClosed, DestroyedOnce
<1> QED BY <1>1, InvAlways, PTL
-----------------------------------------------------------------------------
(* The order of frames *)

\* Frames of two sequences, and of the handlers of Write that wait in a strand.
Increasing(s) == \A i, j \in 1 .. Len(s) : i < j => s[i] < s[j]
Before(s, t) == \A i \in 1 .. Len(s), j \in 1 .. Len(t) : s[i] < t[j]
UpTo(s, n) == \A i \in 1 .. Len(s) : s[i] <= n

WritesIncreasing(st) ==
  \A i, j \in 1 .. Len(st) :
    i < j /\ st[i].kind = "write" /\ st[j].kind = "write" => st[i].frame < st[j].frame
BeforeWrites(s, st) ==
  \A i \in 1 .. Len(s), j \in 1 .. Len(st) : st[j].kind = "write" => s[i] < st[j].frame
WritesUpTo(st, n) == \A j \in 1 .. Len(st) : st[j].kind = "write" => st[j].frame <= n

\* What has gone out, what is in the queue and what is on its way to it: frames
\* in the order they were written.
Order ==
  /\ Increasing(wire) /\ Increasing(queue) /\ WritesIncreasing(strand)
  /\ Before(wire, queue) /\ BeforeWrites(wire, strand) /\ BeforeWrites(queue, strand)
  /\ UpTo(wire, posted) /\ UpTo(queue, posted) /\ WritesUpTo(strand, posted)

LEMMA InitOrder == Init => Order
<1> SUFFICES ASSUME Init PROVE Order
  OBVIOUS
<1>1. /\ strand = <<>> /\ queue = <<>> /\ wire = <<>>
      /\ Len(strand) = 0 /\ Len(queue) = 0 /\ Len(wire) = 0
  BY DEF Init
<1> QED
  BY <1>1 DEF Order, Increasing, Before, UpTo, WritesIncreasing, BeforeWrites, WritesUpTo

\* A handler leaves the strand.
LEMMA RunsOrder ==
  ASSUME Types, Order, NEW k, Runs(k)
  PROVE /\ WritesIncreasing(strand') /\ BeforeWrites(wire, strand') /\ BeforeWrites(queue, strand')
        /\ WritesUpTo(strand', posted)
        /\ k = "write" => /\ BeforeWrites(<<Head(strand).frame>>, strand')
                          /\ \A i \in 1 .. Len(wire) : wire[i] < Head(strand).frame
                          /\ \A i \in 1 .. Len(queue) : queue[i] < Head(strand).frame
                          /\ Head(strand).frame <= posted
<1>1. strand # <<>> /\ strand' = Tail(strand) /\ Head(strand).kind = k
  BY DEF Runs
<1>2. /\ Len(strand) \in Nat \ {0} /\ Head(strand) = strand[1] /\ 1 \in 1 .. Len(strand)
      /\ Len(strand') = Len(strand) - 1
      /\ \A i \in 1 .. Len(strand') : i + 1 \in 1 .. Len(strand) /\ strand'[i] = strand[i + 1]
  BY <1>1 DEF Types
<1>3. WritesIncreasing(strand')
  <2> SUFFICES ASSUME NEW i \in 1 .. Len(strand'), NEW j \in 1 .. Len(strand'), i < j,
                      strand'[i].kind = "write", strand'[j].kind = "write"
               PROVE strand'[i].frame < strand'[j].frame
    BY DEF WritesIncreasing
  <2>1. /\ i + 1 \in 1 .. Len(strand) /\ strand'[i] = strand[i + 1]
        /\ j + 1 \in 1 .. Len(strand) /\ strand'[j] = strand[j + 1]
    BY <1>2
  <2>2. i + 1 < j + 1
    BY <1>2
  <2> QED BY <2>1, <2>2 DEF Order, WritesIncreasing
<1>4. BeforeWrites(wire, strand') /\ BeforeWrites(queue, strand') /\ WritesUpTo(strand', posted)
  BY <1>2 DEF Order, BeforeWrites, WritesUpTo
<1>5. ASSUME k = "write"
      PROVE /\ \A i \in 1 .. Len(wire) : wire[i] < Head(strand).frame
            /\ \A i \in 1 .. Len(queue) : queue[i] < Head(strand).frame
            /\ Head(strand).frame <= posted
  BY <1>1, <1>2, <1>5 DEF Order, BeforeWrites, WritesUpTo
<1>6. ASSUME k = "write" PROVE BeforeWrites(<<Head(strand).frame>>, strand')
  <2> SUFFICES ASSUME NEW j \in 1 .. Len(strand'), strand'[j].kind = "write"
               PROVE Head(strand).frame < strand'[j].frame
    BY DEF BeforeWrites
  <2> QED BY <1>1, <1>2, <1>6 DEF Order, WritesIncreasing
<1> QED BY <1>3, <1>4, <1>5, <1>6

\* A completion, the timer or a close is posted.
LEMMA PostOrder ==
  ASSUME Types, Order, NEW h \in HandlerType, h.kind # "write", Post(h)
  PROVE /\ WritesIncreasing(strand') /\ BeforeWrites(wire, strand') /\ BeforeWrites(queue, strand')
        /\ WritesUpTo(strand', posted)
<1>1. /\ Len(strand) \in Nat /\ Len(strand') = Len(strand) + 1
      /\ strand'[Len(strand) + 1] = h
      /\ \A i \in 1 .. Len(strand) : strand'[i] = strand[i]
  BY DEF Types, Post
<1>2. \A i \in 1 .. Len(strand') : strand'[i].kind = "write" => i \in 1 .. Len(strand) /\ strand'[i] = strand[i]
  BY <1>1
<1> QED BY <1>2 DEF Order, WritesIncreasing, BeforeWrites, WritesUpTo

\* The queue is emptied, or is left as it is.
LEMMA EmptyOrder ==
  ASSUME Order, queue' = <<>> \/ queue' = queue, wire' = wire, posted' = posted,
         WritesIncreasing(strand'), BeforeWrites(wire, strand'), BeforeWrites(queue, strand'),
         WritesUpTo(strand', posted)
  PROVE Order'
<1>1. CASE queue' = queue
  BY <1>1 DEF Order, Increasing, Before, UpTo, WritesIncreasing, BeforeWrites, WritesUpTo
<1>2. CASE queue' = <<>>
  <2>1. Len(queue') = 0
    BY <1>2
  <2> QED
    BY <2>1 DEF Order, Increasing, Before, UpTo, WritesIncreasing, BeforeWrites, WritesUpTo
<1> QED BY <1>1, <1>2

LEMMA NextOrder == Inv /\ Order /\ [Next]_vars => Order'
<1> SUFFICES ASSUME Inv, Order, [Next]_vars PROVE Order'
  OBVIOUS
<1> Types
  BY DEF Inv
<1> USE MaxFramesAssumption
<1>1. CASE Write
  <2> DEFINE h == WriteHandler(posted + 1)
  <2>1. h.kind = "write" /\ h.frame = posted + 1 /\ h \in HandlerType
    BY <1>1 DEF Write, WriteHandler, HandlerType, Types
  <2>2. /\ strand' = Append(strand, h) /\ posted' = posted + 1 /\ wire' = wire /\ queue' = queue
        /\ posted \in Nat
    BY <1>1 DEF Write, Post, Types
  <2> HIDE DEF h
  <2>3. /\ Len(strand) \in Nat /\ Len(strand') = Len(strand) + 1
        /\ strand'[Len(strand) + 1] = h
        /\ \A i \in 1 .. Len(strand) : strand'[i] = strand[i]
    BY <2>1, <2>2 DEF Types
  <2>a. \A i \in 1 .. Len(strand) : strand[i].frame \in Nat
    <3>1. \A i \in 1 .. Len(strand) : strand[i] \in HandlerType
      BY DEF Types
    <3> QED BY <3>1 DEF HandlerType
  <2>b. \A i \in 1 .. Len(strand) : strand[i].kind = "write" => strand[i].frame < h.frame /\ strand[i].frame <= posted + 1
    BY <2>1, <2>2, <2>a DEF Order, WritesUpTo
  <2>4. WritesIncreasing(strand') /\ WritesUpTo(strand', posted')
    <3>1. \A i \in 1 .. Len(strand') : i \in 1 .. Len(strand) \/ i = Len(strand) + 1
      BY <2>3
    <3>2. WritesUpTo(strand', posted')
      BY <2>1, <2>2, <2>3, <2>b, <3>1 DEF WritesUpTo
    <3>3. WritesIncreasing(strand')
      <4> SUFFICES ASSUME NEW i \in 1 .. Len(strand'), NEW j \in 1 .. Len(strand'), i < j,
                          strand'[i].kind = "write", strand'[j].kind = "write"
                   PROVE strand'[i].frame < strand'[j].frame
        BY DEF WritesIncreasing
      <4>1. i \in 1 .. Len(strand)
        BY <2>3, <3>1
      <4>2. CASE j \in 1 .. Len(strand)
        BY <2>3, <4>1, <4>2 DEF Order, WritesIncreasing
      <4>3. CASE j = Len(strand) + 1
        BY <2>3, <2>b, <4>1, <4>3
      <4> QED BY <3>1, <4>2, <4>3
    <3> QED BY <3>2, <3>3
  <2>5. \A i \in 1 .. Len(wire) : wire[i] \in Nat /\ wire[i] <= posted
    <3>1. \A i \in 1 .. Len(wire) : wire[i] \in Frame
      BY DEF Types
    <3> QED BY <3>1 DEF Order, UpTo, Frame
  <2>6. \A i \in 1 .. Len(queue) : queue[i] \in Nat /\ queue[i] <= posted
    <3>1. \A i \in 1 .. Len(queue) : queue[i] \in Frame
      BY DEF Types
    <3> QED BY <3>1 DEF Order, UpTo, Frame
  <2>7. BeforeWrites(wire', strand') /\ UpTo(wire', posted')
    <3>1. \A i \in 1 .. Len(wire) : wire[i] < h.frame /\ wire[i] <= posted'
      BY <2>1, <2>2, <2>5
    <3>2. BeforeWrites(wire', strand')
      BY <2>2, <2>3, <3>1 DEF Order, BeforeWrites
    <3>3. UpTo(wire', posted')
      BY <2>2, <3>1 DEF UpTo
    <3> QED BY <3>2, <3>3
  <2>8. BeforeWrites(queue', strand') /\ UpTo(queue', posted')
    <3>1. \A i \in 1 .. Len(queue) : queue[i] < h.frame /\ queue[i] <= posted'
      BY <2>1, <2>2, <2>6
    <3>2. BeforeWrites(queue', strand')
      BY <2>2, <2>3, <3>1 DEF Order, BeforeWrites
    <3>3. UpTo(queue', posted')
      BY <2>2, <3>1 DEF UpTo
    <3> QED BY <3>2, <3>3
  <2>9. Increasing(wire') /\ Increasing(queue') /\ Before(wire', queue')
    BY <2>2 DEF Order
  <2> QED BY <2>4, <2>7, <2>8, <2>9 DEF Order
<1>2. CASE \E x \in {"error", "part", "packet", "all"} : SocketDone(x)
  <2>1. PICK x \in {"error", "part", "packet", "all"} : SocketDone(x)
    BY <1>2
  <2>2. Handler(sending, x) \in HandlerType /\ Handler(sending, x).kind # "write"
    BY <2>1 DEF SocketDone, Handler, HandlerType, Types
  <2> QED BY <2>1, <2>2, PostOrder, EmptyOrder DEF SocketDone
<1>3. CASE TimerFires
  <2>1. Handler("timer", "none") \in HandlerType /\ Handler("timer", "none").kind # "write"
    BY DEF Handler, HandlerType
  <2> QED BY <1>3, <2>1, PostOrder, EmptyOrder DEF TimerFires
<1>4. CASE CloseChecked
  BY <1>4 DEF CloseChecked, Order
<1>5. CASE ClosePosted
  <2>1. Handler("close", "none") \in HandlerType /\ Handler("close", "none").kind # "write"
    BY DEF Handler, HandlerType
  <2> QED BY <1>5, <2>1, PostOrder, EmptyOrder DEF ClosePosted
<1>6. CASE RunWrite
  <2> DEFINE f == Head(strand).frame
  <2>1. /\ WritesIncreasing(strand') /\ BeforeWrites(wire, strand') /\ BeforeWrites(queue, strand')
        /\ WritesUpTo(strand', posted) /\ BeforeWrites(<<f>>, strand')
        /\ \A i \in 1 .. Len(wire) : wire[i] < f
        /\ \A i \in 1 .. Len(queue) : queue[i] < f
        /\ f <= posted
    BY <1>6, RunsOrder DEF RunWrite
  <2>2. wire' = wire /\ posted' = posted
    BY <1>6 DEF RunWrite
  <2>3. CASE queue' = queue
    BY <2>1, <2>2, <2>3, EmptyOrder
  <2>4. CASE queue' = Append(queue, f)
    <3> HIDE DEF f
    <3>1. /\ Len(queue) \in Nat /\ Len(queue') = Len(queue) + 1 /\ queue'[Len(queue) + 1] = f
          /\ \A i \in 1 .. Len(queue) : queue'[i] = queue[i]
      BY <2>4 DEF Types
    <3>2. Increasing(queue') /\ Before(wire', queue') /\ UpTo(queue', posted')
      BY <2>1, <2>2, <3>1 DEF Order, Increasing, Before, UpTo
    <3>3. \A j \in 1 .. Len(strand') : strand'[j].kind = "write" => f < strand'[j].frame
      BY <2>1 DEF BeforeWrites
    <3>4. BeforeWrites(queue', strand')
      BY <2>1, <3>1, <3>3 DEF BeforeWrites
    <3> QED BY <2>1, <2>2, <3>2, <3>4 DEF Order
  <2> QED BY <1>6, <2>3, <2>4 DEF RunWrite, Enqueue
<1>7. CASE RunError
  <2>1. PICK k : Runs(k)
    BY <1>7 DEF RunError
  <2>2. (queue' = <<>> \/ queue' = queue) /\ wire' = wire /\ posted' = posted
    BY <1>7 DEF RunError, TryClose, Emptied
  <2> QED BY <2>1, <2>2, RunsOrder, EmptyOrder
<1>8. CASE RunHeaderSent
  BY <1>8, RunsOrder, EmptyOrder DEF RunHeaderSent
<1>9. CASE RunBodySent
  <2>1. Runs("body") /\ posted' = posted
    BY <1>9 DEF RunBodySent
  <2>2. CASE wire' = wire /\ queue' = queue
    BY <2>1, <2>2, RunsOrder, EmptyOrder
  <2>3. CASE PopFrame
    <3>1. /\ Len(queue) \in Nat \ {0} /\ Head(queue) = queue[1] /\ 1 \in 1 .. Len(queue)
          /\ Len(queue') = Len(queue) - 1
          /\ \A i \in 1 .. Len(queue') : i + 1 \in 1 .. Len(queue) /\ queue'[i] = queue[i + 1]
      BY <2>3 DEF PopFrame, Types
    <3>2. /\ Len(wire) \in Nat /\ Len(wire') = Len(wire) + 1 /\ wire'[Len(wire) + 1] = queue[1]
          /\ \A i \in 1 .. Len(wire) : wire'[i] = wire[i]
      BY <2>3, <3>1 DEF PopFrame, Types, Frame
    <3>3. /\ WritesIncreasing(strand') /\ BeforeWrites(wire, strand') /\ BeforeWrites(queue, strand')
          /\ WritesUpTo(strand', posted)
      BY <2>1, RunsOrder
    <3>4. Increasing(queue') /\ UpTo(queue', posted') /\ BeforeWrites(queue', strand')
      <4>1. Increasing(queue')
        BY <3>1 DEF Order, Increasing
      <4>2. UpTo(queue', posted')
        BY <2>1, <3>1 DEF Order, UpTo
      <4>3. BeforeWrites(queue', strand')
        BY <3>1, <3>3 DEF BeforeWrites
      <4> QED BY <4>1, <4>2, <4>3
    <3>5. Increasing(wire') /\ UpTo(wire', posted')
      <4>1. Increasing(wire')
        <5> SUFFICES ASSUME NEW i \in 1 .. Len(wire'), NEW j \in 1 .. Len(wire'), i < j
                     PROVE wire'[i] < wire'[j]
          BY DEF Increasing
        <5>1. i \in 1 .. Len(wire)
          BY <3>2
        <5>2. CASE j \in 1 .. Len(wire)
          BY <3>2, <5>1, <5>2 DEF Order, Increasing
        <5>3. CASE j = Len(wire) + 1
          BY <3>1, <3>2, <5>1, <5>3 DEF Order, Before
        <5> QED BY <3>2, <5>2, <5>3
      <4>2. UpTo(wire', posted')
        BY <2>1, <3>1, <3>2 DEF Order, UpTo
      <4> QED BY <4>1, <4>2
    <3>6. Before(wire', queue')
      <4> SUFFICES ASSUME NEW i \in 1 .. Len(wire'), NEW j \in 1 .. Len(queue')
                   PROVE wire'[i] < queue'[j]
        BY DEF Before
      <4>1. CASE i \in 1 .. Len(wire)
        BY <3>1, <3>2, <4>1 DEF Order, Before
      <4>2. CASE i = Len(wire) + 1
        BY <3>1, <3>2, <4>2 DEF Order, Increasing
      <4> QED BY <3>2, <4>1, <4>2
    <3>7. BeforeWrites(wire', strand')
      <4> SUFFICES ASSUME NEW i \in 1 .. Len(wire'), NEW j \in 1 .. Len(strand'),
                          strand'[j].kind = "write"
                   PROVE wire'[i] < strand'[j].frame
        BY DEF BeforeWrites
      <4>1. CASE i \in 1 .. Len(wire)
        BY <3>2, <3>3, <4>1 DEF BeforeWrites
      <4>2. CASE i = Len(wire) + 1
        BY <3>1, <3>2, <3>3, <4>2 DEF BeforeWrites
      <4> QED BY <3>2, <4>1, <4>2
    <3> QED BY <2>1, <3>3, <3>4, <3>5, <3>6, <3>7 DEF Order
  <2> QED BY <1>9, <2>2, <2>3 DEF RunBodySent
<1>10. CASE RunTimer
  <2>1. (queue' = <<>> \/ queue' = queue) /\ wire' = wire /\ posted' = posted
    BY <1>10 DEF RunTimer, TryClose, Emptied
  <2> QED BY <1>10, <2>1, RunsOrder, EmptyOrder DEF RunTimer
<1>11. CASE RunClose
  <2>1. queue' = <<>> /\ wire' = wire /\ posted' = posted
    BY <1>11 DEF RunClose, DoClose, Emptied
  <2> QED BY <1>11, <2>1, RunsOrder, EmptyOrder DEF RunClose
<1>12. CASE UNCHANGED vars
  BY <1>12 DEF vars, Order
<1> QED
  BY <1>1, <1>2, <1>3, <1>4, <1>5, <1>6, <1>7, <1>8, <1>9, <1>10, <1>11, <1>12 DEF Next, Strand

\* Frames go out in the order they were written to the session, each at most
\* once, whatever is dropped for lack of a buffer or with a close.
THEOREM SentInOrder == Spec => []FramesInOrder
<1>1. Inv /\ Order => FramesInOrder
  BY DEF Inv, Types, Order, Increasing, FramesInOrder
<1> QED BY <1>1, InitInv, NextInv, InitOrder, NextOrder, PTL DEF Spec

-----------------------------------------------------------------------------
(* One send at a time *)

\* No handler of a close waits to be run.
NoClose == \A i \in DOMAIN strand : strand[i].kind # "close"

\* A live session is sending exactly if its queue holds a frame.  This is what
\* OneSend needs to be kept by Enqueue, which asks the queue and not the socket,
\* and why no handler of a live session finds the queue empty.
Sending ==
  /\ OneSend
  /\ is_live /\ queue = <<>> => sending = "none" /\ Completions = {}
  /\ is_live => NoClose
  /\ FaultOnlyClosed

LEMMA InitSending == Init => Sending
<1> SUFFICES ASSUME Init PROVE Sending
  OBVIOUS
<1>1. strand = <<>> /\ queue = <<>> /\ sending = "none" /\ fault = FALSE
  BY DEF Init
<1>2. Completions = {}
  BY <1>1 DEF Completions
<1> QED BY <1>1, <1>2 DEF Sending, OneSend, FaultOnlyClosed, NoClose

\* A handler leaves the strand: no close comes of it.
LEMMA RunsNoClose ==
  ASSUME Types, NoClose, NEW k, Runs(k)
  PROVE  NoClose' /\ k # "close"
<1>1. strand # <<>> /\ strand' = Tail(strand) /\ Head(strand).kind = k
  BY DEF Runs
<1>2. /\ DOMAIN strand = 1 .. Len(strand) /\ Len(strand) \in Nat \ {0}
      /\ Head(strand) = strand[1] /\ DOMAIN strand' = 1 .. Len(strand) - 1
      /\ \A i \in 1 .. Len(strand) - 1 : strand'[i] = strand[i + 1]
  BY <1>1 DEF Types
<1> QED BY <1>1, <1>2 DEF NoClose

LEMMA PostNoClose ==
  ASSUME Types, NoClose, NEW h \in HandlerType, h.kind # "close", Post(h)
  PROVE  NoClose'
<1>1. /\ DOMAIN strand = 1 .. Len(strand) /\ Len(strand) \in Nat
      /\ DOMAIN strand' = 1 .. Len(strand) + 1 /\ strand'[Len(strand) + 1] = h
      /\ \A i \in 1 .. Len(strand) : strand'[i] = strand[i]
  BY DEF Types, Post
<1> QED BY <1>1 DEF NoClose

\* A completion is run: it was the only one, and no send is in progress.
LEMMA RunsCompletion ==
  ASSUME Types, OneSend, NEW k \in {"header", "body"}, Runs(k)
  PROVE  sending = "none" /\ Completions # {} /\ Completions' = {}
<1>1. strand # <<>> /\ strand' = Tail(strand) /\ Head(strand).kind = k
  BY DEF Runs
<1>2. /\ DOMAIN strand = 1 .. Len(strand) /\ Len(strand) \in Nat \ {0}
      /\ Head(strand) = strand[1] /\ DOMAIN strand' = 1 .. Len(strand) - 1
      /\ \A i \in 1 .. Len(strand) - 1 : strand'[i] = strand[i + 1]
  BY <1>1 DEF Types
<1>3. 1 \in Completions
  BY <1>1, <1>2 DEF Completions
<1>4. \A i \in Completions : i = 1
  BY <1>3 DEF OneSend
<1>5. Completions' = {}
  <2> SUFFICES ASSUME NEW i \in Completions' PROVE FALSE
    OBVIOUS
  <2>1. i \in 1 .. Len(strand) - 1 /\ strand'[i].kind \in {"header", "body"}
    BY <1>2 DEF Completions
  <2>2. i + 1 \in Completions
    BY <1>2, <2>1 DEF Completions
  <2> QED BY <1>4, <2>1, <2>2
<1> QED BY <1>3, <1>5 DEF OneSend

\* Another handler is run: there are as many completions as before.
LEMMA RunsOther ==
  ASSUME Types, OneSend, NEW k \in {"write", "timer", "close"}, Runs(k)
  PROVE  /\ Completions' = {} <=> Completions = {}
         /\ \A i, j \in Completions' : i = j
<1>1. strand # <<>> /\ strand' = Tail(strand) /\ Head(strand).kind = k
  BY DEF Runs
<1>2. /\ DOMAIN strand = 1 .. Len(strand) /\ Len(strand) \in Nat \ {0}
      /\ Head(strand) = strand[1] /\ DOMAIN strand' = 1 .. Len(strand) - 1
      /\ \A i \in 1 .. Len(strand) - 1 : strand'[i] = strand[i + 1]
  BY <1>1 DEF Types
<1>3. 1 \notin Completions
  BY <1>1, <1>2 DEF Completions
<1>4. ASSUME NEW i \in Completions' PROVE i \in Nat /\ i + 1 \in Completions
  BY <1>2, <1>4 DEF Completions
<1>5. ASSUME NEW i \in Completions PROVE i - 1 \in Completions'
  <2>1. i \in 2 .. Len(strand) /\ strand[i].kind \in {"header", "body"}
    BY <1>2, <1>3, <1>5 DEF Completions
  <2>2. i - 1 \in 1 .. Len(strand) - 1 /\ strand'[i - 1] = strand[i]
    BY <1>2, <2>1
  <2> QED BY <1>2, <2>1, <2>2 DEF Completions
<1>6. \A i, j \in Completions' : i = j
  <2> SUFFICES ASSUME NEW i \in Completions', NEW j \in Completions' PROVE i = j
    OBVIOUS
  <2>1. i \in Nat /\ j \in Nat /\ i + 1 = j + 1
    BY <1>4 DEF OneSend
  <2> QED BY <2>1
<1> QED BY <1>4, <1>5, <1>6

\* A handler is posted: one completion more, or the same as before.
LEMMA PostCompletions ==
  ASSUME Types, NEW h \in HandlerType, Post(h)
  PROVE  /\ h.kind \notin {"header", "body"} => Completions' = Completions
         /\ h.kind \in {"header", "body"} => Completions' = Completions \cup {Len(strand) + 1}
<1>1. /\ DOMAIN strand = 1 .. Len(strand) /\ Len(strand) \in Nat
      /\ DOMAIN strand' = 1 .. Len(strand) + 1 /\ strand'[Len(strand) + 1] = h
      /\ \A i \in 1 .. Len(strand) : strand'[i] = strand[i]
  BY DEF Types, Post
<1>2. 1 .. Len(strand) + 1 = 1 .. Len(strand) \cup {Len(strand) + 1}
  BY <1>1
<1> QED BY <1>1, <1>2 DEF Completions

LEMMA NextSending == Inv /\ Sending /\ [Next]_vars => Sending'
<1> SUFFICES ASSUME Inv, Sending, [Next]_vars PROVE Sending'
  OBVIOUS
<1> Types /\ OneSend
  BY DEF Inv, Sending
<1> USE DEF Sending, OneSend, FaultOnlyClosed
<1>1. CASE Write
  <2>1. WriteHandler(posted + 1) \in HandlerType /\ WriteHandler(posted + 1).kind = "write"
    BY <1>1, MaxFramesAssumption DEF Write, WriteHandler, HandlerType, Frame, Types
  <2>2. Completions' = Completions
    BY <1>1, <2>1, PostCompletions DEF Write
  <2>3. NoClose => NoClose'
    BY <1>1, <2>1, PostNoClose DEF Write
  <2> QED BY <1>1, <2>2, <2>3 DEF Write
<1>2. CASE \E x \in {"error", "part", "packet", "all"} : SocketDone(x)
  <2>1. PICK x \in {"error", "part", "packet", "all"} : SocketDone(x)
    BY <1>2
  <2>2. sending \in {"header", "body"}
    BY <2>1 DEF SocketDone, Types
  <2>3. Handler(sending, x) \in HandlerType /\ Handler(sending, x).kind = sending
    <3>1. Handler(sending, x) = [kind |-> sending, frame |-> 0, result |-> x]
      BY DEF Handler
    <3>2. 0 \in 0 .. MaxFrames
      BY MaxFramesAssumption
    <3> QED BY <2>1, <2>2, <3>1, <3>2 DEF HandlerType
  <2>4. Completions = {} /\ Completions' = {Len(strand) + 1}
    BY <2>1, <2>2, <2>3, PostCompletions DEF SocketDone
  <2>5. NoClose => NoClose'
    BY <2>1, <2>2, <2>3, PostNoClose DEF SocketDone
  <2> QED BY <2>1, <2>4, <2>5 DEF SocketDone
<1>3. CASE TimerFires
  <2>1. Handler("timer", "none") \in HandlerType /\ Handler("timer", "none").kind = "timer"
    <3>1. Handler("timer", "none") = [kind |-> "timer", frame |-> 0, result |-> "none"]
      BY DEF Handler
    <3>2. 0 \in 0 .. MaxFrames
      BY MaxFramesAssumption
    <3> QED BY <3>1, <3>2 DEF HandlerType
  <2>2. Completions' = Completions
    BY <1>3, <2>1, PostCompletions DEF TimerFires
  <2>3. NoClose => NoClose'
    BY <1>3, <2>1, PostNoClose DEF TimerFires
  <2> QED BY <1>3, <2>2, <2>3 DEF TimerFires
<1>4. CASE CloseChecked
  BY <1>4 DEF CloseChecked, Completions, NoClose
<1>5. CASE ClosePosted
  <2>1. Handler("close", "none") \in HandlerType /\ Handler("close", "none").kind = "close"
    <3>1. Handler("close", "none") = [kind |-> "close", frame |-> 0, result |-> "none"]
      BY DEF Handler
    <3>2. 0 \in 0 .. MaxFrames
      BY MaxFramesAssumption
    <3> QED BY <3>1, <3>2 DEF HandlerType
  <2>2. Completions' = Completions
    BY <1>5, <2>1, PostCompletions DEF ClosePosted
  <2> QED BY <1>5, <2>2 DEF ClosePosted
<1>6. CASE RunWrite
  <2>1. /\ Completions' = {} <=> Completions = {}
        /\ \A i, j \in Completions' : i = j
    BY <1>6, RunsOther DEF RunWrite
  <2>2. is_live' = is_live /\ fault' = fault /\ (NoClose => NoClose')
    BY <1>6, RunsNoClose DEF RunWrite
  <2>3. CASE is_live /\ free > 0
    <3>1. Head(strand).frame \in Frame
      BY <1>6, RunsTypes DEF RunWrite
    <3>2. /\ queue' # <<>>
          /\ IF queue = <<>> THEN sending' = "header" ELSE sending' = sending
      BY <1>6, <2>3, <3>1, AppendProperties DEF RunWrite, Enqueue, StartSend, Types
    <3> QED BY <2>1, <2>2, <2>3, <3>2
  <2>4. CASE ~(is_live /\ free > 0)
    BY <1>6, <2>1, <2>2, <2>4 DEF RunWrite
  <2> QED BY <2>3, <2>4
<1>7. CASE RunError
  <2>1. Completions' = {} /\ sending' = "none" /\ ~is_live' /\ fault' = fault
    BY <1>7, RunsCompletion DEF RunError, NoSend, TryClose
  <2> QED BY <2>1
<1>8. CASE RunHeaderSent
  <2>1. Completions # {} /\ Completions' = {}
    BY <1>8, RunsCompletion DEF RunHeaderSent
  <2>2. /\ is_live' = is_live /\ queue' = queue /\ (is_live => queue # <<>>)
        /\ NoClose => NoClose'
    BY <1>8, <2>1, RunsNoClose DEF RunHeaderSent
  <2>3. \/ sending' \in {"header", "body"} /\ fault' = fault
        \/ sending' = "none" /\ queue = <<>>
    BY <1>8 DEF RunHeaderSent, StartSend, NoSend
  <2> QED BY <2>1, <2>2, <2>3
<1>9. CASE RunBodySent
  <2>1. Completions # {} /\ Completions' = {}
    BY <1>9, RunsCompletion DEF RunBodySent
  <2>2. is_live' = is_live /\ (is_live => queue # <<>>) /\ (NoClose => NoClose')
    BY <1>9, <2>1, RunsNoClose DEF RunBodySent
  <2>3. CASE PopFrame
    <3>1. queue # <<>> /\ queue' = Tail(queue) /\ fault' = fault
      BY <2>3 DEF PopFrame
    <3>2. Len(queue) \in Nat \ {0} /\ (queue' = <<>> <=> Len(queue) = 1)
      <4>1. queue \in Seq(Frame)
        BY DEF Types
      <4>2. queue' \in Seq(Frame) /\ Len(queue') = Len(queue) - 1
        BY <3>1, <4>1, HeadTailProperties
      <4>3. queue' = <<>> <=> Len(queue') = 0
        BY <4>2, EmptySeq
      <4> QED BY <3>1, <4>1, <4>2, <4>3, EmptySeq
    <3>3. CASE Len(queue) > 1
      <4>1. sending' = "header" /\ queue' # <<>>
        BY <2>3, <3>2, <3>3 DEF PopFrame, StartSend
      <4> QED BY <2>1, <2>2, <3>1, <4>1
    <3>4. CASE ~(Len(queue) > 1)
      <4>1. sending' = "none" /\ queue' = <<>>
        BY <2>3, <3>2, <3>4 DEF PopFrame, NoSend
      <4> QED BY <2>1, <2>2, <3>1, <4>1
    <3> QED BY <3>3, <3>4
  <2>4. CASE queue' = queue /\ sending' \in {"header", "body"} /\ fault' = fault
    BY <2>1, <2>2, <2>4
  <2>5. CASE queue = <<>> /\ queue' = queue /\ sending' = "none"
    BY <2>1, <2>2, <2>5
  <2> QED BY <1>9, <2>3, <2>4, <2>5 DEF RunBodySent, StartSend, NoSend
<1>10. CASE RunTimer
  <2>1. /\ Completions' = {} <=> Completions = {}
        /\ \A i, j \in Completions' : i = j
    BY <1>10, RunsOther DEF RunTimer
  <2>2. ~is_live' /\ sending' = sending /\ fault' = fault
    BY <1>10 DEF RunTimer, TryClose
  <2> QED BY <2>1, <2>2
<1>11. CASE RunClose
  <2>1. /\ Completions' = {} <=> Completions = {}
        /\ \A i, j \in Completions' : i = j
    BY <1>11, RunsOther DEF RunClose
  <2>2. sending' = sending /\ is_live' = is_live /\ fault' = fault
    BY <1>11 DEF RunClose
  <2>3. ~is_live
    BY <1>11, RunsNoClose DEF RunClose
  <2> QED BY <2>1, <2>2, <2>3
<1>12. CASE UNCHANGED vars
  BY <1>12 DEF vars, Completions, NoClose
<1> QED
  BY <1>1, <1>2, <1>3, <1>4, <1>5, <1>6, <1>7, <1>8, <1>9, <1>10, <1>11, <1>12 DEF Next, Strand

LEMMA SendingAlways == Spec => []Sending
  BY InitInv, NextInv, InitSending, NextSending, PTL DEF Spec

\* Two sends are never in progress at once, and a live session with a frame in its
\* queue is sending it.
THEOREM SendsOneAtATime == Spec => []OneSend
<1>1. Sending => OneSend
  BY DEF Sending
<1> QED BY <1>1, SendingAlways, PTL

\* No handler of a session that is still open takes the front of an empty queue:
\* only a close can empty the queue under a send.
THEOREM OpenSessionNeverFaults == Spec => []FaultOnlyClosed
<1>1. Sending => FaultOnlyClosed
  BY DEF Sending
<1> QED BY <1>1, SendingAlways, PTL
=============================================================================
