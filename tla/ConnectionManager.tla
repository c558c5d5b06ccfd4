-------------------------- MODULE ConnectionManager --------------------------
(***************************************************************************)
(* The server's registry of cameras ("readers") and headsets ("writers"):  *)
(* service::ConnectionManager, together with the part of TcpServer and of  *)
(* its sessions that calls it.                                             *)
(*                                                                         *)
(* Concurrency.  The acceptor has a strand of its own, so one Add runs at  *)
(* a time; every session has a strand (a Remove or a PostMessage of one    *)
(* session at a time, those of different sessions in parallel); websocket  *)
(* sessions and the switching thread move headsets between cameras; the    *)
(* main thread shuts down.  An action is one critical section.  Add...     *)
(* takes two of them, and TryClose, the session number and the session id  *)
(* come after both: `acceptor' holds the local variables of that call.     *)
(*                                                                         *)
(* A session is named by the order in which it was accepted.  A vector of  *)
(* _reader_connections is a set here: its order is never observed, and     *)
(* OneFeedPerHeadset shows that no session is pushed twice.                *)
(***************************************************************************)
EXTENDS Integers, FiniteSets, Functions

CONSTANTS
  ReaderAddr,    \* addresses cameras connect from; ordered, as std::map keys are
  WriterAddr,    \* addresses headsets and displays connect from
  MaxSessions,   \* bound: connections accepted in one run of the server
  Strategies     \* the switching threads a server may be configured with

ASSUME AddrAssumption == ReaderAddr \subseteq Nat /\ WriterAddr \subseteq Nat
ASSUME MaxSessionsAssumption == MaxSessions \in Nat
ASSUME StrategiesAssumption == Strategies \subseteq {"none", "timer", "select"}

VARIABLES
  reader_sessions,      \* _reader_sessions: camera address -> session
  writer_sessions,      \* _writer_sessions: headset address -> session
  reader_connections,   \* _reader_connections: camera address -> sessions fed
  writer_connections,   \* _writer_connections: headset address -> camera address
  last_session_number,  \* _last_session_number
  kind,                 \* of each session: "camera", "headset", "none" (not accepted)
  addr,                 \* _addr of each session
  session_id,           \* _session_id of each session, 0 until it is stored
  is_live,              \* _is_live of each session
  acceptor,             \* the acceptor strand: where in Add... it is, and its locals
  posting,              \* cameras between their _is_live test and PostMessage
  written,              \* headsets that have had a Write posted to them
  destroying,           \* sessions in TryClose(true), before Destroy... has run
  removed,              \* sessions Clear took out of the maps and has yet to close
  phase,                \* progress of ServerStreamer::Stop
  switcher              \* the switching thread: which one it is and where

maps == <<reader_sessions, writer_sessions, reader_connections, writer_connections>>
sessions == <<last_session_number, kind, addr, session_id>>
vars == <<maps, sessions, is_live, acceptor, posting, written, destroying, removed, phase, switcher>>

Session == 1 .. MaxSessions
NoSession == 0
Addr == ReaderAddr \cup WriterAddr

AcceptorPC == {"idle", "attach_reader", "attach_writer", "swap_writer", "close", "assign"}
Idle == [pc |-> "idle", session |-> NoSession, first |-> FALSE, old |-> NoSession]

Phase == {"running", "clearing", "ending", "stopping", "cancelling", "joining", "down"}

\* No thread; the automatic timer's; that of manual entry, in select or past it,
\* reading from std::cin; and a thread that has ended.
SwitcherPlace == {"none", "timer", "select", "stdin", "ended"}

-----------------------------------------------------------------------------
(* Helpers on the maps *)

EmptyMap == [x \in {} |-> NoSession]
Put(f, a, v) == [x \in DOMAIN f \cup {a} |-> IF x = a THEN v ELSE f[x]]
Drop(f, a) == Restrict(f, DOMAIN f \ {a})
Lookup(f, a) == IF a \in DOMAIN f THEN f[a] ELSE NoSession

\* map.begin()
IsFirst(n, S) == n \in S /\ \A x \in S : n <= x

\* std::next(map.find(a)), wrapping around to map.begin()
IsNext(n, a, S) ==
  \/ n \in S /\ n > a /\ \A x \in S : x > a => n <= x
  \/ IsFirst(n, S) /\ \A x \in S : x <= a

\* the vector of camera a, empty when it has none
Feeds(a) == IF a \in DOMAIN reader_connections THEN reader_connections[a] ELSE {}

\* Variant: any session at the address will do.
SameSessionAnyId(s, reg) == addr[s] \in DOMAIN reg

\* The lookup by which Remove... tells its own session from a successor at the
\* same address: the registered session has the dead one's id.
SameSession(s, reg) ==
  addr[s] \in DOMAIN reg /\ session_id[reg[addr[s]]] = session_id[s]

Init ==
  /\ reader_sessions = EmptyMap /\ writer_sessions = EmptyMap
  /\ reader_connections = EmptyMap /\ writer_connections = EmptyMap
  /\ last_session_number = 0
  /\ kind = [s \in Session |-> "none"]
  /\ addr = [s \in Session |-> 0]
  /\ session_id = [s \in Session |-> 0]
  /\ is_live = [s \in Session |-> FALSE]
  /\ acceptor = Idle
  /\ posting = {} /\ written = {} /\ destroying = {} /\ removed = {}
  /\ phase = "running"
  /\ switcher \in Strategies

-----------------------------------------------------------------------------
(* AddReaderSession and AddWriterSession, on the acceptor strand *)

\* A connection is accepted: the session is constructed live, without an id.
Accept(k, a) ==
  /\ phase \in {"running", "clearing", "ending", "stopping"}
  /\ acceptor.pc = "idle"
  /\ last_session_number < MaxSessions
  /\ kind' = [kind EXCEPT ![last_session_number + 1] = k]
  /\ addr' = [addr EXCEPT ![last_session_number + 1] = a]
  /\ is_live' = [is_live EXCEPT ![last_session_number + 1] = TRUE]
  /\ UNCHANGED <<last_session_number, session_id, reader_connections, writer_connections,
                 posting, written, destroying, removed, phase, switcher>>

\* is_first_reader, and the same test off by one.
OneReader == Cardinality(DOMAIN reader_sessions) = 1
NoReaders == DOMAIN reader_sessions = {}

\* First section of AddReaderSession: take the map slot from a predecessor.
RegisterReader(a) ==
  LET s == last_session_number + 1 IN
  /\ Accept("camera", a)
  /\ reader_sessions' = Put(reader_sessions, a, s)
  /\ acceptor' = [pc |-> "attach_reader", session |-> s,
                  first |-> NoReaders,
                  old |-> Lookup(reader_sessions, a)]
  /\ UNCHANGED writer_sessions

\* Second section: the first camera is given every headset, any other starts
\* with an empty vector, which replaces the one its predecessor had.
AttachReader ==
  LET a == addr[acceptor.session] IN
  /\ acceptor.pc = "attach_reader"
  /\ IF acceptor.first
       THEN /\ writer_connections' =
                 [w \in DOMAIN writer_connections \cup DOMAIN writer_sessions |->
                    IF w \in DOMAIN writer_sessions THEN a ELSE writer_connections[w]]
            /\ reader_connections' = Put(reader_connections, a, Range(writer_sessions))
       ELSE /\ reader_connections' = Put(reader_connections, a, {})
            /\ UNCHANGED writer_connections
  /\ acceptor' = [acceptor EXCEPT !.pc = "close"]
  /\ UNCHANGED <<reader_sessions, writer_sessions, sessions, is_live, posting, written,
                 destroying, removed, phase, switcher>>

\* First section of AddWriterSession.  When the predecessor was connected, a
\* pointer into _writer_connections is kept past the unlock: "swap_writer".
RegisterWriter(a) ==
  LET s == last_session_number + 1 IN
  /\ Accept("headset", a)
  /\ writer_sessions' = Put(writer_sessions, a, s)
  /\ acceptor' = [pc |-> IF a \in DOMAIN writer_sessions /\ a \in DOMAIN writer_connections
                           THEN "swap_writer" ELSE "attach_writer",
                  session |-> s, first |-> FALSE,
                  old |-> Lookup(writer_sessions, a)]
  /\ UNCHANGED reader_sessions

\* A new headset goes to the first camera, if there is one with a vector.
AttachWriter ==
  LET s == acceptor.session IN
  /\ acceptor.pc = "attach_writer"
  /\ \/ \E r \in DOMAIN reader_sessions :
          /\ IsFirst(r, DOMAIN reader_sessions)
          /\ r \in DOMAIN reader_connections
          /\ reader_connections' =
               [reader_connections EXCEPT ![r] = reader_connections[r] \cup {s}]
          /\ writer_connections' = Put(writer_connections, addr[s], r)
     \/ /\ \A r \in DOMAIN reader_sessions :
             IsFirst(r, DOMAIN reader_sessions) => r \notin DOMAIN reader_connections
        /\ UNCHANGED <<reader_connections, writer_connections>>
  /\ acceptor' = [acceptor EXCEPT !.pc = "close"]
  /\ UNCHANGED <<reader_sessions, writer_sessions, sessions, is_live, posting, written,
                 destroying, removed, phase, switcher>>

\* The vectors *replace_connection may name: the one of the camera the headset
\* is routed to, or, when that map node has been erased since, any at all.
SwapTargets(a) == IF a \in DOMAIN writer_connections THEN {writer_connections[a]} ELSE ReaderAddr

\* Variant: the predecessor stays in the vector.
SwapNoErase(s, old, r) == IF old \in Feeds(r) THEN Feeds(r) \cup {s} ELSE Feeds(r)

\* A reconnected headset takes its predecessor's place in the vector, if the
\* predecessor is found there; otherwise it is in no vector.
SwapInto(s, old, r) == IF old \in Feeds(r) THEN (Feeds(r) \ {old}) \cup {s} ELSE Feeds(r)

SwapWriter ==
  LET s == acceptor.session IN
  /\ acceptor.pc = "swap_writer"
  /\ \E r \in SwapTargets(addr[s]) :
       reader_connections' =
         [x \in DOMAIN reader_connections |->
            IF x = r THEN SwapInto(s, acceptor.old, r) ELSE reader_connections[x]]
  /\ acceptor' = [acceptor EXCEPT !.pc = "close"]
  /\ UNCHANGED <<reader_sessions, writer_sessions, writer_connections, sessions, is_live,
                 posting, written, destroying, removed, phase, switcher>>

\* TryClose(false) on the predecessor; its Destroy callback is not called.
CloseReplaced ==
  /\ acceptor.pc = "close"
  /\ is_live' = [s \in Session |-> is_live[s] /\ s # acceptor.old]
  /\ acceptor' = [acceptor EXCEPT !.pc = "assign"]
  /\ UNCHANGED <<maps, sessions, posting, written, destroying, removed, phase, switcher>>

\* The next session number becomes the id of the session; a camera session
\* starts reading.
Assign ==
  /\ acceptor.pc = "assign"
  /\ last_session_number' = last_session_number + 1
  /\ session_id' = [session_id EXCEPT ![acceptor.session] = last_session_number + 1]
  /\ acceptor' = Idle

AssignSessionId ==
  /\ Assign
  /\ UNCHANGED <<maps, kind, addr, is_live, posting, written, destroying, removed, phase, switcher>>

-----------------------------------------------------------------------------
(* Sessions, each on its own strand *)

\* The io_context still starts handlers.
Up == phase \notin {"joining", "down"}

\* readBody has a whole frame of a live session and is about to post it.
FrameReceived(s) ==
  /\ Up /\ kind[s] = "camera" /\ session_id[s] # 0 /\ is_live[s] /\ s \notin posting
  /\ posting' = posting \cup {s}
  /\ UNCHANGED <<maps, sessions, is_live, acceptor, written, destroying, removed, phase, switcher>>

\* PostMessage: a Write for every headset in the vector of the camera's address.
PostMessage(s) ==
  /\ s \in posting
  /\ written' = written \cup Feeds(addr[s])
  /\ posting' = posting \ {s}
  /\ UNCHANGED <<maps, sessions, is_live, acceptor, destroying, removed, phase, switcher>>

\* TryClose(true): a camera's read failed or timed out, or a headset's write
\* did.  A headset session never reads, so only a written one can notice.
CloseSession(s) ==
  /\ Up /\ is_live[s]
  /\ \/ kind[s] = "camera" /\ session_id[s] # 0 /\ s \notin posting
     \/ kind[s] = "headset" /\ s \in written
  /\ is_live' = [is_live EXCEPT ![s] = FALSE]
  /\ destroying' = destroying \cup {s}
  /\ UNCHANGED <<maps, sessions, acceptor, posting, written, removed, phase, switcher>>

\* The headsets of a removed camera go to the next camera, which is given a
\* vector if it has none.
MoveHeadsets(a, n) ==
  /\ reader_connections' =
       [x \in (DOMAIN reader_connections \ {a}) \cup {n} |->
          IF x = n THEN Feeds(n) \cup Feeds(a) ELSE reader_connections[x]]
  /\ writer_connections' =
       [w \in DOMAIN writer_connections \cup {addr[s] : s \in Feeds(a)} |->
          IF w \in {addr[s] : s \in Feeds(a)} THEN n ELSE writer_connections[w]]

RemoveReaderSession(s) ==
  LET a == addr[s] IN
  /\ s \in destroying /\ kind[s] = "camera"
  /\ \/ /\ ~SameSession(s, reader_sessions)          \* already been removed
        /\ UNCHANGED <<reader_sessions, reader_connections, writer_connections>>
     \/ /\ SameSession(s, reader_sessions)
        /\ DOMAIN reader_sessions = {a}              \* the only reader
        /\ reader_sessions' = EmptyMap /\ reader_connections' = EmptyMap /\ writer_connections' = EmptyMap
     \/ /\ SameSession(s, reader_sessions)
        /\ DOMAIN reader_sessions # {a}
        /\ reader_sessions' = Drop(reader_sessions, a)
        /\ \/ /\ Feeds(a) = {}                       \* no vector, or an empty one
              /\ reader_connections' = Drop(reader_connections, a)
              /\ UNCHANGED writer_connections
           \/ /\ Feeds(a) # {}
              /\ \E n \in DOMAIN reader_sessions :
                   IsNext(n, a, DOMAIN reader_sessions) /\ MoveHeadsets(a, n)
  /\ destroying' = destroying \ {s}
  /\ UNCHANGED <<writer_sessions, sessions, is_live, acceptor, posting, written, removed, phase, switcher>>

\* Variant: every vector is cleared, as for the only writer.
VectorsAllCleared(s) == [x \in DOMAIN reader_connections |-> {}]

\* The vectors after the last headset, or after headset session s, has gone.
VectorsWithout(s) ==
  [x \in DOMAIN reader_connections |->
     IF DOMAIN writer_sessions = {addr[s]} THEN {}
     ELSE IF x = Lookup(writer_connections, addr[s]) /\ addr[s] \in DOMAIN writer_connections
       THEN reader_connections[x] \ {s}
       ELSE reader_connections[x]]

RemoveWriterSession(s) ==
  LET a == addr[s] IN
  /\ s \in destroying /\ kind[s] = "headset"
  /\ \/ /\ ~SameSession(s, writer_sessions)
        /\ UNCHANGED <<writer_sessions, reader_connections, writer_connections>>
     \/ /\ SameSession(s, writer_sessions)
        /\ reader_connections' = VectorsWithout(s)
        /\ writer_connections' = IF DOMAIN writer_sessions = {a} THEN EmptyMap
                                 ELSE Drop(writer_connections, a)
        /\ writer_sessions' = Drop(writer_sessions, a)
  /\ destroying' = destroying \ {s}
  /\ UNCHANGED <<reader_sessions, sessions, is_live, acceptor, posting, written, removed, phase, switcher>>

\* _session_id is read twice by Remove... and written by the acceptor under no
\* lock: the id is stored between the two reads, the comparison fails, and the
\* session is taken for one that has already been removed.
RemoveWriterDuringAssign(s) ==
  /\ s \in destroying /\ kind[s] = "headset" /\ s = acceptor.session
  /\ Assign
  /\ destroying' = destroying \ {s}
  /\ UNCHANGED <<maps, kind, addr, is_live, posting, written, removed, phase, switcher>>

-----------------------------------------------------------------------------
(* Moving headsets between cameras *)

\* Variant: the move leaves the headset in its old vector as well.
MoveWriterNoErase(w, n) ==
  LET r == writer_connections[w] IN
  \E s \in Feeds(r) :
    /\ addr[s] = w
    /\ n \in DOMAIN reader_connections
    /\ reader_connections' = [reader_connections EXCEPT ![n] = @ \cup {s}]
    /\ writer_connections' = [writer_connections EXCEPT ![w] = n]

\* The headset at w, found by address in its camera's vector, moves to camera n.
MoveWriter(w, n) ==
  LET r == writer_connections[w] IN
  \E s \in Feeds(r) :
    /\ addr[s] = w
    /\ n \in DOMAIN reader_connections
    /\ reader_connections' = [reader_connections EXCEPT ![r] = @ \ {s}, ![n] = @ \cup {s}]
    /\ writer_connections' = [writer_connections EXCEPT ![w] = n]

MovingUnchanged ==
  UNCHANGED <<reader_sessions, writer_sessions, sessions, is_live, acceptor, posting, written,
              destroying, removed, phase>>

RotateWriterConnection(w) ==
  /\ Up /\ w \in DOMAIN writer_connections
  /\ writer_connections[w] \in DOMAIN reader_sessions
  /\ DOMAIN reader_sessions # {writer_connections[w]}
  /\ \E n \in DOMAIN reader_sessions :
       IsNext(n, writer_connections[w], DOMAIN reader_sessions) /\ MoveWriter(w, n)
  /\ MovingUnchanged /\ UNCHANGED switcher

ResetWriterConnection(w) ==
  /\ Up /\ w \in DOMAIN writer_connections
  /\ writer_connections[w] \in DOMAIN reader_sessions
  /\ \E n \in DOMAIN reader_sessions :
       /\ IsFirst(n, DOMAIN reader_sessions)
       /\ n # writer_connections[w]
       /\ MoveWriter(w, n)
  /\ MovingUnchanged /\ UNCHANGED switcher

\* Every vector is emptied into that of camera n, and every route set to n.
GatherAt(n) ==
  /\ n \in DOMAIN reader_sessions /\ n \in DOMAIN reader_connections
  /\ reader_connections' =
       [x \in DOMAIN reader_connections |->
          IF x = n THEN UNION Range(reader_connections) ELSE {}]
  /\ writer_connections' = [w \in DOMAIN writer_connections |-> n]

-----------------------------------------------------------------------------
(* The switching thread: CameraSwitchingAutomaticTimer or CameraSwitchingManualEntry *)

\* _work_stop, and the test of it at the head of the thread's loop.
WorkStop == phase \notin {"running", "clearing"}
LoopAgain(place) == switcher' = IF WorkStop THEN "ended" ELSE place

\* The timer's thread sleeps at most a second at a time, and then may find that
\* it is time to rotate; when there is nothing to rotate it only tests again.
RotateAllConnections ==
  /\ switcher = "timer"
  /\ \E w \in DOMAIN writer_connections, n \in DOMAIN reader_sessions :
       /\ IsFirst(w, DOMAIN writer_connections)
       /\ writer_connections[w] \in DOMAIN reader_sessions
       /\ DOMAIN reader_sessions # {writer_connections[w]}
       /\ IsNext(n, writer_connections[w], DOMAIN reader_sessions)
       /\ GatherAt(n)
  /\ LoopAgain("timer")
  /\ MovingUnchanged

\* A sleep or a select has timed out, a second after it began at the latest.
TimedOut ==
  /\ switcher \in {"timer", "select"} /\ WorkStop
  /\ switcher' = "ended"
  /\ UNCHANGED <<maps, sessions, is_live, acceptor, posting, written, destroying, removed, phase>>

\* select fails, and the loop is left; or something can be read, and the thread
\* waits for a whole number and, if it is none, for the end of the line.
Selected ==
  /\ switcher = "select"
  /\ switcher' \in {"ended", "stdin"}
  /\ UNCHANGED <<maps, sessions, is_live, acceptor, posting, written, destroying, removed, phase>>

\* The number read names camera r, or no camera that could be pointed at.
PointReaderAtWriters(r) ==
  /\ switcher = "stdin"
  /\ GatherAt(r)
  /\ LoopAgain("select")
  /\ MovingUnchanged

InvalidInput ==
  /\ switcher = "stdin"
  /\ LoopAgain("select")
  /\ UNCHANGED <<maps, sessions, is_live, acceptor, posting, written, destroying, removed, phase>>

-----------------------------------------------------------------------------
(* ServerStreamer::Stop, on the main thread *)

\* The locked section of Clear.
Clear ==
  /\ phase = "running"
  /\ reader_sessions' = EmptyMap /\ writer_sessions' = EmptyMap
  /\ reader_connections' = EmptyMap /\ writer_connections' = EmptyMap
  /\ removed' = Range(reader_sessions) \cup Range(writer_sessions)
  /\ phase' = "clearing"
  /\ UNCHANGED <<sessions, is_live, acceptor, posting, written, destroying, switcher>>

\* Variant: a session that is dead already is never passed over.
CloseRemovedStuck(s) ==
  /\ s \in removed
  /\ removed' = IF is_live[s] THEN removed \ {s} ELSE removed
  /\ is_live' = [is_live EXCEPT ![s] = FALSE]
  /\ UNCHANGED <<maps, sessions, acceptor, posting, written, destroying, phase, switcher>>

\* The rest of Clear: TryClose(false) on each session it took out.
CloseRemoved(s) ==
  /\ s \in removed
  /\ removed' = removed \ {s}
  /\ is_live' = [is_live EXCEPT ![s] = FALSE]
  /\ UNCHANGED <<maps, sessions, acceptor, posting, written, destroying, phase, switcher>>

\* _work_stop is set.
StopWorkThread ==
  /\ phase = "clearing" /\ removed = {}
  /\ phase' = "ending"
  /\ UNCHANGED <<maps, sessions, is_live, acceptor, posting, written, destroying, removed, switcher>>

\* The switching thread, if there is one, is joined once it has ended.
JoinWorkThread ==
  /\ phase = "ending" /\ switcher \in {"none", "ended"}
  /\ phase' = "stopping"
  /\ UNCHANGED <<maps, sessions, is_live, acceptor, posting, written, destroying, removed, switcher>>

\* TcpServer::Stop sets _is_stopped: no connection is accepted from here on.
StopTcpServer ==
  /\ phase = "stopping"
  /\ phase' = "cancelling"
  /\ UNCHANGED <<maps, sessions, is_live, acceptor, posting, written, destroying, removed, switcher>>

\* The cancellation has run on the acceptor strand, after any Add still there,
\* and the io_context is told to stop.
StopContext ==
  /\ phase = "cancelling" /\ acceptor.pc = "idle"
  /\ phase' = "joining"
  /\ UNCHANGED <<maps, sessions, is_live, acceptor, posting, written, destroying, removed, switcher>>

\* AsioContext::Stop joins its threads once the handlers they run have returned.
JoinPool ==
  /\ phase = "joining" /\ destroying = {} /\ posting = {}
  /\ phase' = "down"
  /\ UNCHANGED <<maps, sessions, is_live, acceptor, posting, written, destroying, removed, switcher>>

Terminated == phase = "down" /\ UNCHANGED vars

AcceptorStep == AttachReader \/ AttachWriter \/ SwapWriter \/ CloseReplaced \/ AssignSessionId
MainStep ==
  (\E s \in Session : CloseRemoved(s)) \/ StopWorkThread \/ JoinWorkThread \/ StopTcpServer
  \/ StopContext \/ JoinPool
HandlerStep(s) ==
  RemoveReaderSession(s) \/ RemoveWriterSession(s) \/ RemoveWriterDuringAssign(s) \/ PostMessage(s)

Next ==
  \/ \E a \in ReaderAddr : RegisterReader(a) \/ PointReaderAtWriters(a)
  \/ \E a \in WriterAddr :
       RegisterWriter(a) \/ RotateWriterConnection(a) \/ ResetWriterConnection(a)
  \/ AcceptorStep
  \/ \E s \in Session : FrameReceived(s) \/ CloseSession(s) \/ HandlerStep(s)
  \/ RotateAllConnections \/ TimedOut \/ Selected \/ InvalidInput
  \/ Clear
  \/ MainStep
  \/ Terminated

\* A function call in progress on some thread goes on: the acceptor strand, the
\* handler of every session and the main thread once Stop has been called; and a
\* sleep or a select of the switching thread times out.  Nobody has to type.
Fairness ==
  /\ WF_vars(AcceptorStep)
  /\ WF_vars(MainStep)
  /\ WF_vars(TimedOut)
  /\ \A s \in Session : WF_vars(HandlerStep(s))

Spec == Init /\ [][Next]_vars /\ Fairness

-----------------------------------------------------------------------------
(* Properties *)

\* A std::map from keys in K to values in V.
IsMap(f, K, V) == DOMAIN f \subseteq K /\ f \in [DOMAIN f -> V]

TypeOK ==
  /\ IsMap(reader_sessions, ReaderAddr, Session)
  /\ IsMap(writer_sessions, WriterAddr, Session)
  /\ IsMap(reader_connections, ReaderAddr, SUBSET Session)
  /\ IsMap(writer_connections, WriterAddr, ReaderAddr)
  /\ last_session_number \in 0 .. MaxSessions
  /\ kind \in [Session -> {"camera", "headset", "none"}]
  /\ addr \in [Session -> Addr \cup {0}]
  /\ session_id \in [Session -> 0 .. MaxSessions]
  /\ is_live \in [Session -> BOOLEAN]
  /\ acceptor \in [pc : AcceptorPC, session : Session \cup {NoSession}, first : BOOLEAN,
                   old : Session \cup {NoSession}]
  /\ posting \subseteq Session /\ written \subseteq Session
  /\ destroying \subseteq Session /\ removed \subseteq Session
  /\ phase \in Phase /\ switcher \in SwitcherPlace

Fed(s) == \E r \in DOMAIN reader_connections : s \in reader_connections[r]

\* PostMessage never hands a frame to a headset twice, nor frames of two cameras
\* to one headset: whoever is in a vector is routed to that camera, and no two
\* sessions of one address are in vectors.  Add, Remove, Rotate, Reset and Point
\* update the two maps separately; the route is what later calls find it by.
OneFeedPerHeadset ==
  \A r \in DOMAIN reader_connections : \A s \in reader_connections[r] :
    /\ addr[s] \in DOMAIN writer_connections
    /\ writer_connections[addr[s]] = r
    /\ \A q \in DOMAIN reader_connections : \A t \in reader_connections[q] :
         addr[t] = addr[s] => q = r /\ t = s

\* Frames go to the session now registered for a headset, never to one that a
\* reconnection replaced, except while AddWriterSession is between its sections.
FeedsCurrentSession ==
  \A r \in DOMAIN reader_connections : \A s \in reader_connections[r] :
    \/ addr[s] \in DOMAIN writer_sessions /\ writer_sessions[addr[s]] = s
    \/ acceptor.pc = "swap_writer" /\ acceptor.old = s

\* Until shutdown, outside the middle of an AddReaderSession, the cameras that
\* have a vector are the registered ones, although Remove, Add and the four
\* switching calls insert and erase the two maps under different locks.
VectorPerCamera ==
  phase = "running" =>
    /\ DOMAIN reader_connections \subseteq DOMAIN reader_sessions
    /\ \A r \in DOMAIN reader_sessions \ DOMAIN reader_connections :
         acceptor.pc = "attach_reader" /\ addr[acceptor.session] = r

\* Whenever there is a camera, every registered headset has a route, whatever
\* order cameras and headsets came, went and came back in.
EveryHeadsetRouted ==
  phase = "running" /\ acceptor.pc = "idle" /\ DOMAIN reader_sessions # {}
    => DOMAIN writer_connections = DOMAIN writer_sessions

\* The camera between the two sections of its AddReaderSession.
Starting ==
  IF acceptor.pc = "attach_reader"
    THEN {[camera |-> addr[acceptor.session], first |-> acceptor.first]}
    ELSE {}

\* What all of this is for, in the terms of FrameRouter: sessions of cameras and
\* headsets, and who is in whose vector.
Router == INSTANCE FrameRouter
            WITH Camera <- ReaderAddr, Address <- Addr \cup {0},
                 cameras <- DOMAIN reader_sessions, headsets <- Range(writer_sessions),
                 audience <- [a \in ReaderAddr |-> Feeds(a)],
                 address <- addr, received <- written,
                 starting <- Starting

\* Add, Remove, PostMessage, the switching calls and Clear, each under its own
\* lock and Add under two in turn, do to the vectors what FrameRouter says and no
\* more: a removal never takes or moves another headset's frames, although it
\* clears every vector or map; what moves goes to a registered camera; and a
\* camera registered when there was none, whatever happens before it is attached,
\* finds nobody fed and is given every registered headset; no other is given any.
RoutesFrames == Router!Spec

\* Only the second section of AddReaderSession can take the frames away from a
\* headset that stays registered while a camera remains: no removal of another
\* camera or headset, no rotation and no late Destroy does.
OnlyAttachReaderUnfeeds ==
  [][\A s \in Session :
       Fed(s) /\ ~Fed(s)' /\ s \in Range(writer_sessions') /\ DOMAIN reader_sessions' # {}
         => acceptor.pc = "attach_reader"]_vars

\* A Destroy that comes late, after its address reconnected, never unregisters
\* the successor: what leaves a map is a session in TryClose(true), one that is
\* replaced, or everything at Clear.
UnregisteredByItself ==
  [][phase = phase' =>
       /\ \A a \in DOMAIN reader_sessions \ DOMAIN reader_sessions' : reader_sessions[a] \in destroying
       /\ \A a \in DOMAIN writer_sessions \ DOMAIN writer_sessions' : writer_sessions[a] \in destroying
    ]_vars

\* Stop waits for the manual entry thread, and that for a user to type on.
WaitsForInput == phase = "ending" /\ switcher = "stdin"

\* Stop returns unless it waits for input for ever: Clear, the thread that reads
\* _work_stop only between two turns of its loop, the promise fulfilled on the
\* acceptor strand and the join of the pool do not wait on one another.
ShutdownCompletes ==
  []<>~WaitsForInput => ((phase = "clearing") ~> (phase = "down"))

-----------------------------------------------------------------------------
(* What a comment of the code says, and the code does not do *)

\* "this should never get here" (RemoveWriterSession, the headset's camera has
\* an empty vector): a routed headset that is being removed is in a vector.
RemovedWriterHasConnection ==
  \A s \in destroying :
    /\ kind[s] = "headset" /\ SameSession(s, writer_sessions)
    /\ DOMAIN writer_sessions # {addr[s]}
    /\ addr[s] \in DOMAIN writer_connections
    => Feeds(writer_connections[addr[s]]) # {}
=============================================================================
