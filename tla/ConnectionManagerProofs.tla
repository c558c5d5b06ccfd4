----------------------- MODULE ConnectionManagerProofs ----------------------
(***************************************************************************)
(* For any addresses and any number of sessions, ConnectionManager keeps   *)
(* its four maps consistent: OneFeedPerHeadset and FeedsCurrentSession are *)
(* invariants, and a late Destroy never unregisters a successor.           *)
(*                                                                         *)
(* None of them is inductive.  The strengthening Inv says what is known of *)
(* session ids (Numbering), what an Add that is between its two sections   *)
(* has already done and what nobody can have undone (Pending, FirstReader),*)
(* and that a vector that outlives its camera is empty (EmptyStubs).       *)
(*                                                                         *)
(* With Inv, ConnectionManager is shown to implement FrameRouter.          *)
(***************************************************************************)
EXTENDS ConnectionManager, WellFoundedInduction, TLAPS

Registering == acceptor.pc \in {"attach_reader", "attach_writer", "swap_writer"}

\* s has been accepted; and its Add has passed its second section.
Accepted(s) == s <= last_session_number \/ (acceptor.pc # "idle" /\ s = acceptor.session)
Settled(s) == s <= last_session_number \/ (acceptor.pc \in {"close", "assign"} /\ s = acceptor.session)

\* Ids are handed out in the order of acceptance; only the session the
\* acceptor works on has none; and a session is closed only once it is settled.
Numbering ==
  /\ \A s \in Session : session_id[s] = IF s <= last_session_number THEN s ELSE 0
  /\ acceptor.pc # "idle" =>
       /\ acceptor.session = last_session_number + 1
       /\ acceptor.session \in Session
       /\ acceptor.old <= last_session_number
  /\ \A s \in written \cup destroying : Settled(s)

\* A session is registered under its own address.
OwnAddress ==
  /\ \A a \in DOMAIN reader_sessions :
       addr[reader_sessions[a]] = a /\ Accepted(reader_sessions[a])
  /\ \A a \in DOMAIN writer_sessions :
       addr[writer_sessions[a]] = a /\ Accepted(writer_sessions[a])

MapsEmpty ==
  /\ DOMAIN reader_sessions = {} /\ DOMAIN writer_sessions = {}
  /\ DOMAIN reader_connections = {} /\ DOMAIN writer_connections = {}

\* Between its sections, an Add still has its session registered, unless Clear
\* came in between, and then nothing has been registered since.
Pending ==
  /\ acceptor.pc = "attach_reader" =>
       /\ addr[acceptor.session] \in ReaderAddr
       /\ \/ /\ addr[acceptor.session] \in DOMAIN reader_sessions
             /\ reader_sessions[addr[acceptor.session]] = acceptor.session
          \/ phase # "running" /\ MapsEmpty
  /\ acceptor.pc \in {"attach_writer", "swap_writer"} =>
       /\ addr[acceptor.session] \in WriterAddr
       /\ \/ /\ addr[acceptor.session] \in DOMAIN writer_sessions
             /\ writer_sessions[addr[acceptor.session]] = acceptor.session
          \/ phase # "running" /\ MapsEmpty
  /\ acceptor.pc = "swap_writer" =>
       acceptor.old \in Session /\ addr[acceptor.old] = addr[acceptor.session]

\* The first camera, before it is given the headsets, finds no vector in use.
FirstReader ==
  acceptor.pc = "attach_reader" /\ acceptor.first =>
    \A r \in DOMAIN reader_connections : reader_connections[r] = {}

\* Who is in a vector is routed to that camera, and its Add has attached it.
Routes ==
  \A r \in DOMAIN reader_connections : \A s \in reader_connections[r] :
    /\ addr[s] \in DOMAIN writer_connections
    /\ writer_connections[addr[s]] = r
    /\ Settled(s)

\* A vector without a registered camera is empty.
EmptyStubs ==
  \A r \in DOMAIN reader_connections :
    r \notin DOMAIN reader_sessions => reader_connections[r] = {}

Inv ==
  /\ TypeOK
  /\ Numbering
  /\ OwnAddress
  /\ Pending
  /\ FirstReader
  /\ Routes
  /\ EmptyStubs
  /\ FeedsCurrentSession
  /\ VectorPerCamera

-----------------------------------------------------------------------------
(* Facts used by several actions *)

\* Two sessions of one headset address are never both in vectors: one of them
\* would be the registered session and the other its predecessor, but the
\* registered one is in no vector while the predecessor is.
LEMMA UniqueFeed ==
  ASSUME Inv,
         NEW q \in DOMAIN reader_connections, NEW t \in reader_connections[q],
         NEW r \in DOMAIN reader_connections, NEW s \in reader_connections[r],
         addr[t] = addr[s]
  PROVE  t = s /\ q = r
<1>1. q = r
  BY DEF Inv, Routes
<1>2. Settled(s) /\ Settled(t)
  BY DEF Inv, Routes
<1>3. s \in Session /\ t \in Session
  BY DEF Inv, TypeOK, IsMap
<1>4. CASE acceptor.pc = "swap_writer"
  <2>1. acceptor.session # s /\ acceptor.session # t
    BY <1>2, <1>3, <1>4 DEF Inv, Numbering, Settled, Session, TypeOK
  <2>2. addr[acceptor.session] \in DOMAIN writer_sessions
        /\ writer_sessions[addr[acceptor.session]] = acceptor.session
    BY <1>4 DEF Inv, Pending, MapsEmpty
  <2>3. addr[acceptor.old] = addr[acceptor.session]
    BY <1>4 DEF Inv, Pending
  <2>. QED
    BY <1>1, <1>4, <2>1, <2>2, <2>3 DEF Inv, FeedsCurrentSession
<1>5. CASE acceptor.pc # "swap_writer"
  BY <1>1, <1>5 DEF Inv, FeedsCurrentSession
<1>. QED
  BY <1>4, <1>5

\* The id comparison of Remove... identifies the session: ids are never shared.
LEMMA SameSessionIsSame ==
  ASSUME Inv, NEW s \in destroying
  PROVE  /\ SameSession(s, reader_sessions) => reader_sessions[addr[s]] = s
         /\ SameSession(s, writer_sessions) => writer_sessions[addr[s]] = s
<1>1. s \in Session /\ Settled(s)
  BY DEF Inv, Numbering, TypeOK
<1>2. ASSUME NEW t \in Session, Accepted(t), session_id[t] = session_id[s]
      PROVE  t = s
  BY <1>1, <1>2 DEF Inv, Numbering, Accepted, Settled, Session, TypeOK
<1>. QED
  BY <1>1, <1>2 DEF Inv, OwnAddress, SameSession, TypeOK, IsMap

-----------------------------------------------------------------------------
(* Inv is inductive: one lemma per group of actions *)

LEMMA InitInv == Init => Inv
<1>. SUFFICES ASSUME Init PROVE Inv
  OBVIOUS
<1>1. MapsEmpty
  BY DEF Init, EmptyMap, MapsEmpty
<1>2. TypeOK
  BY MaxSessionsAssumption, StrategiesAssumption
  DEF Init, EmptyMap, TypeOK, IsMap, Session, Idle, AcceptorPC, NoSession, Phase, SwitcherPlace
<1>3. Numbering
  BY MaxSessionsAssumption DEF Init, Idle, Numbering, Session
<1>. QED
  BY <1>1, <1>2, <1>3
  DEF Inv, Init, Idle, MapsEmpty, OwnAddress, Pending, FirstReader, Routes, EmptyStubs,
      FeedsCurrentSession, VectorPerCamera

\* A new session is not among the accepted ones, so nothing said of those
\* changes; its predecessor, if it is in a vector, is the one to be swapped.
LEMMA RegisterReaderInv ==
  ASSUME Inv, NEW a \in ReaderAddr, RegisterReader(a)
  PROVE  Inv'
<1>. USE DEF RegisterReader, Accept
<1>s. last_session_number \in Nat /\ last_session_number + 1 \in Session
  BY MaxSessionsAssumption DEF Inv, TypeOK, Session
<1>m. DOMAIN reader_sessions' = DOMAIN reader_sessions \cup {a}
  BY DEF Put
<1>1. TypeOK'
  <2>1. IsMap(reader_sessions', ReaderAddr, Session)
    BY <1>s DEF Inv, TypeOK, IsMap, Put
  <2>2. acceptor'.old \in Session \cup {NoSession}
    BY DEF Inv, TypeOK, IsMap, Lookup
  <2>. QED
    BY <1>s, <2>1, <2>2 DEF Inv, TypeOK, IsMap, AcceptorPC, Addr, NoReaders
<1>2. Numbering'
  BY <1>s DEF Inv, TypeOK, Numbering, Settled, OwnAddress, Accepted, Lookup, IsMap, NoSession, Session
<1>3. OwnAddress'
  BY <1>s, <1>m DEF Inv, TypeOK, OwnAddress, Accepted, Numbering, Put, IsMap, Session
<1>4. Pending'
  BY <1>s, <1>m DEF Inv, TypeOK, Pending, Put
<1>5. FirstReader'
  BY DEF Inv, FirstReader, EmptyStubs, NoReaders
<1>6. Routes'
  BY <1>s DEF Inv, TypeOK, Routes, Settled, IsMap, Session
<1>7. EmptyStubs'
  BY <1>m DEF Inv, EmptyStubs
<1>8. FeedsCurrentSession'
  BY <1>s DEF Inv, TypeOK, FeedsCurrentSession, Routes, Settled, IsMap, Session
<1>9. VectorPerCamera'
  BY <1>s, <1>m DEF Inv, VectorPerCamera, TypeOK
<1>. QED
  BY <1>1, <1>2, <1>3, <1>4, <1>5, <1>6, <1>7, <1>8, <1>9 DEF Inv

LEMMA RegisterWriterInv ==
  ASSUME Inv, NEW a \in WriterAddr, RegisterWriter(a)
  PROVE  Inv'
<1>. USE DEF RegisterWriter, Accept
<1>s. last_session_number \in Nat /\ last_session_number + 1 \in Session
  BY MaxSessionsAssumption DEF Inv, TypeOK, Session
<1>m. DOMAIN writer_sessions' = DOMAIN writer_sessions \cup {a}
  BY DEF Put
<1>1. TypeOK'
  <2>1. IsMap(writer_sessions', WriterAddr, Session)
    BY <1>s DEF Inv, TypeOK, IsMap, Put
  <2>2. acceptor'.old \in Session \cup {NoSession}
    BY DEF Inv, TypeOK, IsMap, Lookup
  <2>. QED
    BY <1>s, <2>1, <2>2 DEF Inv, TypeOK, IsMap, AcceptorPC, Addr
<1>2. Numbering'
  BY <1>s DEF Inv, TypeOK, Numbering, Settled, OwnAddress, Accepted, Lookup, IsMap, NoSession, Session
<1>3. OwnAddress'
  BY <1>s, <1>m DEF Inv, TypeOK, OwnAddress, Accepted, Numbering, Put, IsMap, Session
<1>4. Pending'
  BY <1>s, <1>m DEF Inv, TypeOK, IsMap, Pending, Put, OwnAddress, Accepted, Lookup, Session
<1>5. FirstReader'
  BY DEF Inv, FirstReader
<1>6. Routes'
  BY <1>s DEF Inv, TypeOK, Routes, Settled, IsMap, Session
<1>7. EmptyStubs'
  BY DEF Inv, EmptyStubs
<1>8. FeedsCurrentSession'
  <2>. SUFFICES ASSUME NEW r \in DOMAIN reader_connections, NEW s \in reader_connections[r]
                PROVE  \/ /\ addr'[s] \in DOMAIN writer_sessions'
                          /\ writer_sessions'[addr'[s]] = s
                       \/ acceptor'.pc = "swap_writer" /\ acceptor'.old = s
    BY DEF FeedsCurrentSession
  <2>1. addr'[s] = addr[s]
    BY <1>s DEF Inv, Routes, Settled, TypeOK, IsMap, Session
  <2>2. addr[s] \in DOMAIN writer_sessions /\ writer_sessions[addr[s]] = s
    BY DEF Inv, FeedsCurrentSession
  <2>3. CASE addr[s] = a
    BY <2>2, <2>3 DEF Inv, Routes, Lookup
  <2>4. CASE addr[s] # a
    BY <2>1, <2>2, <2>4 DEF Put
  <2>. QED
    BY <2>3, <2>4
<1>9. VectorPerCamera'
  BY <1>s DEF Inv, VectorPerCamera, TypeOK
<1>. QED
  BY <1>1, <1>2, <1>3, <1>4, <1>5, <1>6, <1>7, <1>8, <1>9 DEF Inv

\* AttachReader writes routes only when no vector is in use, and otherwise
\* only empties one.
LEMMA AttachReaderInv ==
  ASSUME Inv, AttachReader
  PROVE  Inv'
<1>. USE DEF AttachReader
<1>. DEFINE a == addr[acceptor.session]
<1>p. a \in ReaderAddr
  BY DEF Inv, Pending
<1>m. DOMAIN reader_connections' = DOMAIN reader_connections \cup {a}
  BY DEF Put
<1>1. TypeOK'
  <2>1. IsMap(reader_connections', ReaderAddr, SUBSET Session)
    BY <1>p DEF Inv, TypeOK, IsMap, Put, Range
  <2>2. IsMap(writer_connections', WriterAddr, ReaderAddr)
    BY <1>p DEF Inv, TypeOK, IsMap
  <2>. QED
    BY <2>1, <2>2 DEF Inv, TypeOK, IsMap, AcceptorPC, sessions
<1>2. Numbering'
  BY DEF Inv, Numbering, Settled, TypeOK, sessions
<1>3. OwnAddress'
  BY DEF Inv, OwnAddress, Accepted, TypeOK, sessions
<1>4. Pending'
  BY DEF Inv, Pending, TypeOK
<1>5. FirstReader'
  BY DEF Inv, FirstReader, TypeOK
<1>6. Routes'
  <2>1. CASE acceptor.first
    <3>1. \A r \in DOMAIN reader_connections : reader_connections[r] = {}
      BY <2>1 DEF Inv, FirstReader
    <3>. SUFFICES ASSUME NEW r \in DOMAIN reader_connections', NEW s \in reader_connections'[r]
                  PROVE  /\ addr[s] \in DOMAIN writer_connections'
                         /\ writer_connections'[addr[s]] = r
                         /\ Settled(s)'
      BY DEF Routes, sessions
    <3>2. r = a /\ s \in Range(writer_sessions)
      BY <2>1, <3>1 DEF Put
    <3>3. PICK w \in DOMAIN writer_sessions : s = writer_sessions[w]
      BY <3>2 DEF Range
    <3>4. addr[s] = w /\ Accepted(s)
      BY <3>3 DEF Inv, OwnAddress
    <3>. QED
      BY <2>1, <3>2, <3>3, <3>4 DEF Inv, TypeOK, Settled, Accepted, sessions
  <2>2. CASE ~acceptor.first
    BY <2>2 DEF Inv, Routes, Settled, Put, TypeOK, sessions
  <2>. QED
    BY <2>1, <2>2
<1>7. EmptyStubs'
  <2>1. a \in DOMAIN reader_sessions \/ MapsEmpty
    BY DEF Inv, Pending
  <2>2. MapsEmpty => Range(writer_sessions) = {}
    BY DEF MapsEmpty, Range
  <2>. QED
    BY <1>m, <2>1, <2>2 DEF Inv, EmptyStubs, Put
<1>8. FeedsCurrentSession'
  <2>1. \A s \in Range(writer_sessions) :
          addr[s] \in DOMAIN writer_sessions /\ writer_sessions[addr[s]] = s
    BY DEF Inv, OwnAddress, Range
  <2>. QED
    BY <2>1 DEF Inv, FeedsCurrentSession, Put, sessions, TypeOK
<1>9. VectorPerCamera'
  BY <1>m DEF Inv, VectorPerCamera, Pending, TypeOK, sessions
<1>. QED
  BY <1>1, <1>2, <1>3, <1>4, <1>5, <1>6, <1>7, <1>8, <1>9 DEF Inv

\* The session AttachWriter pushes is the registered one and in no vector yet.
LEMMA AttachWriterInv ==
  ASSUME Inv, AttachWriter
  PROVE  Inv'
<1>. USE DEF AttachWriter
<1>. DEFINE s == acceptor.session
<1>p. addr[s] \in WriterAddr /\ s \in Session /\ s = last_session_number + 1
  BY DEF Inv, Pending, Numbering
<1>1. TypeOK'
  <2>1. IsMap(reader_connections', ReaderAddr, SUBSET Session)
    BY <1>p DEF Inv, TypeOK, IsMap
  <2>2. IsMap(writer_connections', WriterAddr, ReaderAddr)
    BY <1>p DEF Inv, TypeOK, IsMap, Put
  <2>. QED
    BY <2>1, <2>2 DEF Inv, TypeOK, IsMap, AcceptorPC, sessions
<1>2. Numbering'
  BY DEF Inv, Numbering, Settled, TypeOK, sessions
<1>3. OwnAddress'
  BY DEF Inv, OwnAddress, Accepted, TypeOK, sessions
<1>4. Pending'
  BY DEF Inv, Pending, TypeOK
<1>5. FirstReader'
  BY DEF Inv, FirstReader, TypeOK
<1>6. CASE UNCHANGED <<reader_connections, writer_connections>>
  <2>1. Routes'
    BY <1>6 DEF Inv, Routes, Settled, TypeOK, sessions
  <2>2. FeedsCurrentSession'
    BY <1>6 DEF Inv, FeedsCurrentSession, TypeOK, sessions
  <2>3. EmptyStubs' /\ VectorPerCamera'
    BY <1>6 DEF Inv, EmptyStubs, VectorPerCamera, TypeOK, sessions
  <2>. QED
    BY <1>1, <1>2, <1>3, <1>4, <1>5, <2>1, <2>2, <2>3 DEF Inv
<1>7. ASSUME NEW r \in DOMAIN reader_sessions, r \in DOMAIN reader_connections,
             reader_connections' =
               [reader_connections EXCEPT ![r] = reader_connections[r] \cup {s}],
             writer_connections' = Put(writer_connections, addr[s], r)
      PROVE  Inv'
  <2>1. addr[s] \in DOMAIN writer_sessions /\ writer_sessions[addr[s]] = s
    BY <1>7 DEF Inv, Pending, MapsEmpty
  <2>2. \A q \in DOMAIN reader_connections : \A t \in reader_connections[q] :
          addr[t] # addr[s] /\ Settled(t)'
    <3>. SUFFICES ASSUME NEW q \in DOMAIN reader_connections, NEW t \in reader_connections[q]
                  PROVE  addr[t] # addr[s] /\ Settled(t)'
      OBVIOUS
    <3>1. t <= last_session_number
      BY <1>p DEF Inv, Routes, Settled
    <3>2. writer_sessions[addr[t]] = t
      BY DEF Inv, FeedsCurrentSession
    <3>. QED
      BY <1>p, <2>1, <3>1, <3>2 DEF Settled, sessions, Inv, TypeOK
  <2>3. Settled(s)'
    BY DEF Settled, sessions, Inv, TypeOK
  <2>4. Routes'
    BY <1>7, <2>2, <2>3 DEF Inv, Routes, Put, sessions, TypeOK
  <2>5. FeedsCurrentSession'
    BY <1>7, <2>1 DEF Inv, FeedsCurrentSession, sessions, TypeOK
  <2>6. EmptyStubs' /\ VectorPerCamera'
    BY <1>7 DEF Inv, EmptyStubs, VectorPerCamera, TypeOK, sessions
  <2>. QED
    BY <1>1, <1>2, <1>3, <1>4, <1>5, <2>4, <2>5, <2>6 DEF Inv
<1>. QED
  BY <1>6, <1>7

\* The predecessor is in the vector its route names or in none, so that the swap
\* finds it wherever it is, even if the route has gone since it was looked up.
LEMMA SwapReplaces ==
  ASSUME Inv, SwapWriter
  PROVE  /\ acceptor.session = last_session_number + 1 /\ acceptor.session \in Session
         /\ acceptor.old \in Session /\ acceptor.old # acceptor.session
         /\ addr[acceptor.old] = addr[acceptor.session]
         /\ reader_connections' =
              [x \in DOMAIN reader_connections |->
                 IF acceptor.old \in reader_connections[x]
                   THEN (reader_connections[x] \ {acceptor.old}) \cup {acceptor.session}
                   ELSE reader_connections[x]]
<1>. DEFINE s == acceptor.session
            old == acceptor.old
<1>1. PICK r \in SwapTargets(addr[s]) :
        reader_connections' =
          [x \in DOMAIN reader_connections |->
             IF x = r THEN SwapInto(s, old, r) ELSE reader_connections[x]]
  BY DEF SwapWriter
<1>2. /\ s = last_session_number + 1 /\ s \in Session
      /\ old \in Session /\ addr[old] = addr[s] /\ old # s
  BY DEF SwapWriter, Inv, Pending, Numbering, TypeOK, Session
<1>3. ASSUME NEW x \in DOMAIN reader_connections, old \in reader_connections[x]
      PROVE  x = r
  BY <1>2, <1>3 DEF Inv, Routes, SwapTargets
<1>. QED
  BY <1>1, <1>2, <1>3 DEF SwapInto, Feeds

\* After the swap the predecessor is in no vector.
LEMMA SwapWriterInv ==
  ASSUME Inv, SwapWriter
  PROVE  Inv'
<1>. USE DEF SwapWriter
<1>. DEFINE s == acceptor.session
            old == acceptor.old
<1>1. /\ s = last_session_number + 1 /\ s \in Session
      /\ old \in Session /\ addr[old] = addr[s] /\ old # s
  BY SwapReplaces
<1>2. reader_connections' =
        [x \in DOMAIN reader_connections |->
           IF old \in reader_connections[x] THEN (reader_connections[x] \ {old}) \cup {s}
           ELSE reader_connections[x]]
  BY SwapReplaces
<1>3. DOMAIN reader_connections' = DOMAIN reader_connections
  BY <1>2
<1>4. TypeOK'
  <2>1. \A x \in DOMAIN reader_connections : reader_connections[x] \subseteq Session
    BY DEF Inv, TypeOK, IsMap
  <2>2. IsMap(reader_connections', ReaderAddr, SUBSET Session)
    BY <1>1, <1>2, <2>1 DEF Inv, TypeOK, IsMap
  <2>. QED
    BY <2>2 DEF Inv, TypeOK, IsMap, AcceptorPC, sessions
<1>5. Numbering' /\ OwnAddress'
  BY DEF Inv, Numbering, OwnAddress, Accepted, Settled, TypeOK, sessions
<1>6. Pending' /\ FirstReader'
  BY DEF Inv, Pending, FirstReader, TypeOK
<1>7. ASSUME NEW x \in DOMAIN reader_connections', NEW t \in reader_connections'[x]
      PROVE  /\ addr[t] \in DOMAIN writer_connections /\ writer_connections[addr[t]] = x
             /\ Settled(t)'
             /\ addr[t] \in DOMAIN writer_sessions /\ writer_sessions[addr[t]] = t
  <2>1. CASE t = s
    <3>1. old \in reader_connections[x] \/ s \in reader_connections[x]
      BY <1>2, <1>7, <2>1
    <3>2. s \notin reader_connections[x]
      BY <1>1, <1>3, <1>7 DEF Inv, Routes, Settled, TypeOK
    <3>3. addr[s] \in DOMAIN writer_connections /\ writer_connections[addr[s]] = x
      BY <1>1, <1>3, <1>7, <3>1, <3>2 DEF Inv, Routes
    <3>4. addr[s] \in DOMAIN writer_sessions /\ writer_sessions[addr[s]] = s
      BY <1>3, <1>7 DEF Inv, Pending, MapsEmpty
    <3>. QED
      BY <2>1, <3>3, <3>4 DEF Settled, sessions, Inv, TypeOK
  <2>2. CASE t # s
    <3>1. t \in reader_connections[x] /\ t # old
      BY <1>2, <1>7, <2>2
    <3>. QED
      BY <1>3, <1>7, <3>1 DEF Inv, Routes, FeedsCurrentSession, Settled, sessions, TypeOK
  <2>. QED
    BY <2>1, <2>2
<1>8. Routes' /\ FeedsCurrentSession'
  BY <1>7 DEF Routes, FeedsCurrentSession, sessions
<1>9. EmptyStubs' /\ VectorPerCamera'
  BY <1>2, <1>3 DEF Inv, EmptyStubs, VectorPerCamera, TypeOK, sessions
<1>. QED
  BY <1>4, <1>5, <1>6, <1>7, <1>8, <1>9 DEF Inv

\* The steps that leave the maps alone: the session the acceptor works on stays
\* settled, then gets the next number; only a settled session is closed.
LEMMA QuietInv ==
  ASSUME Inv, NEW s,
         \/ CloseReplaced \/ AssignSessionId
         \/ /\ s \in Session
            /\ \/ RemoveWriterDuringAssign(s) \/ FrameReceived(s) \/ PostMessage(s)
               \/ CloseSession(s) \/ CloseRemoved(s)
         \/ StopWorkThread \/ JoinWorkThread \/ StopTcpServer \/ StopContext \/ JoinPool
         \/ TimedOut \/ Selected \/ InvalidInput
         \/ UNCHANGED vars
  PROVE  Inv'
<1>1. CASE CloseReplaced
  <2>1. TypeOK'
    BY <1>1 DEF CloseReplaced, Inv, TypeOK, IsMap, AcceptorPC, maps, sessions
  <2>2. Numbering' /\ OwnAddress' /\ Routes'
    BY <1>1 DEF CloseReplaced, Inv, TypeOK, Numbering, OwnAddress, Routes, Accepted, Settled,
                maps, sessions
  <2>3. Pending' /\ FirstReader' /\ EmptyStubs' /\ FeedsCurrentSession' /\ VectorPerCamera'
    BY <1>1 DEF CloseReplaced, Inv, TypeOK, Pending, FirstReader, EmptyStubs,
                FeedsCurrentSession, VectorPerCamera, maps, sessions
  <2>. QED
    BY <2>1, <2>2, <2>3 DEF Inv
<1>2. CASE AssignSessionId \/ RemoveWriterDuringAssign(s)
  <2>. USE <1>2 DEF AssignSessionId, RemoveWriterDuringAssign, Assign, maps
  <2>a. /\ acceptor.session = last_session_number + 1 /\ acceptor.session \in Session
        /\ last_session_number \in Nat
    BY DEF Inv, Numbering, TypeOK
  <2>b. last_session_number + 1 \in 0 .. MaxSessions
    BY <2>a, MaxSessionsAssumption DEF Session
  <2>c. /\ last_session_number' = last_session_number + 1
        /\ session_id' = [session_id EXCEPT ![acceptor.session] = last_session_number + 1]
        /\ acceptor' = Idle
        /\ UNCHANGED <<maps, kind, addr, is_live, posting, written, removed, phase, switcher>>
        /\ destroying' \subseteq destroying
    OBVIOUS
  <2>d. Idle \in [pc : AcceptorPC, session : Session \cup {NoSession}, first : BOOLEAN,
                 old : Session \cup {NoSession}]
    BY DEF Idle, AcceptorPC
  <2>1. TypeOK'
    BY ONLY Inv, <2>b, <2>c, <2>d DEF Inv, TypeOK, IsMap, maps
  <2>2. \A t \in Session : Accepted(t) => Settled(t)' /\ Accepted(t)'
    BY <2>a DEF Accepted, Settled, Idle, Session
  <2>3. \A t \in Session : Settled(t) => Settled(t)'
    BY <2>a DEF Settled, Idle, Session
  <2>4. Numbering'
    <3>1. \A t \in Session : session_id'[t] = IF t <= last_session_number' THEN t ELSE 0
      BY ONLY Inv, <2>a, <2>c DEF Inv, Numbering, Session, TypeOK
    <3>2. \A t \in written' \cup destroying' : Settled(t)'
      BY ONLY Inv, <2>c, <2>3 DEF Inv, Numbering, TypeOK
    <3>. QED
      BY ONLY <2>c, <3>1, <3>2 DEF Numbering, Idle
  <2>5. OwnAddress'
    BY <2>2 DEF Inv, OwnAddress, TypeOK, IsMap
  <2>6. Routes'
    BY <2>3 DEF Inv, Routes, TypeOK, IsMap
  <2>7. Pending' /\ FirstReader' /\ EmptyStubs' /\ FeedsCurrentSession' /\ VectorPerCamera'
    BY DEF Inv, Pending, FirstReader, EmptyStubs, FeedsCurrentSession, VectorPerCamera, Idle
  <2>. QED
    BY <2>1, <2>4, <2>5, <2>6, <2>7 DEF Inv
<1>3. ASSUME UNCHANGED <<maps, sessions, acceptor>>, TypeOK',
             (phase = "running") \/ phase' # "running",
             \A t \in written' \cup destroying' : Settled(t)
      PROVE  Inv'
  <2>1. Numbering' /\ OwnAddress' /\ Routes'
    BY <1>3 DEF Inv, TypeOK, Numbering, OwnAddress, Routes, Accepted, Settled, maps, sessions
  <2>2. Pending'
    BY <1>3 DEF Inv, Pending, MapsEmpty, maps, sessions
  <2>3. FirstReader' /\ EmptyStubs' /\ FeedsCurrentSession' /\ VectorPerCamera'
    BY <1>3 DEF Inv, FirstReader, EmptyStubs, FeedsCurrentSession, VectorPerCamera, maps, sessions
  <2>. QED
    BY <1>3, <2>1, <2>2, <2>3 DEF Inv
<1>4. \A t \in written \cup destroying : Settled(t)
  BY DEF Inv, Numbering
<1>5. CASE \/ s \in Session /\ (FrameReceived(s) \/ CloseRemoved(s))
           \/ StopWorkThread \/ JoinWorkThread \/ StopTcpServer \/ StopContext \/ JoinPool
           \/ TimedOut \/ Selected \/ InvalidInput \/ UNCHANGED vars
  <2>1. UNCHANGED <<maps, sessions, acceptor, written, destroying>>
        /\ ((phase = "running") \/ phase' # "running")
    BY <1>5 DEF FrameReceived, CloseRemoved, StopWorkThread, JoinWorkThread, StopTcpServer,
                StopContext, JoinPool, TimedOut, Selected, InvalidInput, vars, maps, sessions
  <2>2. phase' \in Phase /\ switcher' \in SwitcherPlace
    BY <1>5 DEF FrameReceived, CloseRemoved, StopWorkThread, JoinWorkThread, StopTcpServer,
                StopContext, JoinPool, TimedOut, Selected, InvalidInput, LoopAgain, SwitcherPlace,
                vars, Inv, TypeOK, Phase
  <2>3. /\ is_live' \in [Session -> BOOLEAN]
        /\ posting' \subseteq Session /\ removed' \subseteq Session
    BY <1>5 DEF FrameReceived, CloseRemoved, StopWorkThread, JoinWorkThread, StopTcpServer,
                StopContext, JoinPool, TimedOut, Selected, InvalidInput, vars, Inv, TypeOK
  <2>4. TypeOK'
    BY <2>1, <2>2, <2>3 DEF maps, sessions, Inv, TypeOK, IsMap
  <2>. QED
    BY <1>3, <1>4, <2>1, <2>4
<1>6. CASE PostMessage(s)
  <2>1. \A t \in Feeds(addr[s]) : t \in Session /\ Settled(t)
    BY DEF Feeds, Inv, Routes, TypeOK, IsMap
  <2>2. TypeOK'
    BY <1>6, <2>1 DEF PostMessage, Inv, TypeOK, IsMap, maps, sessions
  <2>. QED
    BY <1>3, <1>4, <1>6, <2>1, <2>2 DEF PostMessage
<1>7. CASE s \in Session /\ CloseSession(s)
  <2>1. Settled(s)
    BY <1>4, <1>7 DEF CloseSession, Inv, Numbering, Settled
  <2>2. TypeOK'
    BY <1>7 DEF CloseSession, Inv, TypeOK, IsMap, maps, sessions
  <2>. QED
    BY <1>3, <1>4, <1>7, <2>1, <2>2 DEF CloseSession
<1>. QED
  BY <1>1, <1>2, <1>5, <1>6, <1>7

\* Clear empties everything; an Add it interrupts finds nothing to attach to.
LEMMA ClearInv ==
  ASSUME Inv, Clear
  PROVE  Inv'
<1>. USE DEF Clear
<1>1. MapsEmpty' /\ phase' # "running"
  BY DEF MapsEmpty, EmptyMap
<1>2. TypeOK'
  BY DEF Inv, TypeOK, IsMap, EmptyMap, Range, sessions, Phase
<1>3. Numbering'
  BY DEF Inv, Numbering, Settled, sessions
<1>4. Pending'
  BY <1>1 DEF Inv, Pending, sessions
<1>. QED
  BY <1>1, <1>2, <1>3, <1>4
  DEF Inv, MapsEmpty, OwnAddress, FirstReader, Routes, EmptyStubs, FeedsCurrentSession, VectorPerCamera

\* Steps that move or drop headsets: what they leave in the vectors was in some
\* vector before, so only the routes have to be looked at.
LEMMA FedStaysCurrent ==
  ASSUME Inv,
         UNCHANGED <<writer_sessions, addr, acceptor, last_session_number>>,
         \A r \in DOMAIN reader_connections' : \A s \in reader_connections'[r] : Fed(s)
  PROVE  /\ FeedsCurrentSession'
         /\ \A r \in DOMAIN reader_connections' : \A s \in reader_connections'[r] : Settled(s)'
BY DEF Inv, Fed, FeedsCurrentSession, Routes, Settled

\* Of several cameras, the one after a is another one.
LEMMA NextIsOther ==
  ASSUME NEW S \in SUBSET ReaderAddr, NEW a \in S, S # {a}, NEW n \in S, IsNext(n, a, S)
  PROVE  n # a
<1>1. a \in Nat /\ \A x \in S : x \in Nat
  BY AddrAssumption
<1>2. PICK x \in S : x # a
  OBVIOUS
<1>. QED
  BY <1>1, <1>2 DEF IsNext, IsFirst

LEMMA RemoveReaderInv ==
  ASSUME Inv, NEW s \in Session, RemoveReaderSession(s)
  PROVE  Inv'
<1>. DEFINE a == addr[s]
<1>u. /\ s \in destroying
      /\ UNCHANGED <<writer_sessions, sessions, is_live, acceptor, posting, written, removed, phase, switcher>>
      /\ destroying' = destroying \ {s}
  BY DEF RemoveReaderSession
<1>1. Numbering'
  BY <1>u DEF Inv, Numbering, Settled, sessions
<1>2. CASE UNCHANGED <<reader_sessions, reader_connections, writer_connections>>
  <2>1. TypeOK'
    BY <1>2, <1>u DEF Inv, TypeOK, IsMap, sessions
  <2>2. OwnAddress' /\ Pending' /\ FirstReader' /\ Routes'
    BY <1>2, <1>u DEF Inv, OwnAddress, Pending, MapsEmpty, FirstReader, Routes, Settled, Accepted, sessions
  <2>3. EmptyStubs' /\ FeedsCurrentSession' /\ VectorPerCamera'
    BY <1>2, <1>u DEF Inv, EmptyStubs, FeedsCurrentSession, VectorPerCamera, sessions
  <2>. QED
    BY <1>1, <2>1, <2>2, <2>3 DEF Inv
<1>3. SUFFICES ASSUME SameSession(s, reader_sessions) PROVE Inv'
  BY <1>2 DEF RemoveReaderSession
<1>4. a \in DOMAIN reader_sessions /\ reader_sessions[a] = s
  BY <1>3, <1>u, SameSessionIsSame DEF SameSession
<1>5. acceptor.pc = "attach_reader" => a # addr[acceptor.session]
  <2>1. Settled(s)
    BY <1>u DEF Inv, Numbering
  <2>2. acceptor.pc = "attach_reader" => acceptor.session # s
    BY <2>1 DEF Inv, Numbering, Settled, TypeOK, Session
  <2>. QED
    BY <2>2, <1>4 DEF Inv, Pending, MapsEmpty
<1>6. CASE DOMAIN reader_sessions = {a}
  <2>1. reader_sessions' = EmptyMap /\ reader_connections' = EmptyMap /\ writer_connections' = EmptyMap
    BY <1>3, <1>6 DEF RemoveReaderSession
  <2>2. acceptor.pc # "attach_reader"
    BY <1>5, <1>6 DEF Inv, Pending, MapsEmpty
  <2>3. TypeOK'
    BY <1>u, <2>1 DEF Inv, TypeOK, IsMap, EmptyMap, sessions
  <2>4. OwnAddress' /\ Pending'
    BY <1>u, <1>6, <2>1, <2>2 DEF Inv, OwnAddress, Pending, MapsEmpty, Accepted, EmptyMap, sessions
  <2>. QED
    BY <1>1, <1>u, <2>1, <2>2, <2>3, <2>4
    DEF Inv, EmptyMap, FirstReader, Routes, EmptyStubs, FeedsCurrentSession, VectorPerCamera
<1>7. CASE DOMAIN reader_sessions # {a}
  <2>r. reader_sessions' = Drop(reader_sessions, a)
    BY <1>3, <1>7 DEF RemoveReaderSession
  <2>d. /\ DOMAIN reader_sessions' = DOMAIN reader_sessions \ {a}
        /\ \A x \in DOMAIN reader_sessions' : reader_sessions'[x] = reader_sessions[x]
        /\ IsMap(reader_sessions', ReaderAddr, Session)
    BY <2>r DEF Drop, Restrict, Inv, TypeOK, IsMap
  <2>1. OwnAddress'
    BY <1>u, <2>d DEF Inv, OwnAddress, Accepted, sessions
  <2>2. Pending'
    <3>1. ~MapsEmpty
      BY <1>4 DEF MapsEmpty
    <3>. QED
      BY <1>5, <1>u, <2>d, <3>1 DEF Inv, Pending, sessions
  <2>3. CASE Feeds(a) = {}
    <3>1. reader_connections' = Drop(reader_connections, a) /\ writer_connections' = writer_connections
      BY <1>3, <1>7, <2>3 DEF RemoveReaderSession
    <3>2. /\ DOMAIN reader_connections' = DOMAIN reader_connections \ {a}
          /\ \A x \in DOMAIN reader_connections' : reader_connections'[x] = reader_connections[x]
          /\ IsMap(reader_connections', ReaderAddr, SUBSET Session)
      BY <3>1 DEF Drop, Restrict, Inv, TypeOK, IsMap
    <3>3. TypeOK'
      BY <1>u, <2>d, <3>1, <3>2 DEF Inv, TypeOK, IsMap, sessions
    <3>4. FirstReader' /\ Routes' /\ EmptyStubs'
      BY <1>u, <2>d, <3>1, <3>2 DEF Inv, FirstReader, Routes, EmptyStubs, Settled, sessions
    <3>5. FeedsCurrentSession' /\ VectorPerCamera'
      BY <1>u, <2>d, <3>1, <3>2 DEF Inv, FeedsCurrentSession, VectorPerCamera, sessions
    <3>. QED
      BY <1>1, <2>1, <2>2, <3>3, <3>4, <3>5 DEF Inv
  <2>4. CASE Feeds(a) # {}
    <3>1. PICK n \in DOMAIN reader_sessions :
            IsNext(n, a, DOMAIN reader_sessions) /\ MoveHeadsets(a, n)
      BY <1>3, <1>7, <2>4 DEF RemoveReaderSession
    <3>2. n # a
      BY <1>4, <1>7, <3>1, NextIsOther DEF Inv, TypeOK, IsMap
    <3>3. /\ DOMAIN reader_connections' = (DOMAIN reader_connections \ {a}) \cup {n}
          /\ reader_connections'[n] = Feeds(n) \cup Feeds(a)
          /\ \A x \in DOMAIN reader_connections' :
               x # n => x \in DOMAIN reader_connections /\ reader_connections'[x] = reader_connections[x]
      BY <3>1 DEF MoveHeadsets
    <3>4. a \in DOMAIN reader_connections /\ Feeds(a) = reader_connections[a]
      BY <2>4 DEF Feeds
    <3>5. \A x \in Addr : \A t \in Feeds(x) :
            /\ t \in Session /\ addr[t] \in DOMAIN writer_connections
            /\ writer_connections[addr[t]] = x /\ Fed(t)
      BY DEF Feeds, Inv, Routes, Fed, TypeOK, IsMap
    <3>6. a \in Addr /\ n \in Addr /\ n \in ReaderAddr
      BY <1>4 DEF Inv, TypeOK, IsMap, Addr
    <3>7. /\ DOMAIN writer_connections' = DOMAIN writer_connections
          /\ \A w \in DOMAIN writer_connections :
               writer_connections'[w] =
                 IF w \in {addr[t] : t \in Feeds(a)} THEN n ELSE writer_connections[w]
      <4>. DEFINE moved == {addr[t] : t \in Feeds(a)}
      <4>1. moved \subseteq DOMAIN writer_connections
        BY <3>5, <3>6
      <4>2. writer_connections' = [w \in DOMAIN writer_connections \cup moved |->
                                     IF w \in moved THEN n ELSE writer_connections[w]]
        BY <3>1 DEF MoveHeadsets
      <4>. HIDE DEF moved
      <4>3. /\ DOMAIN writer_connections' = DOMAIN writer_connections
            /\ \A w \in DOMAIN writer_connections :
                 writer_connections'[w] = IF w \in moved THEN n ELSE writer_connections[w]
        BY <4>1, <4>2
      <4>. QED
        BY <4>3 DEF moved
    <3>8. TypeOK'
      <4>1. IsMap(reader_connections', ReaderAddr, SUBSET Session)
        <5>1. Feeds(n) \subseteq Session /\ Feeds(a) \subseteq Session
          BY <3>5, <3>6
        <5>. QED
          BY <3>1, <3>6, <5>1 DEF MoveHeadsets, Inv, TypeOK, IsMap
      <4>2. IsMap(writer_connections', WriterAddr, ReaderAddr)
        BY <3>1, <3>6, <3>7 DEF MoveHeadsets, Inv, TypeOK, IsMap
      <4>. QED
        BY <1>u, <2>d, <4>1, <4>2 DEF Inv, TypeOK, IsMap, sessions
    <3>9. ASSUME NEW r \in DOMAIN reader_connections', NEW t \in reader_connections'[r]
          PROVE  Fed(t) /\ addr[t] \in DOMAIN writer_connections' /\ writer_connections'[addr[t]] = r
      <4>1. CASE r = n
        BY <3>3, <3>5, <3>6, <3>7, <3>9, <4>1
      <4>2. CASE r # n
        <5>1. r \in DOMAIN reader_connections /\ t \in reader_connections[r] /\ r # a
          BY <3>2, <3>3, <3>9, <4>2
        <5>2. addr[t] \notin {addr[x] : x \in Feeds(a)}
          BY <3>5, <3>6, <5>1 DEF Inv, Routes
        <5>. QED
          BY <3>7, <5>1, <5>2 DEF Inv, Routes, Fed
      <4>. QED
        BY <4>1, <4>2
    <3>10. FeedsCurrentSession' /\ Routes'
      BY <1>u, <3>9, FedStaysCurrent DEF Routes, sessions
    <3>11. FirstReader'
      BY <2>4, <3>4, <1>u DEF Inv, FirstReader
    <3>12. EmptyStubs' /\ VectorPerCamera'
      BY <1>u, <2>d, <3>2, <3>3 DEF Inv, EmptyStubs, VectorPerCamera, sessions
    <3>. QED
      BY <1>1, <2>1, <2>2, <3>8, <3>10, <3>11, <3>12 DEF Inv
  <2>. QED
    BY <2>3, <2>4
<1>. QED
  BY <1>6, <1>7

\* The headset that leaves is in the vector its route names or in none.
LEMMA RemoveWriterInv ==
  ASSUME Inv, NEW s \in Session, RemoveWriterSession(s)
  PROVE  Inv'
<1>. DEFINE a == addr[s]
<1>u. /\ s \in destroying
      /\ UNCHANGED <<reader_sessions, sessions, is_live, acceptor, posting, written, removed, phase, switcher>>
      /\ destroying' = destroying \ {s}
  BY DEF RemoveWriterSession
<1>1. Numbering'
  BY <1>u DEF Inv, Numbering, Settled, sessions
<1>2. CASE UNCHANGED <<writer_sessions, reader_connections, writer_connections>>
  <2>1. TypeOK'
    BY <1>2, <1>u DEF Inv, TypeOK, IsMap, sessions
  <2>2. OwnAddress' /\ Pending' /\ FirstReader' /\ Routes'
    BY <1>2, <1>u DEF Inv, OwnAddress, Pending, MapsEmpty, FirstReader, Routes, Settled, Accepted, sessions
  <2>3. EmptyStubs' /\ FeedsCurrentSession' /\ VectorPerCamera'
    BY <1>2, <1>u DEF Inv, EmptyStubs, FeedsCurrentSession, VectorPerCamera, sessions
  <2>. QED
    BY <1>1, <2>1, <2>2, <2>3 DEF Inv
<1>3. SUFFICES ASSUME SameSession(s, writer_sessions),
                      reader_connections' = VectorsWithout(s),
                      writer_connections' = IF DOMAIN writer_sessions = {a} THEN EmptyMap
                                            ELSE Drop(writer_connections, a),
                      writer_sessions' = Drop(writer_sessions, a)
               PROVE  Inv'
  BY <1>2 DEF RemoveWriterSession
<1>4. a \in DOMAIN writer_sessions /\ writer_sessions[a] = s
  BY <1>3, <1>u, SameSessionIsSame DEF SameSession
<1>5. acceptor.pc \in {"attach_writer", "swap_writer"} => a # addr[acceptor.session]
  <2>1. Settled(s)
    BY <1>u DEF Inv, Numbering
  <2>2. acceptor.pc \in {"attach_writer", "swap_writer"} => acceptor.session # s
    BY <2>1 DEF Inv, Numbering, Settled, TypeOK, Session
  <2>. QED
    BY <2>2, <1>4 DEF Inv, Pending, MapsEmpty
<1>6. /\ DOMAIN writer_sessions' = DOMAIN writer_sessions \ {a}
      /\ \A x \in DOMAIN writer_sessions' : writer_sessions'[x] = writer_sessions[x]
      /\ IsMap(writer_sessions', WriterAddr, Session)
  BY <1>3 DEF Drop, Restrict, Inv, TypeOK, IsMap
<1>7. /\ DOMAIN reader_connections' = DOMAIN reader_connections
      /\ \A x \in DOMAIN reader_connections : reader_connections'[x] \subseteq reader_connections[x]
  BY <1>3 DEF VectorsWithout
<1>8. TypeOK'
  <2>1. IsMap(reader_connections', ReaderAddr, SUBSET Session)
    BY <1>3, <1>7 DEF VectorsWithout, Inv, TypeOK, IsMap
  <2>2. IsMap(writer_connections', WriterAddr, ReaderAddr)
    BY <1>3 DEF Drop, Restrict, EmptyMap, Inv, TypeOK, IsMap
  <2>. QED
    BY <1>u, <1>6, <2>1, <2>2 DEF Inv, TypeOK, IsMap, sessions
<1>9. OwnAddress' /\ Pending'
  <2>1. ~MapsEmpty
    BY <1>4 DEF MapsEmpty
  <2>. QED
    BY <1>u, <1>5, <1>6, <2>1 DEF Inv, OwnAddress, Pending, Accepted, sessions
<1>10. FirstReader' /\ EmptyStubs' /\ VectorPerCamera'
  BY <1>u, <1>7 DEF Inv, FirstReader, EmptyStubs, VectorPerCamera, sessions
<1>11. ASSUME NEW r \in DOMAIN reader_connections', NEW t \in reader_connections'[r]
       PROVE  /\ addr[t] \in DOMAIN writer_connections' /\ writer_connections'[addr[t]] = r
              /\ Settled(t)
              /\ \/ addr[t] \in DOMAIN writer_sessions' /\ writer_sessions'[addr[t]] = t
                 \/ acceptor.pc = "swap_writer" /\ acceptor.old = t
  <2>1. r \in DOMAIN reader_connections /\ t \in reader_connections[r]
    BY <1>7, <1>11
  <2>2. DOMAIN writer_sessions # {a}
    BY <1>3, <1>11 DEF VectorsWithout
  <2>3. addr[t] \in DOMAIN writer_connections /\ writer_connections[addr[t]] = r /\ Settled(t)
    BY <2>1 DEF Inv, Routes
  <2>4. addr[t] # a
    <3>. SUFFICES ASSUME addr[t] = a PROVE FALSE
      OBVIOUS
    <3>1. t = s
      BY <1>4, <1>5, <2>1 DEF Inv, FeedsCurrentSession, Pending
    <3>2. s \notin reader_connections'[r]
      BY <1>3, <2>1, <2>2, <2>3 DEF VectorsWithout, Lookup
    <3>. QED
      BY <1>11, <3>1, <3>2
  <2>5. writer_connections' = Drop(writer_connections, a)
    BY <1>3, <2>2
  <2>6. addr[t] \in DOMAIN writer_connections' /\ writer_connections'[addr[t]] = r
    BY <2>3, <2>4, <2>5 DEF Drop, Restrict
  <2>. QED
    BY <1>6, <2>1, <2>3, <2>4, <2>6 DEF Inv, FeedsCurrentSession
<1>12. Routes' /\ FeedsCurrentSession'
  BY <1>u, <1>11 DEF Routes, FeedsCurrentSession, Settled, sessions
<1>. QED
  BY <1>1, <1>8, <1>9, <1>10, <1>12 DEF Inv

\* Rotate, Reset, RotateAll and Point: headsets change vectors, and each one
\* that does has its route changed with it.
LEMMA MovingInv ==
  ASSUME Inv, MovingUnchanged, switcher' \in SwitcherPlace, NEW n \in DOMAIN reader_sessions,
         GatherAt(n) \/ \E w \in DOMAIN writer_connections : MoveWriter(w, n)
  PROVE  Inv'
<1>u. UNCHANGED <<reader_sessions, writer_sessions, sessions, is_live, acceptor, posting, written,
                  destroying, removed, phase>>
  BY DEF MovingUnchanged
<1>n. n \in ReaderAddr /\ n \in DOMAIN reader_connections
  BY DEF Inv, TypeOK, IsMap, GatherAt, MoveWriter
<1>1. /\ IsMap(reader_connections', ReaderAddr, SUBSET Session)
      /\ IsMap(writer_connections', WriterAddr, ReaderAddr)
      /\ DOMAIN reader_connections' = DOMAIN reader_connections
      /\ \A x \in DOMAIN reader_connections : x # n => reader_connections'[x] \subseteq reader_connections[x]
      /\ \A r \in DOMAIN reader_connections' : \A s \in reader_connections'[r] :
           /\ Fed(s)
           /\ addr[s] \in DOMAIN writer_connections' /\ writer_connections'[addr[s]] = r
  <2>1. CASE GatherAt(n)
    <3>1. \A s \in UNION Range(reader_connections) :
            s \in Session /\ Fed(s) /\ addr[s] \in DOMAIN writer_connections
      BY DEF Range, Fed, Inv, Routes, TypeOK, IsMap
    <3>2. IsMap(reader_connections', ReaderAddr, SUBSET Session)
      BY <2>1, <3>1 DEF GatherAt, Inv, TypeOK, IsMap
    <3>3. IsMap(writer_connections', WriterAddr, ReaderAddr)
      BY <2>1, <1>n DEF GatherAt, Inv, TypeOK, IsMap
    <3>. QED
      BY <2>1, <3>1, <3>2, <3>3 DEF GatherAt
  <2>2. ASSUME NEW w \in DOMAIN writer_connections, MoveWriter(w, n)
        PROVE  <1>1!:
    <3>. DEFINE r == writer_connections[w]
    <3>1. PICK s \in Feeds(r) :
            /\ addr[s] = w
            /\ reader_connections' = [reader_connections EXCEPT ![r] = @ \ {s}, ![n] = @ \cup {s}]
            /\ writer_connections' = [writer_connections EXCEPT ![w] = n]
      BY <2>2 DEF MoveWriter
    <3>2. r \in DOMAIN reader_connections /\ s \in reader_connections[r] /\ s \in Session
      BY <3>1 DEF Feeds, Inv, TypeOK, IsMap
    <3>3. IsMap(reader_connections', ReaderAddr, SUBSET Session)
      BY <3>1, <3>2, <1>n DEF Inv, TypeOK, IsMap
    <3>4. IsMap(writer_connections', WriterAddr, ReaderAddr)
      BY <3>1, <1>n DEF Inv, TypeOK, IsMap
    <3>5. ASSUME NEW q \in DOMAIN reader_connections, NEW t \in reader_connections'[q]
          PROVE  /\ Fed(t)
                 /\ addr[t] \in DOMAIN writer_connections' /\ writer_connections'[addr[t]] = q
      <4>1. CASE t = s
        BY <3>1, <3>2, <3>5, <4>1, <1>n, UniqueFeed DEF Fed
      <4>2. CASE t # s
        <5>1. t \in reader_connections[q]
          BY <3>1, <3>2, <3>5, <4>2, <1>n
        <5>2. addr[t] # w
          BY <3>1, <3>2, <4>2, <5>1, UniqueFeed
        <5>. QED
          BY <3>1, <5>1, <5>2 DEF Fed, Inv, Routes
      <4>. QED
        BY <4>1, <4>2
    <3>. QED
      BY <3>1, <3>2, <3>3, <3>4, <3>5, <1>n
  <2>. QED
    BY <2>1, <2>2
<1>2. TypeOK'
  BY <1>u, <1>1 DEF Inv, TypeOK, IsMap, sessions
<1>3. Numbering' /\ OwnAddress'
  BY <1>u DEF Inv, Numbering, OwnAddress, Accepted, Settled, sessions
<1>4. Pending'
  BY <1>u DEF Inv, Pending, MapsEmpty, sessions
<1>5. FirstReader'
  BY <1>u, <1>1 DEF Inv, FirstReader, Fed
<1>6. EmptyStubs' /\ VectorPerCamera'
  BY <1>u, <1>1 DEF Inv, EmptyStubs, VectorPerCamera, sessions
<1>7. FeedsCurrentSession' /\ Routes'
  BY <1>u, <1>1, FedStaysCurrent DEF Routes, sessions
<1>. QED
  BY <1>2, <1>3, <1>4, <1>5, <1>6, <1>7 DEF Inv

-----------------------------------------------------------------------------
(* The theorems *)

LEMMA NextInv == Inv /\ [Next]_vars => Inv'
<1>. SUFFICES ASSUME Inv, [Next]_vars PROVE Inv'
  OBVIOUS
<1>1. ASSUME NEW a \in ReaderAddr, RegisterReader(a) PROVE Inv'
  BY <1>1, RegisterReaderInv
<1>2. ASSUME NEW a \in WriterAddr, RegisterWriter(a) PROVE Inv'
  BY <1>2, RegisterWriterInv
<1>3. CASE AcceptorStep
  BY <1>3, QuietInv, AttachReaderInv, AttachWriterInv, SwapWriterInv DEF AcceptorStep
<1>4. ASSUME NEW s \in Session, FrameReceived(s) \/ CloseSession(s) \/ HandlerStep(s) PROVE Inv'
  BY <1>4, QuietInv, RemoveReaderInv, RemoveWriterInv DEF HandlerStep
<1>5. ASSUME NEW w \in WriterAddr, RotateWriterConnection(w) \/ ResetWriterConnection(w) PROVE Inv'
  <2>1. switcher' \in SwitcherPlace
    BY <1>5 DEF RotateWriterConnection, ResetWriterConnection, Inv, TypeOK
  <2>. QED
    BY <1>5, <2>1, MovingInv DEF RotateWriterConnection, ResetWriterConnection
<1>6. CASE RotateAllConnections
  BY <1>6, MovingInv DEF RotateAllConnections, LoopAgain, SwitcherPlace
<1>7. ASSUME NEW r \in ReaderAddr, PointReaderAtWriters(r) PROVE Inv'
  <2>1. r \in DOMAIN reader_sessions
    BY <1>7 DEF PointReaderAtWriters, GatherAt
  <2>. QED
    BY <1>7, <2>1, MovingInv DEF PointReaderAtWriters, LoopAgain, SwitcherPlace
<1>8. CASE Clear
  BY <1>8, ClearInv
<1>9. CASE MainStep
  <2>1. ASSUME NEW s \in Session, CloseRemoved(s) PROVE Inv'
    BY <2>1, QuietInv
  <2>2. CASE StopWorkThread \/ JoinWorkThread \/ StopTcpServer \/ StopContext \/ JoinPool
    BY <2>2, QuietInv
  <2>. QED
    BY <1>9, <2>1, <2>2 DEF MainStep
<1>10. CASE TimedOut \/ Selected \/ InvalidInput \/ Terminated \/ UNCHANGED vars
  BY <1>10, QuietInv DEF Terminated
<1>. QED
  BY <1>1, <1>2, <1>3, <1>4, <1>5, <1>6, <1>7, <1>8, <1>9, <1>10 DEF Next

LEMMA InvHolds == Spec => []Inv
BY InitInv, NextInv, PTL DEF Spec

\* Every variable of the registry keeps its type: addresses stay in their maps,
\* a vector only ever holds sessions.
THEOREM TypeCorrect == Spec => []TypeOK
<1>1. Inv => TypeOK
  BY DEF Inv
<1>. QED
  BY InvHolds, <1>1, PTL

\* PostMessage never hands one headset a frame twice or frames of two cameras:
\* for any interleaving of Add, Remove, Rotate, Reset, Point and Clear, for any
\* number of cameras, headsets and reconnections.
THEOREM HeadsetFedOnce == Spec => []OneFeedPerHeadset
<1>1. Inv => OneFeedPerHeadset
  BY UniqueFeed DEF Inv, Routes, OneFeedPerHeadset
<1>. QED
  BY InvHolds, <1>1, PTL

\* Frames go to the registered session of a headset, never to a replaced one,
\* but for the window inside AddWriterSession.
THEOREM FedSessionIsCurrent == Spec => []FeedsCurrentSession
<1>1. Inv => FeedsCurrentSession
  BY DEF Inv
<1>. QED
  BY InvHolds, <1>1, PTL

\* Until Stop is called, the cameras with a vector are the registered ones, but
\* for the window inside AddReaderSession: the "should never get here" branch
\* of RemoveReaderSession for a camera without a vector is dead code.
THEOREM CamerasHaveVectors == Spec => []VectorPerCamera
<1>1. Inv => VectorPerCamera
  BY DEF Inv
<1>. QED
  BY InvHolds, <1>1, PTL

\* A Destroy callback that comes after its address reconnected never
\* unregisters the successor: comparing session ids is enough.
THEOREM LateDestroyIsHarmless == Spec => UnregisteredByItself
<1>. DEFINE Own(reg, reg2) == \A a \in DOMAIN reg \ DOMAIN reg2 : reg[a] \in destroying
            Step == phase = phase' => Own(reader_sessions, reader_sessions')
                                      /\ Own(writer_sessions, writer_sessions')
<1>1. ASSUME Inv, [Next]_vars PROVE [Step]_vars
  <2>. SUFFICES ASSUME Next, phase = phase' PROVE Step
    BY <1>1
  <2>1. ASSUME NEW a \in ReaderAddr, RegisterReader(a) PROVE Step
    BY <2>1 DEF RegisterReader, Put
  <2>2. ASSUME NEW a \in WriterAddr, RegisterWriter(a) PROVE Step
    BY <2>2 DEF RegisterWriter, Put
  <2>3. CASE UNCHANGED <<reader_sessions, writer_sessions>>
    BY <2>3
  <2>4. ASSUME NEW s \in Session, RemoveReaderSession(s) PROVE Step
    <3>1. SameSession(s, reader_sessions) => reader_sessions[addr[s]] = s
      BY <1>1, <2>4, SameSessionIsSame DEF RemoveReaderSession
    <3>. QED
      BY <2>4, <3>1 DEF RemoveReaderSession, SameSession, Drop, Restrict
  <2>5. ASSUME NEW s \in Session, RemoveWriterSession(s) PROVE Step
    <3>1. SameSession(s, writer_sessions) => writer_sessions[addr[s]] = s
      BY <1>1, <2>5, SameSessionIsSame DEF RemoveWriterSession
    <3>. QED
      BY <2>5, <3>1 DEF RemoveWriterSession, SameSession, Drop, Restrict
  <2>6. CASE AcceptorStep
    BY <2>3, <2>6 DEF AcceptorStep, AttachReader, AttachWriter, SwapWriter, CloseReplaced,
                      AssignSessionId, maps
  <2>7. ASSUME NEW s \in Session, FrameReceived(s) \/ CloseSession(s) \/ HandlerStep(s) PROVE Step
    BY <2>3, <2>4, <2>5, <2>7 DEF FrameReceived, CloseSession, HandlerStep, PostMessage,
                      RemoveWriterDuringAssign, maps
  <2>8. ASSUME NEW w, RotateWriterConnection(w) \/ ResetWriterConnection(w)
                      \/ RotateAllConnections \/ PointReaderAtWriters(w)
        PROVE  Step
    BY <2>3, <2>8 DEF RotateWriterConnection, ResetWriterConnection, RotateAllConnections,
                      PointReaderAtWriters, MovingUnchanged
  <2>9. CASE Clear \/ MainStep \/ TimedOut \/ Selected \/ InvalidInput \/ Terminated
    BY <2>3, <2>9 DEF Clear, MainStep, CloseRemoved, StopWorkThread, JoinWorkThread, StopTcpServer,
                      StopContext, JoinPool, TimedOut, Selected, InvalidInput, Terminated, vars, maps
  <2>. QED
    BY <2>1, <2>2, <2>6, <2>7, <2>8, <2>9 DEF Next
<1>2. Inv /\ [Next]_vars => [phase = phase' =>
       /\ \A a \in DOMAIN reader_sessions \ DOMAIN reader_sessions' : reader_sessions[a] \in destroying
       /\ \A a \in DOMAIN writer_sessions \ DOMAIN writer_sessions' : writer_sessions[a] \in destroying
      ]_vars
  BY <1>1
<1>. QED
  BY InvHolds, <1>2, PTL DEF Spec, UnregisteredByItself

-----------------------------------------------------------------------------
(* Routes: every registered headset has one *)

\* map.begin() of a map that is not empty.
LEMMA FirstExists ==
  ASSUME NEW S \in SUBSET Nat, S # {}
  PROVE  \E n \in S : IsFirst(n, S)
<1>1. \E n \in S : \A m \in S : ~(<<m, n>> \in OpToRel(<, Nat))
  BY NatLessThanWellFounded, WFMin
<1>2. \A m, n \in Nat : ~(<<m, n>> \in OpToRel(<, Nat)) => n <= m
  BY DEF OpToRel
<1>. QED
  BY <1>1, <1>2 DEF IsFirst

\* A route belongs to a registered headset; and while there are cameras a
\* registered headset without a route is one whose Add is not done yet.  That the
\* first camera is given all headsets, also those that came and went before it,
\* is what makes up for the routes a headset does not get without cameras.
Routed ==
  phase = "running" =>
    /\ DOMAIN writer_connections \subseteq DOMAIN writer_sessions
    /\ DOMAIN reader_sessions # {} /\ ~(acceptor.pc = "attach_reader" /\ acceptor.first) =>
         \A a \in DOMAIN writer_sessions \ DOMAIN writer_connections :
           acceptor.pc = "attach_writer" /\ a = addr[acceptor.session]

LEMMA InitRouted == Init => Routed
  BY DEF Init, EmptyMap, Routed

LEMMA AcceptorRouted ==
  ASSUME Inv, Routed,
         \/ \E a \in ReaderAddr : RegisterReader(a)
         \/ \E a \in WriterAddr : RegisterWriter(a)
         \/ AcceptorStep
  PROVE  Routed'
<1>1. ASSUME NEW a \in ReaderAddr, RegisterReader(a) PROVE Routed'
  BY <1>1 DEF RegisterReader, Accept, Routed, NoReaders
<1>2. ASSUME NEW a \in WriterAddr, RegisterWriter(a) PROVE Routed'
  <2>1. DOMAIN writer_sessions' = DOMAIN writer_sessions \cup {a}
    BY <1>2 DEF RegisterWriter, Put
  <2>2. acceptor'.session = last_session_number + 1 /\ addr'[last_session_number + 1] = a
    BY <1>2, MaxSessionsAssumption DEF RegisterWriter, Accept, Inv, TypeOK, Session
  <2>3. /\ acceptor.pc = "idle" /\ phase' = phase /\ reader_sessions' = reader_sessions
        /\ writer_connections' = writer_connections
        /\ a \notin DOMAIN writer_connections => acceptor'.pc = "attach_writer"
    BY <1>2 DEF RegisterWriter, Accept
  <2>. QED
    BY <2>1, <2>2, <2>3 DEF Routed
<1>3. CASE AttachReader
  <2>1. phase = "running" => DOMAIN writer_connections' \subseteq DOMAIN writer_sessions'
    BY <1>3 DEF AttachReader, Routed
  <2>2. CASE acceptor.first
    BY <1>3, <2>1, <2>2 DEF AttachReader, Routed
  <2>3. CASE ~acceptor.first
    BY <1>3, <2>1, <2>3 DEF AttachReader, Routed
  <2>. QED
    BY <2>2, <2>3
<1>4. CASE AttachWriter
  <2>1. /\ phase' = phase /\ reader_sessions' = reader_sessions
        /\ writer_sessions' = writer_sessions /\ addr' = addr /\ acceptor'.pc = "close"
        /\ acceptor.pc = "attach_writer"
    BY <1>4 DEF AttachWriter, sessions, Inv, TypeOK
  <2>2. ASSUME phase = "running", NEW r, writer_connections' = Put(writer_connections, addr[acceptor.session], r)
        PROVE  Routed'
    <3>1. DOMAIN writer_connections' = DOMAIN writer_connections \cup {addr[acceptor.session]}
      BY <2>2 DEF Put
    <3>2. addr[acceptor.session] \in DOMAIN writer_sessions
      BY <2>1, <2>2 DEF Inv, Pending
    <3>. QED
      BY <2>1, <2>2, <3>1, <3>2 DEF Routed
  <2>3. ASSUME phase = "running",
               \A r \in DOMAIN reader_sessions :
                 IsFirst(r, DOMAIN reader_sessions) => r \notin DOMAIN reader_connections
        PROVE  DOMAIN reader_sessions = {}
    <3>1. DOMAIN reader_sessions \in SUBSET Nat
      BY AddrAssumption DEF Inv, TypeOK, IsMap
    <3>2. DOMAIN reader_sessions \subseteq DOMAIN reader_connections
      BY <2>1, <2>3 DEF Inv, VectorPerCamera
    <3>. QED
      BY <2>3, <3>1, <3>2, FirstExists
  <2>4. CASE UNCHANGED <<reader_connections, writer_connections>>
             /\ \A r \in DOMAIN reader_sessions :
                  IsFirst(r, DOMAIN reader_sessions) => r \notin DOMAIN reader_connections
    BY <2>1, <2>3, <2>4 DEF Routed
  <2>. QED
    BY <1>4, <2>1, <2>2, <2>4 DEF AttachWriter, Routed
<1>5. CASE SwapWriter \/ CloseReplaced \/ AssignSessionId
  BY <1>5 DEF SwapWriter, CloseReplaced, AssignSessionId, Assign, Idle, maps, sessions, Routed, Inv, TypeOK
<1>. QED
  BY <1>1, <1>2, <1>3, <1>4, <1>5 DEF AcceptorStep

\* A camera goes: its headsets have routes already, so none gains or loses one,
\* unless it was the last camera.
LEMMA RemoveReaderRouted ==
  ASSUME Inv, Routed, NEW s \in Session, RemoveReaderSession(s)
  PROVE  Routed'
<1>1. UNCHANGED <<writer_sessions, addr, acceptor, phase>>
  BY DEF RemoveReaderSession, sessions
<1>2. CASE writer_connections' = writer_connections /\ DOMAIN reader_sessions' \subseteq DOMAIN reader_sessions
  BY <1>1, <1>2 DEF Routed
<1>3. CASE reader_sessions' = EmptyMap /\ writer_connections' = EmptyMap
  BY <1>1, <1>3 DEF Routed, EmptyMap
<1>4. ASSUME NEW n, MoveHeadsets(addr[s], n), reader_sessions' = Drop(reader_sessions, addr[s])
      PROVE  Routed'
  <2>1. {addr[t] : t \in Feeds(addr[s])} \subseteq DOMAIN writer_connections
    BY DEF Feeds, Inv, Routes
  <2>2. DOMAIN writer_connections' = DOMAIN writer_connections \cup {addr[t] : t \in Feeds(addr[s])}
    BY <1>4 DEF MoveHeadsets
  <2>3. DOMAIN reader_sessions' \subseteq DOMAIN reader_sessions
    BY <1>4 DEF Drop, Restrict
  <2>. QED
    BY <1>1, <2>1, <2>2, <2>3 DEF Routed
<1>5. reader_sessions' = Drop(reader_sessions, addr[s])
        => DOMAIN reader_sessions' \subseteq DOMAIN reader_sessions
  BY DEF Drop, Restrict
<1>. QED
  BY <1>2, <1>3, <1>4, <1>5 DEF RemoveReaderSession

\* A headset goes, and its route with it.
LEMMA RemoveWriterRouted ==
  ASSUME Inv, Routed, NEW s \in Session, RemoveWriterSession(s)
  PROVE  Routed'
<1>1. UNCHANGED <<reader_sessions, addr, acceptor, phase>>
  BY DEF RemoveWriterSession, sessions
<1>2. CASE UNCHANGED <<writer_sessions, writer_connections>>
  BY <1>1, <1>2 DEF Routed
<1>3. CASE /\ writer_sessions' = Drop(writer_sessions, addr[s])
           /\ writer_connections' = IF DOMAIN writer_sessions = {addr[s]} THEN EmptyMap
                                    ELSE Drop(writer_connections, addr[s])
  <2>1. DOMAIN writer_sessions' = DOMAIN writer_sessions \ {addr[s]}
    BY <1>3 DEF Drop, Restrict
  <2>2. CASE DOMAIN writer_sessions = {addr[s]}
    BY <1>1, <1>3, <2>1, <2>2 DEF Routed, EmptyMap
  <2>3. CASE DOMAIN writer_sessions # {addr[s]}
    <3>1. DOMAIN writer_connections' = DOMAIN writer_connections \ {addr[s]}
      BY <1>3, <2>3 DEF Drop, Restrict
    <3>. QED
      BY <1>1, <2>1, <3>1 DEF Routed
  <2>. QED
    BY <2>2, <2>3
<1>. QED
  BY <1>2, <1>3 DEF RemoveWriterSession

LEMMA NextRouted == Inv /\ Routed /\ [Next]_vars => Routed'
<1>. SUFFICES ASSUME Inv, Routed, [Next]_vars PROVE Routed'
  OBVIOUS
<1>1. CASE UNCHANGED <<reader_sessions, writer_sessions, addr, acceptor, phase>>
           /\ DOMAIN writer_connections' = DOMAIN writer_connections
  BY <1>1 DEF Routed
<1>2. ASSUME UNCHANGED <<maps, sessions, acceptor>>, phase = "running" \/ phase' # "running"
      PROVE  Routed'
  BY <1>2 DEF Routed, maps, sessions
<1>3. ASSUME NEW s \in Session, FrameReceived(s) \/ CloseSession(s) \/ HandlerStep(s) PROVE Routed'
  <2>1. CASE FrameReceived(s) \/ CloseSession(s) \/ PostMessage(s)
    BY <1>2, <2>1 DEF FrameReceived, CloseSession, PostMessage
  <2>2. CASE RemoveWriterDuringAssign(s)
    BY <2>2 DEF RemoveWriterDuringAssign, Assign, maps, Routed
  <2>. QED
    BY <1>3, <2>1, <2>2, RemoveReaderRouted, RemoveWriterRouted DEF HandlerStep
<1>4. ASSUME MovingUnchanged, NEW n,
             GatherAt(n) \/ \E w \in DOMAIN writer_connections : MoveWriter(w, n)
      PROVE  Routed'
  BY <1>1, <1>4 DEF MovingUnchanged, GatherAt, MoveWriter, sessions
<1>5. ASSUME NEW w, RotateWriterConnection(w) \/ ResetWriterConnection(w)
                    \/ RotateAllConnections \/ PointReaderAtWriters(w)
      PROVE  Routed'
  BY <1>4, <1>5 DEF RotateWriterConnection, ResetWriterConnection, RotateAllConnections,
                    PointReaderAtWriters
<1>6. CASE Clear
  BY <1>6 DEF Clear, Routed
<1>7. CASE MainStep \/ TimedOut \/ Selected \/ InvalidInput \/ Terminated \/ UNCHANGED vars
  BY <1>2, <1>7 DEF MainStep, CloseRemoved, StopWorkThread, JoinWorkThread, StopTcpServer,
                    StopContext, JoinPool, TimedOut, Selected, InvalidInput, Terminated, vars
<1>. QED
  BY <1>3, <1>5, <1>6, <1>7, AcceptorRouted DEF Next

\* While there is a camera, every registered headset is routed to one, in
\* whatever order cameras and headsets came, went and came back.
THEOREM HeadsetsAreRouted == Spec => []EveryHeadsetRouted
<1>1. Routed => EveryHeadsetRouted
  BY DEF Routed, EveryHeadsetRouted
<1>. QED
  BY <1>1, InitInv, NextInv, InitRouted, NextRouted, PTL DEF Spec

-----------------------------------------------------------------------------
(* Who may take the frames of a headset away *)

\* A headset that was fed, stays registered, and is not fed any more.
Unfed(s) == Fed(s) /\ ~Fed(s)' /\ s \in Range(writer_sessions')

LEMMA SwapWriterFeeds ==
  ASSUME Inv, SwapWriter, NEW s \in Session
  PROVE  ~Unfed(s)
<1>. SUFFICES ASSUME Unfed(s) PROVE FALSE
  OBVIOUS
<1>1. PICK q \in DOMAIN reader_connections : s \in reader_connections[q]
  BY DEF Unfed, Fed
<1>2. DOMAIN reader_connections' = DOMAIN reader_connections
      /\ \A x \in DOMAIN reader_connections : \A t \in reader_connections[x] :
           t # acceptor.old => t \in reader_connections'[x]
  BY DEF SwapWriter, SwapInto, Feeds
<1>3. s = acceptor.old
  BY <1>1, <1>2 DEF Unfed, Fed
<1>4. PICK a \in DOMAIN writer_sessions : writer_sessions[a] = s
  BY DEF Unfed, Range, SwapWriter
<1>5. a = addr[acceptor.session] /\ writer_sessions[a] = acceptor.session
  BY <1>3, <1>4 DEF SwapWriter, Inv, OwnAddress, Pending, MapsEmpty
<1>6. acceptor.old <= last_session_number /\ acceptor.session = last_session_number + 1
  BY DEF SwapWriter, Inv, Numbering
<1>. QED
  BY <1>3, <1>4, <1>5, <1>6 DEF Inv, TypeOK

LEMMA RemoveReaderFeeds ==
  ASSUME Inv, NEW z \in Session, RemoveReaderSession(z), NEW s \in Session, DOMAIN reader_sessions' # {}
  PROVE  ~Unfed(s)
<1>. DEFINE a == addr[z]
<1>. SUFFICES ASSUME Unfed(s) PROVE FALSE
  OBVIOUS
<1>1. PICK q \in DOMAIN reader_connections : s \in reader_connections[q]
  BY DEF Unfed, Fed
<1>2. CASE reader_connections' = reader_connections
  BY <1>2 DEF Unfed, Fed
<1>3. CASE Feeds(a) = {} /\ reader_connections' = Drop(reader_connections, a)
  BY <1>1, <1>3 DEF Feeds, Drop, Restrict, Unfed, Fed
<1>4. ASSUME NEW n, MoveHeadsets(a, n) PROVE FALSE
  <2>1. /\ DOMAIN reader_connections' = (DOMAIN reader_connections \ {a}) \cup {n}
        /\ reader_connections'[n] = Feeds(n) \cup Feeds(a)
        /\ \A x \in DOMAIN reader_connections' : x # n => reader_connections'[x] = reader_connections[x]
    BY <1>4 DEF MoveHeadsets
  <2>. QED
    BY <1>1, <2>1 DEF Feeds, Unfed, Fed
<1>. QED
  BY <1>2, <1>3, <1>4 DEF RemoveReaderSession, EmptyMap

LEMMA RemoveWriterFeeds ==
  ASSUME Inv, NEW z \in Session, RemoveWriterSession(z), NEW s \in Session
  PROVE  ~Unfed(s)
<1>. SUFFICES ASSUME Unfed(s) PROVE FALSE
  OBVIOUS
<1>1. PICK q \in DOMAIN reader_connections : s \in reader_connections[q]
  BY DEF Unfed, Fed
<1>2. CASE reader_connections' = reader_connections
  BY <1>2 DEF Unfed, Fed
<1>3. CASE /\ SameSession(z, writer_sessions)
           /\ reader_connections' = VectorsWithout(z)
           /\ writer_sessions' = Drop(writer_sessions, addr[z])
  <2>1. writer_sessions[addr[z]] = z
    BY <1>3, SameSessionIsSame DEF RemoveWriterSession
  <2>2. PICK w \in DOMAIN writer_sessions \ {addr[z]} : writer_sessions[w] = s
    BY <1>3 DEF Unfed, Range, Drop, Restrict
  <2>3. s # z
    BY <2>2 DEF Inv, OwnAddress
  <2>4. DOMAIN writer_sessions # {addr[z]}
    BY <2>2
  <2>. QED
    BY <1>1, <1>3, <2>3, <2>4 DEF VectorsWithout, Unfed, Fed
<1>. QED
  BY <1>2, <1>3 DEF RemoveWriterSession

LEMMA MovingFeeds ==
  ASSUME Inv, NEW n, GatherAt(n) \/ \E w \in DOMAIN writer_connections : MoveWriter(w, n),
         NEW s \in Session
  PROVE  ~Unfed(s)
<1>. SUFFICES ASSUME Unfed(s) PROVE FALSE
  OBVIOUS
<1>1. PICK q \in DOMAIN reader_connections : s \in reader_connections[q]
  BY DEF Unfed, Fed
<1>2. CASE GatherAt(n)
  <2>1. s \in UNION Range(reader_connections)
    BY <1>1 DEF Range
  <2>. QED
    BY <1>2, <2>1 DEF GatherAt, Unfed, Fed
<1>3. ASSUME NEW w \in DOMAIN writer_connections, MoveWriter(w, n) PROVE FALSE
  <2>. DEFINE r == writer_connections[w]
  <2>1. PICK t \in Feeds(r) :
          /\ n \in DOMAIN reader_connections
          /\ reader_connections' = [reader_connections EXCEPT ![r] = @ \ {t}, ![n] = @ \cup {t}]
    BY <1>3 DEF MoveWriter
  <2>2. CASE s = t
    BY <2>1, <2>2 DEF Unfed, Fed
  <2>3. CASE s # t
    BY <1>1, <2>1, <2>3 DEF Unfed, Fed
  <2>. QED
    BY <2>2, <2>3
<1>. QED
  BY <1>2, <1>3

\* Only the second section of AddReaderSession takes the frames away from a headset
\* that stays registered while a camera remains: no removal, rotation, swap or late
\* Destroy does.
THEOREM OnlyReconnectUnfeeds == Spec => OnlyAttachReaderUnfeeds
<1>. DEFINE Step == \A s \in Session :
              Fed(s) /\ ~Fed(s)' /\ s \in Range(writer_sessions') /\ DOMAIN reader_sessions' # {}
                => acceptor.pc = "attach_reader"
<1>1. ASSUME Inv, [Next]_vars PROVE [Step]_vars
  <2>. SUFFICES ASSUME Next, NEW s \in Session, Unfed(s), DOMAIN reader_sessions' # {},
                       acceptor.pc # "attach_reader"
                PROVE  FALSE
    BY <1>1 DEF Unfed
  <2>1. reader_connections' # reader_connections
    BY DEF Unfed, Fed
  <2>2. ~AttachWriter
    BY DEF AttachWriter, Unfed, Fed
  <2>3. ~\E a : RegisterReader(a) \/ RegisterWriter(a)
    BY <2>1 DEF RegisterReader, RegisterWriter, Accept
  <2>4. ~AcceptorStep
    BY <1>1, <2>1, <2>2, SwapWriterFeeds
    DEF AcceptorStep, AttachReader, CloseReplaced, AssignSessionId, maps
  <2>5. ~\E z \in Session : FrameReceived(z) \/ CloseSession(z) \/ HandlerStep(z)
    BY <1>1, <2>1, RemoveReaderFeeds, RemoveWriterFeeds
    DEF FrameReceived, CloseSession, HandlerStep, PostMessage, RemoveWriterDuringAssign, maps
  <2>6. ~\E w : RotateWriterConnection(w) \/ ResetWriterConnection(w) \/ RotateAllConnections
                \/ PointReaderAtWriters(w)
    BY <1>1, MovingFeeds
    DEF RotateWriterConnection, ResetWriterConnection, RotateAllConnections, PointReaderAtWriters
  <2>7. ~Clear
    BY DEF Clear, EmptyMap
  <2>8. ~(MainStep \/ TimedOut \/ Selected \/ InvalidInput \/ Terminated)
    BY <2>1 DEF MainStep, CloseRemoved, StopWorkThread, JoinWorkThread, StopTcpServer, StopContext,
                JoinPool, TimedOut, Selected, InvalidInput, Terminated, vars, maps
  <2>. QED
    BY <2>3, <2>4, <2>5, <2>6, <2>7, <2>8 DEF Next
<1>2. Inv /\ [Next]_vars => [\A s \in Session :
       Fed(s) /\ ~Fed(s)' /\ s \in Range(writer_sessions') /\ DOMAIN reader_sessions' # {}
         => acceptor.pc = "attach_reader"]_vars
  BY <1>1
<1>. QED
  BY InvHolds, <1>2, PTL DEF Spec, OnlyAttachReaderUnfeeds
-----------------------------------------------------------------------------
(* The registry implements FrameRouter *)

\* The router's view of the vectors.
Audience == [a \in ReaderAddr |-> Feeds(a)]

LEMMA AudienceOf ==
  ASSUME Inv, NEW a \in ReaderAddr, NEW s
  PROVE  s \in Audience[a] <=> a \in DOMAIN reader_connections /\ s \in reader_connections[a]
BY DEF Audience, Feeds

\* Whoever is in an audience is in a vector: it has been attached, and it is
\* registered or about to be replaced.
LEMMA WatchingIsFed ==
  ASSUME Inv, NEW s
  PROVE  s \in Router!Watching <=> Fed(s)
<1>1. Router!Watching = UNION {Audience[a] : a \in ReaderAddr}
  BY DEF Router!Watching, Audience
<1>2. Fed(s) <=> \E a \in ReaderAddr : s \in Audience[a]
  BY AudienceOf DEF Fed, Inv, TypeOK, IsMap
<1>. QED
  BY <1>1, <1>2

LEMMA FedFacts ==
  ASSUME Inv, NEW s, Fed(s)
  PROVE  /\ s \in Session /\ Settled(s)
         /\ \/ addr[s] \in DOMAIN writer_sessions /\ writer_sessions[addr[s]] = s
            \/ acceptor.pc = "swap_writer" /\ acceptor.old = s
BY DEF Inv, TypeOK, IsMap, Fed, Routes, FeedsCurrentSession

\* What a step leaves alone in the registry it leaves alone in the router.
LEMMA RouterStutters ==
  ASSUME UNCHANGED <<maps, addr, written, Starting>>
  PROVE  UNCHANGED Router!vars
BY DEF maps, Router!vars, Feeds, Range

LEMMA InitRouter == Init => Router!Init
<1>. SUFFICES ASSUME Init PROVE Router!Init
  OBVIOUS
<1>1. DOMAIN reader_sessions = {} /\ Range(writer_sessions) = {}
  BY DEF Init, EmptyMap, Range
<1>2. [a \in ReaderAddr |-> Feeds(a)] = [a \in ReaderAddr |-> {}]
  BY DEF Init, EmptyMap, Feeds
<1>3. addr \in [Session -> Addr \cup {0}]
  BY DEF Init
<1>4. Starting = {}
  BY DEF Init, Idle, Starting
<1>. QED
  BY <1>1, <1>2, <1>3, <1>4 DEF Init, Router!Init

\* A session that is being accepted is nobody the registry knows.
LEMMA NewSession ==
  ASSUME Inv, acceptor.pc = "idle", NEW s, s = last_session_number + 1
  PROVE  s \notin Range(writer_sessions) \cup Router!Watching \cup written
<1>1. last_session_number \in Nat
  BY DEF Inv, TypeOK
<1>2. ~Settled(s) /\ ~Accepted(s)
  BY <1>1 DEF Settled, Accepted
<1>3. s \notin Range(writer_sessions)
  BY <1>2 DEF Range, Inv, OwnAddress
<1>4. s \notin Router!Watching
  BY <1>2, WatchingIsFed, FedFacts
<1>5. s \notin written
  BY <1>2 DEF Inv, Numbering
<1>. QED
  BY <1>3, <1>4, <1>5

LEMMA RegisterReaderRouter ==
  ASSUME Inv, NEW a \in ReaderAddr, RegisterReader(a)
  PROVE  Router!CameraConnects(last_session_number + 1, a)
<1>. DEFINE s == last_session_number + 1
<1>1. /\ UNCHANGED <<writer_sessions, reader_connections, written>>
      /\ addr' = [addr EXCEPT ![s] = a]
      /\ reader_sessions' = Put(reader_sessions, a, s)
      /\ acceptor.pc = "idle"
  BY DEF RegisterReader, Accept
<1>2. DOMAIN reader_sessions' = DOMAIN reader_sessions \cup {a}
  BY <1>1 DEF Put
<1>3. UNCHANGED <<[x \in ReaderAddr |-> Feeds(x)], Range(writer_sessions)>>
  BY <1>1 DEF Feeds, Range
<1>4. s \notin Range(writer_sessions) \cup Router!Watching \cup written
  BY <1>1, NewSession
<1>5. Starting = {} /\ Starting' = {[camera |-> a, first |-> DOMAIN reader_sessions = {}]}
  <2>1. acceptor' = [pc |-> "attach_reader", session |-> s, first |-> NoReaders,
                     old |-> Lookup(reader_sessions, a)]
    BY DEF RegisterReader
  <2>2. addr'[s] = a
    BY <1>1, MaxSessionsAssumption DEF RegisterReader, Accept, Inv, TypeOK, Session
  <2>. QED
    BY <1>1, <2>1, <2>2 DEF Starting, NoReaders
<1>. QED
  BY <1>1, <1>2, <1>3, <1>4, <1>5 DEF Router!CameraConnects, Router!Accept

LEMMA RegisterWriterRouter ==
  ASSUME Inv, NEW a \in WriterAddr, RegisterWriter(a)
  PROVE  Router!HeadsetConnects(last_session_number + 1, a)
<1>. DEFINE s == last_session_number + 1
<1>1. /\ UNCHANGED <<reader_sessions, reader_connections, written>>
      /\ addr' = [addr EXCEPT ![s] = a]
      /\ writer_sessions' = Put(writer_sessions, a, s)
      /\ acceptor.pc = "idle"
  BY DEF RegisterWriter, Accept
<1>2. Range(writer_sessions') = {t \in Range(writer_sessions) : addr[t] # a} \cup {s}
  <2>1. /\ DOMAIN writer_sessions' = DOMAIN writer_sessions \cup {a}
        /\ writer_sessions'[a] = s
        /\ \A x \in DOMAIN writer_sessions : x # a => writer_sessions'[x] = writer_sessions[x]
    BY <1>1 DEF Put
  <2>2. \A x \in DOMAIN writer_sessions : addr[writer_sessions[x]] = x
    BY DEF Inv, OwnAddress
  <2>. QED
    BY <2>1, <2>2 DEF Range
<1>3. UNCHANGED [x \in ReaderAddr |-> Feeds(x)]
  BY <1>1 DEF Feeds
<1>4. s \notin Range(writer_sessions) \cup Router!Watching \cup written
  BY <1>1, NewSession
<1>5. Starting = {} /\ Starting' = {}
  BY <1>1 DEF RegisterWriter, Starting
<1>. QED
  BY <1>1, <1>2, <1>3, <1>4, <1>5 DEF Router!HeadsetConnects, Router!Accept

\* The audience after a vector was written.
LEMMA PutAudience ==
  ASSUME Inv, NEW a \in ReaderAddr, NEW S, reader_connections' = Put(reader_connections, a, S)
  PROVE  Audience' = [Audience EXCEPT ![a] = S]
BY DEF Audience, Put, Feeds

\* AttachReader: the first camera finds nobody watching and is given everybody;
\* after Clear everybody is nobody at all.
LEMMA AttachReaderRouter ==
  ASSUME Inv, AttachReader
  PROVE  LET a == addr[acceptor.session] IN
         a \in ReaderAddr /\ (Router!FirstCameraStarts(a) \/ Router!NextCameraStarts(a))
<1>. DEFINE a == addr[acceptor.session]
            S == IF acceptor.first THEN Range(writer_sessions) ELSE {}
<1>1. /\ UNCHANGED <<reader_sessions, writer_sessions, addr, written>>
      /\ acceptor.pc = "attach_reader" /\ acceptor' = [acceptor EXCEPT !.pc = "close"]
      /\ reader_connections' = Put(reader_connections, a, S)
  BY DEF AttachReader, sessions
<1>2. a \in ReaderAddr
  BY <1>1 DEF Inv, Pending
<1>3. Audience' = [Audience EXCEPT ![a] = S]
  BY <1>1, <1>2, PutAudience
<1>4. Starting = {[camera |-> a, first |-> acceptor.first]} /\ Starting' = {}
  BY <1>1 DEF Starting, Inv, TypeOK
<1>5. Router!Others
  BY <1>1 DEF Router!Others, Range
<1>6. CASE acceptor.first = TRUE
  <2>1. Router!Watching = {}
    BY <1>1, <1>6, WatchingIsFed DEF Inv, FirstReader, Fed
  <2>. QED
    BY <1>2, <1>3, <1>4, <1>5, <1>6, <2>1 DEF Router!FirstCameraStarts, Audience
<1>7. CASE acceptor.first = FALSE
  BY <1>2, <1>3, <1>4, <1>5, <1>7 DEF Router!NextCameraStarts, Audience
<1>. QED
  BY <1>6, <1>7 DEF Inv, TypeOK

\* AttachWriter: nobody at the headset's address is fed.
LEMMA AttachWriterRouter ==
  ASSUME Inv, AttachWriter
  PROVE  \/ \E r \in ReaderAddr : Router!HeadsetStarts(acceptor.session, r)
         \/ UNCHANGED Router!vars
<1>. DEFINE s == acceptor.session
<1>1. /\ UNCHANGED <<reader_sessions, writer_sessions, addr, written>>
      /\ acceptor.pc = "attach_writer"
  BY DEF AttachWriter, sessions
<1>2. s = last_session_number + 1 /\ s \in Session
  BY <1>1 DEF Inv, Numbering
<1>s. Starting = {} /\ Starting' = {}
  BY <1>1 DEF AttachWriter, Starting, Inv, TypeOK
<1>3. CASE UNCHANGED <<reader_connections, writer_connections>>
  BY <1>1, <1>s, <1>3, RouterStutters DEF maps
<1>4. ASSUME NEW r \in DOMAIN reader_sessions, r \in DOMAIN reader_connections,
             reader_connections' =
               [reader_connections EXCEPT ![r] = reader_connections[r] \cup {s}]
      PROVE  Router!HeadsetStarts(s, r) /\ r \in ReaderAddr
  <2>1. addr[s] \in DOMAIN writer_sessions /\ writer_sessions[addr[s]] = s
    BY <1>1, <1>4 DEF Inv, Pending, MapsEmpty
  <2>2. ASSUME NEW t \in Router!Watching, addr[t] = addr[s] PROVE FALSE
    <3>1. Settled(t) /\ writer_sessions[addr[t]] = t
      BY <1>1, <2>2, WatchingIsFed, FedFacts
    <3>. QED
      BY <1>1, <1>2, <2>1, <2>2, <3>1 DEF Settled, Inv, TypeOK
  <2>3. r \in ReaderAddr
    BY <1>4 DEF Inv, TypeOK, IsMap
  <2>4. Audience' = [Audience EXCEPT ![r] = @ \cup {s}]
    BY <1>4, <2>3 DEF Audience, Feeds
  <2>5. s \in Range(writer_sessions)
    BY <2>1 DEF Range
  <2>. QED
    BY <1>1, <1>s, <1>4, <2>2, <2>3, <2>4, <2>5
    DEF Router!HeadsetStarts, Router!Rearrange, Router!Others, Audience, Range
<1>. QED
  BY <1>3, <1>4 DEF AttachWriter

LEMMA SwapWriterRouter ==
  ASSUME Inv, SwapWriter
  PROVE  \/ Router!HeadsetReplaces(acceptor.old, acceptor.session)
         \/ UNCHANGED Router!vars
<1>. DEFINE s == acceptor.session
            old == acceptor.old
<1>1. /\ UNCHANGED <<reader_sessions, writer_sessions, writer_connections, addr, written>>
      /\ acceptor.pc = "swap_writer"
  BY DEF SwapWriter, sessions
<1>s. Starting = {} /\ Starting' = {}
  BY <1>1 DEF SwapWriter, Starting, Inv, TypeOK
<1>2. Audience' = [x \in ReaderAddr |-> IF old \in Audience[x] THEN (Audience[x] \ {old}) \cup {s}
                                       ELSE Audience[x]]
  BY SwapReplaces DEF Audience, Feeds
<1>3. CASE MapsEmpty
  <2>1. Audience' = Audience
    BY <1>2, <1>3 DEF MapsEmpty, Audience, Feeds
  <2>. QED
    BY <1>1, <1>s, <2>1 DEF Router!vars, Audience, Range
<1>4. CASE ~MapsEmpty
  <2>1. addr[s] \in DOMAIN writer_sessions /\ writer_sessions[addr[s]] = s
    BY <1>1, <1>4 DEF Inv, Pending
  <2>2. s \in Range(writer_sessions)
    BY <2>1 DEF Range
  <2>3. ~Settled(s) /\ addr[old] = addr[s]
    BY <1>1, SwapReplaces DEF Settled, Inv, TypeOK
  <2>4. s \notin Router!Watching
    BY <2>3, WatchingIsFed, FedFacts
  <2>. QED
    BY <1>1, <1>s, <1>2, <2>2, <2>3, <2>4
    DEF Router!HeadsetReplaces, Router!Rearrange, Router!Others, Audience, Range
<1>. QED
  BY <1>3, <1>4

\* RemoveReaderSession: with the last camera go all vectors, but those of others
\* were empty; with any other one, what it was feeding goes to the next camera.
LEMMA RemoveReaderRouter ==
  ASSUME Inv, NEW s \in Session, RemoveReaderSession(s)
  PROVE  Router!CameraLeaves(addr[s]) \/ UNCHANGED Router!vars
<1>. DEFINE a == addr[s]
<1>1. UNCHANGED <<writer_sessions, addr, written, Starting>>
  BY DEF RemoveReaderSession, sessions, Starting
<1>2. CASE UNCHANGED <<reader_sessions, reader_connections, writer_connections>>
  BY <1>1, <1>2, RouterStutters DEF maps
<1>3. CASE SameSession(s, reader_sessions)
  <2>1. a \in DOMAIN reader_sessions /\ a \in ReaderAddr
    BY <1>3 DEF SameSession, Inv, TypeOK, IsMap
  <2>2. CASE DOMAIN reader_sessions = {a}
    <3>1. reader_sessions' = EmptyMap /\ reader_connections' = EmptyMap
      BY <1>3, <2>2 DEF RemoveReaderSession
    <3>2. DOMAIN reader_sessions' = {} /\ Audience' = [Audience EXCEPT ![a] = {}]
      BY <2>2, <3>1 DEF EmptyMap, Audience, Feeds, Inv, EmptyStubs
    <3>. QED
      BY <1>1, <2>1, <2>2, <3>2 DEF Router!CameraLeaves, Audience, Range
  <2>3. CASE DOMAIN reader_sessions # {a}
    <3>1. DOMAIN reader_sessions' = DOMAIN reader_sessions \ {a}
      BY <1>3, <2>3 DEF RemoveReaderSession, Drop, Restrict
    <3>2. \E n \in DOMAIN reader_sessions \ {a} :
            Audience' = [Audience EXCEPT ![a] = {}, ![n] = @ \cup Audience[a]]
      <4>1. CASE Feeds(a) = {}
        <5>1. PICK n \in DOMAIN reader_sessions : n # a
          BY <2>1, <2>3
        <5>2. reader_connections' = Drop(reader_connections, a)
          BY <1>3, <2>3, <4>1 DEF RemoveReaderSession
        <5>3. \A x \in ReaderAddr : Feeds(x)' = IF x = a THEN {} ELSE Feeds(x)
          BY <5>2 DEF Feeds, Drop, Restrict
        <5>4. n \in ReaderAddr
          BY <5>1 DEF Inv, TypeOK, IsMap
        <5>. QED
          BY <2>1, <4>1, <5>1, <5>3, <5>4 DEF Audience
      <4>2. CASE Feeds(a) # {}
        <5>1. PICK n \in DOMAIN reader_sessions :
                IsNext(n, a, DOMAIN reader_sessions) /\ MoveHeadsets(a, n)
          BY <1>3, <2>3, <4>2 DEF RemoveReaderSession
        <5>2. DOMAIN reader_sessions \in SUBSET ReaderAddr
          BY DEF Inv, TypeOK, IsMap
        <5>3. n \in ReaderAddr /\ n # a
          BY <2>1, <2>3, <5>1, <5>2, NextIsOther
        <5>4. \A x \in ReaderAddr :
                Feeds(x)' = IF x = n THEN Feeds(n) \cup Feeds(a) ELSE IF x = a THEN {} ELSE Feeds(x)
          BY <5>1 DEF MoveHeadsets, Feeds
        <5>5. Audience' = [Audience EXCEPT ![a] = {}, ![n] = @ \cup Audience[a]]
          BY <2>1, <5>3, <5>4 DEF Audience
        <5>. QED
          BY <5>1, <5>3, <5>5
      <4>. QED
        BY <4>1, <4>2
    <3>3. UNCHANGED <<Range(writer_sessions), addr, written, Starting>>
      BY <1>1 DEF Range
    <3>. QED
      BY <2>1, <3>1, <3>2, <3>3 DEF Router!CameraLeaves, Audience
  <2>. QED
    BY <2>2, <2>3
<1>. QED
  BY <1>2, <1>3 DEF RemoveReaderSession

\* RemoveWriterSession: every vector is cleared when the last headset goes, but
\* there was nobody else in any.
LEMMA RemoveWriterRouter ==
  ASSUME Inv, NEW s \in Session, RemoveWriterSession(s)
  PROVE  Router!HeadsetLeaves(s) \/ UNCHANGED Router!vars
<1>. DEFINE a == addr[s]
<1>1. UNCHANGED <<reader_sessions, addr, written, Starting>> /\ s \in destroying
  BY DEF RemoveWriterSession, sessions, Starting
<1>2. CASE UNCHANGED <<writer_sessions, reader_connections, writer_connections>>
  BY <1>1, <1>2, RouterStutters DEF maps
<1>3. CASE /\ SameSession(s, writer_sessions)
           /\ reader_connections' = VectorsWithout(s)
           /\ writer_sessions' = Drop(writer_sessions, a)
  <2>1. a \in DOMAIN writer_sessions /\ writer_sessions[a] = s
    BY <1>1, <1>3, SameSessionIsSame DEF SameSession
  <2>2. s \in Range(writer_sessions) /\ Range(writer_sessions') = Range(writer_sessions) \ {s}
    <3>1. \A x \in DOMAIN writer_sessions : writer_sessions[x] = s => x = a
      BY DEF Inv, OwnAddress
    <3>. QED
      BY <1>3, <2>1, <3>1 DEF Range, Drop, Restrict
  <2>3. ASSUME DOMAIN writer_sessions = {a}, NEW t, Fed(t) PROVE t = s
    <3>1. CASE addr[t] \in DOMAIN writer_sessions /\ writer_sessions[addr[t]] = t
      BY <2>1, <2>3, <3>1
    <3>2. CASE acceptor.pc = "swap_writer" /\ acceptor.old = t
      <4>1. writer_sessions[addr[acceptor.session]] = acceptor.session
            /\ addr[acceptor.session] \in DOMAIN writer_sessions
        BY <2>1, <3>2 DEF Inv, Pending, MapsEmpty
      <4>2. acceptor.session = s
        BY <2>1, <2>3, <4>1
      <4>3. Settled(s) /\ ~Settled(acceptor.session)
        BY <1>1, <3>2 DEF Inv, Numbering, Settled, TypeOK
      <4>. QED
        BY <4>2, <4>3
    <3>. QED
      BY <2>3, <3>1, <3>2, FedFacts
  <2>4. \A x \in ReaderAddr : Feeds(x)' = Feeds(x) \ {s}
    <3>. SUFFICES ASSUME NEW x \in DOMAIN reader_connections
                  PROVE  VectorsWithout(s)[x] = reader_connections[x] \ {s}
      BY <1>3 DEF Feeds, VectorsWithout
    <3>1. CASE DOMAIN writer_sessions = {a}
      <4>1. reader_connections[x] \subseteq {s}
        BY <2>3, <3>1 DEF Fed
      <4>. QED
        BY <3>1, <4>1 DEF VectorsWithout
    <3>2. CASE DOMAIN writer_sessions # {a}
      <4>1. s \in reader_connections[x] => a \in DOMAIN writer_connections /\ writer_connections[a] = x
        BY DEF Inv, Routes
      <4>. QED
        BY <3>2, <4>1 DEF VectorsWithout, Lookup
    <3>. QED
      BY <3>1, <3>2
  <2>5. Audience' = [x \in ReaderAddr |-> Audience[x] \ {s}]
    BY <2>4 DEF Audience
  <2>. QED
    BY <1>1, <2>2, <2>5 DEF Router!HeadsetLeaves, Audience
<1>. QED
  BY <1>2, <1>3 DEF RemoveWriterSession

\* Rotate, Reset, RotateAll and Point.
LEMMA MovingRouter ==
  ASSUME Inv, MovingUnchanged, NEW n \in DOMAIN reader_sessions,
         GatherAt(n) \/ \E w \in DOMAIN writer_connections : MoveWriter(w, n)
  PROVE  n \in ReaderAddr /\ (Router!Gather(n) \/ \E s \in Session : Router!Move(s, n))
<1>1. n \in ReaderAddr
  BY DEF Inv, TypeOK, IsMap
<1>2. Router!Rearrange
  BY DEF MovingUnchanged, sessions, Router!Rearrange, Router!Others, Range, Starting
<1>3. CASE GatherAt(n)
  <2>1. UNION Range(reader_connections) = Router!Watching
    <3>1. \A s : s \in UNION Range(reader_connections) <=> Fed(s)
      BY DEF Range, Fed
    <3>. QED
      BY <3>1, WatchingIsFed
  <2>2. Audience' = [c \in ReaderAddr |-> IF c = n THEN Router!Watching ELSE {}]
    BY <1>3, <2>1 DEF GatherAt, Audience, Feeds
  <2>. QED
    BY <1>1, <1>2, <2>2 DEF Router!Gather, Audience
<1>4. ASSUME NEW w \in DOMAIN writer_connections, MoveWriter(w, n)
      PROVE  \E s \in Session : Router!Move(s, n)
  <2>. DEFINE r == writer_connections[w]
  <2>1. PICK s \in Feeds(r) :
          /\ addr[s] = w /\ n \in DOMAIN reader_connections
          /\ reader_connections' = [reader_connections EXCEPT ![r] = @ \ {s}, ![n] = @ \cup {s}]
    BY <1>4 DEF MoveWriter
  <2>2. r \in DOMAIN reader_connections /\ s \in reader_connections[r] /\ Fed(s)
    BY <2>1 DEF Feeds, Fed
  <2>3. s \in Session /\ s \in Router!Watching
    BY <2>2, WatchingIsFed, FedFacts
  <2>4. \A c \in DOMAIN reader_connections : s \in reader_connections[c] => c = r
    BY <2>1 DEF Inv, Routes
  <2>5. Audience' = [c \in ReaderAddr |-> IF c = n THEN Audience[c] \cup {s} ELSE Audience[c] \ {s}]
    BY <1>1, <2>1, <2>2, <2>4 DEF Audience, Feeds
  <2>. QED
    BY <1>1, <1>2, <2>3, <2>5 DEF Router!Move, Audience
<1>. QED
  BY <1>1, <1>3, <1>4

LEMMA PostMessageRouter ==
  ASSUME Inv, NEW s \in Session, PostMessage(s)
  PROVE  (\E c \in ReaderAddr : Router!Deliver(c)) \/ UNCHANGED Router!vars
<1>1. UNCHANGED <<maps, addr, Starting>> /\ written' = written \cup Feeds(addr[s])
  BY DEF PostMessage, sessions, Starting
<1>2. CASE addr[s] \in ReaderAddr
  <2>1. Router!Deliver(addr[s])
    BY <1>1, <1>2 DEF Router!Deliver, maps, Feeds, Range
  <2>. QED
    BY <1>2, <2>1
<1>3. CASE addr[s] \notin ReaderAddr
  <2>1. Feeds(addr[s]) = {}
    BY <1>3 DEF Feeds, Inv, TypeOK, IsMap
  <2>. QED
    BY <1>1, <2>1, RouterStutters
<1>. QED
  BY <1>2, <1>3

LEMMA ClearRouter == ASSUME Clear PROVE Router!Stop
<1>1. DOMAIN reader_sessions' = {} /\ Range(writer_sessions') = {}
  BY DEF Clear, EmptyMap, Range
<1>2. Audience' = [c \in ReaderAddr |-> {}]
  BY DEF Clear, EmptyMap, Audience, Feeds
<1>. QED
  BY <1>1, <1>2 DEF Clear, sessions, Router!Stop, Audience, Starting

LEMMA NextRouter == Inv /\ [Next]_vars => [Router!Next]_(Router!vars)
<1>. SUFFICES ASSUME Inv, [Next]_vars PROVE Router!Next \/ UNCHANGED Router!vars
  OBVIOUS
<1>. USE DEF Router!Next
<1>1. ASSUME NEW a \in ReaderAddr, RegisterReader(a) PROVE Router!Next
  <2>1. last_session_number + 1 \in Session
    BY <1>1, MaxSessionsAssumption DEF RegisterReader, Accept, Inv, TypeOK, Session
  <2>. QED
    BY <1>1, <2>1, RegisterReaderRouter
<1>2. ASSUME NEW a \in WriterAddr, RegisterWriter(a) PROVE Router!Next
  <2>1. last_session_number + 1 \in Session /\ a \in Addr \cup {0}
    BY <1>2, MaxSessionsAssumption DEF RegisterWriter, Accept, Inv, TypeOK, Session, Addr
  <2>. QED
    BY <1>2, <2>1, RegisterWriterRouter
<1>3. CASE AttachReader
  BY <1>3, AttachReaderRouter
<1>4. CASE AttachWriter
  <2>1. acceptor.session \in Session
    BY <1>4 DEF AttachWriter, Inv, Numbering
  <2>. QED
    BY <1>4, <2>1, AttachWriterRouter
<1>5. CASE SwapWriter
  BY <1>5, SwapWriterRouter, SwapReplaces
<1>6. ASSUME NEW s \in Session, RemoveReaderSession(s) PROVE Router!Next \/ UNCHANGED Router!vars
  <2>1. Router!CameraLeaves(addr[s]) => addr[s] \in ReaderAddr
    BY DEF Router!CameraLeaves, Inv, TypeOK, IsMap
  <2>. QED
    BY <1>6, <2>1, RemoveReaderRouter
<1>7. ASSUME NEW s \in Session, RemoveWriterSession(s) PROVE Router!Next \/ UNCHANGED Router!vars
  BY <1>7, RemoveWriterRouter
<1>8. ASSUME NEW s \in Session, PostMessage(s) PROVE Router!Next \/ UNCHANGED Router!vars
  BY <1>8, PostMessageRouter
<1>9. ASSUME NEW w, RotateWriterConnection(w) \/ ResetWriterConnection(w)
                    \/ RotateAllConnections \/ PointReaderAtWriters(w)
      PROVE  Router!Next
  <2>1. /\ MovingUnchanged
        /\ \E n \in DOMAIN reader_sessions :
             GatherAt(n) \/ \E x \in DOMAIN writer_connections : MoveWriter(x, n)
    BY <1>9 DEF RotateWriterConnection, ResetWriterConnection, RotateAllConnections,
                PointReaderAtWriters, GatherAt
  <2>. QED
    BY <2>1, MovingRouter
<1>10. CASE Clear
  BY <1>10, ClearRouter
<1>11. CASE \/ CloseReplaced \/ AssignSessionId \/ MainStep \/ Terminated \/ UNCHANGED vars
            \/ TimedOut \/ Selected \/ InvalidInput
            \/ \E s \in Session : FrameReceived(s) \/ CloseSession(s) \/ RemoveWriterDuringAssign(s)
  <2>1. UNCHANGED <<maps, addr, written>>
    BY <1>11 DEF CloseReplaced, AssignSessionId, Assign, RemoveWriterDuringAssign, FrameReceived,
                 CloseSession, MainStep, CloseRemoved, StopWorkThread, JoinWorkThread,
                 StopTcpServer, StopContext, JoinPool, TimedOut, Selected, InvalidInput,
                 Terminated, vars, sessions
  <2>2. \/ UNCHANGED acceptor
        \/ acceptor.pc \in {"close", "assign"} /\ acceptor'.pc \in {"assign", "idle"}
    BY <1>11 DEF CloseReplaced, AssignSessionId, Assign, RemoveWriterDuringAssign, FrameReceived,
                 CloseSession, MainStep, CloseRemoved, StopWorkThread, JoinWorkThread,
                 StopTcpServer, StopContext, JoinPool, TimedOut, Selected, InvalidInput,
                 Terminated, vars, Idle, Inv, TypeOK
  <2>3. UNCHANGED Starting
    BY <2>1, <2>2 DEF Starting
  <2>. QED
    BY <2>1, <2>3, RouterStutters
<1>. QED
  BY <1>1, <1>2, <1>3, <1>4, <1>5, <1>6, <1>7, <1>8, <1>9, <1>10, <1>11
  DEF Next, AcceptorStep, HandlerStep

\* One connection of one headset watches one camera: FrameRouter's steps see to it
\* by themselves, whatever implements them.
THEOREM RouterFeedsOnce == Router!Spec => [](Router!TypeOK /\ Router!OneFeed)
<1>. DEFINE Fine == Router!TypeOK /\ Router!OneFeed
<1>1. Router!Init => Fine
  BY DEF Router!Init, Router!TypeOK, Router!OneFeed
<1>2. Fine /\ [Router!Next]_(Router!vars) => Fine'
  <2>. SUFFICES ASSUME Fine, [Router!Next]_(Router!vars) PROVE Fine'
    OBVIOUS
  <2>a. /\ Audience \in [ReaderAddr -> SUBSET Session]
        /\ Range(writer_sessions) \subseteq Session
        /\ \A c, d \in ReaderAddr : \A s \in Audience[c], t \in Audience[d] :
             addr[s] = addr[t] => s = t /\ c = d
        /\ \A s, t \in Range(writer_sessions) : addr[s] = addr[t] => s = t
    BY DEF Router!TypeOK, Router!OneFeed, Audience
  <2>b. ASSUME UNCHANGED <<Range(writer_sessions), addr, written>>,
               DOMAIN reader_sessions' \subseteq DOMAIN reader_sessions,
               Starting' \subseteq Starting,
               Audience' \in [ReaderAddr -> SUBSET Session],
               \A c, d \in ReaderAddr : \A s \in Audience'[c], t \in Audience'[d] :
                 addr[s] = addr[t] => s = t /\ c = d
        PROVE  Fine'
    BY <2>b DEF Router!TypeOK, Router!OneFeed, Audience
  <2>. USE DEF Router!TypeOK, Router!OneFeed
  <2>1. ASSUME NEW s \in Session, NEW c \in ReaderAddr, Router!CameraConnects(s, c) PROVE Fine'
    BY <2>1 DEF Router!CameraConnects, Router!Accept, Router!Watching, Addr
  <2>2. ASSUME NEW s \in Session, NEW h \in Addr \cup {0}, Router!HeadsetConnects(s, h) PROVE Fine'
    BY <2>2 DEF Router!HeadsetConnects, Router!Accept, Router!Watching
  <2>3. ASSUME NEW c \in ReaderAddr, Router!FirstCameraStarts(c) \/ Router!NextCameraStarts(c)
        PROVE  Fine'
    <3>1. UNCHANGED <<DOMAIN reader_sessions, Range(writer_sessions), addr, written>>
          /\ Starting' = {}
      BY <2>3 DEF Router!FirstCameraStarts, Router!NextCameraStarts, Router!Others
    <3>2. CASE Router!Watching = {} /\ Audience' = [Audience EXCEPT ![c] = Range(writer_sessions)]
      <4>1. \A d \in ReaderAddr : Audience[d] = {}
        BY <3>2 DEF Router!Watching, Audience
      <4>2. \A d \in ReaderAddr : Audience'[d] = IF d = c THEN Range(writer_sessions) ELSE {}
        BY <2>a, <3>2, <4>1
      <4>. QED
        BY ONLY <2>a, <2>b, <3>1, <3>2, <4>2
    <3>3. CASE Audience' = [Audience EXCEPT ![c] = {}]
      BY ONLY <2>a, <2>b, <3>1, <3>3
    <3>. QED
      BY <2>3, <3>2, <3>3 DEF Router!FirstCameraStarts, Router!NextCameraStarts, Audience
  <2>4. ASSUME NEW s \in Session, NEW c \in ReaderAddr, Router!HeadsetStarts(s, c) PROVE Fine'
    <3>1. /\ UNCHANGED <<DOMAIN reader_sessions, Range(writer_sessions), addr, written, Starting>>
          /\ Audience' = [Audience EXCEPT ![c] = @ \cup {s}]
      BY <2>4 DEF Router!HeadsetStarts, Router!Rearrange, Router!Others, Audience
    <3>2. \A d \in ReaderAddr : \A t \in Audience[d] : addr[t] # addr[s]
      BY <2>4 DEF Router!HeadsetStarts, Router!Watching, Audience
    <3>. QED
      BY ONLY <2>a, <2>b, <3>1, <3>2, s \in Session
  <2>5. ASSUME NEW old \in Session, NEW s \in Session, Router!HeadsetReplaces(old, s) PROVE Fine'
    BY <2>5 DEF Router!HeadsetReplaces, Router!Rearrange, Router!Others, Router!Watching
  <2>6. ASSUME NEW s \in Session, Router!HeadsetLeaves(s) PROVE Fine'
    BY <2>6 DEF Router!HeadsetLeaves
  <2>7. ASSUME NEW c \in ReaderAddr, Router!CameraLeaves(c) PROVE Fine'
    <3>1. /\ UNCHANGED <<Range(writer_sessions), addr, written, Starting>>
          /\ DOMAIN reader_sessions' = DOMAIN reader_sessions \ {c}
      BY <2>7 DEF Router!CameraLeaves
    <3>2. CASE Audience' = [Audience EXCEPT ![c] = {}]
      BY ONLY <2>a, <2>b, <3>1, <3>2
    <3>3. ASSUME NEW n \in ReaderAddr, n # c,
                 Audience' = [Audience EXCEPT ![c] = {}, ![n] = @ \cup Audience[c]]
          PROVE  Fine'
      <4>1. \A d \in ReaderAddr : Audience'[d] =
              IF d = n THEN Audience[n] \cup Audience[c] ELSE IF d = c THEN {} ELSE Audience[d]
        BY <2>a, <3>3
      <4>. QED
        BY ONLY <2>a, <2>b, <3>1, <3>3, <4>1
    <3>4. DOMAIN reader_sessions \subseteq ReaderAddr
      OBVIOUS
    <3>. QED
      BY <2>7, <3>2, <3>3, <3>4 DEF Router!CameraLeaves, Audience
  <2>8. ASSUME NEW s \in Session, NEW n \in ReaderAddr, Router!Move(s, n) PROVE Fine'
    BY <2>8 DEF Router!Move, Router!Rearrange, Router!Others, Router!Watching
  <2>9. ASSUME NEW n \in ReaderAddr, Router!Gather(n) PROVE Fine'
    BY <2>9 DEF Router!Gather, Router!Rearrange, Router!Others, Router!Watching
  <2>10. ASSUME NEW c \in ReaderAddr, Router!Deliver(c) PROVE Fine'
    BY <2>10 DEF Router!Deliver
  <2>11. CASE Router!Stop
    BY <2>11 DEF Router!Stop
  <2>12. CASE UNCHANGED Router!vars
    BY <2>12 DEF Router!vars
  <2>. QED
    BY <2>1, <2>2, <2>3, <2>4, <2>5, <2>6, <2>7, <2>8, <2>9, <2>10, <2>11, <2>12 DEF Router!Next
<1>. QED
  BY <1>1, <1>2, PTL DEF Router!Spec

\* The registry does to its vectors what FrameRouter says: frames go to a camera's
\* audience; the first camera is given every headset, and a later headset joins one
\* when it is registered; it moves only to a camera that is there; and it loses its
\* frames only by leaving, to its own successor, when its camera registers anew, or
\* with the last camera.
THEOREM RoutesLikeFrameRouter == Spec => RoutesFrames
<1>. QED
  BY InvHolds, InitRouter, NextRouter, PTL DEF Spec, RoutesFrames, Router!Spec

=============================================================================
