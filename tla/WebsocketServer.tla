--------------------------- MODULE WebsocketServer ---------------------------
(***************************************************************************)
(* The websocket server: accepting connections, the table of sessions, the *)
(* sessions themselves and Stop.                                           *)
(*                                                                         *)
(* The acceptor and every session have strands of their own, and Stop runs *)
(* on another thread.  A session is closed by itself, by the acceptor when *)
(* its address has connected again, or by Stop; these race for it.         *)
(***************************************************************************)
EXTENDS Naturals

CONSTANTS
  Key,         \* a map (cameras, or headsets and displays) and an address in it
  MaxSessions  \* bound: connections accepted

ASSUME BoundsAssumption == MaxSessions \in Nat

Session == 1 .. MaxSessions
NoSession == 0

VARIABLES
  is_stopped,
  last_session_number,
  registered,  \* _camera_sessions and _headset_sessions: the session of each key
  key,         \* _connection_type and _addr of each session
  is_live,
  pending,     \* the session's handler that is posted or waits for its operation
  own,         \* where the session's handler is in TryClose(true)
  acceptor,    \* where the acceptor's strand is, the session it makes, the one replaced
  stopper,     \* where Stop is, and the session it closes
  left,        \* the sessions Stop has still to close
  closes       \* async_close calls on the session's stream

vars == <<is_stopped, last_session_number, registered, key, is_live, pending, own, acceptor,
          stopper, left, closes>>
sessions == <<is_live, pending, own, closes>>

Pending == {"none", "start", "accept", "read"}
Own == {"no", "tested", "cleared", "done"}
AcceptorPC == {"accepting", "accepted", "start", "close", "clear", "again", "off"}
StopperPC == {"idle", "flagged", "take", "close", "clear", "done"}
StopAt(pc, n) == [pc |-> pc, session |-> n]
At(pc, new, old) == [pc |-> pc, new |-> new, old |-> old]

\* After Start.
Init ==
  /\ is_stopped = FALSE /\ last_session_number = 0
  /\ registered = [k \in Key |-> NoSession]
  /\ key \in [Session -> Key]
  /\ is_live = [n \in Session |-> FALSE]
  /\ pending = [n \in Session |-> "none"]
  /\ own = [n \in Session |-> "no"]
  /\ acceptor = At("accepting", NoSession, NoSession)
  /\ stopper = StopAt("idle", NoSession) /\ left = {}
  /\ closes = [n \in Session |-> 0]

-----------------------------------------------------------------------------
(* Closing a session *)

\* TryClose after its test: the flag, and async_close.
Closed(n) ==
  /\ is_live' = [is_live EXCEPT ![n] = FALSE]
  /\ closes' = [closes EXCEPT ![n] = @ + 1]

-----------------------------------------------------------------------------
(* The acceptor: onAccept, handleConnection, acceptConnections *)

\* A connection.  An error and an unknown address change nothing.
OnAccept ==
  /\ acceptor.pc = "accepting"
  /\ is_stopped \/ last_session_number < MaxSessions
  /\ acceptor' = At(IF is_stopped THEN "off" ELSE "accepted", NoSession, NoSession)
  /\ UNCHANGED <<is_stopped, last_session_number, registered, key, sessions, stopper, left>>

Replaced(n) == registered[key[n]]

\* A session is made and takes its place in the map, under the map's mutex.
Register ==
  /\ acceptor.pc = "accepted"
  /\ LET n == last_session_number + 1 IN
     /\ last_session_number' = n
     /\ registered' = [registered EXCEPT ![key[n]] = n]
     /\ is_live' = [is_live EXCEPT ![n] = TRUE]
     /\ acceptor' = At("start", n, Replaced(n))
  /\ UNCHANGED <<is_stopped, key, pending, own, stopper, left, closes>>

\* Start of the new session dispatches onStart to its strand.
StartSession ==
  /\ acceptor.pc = "start"
  /\ pending' = IF is_live[acceptor.new] THEN [pending EXCEPT ![acceptor.new] = "start"] ELSE pending
  /\ acceptor' = At(IF acceptor.old = NoSession THEN "again" ELSE "close", NoSession, acceptor.old)
  /\ UNCHANGED <<is_stopped, last_session_number, registered, key, is_live, own, stopper, left, closes>>

\* TryClose(false) of the replaced one, on the acceptor's strand.
CloseReplaced ==
  /\ acceptor.pc = "close"
  /\ acceptor' = At(IF is_live[acceptor.old] THEN "clear" ELSE "again", NoSession, acceptor.old)
  /\ UNCHANGED <<is_stopped, last_session_number, registered, key, sessions, stopper, left>>

ClearReplaced ==
  /\ acceptor.pc = "clear"
  /\ Closed(acceptor.old)
  /\ acceptor' = At("again", NoSession, NoSession)
  /\ UNCHANGED <<is_stopped, last_session_number, registered, key, pending, own, stopper, left>>

AcceptConnections ==
  /\ acceptor.pc = "again"
  /\ acceptor' = At(IF is_stopped THEN "off" ELSE "accepting", NoSession, NoSession)
  /\ UNCHANGED <<is_stopped, last_session_number, registered, key, sessions, stopper, left>>

-----------------------------------------------------------------------------
(* A session: onStart, onAccept, onRead *)

\* The handler that runs after each one, if all goes well: a ping or a message that
\* is served is followed by the next read.
After == [start |-> "accept", accept |-> "read", read |-> "read"]

Handle(n) ==
  /\ pending[n] # "none"
  /\ pending' = [pending EXCEPT ![n] = IF is_live[n] THEN After[pending[n]] ELSE "none"]
  /\ UNCHANGED <<is_stopped, last_session_number, registered, key, is_live, own, acceptor, stopper,
                 left, closes>>

\* A handshake or a read fails, or a message cannot be served: TryClose(true).
Fail(n) ==
  /\ pending[n] \in {"accept", "read"} /\ is_live[n]
  /\ pending' = [pending EXCEPT ![n] = "none"]
  /\ own' = [own EXCEPT ![n] = "tested"]
  /\ UNCHANGED <<is_stopped, last_session_number, registered, key, is_live, acceptor, stopper, left, closes>>

ClearOwn(n) ==
  /\ own[n] = "tested"
  /\ is_live' = [is_live EXCEPT ![n] = FALSE]
  /\ own' = [own EXCEPT ![n] = "cleared"]
  /\ UNCHANGED <<is_stopped, last_session_number, registered, key, pending, acceptor, stopper, left, closes>>

\* Variant: the address is enough.
SameSessionAnyNumber(n) == registered[key[n]] # NoSession

SameSession(n) == registered[key[n]] = n

\* destroySession, under the map's mutex, and async_close.
DestroySession(n) ==
  /\ own[n] = "cleared"
  /\ own' = [own EXCEPT ![n] = "done"]
  /\ registered' = IF SameSession(n) THEN [registered EXCEPT ![key[n]] = NoSession] ELSE registered
  /\ closes' = [closes EXCEPT ![n] = @ + 1]
  /\ UNCHANGED <<is_stopped, last_session_number, key, is_live, pending, acceptor, stopper, left>>

-----------------------------------------------------------------------------
(* Stop *)

Stop ==
  /\ stopper.pc = "idle" /\ ~is_stopped
  /\ is_stopped' = TRUE /\ stopper' = StopAt("flagged", NoSession)
  /\ UNCHANGED <<last_session_number, registered, key, sessions, acceptor, left>>

\* Variant: Stop does not wait for the acceptor's strand.
AcceptorFreeAlways == TRUE

AcceptorFree == acceptor.pc \in {"accepting", "off"}

\* The handler Stop has posted to the acceptor's strand and waits for.
CancelAccept ==
  /\ stopper.pc = "flagged" /\ AcceptorFree
  /\ stopper' = StopAt("take", NoSession)
  /\ UNCHANGED <<is_stopped, last_session_number, registered, key, sessions, acceptor, left>>

\* Both maps are emptied, under both mutexes.
TakeSessions ==
  /\ stopper.pc = "take"
  /\ stopper' = StopAt("close", NoSession)
  /\ left' = {registered[k] : k \in Key} \ {NoSession}
  /\ registered' = [k \in Key |-> NoSession]
  /\ UNCHANGED <<is_stopped, last_session_number, key, sessions, acceptor>>

\* TryClose(false) of each.
CloseTaken(n) ==
  /\ stopper.pc = "close" /\ n \in left
  /\ stopper' = IF is_live[n] THEN StopAt("clear", n) ELSE stopper
  /\ left' = IF is_live[n] THEN left ELSE left \ {n}
  /\ UNCHANGED <<is_stopped, last_session_number, registered, key, sessions, acceptor>>

ClearTaken ==
  /\ stopper.pc = "clear"
  /\ Closed(stopper.session)
  /\ stopper' = StopAt("close", NoSession)
  /\ left' = left \ {stopper.session}
  /\ UNCHANGED <<is_stopped, last_session_number, registered, key, pending, own, acceptor>>

Stopped ==
  /\ stopper.pc = "close" /\ left = {}
  /\ stopper' = StopAt("done", NoSession)
  /\ UNCHANGED <<is_stopped, last_session_number, registered, key, sessions, acceptor, left>>

-----------------------------------------------------------------------------

HandleConnection ==
  Register \/ StartSession \/ CloseReplaced \/ ClearReplaced \/ AcceptConnections

Stopper == CancelAccept \/ TakeSessions \/ ClearTaken \/ Stopped \/ \E n \in Session : CloseTaken(n)

Closing(n) == ClearOwn(n) \/ DestroySession(n)

Next ==
  \/ OnAccept \/ HandleConnection \/ Stop \/ Stopper
  \/ \E n \in Session : Handle(n) \/ Fail(n) \/ Closing(n)

\* What is posted runs, and calls under way go on.
Fairness == WF_vars(HandleConnection) /\ WF_vars(Stopper) /\ \A n \in Session : WF_vars(Closing(n))

Spec == Init /\ [][Next]_vars /\ Fairness

-----------------------------------------------------------------------------
(* Properties *)

TypeOK ==
  /\ is_stopped \in BOOLEAN /\ last_session_number \in 0 .. MaxSessions
  /\ registered \in [Key -> 0 .. MaxSessions]
  /\ key \in [Session -> Key]
  /\ is_live \in [Session -> BOOLEAN]
  /\ pending \in [Session -> Pending]
  /\ own \in [Session -> Own]
  /\ acceptor \in [pc : AcceptorPC, new : 0 .. MaxSessions, old : 0 .. MaxSessions]
  /\ stopper \in [pc : StopperPC, session : 0 .. MaxSessions]
  /\ left \subseteq Session
  /\ closes \in [Session -> Nat]

Made == 1 .. last_session_number

\* The acceptor or Stop has the session and is about to close it.
AboutToClose(n) ==
  \/ acceptor.pc \in {"start", "close", "clear"} /\ acceptor.old = n
  \/ n \in left

\* A session that is live is in the map, or about to be closed: its destructor,
\* which cannot close it any more, never finds it live, and Stop misses none.
NoOrphan == \A n \in Made : is_live[n] => registered[key[n]] = n \/ AboutToClose(n)

\* A session in the map is the last of its address, and is live or about to take
\* itself out: no late destroySession removes a successor, nothing dead stays.
NoZombie ==
  \A k \in Key : LET n == registered[k] IN n # NoSession =>
    /\ n \in Made /\ key[n] = k
    /\ is_live[n] \/ own[n] = "cleared"
    /\ \A m \in Made : key[m] = k => m <= n

\* A live session has a handler to come or is closing itself, so that a loss is
\* noticed; one that is dead has been closed, and twice only if its own TryClose
\* raced with another's.
ClosedIfLost ==
  \A n \in Made :
    /\ is_live[n] => \/ pending[n] # "none" \/ own[n] = "tested"
                     \/ acceptor.pc = "start" /\ acceptor.new = n
    /\ ~is_live[n] => closes[n] > 0 \/ own[n] = "cleared"
    /\ closes[n] > 1 => closes[n] = 2 /\ own[n] = "done"

\* The maps hold exactly the sessions they should, whatever the order of
\* reconnections, failures and Stop.
MapsExact == TypeOK /\ NoOrphan /\ NoZombie /\ ClosedIfLost

\* Stop returns, and then every session is closed and none is in the maps.
StopClosesAll ==
  stopper.pc = "flagged" ~>
    [](/\ stopper.pc = "done"
       /\ \A n \in Session : ~is_live[n]
       /\ \A k \in Key : registered[k] = NoSession)
=============================================================================
