------------------------ MODULE WebsocketServerProofs ------------------------
(***************************************************************************)
(* Proofs for WebsocketServer: the maps are exact for every number of      *)
(* addresses and sessions, and nothing is live once Stop has returned.     *)
(*                                                                         *)
(* The invariant adds to MapsExact where the acceptor and Stop are: each   *)
(* of them closes only sessions that it has taken out of the maps itself,  *)
(* and while Stop holds any the acceptor is at rest.  A session is then    *)
(* closed at most once from outside, and once by itself.                   *)
(***************************************************************************)
EXTENDS WebsocketServer, TLAPS

\* Sessions that are not yet made have done nothing.
Unmade ==
  \A n \in Session \ Made : /\ ~is_live[n] /\ pending[n] = "none"
                            /\ own[n] = "no" /\ closes[n] = 0

\* The acceptor holds a session it has just made and one it took out of its map.
AcceptorHolds ==
  /\ acceptor.pc = "accepted" => last_session_number < MaxSessions
  /\ acceptor.pc = "start" => acceptor.new \in Made
  /\ acceptor.pc \in {"start", "close", "clear"} =>
       acceptor.old = NoSession \/ (acceptor.old \in Made /\ registered[key[acceptor.old]] # acceptor.old)
  /\ acceptor.pc \in {"close", "clear"} => acceptor.old \in Made

\* Stop holds what it took out of the maps, which stay empty.
StopHolds ==
  /\ stopper.pc # "idle" => is_stopped
  /\ stopper.pc \in {"take", "close", "clear", "done"} => AcceptorFree
  /\ stopper.pc \in {"close", "clear", "done"} => \A k \in Key : registered[k] = NoSession
  /\ left # {} => stopper.pc \in {"close", "clear"}
  /\ left \subseteq Made
  /\ stopper.pc = "clear" => stopper.session \in left

OwnCloses(n) == IF own[n] = "done" THEN 1 ELSE 0

\* A session is closed at most once more than it closes itself, and then by
\* somebody who has let go of it.
CloseCount ==
  \A n \in Made :
    /\ own[n] \in {"cleared", "done"} => ~is_live[n]
    /\ closes[n] \in {OwnCloses(n), OwnCloses(n) + 1}
    /\ closes[n] # OwnCloses(n) => registered[key[n]] # n /\ ~AboutToClose(n)

Inv == MapsExact /\ Unmade /\ AcceptorHolds /\ StopHolds /\ CloseCount

\* Stop has returned.
AllClosed ==
  stopper.pc = "done" =>
    (\A n \in Session : ~is_live[n]) /\ (\A k \in Key : registered[k] = NoSession)

-----------------------------------------------------------------------------
(* Types *)

LEMMA AtType ==
  ASSUME NEW pc \in AcceptorPC, NEW new \in 0 .. MaxSessions, NEW old \in 0 .. MaxSessions
  PROVE  At(pc, new, old) \in [pc : AcceptorPC, new : 0 .. MaxSessions, old : 0 .. MaxSessions]
  BY DEF At

LEMMA StopAtType ==
  ASSUME NEW pc \in StopperPC, NEW n \in 0 .. MaxSessions
  PROVE  StopAt(pc, n) \in [pc : StopperPC, session : 0 .. MaxSessions]
  BY DEF StopAt

\* TryClose keeps the types of the flag and of the count of closes.
LEMMA ClosedType ==
  ASSUME TypeOK, NEW n \in Session, Closed(n)
  PROVE  is_live' \in [Session -> BOOLEAN] /\ closes' \in [Session -> Nat]
  BY DEF TypeOK, Closed

LEMMA TypeStep == ASSUME Inv, Next PROVE TypeOK'
<1> USE DEF Inv, MapsExact
<1>0. NoSession \in 0 .. MaxSessions
  BY BoundsAssumption DEF NoSession
<1>1. CASE OnAccept
  BY <1>1, <1>0, AtType DEF OnAccept, sessions, TypeOK, AcceptorPC
<1>2. CASE Register
  <2> DEFINE n == last_session_number + 1
  <2>1. n \in Session /\ n \in 0 .. MaxSessions
    BY <1>2, BoundsAssumption DEF Register, TypeOK, AcceptorHolds, Session
  <2>2. key[n] \in Key /\ Replaced(n) \in 0 .. MaxSessions
    BY <2>1 DEF TypeOK, Replaced
  <2>3. acceptor' \in [pc : AcceptorPC, new : 0 .. MaxSessions, old : 0 .. MaxSessions]
    <3>1. acceptor' = At("start", n, Replaced(n)) /\ "start" \in AcceptorPC
      BY <1>2 DEF Register, AcceptorPC
    <3>. QED
      BY <3>1, <2>1, <2>2, AtType
  <2>4. registered' \in [Key -> 0 .. MaxSessions] /\ is_live' \in [Session -> BOOLEAN]
    BY <1>2, <2>1, <2>2 DEF Register, TypeOK
  <2>. QED
    BY <1>2, <2>1, <2>3, <2>4 DEF Register, TypeOK
<1>3. CASE StartSession
  BY <1>3, <1>0, AtType DEF StartSession, TypeOK, Pending, AcceptorPC
<1>4. CASE CloseReplaced
  BY <1>4, <1>0, AtType DEF CloseReplaced, sessions, TypeOK, AcceptorPC
<1>5. CASE ClearReplaced
  <2>1. acceptor.old \in Session
    BY <1>5 DEF ClearReplaced, AcceptorHolds, Made, TypeOK, Session
  <2>. QED
    BY <1>5, <1>0, <2>1, AtType, ClosedType DEF ClearReplaced, TypeOK, AcceptorPC
<1>6. CASE AcceptConnections
  BY <1>6, <1>0, AtType DEF AcceptConnections, sessions, TypeOK, AcceptorPC
<1>7. ASSUME NEW n \in Session, Handle(n) PROVE TypeOK'
  <2>1. After[pending[n]] \in Pending
    BY <1>7 DEF Handle, After, Pending, TypeOK
  <2>. QED
    BY <1>7, <2>1 DEF Handle, TypeOK, Pending
<1>8. ASSUME NEW n \in Session, Fail(n) PROVE TypeOK'
  BY <1>8 DEF Fail, TypeOK, Pending, Own
<1>9. ASSUME NEW n \in Session, ClearOwn(n) PROVE TypeOK'
  BY <1>9 DEF ClearOwn, TypeOK, Own
<1>10. ASSUME NEW n \in Session, DestroySession(n) PROVE TypeOK'
  <2>1. closes' \in [Session -> Nat] /\ own' \in [Session -> Own]
    BY <1>10 DEF DestroySession, TypeOK, Own
  <2>2. registered' \in [Key -> 0 .. MaxSessions]
    BY <1>10, <1>0 DEF DestroySession, TypeOK
  <2>. QED
    BY <1>10, <2>1, <2>2 DEF DestroySession, TypeOK
<1>11. CASE Stop
  BY <1>11, <1>0, StopAtType DEF Stop, sessions, TypeOK, StopperPC
<1>12. CASE CancelAccept
  BY <1>12, <1>0, StopAtType DEF CancelAccept, sessions, TypeOK, StopperPC
<1>13. CASE TakeSessions
  <2>1. left' \subseteq Session
    BY <1>13 DEF TakeSessions, TypeOK, Session, NoSession
  <2>2. stopper' \in [pc : StopperPC, session : 0 .. MaxSessions]
    BY <1>13, <1>0, StopAtType DEF TakeSessions, StopperPC
  <2>3. registered' \in [Key -> 0 .. MaxSessions]
    BY <1>13, <1>0 DEF TakeSessions
  <2>. QED
    BY <1>13, <2>1, <2>2, <2>3 DEF TakeSessions, sessions, TypeOK
<1>14. ASSUME NEW n \in Session, CloseTaken(n) PROVE TypeOK'
  <2>1. stopper' \in [pc : StopperPC, session : 0 .. MaxSessions]
    BY <1>14, StopAtType DEF CloseTaken, TypeOK, StopperPC, Session
  <2>. QED
    BY <1>14, <2>1 DEF CloseTaken, sessions, TypeOK
<1>15. CASE ClearTaken
  <2>1. stopper.session \in Session
    BY <1>15 DEF ClearTaken, StopHolds, Made, TypeOK, Session
  <2>. QED
    BY <1>15, <1>0, <2>1, StopAtType, ClosedType DEF ClearTaken, TypeOK, StopperPC
<1>16. CASE Stopped
  BY <1>16, <1>0, StopAtType DEF Stopped, sessions, TypeOK, StopperPC
<1>. QED
  BY <1>1, <1>2, <1>3, <1>4, <1>5, <1>6, <1>7, <1>8, <1>9, <1>10, <1>11, <1>12, <1>13, <1>14,
     <1>15, <1>16
     DEF Next, HandleConnection, Stopper, Closing

-----------------------------------------------------------------------------
(* The rest of the invariant, action by action *)

Rest == NoOrphan /\ NoZombie /\ ClosedIfLost /\ Unmade /\ AcceptorHolds /\ StopHolds /\ CloseCount

\* Steps that only move the acceptor or Stop.
LEMMA ControlStep ==
  ASSUME Inv, OnAccept \/ AcceptConnections \/ Stop \/ CancelAccept \/ Stopped
  PROVE  Rest'
<1>1. NoOrphan'
  BY DEF NoOrphan, Inv, MapsExact, OnAccept, AcceptConnections, Stop, CancelAccept, Stopped,
     sessions, AboutToClose, Made
<1>2. NoZombie'
  BY DEF NoZombie, Inv, MapsExact, OnAccept, AcceptConnections, Stop, CancelAccept, Stopped,
     sessions, Made
<1>3. ClosedIfLost'
  BY DEF ClosedIfLost, Inv, MapsExact, OnAccept, AcceptConnections, Stop, CancelAccept, Stopped,
     sessions, Made
<1>4. Unmade'
  BY DEF Unmade, Inv, OnAccept, AcceptConnections, Stop, CancelAccept, Stopped, sessions, Made
<1>5. AcceptorHolds'
  BY DEF AcceptorHolds, Inv, OnAccept, AcceptConnections, Stop, CancelAccept, Stopped, At, Made
<1>6. StopHolds'
  <2>1. CASE OnAccept
    BY <2>1 DEF OnAccept, At, Inv, StopHolds, AcceptorFree, Made
  <2>2. CASE AcceptConnections
    BY <2>2 DEF AcceptConnections, Inv, StopHolds, AcceptorFree
  <2>3. CASE Stop
    BY <2>3 DEF Stop, StopAt, Inv, StopHolds
  <2>4. CASE CancelAccept
    BY <2>4 DEF CancelAccept, StopAt, Inv, StopHolds, AcceptorFree
  <2>5. CASE Stopped
    BY <2>5 DEF Stopped, StopAt, Inv, StopHolds, AcceptorFree
  <2>. QED
    BY <2>1, <2>2, <2>3, <2>4, <2>5
<1>7. CloseCount'
  BY DEF CloseCount, Inv, OnAccept, AcceptConnections, Stop, CancelAccept, Stopped, sessions,
     At, AboutToClose, Made, OwnCloses
<1>. QED
  BY <1>1, <1>2, <1>3, <1>4, <1>5, <1>6, <1>7 DEF Rest

\* The new session is live and the last of its address; the one it replaces, if any, is
\* in the acceptor's hands.
LEMMA RegisterStep ==
  ASSUME Inv, Register, TypeOK'
  PROVE  Rest'
<1> USE DEF Inv, MapsExact
<1>1. NoOrphan'
  <2> SUFFICES ASSUME NEW m \in Made', is_live'[m]
               PROVE  (registered[key[m]] = m \/ AboutToClose(m))'
    BY DEF NoOrphan
  <2>1. CASE m = last_session_number + 1
    BY <2>1 DEF TypeOK, Register
  <2>2. CASE m \in Made
    <3>1. is_live[m] /\ (registered[key[m]] = m \/ m \in left)
      BY <2>2 DEF NoOrphan, AboutToClose, TypeOK, Made, Register
    <3>. QED
      BY <2>2, <3>1 DEF AboutToClose, Register, At, Replaced
  <2>. QED
    BY <2>1, <2>2 DEF TypeOK, Made, Register
<1>2. NoZombie'
  BY DEF NoZombie, TypeOK, Made, Register
<1>3. ClosedIfLost'
  BY DEF ClosedIfLost, Unmade, TypeOK, Made, Register, At
<1>4. Unmade'
  BY DEF Unmade, TypeOK, Made, Register
<1>5. AcceptorHolds'
  BY DEF AcceptorHolds, NoZombie, TypeOK, Made, Register, At, Replaced
<1>6. StopHolds'
  BY DEF StopHolds, AcceptorFree, Register
<1>7. CloseCount'
  <2> SUFFICES ASSUME NEW m \in Made'
               PROVE  /\ own[m] \in {"cleared", "done"} => ~is_live'[m]
                      /\ closes[m] \in {OwnCloses(m), OwnCloses(m) + 1}
                      /\ closes[m] # OwnCloses(m) => registered'[key[m]] # m /\ ~AboutToClose(m)'
    BY DEF CloseCount, OwnCloses, Register
  <2>1. CASE m = last_session_number + 1
    BY <2>1 DEF OwnCloses, Unmade, TypeOK, Made, Session, Register
  <2>2. CASE m \in Made
    <3>1. closes[m] # OwnCloses(m) => registered'[key[m]] # m
      BY <2>2 DEF CloseCount, TypeOK, Made, Session, Register
    <3>2. closes[m] # OwnCloses(m) => ~AboutToClose(m)'
      BY <2>2 DEF CloseCount, AboutToClose, NoZombie, TypeOK, Made, Session, NoSession, Register,
         At, Replaced
    <3>. QED
      BY <2>2, <3>1, <3>2 DEF CloseCount, OwnCloses, TypeOK, Made, Session, Register
  <2>. QED
    BY <2>1, <2>2 DEF TypeOK, Made, Register
<1>. QED
  BY <1>1, <1>2, <1>3, <1>4, <1>5, <1>6, <1>7 DEF Rest

\* The new session gets a handler.
LEMMA StartSessionStep ==
  ASSUME Inv, StartSession
  PROVE  Rest'
<1> USE DEF Inv, MapsExact
<1>1. NoOrphan'
  BY DEF NoOrphan, AboutToClose, Made, NoSession, StartSession, At
<1>2. NoZombie'
  BY DEF NoZombie, Made, StartSession
<1>3. ClosedIfLost'
  BY DEF ClosedIfLost, TypeOK, Made, Session, StartSession
<1>4. Unmade'
  BY DEF Unmade, Made, StartSession
<1>5. AcceptorHolds'
  BY DEF AcceptorHolds, Made, StartSession, At
<1>6. StopHolds'
  BY DEF StopHolds, AcceptorFree, StartSession
<1>7. CloseCount'
  BY DEF CloseCount, OwnCloses, AboutToClose, Made, StartSession, At
<1>. QED
  BY <1>1, <1>2, <1>3, <1>4, <1>5, <1>6, <1>7 DEF Rest

\* A replaced session that is dead needs no closing.
LEMMA CloseReplacedStep ==
  ASSUME Inv, CloseReplaced
  PROVE  Rest'
<1> USE DEF Inv, MapsExact
<1>1. NoOrphan'
  BY DEF NoOrphan, AboutToClose, Made, CloseReplaced, At, sessions
<1>2. NoZombie'
  BY DEF NoZombie, Made, CloseReplaced, sessions
<1>3. ClosedIfLost'
  BY DEF ClosedIfLost, Made, CloseReplaced, sessions
<1>4. Unmade'
  BY DEF Unmade, Made, CloseReplaced, sessions
<1>5. AcceptorHolds'
  BY DEF AcceptorHolds, Made, CloseReplaced, At
<1>6. StopHolds'
  BY DEF StopHolds, AcceptorFree, CloseReplaced
<1>7. CloseCount'
  BY DEF CloseCount, OwnCloses, AboutToClose, Made, CloseReplaced, At, sessions
<1>. QED
  BY <1>1, <1>2, <1>3, <1>4, <1>5, <1>6, <1>7 DEF Rest

\* The replaced session is closed by the acceptor, which lets go of it.
LEMMA ClearReplacedStep ==
  ASSUME Inv, ClearReplaced
  PROVE  Rest'
<1> USE DEF Inv, MapsExact
<1>1. NoOrphan'
  BY DEF NoOrphan, AboutToClose, TypeOK, Made, Session, ClearReplaced, Closed
<1>2. NoZombie'
  BY DEF NoZombie, AcceptorHolds, Made, ClearReplaced, Closed
<1>3. ClosedIfLost'
  BY DEF ClosedIfLost, CloseCount, OwnCloses, AboutToClose, TypeOK, Made, ClearReplaced, Closed
<1>4. Unmade'
  BY DEF Unmade, AcceptorHolds, Made, ClearReplaced, Closed
<1>5. AcceptorHolds'
  BY DEF AcceptorHolds, ClearReplaced, At
<1>6. StopHolds'
  BY DEF StopHolds, AcceptorFree, ClearReplaced
<1>7. CloseCount'
  BY DEF CloseCount, OwnCloses, AboutToClose, StopHolds, AcceptorHolds, AcceptorFree, Made,
     NoSession, ClearReplaced, At, Closed
<1>. QED
  BY <1>1, <1>2, <1>3, <1>4, <1>5, <1>6, <1>7 DEF Rest

\* A handler of a live session is followed by another.
LEMMA HandleStep ==
  ASSUME Inv, NEW n \in Session, Handle(n)
  PROVE  Rest'
<1> USE DEF Inv, MapsExact
<1>1. NoOrphan'
  BY DEF NoOrphan, AboutToClose, Made, Handle
<1>2. NoZombie'
  BY DEF NoZombie, Made, Handle
<1>3. ClosedIfLost'
  BY DEF ClosedIfLost, AcceptorHolds, TypeOK, Made, Handle, After, Pending
<1>4. Unmade'
  BY DEF Unmade, Made, Handle
<1>5. AcceptorHolds'
  BY DEF AcceptorHolds, Made, Handle
<1>6. StopHolds'
  BY DEF StopHolds, AcceptorFree, Made, Handle
<1>7. CloseCount'
  BY DEF CloseCount, OwnCloses, AboutToClose, Made, Handle
<1>. QED
  BY <1>1, <1>2, <1>3, <1>4, <1>5, <1>6, <1>7 DEF Rest

\* A session begins to close itself.
LEMMA FailStep ==
  ASSUME Inv, NEW n \in Session, Fail(n)
  PROVE  Rest'
<1> USE DEF Inv, MapsExact
<1>1. NoOrphan'
  BY DEF NoOrphan, AboutToClose, Made, Fail
<1>2. NoZombie'
  BY DEF NoZombie, Made, Fail
<1>3. ClosedIfLost'
  BY DEF ClosedIfLost, CloseCount, TypeOK, Made, Fail
<1>4. Unmade'
  BY DEF Unmade, Made, Fail
<1>5. AcceptorHolds'
  BY DEF AcceptorHolds, Made, Fail
<1>6. StopHolds'
  BY DEF StopHolds, AcceptorFree, Made, Fail
<1>7. CloseCount'
  BY DEF CloseCount, OwnCloses, AboutToClose, Made, Fail
<1>. QED
  BY <1>1, <1>2, <1>3, <1>4, <1>5, <1>6, <1>7 DEF Rest

\* It is dead, and may be in the map until its next step.
LEMMA ClearOwnStep ==
  ASSUME Inv, NEW n \in Session, ClearOwn(n)
  PROVE  Rest'
<1> USE DEF Inv, MapsExact
<1>1. NoOrphan'
  BY DEF NoOrphan, AboutToClose, Made, ClearOwn
<1>2. NoZombie'
  BY DEF NoZombie, TypeOK, Made, ClearOwn
<1>3. ClosedIfLost'
  BY DEF ClosedIfLost, TypeOK, Made, ClearOwn
<1>4. Unmade'
  BY DEF Unmade, Made, ClearOwn
<1>5. AcceptorHolds'
  BY DEF AcceptorHolds, Made, ClearOwn
<1>6. StopHolds'
  BY DEF StopHolds, AcceptorFree, Made, ClearOwn
<1>7. CloseCount'
  BY DEF CloseCount, OwnCloses, AboutToClose, TypeOK, Made, ClearOwn
<1>. QED
  BY <1>1, <1>2, <1>3, <1>4, <1>5, <1>6, <1>7 DEF Rest

\* It leaves the map, unless it was replaced there.
LEMMA DestroySessionStep ==
  ASSUME Inv, NEW n \in Session, DestroySession(n)
  PROVE  Rest'
<1> USE DEF Inv, MapsExact
<1>1. NoOrphan'
  BY DEF NoOrphan, CloseCount, AboutToClose, Made, DestroySession, SameSession
<1>2. NoZombie'
  BY DEF NoZombie, TypeOK, Made, DestroySession, SameSession
<1>3. ClosedIfLost'
  BY DEF ClosedIfLost, NoOrphan, TypeOK, Made, DestroySession
<1>4. Unmade'
  BY DEF Unmade, Made, DestroySession
<1>5. AcceptorHolds'
  BY DEF AcceptorHolds, Made, DestroySession
<1>6. StopHolds'
  BY DEF StopHolds, AcceptorFree, Made, DestroySession
<1>7. CloseCount'
  BY DEF CloseCount, OwnCloses, AboutToClose, TypeOK, Made, NoSession, DestroySession
<1>. QED
  BY <1>1, <1>2, <1>3, <1>4, <1>5, <1>6, <1>7 DEF Rest

\* Every live session is in the maps, and so in what Stop takes.
LEMMA TakeSessionsStep ==
  ASSUME Inv, TakeSessions
  PROVE  Rest'
<1> USE DEF Inv, MapsExact
<1>1. NoOrphan'
  <2> SUFFICES ASSUME NEW n \in Made, is_live[n] PROVE n \in left'
    BY DEF NoOrphan, AboutToClose, Made, TakeSessions, sessions
  <2>1. registered[key[n]] = n
    BY DEF NoOrphan, AboutToClose, StopHolds, AcceptorFree, TypeOK, Made, Session, NoSession,
       TakeSessions, StopAt, sessions
  <2>2. key[n] \in Key /\ n # NoSession
    BY BoundsAssumption DEF TypeOK, Made, Session, NoSession
  <2>3. n \in {registered[k] : k \in Key}
    BY <2>1, <2>2 DEF sessions
  <2>. QED
    BY <2>2, <2>3 DEF TakeSessions
<1>2. NoZombie'
  BY DEF NoZombie, TakeSessions
<1>3. ClosedIfLost'
  BY DEF ClosedIfLost, Made, TakeSessions, sessions
<1>4. Unmade'
  BY DEF Unmade, Made, TakeSessions, sessions
<1>5. AcceptorHolds'
  BY DEF AcceptorHolds, TypeOK, Made, Session, TakeSessions
<1>6. StopHolds'
  BY DEF StopHolds, AcceptorFree, NoZombie, Made, TakeSessions, StopAt
<1>7. CloseCount'
  <2> SUFFICES ASSUME NEW n \in Made
               PROVE  /\ own[n] \in {"cleared", "done"} => ~is_live[n]
                      /\ closes[n] \in {OwnCloses(n), OwnCloses(n) + 1}
                      /\ closes[n] # OwnCloses(n) => registered'[key[n]] # n /\ ~AboutToClose(n)'
    BY DEF CloseCount, OwnCloses, TypeOK, Made, Session, NoSession, TakeSessions, StopAt, sessions
  <2>1. n \in left' => registered[key[n]] = n
    BY DEF NoZombie, TakeSessions
  <2>2. AboutToClose(n)' => n \in left'
    BY DEF AboutToClose, StopHolds, AcceptorFree, TakeSessions
  <2>3. registered'[key[n]] # n
    BY BoundsAssumption DEF TypeOK, Made, Session, NoSession, TakeSessions
  <2>. QED
    BY <2>1, <2>2, <2>3 DEF CloseCount
<1>. QED
  BY <1>1, <1>2, <1>3, <1>4, <1>5, <1>6, <1>7 DEF Rest

\* Stop passes over a session that is dead.
LEMMA CloseTakenStep ==
  ASSUME Inv, NEW n \in Session, CloseTaken(n)
  PROVE  Rest'
<1> USE DEF Inv, MapsExact
<1>1. NoOrphan'
  BY DEF NoOrphan, AboutToClose, Made, CloseTaken, sessions
<1>2. NoZombie'
  BY DEF NoZombie, Made, CloseTaken, sessions
<1>3. ClosedIfLost'
  BY DEF ClosedIfLost, Made, CloseTaken, sessions
<1>4. Unmade'
  BY DEF Unmade, Made, CloseTaken, sessions
<1>5. AcceptorHolds'
  BY DEF AcceptorHolds, Made, CloseTaken
<1>6. StopHolds'
  BY DEF StopHolds, AcceptorFree, Made, CloseTaken, StopAt
<1>7. CloseCount'
  BY DEF CloseCount, OwnCloses, AboutToClose, Made, CloseTaken, sessions
<1>. QED
  BY <1>1, <1>2, <1>3, <1>4, <1>5, <1>6, <1>7 DEF Rest

\* Stop closes a session that it took.
LEMMA ClearTakenStep ==
  ASSUME Inv, ClearTaken
  PROVE  Rest'
<1> USE DEF Inv, MapsExact
<1>1. NoOrphan'
  BY DEF NoOrphan, AboutToClose, TypeOK, Made, ClearTaken, Closed
<1>2. NoZombie'
  BY DEF NoZombie, StopHolds, ClearTaken
<1>3. ClosedIfLost'
  BY DEF ClosedIfLost, CloseCount, OwnCloses, AboutToClose, StopHolds, TypeOK, Made, ClearTaken,
     Closed
<1>4. Unmade'
  BY DEF Unmade, StopHolds, Made, Session, ClearTaken, Closed
<1>5. AcceptorHolds'
  BY DEF AcceptorHolds, Made, ClearTaken
<1>6. StopHolds'
  BY DEF StopHolds, AcceptorFree, AcceptorHolds, NoZombie, TypeOK, Made, Session, NoSession,
     ClearTaken, StopAt, Closed
<1>7. CloseCount'
  BY DEF CloseCount, OwnCloses, AboutToClose, StopHolds, AcceptorFree, TypeOK, Made, NoSession,
     ClearTaken, Closed
<1>. QED
  BY <1>1, <1>2, <1>3, <1>4, <1>5, <1>6, <1>7 DEF Rest

-----------------------------------------------------------------------------

LEMMA InitInv == Init => Inv
<1> SUFFICES ASSUME Init PROVE Inv
  OBVIOUS
<1>0. NoSession \in 0 .. MaxSessions
  BY BoundsAssumption DEF NoSession
<1>1. TypeOK
  <2>1. acceptor \in [pc : AcceptorPC, new : 0 .. MaxSessions, old : 0 .. MaxSessions]
    BY <1>0, AtType DEF Init, AcceptorPC
  <2>2. stopper \in [pc : StopperPC, session : 0 .. MaxSessions]
    BY <1>0, StopAtType DEF Init, StopperPC
  <2>. QED
    BY <1>0, <2>1, <2>2 DEF Init, TypeOK, Pending, Own, NoSession
<1>2. Made = {}
  BY DEF Init, Made
<1>3. NoOrphan /\ NoZombie /\ ClosedIfLost /\ CloseCount
  BY <1>2 DEF Init, NoOrphan, NoZombie, ClosedIfLost, CloseCount
<1>4. Unmade
  BY DEF Init, Unmade
<1>5. AcceptorHolds /\ StopHolds
  BY DEF Init, At, StopAt, AcceptorHolds, StopHolds
<1>. QED
  BY <1>1, <1>3, <1>4, <1>5 DEF Inv, MapsExact

LEMMA NextInv == Inv /\ [Next]_vars => Inv'
<1> SUFFICES ASSUME Inv, [Next]_vars PROVE Inv'
  OBVIOUS
<1>1. CASE UNCHANGED vars
  BY <1>1 DEF vars, Inv, MapsExact, TypeOK, NoOrphan, NoZombie, ClosedIfLost, Unmade,
     AcceptorHolds,
     StopHolds, CloseCount, OwnCloses, AboutToClose, AcceptorFree, Made
<1>2. CASE Next
  <2>1. TypeOK'
    BY <1>2, TypeStep
  <2>2. Rest'
    BY <1>2, <2>1, ControlStep, RegisterStep, StartSessionStep, CloseReplacedStep,
       ClearReplacedStep,
       HandleStep, FailStep, ClearOwnStep, DestroySessionStep, TakeSessionsStep, CloseTakenStep,
       ClearTakenStep DEF Next, HandleConnection, Stopper, Closing
  <2>. QED
    BY <2>1, <2>2 DEF Inv, MapsExact, Rest
<1>. QED
  BY <1>1, <1>2

LEMMA InvHolds == Spec => []Inv
  BY InitInv, NextInv, PTL DEF Spec

-----------------------------------------------------------------------------

\* handleConnection, destroySession, TryClose and Stop keep the maps exact: a live
\* session is in its map or about to be closed, a session in a map is the last of
\* its address and not dead, and a dead one has been closed.
THEOREM SessionMapsExact == Spec => []MapsExact
  BY InvHolds, PTL DEF Inv

\* When Stop has returned no session is live and none is in a map, also one whose
\* connection was being accepted when Stop was called.
THEOREM StopLeavesNone == Spec => []AllClosed
<1>1. Inv => AllClosed
  <2> SUFFICES ASSUME Inv, stopper.pc = "done"
               PROVE  (\A n \in Session : ~is_live[n]) /\ (\A k \in Key : registered[k] = NoSession)
    BY DEF AllClosed
  <2>1. \A k \in Key : registered[k] = NoSession
    BY DEF Inv, StopHolds
  <2>2. \A n \in Made : ~AboutToClose(n)
    BY DEF Inv, StopHolds, AcceptorFree, AboutToClose
  <2>3. \A n \in Made : registered[key[n]] # n
    BY <2>1, BoundsAssumption DEF Inv, MapsExact, TypeOK, Made, Session, NoSession
  <2>4. \A n \in Session : ~is_live[n]
    BY <2>2, <2>3 DEF Inv, MapsExact, NoOrphan, Unmade
  <2>. QED
    BY <2>1, <2>4
<1>. QED
  BY <1>1, InvHolds, PTL
=============================================================================
