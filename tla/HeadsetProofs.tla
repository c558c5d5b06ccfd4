---------------------------- MODULE HeadsetProofs ----------------------------
(***************************************************************************)
(* Proofs for HeadsetStreamer and for its Button.                          *)
(*                                                                         *)
(* The headset is well typed, it is never left in CONNECTING with both     *)
(* connections up, and only a button callback that acts on a state it read *)
(* earlier can break what the other two say.  Two facts carry it: the      *)
(* state is CONNECTING only while a flag is down, and a client's report    *)
(* never leads out of CLOSING.                                             *)
(*                                                                         *)
(* The button reports pushes and holds when it should, for any timeouts    *)
(* and polling intervals.                                                  *)
(***************************************************************************)
EXTENDS HeadsetStreamer, Button, TLAPS

-----------------------------------------------------------------------------
(* The headset *)

Inv == TypeOK /\ NeverStuckConnecting

\* What a report of client c, connected (b) or not, does to the state under the
\* lock: the common part of Connect, Disconnect, ReadTimeout and StopHandler.
LEMMA PostConnectionInv ==
  ASSUME Inv, NEW c \in Client, NEW b \in BOOLEAN, PostConnection(c, b), pending[c] = "none"
  PROVE  /\ state' \in HeadsetStates
         /\ connected' \in [Client -> BOOLEAN]
         /\ pending' \in [Client -> {"none", "CONNECTING", "READY", "RESTART"}]
         /\ NeverStuckConnecting'
         /\ state = "CLOSING" => state' = "CLOSING"
         /\ state = "CONNECTING" /\ state' # "CONNECTING"
              => state' = "READY" /\ \A d \in Client : connected'[d]
<1>1. NextState(c, b) \in HeadsetStates
  BY DEF Inv, TypeOK, NextState, HeadsetStates, Client, Other
<1>2. state' \in HeadsetStates
  BY <1>1 DEF PostConnection
<1>3. connected' \in [Client -> BOOLEAN]
  BY DEF PostConnection, Inv, TypeOK, Client
<1>4. pending' \in [Client -> {"none", "CONNECTING", "READY", "RESTART"}]
  <2>1. NextState(c, b) # state => NextState(c, b) \in {"CONNECTING", "READY"}
    BY DEF NextState, Inv, TypeOK, HeadsetStates
  <2>. QED
    BY <2>1 DEF PostConnection, Inv, TypeOK, Client
<1>5. NeverStuckConnecting'
  BY DEF NeverStuckConnecting, PostConnection, NextState, Inv, TypeOK, HeadsetStates, Client, Other
<1>6. state = "CLOSING" => state' = "CLOSING"
  BY DEF PostConnection, NextState
<1>7. state = "CONNECTING" /\ state' # "CONNECTING"
        => state' = "READY" /\ \A d \in Client : connected'[d]
  BY DEF PostConnection, NextState, Inv, TypeOK, HeadsetStates, Client, Other
<1>. QED
  BY <1>2, <1>3, <1>4, <1>5, <1>6, <1>7

LEMMA InitInv == Init => Inv
<1> SUFFICES ASSUME Init PROVE Inv
  OBVIOUS
<1>1. gpio \in [pc : GpioPC, read : HeadsetStates, action : PolledAction]
  BY DEF Init, GpioIdle, GpioPC, HeadsetStates, PolledAction
<1>2. TypeOK
  BY <1>1 DEF Init, TypeOK, HeadsetStates, MainPC
<1>3. NeverStuckConnecting
  BY DEF Init, NeverStuckConnecting, Client
<1>. QED
  BY <1>2, <1>3 DEF Inv

\* A callback returning on a strand, in the step that ends a state change.
LEMMA ReturnType ==
  ASSUME TypeOK, NEW c \in Client, Return(c)
  PROVE  /\ pending' \in [Client -> {"none", "CONNECTING", "READY", "RESTART"}]
         /\ main' \in MainPC
  BY DEF TypeOK, Return, DonePC, MainPC, Client

\* The state of the headset is not touched by what follows a report.
LEMMA HandlingInv ==
  ASSUME Inv, NEW c \in Client, HandleStateChange(c) \/ HandleStateChangeConnecting(c)
  PROVE  Inv' /\ state' = state
<1>1. CASE HandleStateChange(c)
  <2>1. graphics_state' \in HeadsetStates
    BY <1>1 DEF HandleStateChange
  <2>2. /\ pending' \in [Client -> {"none", "CONNECTING", "READY", "RESTART"}]
        /\ main' \in MainPC
    BY <1>1, ReturnType DEF HandleStateChange, Inv, TypeOK, Client
  <2>. QED
    BY <1>1, <2>1, <2>2 DEF HandleStateChange, Inv, TypeOK, NeverStuckConnecting
<1>2. CASE HandleStateChangeConnecting(c)
  BY <1>2, ReturnType DEF HandleStateChangeConnecting, Inv, TypeOK, NeverStuckConnecting, Client
<1>. QED
  BY <1>1, <1>2

\* A client connects, loses its connection, times out or is stopped.
LEMMA ReportInv ==
  ASSUME Inv, NEW c \in Client, Connect(c) \/ Disconnect(c) \/ ReadTimeout \/ StopHandler(c)
  PROVE  Inv'
<1>1. CASE Connect(c)
  BY <1>1, PostConnectionInv DEF Connect, StrandFree, Inv, TypeOK, Client
<1>2. CASE Disconnect(c)
  BY <1>2, PostConnectionInv DEF Disconnect, StrandFree, Inv, TypeOK, Client
<1>3. CASE ReadTimeout
  BY <1>3, PostConnectionInv DEF ReadTimeout, StrandFree, Inv, TypeOK, Client
<1>4. CASE StopHandler(c)
  <2>1. main' \in MainPC
    <3>1. CallbackPC[c] \in MainPC /\ DonePC[c] \in MainPC
      BY DEF CallbackPC, DonePC, MainPC, Client
    <3>. QED
      BY <1>4, <3>1 DEF StopHandler
  <2>2. up' \in [Client -> BOOLEAN]
    BY <1>4 DEF StopHandler, Inv, TypeOK
  <2>. QED
    BY <1>4, <2>1, <2>2, PostConnectionInv DEF StopHandler, StrandFree, Inv, TypeOK
<1>. QED
  BY <1>1, <1>2, <1>3, <1>4

\* The gpio thread and the main thread.
LEMMA ThreadInv ==
  ASSUME Inv, (\E a \in PolledAction : Poll(a)) \/ GpioStep \/ BeginStop \/ StopHandlerThrows \/ MainStep
  PROVE  Inv'
<1>1. ASSUME NEW a \in PolledAction, Poll(a) PROVE Inv'
  BY <1>1 DEF Poll, Inv, TypeOK, NeverStuckConnecting, GpioPC, HeadsetStates
<1>2. CASE ReadState
  BY <1>2 DEF ReadState, Inv, TypeOK, NeverStuckConnecting, GpioPC, GpioIdle, HeadsetStates, PolledAction
<1>3. CASE PostState
  BY <1>3 DEF PostState, Inv, TypeOK, NeverStuckConnecting, GpioPC, HeadsetStates
<1>4. CASE ShowState
  BY <1>4 DEF ShowState, Request, Inv, TypeOK, NeverStuckConnecting, GpioPC, GpioIdle, HeadsetStates, PolledAction
<1>5. CASE RotateCamera
  BY <1>5 DEF RotateCamera, Request, Inv, TypeOK, NeverStuckConnecting, GpioPC, GpioIdle, HeadsetStates, PolledAction
<1>6. CASE BeginStop
  BY <1>6 DEF BeginStop, Inv, TypeOK, NeverStuckConnecting, HeadsetStates, MainPC
<1>7. CASE MainStep
  BY <1>7 DEF MainStep, StopGpio, StopWebsocketClient, StopTcpClient, StopClient, StopContext, JoinPool,
     Inv, TypeOK, NeverStuckConnecting, MainPC, Client
<1>8. CASE StopHandlerThrows
  BY <1>8 DEF StopHandlerThrows, Inv, TypeOK, NeverStuckConnecting, MainPC
<1>. QED
  BY <1>1, <1>2, <1>3, <1>4, <1>5, <1>6, <1>7, <1>8 DEF GpioStep

LEMMA NextInv == Inv /\ [Next]_vars => Inv'
<1> SUFFICES ASSUME Inv, [Next]_vars PROVE Inv'
  OBVIOUS
<1>1. CASE UNCHANGED vars
  BY <1>1 DEF vars, Inv, TypeOK, NeverStuckConnecting
<1>2. CASE Next
  <2>1. ASSUME NEW c \in Client, Connect(c) \/ Disconnect(c) \/ StrandStep(c) PROVE Inv'
    BY <2>1, ReportInv, HandlingInv DEF StrandStep
  <2>2. CASE ReadTimeout
    BY <2>2, ReportInv DEF Client
  <2>3. CASE Terminated
    BY <2>3, <1>1 DEF Terminated
  <2>. QED
    BY <1>2, <2>1, <2>2, <2>3, ThreadInv DEF Next
<1>. QED
  BY <1>1, <1>2

LEMMA InvHolds == Spec => []Inv
  BY InitInv, NextInv, PTL DEF Spec

-----------------------------------------------------------------------------

\* The states, flags, program counters and pending callbacks keep their types;
\* in particular a report never asks a strand to handle RUNNING or CLOSING.
THEOREM TypeCorrect == Spec => []TypeOK
  BY InvHolds, PTL DEF Inv

\* HeadsetState never waits for a connection while both are up.
THEOREM ConnectedIsNoticed == Spec => []NeverStuckConnecting
  BY InvHolds, PTL DEF Inv

\* Reports of the clients leave CONNECTING only for READY and only with both
\* flags up; whoever else leaves it is the button callback, on a stale read.
THEOREM ReadinessEarned == Spec => ReadyOnlyWhenConnected
<1>1. Inv /\ [Next]_vars
        => [state = "CONNECTING" /\ state' \in {"READY", "RUNNING"}
              => (\A c \in Client : connected'[c]) \/ gpio.pc = "read"]_vars
  <2> SUFFICES ASSUME Inv, Next, state = "CONNECTING", state' \in {"READY", "RUNNING"}
               PROVE  (\A c \in Client : connected'[c]) \/ gpio.pc = "read"
    BY DEF vars
  <2>1. ASSUME NEW c \in Client, Connect(c) \/ Disconnect(c) \/ ReadTimeout \/ StopHandler(c)
        PROVE  \A d \in Client : connected'[d]
    <3>1. \E d \in Client, b \in BOOLEAN : PostConnection(d, b) /\ pending[d] = "none"
      BY <2>1 DEF Connect, Disconnect, ReadTimeout, StopHandler, StrandFree, Client
    <3>. QED
      BY <3>1, PostConnectionInv
  <2>2. ASSUME NEW c \in Client, HandleStateChange(c) \/ HandleStateChangeConnecting(c)
        PROVE  FALSE
    BY <2>2, HandlingInv
  <2>3. ASSUME NEW a \in PolledAction, Poll(a) PROVE FALSE
    BY <2>3 DEF Poll
  <2>4. CASE GpioStep
    BY <2>4 DEF GpioStep, ReadState, PostState, ShowState, RotateCamera
  <2>5. CASE BeginStop \/ StopHandlerThrows \/ MainStep \/ Terminated
    BY <2>5 DEF BeginStop, StopHandlerThrows, MainStep, StopGpio, StopWebsocketClient, StopTcpClient, StopClient,
       StopContext, JoinPool, Terminated, vars
  <2>6. CASE ReadTimeout
    BY <2>6, <2>1 DEF Client
  <2>. QED
    BY <2>1, <2>2, <2>3, <2>4, <2>5, <2>6 DEF Next, StrandStep
<1>. QED
  BY <1>1, InvHolds, PTL DEF Spec, ReadyOnlyWhenConnected

\* No report of a client, however late, takes a headset out of CLOSING.
THEOREM ReportsRespectClosing == Spec => ClosingLeftOnlyByButton
<1>1. Inv /\ [Next]_vars => [state = "CLOSING" /\ state' # "CLOSING" => gpio.pc = "read"]_vars
  <2> SUFFICES ASSUME Inv, Next, state = "CLOSING", state' # "CLOSING"
               PROVE  gpio.pc = "read"
    BY DEF vars
  <2>1. ASSUME NEW c \in Client, Connect(c) \/ Disconnect(c) \/ ReadTimeout \/ StopHandler(c)
        PROVE  FALSE
    <3>1. \E d \in Client, b \in BOOLEAN : PostConnection(d, b) /\ pending[d] = "none"
      BY <2>1 DEF Connect, Disconnect, ReadTimeout, StopHandler, StrandFree, Client
    <3>. QED
      BY <3>1, PostConnectionInv
  <2>2. ASSUME NEW c \in Client, HandleStateChange(c) \/ HandleStateChangeConnecting(c)
        PROVE  FALSE
    BY <2>2, HandlingInv
  <2>3. ASSUME NEW a \in PolledAction, Poll(a) PROVE FALSE
    BY <2>3 DEF Poll
  <2>4. CASE GpioStep
    BY <2>4 DEF GpioStep, ReadState, PostState, ShowState, RotateCamera
  <2>5. CASE BeginStop \/ StopHandlerThrows \/ MainStep \/ Terminated
    BY <2>5 DEF BeginStop, StopHandlerThrows, MainStep, StopGpio, StopWebsocketClient, StopTcpClient, StopClient,
       StopContext, JoinPool, Terminated, vars
  <2>6. CASE ReadTimeout
    BY <2>6, <2>1 DEF Client
  <2>. QED
    BY <2>1, <2>2, <2>3, <2>4, <2>5, <2>6 DEF Next, StrandStep
<1>. QED
  BY <1>1, InvHolds, PTL DEF Spec, ClosingLeftOnlyByButton

-----------------------------------------------------------------------------
(* The button *)

\* None of the properties is inductive: what has to be known is how the history
\* relates to the time spent in each state.  One conjunct for each state.
ByState ==
  /\ button_state = "OPEN" =>
       last_sample = "released" /\ pressed_for = 0 /\ releases = 1 /\ since_push > Debounce
  /\ button_state = "DEBOUNCED" =>
       /\ elapsed <= Debounce /\ since_push = elapsed
       /\ pressed_for <= elapsed /\ holds = 0
  /\ button_state = "PRESSED" =>
       /\ last_sample = "pressed" /\ elapsed <= Hold /\ since_push > Debounce
       /\ elapsed <= pressed_for
       /\ pressed_for <= Debounce + MaxStep + elapsed
       /\ holds = 0
  /\ button_state = "HELD" => since_push > Debounce

ButtonInv == ButtonTypeOK /\ ByState /\ PushesApart /\ HoldMeansHeld

LEMMA AfterTime ==
  ASSUME NEW t \in Time, NEW dt \in MinStep .. MaxStep
  PROVE  /\ After(t, dt) \in Time /\ t <= After(t, dt) /\ After(t, dt) <= t + MaxStep
         /\ After(t, dt) < Horizon => After(t, dt) = t + dt
         /\ \A u \in Time : t <= u => After(t, dt) <= After(u, dt)
  BY TimeAssumption DEF After, Time

LEMMA ButtonInitInv == ButtonInit => ButtonInv
  BY TimeAssumption DEF ButtonInit, ButtonInv, ButtonTypeOK, ByState, PushesApart, HoldMeansHeld, Time, Sample,
     ButtonState, ButtonAction

\* What a poll does, state by state.
LEMMA PollInv ==
  ASSUME ButtonInv, NEW sample \in Sample, NEW dt \in MinStep .. MaxStep, PollButton(sample, dt)
  PROVE  /\ ButtonInv'
         /\ action' = "SINGLE_PUSH" => releases = 1
         /\ action' = "SINGLE_HOLD" => holds = 0
<1> DEFINE now == After(elapsed, dt)
           gap == After(since_push, dt)
           span == After(pressed_for, dt)
<1>1. /\ now \in Time /\ elapsed <= now /\ now <= elapsed + MaxStep
      /\ now < Horizon => now = elapsed + dt
      /\ gap \in Time /\ since_push <= gap
      /\ span \in Time /\ span <= pressed_for + MaxStep
      /\ pressed_for <= elapsed => span <= now
      /\ elapsed <= pressed_for => now <= span
      /\ span <= pressed_for + dt
      /\ since_push = elapsed => gap = now
  BY AfterTime, TimeAssumption DEF ButtonInv, ButtonTypeOK, After, Time
<1>2. /\ button_state' = NextButtonState(now, sample)
      /\ elapsed' = IF button_state' = button_state THEN now ELSE 0
      /\ action' = ReturnedAction(button_state')
      /\ since_push' = IF action' = "SINGLE_PUSH" THEN 0 ELSE gap
      /\ push_gap' = IF action' = "SINGLE_PUSH" THEN gap ELSE push_gap
      /\ last_sample' = sample
      /\ pressed_for' = IF sample = "pressed" /\ last_sample = "pressed" THEN span ELSE 0
      /\ hold_span' = CASE action' # "SINGLE_HOLD" -> hold_span
                        [] action' = "SINGLE_HOLD" /\ last_sample = "pressed" -> span
                        [] OTHER -> 0
      /\ releases' = CASE action' = "SINGLE_PUSH" -> 0
                       [] action' # "SINGLE_PUSH" /\ sample = "released" -> 1
                       [] OTHER -> releases
      /\ holds' = CASE action' = "SINGLE_PUSH" -> 0
                    [] action' = "SINGLE_HOLD" -> holds + 1
                    [] OTHER -> holds
  BY Zenon DEF PollButton, UpdateButtonState, Observe
<1> HIDE DEF now, gap, span
<1> USE TimeAssumption DEF ButtonInv, ButtonTypeOK, ByState, PushesApart, HoldMeansHeld, Time, Sample,
     ButtonState, ButtonAction
<1>3. CASE button_state = "OPEN" /\ sample = "released"
  <2>1. button_state' = "OPEN" /\ action' = "NULL_ACTION"
    BY <1>2, <1>3 DEF NextButtonState, ReturnedAction
  <2>. QED
    BY <1>1, <1>2, <1>3, <2>1
<1>4. CASE button_state = "OPEN" /\ sample = "pressed"
  <2>1. button_state' = "DEBOUNCED" /\ action' = "SINGLE_PUSH"
    BY <1>2, <1>4 DEF NextButtonState, ReturnedAction
  <2>. QED
    BY <1>1, <1>2, <1>4, <2>1
<1>5. CASE button_state = "DEBOUNCED" /\ now <= Debounce
  <2>1. button_state' = "DEBOUNCED" /\ action' = "NULL_ACTION"
    BY <1>1, <1>2, <1>5 DEF NextButtonState, ReturnedAction
  <2>. QED
    BY <1>1, <1>2, <1>5, <2>1
<1>6. CASE button_state = "DEBOUNCED" /\ now > Debounce
  <2>1. button_state' = (IF sample = "pressed" THEN "PRESSED" ELSE "OPEN") /\ action' = "NULL_ACTION"
    BY <1>1, <1>2, <1>6 DEF NextButtonState, ReturnedAction
  <2>. QED
    BY <1>1, <1>2, <1>6, <2>1
<1>7. CASE button_state = "PRESSED" /\ now > Hold
  <2>1. button_state' = "HELD" /\ action' = "SINGLE_HOLD"
    BY <1>1, <1>2, <1>7 DEF NextButtonState, ReturnedAction
  <2>. QED
    BY <1>1, <1>2, <1>7, <2>1
<1>8. CASE button_state = "PRESSED" /\ now <= Hold
  <2>1. button_state' = (IF sample = "pressed" THEN "PRESSED" ELSE "OPEN") /\ action' = "NULL_ACTION"
    BY <1>1, <1>2, <1>8 DEF NextButtonState, ReturnedAction
  <2>. QED
    BY <1>1, <1>2, <1>8, <2>1
<1>9. CASE button_state = "HELD"
  <2>1. button_state' = (IF sample = "pressed" THEN "HELD" ELSE "OPEN") /\ action' = "NULL_ACTION"
    BY <1>2, <1>9 DEF NextButtonState, ReturnedAction
  <2>. QED
    BY <1>1, <1>2, <1>9, <2>1
<1>. QED
  BY <1>1, <1>3, <1>4, <1>5, <1>6, <1>7, <1>8, <1>9

LEMMA RestartInv ==
  ASSUME ButtonInv, Restart
  PROVE  ButtonInv' /\ action' = "NULL_ACTION"
  BY TimeAssumption DEF Restart, ButtonInv, ButtonTypeOK, ByState, PushesApart, HoldMeansHeld, Time, Sample,
     ButtonState, ButtonAction

LEMMA ButtonNextInv == ButtonInv /\ [ButtonNext]_button_vars => ButtonInv'
<1> SUFFICES ASSUME ButtonInv, [ButtonNext]_button_vars PROVE ButtonInv'
  OBVIOUS
<1>1. CASE UNCHANGED button_vars
  BY <1>1 DEF button_vars, history, ButtonInv, ButtonTypeOK, ByState, PushesApart, HoldMeansHeld
<1>. QED
  BY <1>1, PollInv, RestartInv DEF ButtonNext

LEMMA ButtonInvHolds == ButtonSpec => []ButtonInv
  BY ButtonInitInv, ButtonNextInv, PTL DEF ButtonSpec

-----------------------------------------------------------------------------

\* Types, among them that a second hold is never counted on one push.
THEOREM ButtonTypeCorrect == ButtonSpec => []ButtonTypeOK
  BY ButtonInvHolds, PTL DEF ButtonInv

\* No bounce is taken for a second push, whatever the debounce time and however
\* late the polls are.
THEOREM Debounced == ButtonSpec => []PushesApart
  BY ButtonInvHolds, PTL DEF ButtonInv

\* UpdateButtonState reports a hold only after the button was sampled pressed,
\* without exception, for longer than the hold timeout.
THEOREM HoldsAreHeld == ButtonSpec => []HoldMeansHeld
  BY ButtonInvHolds, PTL DEF ButtonInv

\* A button that is down for longer than both timeouts and the poll by which the first
\* was noticed late is HELD at the next poll: no state is left for good meanwhile.
THEOREM HoldsAreTimely == ButtonSpec => []HoldIsTimely
<1>1. ButtonInv => HoldIsTimely
  <2> SUFFICES ASSUME ButtonInv, pressed_for > Debounce + Hold + MaxStep PROVE button_state = "HELD"
    BY DEF HoldIsTimely
  <2>1. button_state # "PRESSED" /\ button_state # "DEBOUNCED"
    BY TimeAssumption DEF ButtonInv, ButtonTypeOK, ByState, Time
  <2>2. button_state = "OPEN" => FALSE
    BY TimeAssumption DEF ButtonInv, ButtonTypeOK, ByState, Time
  <2>. QED
    BY <2>1, <2>2 DEF ButtonInv, ButtonTypeOK, ButtonState
<1>. QED
  BY <1>1, ButtonInvHolds, PTL

\* Between two pushes the button was sampled released.
THEOREM OnePushPerPress == ButtonSpec => PushNeedsRelease
<1>1. ButtonInv /\ [ButtonNext]_button_vars => [action' = "SINGLE_PUSH" => releases = 1]_button_vars
  BY PollInv, RestartInv, Zenon DEF ButtonNext
<1>. QED
  BY <1>1, ButtonInvHolds, PTL DEF ButtonSpec, PushNeedsRelease

\* A push is followed by at most one hold.
THEOREM OneHoldPerPress == ButtonSpec => OneHoldPerPush
<1>1. ButtonInv /\ [ButtonNext]_button_vars => [action' = "SINGLE_HOLD" => holds = 0]_button_vars
  BY PollInv, RestartInv, Zenon DEF ButtonNext
<1>. QED
  BY <1>1, ButtonInvHolds, PTL DEF ButtonSpec, OneHoldPerPush
=============================================================================
