--------------------------- MODULE HeadsetStreamer ---------------------------
(***************************************************************************)
(* The headset: service::HeadsetStreamer and its domain::HeadsetState.     *)
(*                                                                         *)
(* Four threads change the state.  The tcp and the websocket client, each  *)
(* on its strand, report connections and disconnections; the gpio thread   *)
(* reads the state and posts one that depends on it; the main thread       *)
(* stops.  HeadsetState locks each access; what follows from the new state *)
(* (telling the graphics, restarting the clients) is done after the        *)
(* unlock, and is a step of its own.                                       *)
(***************************************************************************)
EXTENDS Naturals

Client == {"tcp", "ws"}
Other(c) == IF c = "tcp" THEN "ws" ELSE "tcp"
HeadsetStates == {"CONNECTING", "READY", "RUNNING", "CLOSING"}
PolledAction == {"SINGLE_PUSH", "SINGLE_HOLD"}

VARIABLES
  state,           \* HeadsetState::_state
  connected,       \* tcp_is_connected and websocket_is_connected, by client
  graphics_state,  \* the state HeadsetGraphics was last given
  up,              \* whether each client has its connection
  timer,           \* the tcp client's read timer is armed, or has fired already
  stopped,         \* _is_stopped of each client
  pending,         \* on each client's strand: the state handleStateChange is given,
                   \* "RESTART" inside handleStateChangeConnecting, or "none"
  gpio,            \* the gpio thread: where in the button callback, and its locals
  requested,       \* the last message posted to the server, "rotate" or "reset"
  main             \* progress of Stop

vars == <<state, connected, graphics_state, up, timer, stopped, pending, gpio, requested, main>>

GpioPC == {"idle", "polled", "read", "posted"}
GpioIdle == [pc |-> "idle", read |-> "CONNECTING", action |-> "SINGLE_PUSH"]
MainPC == {"running", "closing", "gpio_wait", "ws_wait", "ws_callback", "ws_done",
           "tcp_wait", "tcp_callback", "tcp_done", "join", "down"}
\* Stop of client c waits, its handler is in the callback, the promise is kept.
WaitPC == [ws |-> "ws_wait", tcp |-> "tcp_wait"]
CallbackPC == [ws |-> "ws_callback", tcp |-> "tcp_callback"]
DonePC == [ws |-> "ws_done", tcp |-> "tcp_done"]

\* After Start: both clients are trying to connect.
Init ==
  /\ state = "CONNECTING" /\ graphics_state = "CONNECTING"
  /\ connected = [c \in Client |-> FALSE]
  /\ up = [c \in Client |-> FALSE]
  /\ timer = FALSE
  /\ stopped = [c \in Client |-> FALSE]
  /\ pending = [c \in Client |-> "none"]
  /\ gpio = GpioIdle
  /\ requested = "none"
  /\ main = "running"

-----------------------------------------------------------------------------
(* PostTcpConnection and PostWebsocketConnection *)

\* Variants: one connection is enough; a loss is not ignored while closing; only
\* the websocket's report makes the headset ready.
NextStateIgnoringOther(c, b) ==
  CASE state = "CLOSING" -> state
    [] state \in {"READY", "RUNNING"} /\ ~b -> "CONNECTING"
    [] state = "CONNECTING" /\ b -> "READY"
    [] OTHER -> state
NextStateIgnoringClosing(c, b) ==
  CASE ~b -> "CONNECTING"
    [] state = "CONNECTING" /\ b /\ connected[Other(c)] -> "READY"
    [] OTHER -> state
NextStateForgetsSecond(c, b) ==
  CASE state \in {"READY", "RUNNING"} /\ ~b -> "CONNECTING"
    [] state = "CONNECTING" /\ b /\ c = "ws" /\ connected["tcp"] -> "READY"
    [] OTHER -> state

\* The state after client c reports that it is connected (b) or not.
NextState(c, b) ==
  CASE state = "CLOSING" -> state
    [] state \in {"READY", "RUNNING"} /\ ~b -> "CONNECTING"
    [] state = "CONNECTING" /\ b /\ connected[Other(c)] -> "READY"
    [] OTHER -> state

\* The locked update, and what is left to handle if the state changed.
PostConnection(c, b) ==
  /\ state' = NextState(c, b)
  /\ connected' = IF state = "CLOSING" THEN connected ELSE [connected EXCEPT ![c] = b]
  /\ pending' = [pending EXCEPT ![c] = IF NextState(c, b) # state THEN NextState(c, b) ELSE "none"]

\* Client c runs handlers on its strand, one at a time.
StrandFree(c) == pending[c] = "none" /\ main \notin {"join", "down"}

\* CreateHeadsetClientConnection, CreateWebsocketClientConnection.
Connect(c) ==
  /\ StrandFree(c) /\ ~stopped[c] /\ ~up[c]
  /\ up' = [up EXCEPT ![c] = TRUE]
  /\ timer' = IF c = "tcp" THEN TRUE ELSE timer
  /\ PostConnection(c, TRUE)
  /\ UNCHANGED <<graphics_state, stopped, gpio, requested, main>>

\* DestroyHeadsetClientConnection, DestroyWebsocketClientConnection: the tcp
\* client lost its connection and cancels the timer, too late if it has fired;
\* the websocket client lost its own or failed to make one.
Disconnect(c) ==
  /\ StrandFree(c) /\ ~stopped[c] /\ (up[c] \/ c = "ws")
  /\ up' = [up EXCEPT ![c] = FALSE]
  /\ timer' \in IF c = "tcp" THEN {timer, FALSE} ELSE {timer}
  /\ PostConnection(c, FALSE)
  /\ UNCHANGED <<graphics_state, stopped, gpio, requested, main>>

\* The tcp client's timer calls reconnect whether or not there is a connection,
\* and stopped or not.
ReadTimeout ==
  /\ StrandFree("tcp") /\ timer
  /\ up' = [up EXCEPT !["tcp"] = FALSE]
  /\ timer' = FALSE
  /\ PostConnection("tcp", FALSE)
  /\ UNCHANGED <<graphics_state, stopped, gpio, requested, main>>

\* The callback on the strand of client c returns; when it was called by the
\* handler Stop posted, the promise is kept next.
Return(c) ==
  /\ pending' = [pending EXCEPT ![c] = "none"]
  /\ main' = IF main = CallbackPC[c] THEN DonePC[c] ELSE main

\* handleStateChange, on the strand of client c.
HandleStateChange(c) ==
  /\ pending[c] \in HeadsetStates
  /\ graphics_state' = pending[c]
  /\ IF pending[c] = "CONNECTING"
       THEN pending' = [pending EXCEPT ![c] = "RESTART"] /\ UNCHANGED main
       ELSE Return(c)
  /\ UNCHANGED <<state, connected, up, timer, stopped, gpio, requested>>

\* handleStateChangeConnecting: Start on both clients, which are running
\* already unless they are being stopped.
HandleStateChangeConnecting(c) ==
  /\ pending[c] = "RESTART"
  /\ stopped' = [d \in Client |-> FALSE]
  /\ Return(c)
  /\ UNCHANGED <<state, connected, graphics_state, up, timer, gpio, requested>>

-----------------------------------------------------------------------------
(* The button callback, on the gpio thread *)

\* A poll finds a push or a hold and calls back.
Poll(action) ==
  /\ gpio.pc = "idle" /\ main \in {"running", "closing"}
  /\ gpio' = [pc |-> "polled", read |-> "CONNECTING", action |-> action]
  /\ UNCHANGED <<state, connected, graphics_state, up, timer, stopped, pending, requested, main>>

\* GetState; nothing is done in the states but READY and RUNNING.
ReadState ==
  /\ gpio.pc = "polled"
  /\ gpio' = IF state \in {"READY", "RUNNING"}
               THEN [pc |-> "read", read |-> state, action |-> gpio.action] ELSE GpioIdle
  /\ UNCHANGED <<state, connected, graphics_state, up, timer, stopped, pending, requested, main>>

\* PostState of doStateChange: the button starts a ready headset, a hold puts a
\* running one back.
PostState ==
  /\ gpio.pc = "read"
  /\ gpio.read = "READY" \/ gpio.action = "SINGLE_HOLD"
  /\ state' = IF gpio.read = "READY" THEN "RUNNING" ELSE "READY"
  /\ gpio' = [gpio EXCEPT !.pc = "posted"]
  /\ UNCHANGED <<connected, graphics_state, up, timer, stopped, pending, requested, main>>

\* PostWebsocketClientMessage is dropped by a stopped client.
Request(m) == requested' = IF stopped["ws"] THEN requested ELSE m

\* handleStateChange of doStateChange, then the reset message after a hold.
ShowState ==
  /\ gpio.pc = "posted"
  /\ graphics_state' = IF gpio.read = "READY" THEN "RUNNING" ELSE "READY"
  /\ IF gpio.read = "READY" THEN UNCHANGED requested ELSE Request("reset")
  /\ gpio' = GpioIdle
  /\ UNCHANGED <<state, connected, up, timer, stopped, pending, main>>

\* A push while running asks for the next camera.
RotateCamera ==
  /\ gpio.pc = "read" /\ gpio.read = "RUNNING" /\ gpio.action = "SINGLE_PUSH"
  /\ Request("rotate")
  /\ gpio' = GpioIdle
  /\ UNCHANGED <<state, connected, graphics_state, up, timer, stopped, pending, main>>

-----------------------------------------------------------------------------
(* Stop, on the main thread *)

BeginStop ==
  /\ main = "running"
  /\ state' = "CLOSING"
  /\ main' = "closing"
  /\ UNCHANGED <<connected, graphics_state, up, timer, stopped, pending, gpio, requested>>

\* Gpio::Stop tells its thread to end, and then waits for it.
StopGpio ==
  /\ main = "closing"
  /\ main' = "gpio_wait"
  /\ UNCHANGED <<state, connected, graphics_state, up, timer, stopped, pending, gpio, requested>>

\* Stop of a client: _is_stopped is set and a handler posted to its strand.
StopClient(c, from, to) ==
  /\ main = from /\ ~stopped[c]
  /\ stopped' = [stopped EXCEPT ![c] = TRUE]
  /\ main' = to
  /\ UNCHANGED <<state, connected, graphics_state, up, timer, pending, gpio, requested>>

StopWebsocketClient == gpio.pc = "idle" /\ StopClient("ws", "gpio_wait", "ws_wait")
StopTcpClient == StopClient("tcp", "ws_done", "tcp_wait")

\* Variant: the streamer is told, and the promise kept, only if there was a
\* connection.
StopHandlerOnlyIfUp(c) ==
  /\ main = WaitPC[c] /\ StrandFree(c) /\ up[c]
  /\ main' = IF NextState(c, FALSE) # state THEN CallbackPC[c] ELSE DonePC[c]
  /\ up' = [up EXCEPT ![c] = FALSE]
  /\ PostConnection(c, FALSE)
  /\ UNCHANGED <<graphics_state, timer, stopped, gpio, requested>>

\* That handler: the connection is dropped and the streamer told; the promise
\* Stop waits for is kept when the callback has returned.
StopHandler(c) ==
  /\ main = WaitPC[c] /\ StrandFree(c)
  /\ main' = IF NextState(c, FALSE) # state THEN CallbackPC[c] ELSE DonePC[c]
  /\ up' = [up EXCEPT ![c] = FALSE]
  /\ PostConnection(c, FALSE)
  /\ UNCHANGED <<graphics_state, timer, stopped, gpio, requested>>

\* The websocket client's handler shuts its socket down, which throws when the
\* socket is not connected: the streamer is not told, and the promise, dropped
\* with the handler, ends the wait.
StopHandlerThrows ==
  /\ main = "ws_wait" /\ StrandFree("ws")
  /\ main' = "ws_done"
  /\ UNCHANGED <<state, connected, graphics_state, up, timer, stopped, pending, gpio, requested>>

\* AsioContext::Stop: no handler starts, and those that run are waited for.
StopContext ==
  /\ main = "tcp_done"
  /\ main' = "join"
  /\ UNCHANGED <<state, connected, graphics_state, up, timer, stopped, pending, gpio, requested>>

JoinPool ==
  /\ main = "join" /\ \A c \in Client : pending[c] = "none"
  /\ main' = "down"
  /\ UNCHANGED <<state, connected, graphics_state, up, timer, stopped, pending, gpio, requested>>

Terminated == main = "down" /\ UNCHANGED vars

GpioStep == ReadState \/ PostState \/ ShowState \/ RotateCamera
StrandStep(c) == HandleStateChange(c) \/ HandleStateChangeConnecting(c) \/ StopHandler(c)
MainStep == StopGpio \/ StopWebsocketClient \/ StopTcpClient \/ StopContext \/ JoinPool

Next ==
  \/ \E c \in Client : Connect(c) \/ Disconnect(c) \/ StrandStep(c)
  \/ \E a \in PolledAction : Poll(a)
  \/ ReadTimeout
  \/ GpioStep
  \/ BeginStop
  \/ StopHandlerThrows
  \/ MainStep
  \/ Terminated

\* Handlers and callbacks under way return; Stop, once called, goes on.  That a
\* connection is made or lost and that the button is pushed is up to the world.
\* A strand serves its handlers in the order of posting, so that the one Stop
\* posts is not passed over for ever while others run: strong fairness.
Fairness ==
  /\ WF_vars(GpioStep)
  /\ WF_vars(MainStep)
  /\ \A c \in Client : WF_vars(StrandStep(c)) /\ SF_vars(StopHandler(c))

Spec == Init /\ [][Next]_vars /\ Fairness

-----------------------------------------------------------------------------
(* Properties *)

TypeOK ==
  /\ state \in HeadsetStates /\ graphics_state \in HeadsetStates
  /\ connected \in [Client -> BOOLEAN]
  /\ up \in [Client -> BOOLEAN]
  /\ timer \in BOOLEAN
  /\ stopped \in [Client -> BOOLEAN]
  /\ pending \in [Client -> {"none", "CONNECTING", "READY", "RESTART"}]
  /\ gpio \in [pc : GpioPC, read : HeadsetStates, action : PolledAction]
  /\ requested \in {"none", "rotate", "reset"}
  /\ main \in MainPC

\* A headset whose two connections are up is never left waiting for one: the
\* report that comes second makes it ready, in either order and after any
\* number of losses, also when the button moved the state in between.
NeverStuckConnecting ==
  connected["tcp"] /\ connected["ws"] => state # "CONNECTING"

\* Only a button callback that read the state before the connection was lost can
\* declare a headset ready or running that is not connected on both sides.
ReadyOnlyWhenConnected ==
  [][state = "CONNECTING" /\ state' \in {"READY", "RUNNING"}
       => (\A c \in Client : connected'[c]) \/ gpio.pc = "read"]_vars

\* Only such a callback can take a closing headset out of that state; the
\* reports of the clients, which Stop itself causes, cannot.
ClosingLeftOnlyByButton ==
  [][state = "CLOSING" /\ state' # "CLOSING" => gpio.pc = "read"]_vars

\* Stop returns, whatever callbacks are under way and even if one of them starts
\* a client again that Stop has just stopped.
StopCompletes == (main = "closing") ~> (main = "down")
=============================================================================
