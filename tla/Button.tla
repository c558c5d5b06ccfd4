------------------------------- MODULE Button -------------------------------
(***************************************************************************)
(* The headset's push button: domain::Button, polled by the thread of      *)
(* PiGpio.  A poll reads the pin, which may bounce and is any value here,  *)
(* and returns an action.  Polls are at least the polling interval apart   *)
(* and, with the callback and the scheduler in between, sometimes more.    *)
(*                                                                         *)
(* Times are in ticks of any length.  The code only compares them with the *)
(* two timeouts, so a time stops counting at Horizon, beyond both.         *)
(***************************************************************************)
EXTENDS Naturals

CONSTANTS
  Debounce,   \* _millis_debounce_timeout
  Hold,       \* _millis_hold_timeout
  MinStep,    \* _millis_polling_timeout: the least time between two polls
  MaxStep,    \* the most time between two polls
  Horizon     \* bound: where times stop counting

ASSUME TimeAssumption ==
  /\ Debounce \in Nat /\ Hold \in Nat /\ MinStep \in Nat /\ MaxStep \in Nat /\ Horizon \in Nat
  /\ MinStep <= MaxStep
  /\ Debounce + Hold + MaxStep < Horizon

ButtonAction == {"NULL_ACTION", "SINGLE_PUSH", "SINGLE_HOLD"}
ButtonState == {"OPEN", "DEBOUNCED", "PRESSED", "HELD"}
Sample == {"pressed", "released"}
Time == 0 .. Horizon

VARIABLES
  button_state, \* _state
  elapsed,      \* at the last poll, the time since _last_state_change
  action,       \* what the last UpdateButtonState returned
  since_push,   \* history: time since the last push
  push_gap,     \* history: time between the last two pushes
  last_sample,  \* history: the sample of the last poll
  pressed_for,  \* history: time since the first of the latest pressed samples
  hold_span,    \* history: the same, when the last hold was reported
  releases,     \* history: released samples since the last push, up to one
  holds         \* history: holds since the last push

history == <<since_push, push_gap, last_sample, pressed_for, hold_span, releases, holds>>
button_vars == <<button_state, elapsed, action, history>>

\* A time t, dt later.
After(t, dt) == IF t + dt < Horizon THEN t + dt ELSE Horizon

\* Button::Reset, at the start of PiGpio::run.
ButtonInit ==
  /\ button_state = "OPEN" /\ elapsed = 0 /\ action = "NULL_ACTION"
  /\ since_push = Horizon /\ push_gap = Horizon
  /\ last_sample = "released" /\ pressed_for = 0 /\ hold_span = Horizon
  /\ releases = 1 /\ holds = 0

-----------------------------------------------------------------------------
(* UpdateButtonState *)

\* Variants: the push is not debounced; a release does not end PRESSED; the button
\* is open after the debounce time even when it is still down.
NextStateNoDebounce(now, sample) ==
  CASE button_state = "OPEN" /\ sample = "pressed" -> "PRESSED"
    [] button_state = "PRESSED" /\ now > Hold -> "HELD"
    [] button_state = "PRESSED" /\ now <= Hold /\ sample = "released" -> "OPEN"
    [] button_state = "HELD" /\ sample = "released" -> "OPEN"
    [] OTHER -> button_state
NextStateAnyHold(now, sample) ==
  CASE button_state = "OPEN" /\ sample = "pressed" -> "DEBOUNCED"
    [] button_state = "DEBOUNCED" /\ now > Debounce -> IF sample = "pressed" THEN "PRESSED" ELSE "OPEN"
    [] button_state = "PRESSED" /\ now > Hold -> "HELD"
    [] button_state = "HELD" /\ sample = "released" -> "OPEN"
    [] OTHER -> button_state
NextStateReopens(now, sample) ==
  CASE button_state = "OPEN" /\ sample = "pressed" -> "DEBOUNCED"
    [] button_state = "DEBOUNCED" /\ now > Debounce -> "OPEN"
    [] button_state = "PRESSED" /\ now > Hold -> "HELD"
    [] button_state = "PRESSED" /\ now <= Hold /\ sample = "released" -> "OPEN"
    [] button_state = "HELD" /\ sample = "released" -> "OPEN"
    [] OTHER -> button_state

\* The state after a sample taken `now' after the last change.
NextButtonState(now, sample) ==
  CASE button_state = "OPEN" /\ sample = "pressed" -> "DEBOUNCED"
    [] button_state = "DEBOUNCED" /\ now > Debounce -> IF sample = "pressed" THEN "PRESSED" ELSE "OPEN"
    [] button_state = "PRESSED" /\ now > Hold -> "HELD"
    [] button_state = "PRESSED" /\ now <= Hold /\ sample = "released" -> "OPEN"
    [] button_state = "HELD" /\ sample = "released" -> "OPEN"
    [] OTHER -> button_state

\* The action returned: leaving OPEN is a push, entering HELD is a hold.
ReturnedAction(next) ==
  CASE button_state = "OPEN" /\ next # "OPEN" -> "SINGLE_PUSH"
    [] button_state # "HELD" /\ next = "HELD" -> "SINGLE_HOLD"
    [] OTHER -> "NULL_ACTION"

\* transitionState restarts the time, unless the state stays.
UpdateButtonState(sample, dt) ==
  LET now == After(elapsed, dt)
      next == NextButtonState(now, sample) IN
  /\ button_state' = next
  /\ elapsed' = IF next = button_state THEN now ELSE 0
  /\ action' = ReturnedAction(next)

\* The bookkeeping that the properties are stated with.
Observe(sample, dt) ==
  /\ since_push' = IF action' = "SINGLE_PUSH" THEN 0 ELSE After(since_push, dt)
  /\ push_gap' = IF action' = "SINGLE_PUSH" THEN After(since_push, dt) ELSE push_gap
  /\ last_sample' = sample
  /\ pressed_for' = IF sample = "pressed" /\ last_sample = "pressed" THEN After(pressed_for, dt) ELSE 0
  /\ hold_span' = CASE action' # "SINGLE_HOLD" -> hold_span
                    [] action' = "SINGLE_HOLD" /\ last_sample = "pressed" -> After(pressed_for, dt)
                    [] OTHER -> 0
  /\ releases' = CASE action' = "SINGLE_PUSH" -> 0
                   [] action' # "SINGLE_PUSH" /\ sample = "released" -> 1
                   [] OTHER -> releases
  /\ holds' = CASE action' = "SINGLE_PUSH" -> 0
                [] action' = "SINGLE_HOLD" -> holds + 1
                [] OTHER -> holds

\* One turn of the loop in PiGpio::run.
PollButton(sample, dt) == UpdateButtonState(sample, dt) /\ Observe(sample, dt)

\* PiGpio::Stop and Start: the next thread resets the button.
Restart ==
  /\ button_state' = "OPEN" /\ elapsed' = 0 /\ action' = "NULL_ACTION"
  /\ since_push' = Horizon /\ push_gap' = Horizon
  /\ last_sample' = "released" /\ pressed_for' = 0 /\ hold_span' = Horizon
  /\ releases' = 1 /\ holds' = 0

ButtonNext == (\E sample \in Sample, dt \in MinStep .. MaxStep : PollButton(sample, dt)) \/ Restart

ButtonSpec == ButtonInit /\ [][ButtonNext]_button_vars

-----------------------------------------------------------------------------
(* Properties *)

ButtonTypeOK ==
  /\ button_state \in ButtonState /\ elapsed \in Time /\ action \in ButtonAction
  /\ since_push \in Time /\ push_gap \in Time /\ pressed_for \in Time /\ hold_span \in Time
  /\ last_sample \in Sample /\ releases \in {0, 1} /\ holds \in {0, 1}

\* However the contact bounces, two pushes are more than the debounce time
\* apart: no bounce of one push is taken for a second.
PushesApart == push_gap > Debounce

\* A hold is reported only when, for longer than the hold timeout, every sample
\* was a pressed one; the very last, in the poll that reports it, may differ.
HoldMeansHeld == hold_span > Hold

\* A button that stays down is reported held once both timeouts are over, each of
\* them noticed up to one poll late: it is down for the first of these delays when
\* the hold timeout begins, and the poll after the second finds it HELD.
HoldIsTimely == pressed_for > Debounce + Hold + MaxStep => button_state = "HELD"

\* A button that stays down is reported as one push: between two pushes there is
\* a released sample.
PushNeedsRelease == [][action' = "SINGLE_PUSH" => releases = 1]_button_vars

\* A push is followed by at most one hold, however long the button stays down.
OneHoldPerPush == [][action' = "SINGLE_HOLD" => holds = 0]_button_vars
=============================================================================
