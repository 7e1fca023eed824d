------------------------------ MODULE PanelInput ------------------------------
(***************************************************************************)
(* The host's keyboard and pointer (src/src/hw/input/deluge_input.c)       *)
(* driving the panel.  A key holds the control it is bound to; a click     *)
(* holds a control at least MinPress; with the latch modifier down a click *)
(* toggles a control that then stays held; a click on an encoder triangle  *)
(* turns the encoder and starts a repeat timer.                            *)
(*                                                                         *)
(* Where a click lands is an input.  The steps of an encoder are those of  *)
(* EncoderGpio; the volume knob and the right Ctrl key change nothing here.*)
(***************************************************************************)
EXTENDS PicPanel

CONSTANTS
  Key,        \* bound host keys
  Binding,    \* the control of each (deluge_input_bindings)
  MaxLatched, \* DELUGE_INPUT_MAX_LATCHED
  MinPress,   \* DELUGE_INPUT_MIN_PRESS_MS, in ticks
  None

ASSUME InputAssumption ==
  /\ Binding \in [Key -> Ctrl]
  /\ MaxLatched \in Nat /\ MinPress \in Nat
  /\ None \notin Ctrl

VARIABLES
  keys,         \* bound keys that are down on the host
  button,       \* the left button is down on the host
  latchActive,  \* latch_active
  latched,      \* latched[0 .. latched_count - 1]
  ptr,          \* the control a click holds (held_x, held_y), or None
  age,          \* ticks of this press (now - press_time_ms), up to MinPress
  releaseArmed, \* the deferred release is pending
  repeat        \* the encoder repeat is running (enc_repeat_id >= 0)

inputVars == <<keys, button, latchActive, latched, ptr, age, releaseArmed, repeat>>
pointVars == <<ptr, age, releaseArmed>>

InputInit ==
  /\ keys = {} /\ button = FALSE
  /\ latchActive = FALSE /\ latched = <<>>
  /\ ptr = None /\ age = 0 /\ releaseArmed = FALSE
  /\ repeat = FALSE

\* A bound key; the host repeats the key-down of a key that stays down.
KeyDown(k) ==
  /\ keys' = keys \cup {k}
  /\ SendEvents(<<>>, <<Binding[k]>>)
  /\ UNCHANGED <<button, latchActive, latched, pointVars, repeat>>

KeyUp(k) ==
  /\ k \in keys
  /\ keys' = keys \ {k}
  /\ SendEvents(<<Binding[k]>>, <<>>)
  /\ UNCHANGED <<button, latchActive, latched, pointVars, repeat>>

LatchDown ==
  /\ ~latchActive
  /\ latchActive' = TRUE
  /\ UNCHANGED <<panelVars, keys, button, latched, pointVars, repeat>>

\* The table is emptied and the controls stay held.
FaultLatchUp ==
  /\ latchActive
  /\ latchActive' = FALSE
  /\ latched' = <<>>
  /\ UNCHANGED <<panelVars, keys, button, pointVars, repeat>>

\* Releasing the modifier releases every latched control.
LatchUp ==
  /\ latchActive
  /\ latchActive' = FALSE
  /\ latched' = <<>>
  /\ SendEvents(latched, <<>>)
  /\ UNCHANGED <<keys, button, pointVars, repeat>>

-----------------------------------------------------------------------------
(* A button-down first stops the repeat and releases what an earlier click *)
(* still holds, for it may come without the button-up before it or during  *)
(* a deferred release.                                                     *)

StillHeld == IF ptr = None THEN <<>> ELSE <<ptr>>

NewClick ==
  /\ button' = TRUE
  /\ releaseArmed' = FALSE
  /\ UNCHANGED <<keys, latchActive>>

Press(c) ==
  /\ ~latchActive
  /\ NewClick
  /\ SendEvents(StillHeld, <<c>>)
  /\ ptr' = c /\ age' = 0 /\ repeat' = FALSE
  /\ UNCHANGED latched

\* The last entry takes the place of the one removed.
Unlatch(i) ==
  [j \in 1 .. Len(latched) - 1 |->
     IF j = i THEN latched[Len(latched)] ELSE latched[j]]

PressLatch(c) ==
  /\ latchActive
  /\ NewClick
  /\ \/ \E i \in DOMAIN latched :
          /\ latched[i] = c
          /\ SendEvents(Append(StillHeld, c), <<>>)
          /\ latched' = Unlatch(i)
     \/ /\ c \notin Elems(latched) /\ Len(latched) < MaxLatched
        /\ SendEvents(StillHeld, <<c>>)
        /\ latched' = Append(latched, c)
     \/ /\ c \notin Elems(latched) /\ Len(latched) >= MaxLatched
        /\ SendEvents(StillHeld, <<>>)
        /\ UNCHANGED latched
  /\ ptr' = None /\ age' = 0 /\ repeat' = FALSE

\* A click on an encoder triangle, or on nothing.
PressElsewhere(triangle) ==
  /\ NewClick
  /\ SendEvents(StillHeld, <<>>)
  /\ ptr' = None /\ age' = 0 /\ repeat' = triangle
  /\ UNCHANGED latched

ReleaseNow ==
  /\ SendEvents(StillHeld, <<>>)
  /\ ptr' = None /\ age' = 0 /\ releaseArmed' = FALSE

\* The release is never deferred.
FaultEarly ==
  /\ button
  /\ button' = FALSE
  /\ repeat' = FALSE
  /\ ReleaseNow
  /\ UNCHANGED <<keys, latchActive, latched>>

\* Button up: release now if the press is old enough, else arm the timer.
Release ==
  /\ button
  /\ button' = FALSE
  /\ repeat' = FALSE
  /\ \/ /\ ptr = None \/ releaseArmed
        /\ UNCHANGED <<panelVars, pointVars>>
     \/ /\ ptr # None /\ ~releaseArmed /\ age >= MinPress
        /\ ReleaseNow
     \/ /\ ptr # None /\ ~releaseArmed /\ age < MinPress
        /\ releaseArmed' = TRUE
        /\ UNCHANGED <<panelVars, ptr, age>>
  /\ UNCHANGED <<keys, latchActive, latched>>

\* The timer runs and finds the press one tick too young.
FaultReleaseTimer ==
  /\ releaseArmed /\ age > MinPress
  /\ ReleaseNow
  /\ UNCHANGED <<keys, button, latchActive, latched, repeat>>

\* The deferred release; it is due MinPress after the press.
ReleaseTimer ==
  /\ releaseArmed /\ age >= MinPress
  /\ ReleaseNow
  /\ UNCHANGED <<keys, button, latchActive, latched, repeat>>

Tick ==
  /\ ptr # None /\ age < MinPress
  /\ age' = age + 1
  /\ UNCHANGED <<panelVars, keys, button, latchActive, latched, ptr, releaseArmed, repeat>>

-----------------------------------------------------------------------------
vars == <<panelVars, inputVars>>

Init == PanelInit /\ InputInit

Keyboard == LatchDown \/ LatchUp \/ \E k \in Key : KeyDown(k) \/ KeyUp(k)

Pointer ==
  \/ \E c \in Ctrl : Press(c) \/ PressLatch(c)
  \/ \E triangle \in BOOLEAN : PressElsewhere(triangle)
  \/ Release

Device == (Heartbeat \/ FwRead \/ FwArm \/ GuestReset) /\ UNCHANGED inputVars

Send(b) == FwSend(b) /\ UNCHANGED inputVars

Next ==
  \/ Keyboard \/ Pointer \/ ReleaseTimer \/ Tick
  \/ Device
  \/ \E b \in Cmds : Send(b)

Spec == Init /\ [][Next]_vars

(* Timers run: the beat, the deferred release, virtual time.  The firmware *)
(* arms the ring and goes on polling it; its polls may find the ring just  *)
(* lapped to empty, so the fairness of a read is strong.                   *)
Fairness ==
  /\ WF_vars(Heartbeat /\ UNCHANGED inputVars)
  /\ WF_vars(FwArm /\ UNCHANGED inputVars)
  /\ SF_vars(FwRead /\ UNCHANGED inputVars)
  /\ WF_vars(ReleaseTimer) /\ WF_vars(Tick)

-----------------------------------------------------------------------------
\* What the host holds down, by any means.
Wanted == {Binding[k] : k \in keys} \cup Elems(StillHeld) \cup Elems(latched)

(* Nothing stays pressed that no key, click or latch holds: no stuck note, *)
(* whatever was pressed by several of them at once.                        *)
NothingStuck == held \subseteq Wanted

(* The encoder repeats only under a pressed button, and never while the    *)
(* click holds a control.                                                  *)
RepeatUnderButton == repeat => (button /\ ptr = None)

(* A click is delivered for at least MinPress, unless another click comes. *)
PressIsSeen ==
  [][(ptr # None /\ ptr' # ptr) => (age >= MinPress \/ button')]_vars

(* A click that ended on the host is released in the panel.                *)
ClickReleased == (ptr # None /\ ~button) ~> (ptr = None \/ button)
=============================================================================
