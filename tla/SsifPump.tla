------------------------------ MODULE SsifPump ------------------------------
(***************************************************************************)
(* The transmit half of the audio interface up to its staging FIFO         *)
(* (src/src/hw/ssi/rza1l_ssif.c): the pump copies finished frames from the *)
(* firmware's small DMA ring, as far as the firmware's render head W when  *)
(* its address is known and as far as the DMA play head P otherwise.  It   *)
(* runs on every CRSA read of the firmware and from a fallback timer.      *)
(*                                                                         *)
(* The unit is the stereo frame.  Every frame rendered has a number, so a  *)
(* slot of the ring tells which rendering it holds, 0 if none since the    *)
(* ring was armed.  The firmware is external: it reads the play head and   *)
(* renders the backlog from W up to what it read.                          *)
(***************************************************************************)
EXTENDS Integers

CONSTANTS
  Size,       \* frames in the transmit ring
  Window,     \* frames of play time in RZA1L_SSIF_PUMP_MIN_NS
  Backlog,    \* the unrendered frames of a firmware that keeps up: fewer than this
  MaxFrames   \* bound on the frames rendered

\* What the constants must satisfy.
PumpAssumption ==
  /\ Size \in Nat /\ Window \in Nat \ {0} /\ Backlog \in Nat \ {0}
  /\ Backlog + Window < Size
  /\ MaxFrames \in Nat

VARIABLES
  armed,      \* the DMAC holds an active transmit ring
  ring,       \* number of the rendering in each slot
  head,       \* the firmware's render head W, an offset in the ring
  goal,       \* the play head as the firmware last read it
  play,       \* the DMA play head P
  rendered,   \* frames rendered so far
  mode,       \* tx-render-head given ("explicit") or tx-render-head-auto
  known,      \* render_head_addr is not 0
  searchDone, \* rh_done
  anchored,   \* play_anchored
  readOff,    \* read_off
  age,        \* play time since last_pump_ns, up to Window
  staged,     \* history: number of the last frame staged under the present
              \* bound, 0 if none
  torn,       \* history: a frame staged was not the next one rendered
  late        \* history: the firmware has let its backlog grow to Backlog

guestVars == <<armed, ring, head, goal, rendered>>
ssifVars  == <<known, searchDone, anchored, readOff, age, staged, torn>>
vars == <<guestVars, play, mode, late, ssifVars>>

Offsets == 0 .. Size - 1

(* Definitions named Fault... are seeded faults: what the definition after *)
(* them would be with a plausible bug.  Nothing else refers to them.       *)
FaultWrap(n) == IF n > Size THEN n - Size ELSE n

Wrap(n) == IF n >= Size THEN n - Size ELSE n
Ahead(a, b) == IF b >= a THEN b - a ELSE b - a + Size

Init ==
  /\ armed = FALSE
  /\ ring = [i \in Offsets |-> 0]
  /\ head = 0 /\ goal = 0 /\ play = 0
  /\ rendered = 0
  /\ mode \in {"explicit", "auto"}
  /\ known = (mode = "explicit") /\ searchDone = (mode = "explicit")
  /\ anchored = FALSE /\ readOff = 0
  /\ age = Window
  /\ staged = 0 /\ torn = FALSE /\ late = FALSE

-----------------------------------------------------------------------------
(* The search for the render head may end in any pump, with the address or *)
(* without it; until then the play head bounds the copy.                   *)
Search ==
  IF mode = "auto" /\ ~searchDone
  THEN \/ UNCHANGED <<known, searchDone>>
       \/ searchDone' = TRUE /\ known' \in BOOLEAN
  ELSE UNCHANGED <<known, searchDone>>

\* Bounded by the play head whether or not the render head is known.
FaultCopyTarget == play

CopyTarget == IF known' THEN head ELSE play

\* The copy is throttled, unless the ring has just appeared.
Throttled == anchored /\ age < Window

(* Copy the frames from read_off up to the target.  A distance of all but  *)
(* one frame of the ring, or more, counts as having been lapped.           *)
Copy ==
  LET from  == IF anchored THEN readOff ELSE CopyTarget
      dist  == Ahead(from, CopyTarget)
      avail == IF dist >= Size - 1 THEN 0 ELSE dist
      Frame(i) == ring[Wrap(from + i)]
  IN  /\ anchored' = TRUE
      /\ readOff' = CopyTarget
      /\ staged' = IF avail > 0 THEN Frame(avail - 1)
                   ELSE IF known' = known THEN staged ELSE 0
      /\ torn' = (torn \/ \/ \E i \in 1 .. avail - 1 : Frame(i) # Frame(i - 1) + 1
                          \/ avail > 0 /\ Frame(0) # staged + 1 /\ staged # 0
                          \/ avail # dist)
      /\ age' = 0

\* A pump that is skipped restarts the throttle.
FaultSkip == age' = 0 /\ UNCHANGED <<known, searchDone, anchored, readOff, staged, torn>>

Skip == UNCHANGED ssifVars

Pump ==
  IF ~armed
  THEN anchored' = FALSE /\ UNCHANGED <<known, searchDone, readOff, age, staged, torn>>
  ELSE IF Throttled
       THEN Skip
       ELSE Search /\ Copy

\* The firmware reads CRSA: the hook pumps, and the firmware learns P.
CrsaRead ==
  /\ armed
  /\ Pump
  /\ goal' = play
  /\ UNCHANGED <<armed, ring, head, rendered, play, mode, late>>

\* The fallback timer.
PlayTick == Pump /\ UNCHANGED <<guestVars, play, mode, late>>

\* Device reset, which disarms the ring.  The address found and the end of
\* the search outlive it.
Reset ==
  /\ armed' = FALSE /\ anchored' = FALSE /\ readOff' = 0
  /\ age' = Window
  /\ staged' = 0 /\ torn' = FALSE /\ late' = FALSE
  /\ UNCHANGED <<ring, head, goal, rendered, play, mode, known, searchDone>>

-----------------------------------------------------------------------------
\* The firmware sets up its render head and arms the ring: play starts at
\* the first slot, and the head within the backlog behind it.  What the ring
\* held before is nobody's rendering now.
Arm ==
  /\ ~armed
  /\ armed' = TRUE
  /\ ring' = [i \in Offsets |-> 0]
  /\ play' = 0 /\ goal' = 0
  /\ \E b \in 0 .. Backlog - 1 : head' = Ahead(b, 0)
  /\ UNCHANGED <<rendered, mode, late, ssifVars>>

Render ==
  /\ armed /\ head # goal
  /\ rendered < MaxFrames
  /\ rendered' = rendered + 1
  /\ ring' = [ring EXCEPT ![head] = rendered + 1]
  /\ head' = Wrap(head + 1)
  /\ UNCHANGED <<armed, goal, play, mode, late, ssifVars>>

\* A frame of play time passes, whether or not the firmware keeps up.
Tick ==
  /\ armed
  /\ play' = Wrap(play + 1)
  /\ age' = IF age < Window THEN age + 1 ELSE age
  /\ late' = (late \/ Ahead(head, play) >= Backlog - 1)
  /\ UNCHANGED <<guestVars, mode, known, searchDone, anchored, readOff, staged, torn>>

Firmware == Arm \/ CrsaRead \/ Render
Next == Firmware \/ PlayTick \/ Tick \/ Reset

Spec == Init /\ [][Next]_vars

\* The fallback timer and time itself go on; nothing obliges the firmware.
FairSpec == Spec /\ WF_vars(PlayTick) /\ WF_vars(Tick)

-----------------------------------------------------------------------------
(* Bounded by the render head, the copy stages every frame the firmware    *)
(* renders once and in order, whatever the throttle skips and however the  *)
(* reads and the fallback timer fall, provided the firmware keeps up: both *)
(* when the head was given and from the pump after the one that found it   *)
(* (rza1l_ssif_pump).                                                      *)
HeadKeepsOrder == [][known /\ ~late => (torn' => torn)]_vars

(* A head the firmware leaves standing is reached by the copy, although    *)
(* the pump throttles itself and nothing but the fallback timer may call   *)
(* it (rza1l_ssif_play_tick).                                              *)
HeadReached ==
  \A h \in Offsets :
    (armed /\ known /\ head = h)
      ~> ((anchored /\ readOff = h) \/ head # h \/ ~armed)

\* The slots from read_off up to where a copy has left it.
Copied == {Wrap(readOff + i) : i \in 0 .. Ahead(readOff, readOff') - 1}

\* A slot the firmware has yet to render: its backlog.
Unrendered == {i \in Offsets : Ahead(head, i) < Ahead(head, play)}

(* "The render head trails the play head by the firmware's unrendered      *)
(* backlog, so bounding by it never reads an unrendered slot"              *)
(* (rza1l_ssif.c:1025-1027).  The copy that follows the end of the search  *)
(* starts where the play head had bounded the one before, ahead of the     *)
(* render head, goes round the ring, and breaks this.                      *)
HeadBoundsCopy ==
  [][armed' /\ anchored /\ known' /\ ~late /\ Ahead(readOff, readOff') < Size - 1
       => Copied \cap Unrendered = {}]_vars
=============================================================================
