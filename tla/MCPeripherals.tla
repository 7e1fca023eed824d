--------------------------- MODULE MCPeripherals ----------------------------
(* What the firmware drives by itself, one of them in a behaviour, chosen  *)
(* at the start: a direction of the serial port, of which the two share    *)
(* nothing but the reset, one of the two timers, the SD card or the OLED.  *)
(*                                                                         *)
(* In the run the counter of the delays has bytes of four values, so that  *)
(* both wrap; a delay is within the low byte, past it, the longest that    *)
(* torn readings cannot step over, and the longest that a loop which polls *)
(* every other tick can wait for.  The other timer has registers of eight  *)
(* values and time for two periods of any length.  The OLED is set up in   *)
(* the three addressing modes, with windows at the first and at the last   *)
(* pages, commands in three orders and an argument that is itself a        *)
(* command; a word for the other device is a command too.                  *)
EXTENDS MidiSerial, SdHost

CONSTANTS
  Base, Delays, Gap, Width, MaxElapsed,
  Pages, Cols, Rows, Nibble, Blank, Styles, Words, MaxQueue

VARIABLES
  part,
  icount, TCNT, low, ticks, start, waited, idle, torn, early,
  cmp, MD, enabled, frozen, elapsed, counter, changed,
  oled, SPRIE, spri, ended, style, under, todo, queue, turn, frame, last

T == INSTANCE Mtu2
O == INSTANCE Ostm
D == INSTANCE OledSpi WITH line <- spri

ASSUME TimersAssumption == T!TimerAssumption /\ O!OstmAssumption
ASSUME PanelAssumption == D!OledAssumption /\ D!SpiAssumption

delayVars == <<icount, TCNT, low, ticks, start, waited, idle, torn, early>>
countVars == <<cmp, MD, enabled, frozen, elapsed, counter, changed>>
panelVars ==
  <<oled, SPRIE, spri, ended, style, under, todo, queue, turn, frame, last>>

MCNext ==
  /\ \/ /\ \/ part = "out" /\ OutNext /\ UNCHANGED in
           \/ part = "in" /\ InNext /\ UNCHANGED out
           \/ part \in {"out", "in"} /\ OutReset /\ InReset
        /\ UNCHANGED <<delayVars, countVars, sdVars, panelVars>>
     \/ part = "delay" /\ T!Next /\ UNCHANGED <<vars, countVars, sdVars, panelVars>>
     \/ part = "count" /\ O!Next /\ UNCHANGED <<vars, delayVars, sdVars, panelVars>>
     \/ part = "card" /\ SdNext /\ UNCHANGED <<vars, delayVars, countVars, panelVars>>
     \/ part = "panel" /\ D!Next /\ UNCHANGED <<vars, delayVars, countVars, sdVars>>
  /\ UNCHANGED part

MCInit ==
  /\ Init /\ T!Init /\ O!Init /\ SdInit /\ D!Init
  /\ part \in {"out", "in", "delay", "count", "card", "panel"}
  /\ part # "delay" => ~icount
  /\ part # "panel" => style = CHOOSE s \in Styles : TRUE

MCSpec ==
  /\ MCInit /\ [][MCNext]_<<vars, delayVars, countVars, sdVars, panelVars, part>>
  /\ Fairness
  /\ SF_delayVars(part = "delay" /\ T!Tick)
  /\ WF_delayVars(part = "delay" /\ T!ReadLow)
  /\ WF_delayVars(part = "delay" /\ T!ReadHigh)
  /\ WF_sdVars(part = "card" /\ Step)
  /\ WF_panelVars(part = "panel" /\ D!Serve)

\* Too short by a torn reading only, and not for ever (Mtu2).
DelayServed == T!DelayServed

\* The count read is the one a counter would show (Ostm).
CountsLikeHardware == O!CountsLikeHardware

\* The panel shows the last frame sent; its queue does not stall (OledSpi).
PictureIsFrame == D!PictureIsFrame
QueueServed == D!QueueServed

MCStyles ==
  {[mode |-> m, first |-> p, order |-> o, contrast |-> a] :
     m \in 0 .. 2, p \in {0, Pages - Rows},
     o \in {<<1, 2, 3, 4>>, <<4, 3, 2, 1>>, <<2, 4, 1, 3>>}, a \in {33, 174}}
MCBlank == <<>>
=============================================================================
