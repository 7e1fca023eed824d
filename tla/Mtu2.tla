-------------------------------- MODULE Mtu2 --------------------------------
(***************************************************************************)
(* A 16-bit counter of the timer unit (src/src/hw/timer/rza1l_mtu2.c) and  *)
(* the busy-wait delay the firmware builds on it:                          *)
(*   start = TCNT;  while ((uint16_t)(TCNT - start) < ticks);              *)
(*                                                                         *)
(* The counter is computed from the virtual clock, anew for each byte of a *)
(* read.  With an instruction counter that clock stands still while a      *)
(* handler runs; without, which is the default, it is the host's clock,    *)
(* which does not, and a reading may be torn: a low byte from before it    *)
(* wraps beside a high byte from after.                                    *)
(*                                                                         *)
(* A byte has Base values here; time is in ticks of the counter.  The      *)
(* value written and the time of the write are joined to the value of the  *)
(* counter now.                                                            *)
(***************************************************************************)
EXTENDS Integers

CONSTANTS
  Base,          \* values of a byte: 256 in the code
  Delays,        \* delays the firmware asks for
  Gap            \* the firmware polls at least once in so many ticks

Values == Base * Base

\* What the constants must satisfy.
TimerAssumption ==
  /\ Base \in Nat \ {0} /\ Gap \in Nat \ {0}
  /\ Delays \subseteq 1 .. Values - Gap

VARIABLES
  icount,        \* the machine runs with an instruction counter
  TCNT,          \* the counter's value
  low,           \* a read under way: its first byte, or None
  ticks, start,  \* the firmware's delay, or 0; its first reading, or None
  waited, idle,  \* ticks since the delay began, at most Values; since a reading
  torn,          \* history: a reading of the last delay was torn
  early          \* history: the last delay was over before its time

vars == <<icount, TCNT, low, ticks, start, waited, idle, torn, early>>
None == -1

Init ==
  /\ icount \in BOOLEAN
  /\ TCNT = 0 /\ low = None /\ ticks = 0 /\ start = None
  /\ waited = 0 /\ idle = 0 /\ torn = FALSE /\ early = FALSE

-----------------------------------------------------------------------------
(* The clock.                                                              *)

\* Fault for the runs: the counter stops at its highest value.
FaultCounted == IF TCNT = Values - 1 THEN TCNT ELSE TCNT + 1

\* Of the ticks since the write only sixteen bits count.
Counted == (TCNT + 1) % Values

Saturated(n) == IF n < Values THEN n + 1 ELSE Values

\* The low byte wraps between the two bytes of a reading.
Tears == low # None /\ TCNT % Base = Base - 1

Tick ==
  /\ icount => low = None
  /\ ticks > 0 => idle < Gap
  /\ TCNT' = Counted
  /\ waited' = Saturated(waited)
  /\ idle' = IF ticks > 0 THEN idle + 1 ELSE 0
  /\ torn' = (torn \/ Tears)
  /\ UNCHANGED <<icount, low, ticks, start, early>>

\* Byte i of the counter, at the time it is read.
Byte(i) == IF i = 0 THEN TCNT % Base ELSE TCNT \div Base

-----------------------------------------------------------------------------
(* The firmware.                                                           *)

BeginDelay(n) ==
  /\ ticks = 0
  /\ ticks' = n /\ waited' = 0 /\ idle' = 0
  /\ torn' = FALSE /\ early' = FALSE
  /\ UNCHANGED <<icount, TCNT, low, start>>

\* A write that covers the register.
WriteTCNT(v) ==
  /\ ticks = 0
  /\ TCNT' = v
  /\ UNCHANGED <<icount, low, ticks, start, waited, idle, torn, early>>

ReadLow ==
  /\ ticks > 0 /\ low = None
  /\ low' = Byte(0)
  /\ UNCHANGED <<icount, TCNT, ticks, start, waited, idle, torn, early>>

Reading == low + Base * Byte(1)
Over == (Reading - start) % Values >= ticks

\* The reading is complete: the first is kept, a later one may end the delay.
ReadHigh ==
  /\ low # None
  /\ low' = None /\ idle' = 0
  /\ start' = IF start = None THEN Reading ELSE IF Over THEN None ELSE start
  /\ ticks' = IF start # None /\ Over THEN 0 ELSE ticks
  /\ early' = (ticks' = 0 /\ waited < ticks)
  /\ UNCHANGED <<icount, TCNT, waited, torn>>

Reset ==
  /\ TCNT' = 0 /\ low' = None /\ ticks' = 0 /\ start' = None
  /\ waited' = 0 /\ idle' = 0 /\ torn' = FALSE /\ early' = FALSE
  /\ UNCHANGED icount

Next ==
  \/ Tick
  \/ \E n \in Delays : BeginDelay(n)
  \/ \E v \in 0 .. Values - 1 : WriteTCNT(v)
  \/ ReadLow \/ ReadHigh
  \/ Reset

\* The loop runs, and time goes on between its readings.
Spec == Init /\ [][Next]_vars /\ SF_vars(Tick) /\ WF_vars(ReadLow) /\ WF_vars(ReadHigh)

-----------------------------------------------------------------------------
\* No delay was over before its time: the counters are "accurate enough for
\* the firmware's coarse millisecond/microsecond delays" (rza1l_mtu2.c:13-14).
\* A reading torn on the default machine breaks this.
NeverEarly == ~early

\* A delay is over too soon only if a reading of it was torn, and no reading
\* is torn on a machine with an instruction counter.
ShortOnlyIfTorn == (early => torn) /\ (torn => ~icount)

\* A torn reading is ahead by up to a low byte, so a loop that tolerates one
\* leaves that much of the counter's range unused.
Longest == Values - Gap - IF icount THEN 0 ELSE Base

\* Nothing but a torn reading makes a delay too short, wherever the counter
\* wraps; and torn readings or not, the counters free-run "so those loops
\* terminate" (rza1l_mtu2.c:10-11), of a loop that polls in time and whose
\* window no reading can step over.
DelayServed == []ShortOnlyIfTorn /\ (ticks \in 1 .. Longest ~> ticks = 0)
=============================================================================
