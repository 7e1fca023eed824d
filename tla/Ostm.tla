-------------------------------- MODULE Ostm --------------------------------
(***************************************************************************)
(* A channel of the OS timer (src/src/hw/timer/rza1l_ostm.c): a count that *)
(* is never counted, but computed from the clock at every read.  Beside it *)
(* runs the counter of the hardware it stands for, clock by clock; the two *)
(* must agree for a firmware that sets mode and period while the counter   *)
(* is stopped.  Time is in ticks of the counter.                           *)
(***************************************************************************)
EXTENDS Integers

CONSTANTS
  Width,         \* values of a register: 2^32 in the code
  MaxElapsed     \* bound: ticks a counter runs

\* What the constants must satisfy.
OstmAssumption == Width \in Nat \ {0} /\ MaxElapsed \in Nat

VARIABLES
  cmp, MD,          \* OSTMnCMP; the mode bit of OSTMnCTL
  enabled, frozen,  \* OSTMnTE; the count kept while stopped
  elapsed,          \* ticks since the start
  counter,          \* the hardware's
  changed           \* history: mode or period were changed since the start

vars == <<cmp, MD, enabled, frozen, elapsed, counter, changed>>
Count == 0 .. Width - 1

Init ==
  /\ cmp = 0 /\ MD = FALSE /\ enabled = FALSE /\ frozen = 0 /\ elapsed = 0
  /\ counter = 0 /\ changed = FALSE

-----------------------------------------------------------------------------
\* Fault for the runs: the period is one tick short.
FaultInterval == IF cmp = 0 THEN 0 ELSE cmp - (elapsed % cmp)

\* Down from CMP to zero, and again.
Interval == IF cmp = 0 THEN 0 ELSE cmp - (elapsed % (cmp + 1))

rza1l_ostm_cnt_value ==
  IF ~enabled THEN frozen
  ELSE IF MD THEN elapsed % Width ELSE Interval

Tick ==
  /\ enabled => elapsed < MaxElapsed
  /\ elapsed' = IF enabled THEN elapsed + 1 ELSE elapsed
  /\ counter' = IF ~enabled THEN counter
                ELSE IF MD THEN (counter + 1) % Width
                ELSE IF counter = 0 THEN cmp ELSE counter - 1
  /\ UNCHANGED <<cmp, MD, enabled, frozen, changed>>

WriteCMP(v) ==
  /\ cmp' = v /\ changed' = (changed \/ enabled)
  /\ UNCHANGED <<MD, enabled, frozen, elapsed, counter>>

WriteCTL(md) ==
  /\ MD' = md /\ changed' = (changed \/ enabled)
  /\ UNCHANGED <<cmp, enabled, frozen, elapsed, counter>>

\* OSTMnTS, also of a counter that runs.
StartTimer ==
  /\ enabled' = TRUE /\ frozen' = 0 /\ elapsed' = 0
  /\ counter' = IF MD THEN 0 ELSE cmp
  /\ changed' = FALSE
  /\ UNCHANGED <<cmp, MD>>

\* OSTMnTT, also of a counter that is stopped.
StopTimer ==
  /\ enabled' = FALSE /\ frozen' = rza1l_ostm_cnt_value
  /\ UNCHANGED <<cmp, MD, elapsed, counter, changed>>

Reset ==
  /\ cmp' = 0 /\ MD' = FALSE /\ enabled' = FALSE /\ frozen' = 0 /\ elapsed' = 0
  /\ counter' = 0 /\ changed' = FALSE

Next ==
  \/ Tick
  \/ \E v \in Count : WriteCMP(v)
  \/ \E md \in BOOLEAN : WriteCTL(md)
  \/ StartTimer \/ StopTimer
  \/ Reset

Spec == Init /\ [][Next]_vars

-----------------------------------------------------------------------------

\* What the firmware reads (rza1l_ostm_cnt_value) is what a counter would show
\* that counts: up and round past the register's width, or down from the
\* period and again, through stops and starts in either state.
CountsLikeHardware == ~changed => rza1l_ostm_cnt_value = counter
=============================================================================
