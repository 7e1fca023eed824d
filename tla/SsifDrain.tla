----------------------------- MODULE SsifDrain -----------------------------
(***************************************************************************)
(* The host half of the audio output (src/src/hw/ssi/rza1l_ssif.c): the    *)
(* staging FIFO, the cushion it has to build before the voice is fed, and  *)
(* the drain, which resamples by a few parts in a hundred to lock the      *)
(* depth of the FIFO to its target.                                        *)
(*                                                                         *)
(* The unit is the stereo frame and samples are left out: what matters is  *)
(* the position in the stream, a frame and a phase in 1/One of a frame.    *)
(* A callback of the voice is atomic in the program; here it is a sequence *)
(* of steps that nothing interrupts, one for each frame emitted.  The      *)
(* voice and the pump that feeds the FIFO are external.                    *)
(***************************************************************************)
EXTENDS Integers

CONSTANTS
  One,      \* the unit of phase: 65536
  Rate,     \* the largest correction of the rate: 65536/50
  Trim,     \* the rate at which the phase is run down: 655
  Band,     \* frames of deadband around the target: 2
  Target,   \* prime_bytes
  Cap,      \* RZA1L_SSIF_FIFO_SIZE
  Chunk,    \* frames in the buffer of the drain
  MaxPush, MaxAsk   \* bounds on one push and on one callback

ASSUME DrainAssumption ==
  /\ One \in Nat /\ Rate \in Nat /\ Trim \in Nat
  /\ 0 < Trim /\ Trim <= Rate /\ Rate < One
  /\ Band \in Nat /\ Target \in Nat \ {0} /\ Cap \in Nat /\ Target < Cap
  /\ Chunk \in Nat \ {0} /\ MaxPush \in Nat /\ MaxAsk \in Nat

VARIABLES
  len,      \* fifo_len
  frac,     \* drain_frac
  primed,   \* out_primed
  unity,    \* out_gain_q16 is 65536
  ask,      \* frames the callback still has to deliver, 0 outside of it
  step,     \* step of the callback
  batch,    \* frames in the buffer of the drain
  built,    \* history: frames emitted in the callback
  taken,    \* history: frames that left the FIFO in the callback
  origin,   \* history: the phase the callback began with
  inBand,   \* history: the callback began inside the deadband
  starved,  \* history: a callback ended for want of frames
  dropped   \* history: a push pushed frames out

fifo == <<len, frac>>
call == <<ask, step, batch, built, taken, origin, inBand>>
vars == <<fifo, primed, unity, call, starved, dropped>>

Least(a, b) == IF a < b THEN a ELSE b

TypeOK ==
  /\ len \in 0 .. Cap
  /\ frac \in 0 .. One - 1
  /\ primed \in BOOLEAN /\ unity \in BOOLEAN
  /\ ask \in Nat /\ batch \in 0 .. Chunk /\ batch <= ask
  /\ step \in One - Rate .. One + Rate
  /\ built \in Nat /\ taken \in Nat /\ origin \in 0 .. One - 1
  /\ inBand \in BOOLEAN /\ starved \in BOOLEAN /\ dropped \in BOOLEAN

Init ==
  /\ len = 0 /\ frac = 0
  /\ primed = FALSE /\ unity = TRUE
  /\ ask = 0 /\ step = One /\ batch = 0
  /\ built = 0 /\ taken = 0 /\ origin = 0 /\ inBand = FALSE
  /\ starved = FALSE /\ dropped = FALSE

-----------------------------------------------------------------------------
\* Division of C: towards zero.
Quotient(n, d) == IF n >= 0 THEN n \div d ELSE -((-n) \div d)

(* Definitions named Fault... are seeded faults: what the definition after *)
(* them would be with a plausible bug.  Nothing else refers to them.       *)
FaultErr(depth) ==
  LET err == Target - depth
  IN  IF err > Target THEN Target ELSE IF err < -Target THEN -Target ELSE err

\* The distance from the target, clamped.
Err(depth) ==
  LET err == depth - Target
  IN  IF err > Target THEN Target ELSE IF err < -Target THEN -Target ELSE err

InBand(depth) == Err(depth) \in -Band .. Band

\* The phase is run down at once.
FaultStep(depth, phase) ==
  IF InBand(depth)
  THEN One - phase
  ELSE One + Quotient(Err(depth) * Rate, Target)

\* FIFO frames, in 1/One, for each frame emitted.
Step(depth, phase) ==
  IF InBand(depth)
  THEN One - Least(phase, Trim)
  ELSE One + Quotient(Err(depth) * Rate, Target)

FaultPush(n) ==
  /\ ask = 0
  /\ len' = len + n
  /\ dropped' = dropped
  /\ UNCHANGED <<frac, primed, unity, call, starved>>

\* rza1l_ssif_fifo_push: the oldest frames give way.
Push(n) ==
  /\ ask = 0
  /\ len' = Least(len + n, Cap)
  /\ dropped' = (dropped \/ len + n > Cap)
  /\ UNCHANGED <<frac, primed, unity, call, starved>>

Fast == Step(len, frac) = One /\ frac = 0 /\ unity

(* At unity rate, phase 0 and unity gain frames go from the FIFO to the    *)
(* voice as they are, all but the last; the voice takes w of them.         *)
CopyFrames(n, w) ==
  /\ len' = len - w
  /\ starved' = (starved \/ n >= len)
  /\ UNCHANGED <<frac, call>>

Begin(n) ==
  /\ ask' = n
  /\ step' = Step(len, frac)
  /\ batch' = 0 /\ built' = 0 /\ taken' = 0
  /\ origin' = frac /\ inBand' = InBand(len)
  /\ UNCHANGED <<fifo, starved>>

(* rza1l_ssif_out_cb: the voice wants n frames.  It is fed only once the   *)
(* cushion has been built.                                                 *)
OutCb(n) ==
  /\ ask = 0 /\ n > 0
  /\ UNCHANGED <<unity, dropped>>
  /\ IF ~primed /\ len < Target
     THEN UNCHANGED <<fifo, primed, call, starved>>
     ELSE /\ primed' = TRUE
          /\ \/ Fast /\ \E w \in 0 .. Least(n, IF len = 0 THEN 0 ELSE len - 1) : CopyFrames(n, w)
             \/ ~Fast /\ Begin(n)

Room == batch < Least(ask, Chunk)

\* One frame of a batch: it is interpolated between the first two frames of
\* the FIFO, and the position advances by step.
Emit ==
  /\ ask > 0 /\ Room /\ len >= 2
  /\ LET whole == (frac + step) \div One
     IN  /\ frac' = frac + step - whole * One
         /\ len' = len - Least(whole, len)
         /\ taken' = taken + Least(whole, len)
  /\ batch' = batch + 1
  /\ built' = built + 1
  /\ UNCHANGED <<primed, unity, ask, step, origin, inBand, starved, dropped>>

\* The batch is full or the FIFO exhausted: the voice takes w frames of it,
\* and the callback goes on only if that is all of them.
Write(w) ==
  /\ ask > 0 /\ ~(Room /\ len >= 2)
  /\ ask' = IF batch > 0 /\ w = batch THEN ask - w ELSE 0
  /\ starved' = (starved \/ (len < 2 /\ batch < ask))
  /\ batch' = 0
  /\ UNCHANGED <<fifo, primed, unity, step, built, taken, origin, inBand, dropped>>

\* The output level knob (rza1l_ssif_output_level_step).
LevelStep ==
  /\ ask = 0
  /\ unity' = ~unity
  /\ UNCHANGED <<fifo, primed, call, starved, dropped>>

\* Device reset.  The level is the host's and stays.
Reset ==
  /\ ask = 0
  /\ len' = 0 /\ frac' = 0 /\ primed' = FALSE
  /\ UNCHANGED <<unity, call, starved, dropped>>

Next ==
  \/ \E n \in 1 .. MaxPush : Push(n)
  \/ \E n \in 1 .. MaxAsk : OutCb(n)
  \/ Emit
  \/ \E w \in 0 .. batch : Write(w)
  \/ LevelStep \/ Reset

Spec == Init /\ [][Next]_vars

-----------------------------------------------------------------------------
\* How far the stream has been walked beyond the frames emitted, in 1/One.
Slip == (taken * One + frac) - (origin + built * One)

(* The pitch is never off by more than Rate in One: whatever the depth of  *)
(* the FIFO, the stretch of stream a callback has walked and the frames it *)
(* has emitted differ by at most that much.  No phase is lost between a    *)
(* frame and the next, nor a frame skipped (rza1l_ssif_drain).             *)
RateBounded ==
  ask > 0 => Slip \in -(built * Rate) .. built * Rate

(* What the comment on the deadband says: a residual phase is run down,    *)
(* smoothly, to zero.                                                      *)
PhaseRunsDown ==
  [][Emit /\ inBand => frac' <= frac]_vars
=============================================================================
