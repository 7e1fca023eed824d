----------------------------- MODULE SsifProofs -----------------------------
(***************************************************************************)
(* Proofs about the audio output.  First part, the drain (SsifDrain): for  *)
(* any unit of phase, correction, target and capacity it keeps its types   *)
(* and its rate.  Second part, the drain between two clocks (SsifServo):   *)
(* drift that the correction makes up for neither empties nor fills the    *)
(* FIFO.  Third part, the pump (SsifPump): for any ring, throttle window   *)
(* and backlog that fit together, bounded by the render head it stages     *)
(* every frame once and in order.  Fourth part, the search for that head   *)
(* (RenderHead): for any memory, what it locks on to is the head.          *)
(***************************************************************************)
EXTENDS MCSsif, MCRenderHead, FiniteSets, FiniteSetTheorems, TLAPS

-----------------------------------------------------------------------------
(* The drain.  The inductive invariant adds to the types the exact account *)
(* of a callback: every frame emitted has advanced the position by step,   *)
(* whole frames taken from the FIFO and the phase left over together.      *)
PhaseExact == ask > 0 => taken * One + frac = origin + built * step
DrainInv == TypeOK /\ PhaseExact

-----------------------------------------------------------------------------
(* Arithmetic of products and quotients, which the steps below keep out of *)
(* their own obligations.                                                  *)
LEMMA Distribute ==
  ASSUME NEW a \in Int, NEW b \in Int, NEW c \in Int
  PROVE  (a + b) * c = a * c + b * c
  BY SMT

LEMMA Nothing ==
  ASSUME NEW a \in Int, NEW b \in Int, NEW c \in Int
  PROVE  0 * a + c = c + 0 * b
  BY SMT

LEMMA Monotone ==
  ASSUME NEW n \in Nat, NEW a \in Int, NEW b \in Int, a <= b
  PROVE  n * a <= n * b
  BY SMT

LEMMA DivMod ==
  ASSUME NEW n \in Nat, NEW d \in Nat \ {0}
  PROVE  n \div d \in Nat /\ (n \div d) * d <= n /\ n < (n \div d) * d + d
  BY SMT

LEMMA Cancel ==
  ASSUME NEW q \in Int, NEW r \in Int, NEW d \in Nat \ {0}, q * d <= r * d
  PROVE  q <= r
  BY SMT

\* A quotient is bounded by what bounds the dividend, on both sides of zero.
LEMMA QuotientBound ==
  ASSUME NEW n \in Int, NEW r \in Nat, NEW d \in Nat \ {0}, n <= r * d, -n <= r * d
  PROVE  Quotient(n, d) \in -r .. r
  <1>1. CASE n >= 0
    <2>1. n \in Nat
      BY <1>1
    <2>2. n \div d \in Nat /\ n \div d <= r
      BY <2>1, DivMod, Cancel
    <2> QED  BY <1>1, <2>2 DEF Quotient
  <1>2. CASE n < 0
    <2>1. -n \in Nat
      BY <1>2
    <2>2. (-n) \div d \in Nat /\ (-n) \div d <= r
      BY <2>1, DivMod, Cancel
    <2> QED  BY <1>2, <2>2 DEF Quotient
  <1> QED  BY <1>1, <1>2

\* The rate of a callback is within the servo's bound.
LEMMA StepBound ==
  ASSUME NEW depth \in Nat, NEW phase \in 0 .. One - 1
  PROVE  Step(depth, phase) \in One - Rate .. One + Rate
  <1>1. CASE InBand(depth)
    BY <1>1, DrainAssumption DEF Step, Least
  <1>2. CASE ~InBand(depth)
    <2> DEFINE e == Err(depth)
    <2>1. e \in Int /\ -Target <= e /\ e <= Target
      BY DrainAssumption DEF Err
    <2>2. e * Rate \in Int /\ e * Rate <= Rate * Target /\ -(e * Rate) <= Rate * Target
      <3>1. Rate * e <= Rate * Target /\ Rate * (-Target) <= Rate * e
        BY <2>1, Monotone, DrainAssumption
      <3>2. Rate * e = e * Rate /\ Rate * (-Target) = -(Rate * Target)
        BY <2>1, DrainAssumption
      <3>3. e * Rate \in Int /\ Rate * Target \in Int
        BY <2>1, DrainAssumption
      <3> HIDE DEF e
      <3> QED  BY <3>1, <3>2, <3>3
    <2>3. Quotient(e * Rate, Target) \in -Rate .. Rate
      <3> HIDE DEF e
      <3> QED  BY <2>2, QuotientBound, DrainAssumption
    <2> QED  BY <1>2, <2>3, DrainAssumption DEF Step
  <1> QED  BY <1>1, <1>2

LEMMA DivMonotone ==
  ASSUME NEW m \in Nat, NEW n \in Nat, NEW d \in Nat \ {0}, m <= n
  PROVE  m \div d <= n \div d
<1>1. /\ m \div d \in Nat /\ (m \div d) * d <= m
      /\ n \div d \in Nat /\ n < (n \div d) * d + d
  BY DivMod
<1> DEFINE a == m \div d
           b == n \div d
<1>2. ASSUME b + 1 <= a PROVE FALSE
  <2>1. d * (b + 1) <= d * a
    BY <1>1, <1>2, Monotone
  <2>2. d * (b + 1) = b * d + d /\ d * a = a * d
    BY <1>1
  <2>3. b * d \in Int /\ a * d \in Int
    BY <1>1
  <2> HIDE DEF a, b
  <2> QED BY <1>1, <2>1, <2>2, <2>3 DEF a, b
<1> QED BY <1>1, <1>2

LEMMA QuotientInt ==
  ASSUME NEW n \in Int, NEW d \in Nat \ {0}
  PROVE  Quotient(n, d) \in Int
  BY DEF Quotient

-----------------------------------------------------------------------------
(* One lemma for each action.                                              *)
LEMMA InitInv ==
  ASSUME Init
  PROVE  DrainInv
  <1>1. len \in 0 .. Cap /\ frac \in 0 .. One - 1 /\ origin \in 0 .. One - 1
    BY DrainAssumption DEF Init
  <1>2. step \in One - Rate .. One + Rate
    BY DrainAssumption DEF Init
  <1>3. ask \in Nat /\ batch \in 0 .. Chunk /\ batch <= ask /\ built \in Nat /\ taken \in Nat
    BY DrainAssumption DEF Init
  <1>4. /\ primed \in BOOLEAN /\ unity \in BOOLEAN /\ inBand \in BOOLEAN
        /\ starved \in BOOLEAN /\ dropped \in BOOLEAN
    BY DEF Init
  <1>5. PhaseExact
    BY DEF Init, PhaseExact
  <1> QED  BY <1>1, <1>2, <1>3, <1>4, <1>5 DEF DrainInv, TypeOK

LEMMA PushInv ==
  ASSUME DrainInv, NEW n \in Nat, Push(n)
  PROVE  DrainInv'
  BY DrainAssumption DEF DrainInv, TypeOK, PhaseExact, Push, Least, call

LEMMA OutCbInv ==
  ASSUME DrainInv, NEW n \in Nat, OutCb(n)
  PROVE  DrainInv'
  <1> USE DEF DrainInv, TypeOK, PhaseExact, OutCb
  <1>1. CASE UNCHANGED <<fifo, primed, call, starved>>
    BY <1>1 DEF fifo, call
  <1>2. ASSUME NEW w \in 0 .. Least(n, IF len = 0 THEN 0 ELSE len - 1),
               primed' = TRUE, CopyFrames(n, w)
        PROVE  DrainInv'
    <2>1. len' \in 0 .. Cap
      BY <1>2, DrainAssumption DEF CopyFrames, Least
    <2>2. starved' \in BOOLEAN
      BY <1>2 DEF CopyFrames
    <2> QED  BY <1>2, <2>1, <2>2 DEF CopyFrames, call
  <1>3. ASSUME Begin(n), primed' = TRUE
        PROVE  DrainInv'
    <2>1. step' \in One - Rate .. One + Rate
      BY <1>3, StepBound DEF Begin
    <2>2. inBand' \in BOOLEAN
      BY <1>3 DEF Begin, InBand
    <2>3. 0 * One + frac = frac + 0 * step'
      <3>1. frac \in Int /\ One \in Int /\ Rate \in Int
        BY DrainAssumption
      <3>2. step' \in Int
        BY <2>1, <3>1
      <3> QED  BY <3>1, <3>2, Nothing
    <2>4. TypeOK'
      BY <1>3, <2>1, <2>2, DrainAssumption DEF Begin, fifo
    <2>5. PhaseExact'
      BY <1>3, <2>3 DEF Begin, fifo
    <2> QED  BY <2>4, <2>5
  <1> QED  BY <1>1, <1>2, <1>3

LEMMA EmitInv ==
  ASSUME DrainInv, Emit
  PROVE  DrainInv'
  <1> DEFINE whole == (frac + step) \div One
  <1>0. /\ frac \in 0 .. One - 1 /\ step \in One - Rate .. One + Rate
        /\ len \in 0 .. Cap /\ built \in Nat /\ taken \in Nat /\ origin \in 0 .. One - 1
        /\ batch \in 0 .. Chunk /\ ask \in Nat /\ One \in Nat \ {0} /\ Rate < One
        /\ Rate \in Nat /\ len >= 2 /\ ask > 0
    BY DrainAssumption DEF DrainInv, TypeOK, Emit
  <1>1. whole \in Nat /\ whole * One <= frac + step /\ frac + step < whole * One + One
    BY <1>0, DivMod
  <1>2. whole <= 2
    <2> HIDE DEF whole
    <2>1. whole * One < 3 * One
      BY <1>0, <1>1
    <2> QED  BY <1>0, <1>1, <2>1
  <1>3. /\ frac' = frac + step - whole * One
        /\ len' = len - whole
        /\ taken' = taken + whole
        /\ built' = built + 1 /\ batch' = batch + 1
        /\ UNCHANGED <<primed, unity, ask, step, origin, inBand, starved, dropped>>
    BY <1>0, <1>1, <1>2 DEF Emit, Least
  <1> HIDE DEF whole
  <1>4. TypeOK'
    <2>1. frac' \in 0 .. One - 1
      <3>1. whole * One \in Int
        BY <1>0, <1>1
      <3> QED  BY <1>0, <1>1, <1>3, <3>1
    <2>2. len' \in 0 .. Cap /\ taken' \in Nat /\ built' \in Nat
      <3>1. whole \in Nat
        BY <1>1
      <3> QED  BY <1>0, <1>2, <1>3, <3>1, DrainAssumption
    <2>3. batch' \in 0 .. Chunk /\ batch' <= ask'
      <3>1. batch < ask /\ batch < Chunk
        BY <1>0, DrainAssumption DEF Emit, Room, Least
      <3> QED  BY <1>0, <1>3, <3>1, DrainAssumption
    <2> QED  BY <1>3, <2>1, <2>2, <2>3 DEF DrainInv, TypeOK
  <1>5. PhaseExact'
    <2>1. (taken + whole) * One = taken * One + whole * One
      BY <1>0, <1>1, Distribute
    <2>2. (built + 1) * step = built * step + step
      BY <1>0, Distribute
    <2>3. taken * One + frac = origin + built * step
      BY <1>0 DEF DrainInv, PhaseExact
    <2>4. taken * One \in Int /\ whole * One \in Int /\ built * step \in Int
      BY <1>0, <1>1
    <2>5. taken * One + whole * One + (frac + step - whole * One)
            = origin + (built * step + step)
      BY <1>0, <2>3, <2>4
    <2> QED  BY <1>3, <2>1, <2>2, <2>5 DEF PhaseExact
  <1> QED  BY <1>4, <1>5 DEF DrainInv

LEMMA WriteInv ==
  ASSUME DrainInv, NEW w \in 0 .. batch, Write(w)
  PROVE  DrainInv'
  <1>1. ask' \in Nat /\ (ask' > 0 => ask > 0)
    BY DEF DrainInv, TypeOK, Write
  <1>2. starved' \in BOOLEAN
    BY DEF Write
  <1>3. TypeOK'
    BY <1>1, <1>2, DrainAssumption DEF DrainInv, TypeOK, Write, fifo
  <1>4. PhaseExact'
    BY <1>1 DEF DrainInv, PhaseExact, Write, fifo
  <1> QED  BY <1>3, <1>4 DEF DrainInv

LEMMA LevelStepInv == DrainInv /\ LevelStep => DrainInv'
  BY DEF DrainInv, TypeOK, PhaseExact, LevelStep, fifo, call

LEMMA ResetInv ==
  ASSUME DrainInv, Reset
  PROVE  DrainInv'
  <1>1. len' \in 0 .. Cap /\ frac' \in 0 .. One - 1
    BY DrainAssumption DEF Reset
  <1>2. primed' \in BOOLEAN
    BY DEF Reset
  <1> QED  BY <1>1, <1>2 DEF DrainInv, TypeOK, PhaseExact, Reset, call

LEMMA StutterInv == DrainInv /\ UNCHANGED vars => DrainInv'
  BY DEF DrainInv, TypeOK, PhaseExact, vars, fifo, call

-----------------------------------------------------------------------------
(* The inductive invariant holds in every reachable state.                 *)
THEOREM DrainInvariance == Spec => []DrainInv
  <1>1. DrainInv /\ [Next]_vars => DrainInv'
    <2> SUFFICES ASSUME DrainInv, [Next]_vars PROVE DrainInv'
      OBVIOUS
    <2>1. ASSUME NEW n \in 1 .. MaxPush, Push(n) PROVE DrainInv'
      BY <2>1, PushInv, DrainAssumption
    <2>2. ASSUME NEW n \in 1 .. MaxAsk, OutCb(n) PROVE DrainInv'
      BY <2>2, OutCbInv, DrainAssumption
    <2>3. CASE Emit
      BY <2>3, EmitInv
    <2>4. ASSUME NEW w \in 0 .. batch, Write(w) PROVE DrainInv'
      BY <2>4, WriteInv
    <2>5. CASE LevelStep \/ Reset \/ UNCHANGED vars
      BY <2>5, LevelStepInv, ResetInv, StutterInv
    <2> QED  BY <2>1, <2>2, <2>3, <2>4, <2>5 DEF Next
  <1> QED  BY <1>1, InitInv, PTL DEF Spec

(* The FIFO never holds more than its capacity nor less than nothing, the  *)
(* phase is a proper fraction of a frame, and the rate of every callback   *)
(* is within the servo's bound (rza1l_ssif_fifo_push, rza1l_ssif_drain).   *)
THEOREM DrainTypes == Spec => []TypeOK
  BY DrainInvariance, PTL DEF DrainInv

(* Every callback walks the stream at a rate within Rate of unity,         *)
(* whatever the depth of the FIFO when it began and however the voice cuts *)
(* it into batches (rza1l_ssif_drain).                                     *)
THEOREM RateCorrect == Spec => []RateBounded
  <1>1. DrainInv => RateBounded
    <2> SUFFICES ASSUME DrainInv, ask > 0
                 PROVE  Slip \in -(built * Rate) .. built * Rate
      BY DEF RateBounded
    <2>1. /\ frac \in Int /\ origin \in Int /\ built \in Nat /\ taken \in Nat
          /\ step \in Int /\ One - Rate <= step /\ step <= One + Rate
          /\ One \in Nat /\ Rate \in Nat
      BY DrainAssumption DEF DrainInv, TypeOK
    <2>2. taken * One + frac = origin + built * step
      BY DEF DrainInv, PhaseExact
    <2>3. built * (One - Rate) <= built * step /\ built * step <= built * (One + Rate)
      BY <2>1, Monotone
    <2>4. /\ built * (One - Rate) = built * One - built * Rate
          /\ built * (One + Rate) = built * One + built * Rate
      BY <2>1
    <2>5. /\ built * One \in Int /\ built * Rate \in Int /\ built * step \in Int
          /\ taken * One \in Int
      BY <2>1
    <2> QED  BY <2>1, <2>2, <2>3, <2>4, <2>5 DEF Slip
  <1> QED  BY <1>1, DrainInvariance, PTL

-----------------------------------------------------------------------------
(* The drain between two clocks.  Far enough from the target, by Reach, the *)
(* correction of a round is worth more than the frame the clocks part by in *)
(* a Period.  The invariant bounds the stream the FIFO holds by an account  *)
(* that spreads that frame over the rounds of the period: inside Reach a    *)
(* round may bring it nearer to either end, outside none does.              *)

CONSTANT Reach

Pull == (Reach * Rate) \div Target

\* The correction at Reach makes up for the drift, one callback does not
\* overshoot by it, and target, Reach and a callback fit in the FIFO.
ServoFits ==
  /\ Reach \in Nat /\ Band < Reach /\ Reach <= Target
  /\ One <= Period * (Quantum * Pull)
  /\ Quantum * Rate <= Reach * One
  /\ Quantum + 2 <= Target - Reach
  /\ Target + Reach + Quantum <= Cap

Top == (Target + Reach) * One
Bottom == (Target - Reach - Quantum - 1) * One

\* Rounds since the odd one, that one included.
Since == IF round = 0 THEN Period ELSE round

\* The stream the FIFO will hold when the callback under way, or the next one
\* at unity rate, has ended; and the rounds that it accounts for.
Ending == len * One - frac - IF turn = "host" THEN Quantum * One ELSE (ask - batch) * step
Spent == IF turn = "host" THEN Since - 1 ELSE Since

Above == One * Spent <= Period * (Top - Ending)
Below == primed => One * Spent <= Period * (Ending - Bottom)

ServoTypes ==
  /\ clocks \in {"slow", "equal", "fast"} /\ turn \in {"guest", "host"}
  /\ round \in 0 .. Period - 1
  /\ turn = "host" => ask = 0
  /\ ask > 0 => primed

Servoed == DrainInv /\ ServoTypes /\ Above /\ Below /\ ~starved /\ ~dropped

ServoInv == clocks # "free" => Servoed

-----------------------------------------------------------------------------
\* A whole frame is worth any number of rounds of a period.
LEMMA Enough ==
  ASSUME NEW n \in Nat, NEW o \in Nat, NEW s \in Int, s <= n, NEW z \in Int, o <= z
  PROVE  o * s <= n * z
<1>1. o * s <= o * n
  BY Monotone
<1>2. o * n = n * o /\ n * o <= n * z
  BY Monotone
<1>3. o * s \in Int /\ o * n \in Int /\ n * o \in Int /\ n * z \in Int
  OBVIOUS
<1> QED BY <1>1, <1>2, <1>3

\* The odd round takes a frame, and the account begins anew.
LEMMA OddRound ==
  ASSUME NEW n \in Nat, NEW o \in Nat, NEW z \in Int, NEW y \in Int, o * n <= n * z, z - o <= y
  PROVE  o * 0 <= n * y
<1>1. n * (z - o) = n * z - n * o /\ n * o = o * n
  OBVIOUS
<1>2. n * (z - o) <= n * y
  BY Monotone
<1>3. n * z \in Int /\ n * o \in Int /\ n * y \in Int /\ o * n \in Int /\ n * (z - o) \in Int /\ o * 0 = 0
  OBVIOUS
<1> QED BY <1>1, <1>2, <1>3

\* A round whose correction is d is accounted for.
LEMMA OneRound ==
  ASSUME NEW n \in Nat, NEW o \in Nat, NEW s \in Int, NEW z \in Int, NEW d \in Int, NEW y \in Int,
         o * (s - 1) <= n * z, o <= n * d, z + d <= y
  PROVE  o * s <= n * y
<1>1. o * (s - 1) = o * s - o /\ n * (z + d) = n * z + n * d
  OBVIOUS
<1>2. n * (z + d) <= n * y
  BY Monotone
<1>3. o * s \in Int /\ o * (s - 1) \in Int /\ n * z \in Int /\ n * d \in Int
      /\ n * (z + d) \in Int /\ n * y \in Int
  OBVIOUS
<1> QED BY <1>1, <1>2, <1>3

\* What is worth some rounds is worth something.
LEMMA Positive ==
  ASSUME NEW n \in Nat, NEW o \in Nat \ {0}, NEW s \in Nat, NEW z \in Int, o * s <= n * z
  PROVE  s > 0 => z > 0 /\ z >= 0 
<1> SUFFICES ASSUME s > 0, z <= 0 PROVE FALSE
  OBVIOUS
<1>1. n * z <= n * 0 /\ o * 1 <= o * s
  BY Monotone
<1>2. n * 0 = 0 /\ o * 1 = o /\ n * z \in Int /\ o * s \in Int
  OBVIOUS
<1> QED BY <1>1, <1>2

LEMMA ServoConstants ==
  ASSUME ServoFits
  PROVE  /\ One \in Nat \ {0} /\ Rate \in Nat /\ Rate < One /\ Target \in Nat \ {0} /\ Cap \in Nat
         /\ Band \in Nat /\ Quantum \in Nat \ {0} /\ Period \in Nat \ {0} /\ Reach \in Nat
         /\ Pull \in Nat /\ Pull > 0 /\ Top \in Int /\ Bottom \in Int
         /\ Chunk \in Nat \ {0}
<1>1. /\ One \in Nat \ {0} /\ Rate \in Nat /\ Rate < One /\ Target \in Nat \ {0} /\ Cap \in Nat
      /\ Band \in Nat /\ Quantum \in Nat \ {0} /\ Period \in Nat \ {0} /\ Reach \in Nat
      /\ Chunk \in Nat \ {0}
  BY DrainAssumption, ServoAssumption DEF ServoFits
<1>2. Pull \in Nat
  <2>1. Reach * Rate \in Nat
    BY <1>1
  <2> QED BY <1>1, <2>1, DivMod DEF Pull
<1>3. Pull # 0
  <2>1. SUFFICES ASSUME Pull = 0 PROVE FALSE
    OBVIOUS
  <2>2. Quantum * 0 = 0 /\ Period * 0 = 0
    BY <1>1
  <2>3. One <= Period * (Quantum * 0)
    BY <2>1 DEF ServoFits
  <2> QED BY <1>1, <2>2, <2>3
<1>4. Top \in Int /\ Bottom \in Int
  BY <1>1 DEF Top, Bottom
<1> QED BY <1>1, <1>2, <1>3, <1>4

\* The servo: which way the rate goes, and how far beyond Reach.
LEMMA ServoStep ==
  ASSUME ServoFits, NEW depth \in Nat, NEW phase \in 0 .. One - 1
  PROVE  /\ Step(depth, phase) \in Int /\ Step(depth, phase) > 0 /\ Step(depth, phase) <= One + Rate
         /\ depth <= Target + Band => Step(depth, phase) <= One
         /\ depth <= Target - Reach => Step(depth, phase) <= One - Pull
         /\ depth >= Target + Reach => Step(depth, phase) >= One + Pull
<1> DEFINE e == Err(depth)
<1>0. /\ One \in Nat \ {0} /\ Rate \in Nat /\ Rate < One /\ Target \in Nat \ {0}
      /\ Band \in Nat /\ Reach \in Nat /\ Band < Reach /\ Reach <= Target /\ Trim \in Nat
  BY ServoConstants, DrainAssumption DEF ServoFits
<1>1. Step(depth, phase) \in One - Rate .. One + Rate
  BY StepBound
<1>2. e \in Int
  BY <1>0 DEF Err
<1>3. depth <= Target - Reach => e <= -Reach
  BY <1>0 DEF Err
<1>4. depth >= Target + Reach => e >= Reach
  BY <1>0 DEF Err
<1>5. depth <= Target + Band /\ ~InBand(depth) => e < 0
  BY <1>0 DEF Err, InBand
<1>6. e <= -Reach \/ e >= Reach => ~InBand(depth)
  BY <1>0, <1>2 DEF InBand
<1>7. ~InBand(depth) => Step(depth, phase) = One + Quotient(e * Rate, Target)
  BY DEF Step
<1>8. InBand(depth) => Step(depth, phase) <= One
  BY <1>0 DEF Step, Least
<1> HIDE DEF e
<1>9. ASSUME e >= Reach PROVE Quotient(e * Rate, Target) >= Pull
  <2>1. Rate * Reach <= Rate * e
    BY <1>0, <1>2, <1>9, Monotone
  <2>2. Rate * Reach = Reach * Rate /\ Rate * e = e * Rate /\ Reach * Rate \in Nat /\ e * Rate \in Int
    BY <1>0, <1>2
  <2>3. e * Rate \in Nat /\ Reach * Rate <= e * Rate
    BY <2>1, <2>2
  <2>4. (e * Rate) \div Target >= (Reach * Rate) \div Target
    BY <1>0, <2>2, <2>3, DivMonotone
  <2> QED BY <2>3, <2>4 DEF Quotient, Pull
<1>10. ASSUME e <= -Reach PROVE Quotient(e * Rate, Target) <= -Pull
  <2>1. Rate * Reach <= Rate * (-e)
    BY <1>0, <1>2, <1>10, Monotone
  <2>2. Rate * Reach = Reach * Rate /\ Rate * (-e) = -(e * Rate) /\ Reach * Rate \in Nat /\ e * Rate \in Int
    BY <1>0, <1>2
  <2>3. -(e * Rate) \in Nat /\ Reach * Rate <= -(e * Rate)
    BY <2>1, <2>2
  <2>4. (-(e * Rate)) \div Target >= (Reach * Rate) \div Target
    BY <1>0, <2>2, <2>3, DivMonotone
  <2>5. (-(e * Rate)) \div Target \in Nat /\ (Reach * Rate) \div Target \in Nat
    BY <1>0, <2>2, <2>3, DivMod
  <2>6. CASE e * Rate < 0
    BY <2>2, <2>4, <2>5, <2>6 DEF Quotient, Pull
  <2>7. CASE e * Rate = 0
    <3>1. Reach * Rate = 0 /\ 0 \div Target = 0
      BY <1>0, <2>2, <2>3, <2>7
    <3> QED BY <2>7, <3>1 DEF Quotient, Pull
  <2> QED BY <2>2, <2>3, <2>6, <2>7
<1>11. ASSUME e < 0 PROVE Quotient(e * Rate, Target) <= 0
  <2>1. Rate * e <= Rate * 0 /\ Rate * e = e * Rate /\ Rate * 0 = 0 /\ e * Rate \in Int
    BY <1>0, <1>2, <1>11, Monotone
  <2>2. -(e * Rate) \in Nat
    BY <2>1
  <2>3. (-(e * Rate)) \div Target \in Nat
    BY <1>0, <2>2, DivMod
  <2>4. CASE e * Rate < 0
    BY <2>1, <2>3, <2>4 DEF Quotient
  <2>5. CASE e * Rate = 0
    <3>1. 0 \div Target = 0
      BY <1>0
    <3> QED BY <2>5, <3>1 DEF Quotient
  <2> QED BY <2>1, <2>4, <2>5
<1>12. Pull \in Nat /\ Quotient(e * Rate, Target) \in Int
  <2>1. e * Rate \in Int
    BY <1>0, <1>2
  <2> QED BY <1>0, <2>1, ServoConstants, QuotientInt
<1>13. depth <= Target + Band => Step(depth, phase) <= One
  <2>1. ASSUME depth <= Target + Band, ~InBand(depth) PROVE Step(depth, phase) <= One
    <3>1. Step(depth, phase) = One + Quotient(e * Rate, Target) /\ Quotient(e * Rate, Target) <= 0
      BY <1>5, <1>7, <1>11, <2>1
    <3> QED BY <1>0, <1>12, <3>1
  <2> QED BY <1>8, <2>1
<1>14. depth <= Target - Reach => Step(depth, phase) <= One - Pull
  BY <1>0, <1>3, <1>6, <1>7, <1>10, <1>12
<1>15. depth >= Target + Reach => Step(depth, phase) >= One + Pull
  BY <1>0, <1>4, <1>6, <1>7, <1>9, <1>12
<1> QED BY <1>0, <1>1, <1>13, <1>14, <1>15


LEMMA ServoInitInv == ServoFits /\ ServoInit => ServoInv
<1> SUFFICES ASSUME ServoFits, ServoInit, clocks # "free" PROVE Servoed
  BY DEF ServoInv
<1>1. DrainInv
  BY InitInv DEF ServoInit
<1>2. ServoTypes /\ ~starved /\ ~dropped /\ ~primed
  BY ServoConstants DEF ServoInit, Init, ServoTypes
<1>3. Spent = Period /\ Ending = 0
  <2>1. ask = 0 /\ batch = 0 /\ step = One /\ len = 0 /\ frac = 0 /\ turn = "guest" /\ round = 0
    BY DEF ServoInit, Init
  <2>2. (0 - 0) * One = 0 /\ 0 * One - 0 - 0 = 0
    BY ServoConstants
  <2> QED BY <2>1, <2>2 DEF Spent, Since, Ending
<1>4. Above
  <2>1. One <= Top - 0
    <3>1. One * 1 <= One * (Target + Reach)
      BY ServoConstants, Monotone
    <3>2. One * (Target + Reach) = Top /\ One * 1 = One
      BY ServoConstants DEF Top
    <3> QED BY <3>1, <3>2, ServoConstants
  <2>2. One * Period <= Period * (Top - 0)
    BY <2>1, ServoConstants, Enough
  <2> QED BY <1>3, <2>2 DEF Above
<1> QED BY <1>1, <1>2, <1>4 DEF Servoed, Below

\* The stream in the FIFO, in frames.
LEMMA Frames ==
  ASSUME NEW o \in Nat \ {0}, NEW n \in Int, NEW m \in Int, NEW f \in 0 .. o - 1
  PROVE  /\ n * o - f <= m * o => n <= m
         /\ m * o <= n * o - f => m <= n
         /\ n <= m => n * o - f <= m * o
         /\ m < n => m * o <= n * o - f
         /\ m * o < n * o - f => m < n
<1>1. ASSUME m + 1 <= n PROVE m * o + o <= n * o
  <2>1. o * (m + 1) <= o * n
    BY <1>1, Monotone
  <2>2. o * (m + 1) = m * o + o /\ o * n = n * o
    OBVIOUS
  <2> QED BY <2>1, <2>2
<1>2. ASSUME n <= m PROVE n * o <= m * o
  <2>1. o * n <= o * m
    BY <1>2, Monotone
  <2>2. o * m = m * o /\ o * n = n * o
    OBVIOUS
  <2> QED BY <2>1, <2>2
<1>3. ASSUME n + 1 <= m PROVE n * o + o <= m * o
  <2>1. o * (n + 1) <= o * m
    BY <1>3, Monotone
  <2>2. o * (n + 1) = n * o + o /\ o * m = m * o
    OBVIOUS
  <2> QED BY <2>1, <2>2
<1>4. n * o \in Int /\ m * o \in Int
  OBVIOUS
<1> QED BY <1>1, <1>2, <1>3, <1>4

\* The account in whole frames where it has to be: bounds of the FIFO.
LEMMA Multiples ==
  ASSUME ServoFits
  PROVE  /\ (Target + Reach) * One = Target * One + Reach * One
         /\ (Target - Reach) * One = Target * One - Reach * One
         /\ (Target + Reach - 1) * One = Target * One + Reach * One - One
         /\ Top = Target * One + Reach * One
         /\ Bottom = Target * One - Reach * One - Quantum * One - One
         /\ Target * One \in Int /\ Reach * One \in Int /\ Quantum * One \in Int
         /\ Bottom >= One
<1>1. One \in Nat \ {0} /\ Target \in Nat /\ Reach \in Nat /\ Quantum \in Nat
      /\ Target - Reach - Quantum - 1 >= 1
  BY ServoConstants DEF ServoFits
<1>2. One * 1 <= One * (Target - Reach - Quantum - 1)
  BY <1>1, Monotone
<1>3. One * (Target - Reach - Quantum - 1) = Bottom /\ One * 1 = One
  BY <1>1 DEF Bottom
<1>4. /\ (Target + Reach) * One = Target * One + Reach * One
      /\ (Target - Reach) * One = Target * One - Reach * One
      /\ (Target + Reach - 1) * One = Target * One + Reach * One - One
      /\ (Target - Reach - Quantum - 1) * One = Target * One - Reach * One - Quantum * One - One
  BY <1>1, SMT
<1>5. Target * One \in Int /\ Reach * One \in Int /\ Quantum * One \in Int
  BY <1>1
<1> QED BY <1>1, <1>2, <1>3, <1>4, <1>5 DEF Top, Bottom

LEMMA ServoRanges ==
  ASSUME ServoFits, Servoed
  PROVE  /\ len \in 0 .. Cap /\ frac \in 0 .. One - 1 /\ ask \in Nat /\ batch \in Nat /\ batch <= ask
         /\ step \in Int /\ step > 0 /\ step <= One + Rate /\ len * One \in Int
         /\ Ending \in Int /\ Spent \in Int /\ Since \in 1 .. Period /\ round \in 0 .. Period - 1
         /\ batch <= Chunk
<1>1. /\ len \in 0 .. Cap /\ frac \in 0 .. One - 1 /\ ask \in Nat /\ batch \in 0 .. Chunk /\ batch <= ask
      /\ step \in One - Rate .. One + Rate /\ round \in 0 .. Period - 1
  BY DEF Servoed, DrainInv, TypeOK, ServoTypes
<1>2. One \in Nat \ {0} /\ Rate \in Nat /\ Rate < One /\ Cap \in Nat /\ Chunk \in Nat
      /\ Period \in Nat \ {0} /\ Quantum \in Nat
  BY ServoConstants
<1>3. step \in Int /\ step > 0 /\ step <= One + Rate
  BY <1>1, <1>2
<1>4. (ask - batch) * step \in Int /\ Quantum * One \in Int /\ len * One \in Int
  BY <1>1, <1>2, <1>3
<1>5. Ending \in Int
  BY <1>1, <1>4 DEF Ending
<1>6. Since \in 1 .. Period
  BY <1>1, <1>2 DEF Since
<1>7. Spent \in Int
  BY <1>6, <1>2 DEF Spent
<1> QED BY <1>1, <1>2, <1>3, <1>4, <1>5, <1>6, <1>7

LEMMA OneOrNone ==
  ASSUME NEW q \in {-1, 0, 1}, NEW o \in Nat
  PROVE  q * o \in {-o, 0, o} /\ (q = 0 => q * o = 0)
<1>1. CASE q = -1
  BY <1>1
<1>2. CASE q = 0
  BY <1>2
<1>3. CASE q = 1
  BY <1>3
<1> QED BY <1>1, <1>2, <1>3

\* A round of the guest: a frame less or more if it is the odd one, which the
\* account of the rounds before has made room for.
LEMMA GuestKeeps ==
  ASSUME ServoFits, Servoed, Guest, UNCHANGED clocks
  PROVE  Servoed'
<1> DEFINE g == Rendered
<1>0. /\ One \in Nat \ {0} /\ Quantum \in Nat \ {0} /\ Period \in Nat \ {0} /\ Cap \in Nat
      /\ Reach \in Nat /\ Target \in Nat /\ Top \in Int /\ Bottom \in Int
  BY ServoConstants
<1>1. /\ turn = "guest" /\ turn' = "host" /\ round' = (round + 1) % Period /\ ask = 0
      /\ len' = Least(len + g, Cap) /\ dropped' = (dropped \/ len + g > Cap)
      /\ UNCHANGED <<frac, primed, unity, ask, step, batch, built, taken, origin, inBand, starved>>
  BY DEF Guest, Push, call
<1>2. /\ len \in 0 .. Cap /\ frac \in 0 .. One - 1 /\ batch = 0 /\ step \in Int
      /\ Ending \in Int /\ Since \in 1 .. Period /\ round \in 0 .. Period - 1 /\ Spent = Since
  BY <1>0, <1>1, ServoRanges DEF Spent
<1>3. g \in Nat /\ g <= Quantum + 1 /\ g >= Quantum - 1 /\ (round # 0 => g = Quantum)
  BY <1>0 DEF Rendered
<1> HIDE DEF g
<1>4. round' \in 0 .. Period - 1 /\ Since' = IF round = 0 THEN 1 ELSE Since + 1
  <2>1. CASE round + 1 < Period
    <3>1. (round + 1) % Period = round + 1
      BY <1>0, <1>2, <2>1
    <3> QED BY <1>0, <1>1, <1>2, <2>1, <3>1 DEF Since
  <2>2. CASE round + 1 = Period
    <3>1. (round + 1) % Period = 0
      BY <1>0, <2>2
    <3> QED BY <1>0, <1>1, <1>2, <2>2, <3>1 DEF Since
  <2> QED BY <1>0, <1>2, <2>1, <2>2
<1>5. Ending = len * One - frac
  <2>1. (0 - 0) * step = 0
    BY <1>2
  <2> QED BY <1>0, <1>1, <1>2, <2>1 DEF Ending
<1>6. One * Since <= Period * (Top - Ending)
  BY <1>2 DEF Servoed, Above
<1>7. primed => One * Since <= Period * (Ending - Bottom)
  BY <1>2 DEF Servoed, Below
\* What the FIFO holds leaves room for what is rendered.
<1>8. len + g <= Target + Reach + Quantum
  <2>1. CASE round = 0
    <3>1. One * Period <= Period * (Top - Ending)
      BY <1>6, <2>1 DEF Since
    <3>2. One <= Top - Ending
      <4>1. Period * One <= Period * (Top - Ending)
        BY <1>0, <3>1
      <4>2. One * Period <= (Top - Ending) * Period
        BY <1>0, <1>2, <4>1
      <4>3. Top - Ending \in Int
        BY <1>0, <1>2
      <4> QED BY <1>0, <4>2, <4>3, Cancel
    <3>3. len * One - frac <= (Target + Reach - 1) * One
      BY <1>0, <1>2, <1>5, <3>2, Multiples
    <3>4. len <= Target + Reach - 1
      BY <1>0, <1>2, <3>3, Frames
    <3> QED BY <1>0, <1>2, <1>3, <3>4
  <2>2. CASE round # 0
    <3>1. Top - Ending >= 0
      BY <1>0, <1>2, <1>6, Positive
    <3>2. len * One - frac <= (Target + Reach) * One
      BY <1>0, <1>2, <1>5, <3>1, Multiples
    <3>3. len <= Target + Reach
      BY <1>0, <1>2, <3>2, Frames
    <3> QED BY <1>0, <1>2, <1>3, <2>2, <3>3
  <2> QED BY <2>1, <2>2
<1>9. len' = len + g /\ ~dropped'
  <2>1. len + g <= Cap /\ len + g \in Int
    BY <1>0, <1>2, <1>3, <1>8 DEF ServoFits
  <2>2. ~(len + g > Cap) /\ Least(len + g, Cap) = len + g
    BY <1>0, <2>1 DEF Least
  <2> QED BY <1>1, <2>2, Zenon DEF Servoed
<1>10. /\ Ending' = Ending + (g - Quantum) * One
       /\ Ending' \in Int /\ (round # 0 => Ending' = Ending)
       /\ Ending' >= Ending - One /\ Ending' <= Ending + One
  <2>1. Ending' = (len + g) * One - frac - Quantum * One
    BY <1>1, <1>9 DEF Ending
  <2>2. (len + g) * One = len * One + g * One /\ (g - Quantum) * One = g * One - Quantum * One
        /\ len * One \in Int /\ g * One \in Int /\ Quantum * One \in Int
    BY <1>0, <1>2, <1>3, SMT
  <2>3. (g - Quantum) * One \in {-One, 0, One} /\ (round # 0 => (g - Quantum) * One = 0)
    <3>1. g - Quantum \in {-1, 0, 1} /\ (round # 0 => g - Quantum = 0)
      BY <1>0, <1>3
    <3> QED BY <1>0, <3>1, OneOrNone
  <2>4. Ending' = Ending + (g - Quantum) * One
    BY <1>0, <1>2, <1>5, <2>1, <2>2
  <2> QED BY <1>0, <1>2, <2>3, <2>4
<1>11. Spent' = Since' - 1
  BY <1>1 DEF Spent
<1>12. ASSUME NEW z \in Int, NEW y \in Int, One * Since <= Period * z, z - One <= y,
              round # 0 => y = z
       PROVE  One * Spent' <= Period * y
  <2>1. CASE round = 0
    <3>1. One * Period <= Period * z
      BY <1>12, <2>1 DEF Since
    <3>2. One * 0 <= Period * y
      BY <1>0, <1>12, <3>1, OddRound
    <3> QED BY <1>4, <1>11, <2>1, <3>2
  <2>2. CASE round # 0
    <3>1. Spent' = Since /\ y = z
      BY <1>2, <1>4, <1>11, <1>12, <2>2
    <3> QED BY <1>12, <3>1
  <2> QED BY <2>1, <2>2
<1>13. Top' = Top /\ Bottom' = Bottom
  BY DEF Top, Bottom
<1>14. Above'
  <2>1. Top - Ending \in Int /\ Top - Ending' \in Int /\ (Top - Ending) - One <= Top - Ending'
        /\ (round # 0 => Top - Ending' = Top - Ending)
    BY <1>0, <1>2, <1>10
  <2>2. One * Spent' <= Period * (Top - Ending')
    BY <1>6, <1>12, <2>1
  <2> QED BY <1>13, <2>2 DEF Above
<1>15. Below'
  <2>1. SUFFICES ASSUME primed PROVE One * Spent' <= Period * (Ending' - Bottom)
    BY <1>1, <1>13 DEF Below
  <2>2. Ending - Bottom \in Int /\ Ending' - Bottom \in Int /\ (Ending - Bottom) - One <= Ending' - Bottom
        /\ (round # 0 => Ending' - Bottom = Ending - Bottom)
    BY <1>0, <1>2, <1>10
  <2> QED BY <1>7, <1>12, <2>1, <2>2
<1>16. DrainInv'
  BY <1>3, PushInv DEF Servoed, Guest, g
<1>17. ServoTypes'
  BY <1>1, <1>4 DEF Servoed, ServoTypes
<1> QED BY <1>1, <1>9, <1>14, <1>15, <1>16, <1>17 DEF Servoed


\* What a callback takes of the stream, consumed, is enough above Reach, not
\* too much below, and what lies between is far from either end.
LEMMA CallbackKeeps ==
  ASSUME ServoFits, Servoed, turn = "host", NEW s \in Int, NEW consumed \in Int, NEW ending \in Int,
         ending = len * One - frac - consumed,
         primed \/ len >= Target, s > 0, consumed >= 0,
         len >= Target + Reach => s >= One + Pull /\ consumed = Quantum * s,
         len <= Target - Reach => s <= One - Pull /\ consumed = Quantum * s,
         len <= Target + Band => consumed <= Quantum * One,
         consumed <= Quantum * One + Quantum * Rate
  PROVE  One * Since <= Period * (Top - ending) /\ One * Since <= Period * (ending - Bottom)
<1>0. /\ One \in Nat \ {0} /\ Quantum \in Nat \ {0} /\ Period \in Nat \ {0} /\ Band \in Nat
      /\ Reach \in Nat /\ Target \in Nat /\ Top \in Int /\ Bottom \in Int /\ Pull \in Nat /\ Rate \in Nat
      /\ Band < Reach /\ One <= Period * (Quantum * Pull) /\ Quantum * Rate <= Reach * One
      /\ Quantum * Rate \in Int /\ Quantum * Pull \in Int
  BY ServoConstants DEF ServoFits
<1>1. /\ len \in Nat /\ frac \in 0 .. One - 1 /\ len * One \in Int /\ Ending \in Int
      /\ Since \in 1 .. Period
  BY <1>0, ServoRanges
<1>2. /\ One * (Since - 1) <= Period * (Top - Ending)
      /\ primed => One * (Since - 1) <= Period * (Ending - Bottom)
      /\ Ending = len * One - frac - Quantum * One
  BY DEF Servoed, Above, Below, Spent, Ending
<1>3. /\ (Target + Reach - 1) * One = Target * One + Reach * One - One
      /\ (Target - Reach) * One = Target * One - Reach * One
      /\ Top = Target * One + Reach * One
      /\ Bottom = Target * One - Reach * One - Quantum * One - One
      /\ Target * One \in Int /\ Reach * One \in Int /\ Quantum * One \in Int
  BY Multiples
\* Nearer to the top.
<1>4. One * Since <= Period * (Top - ending)
  <2>1. CASE len >= Target + Reach
    <3>1. consumed = Quantum * s /\ Quantum * (One + Pull) <= Quantum * s
      BY <1>0, <2>1, Monotone
    <3>2. Quantum * (One + Pull) = Quantum * One + Quantum * Pull
      BY <1>0
    <3>3. (Top - Ending) + Quantum * Pull <= Top - ending
      BY <1>0, <1>1, <1>2, <1>3, <3>1, <3>2
    <3>4. Top - Ending \in Int /\ Top - ending \in Int
      BY <1>0, <1>1
    <3> QED BY <1>0, <1>1, <1>2, <3>3, <3>4, OneRound
  <2>2. CASE len <= Target + Reach - 1
    <3>1. len * One - frac <= (Target + Reach - 1) * One
      BY <1>0, <1>1, <2>2, Frames
    <3>2. One <= Top - ending /\ Top - ending \in Int
      BY <1>0, <1>1, <1>3, <3>1
    <3> QED BY <1>0, <1>1, <3>2, Enough
  <2> QED BY <1>0, <1>1, <2>1, <2>2
\* Nearer to the bottom.
<1>5. One * Since <= Period * (ending - Bottom)
  <2>1. CASE len <= Target - Reach
    <3>1. primed
      BY <1>0, <1>1, <2>1
    <3>2. consumed = Quantum * s /\ Quantum * s <= Quantum * (One - Pull)
      BY <1>0, <2>1, Monotone
    <3>3. Quantum * (One - Pull) = Quantum * One - Quantum * Pull
      BY <1>0
    <3>4. (Ending - Bottom) + Quantum * Pull <= ending - Bottom
      BY <1>0, <1>1, <1>2, <1>3, <3>2, <3>3
    <3>5. Ending - Bottom \in Int /\ ending - Bottom \in Int
      BY <1>0, <1>1
    <3> QED BY <1>0, <1>1, <1>2, <3>1, <3>4, <3>5, OneRound
  <2>2. CASE len > Target - Reach /\ len <= Target + Band
    <3>1. (Target - Reach) * One <= len * One - frac
      BY <1>0, <1>1, <2>2, Frames
    <3>2. One <= ending - Bottom /\ ending - Bottom \in Int
      BY <1>0, <1>1, <1>3, <2>2, <3>1
    <3> QED BY <1>0, <1>1, <3>2, Enough
  <2>3. CASE len > Target + Band
    <3>1. Target * One <= len * One - frac
      BY <1>0, <1>1, <2>3, Frames
    <3>2. One <= ending - Bottom /\ ending - Bottom \in Int
      BY <1>0, <1>1, <1>3, <3>1
    <3> QED BY <1>0, <1>1, <3>2, Enough
  <2> QED BY <1>0, <1>1, <2>1, <2>2, <2>3
<1> QED BY <1>4, <1>5

LEMMA HostKeeps ==
  ASSUME ServoFits, Servoed, Host, UNCHANGED clocks
  PROVE  Servoed'
<1>0. /\ One \in Nat \ {0} /\ Quantum \in Nat \ {0} /\ Period \in Nat \ {0} /\ Band \in Nat
      /\ Reach \in Nat /\ Target \in Nat /\ Top \in Int /\ Bottom \in Int /\ Pull \in Nat /\ Rate \in Nat
      /\ Band < Reach /\ Quantum + 2 <= Target - Reach /\ Pull > 0
  BY ServoConstants DEF ServoFits
<1>1. /\ turn = "host" /\ turn' = "guest" /\ UNCHANGED <<round, unity, dropped>> /\ ask = 0
      /\ OutCb(Quantum)
  BY DEF Host, OutCb
<1>2. /\ len \in 0 .. Cap /\ frac \in 0 .. One - 1 /\ batch = 0 /\ step \in Int
      /\ len * One \in Int /\ Since \in 1 .. Period
  BY <1>0, <1>1, ServoRanges
<1>3. Since' = Since /\ Spent' = Since /\ Top' = Top /\ Bottom' = Bottom
  BY <1>1 DEF Since, Spent, Top, Bottom
<1>4. DrainInv'
  BY <1>0, <1>1, OutCbInv DEF Servoed
<1>5. /\ clocks' \in {"slow", "equal", "fast"} /\ turn' \in {"guest", "host"}
      /\ round' \in 0 .. Period - 1 /\ turn' # "host" /\ ~starved /\ ~dropped'
  BY <1>1 DEF Servoed, ServoTypes
<1>6. DEFINE s == Step(len, frac)
<1>7. /\ s \in Int /\ s > 0 /\ s <= One + Rate
      /\ len <= Target + Band => s <= One
      /\ len <= Target - Reach => s <= One - Pull
      /\ len >= Target + Reach => s >= One + Pull
  BY <1>0, <1>2, ServoStep
<1> HIDE DEF s
<1>8. CASE ~primed /\ len < Target /\ UNCHANGED <<fifo, primed, call, starved>>
  <2>1. Ending' = len * One - frac
    <3>1. ask' = 0 /\ batch' = 0 /\ len' = len /\ frac' = frac /\ step' = step
      BY <1>1, <1>2, <1>8 DEF fifo, call
    <3>2. (0 - 0) * step = 0
      BY <1>2
    <3> QED BY <1>1, <1>2, <3>1, <3>2 DEF Ending
  <2>2. One <= Top - Ending' /\ Top - Ending' \in Int
    <3>1. len <= Target + Reach - 1
      BY <1>0, <1>2, <1>8
    <3>2. len * One - frac <= (Target + Reach - 1) * One
      BY <1>0, <1>2, <3>1, Frames
    <3> QED BY <1>0, <1>2, <2>1, <3>2, Multiples
  <2>3. Above'
    BY <1>0, <1>2, <1>3, <2>2, Enough DEF Above
  <2>4. Below' /\ ServoTypes' /\ ~starved'
    BY <1>1, <1>5, <1>8 DEF Below, ServoTypes, call
  <2> QED BY <1>4, <1>5, <2>3, <2>4 DEF Servoed
<1>9. ASSUME primed \/ len >= Target, primed', Fast,
             NEW w \in 0 .. Least(Quantum, IF len = 0 THEN 0 ELSE len - 1), CopyFrames(Quantum, w)
      PROVE  Servoed'
  <2>1. s = One /\ frac = 0
    BY <1>9 DEF Fast, s
  <2>2. len > Target - Reach /\ len < Target + Reach
    BY <1>0, <1>2, <1>7, <2>1
  <2>3. w \in Nat /\ w <= Quantum
    BY <1>0, <1>2, <1>9 DEF Least
  <2>4. len' = len - w /\ frac' = 0 /\ ask' = 0 /\ batch' = 0 /\ step' = step
    BY <1>1, <1>2, <1>9, <2>1 DEF CopyFrames, call
  <2>5. ~starved'
    <3>1. ~(Quantum >= len)
      BY <1>0, <1>2, <2>2
    <3> QED BY <1>5, <1>9, <3>1, Zenon DEF CopyFrames
  <2>6. /\ w * One \in Int /\ w * One >= 0 /\ w * One <= Quantum * One
        /\ (len - w) * One = len * One - w * One
    <3>1. One * 0 <= One * w /\ One * w <= One * Quantum
      BY <1>0, <2>3, Monotone
    <3>2. One * 0 = 0 /\ One * w = w * One /\ One * Quantum = Quantum * One /\ w * One \in Int
      BY <1>0, <2>3
    <3>3. (len - w) * One = len * One - w * One
      BY <1>0, <1>2, <2>3, SMT
    <3> QED BY <3>1, <3>2, <3>3
  <2>7. Ending' = len * One - frac - w * One
    <3>1. (0 - 0) * step = 0
      BY <1>2
    <3>2. Ending' = (len - w) * One - 0 - 0
      BY <1>1, <2>4, <3>1 DEF Ending
    <3> QED BY <1>2, <2>1, <2>6, <3>2
  <2>8. Quantum * Rate >= 0 /\ Quantum * Rate \in Int /\ Quantum * One \in Int
    BY <1>0
  <2>9. Ending' \in Int
    BY <1>2, <2>6, <2>7
  <2>10. /\ One * Since <= Period * (Top - Ending')
         /\ One * Since <= Period * (Ending' - Bottom)
    <3>1. w * One <= Quantum * One + Quantum * Rate
      BY <2>6, <2>8
    <3>2. ~(len >= Target + Reach) /\ ~(len <= Target - Reach)
      BY <1>0, <1>2, <2>2
    <3> DEFINE c == w * One
    <3>3. c \in Int /\ c >= 0 /\ c <= Quantum * One /\ c <= Quantum * One + Quantum * Rate
          /\ Ending' = len * One - frac - c
      BY <2>6, <2>7, <3>1
    <3> HIDE DEF c
    <3> QED BY <1>1, <1>7, <1>9, <2>9, <3>2, <3>3, CallbackKeeps
  <2>11. Above' /\ Below'
    BY <1>3, <2>10 DEF Above, Below
  <2>12. ServoTypes'
    BY <1>5, <2>4 DEF ServoTypes
  <2> QED BY <1>4, <1>5, <2>5, <2>11, <2>12 DEF Servoed
<1>10. ASSUME primed \/ len >= Target, primed', Begin(Quantum)
       PROVE  Servoed'
  <2>1. len' = len /\ frac' = frac /\ ask' = Quantum /\ batch' = 0 /\ step' = s /\ starved' = starved
    BY <1>10 DEF Begin, fifo, s
  <2>2. Ending' = len * One - frac - Quantum * s
    <3>1. Quantum - 0 = Quantum
      BY <1>0
    <3> QED BY <1>1, <2>1, <3>1 DEF Ending
  <2>3. /\ Quantum * s \in Int /\ Quantum * s >= 0
        /\ Quantum * s <= Quantum * One + Quantum * Rate
        /\ s <= One => Quantum * s <= Quantum * One
        /\ Quantum * One \in Int
    <3>1. Quantum * 0 <= Quantum * s /\ Quantum * s <= Quantum * (One + Rate)
          /\ (s <= One => Quantum * s <= Quantum * One)
      BY <1>0, <1>7, Monotone
    <3>2. Quantum * 0 = 0 /\ Quantum * (One + Rate) = Quantum * One + Quantum * Rate
          /\ Quantum * s \in Int /\ Quantum * One \in Int
      BY <1>0, <1>7
    <3> QED BY <3>1, <3>2
  <2>4. Ending' \in Int
    BY <1>2, <2>2, <2>3
  <2>5. /\ One * Since <= Period * (Top - Ending')
        /\ One * Since <= Period * (Ending' - Bottom)
    BY <1>0, <1>1, <1>2, <1>7, <1>10, <2>2, <2>3, <2>4, CallbackKeeps
  <2>6. Above' /\ Below'
    BY <1>3, <2>5 DEF Above, Below
  <2>7. ServoTypes'
    BY <1>5, <1>10 DEF ServoTypes
  <2> QED BY <1>4, <1>5, <2>1, <2>6, <2>7 DEF Servoed
<1>11. \/ ~primed /\ len < Target /\ UNCHANGED <<fifo, primed, call, starved>>
       \/ /\ primed \/ len >= Target
          /\ primed'
          /\ \/ /\ Fast
                /\ \E w \in 0 .. Least(Quantum, IF len = 0 THEN 0 ELSE len - 1) : CopyFrames(Quantum, w)
             \/ Begin(Quantum)
  <2>1. len < Target \/ len >= Target
    BY <1>0, <1>2
  <2> QED BY <1>1, <2>1, Zenon DEF OutCb
<1> QED BY <1>8, <1>9, <1>10, <1>11

\* Within a callback the end is where it was.
LEMMA NotStarved ==
  ASSUME ServoFits, Servoed, ask > 0, batch < ask
  PROVE  len >= 2
<1>0. /\ One \in Nat \ {0} /\ Bottom \in Int /\ Period \in Nat
  BY ServoConstants
<1>1. /\ len \in Nat /\ frac \in 0 .. One - 1 /\ ask \in Nat /\ batch \in Nat /\ step \in Int /\ step > 0
      /\ len * One \in Int /\ Ending \in Int /\ Since \in 1 .. Period
  BY ServoRanges
<1>2. primed /\ turn = "guest"
  BY DEF Servoed, ServoTypes
<1>3. Ending - Bottom > 0
  <2>1. One * Since <= Period * (Ending - Bottom)
    BY <1>2 DEF Servoed, Below, Spent
  <2>2. Ending - Bottom \in Int /\ Since \in Nat /\ Since > 0
    BY <1>0, <1>1
  <2> QED BY <1>0, <2>1, <2>2, Positive
<1>4. (ask - batch) * step >= 0 /\ (ask - batch) * step \in Int
  <2>1. step * 0 <= step * (ask - batch) /\ step * 0 = 0 /\ step \in Nat /\ ask - batch \in Int
    BY <1>1, Monotone
  <2>2. step * (ask - batch) = (ask - batch) * step /\ step * (ask - batch) \in Int
    BY <2>1
  <2> QED BY <2>1, <2>2
<1>5. Ending = len * One - frac - (ask - batch) * step
  BY <1>2 DEF Ending
<1>6. 1 * One < len * One - frac
  <2>1. Bottom >= One /\ 1 * One = One
    BY <1>0, Multiples
  <2> QED BY <1>0, <1>1, <1>3, <1>4, <1>5, <2>1
<1>7. 1 < len
  BY <1>0, <1>1, <1>6, Frames
<1> QED BY <1>1, <1>7

LEMMA EmitKeeps ==
  ASSUME ServoFits, Servoed, Emit, UNCHANGED <<clocks, turn, round>>
  PROVE  Servoed'
<1>0. /\ One \in Nat \ {0} /\ Rate \in Nat /\ Rate < One
  BY ServoConstants
<1>1. /\ len \in Nat /\ frac \in 0 .. One - 1 /\ ask \in Nat /\ batch \in Nat /\ step \in Int
      /\ step > 0 /\ step <= One + Rate /\ len * One \in Int
  BY ServoRanges
<1> DEFINE whole == (frac + step) \div One
<1>2. /\ ask > 0 /\ len >= 2 /\ frac' = frac + step - whole * One
      /\ len' = len - Least(whole, len) /\ batch' = batch + 1
      /\ UNCHANGED <<primed, ask, step, starved, dropped>>
  BY DEF Emit
<1>3. whole \in Nat /\ whole <= 2
  <2>1. frac + step \in Nat /\ frac + step < 3 * One
    BY <1>0, <1>1
  <2>2. whole \in Nat /\ whole * One <= frac + step
    BY <1>0, <2>1, DivMod
  <2> HIDE DEF whole
  <2>3. ASSUME 3 <= whole PROVE FALSE
    <3>1. One * 3 <= One * whole /\ One * whole = whole * One /\ whole * One \in Int
      BY <1>0, <2>2, <2>3, Monotone
    <3> QED BY <1>0, <1>1, <2>1, <2>2, <3>1
  <2> QED BY <2>2, <2>3
<1> HIDE DEF whole
<1>4. len' = len - whole
  BY <1>1, <1>2, <1>3 DEF Least
<1>5. turn = "guest" /\ turn' = "guest"
  BY <1>2 DEF Servoed, ServoTypes
<1>6. Ending' = Ending
  <2>1. (len - whole) * One = len * One - whole * One /\ whole * One \in Int
    BY <1>0, <1>1, <1>3, SMT
  <2>2. (ask - (batch + 1)) * step = (ask - batch) * step - step /\ (ask - batch) * step \in Int
    BY <1>1, SMT
  <2>3. Ending' = (len - whole) * One - (frac + step - whole * One) - (ask - (batch + 1)) * step
    BY <1>2, <1>4, <1>5 DEF Ending
  <2>4. Ending = len * One - frac - (ask - batch) * step
    BY <1>5 DEF Ending
  <2> QED BY <1>1, <2>1, <2>2, <2>3, <2>4
<1>7. Spent' = Spent /\ Top' = Top /\ Bottom' = Bottom
  BY DEF Spent, Since, Top, Bottom
<1>8. Above' /\ Below'
  BY <1>2, <1>6, <1>7 DEF Servoed, Above, Below
<1>9. DrainInv'
  BY EmitInv DEF Servoed
<1>10. ServoTypes' /\ ~starved' /\ ~dropped'
  BY <1>2, <1>5 DEF Servoed, ServoTypes
<1> QED BY <1>8, <1>9, <1>10 DEF Servoed

LEMMA WriteKeeps ==
  ASSUME ServoFits, Servoed, Write(batch), UNCHANGED <<clocks, turn, round>>
  PROVE  Servoed'
<1>1. /\ len \in Nat /\ frac \in Int /\ ask \in Nat /\ batch \in Nat /\ batch <= ask /\ step \in Int
  BY ServoRanges, ServoConstants
<1>2. /\ ask > 0 /\ ~(Room /\ len >= 2) /\ batch' = 0
      /\ ask' = IF batch > 0 THEN ask - batch ELSE 0
      /\ starved' = (starved \/ (len < 2 /\ batch < ask))
      /\ UNCHANGED <<len, frac, primed, step, dropped>>
  BY DEF Write, fifo
<1>3. batch < ask => len >= 2
  BY <1>2, NotStarved
<1>4. batch > 0
  <2>1. ASSUME batch = 0 PROVE FALSE
    <3>1. Room
      BY <1>1, <1>2, <2>1, DrainAssumption DEF Room, Least
    <3> QED BY <1>2, <1>3, <2>1, <3>1
  <2> QED BY <1>1, <2>1
<1>5. ~starved'
  <2>1. ~(len < 2 /\ batch < ask)
    BY <1>1, <1>3
  <2> QED BY <1>2, <2>1, Zenon DEF Servoed
<1>6. turn = "guest" /\ turn' = "guest"
  BY <1>2 DEF Servoed, ServoTypes
<1>7. Ending' = Ending
  <2>1. ask' - batch' = ask - batch
    BY <1>1, <1>2, <1>4
  <2> QED BY <1>2, <1>6, <2>1 DEF Ending
<1>8. Spent' = Spent /\ Top' = Top /\ Bottom' = Bottom
  BY DEF Spent, Since, Top, Bottom
<1>9. Above' /\ Below'
  BY <1>2, <1>7, <1>8 DEF Servoed, Above, Below
<1>10. DrainInv'
  <2>1. batch \in 0 .. batch
    BY <1>1
  <2> QED BY <2>1, WriteInv DEF Servoed
<1>11. ServoTypes' /\ ~dropped'
  BY <1>2, <1>6 DEF Servoed, ServoTypes
<1> QED BY <1>5, <1>9, <1>10, <1>11 DEF Servoed

LEMMA ServoNextInv ==
  ASSUME ServoFits, ServoInv, [ServoNext]_servoVars
  PROVE  ServoInv'
<1>1. CASE UNCHANGED servoVars
  BY <1>1 DEF servoVars, vars, fifo, call, ServoInv, Servoed, DrainInv, TypeOK, PhaseExact, ServoTypes,
              Above, Below, Spent, Since, Ending, Top, Bottom
<1>2. CASE ServoNext /\ clocks = "free"
  BY <1>2 DEF ServoNext, ServoInv
<1>3. CASE ServoNext /\ clocks # "free"
  <2>1. UNCHANGED clocks /\ Lockstep /\ Servoed
    BY <1>3 DEF ServoNext, ServoInv
  <2>2. Servoed'
    BY <2>1, GuestKeeps, HostKeeps, EmitKeeps, WriteKeeps DEF Lockstep
  <2> QED BY <2>2 DEF ServoInv
<1> QED BY <1>1, <1>2, <1>3

\* The account of the drift holds in every reachable state (rza1l_ssif_drain).
THEOREM ServoInvariance == ServoFits => (ServoSpec => []ServoInv)
<1> SUFFICES ASSUME ServoFits PROVE ServoSpec => []ServoInv
  OBVIOUS
<1>1. ServoInv /\ [ServoNext]_servoVars => ServoInv'
  BY ServoNextInv
<1> QED BY <1>1, ServoInitInv, PTL DEF ServoSpec

(* Drift that the correction makes up for within Reach of the target       *)
(* neither empties the FIFO nor fills it, however long it lasts, for any   *)
(* callback, period, target and FIFO that fit together (rza1l_ssif_drain). *)
THEOREM DriftHeld == ServoFits => (ServoSpec => []DriftAbsorbed)
<1> SUFFICES ASSUME ServoFits PROVE ServoSpec => []DriftAbsorbed
  OBVIOUS
<1>1. ServoInv => DriftAbsorbed
  BY DEF ServoInv, Servoed, DriftAbsorbed
<1> QED BY <1>1, ServoInvariance, PTL

-----------------------------------------------------------------------------
(* The pump.  That the copy is never lapped needs a bound on what the      *)
(* firmware may render between two copies: it renders up to the play head  *)
(* as it last read it, and that read pumped; so since the copy before it,  *)
(* play has gone on by less than the throttle window.                      *)

PumpTypes ==
  /\ armed \in BOOLEAN /\ known \in BOOLEAN /\ searchDone \in BOOLEAN
  /\ anchored \in BOOLEAN /\ torn \in BOOLEAN /\ late \in BOOLEAN
  /\ ring \in [P!Offsets -> Nat]
  /\ head \in P!Offsets /\ goal \in P!Offsets /\ play \in P!Offsets /\ readOff \in P!Offsets
  /\ rendered \in Nat /\ staged \in Nat
  /\ age \in 0 .. Window

\* Without a ring nothing is anchored; without an anchor nothing is staged;
\* a head is known only at the end of the search.
Disarmed ==
  /\ ~armed => ~anchored /\ ~late
  /\ ~anchored => staged = 0
  /\ known => searchDone

\* The slot before the render head holds the last rendering, or none.
LastRendered == armed => ring[P!Wrap(head + Size - 1)] \in {0, rendered}

\* A firmware that keeps up is within the backlog of the play head, and has
\* not passed the play head as it last read it.
KeepsUp ==
  armed /\ ~late =>
    /\ P!Ahead(head, play) < Backlog
    /\ P!Ahead(head, goal) <= P!Ahead(head, play)

\* Frames rendered and not yet copied.
Fresh == P!Ahead(readOff, head)

Bounded == known /\ anchored /\ ~late

\* They and the backlog fit between two copies.
NotLapped ==
  Bounded =>
    /\ Fresh + P!Ahead(head, goal) <= Backlog + Window - 2
    /\ age < Window => Fresh + P!Ahead(head, play) < Backlog + age

\* They are the last ones rendered, and follow the last one staged.
FreshFrames ==
  Bounded =>
    /\ Fresh <= rendered
    /\ \A i \in 0 .. Fresh - 1 : ring[P!Wrap(readOff + i)] = rendered - Fresh + 1 + i
    /\ staged # 0 => staged = rendered - Fresh

PumpInv == PumpTypes /\ Disarmed /\ LastRendered /\ KeepsUp /\ NotLapped /\ FreshFrames

-----------------------------------------------------------------------------
(* Ring arithmetic. *)

LEMMA RingTypes ==
  ASSUME P!PumpAssumption, NEW a \in P!Offsets, NEW b \in P!Offsets
  PROVE  /\ P!Ahead(a, b) \in P!Offsets
         /\ P!Wrap(a + b) \in P!Offsets
         /\ P!Wrap(a + 1) \in P!Offsets
         /\ P!Wrap(a + Size - 1) \in P!Offsets
         /\ P!Wrap(a + P!Ahead(a, b)) = b
         /\ P!Ahead(a, a) = 0
  BY DEF P!PumpAssumption, P!Offsets, P!Ahead, P!Wrap

\* A head that moves on is one further from what is behind it, unless it
\* catches up with it, and one nearer to what is before it.
LEMMA RingStep ==
  ASSUME P!PumpAssumption, NEW a \in P!Offsets, NEW b \in P!Offsets
  PROVE  /\ P!Ahead(a, b) < Size - 1 => P!Ahead(a, P!Wrap(b + 1)) = P!Ahead(a, b) + 1
         /\ a # b => P!Ahead(P!Wrap(a + 1), b) = P!Ahead(a, b) - 1
         /\ P!Wrap(P!Wrap(a + 1) + Size - 1) = a
  BY DEF P!PumpAssumption, P!Offsets, P!Ahead, P!Wrap

\* Two distances from one place differ if the places do.
LEMMA RingApart ==
  ASSUME P!PumpAssumption, NEW a \in P!Offsets, NEW b \in P!Offsets,
         NEW i \in Nat, i < P!Ahead(a, b)
  PROVE  P!Wrap(a + i) \in P!Offsets /\ P!Wrap(a + i) # b
  BY DEF P!PumpAssumption, P!Offsets, P!Ahead, P!Wrap

\* The slot before the end of a distance.
LEMMA RingLast ==
  ASSUME P!PumpAssumption, NEW a \in P!Offsets, NEW b \in P!Offsets, P!Ahead(a, b) > 0
  PROVE  P!Wrap(a + (P!Ahead(a, b) - 1)) = P!Wrap(b + Size - 1)
  BY DEF P!PumpAssumption, P!Offsets, P!Ahead, P!Wrap

\* What the invariant and the steps measure.
LEMMA Distances ==
  ASSUME P!PumpAssumption, PumpTypes
  PROVE  /\ P!Ahead(head, play) \in Nat /\ P!Ahead(head, goal) \in Nat /\ Fresh \in Nat
         /\ Backlog \in Nat /\ Window \in Nat /\ Size \in Nat /\ Backlog + Window < Size
         /\ age \in Nat /\ age <= Window /\ rendered \in Nat
<1>1. P!Ahead(head, play) \in P!Offsets /\ P!Ahead(head, goal) \in P!Offsets /\ Fresh \in P!Offsets
  BY RingTypes DEF PumpTypes, Fresh
<1>2. \A i \in P!Offsets : i \in Nat
  BY DEF P!Offsets, P!PumpAssumption
<1>3. Backlog \in Nat /\ Window \in Nat /\ Size \in Nat /\ Backlog + Window < Size
  BY DEF P!PumpAssumption
<1>4. age \in Nat /\ age <= Window /\ rendered \in Nat
  BY <1>3 DEF PumpTypes
<1> QED BY <1>1, <1>2, <1>3, <1>4

-----------------------------------------------------------------------------
LEMMA PumpInitInv ==
  ASSUME P!PumpAssumption
  PROVE  P!Init => PumpInv
<1> SUFFICES ASSUME P!Init PROVE PumpInv
  OBVIOUS
<1>1. PumpTypes
  <2>1. armed \in BOOLEAN /\ known \in BOOLEAN /\ searchDone \in BOOLEAN
        /\ anchored \in BOOLEAN /\ torn \in BOOLEAN /\ late \in BOOLEAN
    BY Zenon DEF P!Init
  <2>2. 0 \in P!Offsets /\ Window \in 0 .. Window
    BY DEF P!PumpAssumption, P!Offsets
  <2>3. ring \in [P!Offsets -> Nat]
    BY DEF P!Init
  <2> QED BY <2>1, <2>2, <2>3 DEF P!Init, PumpTypes
<1>2. Disarmed /\ LastRendered /\ KeepsUp /\ NotLapped /\ FreshFrames
  BY DEF P!Init, Disarmed, LastRendered, KeepsUp, NotLapped, FreshFrames, Bounded
<1> QED BY <1>1, <1>2 DEF PumpInv

\* The copy, with or without a search that ends in it; the firmware may have
\* read the play head besides.
LEMMA StepCopy ==
  ASSUME P!PumpAssumption, PumpInv, armed, ~P!Throttled, P!Search, P!Copy,
         UNCHANGED <<armed, ring, head, rendered, play, mode, late>>,
         goal' \in {goal, play}
  PROVE  PumpInv' /\ (known /\ ~late => (torn' => torn))
<1> DEFINE from  == IF anchored THEN readOff ELSE P!CopyTarget
           dist  == P!Ahead(from, P!CopyTarget)
           avail == IF dist >= Size - 1 THEN 0 ELSE dist
           Frame(i) == ring[P!Wrap(from + i)]
<1>1. PumpTypes /\ Disarmed /\ LastRendered /\ KeepsUp
  BY DEF PumpInv
<1>2. known' \in BOOLEAN /\ searchDone' \in BOOLEAN
      /\ (known => known') /\ (known' => searchDone')
  BY <1>1 DEF P!Search, PumpTypes, Disarmed
<1>3. P!CopyTarget \in P!Offsets /\ from \in P!Offsets /\ (known' => P!CopyTarget = head)
  BY <1>1 DEF P!CopyTarget, PumpTypes
<1>4. /\ dist \in P!Offsets /\ Size \in Nat /\ Size > 2
      /\ avail \in 0 .. Size - 2 /\ (avail > 0 => avail = dist)
  <2>1. dist \in P!Offsets
    BY <1>3, RingTypes
  <2>2. Size \in Nat /\ Size > 2
    BY DEF P!PumpAssumption
  <2> HIDE DEF dist
  <2> QED BY <2>1, <2>2 DEF P!Offsets
<1>5. /\ anchored' = TRUE /\ readOff' = P!CopyTarget /\ age' = 0
      /\ staged' = IF avail > 0 THEN Frame(avail - 1)
                   ELSE IF known' = known THEN staged ELSE 0
  BY DEF P!Copy
<1>6. torn' = (torn \/ \/ \E i \in 1 .. avail - 1 : Frame(i) # Frame(i - 1) + 1
                       \/ avail > 0 /\ Frame(0) # staged + 1 /\ staged # 0
                       \/ avail # dist)
  BY DEF P!Copy
<1>7. avail > 0 => Frame(avail - 1) = ring[P!Wrap(P!CopyTarget + Size - 1)]
  BY <1>3, <1>4, RingLast
<1>8. \A i \in 0 .. avail - 1 : Frame(i) \in Nat
  <2> SUFFICES ASSUME NEW i \in 0 .. avail - 1 PROVE ring[P!Wrap(from + i)] \in Nat
    OBVIOUS
  <2>1. i \in P!Offsets
    BY <1>4 DEF P!Offsets
  <2> QED BY <1>1, <1>3, <2>1, RingTypes DEF PumpTypes
<1>9. ASSUME known, ~late, anchored
      PROVE  /\ dist = Fresh /\ avail = dist
             /\ \A i \in 0 .. avail - 1 : Frame(i) = rendered - avail + 1 + i
             /\ staged # 0 => staged = rendered - avail
  <2>1. Bounded /\ from = readOff /\ P!CopyTarget = head
    BY <1>2, <1>3, <1>9 DEF Bounded
  <2>2. dist = Fresh
    BY <2>1 DEF Fresh
  <2>3. P!Ahead(head, goal) \in Nat /\ Fresh + P!Ahead(head, goal) <= Backlog + Window - 2
    BY <1>1, <2>1, RingTypes DEF PumpInv, NotLapped, PumpTypes, P!Offsets
  <2>4. avail = dist
    BY <1>4, <2>2, <2>3 DEF P!PumpAssumption, P!Offsets
  <2> QED BY <2>1, <2>2, <2>4 DEF PumpInv, FreshFrames
<1> HIDE DEF from, dist, avail, Frame
<1>10. PumpTypes'
  <2>1. staged' \in Nat
    BY <1>1, <1>4, <1>5, <1>8 DEF PumpTypes
  <2>2. torn' \in BOOLEAN
    BY <1>6, Zenon
  <2>3. 0 \in 0 .. Window
    BY DEF P!PumpAssumption
  <2> QED BY <1>1, <1>2, <1>3, <1>5, <2>1, <2>2, <2>3 DEF PumpTypes
<1>11. Disarmed' /\ LastRendered' /\ KeepsUp'
  <2>1. P!Ahead(head, play) \in Nat
    BY <1>1, RingTypes DEF PumpTypes, P!Offsets
  <2> QED BY <1>1, <1>2, <1>5, <2>1 DEF Disarmed, LastRendered, KeepsUp
<1>12. NotLapped' /\ FreshFrames'
  <2> SUFFICES ASSUME known', ~late PROVE NotLapped' /\ FreshFrames'
    BY DEF NotLapped, FreshFrames, Bounded
  <2>1. Fresh' = 0 /\ readOff' = head
    BY <1>1, <1>3, <1>5, RingTypes DEF Fresh, PumpTypes
  <2>2. /\ P!Ahead(head, play) \in Nat /\ P!Ahead(head, goal') \in Nat
        /\ P!Ahead(head, goal') <= P!Ahead(head, play) /\ P!Ahead(head, play) < Backlog
    <3>1. P!Ahead(head, goal) <= P!Ahead(head, play) /\ P!Ahead(head, play) < Backlog
      BY <1>1 DEF KeepsUp
    <3> QED BY <1>1, <3>1, Distances
  <2>3. NotLapped'
    BY <1>5, <2>1, <2>2 DEF NotLapped, P!PumpAssumption
  <2>4. rendered \in Nat /\ staged \in Nat
    BY <1>1 DEF PumpTypes
  <2>5. staged' # 0 => staged' = rendered
    <3>1. CASE avail > 0
      <4>1. staged' = ring[P!Wrap(head + Size - 1)]
        BY <1>3, <1>5, <1>7, <3>1
      <4> QED BY <1>1, <4>1 DEF LastRendered
    <3>2. CASE ~(avail > 0) /\ known /\ anchored
      <4>1. avail = 0
        BY <1>4, <3>2
      <4> QED BY <1>2, <1>5, <1>9, <2>4, <3>2, <4>1
    <3>3. CASE ~(avail > 0) /\ ~(known /\ anchored)
      BY <1>1, <1>5, <3>3 DEF Disarmed
    <3> QED BY <3>1, <3>2, <3>3
  <2>6. FreshFrames'
    BY <2>1, <2>4, <2>5 DEF FreshFrames
  <2> QED BY <2>3, <2>6
<1>13. ASSUME known, ~late, torn' PROVE torn
  <2>1. CASE ~anchored
    <3>1. dist = 0 /\ avail = 0
      BY <1>3, <1>4, <2>1, RingTypes DEF from, dist, avail
    <3>2. /\ \A i \in 1 .. avail - 1 : Frame(i) = Frame(i - 1) + 1
          /\ ~(avail > 0) /\ avail = dist
      BY <3>1
    <3> QED BY <1>6, <1>13, <3>2, Zenon
  <2>2. CASE anchored
    <3>1. avail \in Nat /\ rendered \in Nat
      BY <1>1, <1>4 DEF PumpTypes
    <3>2. avail > 0 => Frame(0) = rendered - avail + 1
      BY <1>9, <1>13, <2>2, <3>1
    <3>3. ASSUME NEW i \in 1 .. avail - 1 PROVE Frame(i) = Frame(i - 1) + 1
      BY <1>9, <1>13, <2>2, <3>1
    <3>4. avail > 0 /\ staged # 0 => Frame(0) = staged + 1
      BY <1>9, <1>13, <2>2, <3>1, <3>2
    <3>5. avail = dist
      BY <1>9, <1>13, <2>2
    <3> QED BY <1>6, <1>13, <3>3, <3>4, <3>5, Zenon
  <2> QED BY <2>1, <2>2
<1> QED BY <1>10, <1>11, <1>12, <1>13 DEF PumpInv

\* Nothing moves but the play head as the firmware read it, which pumped.
LEMMA StepSkip ==
  ASSUME P!PumpAssumption, PumpInv, armed, P!Throttled, P!Skip,
         UNCHANGED <<armed, ring, head, rendered, play, mode, late>>,
         goal' \in {goal, play}
  PROVE  PumpInv' /\ UNCHANGED torn
<1>1. PumpTypes /\ Disarmed /\ LastRendered /\ KeepsUp /\ anchored /\ age < Window
  BY DEF PumpInv, P!Throttled
<1>2. UNCHANGED <<known, searchDone, anchored, readOff, age, staged, torn>>
  BY DEF P!Skip, P!ssifVars
<1>3. /\ Fresh \in Nat /\ P!Ahead(head, play) \in Nat
      /\ age \in Nat /\ Window \in Nat /\ Backlog \in Nat
  BY <1>1, Distances
<1>4. PumpTypes' /\ Disarmed' /\ LastRendered' /\ KeepsUp'
  BY <1>1, <1>2, <1>3 DEF PumpTypes, Disarmed, LastRendered, KeepsUp
<1>5. NotLapped'
  <2> SUFFICES ASSUME Bounded PROVE NotLapped'
    BY <1>2 DEF NotLapped, Bounded
  <2>1. /\ Fresh + P!Ahead(head, goal) <= Backlog + Window - 2
        /\ Fresh + P!Ahead(head, play) < Backlog + age
    BY <1>1 DEF PumpInv, NotLapped
  <2>2. Fresh' = Fresh
    BY <1>2 DEF Fresh
  <2>3. Fresh + P!Ahead(head, goal') <= Backlog + Window - 2
    BY <1>1, <1>3, <2>1
  <2> QED BY <1>2, <2>1, <2>2, <2>3 DEF NotLapped
<1>6. FreshFrames'
  BY <1>2 DEF PumpInv, FreshFrames, Bounded, Fresh
<1> QED BY <1>2, <1>4, <1>5, <1>6 DEF PumpInv

LEMMA StepPump ==
  ASSUME P!PumpAssumption, PumpInv, P!Pump,
         UNCHANGED <<armed, ring, head, rendered, play, mode, late>>,
         goal' \in {goal, play}, armed \/ goal' = goal
  PROVE  PumpInv' /\ (known /\ ~late => (torn' => torn))
<1>1. CASE ~armed
  <2>1. UNCHANGED <<goal, known, searchDone, readOff, age, staged, torn>>
    BY <1>1 DEF P!Pump
  <2>2. anchored' = FALSE /\ ~anchored
    BY <1>1 DEF P!Pump, PumpInv, Disarmed
  <2> QED BY <1>1, <2>1, <2>2 DEF PumpInv, PumpTypes, Disarmed, LastRendered, KeepsUp, NotLapped,
             FreshFrames, Bounded
<1>2. CASE armed /\ P!Throttled
  BY <1>2, StepSkip DEF P!Pump
<1>3. CASE armed /\ ~P!Throttled
  BY <1>3, StepCopy DEF P!Pump
<1> QED BY <1>1, <1>2, <1>3

LEMMA StepReset ==
  ASSUME P!PumpAssumption, PumpInv, P!Reset
  PROVE  PumpInv' /\ ~torn'
<1>1. torn' = FALSE /\ anchored' = FALSE /\ armed' = FALSE /\ late' = FALSE
  BY DEF P!Reset
<1>2. 0 \in P!Offsets /\ Window \in 0 .. Window
  BY DEF P!PumpAssumption, P!Offsets
<1>3. PumpTypes'
  <2>1. torn' \in BOOLEAN /\ anchored' \in BOOLEAN /\ armed' \in BOOLEAN /\ late' \in BOOLEAN
    BY <1>1, Zenon
  <2> QED BY <1>2, <2>1 DEF P!Reset, PumpInv, PumpTypes
<1>4. Disarmed' /\ LastRendered' /\ KeepsUp' /\ NotLapped' /\ FreshFrames'
  BY <1>1 DEF P!Reset, PumpInv, Disarmed, LastRendered, KeepsUp, NotLapped, FreshFrames, Bounded
<1> QED BY <1>1, <1>3, <1>4 DEF PumpInv

LEMMA StepArm ==
  ASSUME P!PumpAssumption, PumpInv, P!Arm
  PROVE  PumpInv' /\ UNCHANGED torn
<1>1. PICK b \in 0 .. Backlog - 1 : head' = P!Ahead(b, 0)
  BY DEF P!Arm
<1>2. /\ ~armed /\ armed' = TRUE /\ ring' = [i \in P!Offsets |-> 0]
      /\ play' = 0 /\ goal' = 0
      /\ UNCHANGED <<rendered, late, known, searchDone, anchored, readOff, age, staged, torn>>
  BY DEF P!Arm, P!ssifVars
<1>3. PumpTypes /\ Disarmed
  BY DEF PumpInv
<1>4. b \in P!Offsets /\ 0 \in P!Offsets /\ head' \in P!Offsets /\ P!Ahead(head', 0) = b
  BY <1>1 DEF P!PumpAssumption, P!Offsets, P!Ahead
<1>5. PumpTypes'
  <2>1. armed' \in BOOLEAN
    BY <1>2, Zenon
  <2> QED BY <1>2, <1>3, <1>4, <2>1 DEF PumpTypes
<1>6. LastRendered'
  BY <1>2, <1>4, RingTypes DEF LastRendered
<1>7. KeepsUp'
  <2>1. P!Ahead(head', play') = b /\ P!Ahead(head', goal') = b /\ b < Backlog /\ b <= b
    BY <1>2, <1>4 DEF P!PumpAssumption
  <2> QED BY <2>1 DEF KeepsUp
<1>8. Disarmed' /\ NotLapped' /\ FreshFrames'
  BY <1>2, <1>3 DEF Disarmed, NotLapped, FreshFrames, Bounded
<1> QED BY <1>2, <1>5, <1>6, <1>7, <1>8 DEF PumpInv

LEMMA StepRender ==
  ASSUME P!PumpAssumption, PumpInv, P!Render
  PROVE  PumpInv' /\ UNCHANGED torn
<1>1. /\ armed /\ head # goal /\ rendered' = rendered + 1
      /\ ring' = [ring EXCEPT ![head] = rendered + 1]
      /\ head' = P!Wrap(head + 1)
      /\ UNCHANGED <<armed, goal, play, late, known, searchDone, anchored, readOff, age,
                     staged, torn>>
  BY DEF P!Render, P!ssifVars
<1>2. PumpTypes /\ Disarmed /\ KeepsUp
  BY DEF PumpInv
<1>3. head' \in P!Offsets /\ P!Wrap(head' + Size - 1) = head
  BY <1>1, <1>2, RingTypes, RingStep DEF PumpTypes
<1>4. PumpTypes' /\ Disarmed'
  BY <1>1, <1>2, <1>3 DEF PumpTypes, Disarmed
<1>5. LastRendered'
  BY <1>1, <1>2, <1>3 DEF LastRendered, PumpTypes
<1>6. P!Ahead(head', goal) = P!Ahead(head, goal) - 1
  BY <1>1, <1>2, RingStep DEF PumpTypes
<1>7. /\ P!Ahead(head, goal) \in Nat /\ P!Ahead(head, play) \in Nat /\ Fresh \in Nat
      /\ Backlog \in Nat /\ Window \in Nat /\ Size \in Nat
      /\ age \in Nat /\ rendered \in Nat /\ Backlog + Window < Size
  BY <1>2, Distances
<1>8. ASSUME ~late
      PROVE  P!Ahead(head', play) = P!Ahead(head, play) - 1 /\ P!Ahead(head, goal) >= 1
  <2>1. P!Ahead(head, goal) >= 1 /\ P!Ahead(head, goal) <= P!Ahead(head, play)
    BY <1>1, <1>2, <1>8 DEF KeepsUp, PumpTypes, P!Ahead, P!Offsets, P!PumpAssumption
  <2>2. head # play
    BY <1>2, <1>7, <2>1, RingTypes DEF PumpTypes
  <2> QED BY <1>1, <1>2, <2>1, <2>2, RingStep DEF PumpTypes
<1>9. KeepsUp'
  BY <1>1, <1>2, <1>6, <1>7, <1>8 DEF KeepsUp
<1>10. NotLapped' /\ FreshFrames'
  <2> SUFFICES ASSUME Bounded PROVE NotLapped' /\ FreshFrames'
    BY <1>1 DEF NotLapped, FreshFrames, Bounded
  <2>1. ~late /\ /\ Fresh + P!Ahead(head, goal) <= Backlog + Window - 2
                 /\ age < Window => Fresh + P!Ahead(head, play) < Backlog + age
    BY DEF Bounded, PumpInv, NotLapped
  <2>2. Fresh' = Fresh + 1
    BY <1>1, <1>2, <1>7, <2>1, RingStep DEF PumpTypes, Fresh
  <2>3. NotLapped'
    BY <1>1, <1>6, <1>7, <1>8, <2>1, <2>2 DEF NotLapped
  <2>4. /\ Fresh <= rendered
        /\ \A i \in 0 .. Fresh - 1 : ring[P!Wrap(readOff + i)] = rendered - Fresh + 1 + i
        /\ staged # 0 => staged = rendered - Fresh
    BY DEF PumpInv, FreshFrames
  <2>5. ASSUME NEW i \in 0 .. Fresh
        PROVE  ring'[P!Wrap(readOff + i)] = rendered' - Fresh' + 1 + i
    <3>1. CASE i = Fresh
      <4>1. P!Wrap(readOff + i) = head
        BY <1>2, <3>1, RingTypes DEF PumpTypes, Fresh
      <4> QED BY <1>1, <1>2, <1>7, <2>2, <3>1, <4>1 DEF PumpTypes
    <3>2. CASE i # Fresh
      <4>1. i \in Nat /\ i < Fresh
        BY <1>7, <3>2
      <4>2. P!Wrap(readOff + i) \in P!Offsets /\ P!Wrap(readOff + i) # head
        BY <1>2, <4>1, RingApart DEF PumpTypes, Fresh
      <4>3. ring'[P!Wrap(readOff + i)] = ring[P!Wrap(readOff + i)]
        BY <1>1, <1>2, <4>2 DEF PumpTypes
      <4> QED BY <1>1, <1>7, <2>2, <2>4, <4>1, <4>3
    <3> QED BY <3>1, <3>2
  <2>6. FreshFrames'
    <3>1. Fresh' <= rendered' /\ (staged' # 0 => staged' = rendered' - Fresh')
      BY <1>1, <1>2, <1>7, <2>2, <2>4 DEF PumpTypes
    <3>2. \A i \in 0 .. Fresh' - 1 : ring'[P!Wrap(readOff' + i)] = rendered' - Fresh' + 1 + i
      BY <1>1, <1>7, <2>2, <2>5
    <3> QED BY <3>1, <3>2 DEF FreshFrames
  <2> QED BY <2>3, <2>6
<1> QED BY <1>1, <1>4, <1>5, <1>9, <1>10 DEF PumpInv

LEMMA StepTick ==
  ASSUME P!PumpAssumption, PumpInv, P!Tick
  PROVE  PumpInv' /\ UNCHANGED torn
<1>1. /\ armed /\ play' = P!Wrap(play + 1)
      /\ age' = IF age < Window THEN age + 1 ELSE age
      /\ late' = (late \/ P!Ahead(head, play) >= Backlog - 1)
      /\ UNCHANGED <<armed, ring, head, goal, rendered, known, searchDone, anchored, readOff,
                     staged, torn>>
  BY DEF P!Tick, P!guestVars
<1>2. PumpTypes /\ Disarmed /\ LastRendered /\ KeepsUp
  BY DEF PumpInv
<1>3. PumpTypes'
  <2>1. late' \in BOOLEAN
    BY <1>1, Zenon
  <2>2. play' \in P!Offsets
    BY <1>1, <1>2, RingTypes DEF PumpTypes
  <2>3. age' \in 0 .. Window
    BY <1>1, <1>2 DEF PumpTypes, P!PumpAssumption
  <2> QED BY <1>1, <1>2, <2>1, <2>2, <2>3 DEF PumpTypes
<1>4. Disarmed' /\ LastRendered'
  BY <1>1, <1>2 DEF Disarmed, LastRendered
<1>5. /\ P!Ahead(head, goal) \in Nat /\ P!Ahead(head, play) \in Nat /\ Fresh \in Nat
      /\ Backlog \in Nat /\ Window \in Nat /\ Size \in Nat /\ age \in Nat
      /\ Backlog + Window < Size
  BY <1>2, Distances
<1>6. ASSUME ~late'
      PROVE  /\ ~late /\ P!Ahead(head, play') = P!Ahead(head, play) + 1
             /\ P!Ahead(head, play) < Backlog - 1
  <2>1. ~late /\ ~(P!Ahead(head, play) >= Backlog - 1)
    BY <1>1, <1>6, Zenon
  <2>2. P!Ahead(head, play) < Backlog - 1 /\ P!Ahead(head, play) < Size - 1
    BY <1>5, <2>1
  <2> QED BY <1>1, <1>2, <2>1, <2>2, RingStep DEF PumpTypes
<1>7. KeepsUp'
  BY <1>1, <1>2, <1>5, <1>6 DEF KeepsUp
<1>8. NotLapped'
  <2> SUFFICES ASSUME Bounded, ~late' PROVE NotLapped'
    BY <1>1, <1>6 DEF NotLapped, Bounded
  <2>1. /\ Fresh + P!Ahead(head, goal) <= Backlog + Window - 2
        /\ age < Window => Fresh + P!Ahead(head, play) < Backlog + age
    BY DEF PumpInv, NotLapped
  <2>2. Fresh' = Fresh
    BY <1>1 DEF Fresh
  <2> QED BY <1>1, <1>5, <1>6, <2>1, <2>2 DEF NotLapped
<1>9. FreshFrames'
  <2> SUFFICES ASSUME Bounded PROVE FreshFrames'
    BY <1>1, <1>6 DEF FreshFrames, Bounded
  <2> QED BY <1>1 DEF PumpInv, FreshFrames, Fresh
<1> QED BY <1>1, <1>3, <1>4, <1>7, <1>8, <1>9 DEF PumpInv

LEMMA PumpStutterInv ==
  ASSUME PumpInv, UNCHANGED P!vars
  PROVE  PumpInv'
  BY DEF P!vars, P!guestVars, P!ssifVars, PumpInv, PumpTypes, Disarmed, LastRendered, KeepsUp,
         NotLapped, FreshFrames, Bounded, Fresh

\* Every step keeps the invariant, and under a known head tears nothing.
LEMMA PumpNextInv ==
  ASSUME P!PumpAssumption, PumpInv, [P!Next]_(P!vars)
  PROVE  PumpInv' /\ (known /\ ~late => (torn' => torn))
<1>1. CASE P!CrsaRead
  BY <1>1, StepPump DEF P!CrsaRead
<1>2. CASE P!PlayTick
  BY <1>2, StepPump DEF P!PlayTick, P!guestVars
<1>3. CASE P!Reset
  BY <1>3, StepReset
<1>4. CASE P!Arm
  BY <1>4, StepArm
<1>5. CASE P!Render
  BY <1>5, StepRender
<1>6. CASE P!Tick
  BY <1>6, StepTick
<1>7. CASE UNCHANGED P!vars
  BY <1>7, PumpStutterInv DEF P!vars, P!ssifVars
<1> QED BY <1>1, <1>2, <1>3, <1>4, <1>5, <1>6, <1>7 DEF P!Next, P!Firmware

-----------------------------------------------------------------------------
(* Between two copies a firmware that keeps up renders less than the ring  *)
(* holds, and what waits to be copied is what it rendered last, in order   *)
(* (rza1l_ssif_pump, its throttle and the hook of the CRSA read).          *)
THEOREM PumpInvariance == P!Spec => []PumpInv
<1>1. P!Init => PumpInv
  BY PumpInitInv, PumpAssumption
<1>2. PumpInv /\ [P!Next]_(P!vars) => PumpInv'
  BY PumpNextInv, PumpAssumption
<1> QED BY <1>1, <1>2, PTL DEF P!Spec

(* Bounded by the render head, the copy stages every frame rendered once   *)
(* and in order, however reads, timer, throttle and the end of the search  *)
(* fall, for a firmware that keeps up.                                     *)
THEOREM HeadInOrder == P!Spec => HeadKeepsOrder
<1>1. PumpInv /\ [P!Next]_(P!vars) => [known /\ ~late => (torn' => torn)]_(P!vars)
  BY PumpNextInv, PumpAssumption
<1> QED BY <1>1, PumpInvariance, PTL DEF P!Spec, HeadKeepsOrder, P!HeadKeepsOrder

-----------------------------------------------------------------------------
(* The search for the render head (RenderHead).  A word that is not in the  *)
(* ring by intent does not move in it, and the copy of the play head leads  *)
(* the others in a round only when the heads are seen inverted: so it is    *)
(* not taken for the render head as long as these rounds are too few to     *)
(* make up three quarters of those a decision takes.                        *)

Candidate ==
  [first_off : 0 .. RingSize, trailed : BOOLEAN, cmp_rounds : Nat, lead_rounds : Nat]

SearchTypes ==
  /\ headWord \in HeadWords /\ stray \in [Strays -> {0, H!Outside}]
  /\ sentinels \in {{}, {headWord}} \cup {{headWord, w} : w \in Strays}
  /\ up \in {{}, {"play"}, {"play", "head"}}
  /\ inverted \in Nat /\ inverted <= MaxInverted
  /\ rh_cands \in [DOMAIN rh_cands -> Candidate] /\ DOMAIN rh_cands \subseteq H!Slot

\* A stray word has been seen at one offset only.
StraysStay ==
  \A c \in DOMAIN rh_cands :
    /\ c[2] \in {headWord, PlayWord} \cup Strays
    /\ c[2] \in Strays => rh_cands[c].first_off = 0

\* The copy of the play head has led no more often than the heads were inverted.
PlayLeads ==
  \A c \in DOMAIN rh_cands : c[2] = PlayWord => rh_cands[c].lead_rounds <= inverted

SearchInv == SearchTypes /\ StraysStay /\ PlayLeads

LEMMA Remainder ==
  ASSUME NEW m \in Nat \ {0}, NEW q \in Int, NEW r \in 0 .. m - 1
  PROVE  (m * q + r) % m = r
  OBVIOUS

LEMMA Remainders ==
  ASSUME NEW m \in Nat \ {0}, NEW a \in Int
  PROVE  a % m \in 0 .. m - 1
  OBVIOUS


LEMMA SlotsFinite ==
  ASSUME H!RenderHeadAssumption
  PROVE  IsFiniteSet(H!Slot)
<1>1. Words \in Nat
  BY DEF H!RenderHeadAssumption
<1>2. IsFiniteSet(0 .. Words - 1)
  BY <1>1, FS_Interval
<1>3. H!Starts \subseteq 0 .. Words - 1
  BY DEF H!Starts, H!Address
<1>4. IsFiniteSet(H!Starts)
  BY <1>2, <1>3, FS_Subset
<1>5. IsFiniteSet(H!Starts \X (0 .. Words - 1))
  BY <1>2, <1>4, FS_Product
<1>6. H!Slot \subseteq H!Starts \X (0 .. Words - 1)
  BY DEF H!Slot, H!Address
<1> QED BY <1>5, <1>6, FS_Subset

LEMMA OnlyOne ==
  ASSUME NEW S, IsFiniteSet(S), Cardinality(S) = 1, NEW x \in S, NEW y \in S
  PROVE  x = y
  BY FS_Singleton

\* How far the play head is ahead of the render head.
LEMMA BacklogIs ==
  ASSUME H!RenderHeadAssumption, NEW p \in H!Offsets, NEW b \in H!Offsets
  PROVE  H!Forward((p + RingSize - b) % RingSize, p) = b
<1>1. RingSize \in Nat \ {0} /\ p \in 0 .. RingSize - 1 /\ b \in 0 .. RingSize - 1
  BY DEF H!RenderHeadAssumption, H!Offsets
<1>2. CASE p >= b
  <2>1. (p + RingSize - b) % RingSize = p - b
    <3>1. p - b \in 0 .. RingSize - 1 /\ p + RingSize - b = RingSize * 1 + (p - b)
      BY <1>1, <1>2
    <3> QED BY <1>1, <3>1, Remainder
  <2>2. (p + RingSize - (p - b)) % RingSize = b
    <3>1. p + RingSize - (p - b) = RingSize * 1 + b
      BY <1>1
    <3> QED BY <1>1, <3>1, Remainder
  <2> QED BY <2>1, <2>2 DEF H!Forward
<1>3. CASE ~(p >= b)
  <2>1. (p + RingSize - b) % RingSize = p + RingSize - b
    <3>1. p + RingSize - b \in 0 .. RingSize - 1 /\ p + RingSize - b = RingSize * 0 + (p + RingSize - b)
      BY <1>1, <1>3
    <3> QED BY <1>1, <3>1, Remainder
  <2>2. (p + RingSize - (p + RingSize - b)) % RingSize = b
    <3>1. p + RingSize - (p + RingSize - b) = RingSize * 0 + b
      BY <1>1
    <3> QED BY <1>1, <3>1, Remainder
  <2> QED BY <2>1, <2>2 DEF H!Forward
<1> QED BY <1>2, <1>3

\* What a word that points into the ring points to.
LEMMA PointsTo ==
  ASSUME H!RenderHeadAssumption, SearchTypes, NEW p \in H!Offsets, NEW b \in H!Offsets,
         NEW w \in DOMAIN H!Pointing(p, b)
  PROVE  /\ w \in {headWord, PlayWord} \cup Strays
         /\ H!Pointing(p, b)[w] \in H!Offsets
         /\ w = headWord => "head" \in up /\ H!Pointing(p, b)[w] = (p + RingSize - b) % RingSize
         /\ w = PlayWord => "play" \in up /\ H!Pointing(p, b)[w] = p
         /\ w \in Strays => H!Pointing(p, b)[w] = 0
<1> DEFINE into == {x \in Strays : stray[x] # H!Outside}
                     \cup (IF "head" \in up THEN {headWord} ELSE {})
                     \cup (IF "play" \in up THEN {PlayWord} ELSE {})
<1>1. /\ DOMAIN H!Pointing(p, b) = into /\ w \in into
      /\ H!Pointing(p, b)[w] = IF w = headWord THEN (p + RingSize - b) % RingSize
                               ELSE IF w = PlayWord THEN p ELSE stray[w]
  BY DEF H!Pointing
<1>2. headWord \notin Strays /\ headWord # PlayWord /\ PlayWord \notin Strays
  BY DEF H!RenderHeadAssumption, SearchTypes
<1>3. /\ w \in {headWord, PlayWord} \cup Strays
      /\ w = headWord => "head" \in up
      /\ w = PlayWord => "play" \in up
      /\ w \in Strays => stray[w] # H!Outside
  BY <1>1, <1>2
<1>4. w \in Strays => stray[w] = 0
  BY <1>3 DEF SearchTypes
<1>5. (p + RingSize - b) % RingSize \in H!Offsets /\ p \in H!Offsets /\ 0 \in H!Offsets
  <2>1. RingSize \in Nat \ {0} /\ p + RingSize - b \in Int
    BY DEF H!RenderHeadAssumption, H!Offsets
  <2>2. (p + RingSize - b) % RingSize \in 0 .. RingSize - 1
    BY <2>1, Remainders
  <2> QED BY <2>1, <2>2 DEF H!Offsets
<1> HIDE DEF into
<1> QED BY <1>1, <1>2, <1>3, <1>4, <1>5

LEMMA PointingDomain ==
  ASSUME "head" \in up, NEW p, NEW b
  PROVE  headWord \in DOMAIN H!Pointing(p, b)
  BY DEF H!Pointing


\* What a round leaves of the candidates, when n rounds showed the heads
\* inverted: a render head seen moving stays among those that moved.
Left(cands, n) ==
  /\ DOMAIN cands \subseteq DOMAIN rh_cands /\ cands \in [DOMAIN cands -> Candidate]
  /\ \A c \in DOMAIN cands :
       /\ c[2] \in Strays => cands[c].first_off = 0
       /\ c[2] = PlayWord => cands[c].lead_rounds <= n
  /\ "head" \in up =>
       \A c \in DOMAIN rh_cands :
         c[2] = headWord /\ rh_cands[c].first_off = H!Moved =>
           c \in DOMAIN cands /\ cands[c].first_off = H!Moved

Inversions(b) == inverted + IF up = {"play", "head"} /\ b > RingSize \div 2 THEN 1 ELSE 0

LEMMA ObservedInv ==
  ASSUME H!RenderHeadAssumption, SearchInv, NEW p \in H!Offsets, NEW b \in H!Offsets, NEW wpos
  PROVE  Left(H!Observed(H!Pointing(p, b), wpos), Inversions(b))
<1> DEFINE cands == H!Observed(H!Pointing(p, b), wpos)
           seen == Inversions(b)
           value  == H!Pointing(p, b)
           alive  == {c \in DOMAIN rh_cands : c[2] \in DOMAIN value}
           off(c) == value[c[2]]
           moved  == {c \in alive : off(c) # rh_cands[c].first_off}
           others(c) == {off(o) : o \in moved} \ {off(c)}
           compared(c) == c \in moved /\ others(c) # {}
           led(c) == compared(c) /\ \A o \in others(c) : H!Behind(off(c), o)
           next(c) ==
             [first_off |-> IF c \in moved THEN H!Moved ELSE rh_cands[c].first_off,
              trailed |-> rh_cands[c].trailed
                            \/ H!Forward(off(c), wpos) \in MinLockGap .. RingSize \div 2,
              cmp_rounds |-> rh_cands[c].cmp_rounds + IF compared(c) THEN 1 ELSE 0,
              lead_rounds |-> rh_cands[c].lead_rounds + IF led(c) THEN 1 ELSE 0]
<1>1. cands = [c \in alive |-> next(c)]
  BY DEF H!Observed
<1>2. DOMAIN cands = alive /\ alive \subseteq DOMAIN rh_cands /\ moved \subseteq alive
  BY <1>1
<1>3. \A c \in alive : rh_cands[c] \in Candidate /\ off(c) = value[c[2]] /\ c[2] \in DOMAIN value
  BY DEF SearchInv, SearchTypes
<1>4. RingSize \in Nat /\ H!Moved = RingSize /\ H!Offsets = 0 .. RingSize - 1
  BY DEF H!Moved, H!Offsets, H!RenderHeadAssumption
<1>5. headWord \notin Strays /\ headWord # PlayWord /\ PlayWord \notin Strays
  BY DEF H!RenderHeadAssumption, SearchInv, SearchTypes
<1>6. ASSUME NEW c \in alive
      PROVE  /\ c[2] \in {headWord, PlayWord} \cup Strays /\ off(c) \in H!Offsets
             /\ c[2] = headWord => "head" \in up /\ off(c) = (p + RingSize - b) % RingSize
             /\ c[2] = PlayWord => "play" \in up /\ off(c) = p
             /\ c[2] \in Strays => off(c) = 0 /\ rh_cands[c].first_off = 0
  <2>1. c[2] \in DOMAIN H!Pointing(p, b) /\ off(c) = H!Pointing(p, b)[c[2]]
    BY <1>3
  <2>2. c[2] \in Strays => rh_cands[c].first_off = 0
    BY <1>2 DEF SearchInv, StraysStay
  <2> HIDE DEF off
  <2> QED BY <2>1, <2>2, PointsTo DEF SearchInv
<1>7. \A c \in alive : c[2] \in Strays => c \notin moved
  BY <1>6
<1>8. ASSUME NEW c \in alive
      PROVE  next(c) \in Candidate
  <2>1. rh_cands[c] \in Candidate
    BY <1>3
  <2>2. next(c).first_off \in 0 .. RingSize
    BY <1>4, <2>1 DEF Candidate
  <2>3. next(c).cmp_rounds \in Nat /\ next(c).lead_rounds \in Nat
    <3> DEFINE r1 == IF compared(c) THEN 1 ELSE 0
               r2 == IF led(c) THEN 1 ELSE 0
    <3>1. r1 \in Nat /\ r2 \in Nat
      OBVIOUS
    <3>2. next(c).cmp_rounds = rh_cands[c].cmp_rounds + r1
          /\ next(c).lead_rounds = rh_cands[c].lead_rounds + r2
      OBVIOUS
    <3> HIDE DEF r1, r2, next
    <3> QED BY <2>1, <3>1, <3>2 DEF Candidate
  <2>4. next(c).trailed \in BOOLEAN
    OBVIOUS
  <2> QED BY <2>2, <2>3, <2>4 DEF Candidate
<1>9. cands \in [DOMAIN cands -> Candidate]
  <2> HIDE DEF next, alive
  <2> QED BY <1>1, <1>8
<1>10. ASSUME NEW c \in DOMAIN cands, c[2] \in Strays
       PROVE  cands[c].first_off = 0
  <2>1. c \in alive /\ c \notin moved /\ rh_cands[c].first_off = 0
    BY <1>2, <1>6, <1>7, <1>10
  <2>2. cands[c] = next(c)
    BY <1>1, <2>1
  <2> HIDE DEF alive, moved
  <2> QED BY <2>1, <2>2
<1>11. ASSUME NEW c \in DOMAIN cands, c[2] = PlayWord
       PROVE  cands[c].lead_rounds <= seen
  <2>1. c \in alive /\ cands[c] = next(c) /\ off(c) = p /\ "play" \in up
    BY <1>1, <1>2, <1>6, <1>11
  <2>2. rh_cands[c].lead_rounds <= inverted /\ rh_cands[c].lead_rounds \in Nat /\ inverted \in Nat
    BY <1>2, <1>3, <1>11, <2>1 DEF SearchInv, PlayLeads, SearchTypes, Candidate
  <2>3. led(c) => seen = inverted + 1
    <3>1. SUFFICES ASSUME led(c) PROVE seen = inverted + 1
      OBVIOUS
    <3>2. PICK o \in moved : off(o) # off(c) /\ H!Behind(off(c), off(o))
      BY <3>1
    <3>3. o \in moved /\ o \in alive /\ off(o) # off(c)
      BY <1>2, <2>1, <3>2
    <3>4. o[2] = headWord
      BY <1>6, <1>7, <2>1, <3>3
    <3>5. "head" \in up /\ off(o) = (p + RingSize - b) % RingSize
      BY <1>6, <3>3, <3>4
    <3>6. H!Behind(p, (p + RingSize - b) % RingSize)
      BY <2>1, <3>2, <3>5
    <3>7. b > RingSize \div 2
      BY <3>6, BacklogIs DEF H!Behind
    <3>8. up = {"play", "head"}
      BY <2>1, <3>5 DEF SearchInv, SearchTypes
    <3> QED BY <3>7, <3>8 DEF Inversions
  <2>4. ~ led(c) => seen >= inverted
    BY <2>2 DEF Inversions
  <2>5. cands[c].lead_rounds = rh_cands[c].lead_rounds + IF led(c) THEN 1 ELSE 0
    BY <2>1
  <2>6. seen \in Nat
    BY <2>2 DEF Inversions
  <2> HIDE DEF led, seen, cands
  <2> QED BY <2>2, <2>3, <2>4, <2>5, <2>6
<1>12. ASSUME "head" \in up, NEW c \in DOMAIN rh_cands, c[2] = headWord,
              rh_cands[c].first_off = H!Moved
       PROVE  c \in DOMAIN cands /\ cands[c].first_off = H!Moved
  <2>1. c \in alive
    BY <1>12, PointingDomain
  <2>2. off(c) \in H!Offsets /\ H!Moved \notin H!Offsets
    BY <1>4, <1>6, <2>1
  <2>3. c \in moved
    BY <1>12, <2>1, <2>2
  <2>4. cands[c] = next(c)
    BY <1>1, <2>1
  <2> QED BY <1>2, <2>1, <2>3, <2>4
<1> HIDE DEF cands, seen, alive
<1>13. Left(cands, seen)
  BY <1>2, <1>9, <1>10, <1>11, <1>12 DEF Left
<1> QED BY <1>13 DEF cands, seen


\* What LockIsRight demands of a step.
Right ==
  render_head_addr = H!NoWord /\ render_head_addr' # H!NoWord =>
    \/ render_head_addr' = headWord
    \/ /\ render_head_addr' = PlayWord
       /\ \/ "head" \notin up
          \/ \A c \in DOMAIN rh_cands : c[2] = headWord => rh_cands[c].first_off # H!Moved

\* Rounds in which the heads are seen inverted, too few to decide.
FewInverted == 4 * MaxInverted < 6 * RoundsToLock

LEMMA NoCandidates ==
  ASSUME SearchTypes', rh_cands' = H!None
  PROVE  StraysStay' /\ PlayLeads'
  BY DEF StraysStay, PlayLeads, H!None

LEMMA NoneTyped ==
  ASSUME SearchTypes, UNCHANGED <<headWord, sentinels, up, stray>>,
         inverted' \in Nat, inverted' <= MaxInverted, rh_cands' = H!None
  PROVE  SearchTypes'
<1>1. DOMAIN rh_cands' = {} /\ rh_cands' \in [{} -> Candidate]
  BY DEF H!None
<1> QED BY <1>1 DEF SearchTypes

\* Nothing found, or found what it may.
LEMMA Finished ==
  ASSUME SearchInv, UNCHANGED <<headWord, sentinels, up, stray>>,
         inverted' \in Nat, inverted' <= MaxInverted, NEW w, H!rza1l_ssif_rh_finish(w)
  PROVE  SearchInv' /\ render_head_addr' = w
<1>1. SearchTypes'
  BY NoneTyped DEF SearchInv, H!rza1l_ssif_rh_finish
<1> QED BY <1>1, NoCandidates DEF SearchInv, H!rza1l_ssif_rh_finish

LEMMA SearchKept ==
  ASSUME SearchInv, UNCHANGED <<headWord, sentinels, inverted, rh_cands>>,
         up' \in {{}, {"play"}, {"play", "head"}}, stray' \in [Strays -> {0, H!Outside}]
  PROVE  SearchInv'
<1>1. SearchTypes'
  BY DEF SearchInv, SearchTypes
<1>2. StraysStay' /\ PlayLeads'
  BY DEF SearchInv, StraysStay, PlayLeads
<1> QED BY <1>1, <1>2 DEF SearchInv

\* What a seed may do, and what a round may.
LEMMA SameCardinality ==
  ASSUME NEW S
  PROVE  H!Cardinality(S) = Cardinality(S)
  BY Zenon DEF H!Cardinality, Cardinality

LEMMA SeedCases ==
  ASSUME NEW value, H!rza1l_ssif_rh_seed(value)
  PROVE  \/ H!rza1l_ssif_rh_finish(H!NoWord)
         \/ H!Cardinality(sentinels) = 1 /\ \E w \in sentinels : H!rza1l_ssif_rh_finish(w)
         \/ H!SeedEmpty
         \/ /\ rh_cands' = [c \in {x \in H!Slot : x[2] \in DOMAIN value} |->
                              [first_off |-> value[c[2]], trailed |-> FALSE,
                               cmp_rounds |-> 0, lead_rounds |-> 0]]
            /\ UNCHANGED <<rh_rounds, rh_seed_attempts, rh_done, render_head_addr>>
  BY Zenon DEF H!rza1l_ssif_rh_seed

LEMMA VerifyCases ==
  ASSUME NEW value, NEW wpos, H!rza1l_ssif_rh_verify(value, wpos), NEW cands,
         cands = H!Observed(value, wpos)
  PROVE  LET movers == {c \in DOMAIN cands : cands[c].first_off = H!Moved}
             leader == {c \in movers : H!Leads(cands[c])}
             lone   == {c \in movers : cands[c].trailed}
         IN  \/ \E c \in leader : H!rza1l_ssif_rh_finish(c[2])
             \/ H!Cardinality(movers) = 1 /\ \E c \in lone : H!rza1l_ssif_rh_finish(c[2])
             \/ H!rza1l_ssif_rh_finish(H!NoWord)
             \/ rh_cands' = H!None /\ UNCHANGED <<rh_done, render_head_addr>>
             \/ rh_cands' = cands /\ UNCHANGED <<rh_seed_attempts, rh_done, render_head_addr>>
  BY Zenon DEF H!rza1l_ssif_rh_verify

LEMMA SeedStep ==
  ASSUME H!RenderHeadAssumption, SearchInv, NEW b \in H!Offsets,
         H!rza1l_ssif_rh_seed(H!Pointing(0, b)), UNCHANGED <<headWord, sentinels, up, stray, inverted>>
  PROVE  SearchInv' /\ Right
<1> DEFINE value == H!Pointing(0, b)
           found == {c \in H!Slot : c[2] \in DOMAIN value}
           first(c) == [first_off |-> value[c[2]], trailed |-> FALSE,
                        cmp_rounds |-> 0, lead_rounds |-> 0]
<1>1. inverted' \in Nat /\ inverted' <= MaxInverted
  BY DEF SearchInv, SearchTypes
<1>2. 0 \in H!Offsets /\ RingSize \in Nat /\ H!Offsets \subseteq 0 .. RingSize
  BY DEF H!RenderHeadAssumption, H!Offsets
<1>3. CASE H!rza1l_ssif_rh_finish(H!NoWord)
  BY <1>1, <1>3, Finished DEF Right
<1>4. ASSUME Cardinality(sentinels) = 1, NEW w \in sentinels, H!rza1l_ssif_rh_finish(w)
      PROVE  SearchInv' /\ Right
  <2>1. sentinels \in {{}, {headWord}} \cup {{headWord, x} : x \in Strays}
    BY DEF SearchInv, SearchTypes
  <2>2. headWord \in sentinels
    BY <1>4, <2>1
  <2>3. IsFiniteSet(sentinels)
    <3>1. sentinels = {} \/ sentinels = {headWord} \/ \E x \in Strays : sentinels = {headWord} \cup {x}
      BY <2>1
    <3>2. IsFiniteSet({}) /\ IsFiniteSet({headWord})
      BY FS_EmptySet, FS_Singleton
    <3>3. \A x \in Strays : IsFiniteSet({headWord} \cup {x})
      BY <3>2, FS_AddElement
    <3> QED BY <3>1, <3>2, <3>3
  <2>4. w = headWord
    BY <1>4, <2>2, <2>3, OnlyOne
  <2> QED BY <1>1, <1>4, <2>4, Finished DEF Right
<1>5. CASE UNCHANGED <<rh_cands, render_head_addr>>
  <2>1. SearchInv'
    BY <1>5, SearchKept DEF SearchInv, SearchTypes
  <2> QED BY <1>5, <2>1 DEF Right
<1>6. CASE rh_cands' = [c \in found |-> first(c)] /\ render_head_addr' = render_head_addr
  <2>1. \A c \in found : /\ c[2] \in {headWord, PlayWord} \cup Strays
                         /\ value[c[2]] \in H!Offsets
                         /\ c[2] \in Strays => value[c[2]] = 0
    BY <1>2, PointsTo DEF SearchInv
  <2>2. \A c \in found : first(c) \in Candidate
    BY <1>2, <2>1 DEF Candidate
  <2>3. \A c \in found : first(c).first_off = value[c[2]] /\ first(c).lead_rounds = 0
    OBVIOUS
  <2>4. found \subseteq H!Slot
    OBVIOUS
  <2> HIDE DEF first, found, value
  <2>5. DOMAIN rh_cands' = found /\ rh_cands' \in [found -> Candidate]
        /\ \A c \in found : rh_cands'[c] = first(c)
    BY <1>6, <2>2
  <2>6. SearchTypes'
    BY <1>1, <2>4, <2>5 DEF SearchInv, SearchTypes
  <2>7. StraysStay'
    BY <2>1, <2>3, <2>5 DEF StraysStay
  <2>8. PlayLeads'
    BY <1>1, <2>3, <2>5 DEF PlayLeads
  <2> QED BY <1>6, <2>6, <2>7, <2>8 DEF SearchInv, Right
<1>7. CASE H!SeedEmpty
  <2>1. \/ H!rza1l_ssif_rh_finish(H!NoWord)
        \/ UNCHANGED <<rh_cands, rh_done, render_head_addr>>
    BY <1>7 DEF H!SeedEmpty
  <2>2. CASE UNCHANGED <<rh_cands, rh_done, render_head_addr>>
    <3>1. UNCHANGED <<rh_cands, render_head_addr>>
      BY <2>2
    <3> QED BY <1>5, <3>1
  <2> QED BY <1>3, <2>1, <2>2
<1>8. \/ H!rza1l_ssif_rh_finish(H!NoWord)
      \/ H!Cardinality(sentinels) = 1 /\ \E w \in sentinels : H!rza1l_ssif_rh_finish(w)
      \/ H!SeedEmpty
      \/ rh_cands' = [c \in found |-> first(c)] /\ render_head_addr' = render_head_addr
  <2>1. UNCHANGED <<rh_rounds, rh_seed_attempts, rh_done, render_head_addr>>
          => render_head_addr' = render_head_addr
    OBVIOUS
  <2> QED BY <2>1, SeedCases
<1> HIDE DEF found, first
<1> QED BY <1>3, <1>4, <1>6, <1>7, <1>8, SameCardinality

LEMMA VerifyStep ==
  ASSUME H!RenderHeadAssumption, FewInverted, SearchInv,
         NEW p \in H!Offsets, NEW b \in H!Offsets, NEW wpos,
         inverted' = inverted + IF up = {"play", "head"} /\ b > RingSize \div 2 THEN 1 ELSE 0,
         inverted' <= MaxInverted,
         H!rza1l_ssif_rh_verify(H!Pointing(p, b), wpos), UNCHANGED <<headWord, sentinels, up, stray>>
  PROVE  SearchInv' /\ Right
<1> DEFINE cands  == H!Observed(H!Pointing(p, b), wpos)
           movers == {c \in DOMAIN cands : cands[c].first_off = H!Moved}
           leader == {c \in movers : H!Leads(cands[c])}
           lone   == {c \in movers : cands[c].trailed}
<1>1. Left(cands, inverted')
  <2>1. inverted' = Inversions(b)
    BY DEF Inversions
  <2> QED BY <2>1, ObservedInv, Zenon
<1>2. inverted' \in Nat
  BY DEF SearchInv, SearchTypes
<1>3. /\ H!Moved # 0 /\ RingSize \in Nat /\ RoundsToLock \in Nat /\ MaxInverted \in Nat
  BY DEF H!RenderHeadAssumption, H!Moved
<1>4. IsFiniteSet(movers)
  <2>1. movers \subseteq H!Slot
    BY <1>1 DEF Left, SearchInv, SearchTypes
  <2> HIDE DEF movers
  <2> QED BY <2>1, SlotsFinite, FS_Subset
<1>5. \A c \in movers : c[2] \in {headWord, PlayWord}
  <2>1. \A c \in movers : c \in DOMAIN cands /\ cands[c].first_off # 0
    BY <1>3
  <2>2. \A c \in DOMAIN rh_cands : c[2] \in {headWord, PlayWord} \cup Strays
    BY DEF SearchInv, StraysStay
  <2> HIDE DEF movers, cands
  <2> QED BY <1>1, <2>1, <2>2 DEF Left
\* A leader of enough rounds is not the copy of the play head.
<1>6. \A c \in leader : c[2] = headWord
  <2>1. SUFFICES ASSUME NEW c \in leader PROVE c[2] # PlayWord
    BY <1>5
  <2>2. c \in DOMAIN cands /\ cands[c] \in Candidate /\ H!Leads(cands[c])
    BY <1>1 DEF Left
  <2> HIDE DEF cands
  <2> DEFINE lead == cands[c].lead_rounds
             cmp == cands[c].cmp_rounds
  <2>3. lead \in Nat /\ cmp \in Nat /\ cmp >= 2 * RoundsToLock /\ lead * 4 >= cmp * 3
    BY <2>2 DEF H!Leads, Candidate
  <2>4. c[2] = PlayWord => lead <= inverted'
    BY <1>1, <2>2 DEF Left
  <2> HIDE DEF lead, cmp
  <2> QED BY <1>2, <1>3, <2>3, <2>4 DEF FewInverted
\* The only one that moves is not, if the render head has been seen moving.
<1>7. ASSUME Cardinality(movers) = 1, NEW c \in movers, "head" \in up, c[2] = PlayWord,
             NEW d \in DOMAIN rh_cands, d[2] = headWord, rh_cands[d].first_off = H!Moved
      PROVE  FALSE
  <2>1. d \in movers
    BY <1>1, <1>7 DEF Left
  <2>2. d = c
    BY <1>4, <1>7, <2>1, OnlyOne
  <2> QED BY <1>7, <2>2 DEF H!RenderHeadAssumption, SearchInv, SearchTypes
<1>8. ASSUME NEW c \in leader, H!rza1l_ssif_rh_finish(c[2])
      PROVE  SearchInv' /\ Right
  <2>1. c[2] = headWord
    BY <1>6
  <2> QED BY <1>2, <1>8, <2>1, Finished DEF Right
<1>9. ASSUME Cardinality(movers) = 1, NEW c \in lone, H!rza1l_ssif_rh_finish(c[2])
      PROVE  SearchInv' /\ Right
  <2>1. SearchInv' /\ render_head_addr' = c[2] /\ c \in movers
    BY <1>2, <1>9, Finished
  <2>2. c[2] = headWord \/ c[2] = PlayWord
    BY <1>5, <2>1
  <2>3. c[2] = PlayWord /\ "head" \in up =>
          \A d \in DOMAIN rh_cands : d[2] = headWord => rh_cands[d].first_off # H!Moved
    BY <1>7, <1>9, <2>1
  <2> HIDE DEF movers, lone
  <2> QED BY <2>1, <2>2, <2>3 DEF Right
<1>10. CASE H!rza1l_ssif_rh_finish(H!NoWord)
  BY <1>2, <1>10, Finished DEF Right
<1>11. CASE rh_cands' = H!None /\ UNCHANGED <<rh_done, render_head_addr>>
  <2>1. SearchTypes'
    BY <1>2, <1>11, NoneTyped DEF SearchInv
  <2> QED BY <1>11, <2>1, NoCandidates DEF SearchInv, Right
<1>12. CASE rh_cands' = cands /\ UNCHANGED <<rh_seed_attempts, rh_done, render_head_addr>>
  <2> HIDE DEF cands
  <2>1. SearchTypes'
    BY <1>1, <1>2, <1>12 DEF Left, SearchInv, SearchTypes
  <2>2. StraysStay'
    BY <1>1, <1>12 DEF Left, SearchInv, StraysStay
  <2>3. PlayLeads'
    BY <1>1, <1>12 DEF Left, PlayLeads
  <2> QED BY <1>12, <2>1, <2>2, <2>3 DEF SearchInv, Right
<1>13. \/ \E c \in leader : H!rza1l_ssif_rh_finish(c[2])
       \/ H!Cardinality(movers) = 1 /\ \E c \in lone : H!rza1l_ssif_rh_finish(c[2])
       \/ H!rza1l_ssif_rh_finish(H!NoWord)
       \/ rh_cands' = H!None /\ UNCHANGED <<rh_done, render_head_addr>>
       \/ rh_cands' = cands /\ UNCHANGED <<rh_seed_attempts, rh_done, render_head_addr>>
  BY VerifyCases
<1> HIDE DEF leader, lone, movers, cands
<1> QED BY <1>8, <1>9, <1>10, <1>11, <1>12, <1>13, SameCardinality

LEMMA SearchInit == H!RenderHeadAssumption /\ H!Init => SearchInv
<1> SUFFICES ASSUME H!RenderHeadAssumption, H!Init PROVE SearchInv
  OBVIOUS
<1>1. DOMAIN rh_cands = {} /\ rh_cands \in [{} -> Candidate]
  BY DEF H!Init, H!None
<1>2. SearchTypes
  BY <1>1 DEF H!Init, SearchTypes, H!RenderHeadAssumption
<1> QED BY <1>1, <1>2 DEF SearchInv, StraysStay, PlayLeads

LEMMA SearchStep ==
  ASSUME H!RenderHeadAssumption, FewInverted, SearchInv, [H!Next]_(H!vars)
  PROVE  SearchInv' /\ Right
<1>0. /\ up \in {{}, {"play"}, {"play", "head"}} /\ stray \in [Strays -> {0, H!Outside}]
  BY DEF SearchInv, SearchTypes
<1>1. CASE H!Pump
  <2>1. UNCHANGED <<headWord, sentinels, up, stray>>
    BY <1>1 DEF H!Pump, H!firmware
  <2>2. CASE UNCHANGED <<due, H!search, inverted>>
    <3>1. UNCHANGED <<inverted, rh_cands, render_head_addr>>
      BY <2>2 DEF H!search
    <3> QED BY <1>0, <2>1, <3>1, SearchKept DEF Right
  <2>3. ASSUME NEW b \in H!Offsets, H!rza1l_ssif_rh_seed(H!Pointing(0, b)), UNCHANGED inverted
        PROVE  SearchInv' /\ Right
    BY <2>1, <2>3, SeedStep
  <2>4. ASSUME NEW p \in H!Offsets, NEW b \in H!Offsets, NEW lag \in 0 .. MaxLag,
               inverted' = inverted + IF up = {"play", "head"} /\ b > RingSize \div 2 THEN 1 ELSE 0,
               inverted' <= MaxInverted,
               H!rza1l_ssif_rh_verify(H!Pointing(p, b), (p + lag) % RingSize)
        PROVE  SearchInv' /\ Right
    BY <2>1, <2>4, VerifyStep
  <2> QED BY <1>1, <2>2, <2>3, <2>4 DEF H!Pump
<1>2. CASE H!Tick
  <2>1. UNCHANGED <<headWord, sentinels, up, stray, inverted, rh_cands, render_head_addr>>
    BY <1>2 DEF H!Tick, H!firmware, H!search
  <2> QED BY <1>0, <2>1, SearchKept DEF Right
<1>3. CASE H!Arm
  <2>1. UNCHANGED <<headWord, sentinels, up, stray, inverted, rh_cands, render_head_addr>>
    BY <1>3 DEF H!Arm, H!search
  <2> QED BY <1>0, <2>1, SearchKept DEF Right
<1>4. CASE H!ComeUp
  <2>1. /\ UNCHANGED <<headWord, sentinels, stray, inverted, rh_cands, render_head_addr>>
        /\ up' \in {{"play"}, {"play", "head"}}
    BY <1>4 DEF H!ComeUp, H!search
  <2>2. up' \in {{}, {"play"}, {"play", "head"}}
    BY <2>1
  <2> QED BY <1>0, <2>1, <2>2, SearchKept DEF Right
<1>5. ASSUME NEW w \in Strays, H!Drift(w)
      PROVE  SearchInv' /\ Right
  <2>1. /\ UNCHANGED <<headWord, sentinels, up, inverted, rh_cands, render_head_addr>>
        /\ stray' = [stray EXCEPT ![w] = H!Outside]
    BY <1>5 DEF H!Drift, H!search
  <2>2. stray' \in [Strays -> {0, H!Outside}]
    BY <1>0, <2>1
  <2> QED BY <1>0, <2>1, <2>2, SearchKept DEF Right
<1>6. CASE H!Reset
  <2>1. UNCHANGED <<headWord, sentinels, stray, inverted, rh_cands, render_head_addr>> /\ up' = {}
    BY <1>6 DEF H!Reset, H!search
  <2> QED BY <1>0, <2>1, SearchKept DEF Right
<1>7. CASE UNCHANGED H!vars
  <2>1. UNCHANGED <<headWord, sentinels, up, stray, inverted, rh_cands, render_head_addr>>
    BY <1>7 DEF H!vars, H!firmware, H!search
  <2> QED BY <1>0, <2>1, SearchKept DEF Right
<1> QED BY <1>1, <1>2, <1>3, <1>4, <1>5, <1>6, <1>7 DEF H!Next

(* LockIsRight: the search takes the render head for what it is, or the    *)
(* copy of the play head while no render head has been seen to move; for   *)
(* any memory, scan buffers, words, rounds and resets, if the heads are    *)
(* seen inverted in too few rounds for three quarters of a decision.       *)
THEOREM LocksRight == FewInverted => (SearchSpec => LockIsRight)
<1> SUFFICES ASSUME FewInverted PROVE SearchSpec => LockIsRight
  OBVIOUS
<1>1. H!Init => SearchInv
  BY SearchInit, SearchAssumption
<1>2. SearchInv /\ [H!Next]_(H!vars) => SearchInv' /\ Right
  BY SearchStep, SearchAssumption
<1>3. SearchInv /\ [H!Next]_(H!vars) => [Right]_(H!vars)
  BY <1>2
<1> QED BY <1>1, <1>2, <1>3, PTL DEF SearchSpec, H!Spec, LockIsRight, H!LockIsRight, Right
-----------------------------------------------------------------------------
(* The safety that SearchEnds rests on: each scan of the memory uses up    *)
(* some of what the search may spend, whatever the words do in between and *)
(* whenever the machine is reset.                                          *)

\* What the search has expended: twice the rounds and the empty scans, and one for
\* candidates found.
Expended == 2 * (rh_rounds + rh_seed_attempts) + IF rh_cands = H!None THEN 0 ELSE 1

\* A search that goes on is within its limits, and so has spent a bounded amount.
WithinLimits ==
  ~rh_done => /\ rh_rounds < MaxRounds /\ rh_seed_attempts < MaxAttempts
              /\ Expended <= 2 * (MaxRounds + MaxAttempts)

\* A scan spends more or ends the search, nothing gives back what is spent, and
\* a search that has ended stays as it is (rza1l_ssif_rh_search).
ScansSpend ==
  [][/\ H!Pump /\ clock' = Warmup /\ due = 0 => rh_done' \/ Expended' > Expended
     /\ rh_done' \/ Expended' >= Expended
     /\ rh_done => UNCHANGED H!search]_(H!vars)

SpendingInv ==
  /\ rh_rounds \in Nat /\ rh_seed_attempts \in Nat /\ rh_done \in BOOLEAN
  /\ ~rh_done => rh_rounds < MaxRounds /\ rh_seed_attempts < MaxAttempts

Spending == (rh_done' \/ Expended' > Expended) /\ SpendingInv'

LEMMA LimitsPositive ==
  /\ MaxRounds \in Nat /\ 0 < MaxRounds
  /\ MaxAttempts \in Nat /\ 0 < MaxAttempts
<1>1. MaxRounds \in Nat \ {0} /\ MaxAttempts \in Nat \ {0}
  BY SearchAssumption, Zenon DEF H!RenderHeadAssumption
<1> QED BY <1>1

\* The sums of the steps below.
LEMMA SumGrows ==
  ASSUME NEW r \in Nat, NEW a \in Nat, NEW x \in {0, 1},
         NEW b \in Nat, b >= a, NEW y \in {0, 1}
  PROVE  2 * ((r + 1) + b) + y > 2 * (r + a) + x
OBVIOUS

LEMMA SeedSpends ==
  ASSUME SpendingInv, ~rh_done, rh_cands = H!None, NEW b,
         H!rza1l_ssif_rh_seed(H!Pointing(0, b))
  PROVE  Spending
<1> DEFINE value == H!Pointing(0, b)
           found == {c \in H!Slot : c[2] \in DOMAIN value}
           cands == [c \in found |-> [first_off |-> value[c[2]], trailed |-> FALSE,
                                      cmp_rounds |-> 0, lead_rounds |-> 0]]
<1>1. \/ \E w : H!rza1l_ssif_rh_finish(w) /\ UNCHANGED <<rh_rounds, rh_seed_attempts>>
      \/ H!SeedEmpty
      \/ /\ found # {} /\ rh_cands' = cands
         /\ UNCHANGED <<rh_rounds, rh_seed_attempts, rh_done, render_head_addr>>
  BY DEF H!rza1l_ssif_rh_seed
<1>2. CASE \E w : H!rza1l_ssif_rh_finish(w) /\ UNCHANGED <<rh_rounds, rh_seed_attempts>>
  BY <1>2 DEF H!rza1l_ssif_rh_finish, Spending, SpendingInv
<1>3. CASE H!SeedEmpty
  <2>1. /\ rh_seed_attempts' = rh_seed_attempts + 1 /\ rh_rounds' = rh_rounds
        /\ \/ rh_done' = TRUE
           \/ /\ ~(rh_seed_attempts + 1 >= MaxAttempts)
              /\ rh_cands' = rh_cands /\ rh_done' = rh_done
    BY <1>3 DEF H!SeedEmpty, H!rza1l_ssif_rh_finish
  <2>2. CASE rh_done' = TRUE
    BY <2>1, <2>2 DEF Spending, SpendingInv
  <2>3. CASE rh_done' # TRUE
    <3>1. Expended = 2 * (rh_rounds + rh_seed_attempts) + 0
      BY DEF Expended
    <3>2. Expended' = 2 * (rh_rounds + (rh_seed_attempts + 1)) + 0
      BY <2>1, <2>3 DEF Expended
    <3>3. Expended' > Expended
      BY <3>1, <3>2 DEF SpendingInv
    <3>4. rh_seed_attempts + 1 < MaxAttempts
      <4>1. rh_seed_attempts \in Nat
        BY DEF SpendingInv
      <4>2. ~(rh_seed_attempts + 1 >= MaxAttempts)
        BY <2>1, <2>3
      <4> QED BY <4>1, <4>2, LimitsPositive
    <3>5. /\ rh_rounds' \in Nat /\ rh_seed_attempts' \in Nat
          /\ rh_rounds' < MaxRounds
      BY <2>1 DEF SpendingInv
    <3>6. rh_seed_attempts' < MaxAttempts /\ rh_done' = rh_done
      BY <2>1, <2>3, <3>4
    <3>7. SpendingInv'
      BY <3>5, <3>6 DEF SpendingInv
    <3> QED BY <3>3, <3>7 DEF Spending
  <2> QED BY <2>2, <2>3
<1>4. CASE /\ found # {} /\ rh_cands' = cands
           /\ UNCHANGED <<rh_rounds, rh_seed_attempts, rh_done, render_head_addr>>
  <2>1. rh_cands' # H!None
    <3>1. DOMAIN rh_cands' = found
      BY <1>4
    <3>2. DOMAIN H!None = {}
      BY DEF H!None
    <3> QED BY <1>4, <3>1, <3>2
  <2>2. Expended = 2 * (rh_rounds + rh_seed_attempts) + 0
    BY DEF Expended
  <2>3. Expended' = 2 * (rh_rounds + rh_seed_attempts) + 1
    BY <1>4, <2>1 DEF Expended
  <2>4. Expended' > Expended
    BY <2>2, <2>3 DEF SpendingInv
  <2> QED BY <1>4, <2>4 DEF Spending, SpendingInv
<1> QED BY <1>1, <1>2, <1>3, <1>4

LEMMA VerifySpends ==
  ASSUME SpendingInv, ~rh_done, NEW p, NEW b, NEW wpos,
         H!rza1l_ssif_rh_verify(H!Pointing(p, b), wpos)
  PROVE  Spending
<1>1. /\ rh_rounds' = rh_rounds + 1
      /\ \/ /\ \E w : H!rza1l_ssif_rh_finish(w)
            /\ rh_seed_attempts' \in {rh_seed_attempts, rh_seed_attempts + 1}
         \/ /\ ~(rh_rounds + 1 >= MaxRounds) /\ rh_done' = rh_done
            /\ \/ /\ rh_seed_attempts' = rh_seed_attempts + 1
                  /\ ~(rh_seed_attempts + 1 >= MaxAttempts)
               \/ rh_seed_attempts' = rh_seed_attempts
  BY DEF H!rza1l_ssif_rh_verify
<1>2. CASE \E w : H!rza1l_ssif_rh_finish(w)
  <2>1. rh_done' = TRUE
    BY <1>2 DEF H!rza1l_ssif_rh_finish
  <2>2. rh_rounds' \in Nat /\ rh_seed_attempts' \in Nat
    BY <1>1 DEF SpendingInv
  <2> QED BY <2>1, <2>2 DEF Spending, SpendingInv
<1>3. CASE /\ ~(rh_rounds + 1 >= MaxRounds) /\ rh_done' = rh_done
           /\ \/ /\ rh_seed_attempts' = rh_seed_attempts + 1
                 /\ ~(rh_seed_attempts + 1 >= MaxAttempts)
              \/ rh_seed_attempts' = rh_seed_attempts
  <2>1. /\ rh_rounds' \in Nat /\ rh_seed_attempts' \in Nat
        /\ rh_seed_attempts' >= rh_seed_attempts
        /\ rh_rounds' < MaxRounds /\ rh_seed_attempts' < MaxAttempts
    BY <1>1, <1>3, LimitsPositive DEF SpendingInv
  <2>2. PICK x \in {0, 1} : Expended = 2 * (rh_rounds + rh_seed_attempts) + x
    BY DEF Expended
  <2>3. PICK y \in {0, 1} : Expended' = 2 * (rh_rounds' + rh_seed_attempts') + y
    BY DEF Expended
  <2>4. Expended' > Expended
    <3>1. rh_rounds \in Nat /\ rh_seed_attempts \in Nat /\ rh_rounds' = rh_rounds + 1
      BY <1>1 DEF SpendingInv
    <3>2. 2 * ((rh_rounds + 1) + rh_seed_attempts') + y
             > 2 * (rh_rounds + rh_seed_attempts) + x
      BY <2>1, <3>1, SumGrows
    <3> QED BY <2>2, <2>3, <3>1, <3>2
  <2> QED BY <1>3, <2>1, <2>4 DEF Spending, SpendingInv
<1> QED BY <1>1, <1>2, <1>3

LEMMA PumpSpends ==
  ASSUME SpendingInv, H!Pump
  PROVE  \/ clock' = Warmup /\ due = 0 /\ Spending
         \/ ~(clock' = Warmup /\ due = 0) /\ UNCHANGED H!search
<1>1. ~rh_done /\ Warmup \in Nat
  BY SearchAssumption DEF H!Pump, H!RenderHeadAssumption
<1>2. \/ (clock' < Warmup \/ due > 0) /\ UNCHANGED H!search
      \/ /\ clock' = Warmup /\ due = 0 /\ rh_cands = H!None
         /\ \E b : H!rza1l_ssif_rh_seed(H!Pointing(0, b))
      \/ /\ clock' = Warmup /\ due = 0
         /\ \E p, b, wpos : H!rza1l_ssif_rh_verify(H!Pointing(p, b), wpos)
  BY DEF H!Pump
<1>3. clock' < Warmup \/ due > 0 => ~(clock' = Warmup /\ due = 0)
  BY <1>1
<1> QED BY <1>1, <1>2, <1>3, SeedSpends, VerifySpends

LEMMA SpendingStep ==
  ASSUME SpendingInv, [H!Next]_(H!vars)
  PROVE  /\ SpendingInv'
         /\ H!Pump /\ clock' = Warmup /\ due = 0 => rh_done' \/ Expended' > Expended
         /\ rh_done' \/ Expended' >= Expended
         /\ rh_done => UNCHANGED H!search
<1>1. Expended \in Int
  BY DEF Expended, SpendingInv
<1>2. UNCHANGED H!search =>
        SpendingInv' /\ Expended' = Expended /\ rh_done' = rh_done
  BY DEF H!search, SpendingInv, Expended
<1>3. CASE H!Pump
  <2>1. ~rh_done
    BY <1>3 DEF H!Pump
  <2>2. CASE clock' = Warmup /\ due = 0
    <3>1. Spending
      BY <1>3, <2>2, PumpSpends
    <3>2. SpendingInv'
      BY <3>1 DEF Spending
    <3>3. Expended' \in Int
      BY <3>2 DEF Expended, SpendingInv
    <3> QED BY <1>1, <2>1, <3>1, <3>2, <3>3 DEF Spending
  <2>3. CASE ~(clock' = Warmup /\ due = 0)
    <3>1. UNCHANGED H!search
      BY <1>3, <2>3, PumpSpends
    <3> QED BY <1>1, <1>2, <2>1, <2>3, <3>1
  <2> QED BY <2>2, <2>3
<1>4. CASE ~H!Pump
  <2>1. UNCHANGED H!search
    BY <1>4 DEF H!Next, H!Tick, H!Arm, H!ComeUp, H!Drift, H!Reset, H!vars
  <2> QED BY <1>1, <1>2, <1>4, <2>1
<1> QED BY <1>3, <1>4

(* WithinLimits and ScansSpend: the search scans the memory at most so     *)
(* often, whatever resets, late engines and dying candidates do.           *)
THEOREM SearchWithinLimits == SearchSpec => []WithinLimits /\ ScansSpend
<1>1. H!Init => SpendingInv
  <2> SUFFICES ASSUME H!Init PROVE SpendingInv
    OBVIOUS
  <2>1. rh_rounds = 0 /\ rh_seed_attempts = 0 /\ rh_done = FALSE
    BY Zenon DEF H!Init
  <2> QED BY <2>1, LimitsPositive DEF SpendingInv
<1>2. SpendingInv => WithinLimits
  <2> SUFFICES ASSUME SpendingInv, ~rh_done PROVE WithinLimits
    BY DEF WithinLimits
  <2>1. MaxRounds \in Nat /\ MaxAttempts \in Nat
    BY LimitsPositive
  <2>2. PICK x \in {0, 1} : Expended = 2 * (rh_rounds + rh_seed_attempts) + x
    BY DEF Expended
  <2> QED BY <2>1, <2>2 DEF SpendingInv, WithinLimits
<1>3. SpendingInv /\ [H!Next]_(H!vars) => SpendingInv'
  BY SpendingStep
<1>4. SpendingInv /\ [H!Next]_(H!vars) =>
        [/\ H!Pump /\ clock' = Warmup /\ due = 0 => rh_done' \/ Expended' > Expended
         /\ rh_done' \/ Expended' >= Expended
         /\ rh_done => UNCHANGED H!search]_(H!vars)
  BY SpendingStep
<1> QED BY <1>1, <1>2, <1>3, <1>4, PTL DEF SearchSpec, H!Spec, ScansSpend

-----------------------------------------------------------------------------
(* The two models of the search agree: what SsifPump leaves open is what   *)
(* RenderHead does.                                                        *)

F == INSTANCE SsifPump WITH mode <- "auto", searchDone <- rh_done,
                            known <- (render_head_addr # H!NoWord)

\* The search begins without an address; a pump does with it what the pump's
\* model allows, once it is over nothing, and no other step touches it
\* (rza1l_ssif_rh_search, called by rza1l_ssif_pump).
SearchAsAssumed ==
  /\ ~rh_done /\ render_head_addr = H!NoWord
  /\ [][IF H!Pump THEN F!Search
        ELSE UNCHANGED <<rh_done, render_head_addr>>]_(H!vars)

LEMMA SeedEnds ==
  ASSUME NEW value, H!rza1l_ssif_rh_seed(value)
  PROVE  rh_done' = TRUE \/ UNCHANGED <<rh_done, render_head_addr>>
<1>1. \/ H!rza1l_ssif_rh_finish(H!NoWord)
      \/ \E w \in sentinels : H!rza1l_ssif_rh_finish(w)
      \/ H!SeedEmpty
      \/ UNCHANGED <<rh_done, render_head_addr>>
  BY SeedCases
<1> QED BY <1>1 DEF H!rza1l_ssif_rh_finish, H!SeedEmpty

LEMMA VerifyEnds ==
  ASSUME NEW value, NEW wpos, H!rza1l_ssif_rh_verify(value, wpos)
  PROVE  rh_done' = TRUE \/ UNCHANGED <<rh_done, render_head_addr>>
<1>1. \/ \E w : H!rza1l_ssif_rh_finish(w)
      \/ UNCHANGED <<rh_done, render_head_addr>>
  BY VerifyCases
<1> QED BY <1>1 DEF H!rza1l_ssif_rh_finish

\* SearchAsAssumed: the pump's proof, which lets the search end in any pump with
\* or without the address, covers every search there is.
THEOREM SearchImplementsPump == SearchSpec => SearchAsAssumed
<1>1. H!Init => ~rh_done /\ render_head_addr = H!NoWord
  BY DEF H!Init
<1>2. [H!Next]_(H!vars) => [IF H!Pump THEN F!Search
                            ELSE UNCHANGED <<rh_done, render_head_addr>>]_(H!vars)
  <2> SUFFICES ASSUME H!Next
               PROVE  IF H!Pump THEN F!Search
                      ELSE UNCHANGED <<rh_done, render_head_addr>>
    OBVIOUS
  <2>1. CASE H!Pump
    <3>1. \/ UNCHANGED H!search
          \/ \E b : H!rza1l_ssif_rh_seed(H!Pointing(0, b))
          \/ \E p, b, wpos : H!rza1l_ssif_rh_verify(H!Pointing(p, b), wpos)
      BY <2>1 DEF H!Pump
    <3>2. rh_done' = TRUE \/ UNCHANGED <<rh_done, render_head_addr>>
      BY <3>1, SeedEnds, VerifyEnds DEF H!search
    <3>3. (render_head_addr' # H!NoWord) \in BOOLEAN
      OBVIOUS
    <3>4. ~rh_done
      BY <2>1 DEF H!Pump
    <3> QED BY <2>1, <3>2, <3>3, <3>4 DEF F!Search
  <2>2. CASE ~H!Pump
    <3>1. UNCHANGED H!search
      BY <2>2 DEF H!Next, H!Tick, H!Arm, H!ComeUp, H!Drift, H!Reset
    <3> QED BY <2>2, <3>1 DEF H!search
  <2> QED BY <2>1, <2>2
<1> QED BY <1>1, <1>2, PTL DEF SearchSpec, H!Spec, SearchAsAssumed
=============================================================================
