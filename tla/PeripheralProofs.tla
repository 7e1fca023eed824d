-------------------------- MODULE PeripheralProofs --------------------------
(***************************************************************************)
(* Proofs about the peripherals the firmware drives by itself, for any     *)
(* size of their registers, rings and buffers.  First part, the OS timer   *)
(* (Ostm): the count computed at a read is the one a counter would show.   *)
(* Second part, the timer unit (Mtu2): nothing but a torn reading makes a  *)
(* delay too short.  Third part, the serial MIDI port (MidiSerial): the    *)
(* bytes out are in order, and each byte in has the time at which it came  *)
(* beside it.  Fourth part, the OLED panel behind its SPI channel          *)
(* (OledPanel, OledSpi): the panel shows the last frame sent, byte for     *)
(* byte.                                                                   *)
(***************************************************************************)
EXTENDS MCPeripherals, NaturalsInduction, WellFoundedInduction, SequenceTheorems, TLAPS

-----------------------------------------------------------------------------
(* Arithmetic of remainders, which the steps below keep out of their own   *)
(* obligations.                                                            *)

LEMMA ModRange ==
  ASSUME NEW m \in Nat \ {0}, NEW a \in Int
  PROVE  a % m \in 0 .. m - 1
  OBVIOUS

LEMMA Unique ==
  ASSUME NEW m \in Nat \ {0}, NEW q \in Int, NEW r \in 0 .. m - 1
  PROVE  (m * q + r) % m = r
  OBVIOUS

LEMMA Divides ==
  ASSUME NEW m \in Nat \ {0}, NEW a \in Int
  PROVE  \E q \in Int, r \in 0 .. m - 1 : a = m * q + r /\ a % m = r
  <1> DEFINE q == a \div m  r == a % m
  <1>1. a = m * q + r /\ q \in Int /\ r \in 0 .. m - 1
    OBVIOUS
  <1> QED  BY <1>1

\* A sum that wraps at most once, or lacks at most one period.
LEMMA Wrapped ==
  ASSUME NEW m \in Nat \ {0}, NEW a \in Int
  PROVE  /\ a \in 0 .. m - 1 => a % m = a
         /\ a \in m .. 2 * m - 1 => a % m = a - m
         /\ a \in -m .. -1 => a % m = a + m
  <1>1. PICK q \in Int, r \in 0 .. m - 1 : a = m * q + r /\ a % m = r
    BY Divides
  <1>2. ASSUME a \in 0 .. m - 1
        PROVE  a % m = a
    <2>1. (m * 0 + a) % m = a
      BY <1>2, Unique
    <2> QED  BY <2>1
  <1>3. ASSUME a \in m .. 2 * m - 1
        PROVE  a % m = a - m
    <2>1. (m * 1 + (a - m)) % m = a - m
      BY <1>3, Unique
    <2> QED  BY <2>1
  <1>4. ASSUME a \in -m .. -1
        PROVE  a % m = a + m
    <2>1. (m * (-1) + (a + m)) % m = a + m
      BY <1>4, Unique
    <2> QED  BY <2>1
  <1> QED  BY <1>2, <1>3, <1>4

\* One more, where the next is the first again.
LEMMA CountStep ==
  ASSUME NEW m \in Nat \ {0}, NEW c \in 0 .. m - 1
  PROVE  (c + 1) % m = IF c = m - 1 THEN 0 ELSE c + 1
  <1>1. CASE c = m - 1
    <2>1. (m * 1 + 0) % m = 0
      BY Unique
    <2> QED  BY <1>1, <2>1
  <1>2. CASE c # m - 1
    <2>1. (m * 0 + (c + 1)) % m = c + 1
      BY <1>2, Unique
    <2> QED  BY <1>2, <2>1
  <1> QED  BY <1>1, <1>2

\* Two places round a ring.
LEMMA RoundOnce ==
  ASSUME NEW m \in Nat \ {0}, NEW a \in 0 .. m - 1, NEW b \in 0 .. m - 1
  PROVE  (a + b) % m = IF a + b < m THEN a + b ELSE a + b - m
  <1>1. CASE a + b < m
    <2>1. (m * 0 + (a + b)) % m = a + b
      BY <1>1, Unique
    <2> QED  BY <1>1, <2>1
  <1>2. CASE ~(a + b < m)
    <2>1. (m * 1 + (a + b - m)) % m = a + b - m
      BY <1>2, Unique
    <2> QED  BY <1>2, <2>1
  <1> QED  BY <1>1, <1>2

LEMMA ModStep ==
  ASSUME NEW m \in Nat \ {0}, NEW a \in Int
  PROVE  (a + 1) % m = IF a % m = m - 1 THEN 0 ELSE (a % m) + 1
  <1>1. PICK q \in Int, r \in 0 .. m - 1 : a = m * q + r /\ a % m = r
    BY Divides
  <1>2. CASE r = m - 1
    <2>1. a + 1 = m * (q + 1) + 0 /\ q + 1 \in Int /\ 0 \in 0 .. m - 1
      BY <1>1, <1>2
    <2> QED  BY <1>1, <1>2, <2>1, Unique
  <1>3. CASE r # m - 1
    <2>1. a + 1 = m * q + (r + 1) /\ r + 1 \in 0 .. m - 1
      BY <1>1, <1>3
    <2> QED  BY <1>1, <1>3, <2>1, Unique
  <1> QED  BY <1>2, <1>3

-----------------------------------------------------------------------------
(* The OS timer.                                                           *)

OstmTypes ==
  /\ cmp \in O!Count /\ frozen \in O!Count /\ counter \in O!Count
  /\ MD \in BOOLEAN /\ enabled \in BOOLEAN /\ changed \in BOOLEAN
  /\ elapsed \in Nat

OstmInv == OstmTypes /\ O!CountsLikeHardware

\* Going down is going up in the remainder.
LEMMA IntervalStep ==
  ASSUME NEW c \in Nat, NEW r \in 0 .. c, NEW s,
         s = IF r = c THEN 0 ELSE r + 1
  PROVE  LET down(n) == IF c = 0 THEN 0 ELSE c - n
         IN  down(s) = IF down(r) = 0 THEN c ELSE down(r) - 1
  OBVIOUS

LEMMA OstmInit == O!OstmAssumption /\ O!Init => OstmInv
  <1>1. O!OstmAssumption => 0 \in O!Count
    BY DEF O!OstmAssumption, O!Count
  <1>2. O!OstmAssumption /\ O!Init => OstmTypes
    <2>1. 0 \in Nat /\ FALSE \in BOOLEAN
      OBVIOUS
    <2> QED  BY <1>1, <2>1, Zenon DEF O!Init, OstmTypes
  <1>3. O!Init => O!CountsLikeHardware
    BY DEF O!Init, O!CountsLikeHardware, O!rza1l_ostm_cnt_value
  <1> QED  BY <1>2, <1>3 DEF OstmInv

LEMMA OstmStep ==
  ASSUME O!OstmAssumption, OstmInv, [O!Next]_(O!vars)
  PROVE  OstmInv'
  <1> USE DEF O!OstmAssumption, O!Count, OstmInv, OstmTypes
  <1>0. /\ Width \in Nat \ {0} /\ cmp \in Nat /\ elapsed \in Nat
        /\ elapsed \in Int /\ cmp + 1 \in Nat \ {0} /\ 0 \in O!Count
    OBVIOUS
  <1>a. O!rza1l_ostm_cnt_value \in O!Count
    <2>1. elapsed % Width \in 0 .. Width - 1 /\ elapsed % (cmp + 1) \in 0 .. cmp
      BY <1>0, ModRange
    <2> QED  BY <1>0, <2>1 DEF O!rza1l_ostm_cnt_value, O!Interval
  <1>1. CASE O!Tick
    <2>1. CASE ~enabled
      BY <1>1, <2>1 DEF O!Tick, O!CountsLikeHardware, O!rza1l_ostm_cnt_value
    <2>2. CASE enabled /\ MD
      <3>1. elapsed % Width \in 0 .. Width - 1
        BY <1>0, ModRange
      <3>2. (elapsed + 1) % Width = IF elapsed % Width = Width - 1 THEN 0 ELSE (elapsed % Width) + 1
        BY <1>0, ModStep
      <3>3. (counter + 1) % Width = IF counter = Width - 1 THEN 0 ELSE counter + 1
        BY <1>0, Wrapped
      <3> QED  BY <1>0, <1>1, <2>2, <3>1, <3>2, <3>3
               DEF O!Tick, O!CountsLikeHardware, O!rza1l_ostm_cnt_value
    <2>3. CASE enabled /\ ~MD
      <3>1. /\ O!Interval = IF cmp = 0 THEN 0 ELSE cmp - (elapsed % (cmp + 1))
            /\ O!Interval' = IF cmp = 0 THEN 0 ELSE cmp - ((elapsed + 1) % (cmp + 1))
        BY <1>1, <2>3 DEF O!Tick, O!Interval
      <3>2. /\ elapsed % (cmp + 1) \in 0 .. cmp
            /\ (elapsed + 1) % (cmp + 1)
                 = IF elapsed % (cmp + 1) = cmp THEN 0 ELSE (elapsed % (cmp + 1)) + 1
        <4> DEFINE n == cmp + 1
        <4>1. n \in Nat \ {0} /\ n - 1 = cmp
          BY <1>0
        <4> HIDE DEF n
        <4>2. elapsed % n \in 0 .. n - 1
              /\ (elapsed + 1) % n = IF elapsed % n = n - 1 THEN 0 ELSE (elapsed % n) + 1
          BY <1>0, <4>1, ModRange, ModStep
        <4> QED  BY <4>1, <4>2 DEF n
      <3>3. O!Interval' = IF O!Interval = 0 THEN cmp ELSE O!Interval - 1
        BY <1>0, <3>1, <3>2, IntervalStep
      <3> QED  BY <1>0, <1>1, <2>3, <3>3
               DEF O!Tick, O!CountsLikeHardware, O!rza1l_ostm_cnt_value
    <2> QED  BY <2>1, <2>2, <2>3
  <1>2. ASSUME NEW v \in O!Count, O!WriteCMP(v)
        PROVE  OstmInv'
    BY <1>2 DEF O!WriteCMP, O!CountsLikeHardware, O!rza1l_ostm_cnt_value
  <1>3. ASSUME NEW md \in BOOLEAN, O!WriteCTL(md)
        PROVE  OstmInv'
    BY <1>3 DEF O!WriteCTL, O!CountsLikeHardware, O!rza1l_ostm_cnt_value
  <1>4. CASE O!StartTimer
    <2>1. 0 % Width = 0 /\ 0 % (cmp + 1) = 0
      BY <1>0, Wrapped
    <2>2. OstmTypes'
      BY <1>0, <1>4 DEF O!StartTimer
    <2>3. O!CountsLikeHardware'
      BY <1>4, <2>1
         DEF O!StartTimer, O!CountsLikeHardware, O!rza1l_ostm_cnt_value, O!Interval
    <2> QED  BY <2>2, <2>3
  <1>5. CASE O!StopTimer
    BY <1>a, <1>5 DEF O!StopTimer, O!CountsLikeHardware, O!rza1l_ostm_cnt_value
  <1>6. CASE O!Reset
    <2>1. OstmTypes'
      BY <1>0, <1>6 DEF O!Reset
    <2>2. O!CountsLikeHardware'
      BY <1>6 DEF O!Reset, O!CountsLikeHardware, O!rza1l_ostm_cnt_value
    <2> QED  BY <2>1, <2>2
  <1>7. CASE UNCHANGED O!vars
    BY <1>7 DEF O!vars, O!CountsLikeHardware, O!rza1l_ostm_cnt_value, O!Interval
  <1> QED  BY <1>1, <1>2, <1>3, <1>4, <1>5, <1>6, <1>7 DEF O!Next

(* The count that rza1l_ostm_cnt_value computes from the clock is the one  *)
(* a counter would show that is clocked, in either mode, for any width of  *)
(* the registers, any period and any sequence of starts, stops and writes  *)
(* (rza1l_ostm_write), as long as mode and period stay while it runs.      *)
THEOREM CountRight == O!Spec => []CountsLikeHardware
  <1>1. O!Init => OstmInv
    BY OstmInit, TimersAssumption
  <1>2. OstmInv /\ [O!Next]_(O!vars) => OstmInv'
    BY OstmStep, TimersAssumption
  <1>3. OstmInv => CountsLikeHardware
    BY DEF OstmInv, CountsLikeHardware
  <1> QED  BY <1>1, <1>2, <1>3, PTL DEF O!Spec

-----------------------------------------------------------------------------
(* The timer unit.  The delay compares readings, the property the time     *)
(* that has passed; the invariant joins them.  While no reading is torn,   *)
(* a reading lags behind the counter by the ticks since its first byte,    *)
(* which never carry into the second byte, and what the counter has moved  *)
(* since the first reading, wherever it wrapped, is no more than the time  *)
(* waited.  A reading that lags by more than that is only possible once a  *)
(* whole period has gone by.                                               *)

Moved == IF start <= TCNT THEN TCNT - start ELSE TCNT - start + T!Values
Lag == (TCNT % Base) - low

DelayTypes ==
  /\ TCNT \in 0 .. T!Values - 1 /\ icount \in BOOLEAN /\ torn \in BOOLEAN
  /\ ticks \in 0 .. T!Values /\ waited \in 0 .. T!Values
  /\ start \in Int /\ low \in Int
  /\ start # T!None => ticks > 0
  /\ low # T!None => ticks > 0

StartBehind == start # T!None => start \in 0 .. T!Values - 1 /\ Moved <= waited

LowBehind ==
  low # T!None =>
    /\ low \in 0 .. TCNT % Base /\ Lag <= waited
    /\ start # T!None => (Lag <= Moved \/ waited = T!Values)

DelayInv ==
  /\ DelayTypes
  /\ T!ShortOnlyIfTorn
  /\ ~torn => (StartBehind /\ LowBehind)

LEMMA WidthOK ==
  T!TimerAssumption => Base \in Nat \ {0} /\ T!Values \in Nat \ {0} /\ Base <= T!Values
  <1>1. ASSUME NEW b \in Nat \ {0}
        PROVE  b * b \in Nat \ {0} /\ b <= b * b
    OBVIOUS
  <1> QED  BY <1>1 DEF T!TimerAssumption, T!Values

\* Two bytes make the counter of now, but for what the first lags behind.
LEMMA ReadingLags ==
  ASSUME NEW b \in Nat \ {0}, NEW n \in Nat, NEW l \in Int
  PROVE  /\ l + b * (n \div b) = n - ((n % b) - l)
         /\ n % b \in 0 .. b - 1 /\ n % b <= n
  <1> DEFINE q == n \div b  r == n % b
  <1>1. n = b * q + r /\ r \in 0 .. b - 1 /\ q \in Int
    OBVIOUS
  <1> HIDE DEF q, r
  <1>2. ASSUME q < 0 PROVE b * q <= -b
    <2>1. ASSUME NEW k \in Int, k < 0 PROVE b * k <= -b
      <3> DEFINE j == -1 - k
      <3>1. j \in Nat /\ k = -1 - j
        BY <2>1
      <3> HIDE DEF j
      <3>2. b * j \in Nat
        BY <3>1
      <3>3. b * (-1 - j) = -b - b * j
        BY <3>1
      <3>4. b * k = -b - b * j
        BY <3>1, <3>3
      <3> QED  BY <3>2, <3>4
    <2> QED  BY <1>1, <1>2, <2>1
  <1>3. b * q \in Nat
    <2>1. b * q \in Int
      BY <1>1
    <2>2. q >= 0 => b * q >= 0
      BY <1>1
    <2> DEFINE p == b * q
    <2>3. p \in Int /\ n = p + r /\ (q < 0 => p <= -b) /\ (q >= 0 => p >= 0)
      BY <1>1, <1>2, <2>1, <2>2
    <2> HIDE DEF p
    <2>4. p >= 0
      BY <1>1, <2>3
    <2> QED  BY <2>3, <2>4 DEF p
  <1>4. l + b * q = n - (r - l) /\ r <= n
    <2> DEFINE p == b * q
    <2>1. p \in Nat /\ n = p + r
      BY <1>1, <1>3
    <2> HIDE DEF p
    <2>2. l + p = n - (r - l) /\ r <= n
      BY <1>1, <2>1
    <2> QED  BY <2>2 DEF p
  <1> QED  BY <1>1, <1>4 DEF q, r

\* A byte that is not at its end does not wrap, nor does the counter.
LEMMA LowStep ==
  ASSUME NEW b \in Nat \ {0}, NEW n \in Nat, n % b # b - 1
  PROVE  (n + 1) % b = (n % b) + 1 /\ n # b * b - 1
  <1>0. n \in Int
    OBVIOUS
  <1>1. PICK q \in Int, r \in 0 .. b - 1 : n = b * q + r /\ n % b = r
    BY <1>0, Divides
  <1>2. r + 1 \in 0 .. b - 1
    BY <1>1
  <1>3. (b * q + (r + 1)) % b = r + 1
    BY <1>2, Unique
  <1>4. b * q + (r + 1) = n + 1
    BY <1>1
  <1>5. (b * (b - 1) + (b - 1)) % b = b - 1
    <2>1. b - 1 \in Int /\ b - 1 \in 0 .. b - 1
      OBVIOUS
    <2> QED  BY <2>1, Unique
  <1>6. b * (b - 1) + (b - 1) = b * b - 1
    OBVIOUS
  <1> QED  BY <1>1, <1>3, <1>4, <1>5, <1>6

LEMMA DelayInit ==
  ASSUME T!TimerAssumption, T!Init
  PROVE  DelayInv
  <1>1. T!Values \in Nat \ {0}
    BY WidthOK
  <1>2. /\ icount \in BOOLEAN /\ torn \in BOOLEAN /\ ~torn /\ ~early
        /\ low = T!None /\ start = T!None
    BY Zenon DEF T!Init
  <1>3. TCNT = 0 /\ ticks = 0 /\ waited = 0
    BY DEF T!Init
  <1>4. T!None = -1
    BY DEF T!None
  <1> QED  BY <1>1, <1>2, <1>3, <1>4 DEF DelayInv, DelayTypes, StartBehind, LowBehind,
           T!ShortOnlyIfTorn

LEMMA DelayTick ==
  ASSUME T!TimerAssumption, DelayInv, T!Tick
  PROVE  DelayInv'
  <1> DEFINE W == T!Values
  <1>0. Base \in Nat \ {0} /\ W \in Nat \ {0} /\ W' = W /\ Base <= W
    BY WidthOK DEF T!Values
  <1>t. DelayTypes
    BY DEF DelayInv
  <1>1. TCNT' = IF TCNT = W - 1 THEN 0 ELSE TCNT + 1
    <2>1. TCNT \in 0 .. W - 1
      BY <1>t DEF DelayTypes
    <2> HIDE DEF W
    <2>2. (TCNT + 1) % W = IF TCNT = W - 1 THEN 0 ELSE TCNT + 1
      BY <1>0, <2>1, CountStep
    <2> QED  BY <2>2 DEF T!Tick, T!Counted, W
  <1>2. waited' = IF waited < W THEN waited + 1 ELSE W
    BY DEF T!Tick, T!Saturated
  <1>3. /\ UNCHANGED <<icount, low, ticks, start, early>>
        /\ icount => low = T!None
    BY DEF T!Tick
  <1>4. torn' \in BOOLEAN /\ (torn' <=> (torn \/ T!Tears))
    BY Zenon DEF T!Tick
  <1>5. T!ShortOnlyIfTorn'
    BY <1>3, <1>4 DEF DelayInv, T!ShortOnlyIfTorn, T!Tears
  <1>6. DelayTypes'
    <2> HIDE DEF W
    <2>1. TCNT' \in 0 .. W - 1 /\ waited' \in 0 .. W
      BY <1>0, <1>1, <1>2, <1>t DEF DelayTypes, W
    <2> QED  BY <1>0, <1>3, <1>4, <1>t, <2>1 DEF DelayTypes, W, T!None
  <1>7. ASSUME ~torn'
        PROVE  StartBehind' /\ LowBehind'
    <2>1. ~torn /\ ~T!Tears /\ StartBehind /\ LowBehind
      BY <1>4, <1>7 DEF DelayInv
    <2>2. /\ TCNT \in 0 .. W - 1 /\ waited \in 0 .. W /\ start \in Int
          /\ Moved' = IF start <= TCNT' THEN TCNT' - start ELSE TCNT' - start + W
          /\ Moved = IF start <= TCNT THEN TCNT - start ELSE TCNT - start + W
      BY <1>0, <1>3, <1>t DEF DelayTypes, Moved
    <2> HIDE DEF W
    <2>3. ASSUME start # T!None
          PROVE  /\ start \in 0 .. W - 1
                 /\ Moved' = Moved + 1 \/ (Moved' = 0 /\ Moved = W - 1)
                 /\ Moved \in 0 .. W - 1 /\ Moved <= waited
      <3>1. start \in 0 .. W - 1 /\ Moved <= waited
        BY <2>1, <2>3 DEF StartBehind, W
      <3> QED  BY <1>0, <1>1, <2>2, <3>1
    <2>4. StartBehind'
      <3>1. ASSUME start # T!None
            PROVE  Moved' <= waited'
        BY <1>0, <1>2, <2>2, <2>3, <3>1
      <3> QED  BY <1>0, <1>3, <2>3, <3>1 DEF StartBehind, W, T!None
    <2>5. ASSUME low # T!None
          PROVE  /\ low \in 0 .. TCNT' % Base
                 /\ Lag' = Lag + 1 /\ Lag' \in 0 .. W - 1 /\ Lag \in Int
      <3>1. TCNT % Base # Base - 1 /\ TCNT \in Nat
        BY <2>1, <2>2, <2>5 DEF T!Tears
      <3>2. (TCNT + 1) % Base = (TCNT % Base) + 1 /\ TCNT # W - 1
        BY <1>0, <3>1, LowStep DEF W, T!Values
      <3>3. TCNT' % Base = (TCNT % Base) + 1
        BY <1>1, <3>2
      <3>4. TCNT % Base \in 0 .. Base - 1 /\ TCNT' % Base \in 0 .. Base - 1
        <4>1. TCNT \in Int /\ TCNT' \in Int
          BY <1>1, <2>2, <3>2
        <4> QED  BY <1>0, <4>1, ModRange
      <3>5. low \in 0 .. TCNT % Base
        BY <2>1, <2>5 DEF LowBehind
      <3>6. Lag' = (TCNT' % Base) - low /\ Lag = (TCNT % Base) - low
        BY <1>3 DEF Lag
      <3> DEFINE a == TCNT % Base  c == TCNT' % Base
      <3>7. c = a + 1 /\ a \in 0 .. Base - 1 /\ c \in 0 .. Base - 1 /\ low \in 0 .. a
            /\ Lag' = c - low /\ Lag = a - low
        BY <3>3, <3>4, <3>5, <3>6
      <3> HIDE DEF a, c
      <3>8. low \in 0 .. c /\ Lag' = Lag + 1 /\ Lag' \in 0 .. W - 1 /\ Lag \in Int
        BY <1>0, <3>7
      <3> QED  BY <3>8 DEF c
    <2>6. LowBehind'
      <3>1. ASSUME low # T!None
            PROVE  Lag' <= waited'
        <4>1. Lag <= waited
          BY <2>1, <3>1 DEF LowBehind
        <4> QED  BY <1>0, <1>2, <2>2, <2>5, <3>1, <4>1
      <3>2. ASSUME low # T!None, start # T!None
            PROVE  Lag' <= Moved' \/ waited' = W
        <4>1. Lag <= Moved \/ waited = W
          BY <2>1, <3>2 DEF LowBehind, W
        <4> QED  BY <1>0, <1>2, <2>2, <2>3, <2>5, <3>2, <4>1
      <3> QED  BY <1>0, <1>3, <2>5, <3>1, <3>2 DEF LowBehind, W, T!None
    <2> QED  BY <2>4, <2>6
  <1> QED  BY <1>5, <1>6, <1>7 DEF DelayInv

LEMMA DelayReadHigh ==
  ASSUME T!TimerAssumption, DelayInv, T!ReadHigh
  PROVE  DelayInv'
  <1> DEFINE W == T!Values
  <1>0. Base \in Nat \ {0} /\ W \in Nat \ {0} /\ W' = W /\ Base <= W
    BY WidthOK DEF T!Values
  <1>t. DelayTypes
    BY DEF DelayInv
  <1>1. low # T!None /\ low' = T!None /\ UNCHANGED <<icount, TCNT, waited, torn>>
    BY DEF T!ReadHigh
  <1>2. /\ TCNT \in 0 .. W - 1 /\ waited \in 0 .. W /\ ticks \in 1 .. W
        /\ start \in Int /\ low \in Int
    BY <1>0, <1>1, <1>t DEF DelayTypes
  <1>3. T!Reading = TCNT - Lag /\ Lag \in Int /\ TCNT % Base <= TCNT
    <2>1. TCNT \in Nat
      BY <1>0, <1>2
    <2>2. /\ low + Base * (TCNT \div Base) = TCNT - ((TCNT % Base) - low)
          /\ TCNT % Base \in 0 .. Base - 1 /\ TCNT % Base <= TCNT
      BY <1>0, <1>2, <2>1, ReadingLags
    <2>3. T!Reading = TCNT - Lag /\ Lag = (TCNT % Base) - low
      BY <2>2 DEF T!Reading, T!Byte, Lag
    <2> QED  BY <1>0, <1>2, <2>2, <2>3
  <1>4. early' => ticks' = 0 /\ waited < ticks
    <2>1. early' = (ticks' = 0 /\ waited < ticks)
      BY Zenon DEF T!ReadHigh
    <2> QED  BY <2>1, Zenon
  <1>5. CASE start = T!None
    <2>1. start' = T!Reading /\ ticks' = ticks
      BY <1>5 DEF T!ReadHigh
    <2>2. ~early'
      BY <1>2, <1>4, <2>1
    <2>3. DelayTypes'
      BY <1>0, <1>1, <1>2, <1>3, <1>t, <2>1 DEF DelayTypes, T!None
    <2>4. ASSUME ~torn
          PROVE  StartBehind'
      <3>1. low \in 0 .. TCNT % Base /\ Lag <= waited /\ Lag = (TCNT % Base) - low
        BY <1>1, <2>4 DEF DelayInv, LowBehind, Lag
      <3>2. Lag \in 0 .. TCNT
        <4> DEFINE a == TCNT % Base
        <4>1. low \in 0 .. a /\ Lag = a - low /\ a <= TCNT
          BY <1>3, <3>1
        <4>2. a \in Int
          BY <1>0, <1>2, ModRange
        <4> HIDE DEF a
        <4> QED  BY <1>2, <4>1, <4>2
      <3>3. start' = TCNT - Lag /\ TCNT' = TCNT
        BY <1>1, <1>3, <2>1
      <3>4. Moved' = Lag
        BY <1>0, <1>2, <3>2, <3>3 DEF Moved
      <3> QED  BY <1>0, <1>1, <1>2, <3>1, <3>2, <3>3, <3>4 DEF StartBehind
    <2> QED  BY <1>1, <2>2, <2>3, <2>4 DEF DelayInv, LowBehind, T!ShortOnlyIfTorn
  <1>6. ASSUME start # T!None, ~torn
        PROVE  (T!Over => waited >= ticks) /\ start \in 0 .. W - 1 /\ Moved <= waited
    <2>1. /\ start \in 0 .. W - 1 /\ Moved <= waited
          /\ Lag <= Moved \/ waited = W
          /\ low \in 0 .. TCNT % Base
      BY <1>1, <1>6 DEF DelayInv, StartBehind, LowBehind
    <2>2. Lag \in Nat
      <3> DEFINE a == TCNT % Base
      <3>1. low \in 0 .. a /\ Lag = a - low
        BY <2>1 DEF Lag
      <3>2. a \in Int
        BY <1>0, <1>2, ModRange
      <3> HIDE DEF a
      <3> QED  BY <1>2, <3>1, <3>2
    <2>3. ASSUME Lag <= Moved
          PROVE  (T!Reading - start) % W = Moved - Lag /\ Moved \in Int
      <3>1. \/ TCNT - start \in 0 .. W - 1 /\ Moved = TCNT - start
            \/ TCNT - start \in -W .. -1 /\ Moved = TCNT - start + W
        BY <1>0, <1>2, <2>1 DEF Moved
      <3> DEFINE d == T!Reading - start
      <3>2. d \in Int /\ d = TCNT - Lag - start
        BY <1>2, <1>3
      <3> HIDE DEF W, d
      <3>3. \/ d \in 0 .. W - 1 /\ Moved - Lag = d
            \/ d \in -W .. -1 /\ Moved - Lag = d + W
        BY <1>0, <1>2, <2>1, <2>2, <2>3, <3>1, <3>2
      <3>4. d % W = Moved - Lag
        BY <1>0, <3>2, <3>3, Wrapped
      <3> QED  BY <1>0, <1>2, <2>1, <3>1, <3>4 DEF d
    <2>4. ASSUME T!Over, Lag <= Moved
          PROVE  waited >= ticks
      <3>1. Moved - Lag >= ticks /\ Moved \in Int
        BY <2>3, <2>4 DEF T!Over
      <3> QED  BY <1>2, <2>1, <2>2, <3>1
    <2> QED  BY <1>0, <1>2, <2>1, <2>4
  <1>7. CASE start # T!None /\ T!Over
    <2>1. start' = T!None /\ ticks' = 0
      BY <1>7 DEF T!ReadHigh
    <2>2. DelayTypes'
      BY <1>0, <1>1, <1>2, <1>t, <2>1 DEF DelayTypes, T!None
    <2>3. early' => torn
      BY <1>2, <1>4, <1>6, <1>7
    <2> QED  BY <1>1, <2>1, <2>2, <2>3 DEF DelayInv, StartBehind, LowBehind, T!ShortOnlyIfTorn
  <1>8. CASE start # T!None /\ ~T!Over
    <2>1. start' = start /\ ticks' = ticks
      BY <1>8 DEF T!ReadHigh
    <2>2. ~early'
      BY <1>2, <1>4, <2>1
    <2>3. DelayTypes'
      BY <1>0, <1>1, <1>2, <1>t, <2>1 DEF DelayTypes, T!None
    <2>4. ~torn => StartBehind'
      BY <1>0, <1>1, <1>6, <1>8, <2>1 DEF StartBehind, Moved
    <2> QED  BY <1>1, <2>2, <2>3, <2>4 DEF DelayInv, LowBehind, T!ShortOnlyIfTorn
  <1> QED  BY <1>5, <1>7, <1>8

LEMMA DelayStep ==
  ASSUME T!TimerAssumption, DelayInv, [T!Next]_(T!vars)
  PROVE  DelayInv'
  <1> DEFINE W == T!Values
  <1>0. Base \in Nat \ {0} /\ W \in Nat \ {0} /\ W' = W
    BY WidthOK DEF T!Values
  <1>t. DelayTypes
    BY DEF DelayInv
  <1>1. CASE T!Tick
    BY <1>1, DelayTick
  <1>2. ASSUME NEW n \in Delays, T!BeginDelay(n)
        PROVE  DelayInv'
    <2>1. n \in 1 .. W
      BY <1>0 DEF T!TimerAssumption
    <2>2. low = T!None /\ start = T!None
      BY <1>2, <1>t DEF DelayTypes, T!BeginDelay
    <2>4. ~torn' /\ ~early' /\ torn' \in BOOLEAN
      BY <1>2, Zenon DEF T!BeginDelay
    <2>5. ticks' = n /\ waited' = 0 /\ UNCHANGED <<icount, TCNT, low, start>>
      BY <1>2 DEF T!BeginDelay
    <2>3. DelayTypes'
      BY <1>0, <1>t, <2>1, <2>4, <2>5 DEF DelayTypes, T!None
    <2> QED  BY <2>2, <2>3, <2>4, <2>5 DEF DelayInv, StartBehind, LowBehind,
             T!ShortOnlyIfTorn, T!None
  <1>3. ASSUME NEW v \in 0 .. W - 1, T!WriteTCNT(v)
        PROVE  DelayInv'
    <2>1. low = T!None /\ start = T!None
      BY <1>3, <1>t DEF DelayTypes, T!WriteTCNT
    <2>2. DelayTypes'
      BY <1>0, <1>3, <1>t DEF DelayTypes, T!WriteTCNT
    <2> QED  BY <1>3, <2>1, <2>2 DEF T!WriteTCNT, DelayInv, StartBehind, LowBehind,
             T!ShortOnlyIfTorn
  <1>4. CASE T!ReadLow
    <2>1. low' = TCNT % Base /\ ticks > 0
          /\ UNCHANGED <<icount, TCNT, ticks, start, waited, torn, early>>
      BY <1>4 DEF T!ReadLow, T!Byte
    <2>2. TCNT % Base \in 0 .. Base - 1
      BY <1>0, <1>t, ModRange DEF DelayTypes
    <2>3. DelayTypes'
      BY <1>0, <1>t, <2>1, <2>2 DEF DelayTypes
    <2>4. ASSUME ~torn
          PROVE  StartBehind' /\ LowBehind'
      <3>1. StartBehind'
        BY <1>0, <2>1, <2>4 DEF DelayInv, StartBehind, Moved
      <3>2. Lag' = 0 /\ low' \in 0 .. TCNT' % Base
        BY <2>1, <2>2 DEF Lag
      <3>3. start' # T!None => Moved' >= 0
        BY <1>0, <1>t, <2>1, <3>1 DEF StartBehind, Moved, DelayTypes
      <3>4. waited' >= 0
        BY <2>3 DEF DelayTypes
      <3> QED  BY <3>1, <3>2, <3>3, <3>4 DEF LowBehind
    <2> QED  BY <2>1, <2>3, <2>4 DEF DelayInv, T!ShortOnlyIfTorn
  <1>5. CASE T!ReadHigh
    BY <1>5, DelayReadHigh
  <1>6. CASE T!Reset
    <2>1. ~torn' /\ ~early' /\ torn' \in BOOLEAN
      BY <1>6, Zenon DEF T!Reset
    <2>2. /\ TCNT' = 0 /\ ticks' = 0 /\ waited' = 0 /\ icount' = icount
          /\ low' = T!None' /\ start' = T!None' /\ T!None' = -1
      BY <1>6 DEF T!Reset, T!None
    <2> QED  BY <1>0, <1>t, <2>1, <2>2 DEF DelayInv, DelayTypes, StartBehind, LowBehind,
             T!ShortOnlyIfTorn
  <1>7. CASE UNCHANGED T!vars
    BY <1>0, <1>7 DEF T!vars, DelayInv, DelayTypes, StartBehind, LowBehind, Moved,
       Lag, T!ShortOnlyIfTorn
  <1> QED  BY <1>1, <1>2, <1>3, <1>4, <1>5, <1>6, <1>7 DEF T!Next

(* On either machine, a busy-wait of the firmware is over before its time  *)
(* only if one of its readings was torn between the two bytes; no reading  *)
(* is torn on a machine with an instruction counter.  This holds wherever  *)
(* the counter wraps, however long a reading takes and whatever was        *)
(* written to the counter before, for bytes of any size and any delays     *)
(* (rza1l_mtu2_read, rza1l_mtu2_tcnt_value).                               *)
THEOREM DelayShortOnlyIfTorn == T!Spec => []T!ShortOnlyIfTorn
  <1>1. T!Init => DelayInv
    BY DelayInit, TimersAssumption
  <1>2. DelayInv /\ [T!Next]_(T!vars) => DelayInv'
    BY DelayStep, TimersAssumption
  <1>3. DelayInv => T!ShortOnlyIfTorn
    BY DEF DelayInv
  <1> QED  BY <1>1, <1>2, <1>3, PTL DEF T!Spec

-----------------------------------------------------------------------------
(* The serial port, out.  The property is about the line alone; the        *)
(* invariant says where every byte is that is not on it yet: the cells the *)
(* driver holds have the numbers up to the last queued, the register sets  *)
(* name the first of them in order, across the end of the buffer, and what *)
(* was handed over is held until the interrupt.                            *)

Held == IF read <= write THEN write - read ELSE write - read + TxSize
At(k) == IF read + k < TxSize THEN read + k ELSE read + k - TxSize
Handed == rza1l_dmac_do_transfer(chcfg, next0, next1)

OutTypes ==
  /\ buffer \in [TxCell -> Nat] /\ read \in TxCell /\ write \in TxCell
  /\ driver \in {"quiet", "ready", "sending"}
  /\ chcfg \in [chained : BOOLEAN, DEM : BOOLEAN]
  /\ next0 \in Seq(Int) /\ next1 \in Seq(Int)
  /\ dmaint \in BOOLEAN /\ line \in Seq(Nat) /\ queued \in Nat

\* The cells held have the last numbers queued, in order.
Numbered == \A k \in 0 .. Held - 1 : buffer[At(k)] = queued - Held + k + 1

\* What is handed over is the first of what is held.
FirstHeld ==
  driver # "quiet" =>
    /\ Len(Handed) <= Held
    /\ \A i \in 1 .. Len(Handed) : Handed[i] = At(i - 1)

\* What is not held is on the line, and after the transfer what was handed.
SentOrHeld == Len(line) = queued - Held + IF driver = "sending" THEN Len(Handed) ELSE 0

OutInv == OutTypes /\ Numbered /\ FirstHeld /\ SentOrHeld /\ LineInOrder

LEMMA TxSizeOK == TxSize \in Nat \ {0} /\ TxSize >= 2
  BY MidiAssumption

LEMMA HeldRange ==
  ASSUME OutTypes
  PROVE  /\ Held \in 0 .. TxSize - 1
         /\ At(Held) = write
         /\ \A k \in 0 .. TxSize - 1 : At(k) \in TxCell
         /\ Held = 0 <=> read = write
  BY TxSizeOK DEF OutTypes, Held, At, TxCell

LEMMA HandedSeq ==
  ASSUME OutTypes
  PROVE  /\ Handed \in Seq(Int) /\ Len(Handed) \in Nat
         /\ Len(Handed) = Len(next0) + IF chcfg.chained THEN Len(next1) ELSE 0
  BY DEF OutTypes, Handed, rza1l_dmac_do_transfer

LEMMA SeqOf ==
  ASSUME NEW S, NEW n \in Nat, NEW f \in [1 .. n -> S]
  PROVE  f \in Seq(S) /\ Len(f) = n
  OBVIOUS

LEMMA LastOf ==
  ASSUME NEW S, NEW s \in Seq(S), s # <<>>
  PROVE  s[Len(s)] \in S
  OBVIOUS

LEMMA Joined ==
  ASSUME NEW S, NEW s \in Seq(S), NEW t \in Seq(S)
  PROVE  /\ s \o t \in Seq(S) /\ Len(s \o t) = Len(s) + Len(t)
         /\ \A i \in 1 .. Len(s) : (s \o t)[i] = s[i]
         /\ \A i \in 1 .. Len(t) : (s \o t)[Len(s) + i] = t[i]
  OBVIOUS

LEMMA CellsSeq ==
  ASSUME NEW a \in Nat, NEW b \in Nat, a <= b
  PROVE  /\ Cells(a, b) \in Seq(Int) /\ Len(Cells(a, b)) = b - a
         /\ \A i \in 1 .. b - a : Cells(a, b)[i] = a + i - 1
  <1> DEFINE n == b - a
  <1>1. n \in Nat /\ Cells(a, b) \in [1 .. n -> Int]
    BY DEF Cells
  <1>2. \A i \in 1 .. n : Cells(a, b)[i] = a + i - 1
    BY DEF Cells
  <1> HIDE DEF n
  <1>3. Cells(a, b) \in Seq(Int) /\ Len(Cells(a, b)) = n
    BY <1>1, SeqOf
  <1> QED  BY <1>2, <1>3 DEF n

\* Two runs of cells, the second from the start of the buffer, go round its end.
LEMMA RoundTheEnd ==
  ASSUME NEW n \in Nat, NEW r \in Nat, NEW w \in Nat, w < r, r < n
  PROVE  /\ Len(Cells(r, n) \o Cells(0, w)) = w - r + n
         /\ \A i \in 1 .. w - r + n :
              (Cells(r, n) \o Cells(0, w))[i]
                = IF r + (i - 1) < n THEN r + (i - 1) ELSE r + (i - 1) - n
  <1> DEFINE s == Cells(r, n)  t == Cells(0, w)  cells == s \o t
  <1>1. s \in Seq(Int) /\ Len(s) = n - r /\ \A i \in 1 .. n - r : s[i] = r + i - 1
    BY CellsSeq
  <1>2. t \in Seq(Int) /\ Len(t) = w /\ \A i \in 1 .. w : t[i] = i - 1
    <2>1. 0 \in Nat /\ 0 <= w /\ w - 0 = w
      OBVIOUS
    <2>2. \A i \in 1 .. w - 0 : t[i] = 0 + i - 1
      BY <2>1, CellsSeq
    <2>3. t \in Seq(Int) /\ Len(t) = w
      BY <2>1, CellsSeq
    <2> QED  BY <2>1, <2>2, <2>3
  <1> HIDE DEF s, t
  <1>3. /\ Len(cells) = Len(s) + Len(t)
        /\ \A i \in 1 .. Len(s) : cells[i] = s[i]
        /\ \A i \in 1 .. Len(t) : cells[Len(s) + i] = t[i]
    <2>1. s \in Seq(Int) /\ t \in Seq(Int)
      BY <1>1, <1>2
    <2> QED  BY <2>1, Joined
  <1> HIDE DEF cells
  <1>4. ASSUME NEW i \in 1 .. w - r + n
        PROVE  cells[i] = IF r + (i - 1) < n THEN r + (i - 1) ELSE r + (i - 1) - n
    <2>1. CASE i <= n - r
      BY <1>1, <1>3, <2>1
    <2>2. CASE i > n - r
      <3> DEFINE j == i - (n - r)
      <3>1. j \in 1 .. w /\ (n - r) + j = i
        BY <2>2
      <3>2. cells[(n - r) + j] = j - 1
        BY <1>1, <1>2, <1>3, <3>1
      <3> QED  BY <2>2, <3>1, <3>2
    <2> QED  BY <2>1, <2>2
  <1>5. Len(cells) = w - r + n
    BY <1>1, <1>2, <1>3
  <1> QED  BY <1>4, <1>5 DEF cells, s, t

\* The sets that Configure writes name all that is held, in order.
LEMMA Configured ==
  ASSUME OutTypes, read' \in TxCell, write' = write, Configure(read')
  PROVE  /\ chcfg' \in [chained : BOOLEAN, DEM : BOOLEAN]
         /\ next0' \in Seq(Int) /\ next1' \in Seq(Int)
         /\ Len(Handed') = Held'
         /\ \A i \in 1 .. Len(Handed') : Handed'[i] = At(i - 1)'
  <1> DEFINE r == read'
  <1>0. /\ r \in Nat /\ r < TxSize /\ write \in Nat /\ write < TxSize /\ TxSize \in Nat
        /\ TxSize' = TxSize
    BY TxSizeOK DEF OutTypes, TxCell
  <1>1. CASE write < r
    <2>1. /\ chcfg' = [chained |-> TRUE, DEM |-> TRUE]
          /\ next0' = Cells(r, TxSize) /\ next1' = Cells(0, write)
      BY <1>1, Zenon DEF Configure
    <2>2. next0' \in Seq(Int) /\ next1' \in Seq(Int)
      BY <1>0, <2>1, CellsSeq
    <2>3. Handed' = Cells(r, TxSize) \o Cells(0, write)
      BY <2>1 DEF Handed, rza1l_dmac_do_transfer
    <2>4. Held' = write - r + TxSize
      BY <1>0, <1>1 DEF Held
    <2>5. /\ Len(Handed') = write - r + TxSize
          /\ \A i \in 1 .. write - r + TxSize :
               Handed'[i] = IF r + (i - 1) < TxSize THEN r + (i - 1)
                            ELSE r + (i - 1) - TxSize
      <3> HIDE DEF r
      <3>1. /\ Len(Cells(r, TxSize) \o Cells(0, write)) = write - r + TxSize
            /\ \A i \in 1 .. write - r + TxSize :
                 (Cells(r, TxSize) \o Cells(0, write))[i]
                   = IF r + (i - 1) < TxSize THEN r + (i - 1) ELSE r + (i - 1) - TxSize
        BY <1>0, <1>1, RoundTheEnd
      <3> QED  BY <2>3, <3>1
    <2>6. \A i \in 1 .. Len(Handed') : Handed'[i] = At(i - 1)'
      BY <1>0, <2>5 DEF At
    <2> QED  BY <2>1, <2>2, <2>4, <2>5, <2>6
  <1>2. CASE ~(write < r)
    <2>1. /\ chcfg' = [chained |-> FALSE, DEM |-> FALSE]
          /\ next0' = Cells(r, write) /\ next1' = next1
      <3>1. (write < r) = FALSE
        BY <1>2
      <3> QED  BY <1>2, <3>1, Zenon DEF Configure
    <2>2. /\ next0' \in Seq(Int) /\ Len(next0') = write - r
          /\ \A i \in 1 .. write - r : next0'[i] = r + i - 1
      <3>1. r <= write
        BY <1>0, <1>2
      <3> HIDE DEF r
      <3> QED  BY <1>0, <3>1, <2>1, CellsSeq
    <2>3. Handed' = next0'
      BY <2>1 DEF Handed, rza1l_dmac_do_transfer
    <2>4. Held' = write - r
      BY <1>0, <1>2 DEF Held
    <2>5. \A i \in 1 .. Len(Handed') : Handed'[i] = At(i - 1)'
      <3>1. ASSUME NEW i \in 1 .. write - r
            PROVE  next0'[i] = At(i - 1)'
        <4>1. next0'[i] = r + i - 1
          BY <2>2
        <4>2. r + (i - 1) < TxSize
          <5> HIDE DEF r
          <5> QED  BY <1>0
        <4>3. At(i - 1)' = r + (i - 1)
          BY <4>2 DEF At
        <4> QED  BY <1>0, <4>1, <4>3
      <3> QED  BY <2>2, <2>3, <3>1
    <2> QED  BY <2>1, <2>2, <2>3, <2>4, <2>5 DEF OutTypes
  <1> QED  BY <1>1, <1>2

LEMMA OutInitially == OutInit => OutInv
  <1> SUFFICES ASSUME OutInit
               PROVE  OutInv
    OBVIOUS
  <1>1. OutTypes
    <2>1. buffer \in [TxCell -> Nat]
      BY DEF OutInit
    <2>2. read \in TxCell /\ write \in TxCell
      BY TxSizeOK DEF OutInit, TxCell
    <2>3. next0 \in Seq(Int) /\ next1 \in Seq(Int) /\ line \in Seq(Nat)
      BY DEF OutInit
    <2>4. driver \in {"quiet", "ready", "sending"} /\ dmaint \in BOOLEAN /\ queued \in Nat
          /\ chcfg \in [chained : BOOLEAN, DEM : BOOLEAN]
      BY DEF OutInit
    <2> QED  BY <2>1, <2>2, <2>3, <2>4 DEF OutTypes
  <1>2. Held = 0
    BY DEF OutInit, Held
  <1>3. Len(line) = 0 /\ queued = 0 /\ driver = "quiet"
    BY DEF OutInit
  <1> QED  BY <1>1, <1>2, <1>3 DEF OutInv, Numbered, FirstHeld, SentOrHeld, LineInOrder, OutInit

LEMMA OutPut ==
  ASSUME OutInv, Put
  PROVE  OutInv'
  <1>0. OutTypes /\ TxSize \in Nat \ {0} /\ TxSize' = TxSize
    BY TxSizeOK DEF OutInv
  <1>1. write \in 0 .. TxSize - 1 /\ read \in 0 .. TxSize - 1 /\ queued \in Nat
    BY <1>0 DEF OutTypes, TxCell
  <1>2. write' = IF write = TxSize - 1 THEN 0 ELSE write + 1
    BY <1>0, <1>1, CountStep DEF Put
  <1>3. write' # read
    BY DEF Put
  <1>4. queued' = queued + 1 /\ buffer' = [buffer EXCEPT ![write] = queued + 1]
    BY DEF Put
  <1>5. UNCHANGED <<read, driver, chcfg, next0, next1, dmaint, line>>
    BY DEF Put
  <1>6. OutTypes'
    BY <1>0, <1>1, <1>2, <1>4, <1>5 DEF OutTypes, TxCell
  <1>7. Held' = Held + 1 /\ Held \in Nat
    BY <1>0, <1>1, <1>2, <1>3, <1>5 DEF Held
  <1>8. \A k : At(k)' = At(k)
    BY <1>5 DEF At
  <1>9. Numbered'
    <2> SUFFICES ASSUME NEW k \in 0 .. Held' - 1
                 PROVE  buffer'[At(k)'] = queued' - Held' + k + 1
      BY DEF Numbered
    <2>1. CASE k = Held
      <3>1. At(k) = write
        BY <1>0, <2>1, HeldRange
      <3>2. buffer'[write] = queued + 1
        BY <1>0, <1>1, <1>4 DEF OutTypes, TxCell
      <3>3. queued' - Held' + k + 1 = queued + 1
        BY <1>1, <1>4, <1>7, <2>1
      <3> QED  BY <1>8, <3>1, <3>2, <3>3
    <2>2. CASE k # Held
      <3>1. k \in 0 .. Held - 1 /\ At(k) \in TxCell /\ At(k) # write
        BY <1>0, <1>1, <1>7, <2>2, HeldRange DEF At, Held, TxCell
      <3>2. buffer'[At(k)] = buffer[At(k)]
        BY <1>0, <1>4, <3>1 DEF OutTypes
      <3> QED  BY <1>1, <1>4, <1>7, <1>8, <3>1, <3>2 DEF OutInv, Numbered
    <2> QED  BY <2>1, <2>2
  <1>10. Handed' = Handed
    BY <1>5 DEF Handed
  <1>h. Len(Handed) \in Nat
    BY <1>0, HandedSeq
  <1>11. FirstHeld'
    BY <1>5, <1>7, <1>8, <1>10, <1>h DEF OutInv, FirstHeld
  <1>12. SentOrHeld'
    <2>1. queued' - Held' = queued - Held
      BY <1>1, <1>4, <1>7
    <2> QED  BY <1>5, <1>10, <2>1 DEF OutInv, SentOrHeld
  <1> QED  BY <1>5, <1>6, <1>9, <1>11, <1>12 DEF OutInv, LineInOrder

LEMMA OutFlush ==
  ASSUME OutInv, Flush
  PROVE  OutInv'
  <1>1. UNCHANGED <<buffer, read, write, dmaint, line, queued>> /\ driver = "quiet"
        /\ driver' = "ready" /\ Configure(read')
    BY DEF Flush
  <1>2. OutTypes /\ read' \in TxCell
    BY <1>1 DEF OutInv, OutTypes
  <1>3. /\ chcfg' \in [chained : BOOLEAN, DEM : BOOLEAN]
        /\ next0' \in Seq(Int) /\ next1' \in Seq(Int)
        /\ Len(Handed') = Held'
        /\ \A i \in 1 .. Len(Handed') : Handed'[i] = At(i - 1)'
    BY <1>1, <1>2, Configured
  <1>4. OutTypes' /\ Held' = Held /\ Held \in Nat /\ \A k : At(k)' = At(k)
    BY <1>1, <1>2, <1>3, HeldRange DEF OutTypes, Held, At
  <1>5. Numbered'
    BY <1>1, <1>4 DEF OutInv, Numbered
  <1>6. FirstHeld' /\ SentOrHeld'
    BY <1>1, <1>3, <1>4 DEF OutInv, FirstHeld, SentOrHeld
  <1>7. LineInOrder'
    BY <1>1 DEF OutInv, LineInOrder
  <1> QED  BY <1>4, <1>5, <1>6, <1>7 DEF OutInv

LEMMA OutStart ==
  ASSUME OutInv, Start
  PROVE  OutInv'
  <1>1. /\ driver = "ready" /\ driver' = "sending"
        /\ line' = line \o [i \in DOMAIN Handed |-> buffer[Handed[i]]]
        /\ dmaint' = (dmaint \/ Signals(chcfg))
        /\ UNCHANGED <<buffer, read, write, chcfg, next0, next1, queued>>
    BY DEF Start, Handed
  <1> DEFINE sent == [i \in DOMAIN Handed |-> buffer[Handed[i]]]
  <1>2. OutTypes /\ Held \in 0 .. TxSize - 1 /\ queued \in Nat /\ line \in Seq(Nat)
        /\ Handed \in Seq(Int) /\ Len(Handed) \in Nat /\ Len(Handed) <= Held
        /\ Len(line) = queued - Held
    BY <1>1, HeldRange, HandedSeq DEF OutInv, OutTypes, FirstHeld, SentOrHeld
  <1>3. ASSUME NEW i \in 1 .. Len(Handed)
        PROVE  buffer[Handed[i]] = queued - Held + i /\ buffer[Handed[i]] \in Nat
    <2>1. Handed[i] = At(i - 1) /\ i - 1 \in 0 .. Held - 1
      BY <1>1, <1>2 DEF OutInv, FirstHeld
    <2>2. buffer[At(i - 1)] = queued - Held + (i - 1) + 1
      BY <2>1 DEF OutInv, Numbered
    <2>3. queued - Held \in Nat /\ queued \in Int /\ Held \in Int
      BY <1>2
    <2>4. queued - Held + (i - 1) + 1 = queued - Held + i /\ queued - Held + i \in Nat
      BY <2>3
    <2> QED  BY <2>1, <2>2, <2>4
  <1>4. sent \in Seq(Nat) /\ Len(sent) = Len(Handed)
        /\ \A i \in 1 .. Len(Handed) : sent[i] = queued - Held + i
    <2> DEFINE n == Len(Handed)
    <2>1. DOMAIN Handed = 1 .. n /\ n \in Nat
      BY <1>2
    <2> HIDE DEF n
    <2>2. sent \in [1 .. n -> Nat] /\ \A i \in 1 .. n : sent[i] = queued - Held + i
      BY <1>3, <2>1 DEF n
    <2> HIDE DEF sent
    <2>3. sent \in Seq(Nat) /\ Len(sent) = n
      BY <2>1, <2>2, SeqOf
    <2> QED  BY <2>2, <2>3 DEF n
  <1> HIDE DEF sent
  <1>5. /\ line' \in Seq(Nat) /\ Len(line') = queued - Held + Len(Handed)
        /\ \A i \in 1 .. Len(line) : line'[i] = line[i]
        /\ \A i \in 1 .. Len(sent) : line'[Len(line) + i] = sent[i]
    <2>1. line' = line \o sent
      BY <1>1 DEF sent
    <2>2. sent \in Seq(Nat) /\ line \in Seq(Nat)
      BY <1>2, <1>4
    <2>3. /\ line \o sent \in Seq(Nat) /\ Len(line \o sent) = Len(line) + Len(sent)
          /\ \A i \in 1 .. Len(line) : (line \o sent)[i] = line[i]
          /\ \A i \in 1 .. Len(sent) : (line \o sent)[Len(line) + i] = sent[i]
      BY <2>2, Joined
    <2> QED  BY <1>2, <1>4, <2>1, <2>3
  <1>6. LineInOrder'
    <2>1. ASSUME NEW i \in 1 .. Len(line')
          PROVE  line'[i] = i
      <3>1. CASE i <= Len(line)
        <4>1. i \in 1 .. Len(line) /\ line[i] = i
          BY <1>2, <3>1 DEF OutInv, LineInOrder
        <4> QED  BY <1>5, <4>1
      <3>2. CASE i > Len(line)
        <4> DEFINE j == i - Len(line)
        <4>1. j \in 1 .. Len(Handed) /\ Len(line) + j = i
          BY <1>2, <1>5, <3>2
        <4>2. line'[Len(line) + j] = queued - Held + j
          <5> HIDE DEF j
          <5> QED  BY <1>4, <1>5, <4>1
        <4> QED  BY <1>2, <4>1, <4>2
      <3> QED  BY <1>2, <3>1, <3>2
    <2>2. line' = [i \in 1 .. Len(line') |-> line'[i]]
      BY <1>5
    <2> QED  BY <2>1, <2>2 DEF LineInOrder
  <1>7. Held' = Held /\ Handed' = Handed /\ \A k : At(k)' = At(k)
    BY <1>1 DEF Held, Handed, At
  <1>8. OutTypes'
    BY <1>1, <1>2, <1>5 DEF OutTypes, Signals
  <1> QED  BY <1>1, <1>2, <1>5, <1>6, <1>7, <1>8 DEF OutInv, Numbered, FirstHeld, SentOrHeld

LEMMA OutInterrupt ==
  ASSUME OutInv, Interrupt
  PROVE  OutInv'
  <1> DEFINE h == Len(Handed)
  <1>1. OutTypes /\ Held \in 0 .. TxSize - 1 /\ TxSize \in Nat \ {0} /\ queued \in Nat
        /\ h \in Nat /\ h <= Held /\ Len(line) = queued - Held + h
        /\ read \in 0 .. TxSize - 1 /\ write \in 0 .. TxSize - 1
    BY TxSizeOK, HeldRange, HandedSeq
       DEF Interrupt, OutInv, OutTypes, FirstHeld, SentOrHeld, TxCell
  <1>2. /\ read' = (read + h) % TxSize /\ dmaint' = FALSE
        /\ UNCHANGED <<buffer, write, line, queued>>
        /\ \/ read' = write /\ driver' = "quiet" /\ UNCHANGED <<chcfg, next0, next1>>
           \/ read' # write /\ driver' = "ready" /\ Configure(read')
    BY <1>1, HandedSeq DEF Interrupt
  <1> HIDE DEF h
  <1>3. read' = IF read + h < TxSize THEN read + h ELSE read + h - TxSize
    <2>1. h \in 0 .. TxSize - 1
      BY <1>1
    <2>2. (read + h) % TxSize = IF read + h < TxSize THEN read + h ELSE read + h - TxSize
      BY <1>1, <2>1, RoundOnce
    <2> QED  BY <1>2, <2>2
  <1>4. read' \in TxCell
    BY <1>1, <1>3 DEF TxCell
  <1>5. Held' = Held - h
    BY <1>1, <1>2, <1>3 DEF Held
  <1>6. \A k \in 0 .. Held - h - 1 : At(k)' = At(h + k)
    BY <1>1, <1>3 DEF At
  <1>7. Numbered'
    <2> SUFFICES ASSUME NEW k \in 0 .. Held' - 1
                 PROVE  buffer'[At(k)'] = queued' - Held' + k + 1
      BY DEF Numbered
    <2>1. h + k \in 0 .. Held - 1 /\ At(k)' = At(h + k)
      BY <1>1, <1>5, <1>6
    <2>2. buffer[At(h + k)] = queued - Held + (h + k) + 1
      BY <2>1 DEF OutInv, Numbered
    <2> QED  BY <1>1, <1>2, <1>5, <2>1, <2>2
  <1>8. OutTypes' /\ FirstHeld'
    <2>1. CASE read' = write
      BY <1>1, <1>2, <1>4, <2>1 DEF OutTypes, FirstHeld
    <2>2. CASE read' # write
      <3>1. /\ chcfg' \in [chained : BOOLEAN, DEM : BOOLEAN]
            /\ next0' \in Seq(Int) /\ next1' \in Seq(Int)
            /\ Len(Handed') = Held'
            /\ \A i \in 1 .. Len(Handed') : Handed'[i] = At(i - 1)'
        BY <1>1, <1>2, <1>4, <2>2, Configured
      <3>2. Len(Handed') <= Held'
        BY <1>1, <1>5, <3>1
      <3> QED  BY <1>1, <1>2, <1>4, <2>2, <3>1, <3>2 DEF OutTypes, FirstHeld
    <2> QED  BY <2>1, <2>2
  <1>9. SentOrHeld'
    <2>1. driver' # "sending" /\ line' = line /\ queued' = queued
      BY <1>2
    <2> QED  BY <1>1, <1>5, <2>1 DEF SentOrHeld
  <1> QED  BY <1>2, <1>7, <1>8, <1>9 DEF OutInv, LineInOrder

LEMMA OutKept ==
  ASSUME OutInv, UNCHANGED out
  PROVE  OutInv'
  <1>1. UNCHANGED <<buffer, read, write, driver, chcfg, next0, next1, dmaint, line, queued>>
    BY DEF out
  <1>2. Held' = Held /\ Handed' = Handed /\ \A k : At(k)' = At(k)
    BY <1>1 DEF Held, Handed, At
  <1> QED  BY <1>1, <1>2 DEF OutInv, OutTypes, Numbered, FirstHeld, SentOrHeld, LineInOrder

LEMMA OutReset_ ==
  ASSUME OutInv, OutReset
  PROVE  OutInv'
  <1>1. OutTypes'
    <2>1. buffer' \in [TxCell -> Nat]
      BY DEF OutInv, OutTypes, OutReset, TxCell
    <2>2. read' \in TxCell /\ write' \in TxCell
      BY TxSizeOK DEF OutReset, TxCell
    <2>3. next0' \in Seq(Int) /\ next1' \in Seq(Int) /\ line' \in Seq(Nat)
      BY DEF OutReset
    <2>4. driver' \in {"quiet", "ready", "sending"} /\ dmaint' \in BOOLEAN /\ queued' \in Nat
          /\ chcfg' \in [chained : BOOLEAN, DEM : BOOLEAN]
      BY DEF OutReset
    <2> QED  BY <2>1, <2>2, <2>3, <2>4 DEF OutTypes
  <1>2. Held' = 0 /\ Len(line') = 0 /\ queued' = 0 /\ driver' = "quiet"
    BY DEF OutReset, Held
  <1> QED  BY <1>1, <1>2 DEF OutInv, Numbered, FirstHeld, SentOrHeld, LineInOrder, OutReset

LEMMA OutStep ==
  ASSUME OutInv, [Next]_vars
  PROVE  OutInv'
  <1>1. CASE OutNext
    BY <1>1, OutPut, OutFlush, OutStart, OutInterrupt DEF OutNext
  <1>2. CASE UNCHANGED out
    BY <1>2, OutKept
  <1>3. CASE OutReset
    BY <1>3, OutReset_
  <1> QED  BY <1>1, <1>2, <1>3 DEF Next, vars

(* The bytes leave the serial port in the order they were queued, none     *)
(* missing and none twice, for a transmit buffer of any size, wherever it  *)
(* wraps and whenever the driver queues more                               *)
(* (rza1l_dmac_do_transfer, rza1l_scif_write).                             *)
THEOREM LineOrder == Spec => []LineInOrder
  <1>1. Init => OutInv
    BY OutInitially DEF Init
  <1>2. OutInv /\ [Next]_vars => OutInv'
    BY OutStep
  <1>3. OutInv => LineInOrder
    BY DEF OutInv
  <1> QED  BY <1>1, <1>2, <1>3, PTL DEF Spec

\* The safety that AllSent rests on: the interrupt of the transmit channel is
\* pending exactly while the driver waits for it, whether or not the transfer is
\* chained (Signals); a byte not on the line yet leaves the driver something to
\* do; and every transfer handed over sends at least one.
NothingStranded ==
  /\ dmaint <=> driver = "sending"
  /\ Len(line) < queued => driver # "quiet" \/ read # write
  /\ driver # "quiet" => Len(Handed) > 0

\* A transfer whose end is masked is chained.
Unmasked == chcfg.DEM => chcfg.chained

WaitInv ==
  /\ Unmasked
  /\ dmaint <=> driver = "sending"
  /\ driver # "quiet" => Len(Handed) > 0

LEMMA WaitStep ==
  ASSUME OutInv, WaitInv, [Next]_vars
  PROVE  WaitInv'
  <1>t. OutTypes
    BY DEF OutInv
  <1>1. CASE Put
    <2>1. UNCHANGED <<driver, chcfg, next0, next1, dmaint>>
      BY <1>1 DEF Put
    <2> QED  BY <2>1 DEF WaitInv, Unmasked, Handed
  <1>2. CASE Flush
    <2>1. /\ driver = "quiet" /\ driver' = "ready" /\ read # write /\ dmaint' = dmaint
          /\ UNCHANGED <<buffer, read, write>> /\ Configure(read')
      BY <1>2 DEF Flush
    <2>2. read' \in TxCell /\ Held' = Held /\ Held > 0
      BY <1>t, <2>1, HeldRange, TxSizeOK DEF OutTypes, Held
    <2>3. Len(Handed') = Held'
      BY <1>t, <2>1, <2>2, Configured DEF OutTypes
    <2>4. Unmasked'
      BY <2>1 DEF Configure, Unmasked
    <2> QED  BY <2>1, <2>2, <2>3, <2>4 DEF WaitInv
  <1>3. CASE Start
    <2>1. /\ driver = "ready" /\ driver' = "sending" /\ dmaint' = (dmaint \/ Signals(chcfg))
          /\ UNCHANGED <<chcfg, next0, next1>>
      BY <1>3 DEF Start
    <2>2. Handed' = Handed /\ Signals(chcfg)
      BY <2>1 DEF Handed, Signals, WaitInv, Unmasked
    <2> QED  BY <2>1, <2>2 DEF WaitInv, Unmasked
  <1>4. CASE Interrupt
    <2>1. /\ dmaint' = FALSE /\ UNCHANGED <<buffer, write>>
          /\ \/ read' = write /\ driver' = "quiet" /\ UNCHANGED <<chcfg, next0, next1>>
             \/ read' # write /\ driver' = "ready" /\ Configure(read')
      BY <1>4 DEF Interrupt
    <2>2. OutTypes'
      BY <1>4, OutInterrupt DEF OutInv
    <2>3. CASE driver' = "quiet"
      BY <2>1, <2>3 DEF WaitInv, Unmasked
    <2>4. CASE driver' # "quiet"
      <3>1. read' # write' /\ driver' = "ready" /\ Configure(read')
        BY <2>1, <2>4
      <3>2. Held' \in 0 .. TxSize - 1 /\ Held' # 0
        <4>1. read' \in 0 .. TxSize - 1 /\ write' \in 0 .. TxSize - 1
          BY <2>2 DEF OutTypes, TxCell
        <4>2. Held' = IF read' <= write' THEN write' - read' ELSE write' - read' + TxSize
          BY DEF Held
        <4>3. ASSUME NEW r \in 0 .. TxSize - 1, NEW w \in 0 .. TxSize - 1, r # w
              PROVE  (IF r <= w THEN w - r ELSE w - r + TxSize) \in 1 .. TxSize - 1
          BY <4>3, TxSizeOK
        <4>4. Held' \in 1 .. TxSize - 1
          BY <3>1, <4>1, <4>2, <4>3
        <4> QED  BY <4>4
      <3>3. Len(Handed') = Held'
        BY <1>t, <2>1, <2>2, <3>1, Configured DEF OutTypes
      <3>4. Unmasked'
        BY <3>1 DEF Configure, Unmasked
      <3>5. Len(Handed') > 0
        BY <3>2, <3>3, TxSizeOK
      <3> QED  BY <2>1, <3>1, <3>4, <3>5 DEF WaitInv
    <2> QED  BY <2>3, <2>4
  <1>5. CASE OutReset
    BY <1>5 DEF OutReset, WaitInv, Unmasked
  <1>6. CASE UNCHANGED out
    <2>1. UNCHANGED <<driver, chcfg, next0, next1, dmaint>>
      BY <1>6 DEF out
    <2> QED  BY <2>1 DEF WaitInv, Unmasked, Handed
  <1> QED  BY <1>1, <1>2, <1>3, <1>4, <1>5, <1>6 DEF Next, OutNext, vars

THEOREM BufferServed == Spec => []NothingStranded
  <1>1. Init => OutInv /\ WaitInv
    <2>1. OutInit => WaitInv
      BY DEF OutInit, WaitInv, Unmasked
    <2> QED  BY <2>1, OutInitially DEF Init
  <1>2. OutInv /\ WaitInv /\ [Next]_vars => WaitInv'
    BY WaitStep
  <1>3. OutInv /\ WaitInv => NothingStranded
    <2> SUFFICES ASSUME OutInv, WaitInv PROVE NothingStranded
      OBVIOUS
    <2>1. ASSUME Len(line) < queued, driver = "quiet"
          PROVE  read # write
      <3>1. OutTypes /\ Len(line) = queued - Held + 0
        BY <2>1 DEF OutInv, SentOrHeld
      <3>2. /\ Held \in 0 .. TxSize - 1 /\ queued \in Nat
            /\ Held = 0 <=> read = write
        BY <3>1, HeldRange DEF OutTypes
      <3> QED  BY <2>1, <3>1, <3>2
    <2> QED  BY <2>1 DEF NothingStranded, WaitInv
  <1>4. OutInv /\ [Next]_vars => OutInv'
    BY OutStep
  <1> QED  BY <1>1, <1>2, <1>3, <1>4, PTL DEF Spec

-----------------------------------------------------------------------------
(* The serial port, in.  The receive ring and the timing ring are of two   *)
(* sizes and advance apart from each other; the invariant ties them: the   *)
(* position in the one is that in the other modulo its size, and what is   *)
(* unread is just what lies between the driver and the channel.            *)

RingOf(n) == [active : BOOLEAN, cell : [0 .. n - 1 -> Nat], at : 0 .. n - 1]

InTypes ==
  /\ ring \in RingOf(RxSize) /\ timing \in RingOf(TimeSize)
  /\ RE \in BOOLEAN /\ playing \in BOOLEAN /\ position \in Nat
  /\ taken \in 0 .. RxSize - 1 /\ unread \in Seq([byte : Nat, at : Nat])

\* Bytes between the driver and the channel; the cell of the k-th after taken.
Fill == IF taken <= ring.at THEN ring.at - taken ELSE ring.at - taken + RxSize
Place(k) == IF taken + k < RxSize THEN taken + k ELSE taken + k - RxSize

InStep ==
  /\ timing.at = ring.at % TimeSize
  /\ ring.active => timing.active
  /\ ~ring.active => ring.at = 0 /\ taken = 0
  /\ Len(unread) = Fill

\* StampsMatch, without the remainder by the size of the receive ring.
Stamped ==
  \A i \in 1 .. Len(unread) :
    /\ ring.cell[Place(i - 1)] = unread[i].byte
    /\ Len(unread) - i < TimeSize => timing.cell[Place(i - 1) % TimeSize] = unread[i].at

InInv == InTypes /\ InStep /\ Stamped

LEMMA SizesOK ==
  /\ RxSize \in Nat \ {0} /\ TimeSize \in Nat \ {0} /\ Positions \in Nat
  /\ \E k \in Int : RxSize = TimeSize * k
  <1>1. RxSize \in Nat \ {0} /\ TimeSize \in Nat \ {0} /\ Positions \in Nat
        /\ RxSize % TimeSize = 0
    BY MidiAssumption
  <1>2. PICK q \in Int, r \in 0 .. TimeSize - 1 : RxSize = TimeSize * q + r /\ RxSize % TimeSize = r
    BY <1>1, Divides
  <1>3. RxSize = TimeSize * q
    BY <1>1, <1>2
  <1> QED  BY <1>1, <1>3

\* Less than a period apart, also across whole periods, is not the same.
LEMMA Apart ==
  ASSUME NEW m \in Nat \ {0}, NEW k \in Int, NEW a \in Int, NEW b \in Int,
         NEW d \in 1 .. m - 1, b = a + d \/ b = a + d - m * k
  PROVE  b % m # a % m
  <1> SUFFICES ASSUME b % m = a % m
               PROVE  FALSE
    OBVIOUS
  <1>1. PICK p \in Int, r \in 0 .. m - 1 : a = m * p + r /\ a % m = r
    BY Divides
  <1>2. PICK q \in Int, s \in 0 .. m - 1 : b = m * q + s /\ b % m = s
    BY Divides
  <1>3. d = m * (q - p) \/ d = m * (q - p) + m * k
    BY <1>1, <1>2
  <1>4. d = m * (q - p) \/ d = m * (q - p + k)
    <2>1. m * (q - p) + m * k = m * (q - p + k)
      OBVIOUS
    <2> QED  BY <1>3, <2>1
  <1>5. PICK x \in Int : d = m * x
    <2>1. q - p \in Int /\ q - p + k \in Int
      OBVIOUS
    <2> QED  BY <1>4, <2>1
  <1>6. (m * x + 0) % m = 0 /\ (m * 0 + d) % m = d
    BY Unique
  <1> QED  BY <1>5, <1>6

\* The two rings go round together.
LEMMA Together ==
  ASSUME NEW m \in Nat \ {0}, NEW n \in Nat \ {0}, n % m = 0, NEW a \in 0 .. n - 1
  PROVE  ((a + 1) % n) % m = ((a % m) + 1) % m
  <1>1. (a + 1) % m = IF a % m = m - 1 THEN 0 ELSE (a % m) + 1
    <2>1. a \in Int
      OBVIOUS
    <2> QED  BY <2>1, ModStep
  <1>2. a % m \in 0 .. m - 1
    BY ModRange
  <1>3. ((a % m) + 1) % m = IF a % m = m - 1 THEN 0 ELSE (a % m) + 1
    BY <1>2, CountStep
  <1>4. ((a % m) + 1) % m = (a + 1) % m
    BY <1>1, <1>3
  <1>5. (a + 1) % n = IF a = n - 1 THEN 0 ELSE a + 1
    BY CountStep
  <1>6. CASE a = n - 1
    <2>1. (m * 0 + 0) % m = 0
      BY Unique
    <2> QED  BY <1>4, <1>5, <1>6, <2>1
  <1>7. CASE a # n - 1
    BY <1>4, <1>5, <1>7
  <1> QED  BY <1>6, <1>7

LEMMA FillRange ==
  ASSUME InTypes
  PROVE  /\ ring.at \in 0 .. RxSize - 1 /\ taken \in 0 .. RxSize - 1
         /\ Fill \in 0 .. RxSize - 1 /\ Place(Fill) = ring.at
         /\ \A k \in 0 .. RxSize - 1 : Place(k) \in 0 .. RxSize - 1
  <1>1. ring.at \in 0 .. RxSize - 1 /\ taken \in 0 .. RxSize - 1
    BY DEF InTypes, RingOf
  <1>2. Fill \in 0 .. RxSize - 1 /\ Place(Fill) = ring.at
    BY <1>1, SizesOK DEF Fill, Place
  <1>3. ASSUME NEW k \in 0 .. RxSize - 1
        PROVE  Place(k) \in 0 .. RxSize - 1
    BY <1>1, SizesOK DEF Place
  <1> QED  BY <1>1, <1>2, <1>3

LEMMA InMatches == InInv => StampsMatch
  <1> SUFFICES ASSUME InInv, NEW i \in 1 .. Len(unread)
               PROVE  (taken + i - 1) % RxSize = Place(i - 1)
    BY DEF InInv, Stamped, StampsMatch
  <1>1. RxSize \in Nat \ {0} /\ taken \in 0 .. RxSize - 1 /\ Len(unread) \in 0 .. RxSize - 1
    BY SizesOK, FillRange DEF InInv, InStep
  <1>2. i - 1 \in 0 .. RxSize - 1 /\ taken + i - 1 = taken + (i - 1)
    BY <1>1
  <1>3. (taken + (i - 1)) % RxSize = Place(i - 1)
    BY <1>1, <1>2, RoundOnce DEF Place
  <1> QED  BY <1>2, <1>3

LEMMA InInitially == InInit => InInv
  <1> SUFFICES ASSUME InInit
               PROVE  InInv
    OBVIOUS
  <1>1. ring.at = 0 /\ timing.at = 0 /\ taken = 0 /\ unread = <<>> /\ ~ring.active
    BY DEF InInit
  <1>2. 0 \in 0 .. RxSize - 1 /\ 0 \in 0 .. TimeSize - 1
    BY SizesOK
  <1>3. ring \in RingOf(RxSize) /\ timing \in RingOf(TimeSize)
    BY <1>2 DEF InInit, RingOf
  <1>4. InTypes
    <2>1. unread \in Seq([byte : Nat, at : Nat])
      BY <1>1
    <2>2. RE \in BOOLEAN /\ playing \in BOOLEAN /\ position \in Nat
      BY DEF InInit
    <2> QED  BY <1>1, <1>2, <1>3, <2>1, <2>2 DEF InTypes
  <1>5. 0 % TimeSize = 0
    BY SizesOK, Wrapped
  <1>6. InStep
    BY <1>1, <1>5 DEF InStep, Fill
  <1>7. Stamped
    BY <1>1 DEF Stamped
  <1> QED  BY <1>4, <1>6, <1>7 DEF InInv

LEMMA InReceive ==
  ASSUME InInv, NEW byte \in Nat, rza1l_scif_receive(byte)
  PROVE  InInv'
  <1> DEFINE stamp == IF playing THEN position ELSE NoTime
             seen == Append(unread, [byte |-> byte, at |-> stamp])
             n == Len(unread)
  <1>0. InTypes /\ InStep /\ Stamped /\ UNCHANGED <<RE, playing, position, taken>>
    BY DEF InInv, rza1l_scif_receive
  <1>1. CASE ~ring.active
    <2>1. UNCHANGED <<ring, timing, unread>>
      BY <1>1 DEF rza1l_scif_receive, Pushed
    <2>2. Fill' = Fill /\ \A k : Place(k)' = Place(k)
      BY <1>0, <2>1 DEF Fill, Place
    <2> QED  BY <1>0, <2>1, <2>2 DEF InInv, InTypes, InStep, Stamped
  <1>2. CASE ring.active
    <2>1. /\ RxSize \in Nat \ {0} /\ TimeSize \in Nat \ {0}
          /\ ring.at \in 0 .. RxSize - 1 /\ taken \in 0 .. RxSize - 1
          /\ timing.at \in 0 .. TimeSize - 1
          /\ n = Fill /\ Fill \in 0 .. RxSize - 1 /\ Place(Fill) = ring.at
      BY <1>0, MidiAssumption, FillRange DEF InTypes, InStep, RingOf
    <2>m. RxSize % TimeSize = 0 /\ timing.at = ring.at % TimeSize
      BY <1>0, MidiAssumption DEF InStep
    <2>2. stamp \in Nat
      BY <1>0, SizesOK DEF InTypes, NoTime
    <2> HIDE DEF stamp, n
    <2>3. /\ seen \in Seq([byte : Nat, at : Nat]) /\ Len(seen) = n + 1
          /\ \A i \in 1 .. n : seen[i] = unread[i]
          /\ seen[n + 1] = [byte |-> byte, at |-> stamp]
      <3>1. [byte |-> byte, at |-> stamp] \in [byte : Nat, at : Nat]
        BY <2>2
      <3>2. unread \in Seq([byte : Nat, at : Nat])
        BY <1>0 DEF InTypes
      <3> QED  BY <3>1, <3>2 DEF n
    <2>4. /\ ring' = [ring EXCEPT !.cell[ring.at] = byte, !.at = (ring.at + 1) % RxSize]
          /\ timing' = [timing EXCEPT !.cell[timing.at] = stamp,
                                      !.at = (timing.at + 1) % TimeSize]
          /\ unread' = IF Len(seen) = RxSize THEN <<>> ELSE seen
      BY <1>0, <1>2 DEF rza1l_scif_receive, rza1l_dmac_timing_capture, Pushed, InStep, stamp
    <2> HIDE DEF seen
    <2>5. /\ ring'.active = ring.active /\ timing'.active = timing.active
          /\ ring'.at = (ring.at + 1) % RxSize /\ timing'.at = (timing.at + 1) % TimeSize
          /\ ring'.cell = [ring.cell EXCEPT ![ring.at] = byte]
          /\ timing'.cell = [timing.cell EXCEPT ![timing.at] = stamp]
      BY <1>0, <2>4 DEF InTypes, RingOf
    <2>6. /\ ring'.at = IF ring.at = RxSize - 1 THEN 0 ELSE ring.at + 1
          /\ timing'.at = IF timing.at = TimeSize - 1 THEN 0 ELSE timing.at + 1
      <3>1. (ring.at + 1) % RxSize = IF ring.at = RxSize - 1 THEN 0 ELSE ring.at + 1
        BY <2>1, CountStep
      <3>2. (timing.at + 1) % TimeSize = IF timing.at = TimeSize - 1 THEN 0 ELSE timing.at + 1
        BY <2>1, CountStep
      <3> QED  BY <2>5, <3>1, <3>2
    <2>7. InTypes'
      <3>a. ring'.at \in 0 .. RxSize - 1 /\ timing'.at \in 0 .. TimeSize - 1
        BY <2>1, <2>6
      <3>1. ring' \in RingOf(RxSize)
        <4>1. ring' = [ring EXCEPT !.cell = ring'.cell, !.at = ring'.at]
          BY <1>0, <2>4, <2>5 DEF InTypes, RingOf
        <4>2. ring'.cell \in [0 .. RxSize - 1 -> Nat]
          BY <1>0, <2>1, <2>5 DEF InTypes, RingOf
        <4> QED  BY <1>0, <3>a, <4>1, <4>2 DEF InTypes, RingOf
      <3>2. timing' \in RingOf(TimeSize)
        <4>1. timing' = [timing EXCEPT !.cell = timing'.cell, !.at = timing'.at]
          BY <1>0, <2>4, <2>5 DEF InTypes, RingOf
        <4>2. timing'.cell \in [0 .. TimeSize - 1 -> Nat]
          BY <1>0, <2>1, <2>2, <2>5 DEF InTypes, RingOf
        <4> QED  BY <1>0, <3>a, <4>1, <4>2 DEF InTypes, RingOf
      <3>3. unread' \in Seq([byte : Nat, at : Nat])
        BY <2>3, <2>4
      <3> QED  BY <1>0, <3>1, <3>2, <3>3 DEF InTypes
    <2>8. Len(unread') = Fill'
      <3>1. Fill' = IF n + 1 = RxSize THEN 0 ELSE n + 1
        BY <1>0, <2>1, <2>6 DEF Fill
      <3> QED  BY <2>1, <2>3, <2>4, <3>1
    <2>9. timing'.at = ring'.at % TimeSize
      <3>1. ((ring.at + 1) % RxSize) % TimeSize = ((ring.at % TimeSize) + 1) % TimeSize
        BY <2>1, <2>m, Together
      <3> QED  BY <2>5, <2>m, <3>1
    <2>10. InStep'
      BY <1>0, <1>2, <2>5, <2>8, <2>9 DEF InStep
    <2>11. Stamped'
      <3> SUFFICES ASSUME NEW i \in 1 .. Len(unread')
                   PROVE  /\ ring'.cell[Place(i - 1)'] = unread'[i].byte
                          /\ Len(unread') - i < TimeSize =>
                               timing'.cell[Place(i - 1)' % TimeSize] = unread'[i].at
        BY DEF Stamped
      <3>1. unread' = seen /\ Len(unread') = n + 1 /\ n \in Nat /\ n + 1 < RxSize
        <4>1. n \in Nat /\ n + 1 <= RxSize
          BY <2>1
        <4>2. Len(seen) # RxSize
          <5> SUFFICES ASSUME Len(seen) = RxSize
                       PROVE  FALSE
            OBVIOUS
          <5>1. unread' = <<>>
            BY <2>4
          <5> QED  BY <5>1
        <4> QED  BY <2>1, <2>3, <2>4, <4>1, <4>2
      <3>2. \A k : Place(k)' = Place(k)
        BY <1>0 DEF Place
      <3>3. CASE i = n + 1
        <4>1. Place(i - 1) = ring.at /\ unread'[i] = [byte |-> byte, at |-> stamp]
          BY <2>1, <2>3, <3>1, <3>3
        <4>2. ring'.cell[ring.at] = byte /\ timing'.cell[ring.at % TimeSize] = stamp
          <5>1. ring.cell \in [0 .. RxSize - 1 -> Nat] /\ timing.cell \in [0 .. TimeSize - 1 -> Nat]
            BY <1>0 DEF InTypes, RingOf
          <5>2. ring'.cell[ring.at] = byte /\ timing'.cell[timing.at] = stamp
            BY <2>1, <2>5, <5>1
          <5> QED  BY <2>m, <5>2
        <4> QED  BY <3>2, <4>1, <4>2
      <3>4. CASE i # n + 1
        <4>1. i \in 1 .. n /\ unread'[i] = unread[i]
          BY <2>3, <3>1, <3>4
        <4>2. /\ Place(i - 1) \in 0 .. RxSize - 1 /\ Place(i - 1) # ring.at
              /\ \/ ring.at = Place(i - 1) + (n + 1 - i)
                 \/ ring.at = Place(i - 1) + (n + 1 - i) - RxSize
          <5>1. /\ i \in Int /\ i >= 1 /\ i <= n /\ n \in Nat /\ n < RxSize
                /\ RxSize \in Nat /\ taken \in Nat /\ taken < RxSize
                /\ ring.at = IF taken + n < RxSize THEN taken + n ELSE taken + n - RxSize
            BY <2>1, <3>1, <4>1 DEF Place
          <5>2. Place(i - 1) = IF taken + (i - 1) < RxSize THEN taken + (i - 1)
                               ELSE taken + (i - 1) - RxSize
            BY DEF Place
          <5> QED  BY <5>1, <5>2
        <4>3. ring'.cell[Place(i - 1)] = unread[i].byte
          <5>1. ring.cell[Place(i - 1)] = unread[i].byte
            BY <1>0, <4>1 DEF Stamped, n
          <5>2. ring.cell \in [0 .. RxSize - 1 -> Nat]
            BY <1>0 DEF InTypes, RingOf
          <5> QED  BY <2>5, <4>2, <5>1, <5>2
        <4>4. ASSUME Len(unread') - i < TimeSize
              PROVE  timing'.cell[Place(i - 1) % TimeSize] = unread[i].at
          <5>1. n + 1 - i \in 1 .. TimeSize - 1 /\ n - i < TimeSize
            BY <2>1, <3>1, <4>1, <4>4
          <5>2. ring.at % TimeSize # Place(i - 1) % TimeSize
            <6> DEFINE d == n + 1 - i  c == Place(i - 1)
            <6>1. PICK k \in Int : RxSize = TimeSize * k
              BY SizesOK
            <6>2. c \in Int /\ ring.at \in Int /\ d \in 1 .. TimeSize - 1
                  /\ (ring.at = c + d \/ ring.at = c + d - TimeSize * k)
              BY <2>1, <4>2, <5>1, <6>1
            <6> HIDE DEF d, c
            <6>3. ring.at % TimeSize # c % TimeSize
              BY <2>1, <6>1, <6>2, Apart
            <6> QED  BY <6>3 DEF c
          <5>3. timing.cell[Place(i - 1) % TimeSize] = unread[i].at
            BY <1>0, <4>1, <5>1 DEF Stamped, n
          <5>4. Place(i - 1) % TimeSize \in 0 .. TimeSize - 1
            <6>1. Place(i - 1) \in Int
              BY <2>1, <4>2
            <6> QED  BY <2>1, <6>1, ModRange
          <5>5. timing.cell \in [0 .. TimeSize - 1 -> Nat]
            BY <1>0 DEF InTypes, RingOf
          <5>6. timing.at # Place(i - 1) % TimeSize
            BY <2>m, <5>2
          <5> HIDE DEF stamp
          <5> QED  BY <2>5, <5>3, <5>4, <5>5, <5>6
        <4> QED  BY <3>2, <4>1, <4>3, <4>4
      <3> QED  BY <3>3, <3>4
    <2> QED  BY <2>7, <2>10, <2>11 DEF InInv
  <1> QED  BY <1>1, <1>2

LEMMA InTake ==
  ASSUME InInv, Take
  PROVE  InInv'
  <1>0. /\ InTypes /\ InStep /\ Stamped
        /\ UNCHANGED <<RE, ring, timing, playing, position>>
        /\ taken # ring.at /\ taken' = (taken + 1) % RxSize /\ unread' = Tail(unread)
    BY DEF InInv, Take
  <1>1. /\ RxSize \in Nat \ {0} /\ ring.at \in 0 .. RxSize - 1 /\ taken \in 0 .. RxSize - 1
        /\ Len(unread) = Fill /\ Fill \in 1 .. RxSize - 1
        /\ unread \in Seq([byte : Nat, at : Nat])
    <2>1. /\ RxSize \in Nat \ {0} /\ ring.at \in 0 .. RxSize - 1 /\ taken \in 0 .. RxSize - 1
          /\ Fill \in 0 .. RxSize - 1
      BY <1>0, SizesOK, FillRange
    <2>2. Fill # 0
      BY <1>0, <2>1 DEF Fill
    <2>3. Len(unread) = Fill /\ unread \in Seq([byte : Nat, at : Nat])
      BY <1>0 DEF InStep, InTypes
    <2> QED  BY <2>1, <2>2, <2>3
  <1>2. taken' = IF taken = RxSize - 1 THEN 0 ELSE taken + 1
    BY <1>0, <1>1, CountStep
  <1>3. /\ unread' \in Seq([byte : Nat, at : Nat]) /\ Len(unread') = Len(unread) - 1
        /\ \A i \in 1 .. Len(unread) - 1 : unread'[i] = unread[i + 1]
    BY <1>0, <1>1
  <1>4. Fill' = Fill - 1
    <2>1. ring' = ring /\ taken # ring.at
      BY <1>0
    <2>2. /\ ring.at \in Nat /\ taken \in Nat /\ RxSize \in Nat
          /\ taken < RxSize /\ ring.at < RxSize
      BY <1>1
    <2>3. Fill' = IF taken' <= ring.at THEN ring.at - taken' ELSE ring.at - taken' + RxSize
      BY <2>1 DEF Fill
    <2> QED  BY <1>2, <2>1, <2>2, <2>3 DEF Fill
  <1>5. \A k \in 0 .. RxSize - 2 : Place(k)' = Place(k + 1)
    BY <1>1, <1>2 DEF Place
  <1>6. InTypes'
    BY <1>0, <1>1, <1>2, <1>3 DEF InTypes
  <1>7. InStep'
    <2>1. ring.active
      BY <1>0 DEF InStep
    <2> QED  BY <1>0, <1>1, <1>3, <1>4, <2>1 DEF InStep
  <1>8. Stamped'
    <2> SUFFICES ASSUME NEW i \in 1 .. Len(unread')
                 PROVE  /\ ring.cell[Place(i - 1)'] = unread'[i].byte
                        /\ Len(unread') - i < TimeSize =>
                             timing.cell[Place(i - 1)' % TimeSize] = unread'[i].at
      BY <1>0 DEF Stamped
    <2>1. i \in 1 .. Len(unread) - 1 /\ i + 1 \in 1 .. Len(unread) /\ i - 1 \in 0 .. RxSize - 2
          /\ (i - 1) + 1 = (i + 1) - 1 /\ Len(unread') - i = Len(unread) - (i + 1)
      BY <1>1, <1>3
    <2>2. unread'[i] = unread[i + 1] /\ Place(i - 1)' = Place((i + 1) - 1)
      BY <1>3, <1>5, <2>1
    <2> QED  BY <1>0, <2>1, <2>2 DEF Stamped
  <1> QED  BY <1>6, <1>7, <1>8 DEF InInv

\* Steps that leave what the rings hold where it is.
LEMMA InKept ==
  ASSUME InInv, InTypes', UNCHANGED <<taken, unread>>,
         ring'.cell = ring.cell, ring'.at = ring.at,
         timing'.cell = timing.cell, timing'.at = timing.at,
         ring'.active => timing'.active, ring.active => ring'.active
  PROVE  InInv'
  <1>1. Fill' = Fill /\ \A k : Place(k)' = Place(k)
    BY DEF Fill, Place
  <1> QED  BY <1>1 DEF InInv, InStep, Stamped

LEMMA InArm ==
  ASSUME InInv, ArmTiming \/ ArmReceive \/ ArmAudio \/ WriteSCSCR \/ Play \/ UNCHANGED in
  PROVE  InInv'
  <1>0. InTypes /\ InStep /\ 0 % TimeSize = 0 /\ 0 \in 0 .. RxSize - 1 /\ 0 \in 0 .. TimeSize - 1
    BY SizesOK, Wrapped DEF InInv
  <1>1. CASE ArmTiming
    <2>1. /\ timing' = [timing EXCEPT !.active = TRUE, !.at = 0]
          /\ UNCHANGED <<RE, ring, playing, position, taken, unread>> /\ ~timing.active
      BY <1>1 DEF ArmTiming, Latched
    <2>2. timing.at = 0
      BY <1>0, <2>1 DEF InStep
    <2>3. timing' \in RingOf(TimeSize) /\ timing'.active /\ timing'.at = timing.at
          /\ timing'.cell = timing.cell
      BY <1>0, <2>1, <2>2 DEF InTypes, RingOf
    <2>4. InTypes'
      BY <1>0, <2>1, <2>3 DEF InTypes
    <2> QED  BY <2>1, <2>3, <2>4, InKept
  <1>2. CASE ArmReceive
    <2>1. /\ ring' = [ring EXCEPT !.active = TRUE, !.at = 0] /\ timing.active /\ ~ring.active
          /\ UNCHANGED <<RE, timing, playing, position, taken, unread>>
      BY <1>2 DEF ArmReceive, Latched
    <2>2. ring.at = 0
      BY <1>0, <2>1 DEF InStep
    <2>3. ring' \in RingOf(RxSize) /\ ring'.active /\ ring'.at = ring.at
          /\ ring'.cell = ring.cell
      BY <1>0, <2>1, <2>2 DEF InTypes, RingOf
    <2>4. InTypes'
      BY <1>0, <2>1, <2>3 DEF InTypes
    <2> QED  BY <2>1, <2>3, <2>4, InKept
  <1>3. CASE ArmAudio \/ WriteSCSCR \/ Play \/ UNCHANGED in
    <2>1. UNCHANGED <<ring, timing, taken, unread>>
      BY <1>3 DEF ArmAudio, WriteSCSCR, Play, in
    <2>2. RE' \in BOOLEAN /\ playing' \in BOOLEAN /\ position' \in Nat
      <3>1. CASE Play
        BY <1>0, <3>1, SizesOK, MidiAssumption, ModRange DEF Play, InTypes
      <3>2. CASE ArmAudio \/ WriteSCSCR \/ UNCHANGED in
        <4>1. RE \in BOOLEAN /\ playing \in BOOLEAN /\ position \in Nat
          BY <1>0 DEF InTypes
        <4>2. CASE ArmAudio
          BY <4>1, <4>2 DEF ArmAudio
        <4>3. CASE WriteSCSCR
          BY <4>1, <4>3 DEF WriteSCSCR
        <4>4. CASE UNCHANGED in
          BY <4>1, <4>4 DEF in
        <4> QED  BY <3>2, <4>2, <4>3, <4>4
      <3> QED  BY <1>3, <3>1, <3>2
    <2>3. InTypes'
      BY <1>0, <2>1, <2>2 DEF InTypes
    <2> QED  BY <1>0, <2>1, <2>3, InKept DEF InStep
  <1> QED  BY <1>1, <1>2, <1>3

LEMMA InReset_ ==
  ASSUME InInv, InReset
  PROVE  InInv'
  <1>0. InTypes /\ 0 % TimeSize = 0 /\ 0 \in 0 .. RxSize - 1 /\ 0 \in 0 .. TimeSize - 1
    BY SizesOK, Wrapped DEF InInv
  <1>1. /\ ring' = [ring EXCEPT !.active = FALSE, !.at = 0]
        /\ timing' = [timing EXCEPT !.active = FALSE, !.at = 0]
        /\ ~RE' /\ RE' \in BOOLEAN /\ playing' \in BOOLEAN /\ position' = 0
        /\ taken' = 0 /\ unread' = <<>>
    BY DEF InReset, Off
  <1>2. /\ ring' \in RingOf(RxSize) /\ timing' \in RingOf(TimeSize)
        /\ ring'.at = 0 /\ timing'.at = 0 /\ ~ring'.active
    BY <1>0, <1>1 DEF InTypes, RingOf
  <1>3. InTypes'
    <2>1. unread' \in Seq([byte : Nat, at : Nat])
      BY <1>1
    <2> QED  BY <1>0, <1>1, <1>2, <2>1 DEF InTypes
  <1>4. InStep'
    BY <1>0, <1>1, <1>2 DEF InStep, Fill
  <1>5. Stamped'
    BY <1>1 DEF Stamped
  <1> QED  BY <1>3, <1>4, <1>5 DEF InInv

(* Each byte of the serial port that the driver has not read is where it   *)
(* will look, and in the timing ring beside it the position at which it    *)
(* came, for rings of any sizes that fit together and whatever comes       *)
(* before the driver has read what came before                             *)
(* (rza1l_dmac_peripheral_rx_push, rza1l_dmac_timing_capture).                  *)
THEOREM StampsRight == Spec => []StampsMatch
  <1>1. Init => InInv
    BY InInitially DEF Init
  <1>2. InInv /\ [Next]_vars => InInv'
    <2> SUFFICES ASSUME InInv, [Next]_vars
                 PROVE  InInv'
      OBVIOUS
    <2>1. CASE Receive
      <3> DEFINE byte == IF unread = <<>> THEN 0
                         ELSE (unread[Len(unread)].byte + 1) % (RxSize + 1)
      <3>1. byte \in Nat
        <4>1. unread \in Seq([byte : Nat, at : Nat]) /\ RxSize + 1 \in Nat \ {0}
          BY SizesOK DEF InInv, InTypes
        <4>2. CASE unread # <<>>
          <5>2. unread[Len(unread)] \in [byte : Nat, at : Nat]
            BY <4>1, <4>2, LastOf
          <5>3. unread[Len(unread)].byte + 1 \in Int
            BY <5>2
          <5>4. (unread[Len(unread)].byte + 1) % (RxSize + 1) \in 0 .. (RxSize + 1) - 1
            BY <4>1, <5>3, ModRange
          <5>5. 0 .. (RxSize + 1) - 1 \subseteq Nat
            OBVIOUS
          <5> QED  BY <4>2, <5>4, <5>5
        <4> QED  BY <4>2
      <3>2. rza1l_scif_receive(byte)
        BY <2>1 DEF Receive
      <3> HIDE DEF byte
      <3> QED  BY <3>1, <3>2, InReceive
    <2>2. CASE Take
      BY <2>2, InTake
    <2>3. CASE ArmTiming \/ ArmReceive \/ ArmAudio \/ WriteSCSCR \/ Play \/ UNCHANGED in
      BY <2>3, InArm
    <2>4. CASE InReset
      BY <2>4, InReset_
    <2> QED  BY <2>1, <2>2, <2>3, <2>4 DEF Next, InNext, vars
  <1>3. InInv => StampsMatch
    BY InMatches
  <1> QED  BY <1>1, <1>2, <1>3, PTL DEF Spec

-----------------------------------------------------------------------------
(* Fourth part, the OLED panel behind its SPI channel (OledPanel, OledSpi).*)
(* A burst is a recursive function of its bytes: what a property of the    *)
(* panel needs of it is that it is kept by each byte, by least             *)
(* counterexample.                                                         *)

LEMMA LeastOf ==
  ASSUME NEW S \in SUBSET Nat, S # {}
  PROVE  \E d \in S : \A e \in S : d <= e
<1> DEFINE R == OpToRel(<, Nat)
<1>1. IsWellFoundedOn(R, Nat)
  BY NatLessThanWellFounded, Zenon
<1>2. \A x, y \in Nat : x < y => <<x, y>> \in R
  BY DEF OpToRel
<1> HIDE DEF R
<1>3. PICK d \in S : \A e \in S : ~(<<e, d>> \in R)
  BY <1>1, WFMin
<1>4. \A e \in S : ~(e < d)
  BY <1>2, <1>3
<1> QED BY <1>4

\* The states of the panel through a burst: the recursion has a solution.
LEMMA BurstStates ==
  ASSUME NEW S, NEW bytes, Len(bytes) \in Nat
  PROVE  \E g :
           /\ g = [n \in 0 .. Len(bytes) |->
                     IF n = 0 THEN S
                     ELSE {D!deluge_oled_spi_byte(o, bytes[n]) : o \in g[n - 1]}]
           /\ D!deluge_oled_spi_bytes(S, bytes) = g[Len(bytes)]
<1> DEFINE Solves(g, m) ==
             g = [n \in 0 .. m |->
                    IF n = 0 THEN S
                    ELSE {D!deluge_oled_spi_byte(o, bytes[n]) : o \in g[n - 1]}]
           Bad == {m \in Nat : \A g : ~Solves(g, m)}
<1>1. Bad = {}
  <2>1. ASSUME Bad # {}
        PROVE  FALSE
    <3>1. PICK d \in Bad : \A e \in Bad : d <= e
      <4>1. Bad \in SUBSET Nat
        OBVIOUS
      <4> QED BY <2>1, <4>1, LeastOf
    <3>2. CASE d = 0
      <4> DEFINE h == [n \in 0 .. 0 |-> S]
      <4>1. Solves(h, 0)
        OBVIOUS
      <4> QED BY <3>1, <3>2, <4>1
    <3>3. CASE d # 0
      <4>1. d \in Nat /\ d - 1 \in Nat /\ ~(d <= d - 1)
        BY <3>1, <3>3
      <4>2. PICK g : Solves(g, d - 1)
        <5>1. ~(d - 1 \in Bad)
          BY <3>1, <4>1, Zenon
        <5> QED BY <4>1, <5>1, Zenon
      <4> DEFINE h == [n \in 0 .. d |->
                         IF n = d THEN {D!deluge_oled_spi_byte(o, bytes[d]) : o \in g[d - 1]}
                         ELSE g[n]]
                 k == [n \in 0 .. d |->
                         IF n = 0 THEN S
                         ELSE {D!deluge_oled_spi_byte(o, bytes[n]) : o \in h[n - 1]}]
      <4>3. \A n \in 0 .. d : h[n] = k[n]
        <5> TAKE n \in 0 .. d
        <5>1. CASE n = d
          <6>1. n # 0 /\ h[n - 1] = g[n - 1]
            BY <3>1, <3>3, <5>1
          <6> QED BY <5>1, <6>1
        <5>2. CASE n # d /\ n = 0
          <6>1. g[0] = S
            BY <4>1, <4>2
          <6> QED BY <5>2, <6>1
        <5>3. CASE n # d /\ n # 0
          <6>1. n \in 0 .. d - 1 /\ n - 1 \in 0 .. d /\ n - 1 # d
            BY <4>1, <5>3
          <6>2. g[n] = {D!deluge_oled_spi_byte(o, bytes[n]) : o \in g[n - 1]}
            <7>1. g[n] = [i \in 0 .. d - 1 |->
                    IF i = 0 THEN S
                    ELSE {D!deluge_oled_spi_byte(o, bytes[i]) : o \in g[i - 1]}][n]
              BY <4>2, Zenon
            <7> QED BY <5>3, <6>1, <7>1
          <6>3. h[n - 1] = g[n - 1] /\ h[n] = g[n]
            BY <5>3, <6>1
          <6>4. k[n] = {D!deluge_oled_spi_byte(o, bytes[n]) : o \in h[n - 1]}
            BY <5>3
          <6> QED BY <6>2, <6>3, <6>4
        <5> QED BY <5>1, <5>2, <5>3
      <4>4. Solves(h, d)
        <5>1. h = k
          <6> HIDE DEF h, k
          <6>1. DOMAIN h = 0 .. d /\ h = [n \in 0 .. d |-> h[n]]
            BY DEF h
          <6>2. k = [n \in 0 .. d |-> k[n]]
            BY DEF k
          <6> QED BY <4>3, <6>1, <6>2, Zenon
        <5> QED BY <5>1, Zenon
      <4> QED BY <3>1, <4>4, Zenon
    <3> QED BY <3>2, <3>3
  <2> QED BY <2>1
<1>2. PICK g : Solves(g, Len(bytes))
  <2>1. ~(Len(bytes) \in Bad)
    BY <1>1, Zenon
  <2> QED BY <2>1, Zenon
<1> DEFINE after == CHOOSE f : Solves(f, Len(bytes))
<1>3. Solves(after, Len(bytes))
  BY <1>2, Zenon
<1>4. D!deluge_oled_spi_bytes(S, bytes) = after[Len(bytes)]
  BY Zenon DEF D!deluge_oled_spi_bytes
<1> QED BY <1>3, <1>4, Zenon

\* What each byte keeps, the burst keeps: G[n] holds the states possible
\* after n bytes.
LEMMA BurstKeeps ==
  ASSUME NEW S, NEW bytes, Len(bytes) \in Nat,
         NEW G, S \subseteq G[0],
         \A n \in 1 .. Len(bytes) : \A o \in G[n - 1] : D!deluge_oled_spi_byte(o, bytes[n]) \in G[n]
  PROVE  D!deluge_oled_spi_bytes(S, bytes) \subseteq G[Len(bytes)]
<1>1. PICK g :
        /\ g = [n \in 0 .. Len(bytes) |->
                  IF n = 0 THEN S
                  ELSE {D!deluge_oled_spi_byte(o, bytes[n]) : o \in g[n - 1]}]
        /\ D!deluge_oled_spi_bytes(S, bytes) = g[Len(bytes)]
  BY BurstStates
<1> DEFINE Bad == {n \in 0 .. Len(bytes) : ~(g[n] \subseteq G[n])}
<1>2. ASSUME Bad # {}
      PROVE  FALSE
  <2>1. PICK d \in Bad : \A e \in Bad : d <= e
    <3>1. Bad \in SUBSET Nat
      OBVIOUS
    <3> QED BY <1>2, <3>1, LeastOf
  <2>2. d # 0
    <3>1. g[0] = S
      BY <1>1
    <3> QED BY <2>1, <3>1
  <2>3. d - 1 \in 0 .. Len(bytes) /\ ~(d - 1 \in Bad) /\ d \in 1 .. Len(bytes)
    BY <2>1, <2>2
  <2>4. g[d] = {D!deluge_oled_spi_byte(o, bytes[d]) : o \in g[d - 1]}
    BY <1>1, <2>3
  <2>5. \A x \in g[d] : x \in G[d]
    BY <2>3, <2>4
  <2> QED BY <2>1, <2>5
<1>3. ~(Len(bytes) \in Bad)
  BY <1>2
<1> QED BY <1>1, <1>3

-----------------------------------------------------------------------------
(* The inductive invariant.  PictureIsFrame is not inductive: it says      *)
(* nothing of the panel while it is set up, nor of a frame under way.  The *)
(* invariant follows the accesses of the transfer one by one: how many are *)
(* made, and what each of them has left in the panel.                      *)

\* What a cell of the panel's memory holds.
Content == {Blank} \cup (Int \X Int)

PanelState ==
  [gddram : [0 .. Pages - 1 -> [0 .. Cols - 1 -> Content]],
   addr_mode : Int, col_start : Int, col_end : Int, page_start : Int, page_end : Int,
   cur_col : Int, cur_page : Int, display_on : BOOLEAN,
   cmd : Int, need : Int, args : Seq(Int),
   dc_high : BOOLEAN, selected : BOOLEAN, enabled : BOOLEAN]

\* All but the first k accesses of a list.
Left(L, k) == SubSeq(L, k + 1, Len(L))

\* No command awaits an argument.
Fresh(o) == o.need = 0 /\ o.args = <<>>

\* What part p of the set-up leaves behind.
PartDone(o, s, p) ==
  IF p = 1 THEN o.addr_mode = s.mode
  ELSE IF p = 2 THEN o.col_start = 0 /\ o.col_end = Cols - 1 /\ o.cur_col = 0
  ELSE IF p = 3 THEN /\ o.page_start = s.first /\ o.page_end = s.first + Rows - 1
                     /\ o.cur_page = s.first
  ELSE TRUE

AllDone(o, s) == \A p \in 1 .. 4 : PartDone(o, s, p)

\* The i-th command of the set-up; the bytes before it.
Nth(s, i) == D!Part(s, s.order[i])
Size(s, i) == Len(Nth(s, i))
Before(s, i) ==
  (IF i > 1 THEN Size(s, 1) ELSE 0) + (IF i > 2 THEN Size(s, 2) ELSE 0)
    + (IF i > 3 THEN Size(s, 3) ELSE 0) + (IF i > 4 THEN Size(s, 4) ELSE 0)

\* j bytes of the i-th command are sent.
AtCommand(o, s, i, j) ==
  /\ \A q \in 1 .. i - 1 : PartDone(o, s, s.order[q])
  /\ j = 0 => Fresh(o)
  /\ j > 0 => /\ o.cmd = Nth(s, i)[1] /\ o.need = Size(s, i) - 1
              /\ o.args = IF j = 1 THEN <<>> ELSE <<Nth(s, i)[2]>>

\* The panel listens to commands.
Listening(o) == o.enabled /\ ~o.dc_high /\ o.selected

\* The panel is set up; between frames.
Ready(o, s) ==
  /\ o.enabled /\ o.display_on /\ Fresh(o)
  /\ o.addr_mode = s.mode /\ o.col_start = 0 /\ o.col_end = Cols - 1 /\ o.cur_col = 0
  /\ o.page_start = s.first /\ o.page_end = s.first + Rows - 1
  /\ s.mode # D!PAGE => o.cur_page = s.first

Idle(o, s) == Ready(o, s) /\ o.dc_high /\ ~o.selected

\* After k accesses of the set-up.
BootAt(o, s, k) ==
  \/ k = 0 /\ Fresh(o)
  \/ k = 1 /\ Fresh(o) /\ o.enabled
  \/ k = 2 /\ Fresh(o) /\ o.enabled /\ ~o.dc_high
  \/ \E i \in 1 .. 4, j \in 0 .. 2 :
       /\ j < Size(s, i) /\ k = 3 + Before(s, i) + j
       /\ Listening(o) /\ AtCommand(o, s, i, j)
  \/ k = 3 + Before(s, 5) /\ Listening(o) /\ Fresh(o) /\ AllDone(o, s)
  \/ k = 4 + Before(s, 5) /\ Listening(o) /\ Ready(o, s)
  \/ k = 5 + Before(s, 5) /\ Ready(o, s) /\ o.dc_high /\ o.selected
  \/ k = 6 + Before(s, 5) /\ Idle(o, s)

\* Byte for byte, the panel shows the first n pages of frame f.
Spot(s, r, c) == IF s.mode = D!VERTICAL THEN c * Rows + r ELSE r * Cols + c
ShowsPages(o, s, f, n) ==
  \A r \in 0 .. n - 1, c \in 0 .. Cols - 1 :
    o.gddram[s.first + r][c] = D!Cell(f, Spot(s, r, c))

\* After k accesses of frame f: in one burst, or page by page.
BurstAt(o, s, f, k) ==
  /\ Ready(o, s) /\ o.dc_high /\ k \in 0 .. 3
  /\ (o.selected <=> k \in {1, 2})
  /\ k >= 2 => ShowsPages(o, s, f, Rows)

PagesAt(o, s, f, k) ==
  /\ Ready(o, s)
  /\ \/ k = 0 /\ o.dc_high /\ ~o.selected
     \/ \E r \in 0 .. Rows - 1, j \in 0 .. 5 :
          /\ k = 1 + 6 * r + j
          /\ o.selected /\ (o.dc_high <=> j \in {0, 5})
          /\ j >= 2 => o.cur_page = s.first + r
          /\ ShowsPages(o, s, f, r)
     \/ k = 1 + 6 * Rows /\ o.dc_high /\ o.selected /\ ShowsPages(o, s, f, Rows)
     \/ k = 2 + 6 * Rows /\ o.dc_high /\ ~o.selected /\ ShowsPages(o, s, f, Rows)

FrameAt(o, s, f, k) ==
  IF s.mode = D!PAGE THEN PagesAt(o, s, f, k) ELSE BurstAt(o, s, f, k)

Quiet == ~SPRIE /\ ~spri
LastShown == last # D!NoFrame => ShowsPages(oled, style, last, Rows)

BootInv ==
  under = "boot" =>
    /\ Quiet /\ last = D!NoFrame
    /\ \E k \in 0 .. Len(D!Boot(style)) :
         todo = Left(D!Boot(style), k) /\ BootAt(oled, style, k)

NoneInv == under = "none" => todo = <<>> /\ Quiet /\ Idle(oled, style) /\ LastShown

WordInv ==
  under = "word" =>
    /\ Idle(oled, style) /\ LastShown
    /\ \E w \in Words, k \in 0 .. 2 :
         /\ todo = Left(D!Word(w), k)
         /\ k = 0 => Quiet
         /\ k = 1 => SPRIE /\ ~spri
         /\ k = 2 => spri

FrameInv ==
  under = "frame" =>
    /\ Quiet /\ last = D!NoFrame
    /\ \E k \in 0 .. Len(D!Frame(style, frame)) :
         todo = Left(D!Frame(style, frame), k) /\ FrameAt(oled, style, frame, k)

OledTypes ==
  /\ style \in Styles /\ oled \in PanelState /\ frame \in Int
  /\ under \in {"boot", "none", "word", "frame"}

OledInv == OledTypes /\ BootInv /\ NoneInv /\ WordInv /\ FrameInv

-----------------------------------------------------------------------------
(* What the constants are.                                                 *)

LEMMA Sizes ==
  /\ Pages \in {1, 2, 4, 8} /\ Pages \in Nat \ {0} /\ Cols \in Nat \ {0} /\ Nibble \in Nat \ {0}
  /\ Rows \in 1 .. Pages /\ Rows \in Nat \ {0}
  /\ Words \subseteq 0 .. 255
  BY PanelAssumption DEF D!OledAssumption, D!SpiAssumption

LEMMA StyleFacts ==
  ASSUME NEW s \in Styles
  PROVE  /\ s.mode \in {0, 1, 2} /\ s.first \in 0 .. Pages - Rows /\ s.contrast \in 0 .. 255
         /\ s.order \in [1 .. 4 -> 1 .. 4]
         /\ \A p \in 1 .. 4 : \E i \in 1 .. 4 : s.order[i] = p
<1>1. s \in D!Style
  BY PanelAssumption DEF D!SpiAssumption
<1> QED BY <1>1 DEF D!Style, D!HORIZONTAL, D!VERTICAL, D!PAGE

\* A style's window lies within the memory, and a burst fills it.
LEMMA WindowFits ==
  ASSUME NEW s \in Styles
  PROVE  /\ s.first \in Nat /\ s.first + Rows <= Pages
         /\ Rows <= Pages /\ Pages \in Nat
<1>1. s.first \in 0 .. Pages - Rows
  BY StyleFacts
<1>2. Pages \in Nat \ {0} /\ Rows \in 1 .. Pages
  BY Sizes
<1> QED BY <1>1, <1>2

LEMMA BurstLength ==
  Rows * Cols \in Nat /\ Rows * Cols = Cols * Rows
<1>1. Rows \in Nat /\ Cols \in Nat
  BY Sizes
<1> QED BY <1>1

(* A byte of data.                                                         *)

\* What a byte of data leaves alone.
Kept(o, x) ==
  /\ x.addr_mode = o.addr_mode
  /\ x.col_start = o.col_start /\ x.col_end = o.col_end
  /\ x.page_start = o.page_start /\ x.page_end = o.page_end
  /\ x.display_on = o.display_on /\ x.need = o.need /\ x.args = o.args
  /\ x.dc_high = o.dc_high /\ x.selected = o.selected /\ x.enabled = o.enabled

\* Byte b takes panel o to panel x.
ByteSent(x, o, b) ==
  /\ x \in PanelState /\ Kept(o, x)
  /\ x.gddram = [o.gddram EXCEPT ![o.cur_page][o.cur_col] = b]
  /\ x.cur_col = IF o.addr_mode # D!VERTICAL \/ o.cur_page >= o.page_end
                 THEN (IF o.cur_col >= o.col_end THEN o.col_start ELSE o.cur_col + 1)
                 ELSE o.cur_col
  /\ x.cur_page = IF \/ o.addr_mode = D!VERTICAL
                     \/ o.addr_mode # D!PAGE /\ o.cur_col >= o.col_end
                  THEN (IF o.cur_page >= o.page_end THEN o.page_start ELSE o.cur_page + 1)
                  ELSE o.cur_page

LEMMA DataByte ==
  ASSUME NEW o \in PanelState, NEW b \in Content, o.selected, o.dc_high,
         o.cur_page \in 0 .. Pages - 1, o.cur_col \in 0 .. Cols - 1
  PROVE  ByteSent(D!deluge_oled_spi_byte(o, b), o, b)
<1> DEFINE g == [o.gddram EXCEPT ![o.cur_page][o.cur_col] = b]
           w == [o EXCEPT !.gddram = g]
           x == D!deluge_oled_spi_byte(o, b)
<1>1. x = D!Advance(w)
  BY Sizes DEF PanelState, D!deluge_oled_spi_byte, D!deluge_oled_write_data
<1>2. g \in [0 .. Pages - 1 -> [0 .. Cols - 1 -> Content]]
  BY DEF PanelState
<1> HIDE DEF g, x
<1>3. w \in PanelState /\ w.gddram = g /\ w.cur_col = o.cur_col /\ w.cur_page = o.cur_page
      /\ w.addr_mode = o.addr_mode /\ w.col_start = o.col_start /\ w.col_end = o.col_end
      /\ w.page_start = o.page_start /\ w.page_end = o.page_end /\ Kept(o, w)
  BY <1>2 DEF PanelState, Kept
<1> HIDE DEF w
<1> DEFINE nc == D!NextCol(w)  np == D!NextPage(w)
<1>4. /\ nc = (IF o.cur_col >= o.col_end THEN o.col_start ELSE o.cur_col + 1) /\ nc \in Int
      /\ np = (IF o.cur_page >= o.page_end THEN o.page_start ELSE o.cur_page + 1) /\ np \in Int
  BY <1>3 DEF PanelState, D!NextCol, D!NextPage
<1> HIDE DEF nc, np
<1>5. CASE o.addr_mode = D!VERTICAL
  <2>1. x = [w EXCEPT !.cur_page = np, !.cur_col = IF w.cur_page >= w.page_end THEN nc ELSE @]
    BY <1>1, <1>3, <1>5 DEF D!Advance, nc, np
  <2>2. /\ x \in PanelState /\ Kept(w, x) /\ x.gddram = w.gddram
        /\ x.cur_page = np /\ x.cur_col = IF w.cur_page >= w.page_end THEN nc ELSE w.cur_col
    BY <1>3, <1>4, <2>1 DEF PanelState, Kept
  <2> QED BY <1>3, <1>4, <1>5, <2>2 DEF Kept, g, x, ByteSent
<1>6. CASE o.addr_mode # D!VERTICAL
  <2>1. x = [w EXCEPT !.cur_col = nc,
                      !.cur_page = IF w.addr_mode # D!PAGE /\ w.cur_col >= w.col_end
                                   THEN np ELSE @]
    BY <1>1, <1>3, <1>6 DEF D!Advance, nc, np
  <2>2. /\ x \in PanelState /\ Kept(w, x) /\ x.gddram = w.gddram
        /\ x.cur_col = nc
        /\ x.cur_page = IF w.addr_mode # D!PAGE /\ w.cur_col >= w.col_end THEN np ELSE w.cur_page
    BY <1>3, <1>4, <2>1 DEF PanelState, Kept
  <2> QED BY <1>3, <1>4, <1>6, <2>2 DEF Kept, g, x, ByteSent
<1> QED BY <1>5, <1>6

(* The two digits of a byte's position: the outer one counts wraps of the  *)
(* inner one.                                                              *)

LEMMA Digits ==
  ASSUME NEW W \in Nat \ {0}, NEW H \in Nat \ {0}, NEW q \in 0 .. H, NEW c \in 0 .. W - 1
  PROVE  /\ q * W \in Nat /\ H * W \in Nat
         /\ q * W + c < H * W => q < H
         /\ q * W + c = H * W => q = H /\ c = 0
         /\ (q + 1) * W = q * W + W
<1>1. q * W \in Nat /\ H * W \in Nat /\ (q + 1) * W = q * W + W /\ 0 * W = 0
  OBVIOUS
<1>2. ASSUME q < H
      PROVE  q * W + W <= H * W
  <2>1. PICK e \in Nat : H = q + 1 + e
    <3>1. H - q - 1 \in Nat /\ H = q + 1 + (H - q - 1)
      BY <1>2
    <3> QED BY <3>1
  <2>2. H * W = (q + 1) * W + e * W /\ e * W \in Nat
    BY <2>1
  <2> QED BY <1>1, <2>2
<1>3. q = H \/ q < H
  OBVIOUS
<1> QED BY <1>1, <1>2, <1>3

\* When every byte is sent the two digits are back at the start.
LEMMA Finished ==
  /\ \A q \in 0 .. Rows, c \in 0 .. Cols - 1 : q * Cols + c = Rows * Cols => q = Rows /\ c = 0
  /\ \A q \in 0 .. Cols, r \in 0 .. Rows - 1 : q * Rows + r = Cols * Rows => q = Cols /\ r = 0
<1>1. Rows \in Nat \ {0} /\ Cols \in Nat \ {0}
  BY Sizes
<1>2. ASSUME NEW W \in Nat \ {0}, NEW H \in Nat \ {0},
             NEW q \in 0 .. H, NEW c \in 0 .. W - 1, q * W + c = H * W
      PROVE  q = H /\ c = 0
  BY <1>2, Digits
<1> QED BY <1>1, <1>2

(* The burst of a frame.  Outer and inner digit of the count are row and   *)
(* column of the next byte, or the other way round in vertical mode.       *)

LEMMA HorizontalBurst ==
  ASSUME NEW s \in Styles, s.mode = D!HORIZONTAL, NEW f \in Int,
         NEW o \in PanelState, Ready(o, s), o.selected, o.dc_high,
         NEW bytes, Len(bytes) = Rows * Cols,
         \A n \in 1 .. Rows * Cols : bytes[n] = D!Cell(f, n - 1),
         NEW x \in D!deluge_oled_spi_bytes({o}, bytes)
  PROVE  x \in PanelState /\ Ready(x, s) /\ x.selected /\ x.dc_high /\ ShowsPages(x, s, f, Rows)
<1> DEFINE N == Rows * Cols
           Sent(y, q, c) ==
             \A r \in 0 .. Rows - 1, d \in 0 .. Cols - 1 :
               r < q \/ (r = q /\ d < c) => y.gddram[s.first + r][d] = D!Cell(f, r * Cols + d)
           Reached(y, n, q, c) ==
             /\ n = q * Cols + c
             /\ y.cur_col = c /\ y.cur_page = s.first + (IF q = Rows THEN 0 ELSE q)
             /\ Sent(y, q, c)
           Good(y, n) ==
             y \in PanelState /\ Kept(o, y)
               /\ \E q \in 0 .. Rows, c \in 0 .. Cols - 1 : Reached(y, n, q, c)
           G == [n \in 0 .. N |-> {y \in PanelState : Good(y, n)}]
<1>1. N \in Nat /\ Cols \in Nat \ {0} /\ Rows \in Nat \ {0} /\ Rows <= Pages /\ Pages \in Nat
      /\ s.first \in Nat /\ s.first + Rows <= Pages
  <2> HIDE DEF N
  <2>1. N \in Nat /\ N = Cols * Rows
    BY BurstLength DEF N
  <2> QED  BY <2>1, Sizes, WindowFits
<1>2. Good(o, 0)
  <2>1. Sent(o, 0, 0)
    OBVIOUS
  <2> HIDE DEF Sent
  <2>2. 0 = 0 * Cols + 0
    BY <1>1
  <2>3. Reached(o, 0, 0, 0)
    BY <1>1, <2>1, <2>2 DEF Ready, D!HORIZONTAL, D!PAGE
  <2> HIDE DEF Reached
  <2>4. Kept(o, o) /\ 0 \in 0 .. Rows /\ 0 \in 0 .. Cols - 1
    BY <1>1 DEF Kept
  <2> QED BY <2>3, <2>4
<1>3. ASSUME NEW n \in 1 .. N, NEW y, Good(y, n - 1)
      PROVE  Good(D!deluge_oled_spi_byte(y, bytes[n]), n)
  <2>1. PICK q \in 0 .. Rows, c \in 0 .. Cols - 1 : Reached(y, n - 1, q, c)
    BY <1>3
  <2>2. q < Rows /\ (q + 1) * Cols = q * Cols + Cols /\ q * Cols \in Nat
    <3>1. n - 1 = q * Cols + c /\ n - 1 < N
      BY <1>1, <2>1
    <3> QED BY <1>1, <3>1, Digits
  <2>3. y \in PanelState /\ Kept(o, y) /\ y.cur_col = c /\ y.cur_page = s.first + q
        /\ Sent(y, q, c) /\ n - 1 = q * Cols + c
    BY <1>3, <2>1, <2>2
  <2> DEFINE b == bytes[n]  z == D!deluge_oled_spi_byte(y, b)
  <2>4. b = D!Cell(f, q * Cols + c) /\ b \in Content
    <3>1. b = D!Cell(f, n - 1)
      OBVIOUS
    <3>2. D!Cell(f, n - 1) \in Content
      BY <1>1 DEF D!Cell, Content
    <3> QED BY <2>3, <3>1, <3>2
  <2> HIDE DEF b, z, Sent, N, Reached
  <2>5. /\ z \in PanelState /\ Kept(y, z)
        /\ z.gddram = [y.gddram EXCEPT ![y.cur_page][y.cur_col] = b]
        /\ z.cur_col = IF y.cur_col >= y.col_end THEN y.col_start ELSE y.cur_col + 1
        /\ z.cur_page = IF y.cur_col >= y.col_end
                        THEN (IF y.cur_page >= y.page_end THEN y.page_start ELSE y.cur_page + 1)
                        ELSE y.cur_page
    <3>1. /\ y.selected /\ y.dc_high /\ y.addr_mode = D!HORIZONTAL
          /\ D!HORIZONTAL # D!VERTICAL /\ D!HORIZONTAL # D!PAGE
      BY <2>3 DEF Kept, Ready, D!HORIZONTAL, D!VERTICAL, D!PAGE
    <3>2. y.cur_page \in 0 .. Pages - 1 /\ y.cur_col \in 0 .. Cols - 1
      BY <1>1, <2>2, <2>3
    <3>3. ByteSent(z, y, b)
      BY <2>3, <2>4, <3>1, <3>2, DataByte, Zenon DEF z
    <3> QED BY <3>1, <3>3 DEF ByteSent
  <2>6. /\ y.col_end = Cols - 1 /\ y.col_start = 0
        /\ y.page_end = s.first + Rows - 1 /\ y.page_start = s.first
    BY <2>3 DEF Kept, Ready
  <2>7. Kept(o, z)
    BY <2>3, <2>5 DEF Kept
  <2>8. \A r \in 0 .. Rows - 1, d \in 0 .. Cols - 1 :
          z.gddram[s.first + r][d] =
            IF r = q /\ d = c THEN D!Cell(f, q * Cols + c) ELSE y.gddram[s.first + r][d]
    <3>1. TAKE r \in 0 .. Rows - 1, d \in 0 .. Cols - 1
    <3>2. s.first + r \in 0 .. Pages - 1 /\ y.cur_page \in 0 .. Pages - 1
          /\ (s.first + r = y.cur_page <=> r = q) /\ y.cur_col = c
      BY <1>1, <2>2, <2>3
    <3>3. y.gddram \in [0 .. Pages - 1 -> [0 .. Cols - 1 -> Content]]
      BY <2>3 DEF PanelState
    <3> DEFINE p == y.cur_page  k == y.cur_col
    <3>4. z.gddram = [y.gddram EXCEPT ![p] = [y.gddram[p] EXCEPT ![k] = b]]
      BY <2>5
    <3>5. s.first + r # p => z.gddram[s.first + r][d] = y.gddram[s.first + r][d]
      BY <3>2, <3>3, <3>4
    <3>6. z.gddram[p] = [y.gddram[p] EXCEPT ![k] = b] /\ DOMAIN y.gddram[p] = 0 .. Cols - 1
      BY <3>2, <3>3, <3>4
    <3>7. z.gddram[p][d] = IF d = k THEN b ELSE y.gddram[p][d]
      BY <3>6
    <3> QED BY <2>4, <3>2, <3>5, <3>7
  <2>9. ASSUME c < Cols - 1
        PROVE  Good(z, n)
    <3>1. z.cur_col = c + 1 /\ z.cur_page = s.first + q /\ c + 1 \in 0 .. Cols - 1
      BY <1>1, <2>3, <2>5, <2>6, <2>9
    <3>2. Sent(z, q, c + 1)
      <4> SUFFICES ASSUME NEW r \in 0 .. Rows - 1, NEW d \in 0 .. Cols - 1,
                          r < q \/ (r = q /\ d < c + 1)
                   PROVE  z.gddram[s.first + r][d] = D!Cell(f, r * Cols + d)
        BY Zenon DEF Sent
      <4>1. r < q \/ (r = q /\ d < c) \/ (r = q /\ d = c)
        BY <1>1
      <4> QED BY <2>3, <2>8, <4>1 DEF Sent
    <3>3. Reached(z, n, q, c + 1)
      BY <1>1, <2>2, <2>3, <3>1, <3>2 DEF Reached
    <3> QED BY <2>5, <2>7, <3>1, <3>3, Zenon
  <2>10. ASSUME c = Cols - 1
         PROVE  Good(z, n)
    <3>1. z.cur_col = 0 /\ z.cur_page = s.first + (IF q + 1 = Rows THEN 0 ELSE q + 1)
          /\ q + 1 \in 0 .. Rows /\ 0 \in 0 .. Cols - 1
      BY <1>1, <2>2, <2>3, <2>5, <2>6, <2>10
    <3>2. Sent(z, q + 1, 0)
      BY <2>3, <2>8, <2>10 DEF Sent
    <3>3. n = (q + 1) * Cols + 0
      BY <1>1, <2>2, <2>3, <2>10
    <3>4. Reached(z, n, q + 1, 0)
      BY <3>1, <3>2, <3>3, Zenon DEF Reached
    <3> QED BY <2>5, <2>7, <3>1, <3>4, Zenon
  <2>11. Good(z, n)
    BY <1>1, <2>9, <2>10
  <2> QED BY <2>11, Zenon DEF z, b
<1> HIDE DEF N
<1>4. x \in G[N]
  <2> HIDE DEF Good
  <2>1. {o} \subseteq G[0]
    BY <1>1, <1>2
  <2>2. \A n \in 1 .. N : \A y \in G[n - 1] : D!deluge_oled_spi_byte(y, bytes[n]) \in G[n]
    <3>1. TAKE n \in 1 .. N
    <3>2. n - 1 \in 0 .. N /\ n \in 0 .. N
      BY <1>1
    <3>3. TAKE y \in G[n - 1]
    <3>4. Good(y, n - 1)
      BY <3>2
    <3>5. Good(D!deluge_oled_spi_byte(y, bytes[n]), n)
      BY <1>3, <3>4, Zenon
    <3>6. D!deluge_oled_spi_byte(y, bytes[n]) \in PanelState
      BY <3>5, Zenon DEF Good
    <3> QED BY <3>2, <3>5, <3>6
  <2> HIDE DEF G
  <2>3. Len(bytes) = N /\ Len(bytes) \in Nat
    BY <1>1 DEF N
  <2>4. D!deluge_oled_spi_bytes({o}, bytes) \subseteq G[Len(bytes)]
    BY <2>1, <2>2, <2>3, BurstKeeps
  <2> QED BY <2>3, <2>4
<1>5. Good(x, N)
  BY <1>1, <1>4
<1>6. PICK q \in 0 .. Rows, c \in 0 .. Cols - 1 : Reached(x, N, q, c)
  BY <1>5
<1>7. q = Rows /\ c = 0
  <2>1. q * Cols + c = Rows * Cols
    BY <1>6 DEF N
  <2> QED BY <2>1, Finished, Zenon
<1>8. x.cur_col = 0 /\ x.cur_page = s.first /\ Sent(x, Rows, 0)
  BY <1>1, <1>6, <1>7
<1>9. x \in PanelState /\ Kept(o, x)
  BY <1>5
<1>10. ShowsPages(x, s, f, Rows)
  <2> SUFFICES ASSUME NEW r \in 0 .. Rows - 1, NEW d \in 0 .. Cols - 1
               PROVE  x.gddram[s.first + r][d] = D!Cell(f, Spot(s, r, d))
    BY Zenon DEF ShowsPages
  <2>1. r < Rows /\ Spot(s, r, d) = r * Cols + d
    BY <1>1 DEF Spot, D!HORIZONTAL, D!VERTICAL
  <2>2. x.gddram[s.first + r][d] = D!Cell(f, r * Cols + d)
    <3> HIDE DEF N
    <3> QED BY <1>8, <2>1
  <2> QED BY <2>1, <2>2, Zenon
<1>11. Ready(x, s) /\ x.selected /\ x.dc_high
  BY <1>8, <1>9 DEF Ready, Kept, Fresh
<1> QED BY <1>9, <1>10, <1>11

LEMMA VerticalBurst ==
  ASSUME NEW s \in Styles, s.mode = D!VERTICAL, NEW f \in Int,
         NEW o \in PanelState, Ready(o, s), o.selected, o.dc_high,
         NEW bytes, Len(bytes) = Rows * Cols,
         \A n \in 1 .. Rows * Cols : bytes[n] = D!Cell(f, n - 1),
         NEW x \in D!deluge_oled_spi_bytes({o}, bytes)
  PROVE  x \in PanelState /\ Ready(x, s) /\ x.selected /\ x.dc_high /\ ShowsPages(x, s, f, Rows)
<1> DEFINE N == Rows * Cols
           Sent(y, q, c) ==
             \A r \in 0 .. Rows - 1, d \in 0 .. Cols - 1 :
               d < q \/ (d = q /\ r < c) => y.gddram[s.first + r][d] = D!Cell(f, d * Rows + r)
           Reached(y, n, q, c) ==
             /\ n = q * Rows + c
             /\ y.cur_page = s.first + c /\ y.cur_col = IF q = Cols THEN 0 ELSE q
             /\ Sent(y, q, c)
           Good(y, n) ==
             y \in PanelState /\ Kept(o, y)
               /\ \E q \in 0 .. Cols, c \in 0 .. Rows - 1 : Reached(y, n, q, c)
           G == [n \in 0 .. N |-> {y \in PanelState : Good(y, n)}]
<1>1. /\ N \in Nat /\ N = Cols * Rows /\ Cols \in Nat \ {0} /\ Rows \in Nat \ {0}
      /\ Rows <= Pages /\ Pages \in Nat
      /\ s.first \in Nat /\ s.first + Rows <= Pages
  <2> HIDE DEF N
  <2>1. N \in Nat /\ N = Cols * Rows
    BY BurstLength DEF N
  <2> QED  BY <2>1, Sizes, WindowFits
<1>2. Good(o, 0)
  <2>1. Sent(o, 0, 0)
    OBVIOUS
  <2> HIDE DEF Sent
  <2>2. 0 = 0 * Rows + 0
    BY <1>1
  <2>3. Reached(o, 0, 0, 0)
    BY <1>1, <2>1, <2>2 DEF Ready, D!VERTICAL, D!PAGE
  <2> HIDE DEF Reached
  <2>4. Kept(o, o) /\ 0 \in 0 .. Cols /\ 0 \in 0 .. Rows - 1
    BY <1>1 DEF Kept
  <2> QED BY <2>3, <2>4
<1>3. ASSUME NEW n \in 1 .. N, NEW y, Good(y, n - 1)
      PROVE  Good(D!deluge_oled_spi_byte(y, bytes[n]), n)
  <2>1. PICK q \in 0 .. Cols, c \in 0 .. Rows - 1 : Reached(y, n - 1, q, c)
    BY <1>3
  <2>2. q < Cols /\ (q + 1) * Rows = q * Rows + Rows /\ q * Rows \in Nat
    <3>1. n - 1 = q * Rows + c /\ n - 1 < N
      BY <1>1, <2>1
    <3> QED BY <1>1, <3>1, Digits
  <2>3. y \in PanelState /\ Kept(o, y) /\ y.cur_col = q /\ y.cur_page = s.first + c
        /\ Sent(y, q, c) /\ n - 1 = q * Rows + c
    BY <1>3, <2>1, <2>2
  <2> DEFINE b == bytes[n]  z == D!deluge_oled_spi_byte(y, b)
  <2>4. b = D!Cell(f, q * Rows + c) /\ b \in Content
    <3>1. b = D!Cell(f, n - 1)
      OBVIOUS
    <3>2. D!Cell(f, n - 1) \in Content
      BY <1>1 DEF D!Cell, Content
    <3> QED BY <2>3, <3>1, <3>2
  <2> HIDE DEF b, z, Sent, N, Reached
  <2>5. /\ z \in PanelState /\ Kept(y, z)
        /\ z.gddram = [y.gddram EXCEPT ![y.cur_page][y.cur_col] = b]
        /\ z.cur_page = IF y.cur_page >= y.page_end THEN y.page_start ELSE y.cur_page + 1
        /\ z.cur_col = IF y.cur_page >= y.page_end
                       THEN (IF y.cur_col >= y.col_end THEN y.col_start ELSE y.cur_col + 1)
                       ELSE y.cur_col
    <3>1. y.selected /\ y.dc_high /\ y.addr_mode = D!VERTICAL
      BY <2>3 DEF Kept, Ready
    <3>2. y.cur_page \in 0 .. Pages - 1 /\ y.cur_col \in 0 .. Cols - 1
      BY <1>1, <2>2, <2>3
    <3>3. ByteSent(z, y, b)
      BY <2>3, <2>4, <3>1, <3>2, DataByte, Zenon DEF z
    <3> QED BY <3>1, <3>3 DEF ByteSent
  <2>6. /\ y.col_end = Cols - 1 /\ y.col_start = 0
        /\ y.page_end = s.first + Rows - 1 /\ y.page_start = s.first
    BY <2>3 DEF Kept, Ready
  <2>7. Kept(o, z)
    BY <2>3, <2>5 DEF Kept
  <2>8. \A r \in 0 .. Rows - 1, d \in 0 .. Cols - 1 :
          z.gddram[s.first + r][d] =
            IF d = q /\ r = c THEN D!Cell(f, q * Rows + c) ELSE y.gddram[s.first + r][d]
    <3>1. TAKE r \in 0 .. Rows - 1, d \in 0 .. Cols - 1
    <3>2. s.first + r \in 0 .. Pages - 1 /\ y.cur_page \in 0 .. Pages - 1
          /\ (s.first + r = y.cur_page <=> r = c) /\ y.cur_col = q
      BY <1>1, <2>2, <2>3
    <3>3. y.gddram \in [0 .. Pages - 1 -> [0 .. Cols - 1 -> Content]]
      BY <2>3 DEF PanelState
    <3> DEFINE p == y.cur_page  k == y.cur_col
    <3>4. z.gddram = [y.gddram EXCEPT ![p] = [y.gddram[p] EXCEPT ![k] = b]]
      BY <2>5
    <3>5. s.first + r # p => z.gddram[s.first + r][d] = y.gddram[s.first + r][d]
      BY <3>2, <3>3, <3>4
    <3>6. z.gddram[p] = [y.gddram[p] EXCEPT ![k] = b] /\ DOMAIN y.gddram[p] = 0 .. Cols - 1
      BY <3>2, <3>3, <3>4
    <3>7. z.gddram[p][d] = IF d = k THEN b ELSE y.gddram[p][d]
      BY <3>6
    <3> QED BY <2>4, <3>2, <3>5, <3>7
  <2>9. ASSUME c < Rows - 1
        PROVE  Good(z, n)
    <3>1. z.cur_col = q /\ z.cur_page = s.first + (c + 1) /\ c + 1 \in 0 .. Rows - 1
      <4>1. y.cur_col = q /\ y.cur_page = s.first + c
        BY <2>3
      <4>2. ~(y.cur_page >= y.page_end)
        BY <1>1, <2>6, <2>9, <4>1
      <4>3. z.cur_page = y.cur_page + 1 /\ z.cur_col = y.cur_col
        BY <2>5, <4>2
      <4>4. s.first \in Nat /\ Rows \in Nat
        BY <1>1
      <4>5. c + 1 \in 0 .. Rows - 1
        BY <2>9, <4>4
      <4>6. (s.first + c) + 1 = s.first + (c + 1)
        BY <4>4
      <4>7. z.cur_page = s.first + (c + 1)
        BY <4>1, <4>3, <4>6, Zenon
      <4> QED BY <4>1, <4>3, <4>5, <4>7
    <3>2. Sent(z, q, c + 1)
      <4> SUFFICES ASSUME NEW r \in 0 .. Rows - 1, NEW d \in 0 .. Cols - 1,
                          d < q \/ (d = q /\ r < c + 1)
                   PROVE  z.gddram[s.first + r][d] = D!Cell(f, d * Rows + r)
        BY Zenon DEF Sent
      <4>1. d < q \/ (d = q /\ r < c) \/ (d = q /\ r = c)
        BY <1>1
      <4> QED BY <2>3, <2>8, <4>1 DEF Sent
    <3>3. Reached(z, n, q, c + 1)
      BY <1>1, <2>2, <2>3, <3>1, <3>2 DEF Reached
    <3> QED BY <2>5, <2>7, <3>1, <3>3, Zenon
  <2>10. ASSUME c = Rows - 1
         PROVE  Good(z, n)
    <3>1. z.cur_page = s.first + 0 /\ z.cur_col = (IF q + 1 = Cols THEN 0 ELSE q + 1)
          /\ q + 1 \in 0 .. Cols /\ 0 \in 0 .. Rows - 1
      BY <1>1, <2>2, <2>3, <2>5, <2>6, <2>10
    <3>2. Sent(z, q + 1, 0)
      BY <2>3, <2>8, <2>10 DEF Sent
    <3>3. n = (q + 1) * Rows + 0
      BY <1>1, <2>2, <2>3, <2>10
    <3>4. Reached(z, n, q + 1, 0)
      BY <3>1, <3>2, <3>3, Zenon DEF Reached
    <3> QED BY <2>5, <2>7, <3>1, <3>4, Zenon
  <2>11. Good(z, n)
    BY <1>1, <2>9, <2>10
  <2> QED BY <2>11, Zenon DEF z, b
<1> HIDE DEF N
<1>4. x \in G[N]
  <2> HIDE DEF Good
  <2>1. {o} \subseteq G[0]
    BY <1>1, <1>2
  <2>2. \A n \in 1 .. N : \A y \in G[n - 1] : D!deluge_oled_spi_byte(y, bytes[n]) \in G[n]
    <3>1. TAKE n \in 1 .. N
    <3>2. n - 1 \in 0 .. N /\ n \in 0 .. N
      BY <1>1
    <3>3. TAKE y \in G[n - 1]
    <3>4. Good(y, n - 1)
      BY <3>2
    <3>5. Good(D!deluge_oled_spi_byte(y, bytes[n]), n)
      BY <1>3, <3>4, Zenon
    <3>6. D!deluge_oled_spi_byte(y, bytes[n]) \in PanelState
      BY <3>5, Zenon DEF Good
    <3> QED BY <3>2, <3>5, <3>6
  <2> HIDE DEF G
  <2>3. Len(bytes) = N /\ Len(bytes) \in Nat
    BY <1>1 DEF N
  <2>4. D!deluge_oled_spi_bytes({o}, bytes) \subseteq G[Len(bytes)]
    BY <2>1, <2>2, <2>3, BurstKeeps
  <2> QED BY <2>3, <2>4
<1>5. Good(x, N)
  BY <1>1, <1>4
<1>6. PICK q \in 0 .. Cols, c \in 0 .. Rows - 1 : Reached(x, N, q, c)
  BY <1>5
<1>7. q = Cols /\ c = 0
  <2>1. q * Rows + c = Cols * Rows
    BY <1>1, <1>6
  <2> QED BY <2>1, Finished, Zenon
<1>8. x.cur_col = 0 /\ x.cur_page = s.first /\ Sent(x, Cols, 0)
  BY <1>1, <1>6, <1>7
<1>9. x \in PanelState /\ Kept(o, x)
  BY <1>5
<1>10. ShowsPages(x, s, f, Rows)
  <2> SUFFICES ASSUME NEW r \in 0 .. Rows - 1, NEW d \in 0 .. Cols - 1
               PROVE  x.gddram[s.first + r][d] = D!Cell(f, Spot(s, r, d))
    BY Zenon DEF ShowsPages
  <2>1. d < Cols /\ Spot(s, r, d) = d * Rows + r
    BY <1>1 DEF Spot, D!VERTICAL
  <2>2. x.gddram[s.first + r][d] = D!Cell(f, d * Rows + r)
    <3> HIDE DEF N
    <3> QED BY <1>8, <2>1
  <2> QED BY <2>1, <2>2, Zenon
<1>11. Ready(x, s) /\ x.selected /\ x.dc_high
  BY <1>8, <1>9 DEF Ready, Kept, Fresh
<1> QED BY <1>9, <1>10, <1>11

\* The panel after the burst of one page, in page mode.
PageSent(x, o, s, f, base) ==
  /\ x \in PanelState /\ Ready(x, s) /\ x.selected /\ x.dc_high
  /\ \A p \in 0 .. Pages - 1, d \in 0 .. Cols - 1 :
       x.gddram[p][d] = IF p = o.cur_page THEN D!Cell(f, base + d) ELSE o.gddram[p][d]

LEMMA OnePage ==
  ASSUME NEW s \in Styles, s.mode = D!PAGE, NEW f \in Int, NEW base \in Nat,
         NEW o \in PanelState, Ready(o, s), o.selected, o.dc_high, o.cur_page \in 0 .. Pages - 1,
         NEW bytes, Len(bytes) = Cols,
         \A n \in 1 .. Cols : bytes[n] = D!Cell(f, base + n - 1),
         NEW x \in D!deluge_oled_spi_bytes({o}, bytes)
  PROVE  PageSent(x, o, s, f, base)
<1> DEFINE Good(y, n) ==
             /\ y \in PanelState /\ Kept(o, y)
             /\ y.cur_page = o.cur_page /\ y.cur_col = IF n = Cols THEN 0 ELSE n
             /\ \A p \in 0 .. Pages - 1, d \in 0 .. Cols - 1 :
                  y.gddram[p][d] =
                    IF p = o.cur_page /\ d < n THEN D!Cell(f, base + d) ELSE o.gddram[p][d]
           G == [n \in 0 .. Cols |-> {y \in PanelState : Good(y, n)}]
<1>1. Cols \in Nat \ {0} /\ Pages \in Nat \ {0}
  BY Sizes
<1>2. Good(o, 0)
  BY <1>1 DEF Kept, Ready
<1>3. ASSUME NEW n \in 1 .. Cols, NEW y, Good(y, n - 1)
      PROVE  Good(D!deluge_oled_spi_byte(y, bytes[n]), n)
  <2> DEFINE b == bytes[n]  z == D!deluge_oled_spi_byte(y, b)
  <2>1. b = D!Cell(f, base + (n - 1)) /\ b \in Content
    <3>1. b = D!Cell(f, base + n - 1) /\ base + n - 1 = base + (n - 1)
      BY <1>1
    <3>2. D!Cell(f, base + (n - 1)) \in Content
      BY <1>1 DEF D!Cell, Content
    <3> QED BY <3>1, <3>2
  <2>2. /\ y \in PanelState /\ Kept(o, y) /\ y.cur_page = o.cur_page
        /\ y.cur_col = n - 1 /\ n - 1 \in 0 .. Cols - 1
    BY <1>1, <1>3
  <2>3. \A p \in 0 .. Pages - 1, d \in 0 .. Cols - 1 :
          y.gddram[p][d] =
            IF p = o.cur_page /\ d < n - 1 THEN D!Cell(f, base + d) ELSE o.gddram[p][d]
    BY <1>3
  <2>4. y.selected /\ y.dc_high /\ y.addr_mode = D!PAGE /\ y.col_start = 0 /\ y.col_end = Cols - 1
    BY <2>2 DEF Kept, Ready
  <2> HIDE DEF b, z, G
  <2>5. /\ z \in PanelState /\ Kept(y, z)
        /\ z.gddram = [y.gddram EXCEPT ![y.cur_page][y.cur_col] = b]
        /\ z.cur_col = IF y.cur_col >= y.col_end THEN y.col_start ELSE y.cur_col + 1
        /\ z.cur_page = y.cur_page
    <3>1. y.cur_page \in 0 .. Pages - 1 /\ y.cur_col \in 0 .. Cols - 1
      BY <2>2
    <3>2. D!PAGE # D!VERTICAL
      BY DEF D!PAGE, D!VERTICAL
    <3>3. ByteSent(z, y, b)
      BY <2>1, <2>2, <2>4, <3>1, DataByte, Zenon DEF z
    <3> QED BY <2>4, <3>2, <3>3 DEF ByteSent
  <2>6. z.cur_col = IF n = Cols THEN 0 ELSE n
    BY <1>1, <2>2, <2>4, <2>5
  <2>7. ASSUME NEW p \in 0 .. Pages - 1, NEW d \in 0 .. Cols - 1
        PROVE  z.gddram[p][d] =
                 IF p = o.cur_page /\ d < n THEN D!Cell(f, base + d) ELSE o.gddram[p][d]
    <3> DEFINE q == y.cur_page  k == y.cur_col
    <3>1. y.gddram \in [0 .. Pages - 1 -> [0 .. Cols - 1 -> Content]] /\ q \in 0 .. Pages - 1
      BY <2>2 DEF PanelState
    <3>2. z.gddram = [y.gddram EXCEPT ![q] = [y.gddram[q] EXCEPT ![k] = b]]
      BY <2>5
    <3>3. p # q => z.gddram[p][d] = y.gddram[p][d]
      BY <3>1, <3>2
    <3>4. z.gddram[q] = [y.gddram[q] EXCEPT ![k] = b] /\ DOMAIN y.gddram[q] = 0 .. Cols - 1
      BY <3>1, <3>2
    <3>5. z.gddram[q][d] = IF d = k THEN b ELSE y.gddram[q][d]
      BY <3>4
    <3>6. d < n <=> (d < n - 1 \/ d = n - 1)
      BY <1>1
    <3> QED BY <2>1, <2>2, <2>3, <3>3, <3>5, <3>6
  <2>8. Kept(o, z)
    BY <2>2, <2>5 DEF Kept
  <2>9. Good(z, n)
    BY <2>2, <2>5, <2>6, <2>7, <2>8
  <2> QED BY <2>9, Zenon DEF z, b
<1>4. x \in G[Cols]
  <2> HIDE DEF Good
  <2>1. {o} \subseteq G[0]
    BY <1>1, <1>2
  <2>2. \A n \in 1 .. Cols : \A y \in G[n - 1] : D!deluge_oled_spi_byte(y, bytes[n]) \in G[n]
    <3>1. TAKE n \in 1 .. Cols
    <3>2. n - 1 \in 0 .. Cols /\ n \in 0 .. Cols
      BY <1>1
    <3>3. TAKE y \in G[n - 1]
    <3>4. Good(y, n - 1)
      BY <3>2
    <3>5. Good(D!deluge_oled_spi_byte(y, bytes[n]), n)
      BY <1>3, <3>4, Zenon
    <3>6. D!deluge_oled_spi_byte(y, bytes[n]) \in PanelState
      BY <3>5, Zenon DEF Good
    <3> QED BY <3>2, <3>5, <3>6
  <2> HIDE DEF G
  <2>3. Len(bytes) = Cols /\ Len(bytes) \in Nat
    BY <1>1
  <2>4. D!deluge_oled_spi_bytes({o}, bytes) \subseteq G[Len(bytes)]
    BY <2>1, <2>2, <2>3, BurstKeeps
  <2> QED BY <2>3, <2>4
<1>5. Good(x, Cols)
  BY <1>1, <1>4
<1>6. x \in PanelState /\ Kept(o, x) /\ x.cur_col = 0
  BY <1>1, <1>5
<1>7. \A p \in 0 .. Pages - 1, d \in 0 .. Cols - 1 :
        x.gddram[p][d] = IF p = o.cur_page THEN D!Cell(f, base + d) ELSE o.gddram[p][d]
  BY <1>1, <1>5
<1>8. Ready(x, s) /\ x.selected /\ x.dc_high
  BY <1>6 DEF Ready, Kept, Fresh
<1> QED BY <1>6, <1>7, <1>8 DEF PageSent

-----------------------------------------------------------------------------
(* The set-up.  Its four commands come in any order; each byte of one of   *)
(* them leaves alone what the others have set.                             *)

\* P is part p of the set-up in style s.
PartIs(P, s, p) ==
  /\ p = 1 => P = <<32, s.mode>>
  /\ p = 2 => P = <<33, 0, Cols - 1>>
  /\ p = 3 => P = <<34, s.first, s.first + Rows - 1>>
  /\ p = 4 => P = <<129, s.contrast>>
  /\ Len(P) = IF p \in {2, 3} THEN 3 ELSE 2
  /\ P[1] = IF p = 4 THEN 129 ELSE 31 + p
  /\ P \in Seq(Int) /\ P # <<>>

LEMMA PartShape ==
  ASSUME NEW s \in Styles, NEW p \in 1 .. 4
  PROVE  PartIs(D!Part(s, p), s, p)
<1>1. s.mode \in Int /\ s.first \in Int /\ s.contrast \in Int /\ Cols \in Int /\ Rows \in Int
  BY Sizes, StyleFacts
<1>2. CASE p = 1
  BY <1>1, <1>2 DEF D!Part, PartIs
<1>3. CASE p = 2
  BY <1>1, <1>3 DEF D!Part, PartIs
<1>4. CASE p = 3
  BY <1>1, <1>4 DEF D!Part, PartIs
<1>5. CASE p = 4
  BY <1>1, <1>5 DEF D!Part, PartIs
<1> QED BY <1>2, <1>3, <1>4, <1>5

SameColumns(o, x) ==
  x.col_start = o.col_start /\ x.col_end = o.col_end /\ x.cur_col = o.cur_col
SamePages(o, x) ==
  x.page_start = o.page_start /\ x.page_end = o.page_end /\ x.cur_page = o.cur_page
Others(o, x) == x.enabled = o.enabled /\ x.dc_high = o.dc_high /\ x.selected = o.selected

\* Updates of several registers at once.
WithColumns(o, a, b, c) == [o EXCEPT !.col_start = a, !.col_end = b, !.cur_col = c]
WithCommand(o, a, b) == [o EXCEPT !.cmd = a, !.need = b, !.args = <<>>]
WithArguments(o, a, b) == [o EXCEPT !.need = a, !.args = b]

LEMMA SetColumns ==
  ASSUME NEW o \in PanelState, NEW a \in Int, NEW b \in Int, NEW c \in Int
  PROVE  LET x == WithColumns(o, a, b, c)
         IN  /\ x \in PanelState /\ x.col_start = a /\ x.col_end = b /\ x.cur_col = c
             /\ x.addr_mode = o.addr_mode
  BY DEF PanelState, WithColumns

LEMMA SetCommand ==
  ASSUME NEW o \in PanelState, NEW a \in Int, NEW b \in Int
  PROVE  LET x == WithCommand(o, a, b)
         IN  x \in PanelState /\ x.cmd = a /\ x.need = b /\ x.args = <<>>
<1>1. <<>> \in Seq(Int)
  OBVIOUS
<1> QED BY <1>1 DEF PanelState, WithCommand

LEMMA SetArguments ==
  ASSUME NEW o \in PanelState, NEW a \in Int, NEW b \in Seq(Int)
  PROVE  LET x == WithArguments(o, a, b)
         IN  x \in PanelState /\ x.need = a /\ x.args = b
  BY DEF PanelState, WithArguments

LEMMA SetNoCommand ==
  ASSUME NEW o \in PanelState
  PROVE  LET x == WithArguments(o, 0, <<>>)
         IN  x \in PanelState /\ x.need = 0 /\ x.args = <<>>
<1>1. <<>> \in Seq(Int) /\ 0 \in Int
  OBVIOUS
<1>2. \A a \in Int, b \in Seq(Int) :
        /\ WithArguments(o, a, b) \in PanelState
        /\ WithArguments(o, a, b).need = a /\ WithArguments(o, a, b).args = b
  BY SetArguments
<1> QED BY <1>1, <1>2, Zenon

LEMMA TwoArguments ==
  ASSUME NEW a \in Int, NEW b \in Int
  PROVE  /\ Append(<<a>>, b) = <<a, b>> /\ Len(<<a, b>>) = 2
         /\ <<>> \in Seq(Int)
<1> DEFINE s == Append(<<a>>, b)  t == <<a, b>>
<1>1. s \in Seq(Int) /\ Len(s) = 2 /\ s[1] = a /\ s[2] = b
  OBVIOUS
<1>2. t \in Seq(Int) /\ Len(t) = 2 /\ t[1] = a /\ t[2] = b
  OBVIOUS
<1>3. <<>> \in Seq(Int)
  OBVIOUS
<1> HIDE DEF s, t
<1>4. \A i \in 1 .. Len(s) : s[i] = t[i]
  BY <1>1, <1>2
<1>5. s = t
  BY <1>1, <1>2, <1>4, SeqEqual
<1> QED BY <1>2, <1>3, <1>5 DEF s, t

\* What a part of the set-up has set stays where its registers do.
LEMMA PartsKept ==
  ASSUME NEW s, NEW o, NEW x
  PROVE  /\ x.addr_mode = o.addr_mode => (PartDone(o, s, 1) => PartDone(x, s, 1))
         /\ SameColumns(o, x) => (PartDone(o, s, 2) => PartDone(x, s, 2))
         /\ SamePages(o, x) => (PartDone(o, s, 3) => PartDone(x, s, 3))
         /\ PartDone(x, s, 4)
  BY DEF PartDone, SameColumns, SamePages

LEMMA ArgumentsOf ==
  /\ D!Arguments(32) = 1 /\ D!Arguments(33) = 2 /\ D!Arguments(34) = 2
  /\ D!Arguments(129) = 1 /\ D!Arguments(175) = 0
  BY DEF D!Arguments

\* A complete command does its part and undoes no other.
LEMMA RunPart ==
  ASSUME NEW s \in Styles, NEW p \in 1 .. 4, NEW o \in PanelState,
         o.cmd = D!Part(s, p)[1], NEW args,
         p \in {1, 4} => args = <<D!Part(s, p)[2]>>,
         p \in {2, 3} => args = <<D!Part(s, p)[2], D!Part(s, p)[3]>>
  PROVE  LET x == D!deluge_oled_run_command(o, args)
         IN  /\ x \in PanelState /\ PartDone(x, s, p) /\ Others(o, x)
             /\ \A q \in 1 .. 4 : PartDone(o, s, q) => PartDone(x, s, q)
<1> DEFINE x == D!deluge_oled_run_command(o, args)
<1>0. PartIs(D!Part(s, p), s, p)
  BY PartShape
<1>1. CASE p = 1
  <2>1. s.mode % 4 = s.mode /\ s.mode \in Int
    BY StyleFacts
  <2>2. o.cmd = 32 /\ args[1] = s.mode
    BY <1>0, <1>1 DEF PartIs
  <2>3. x = [o EXCEPT !.addr_mode = s.mode]
    BY <2>1, <2>2 DEF D!deluge_oled_run_command
  <2> HIDE DEF x
  <2>4. x \in PanelState /\ x.addr_mode = s.mode /\ Others(o, x)
        /\ SameColumns(o, x) /\ SamePages(o, x)
    BY <2>1, <2>3 DEF PanelState, Others, SameColumns, SamePages
  <2> QED BY <1>1, <2>4, PartsKept DEF PartDone, Others, x
<1>2. CASE p = 2
  <2>1. Cols \in Nat \ {0} /\ 0 % Cols = 0 /\ (Cols - 1) % Cols = Cols - 1
    BY Sizes
  <2>2. o.cmd = 33 /\ args[1] = 0 /\ args[2] = Cols - 1
    <3>1. D!Part(s, p) = <<33, 0, Cols - 1>> /\ args = <<D!Part(s, p)[2], D!Part(s, p)[3]>>
      BY <1>0, <1>2 DEF PartIs
    <3> QED BY <3>1
  <2>3. x = [o EXCEPT !.col_start = 0, !.col_end = Cols - 1, !.cur_col = 0]
    <3>1. o.cmd # 32 /\ args[1] % Cols = 0 /\ args[2] % Cols = Cols - 1
      BY <2>1, <2>2
    <3> QED BY <2>2, <3>1, ZenonT(30) DEF D!deluge_oled_run_command
  <2> HIDE DEF x
  <2>4. /\ x \in PanelState /\ x.col_start = 0 /\ x.col_end = Cols - 1 /\ x.cur_col = 0
        /\ x.addr_mode = o.addr_mode /\ Others(o, x) /\ SamePages(o, x)
    <3>1. /\ x \in PanelState /\ x.col_start = 0 /\ x.col_end = Cols - 1 /\ x.cur_col = 0
          /\ x.addr_mode = o.addr_mode
      <4>1. Cols - 1 \in Int /\ 0 \in Int
        BY <2>1
      <4>2. x = WithColumns(o, 0, Cols - 1, 0)
        BY <2>3, Zenon DEF WithColumns
      <4> QED BY <4>1, <4>2, SetColumns
    <3>2. SamePages(o, x)
      BY <2>3 DEF PanelState, SamePages
    <3>3. Others(o, x)
      BY <2>3 DEF PanelState, Others
    <3> QED BY <3>1, <3>2, <3>3
  <2> QED BY <1>2, <2>4, PartsKept DEF PartDone, Others, x
<1>3. CASE p = 3
  <2>1. /\ s.first \in 0 .. Pages - 1 /\ s.first + Rows - 1 \in 0 .. Pages - 1
        /\ Pages \in Nat \ {0}
    BY Sizes, StyleFacts
  <2>2. s.first % Pages = s.first /\ (s.first + Rows - 1) % Pages = s.first + Rows - 1
    BY <2>1
  <2>3. o.cmd = 34 /\ args[1] = s.first /\ args[2] = s.first + Rows - 1
    <3>1. /\ D!Part(s, p) = <<34, s.first, s.first + Rows - 1>>
          /\ args = <<D!Part(s, p)[2], D!Part(s, p)[3]>>
      BY <1>0, <1>3 DEF PartIs
    <3> QED BY <3>1
  <2>4. x = [o EXCEPT !.page_start = s.first, !.page_end = s.first + Rows - 1,
                      !.cur_page = s.first]
    <3>1. o.cmd # 32 /\ o.cmd # 33 /\ args[1] % Pages = s.first
          /\ args[2] % Pages = s.first + Rows - 1
      BY <2>2, <2>3
    <3> QED BY <2>3, <3>1, ZenonT(30) DEF D!deluge_oled_run_command
  <2> HIDE DEF x
  <2>5. /\ x \in PanelState /\ x.page_start = s.first /\ x.page_end = s.first + Rows - 1
        /\ x.cur_page = s.first
        /\ x.addr_mode = o.addr_mode /\ Others(o, x) /\ SameColumns(o, x)
    <3>1. /\ x \in PanelState /\ x.page_start = s.first /\ x.page_end = s.first + Rows - 1
          /\ x.cur_page = s.first /\ x.addr_mode = o.addr_mode
      <4>1. s.first \in Int /\ s.first + Rows - 1 \in Int
        BY <2>1
      <4> QED BY <2>4, <4>1 DEF PanelState
    <3>2. SameColumns(o, x)
      BY <2>4 DEF PanelState, SameColumns
    <3>3. Others(o, x)
      BY <2>4 DEF PanelState, Others
    <3> QED BY <3>1, <3>2, <3>3
  <2> QED BY <1>3, <2>5, PartsKept DEF PartDone, Others, x
<1>4. CASE p = 4
  <2>1. o.cmd = 129
    BY <1>0, <1>4 DEF PartIs
  <2>2. x = o
    BY <2>1 DEF D!deluge_oled_run_command
  <2> QED BY <1>4, <2>2 DEF PartDone, Others
<1> QED BY <1>1, <1>2, <1>3, <1>4

\* The next byte of the i-th command.
LEMMA CommandByte ==
  ASSUME NEW s \in Styles, NEW i \in 1 .. 4, NEW j \in 0 .. 2, j < Size(s, i),
         NEW o \in PanelState, Listening(o), AtCommand(o, s, i, j)
  PROVE  LET x == D!deluge_oled_spi_byte(o, Nth(s, i)[j + 1])
         IN  /\ x \in PanelState /\ Listening(x)
             /\ j + 1 < Size(s, i) => AtCommand(x, s, i, j + 1)
             /\ j + 1 = Size(s, i) =>
                  Fresh(x) /\ \A q \in 1 .. i : PartDone(x, s, s.order[q])
<1> DEFINE p == s.order[i]
           P == D!Part(s, p)
           b == P[j + 1]
           x == D!deluge_oled_spi_byte(o, b)
           Done(y) == \A q \in 1 .. i - 1 : PartDone(y, s, s.order[q])
<1>1. p \in 1 .. 4 /\ \A q \in 1 .. 4 : s.order[q] \in 1 .. 4
  BY StyleFacts
<1>2. Nth(s, i) = P /\ Size(s, i) = Len(P)
  BY Zenon DEF Nth, Size
<1>3. x = D!deluge_oled_write_command(o, b)
  BY DEF Listening, D!deluge_oled_spi_byte
<1>4. Done(o)
  BY DEF AtCommand
<1>5. /\ Len(P) = IF p \in {2, 3} THEN 3 ELSE 2
      /\ P[1] = IF p = 4 THEN 129 ELSE 31 + p
      /\ P \in Seq(Int)
  <2>1. PartIs(P, s, p)
    BY <1>1, PartShape, Zenon
  <2> HIDE DEF P
  <2> QED BY <2>1, Zenon DEF PartIs
<1> HIDE DEF P, x
<1>6. ASSUME j = 0
      PROVE  x \in PanelState /\ Listening(x) /\ AtCommand(x, s, i, 1)
  <2>1. o.need = 0 /\ b = P[1] /\ b \in {32, 33, 34, 129}
    BY <1>1, <1>5, <1>6 DEF AtCommand, Fresh
  <2>2. D!Arguments(b) = Len(P) - 1 /\ D!Arguments(b) \in {1, 2}
    <3>1. p = 4 => b = 129 /\ Len(P) = 2
      BY <1>5, <2>1
    <3>2. p = 1 => b = 32 /\ Len(P) = 2
      BY <1>5, <2>1
    <3>3. p \in {2, 3} => b \in {33, 34} /\ Len(P) = 3
      BY <1>5, <2>1
    <3>4. p = 1 \/ p \in {2, 3} \/ p = 4
      BY <1>1
    <3> HIDE DEF b
    <3>5. \/ D!Arguments(b) = 1 /\ Len(P) = 2
          \/ D!Arguments(b) = 2 /\ Len(P) = 3
      <4>1. D!Arguments(b) = 1 \/ b \notin {32, 129}
        BY ArgumentsOf
      <4>2. D!Arguments(b) = 2 \/ b \notin {33, 34}
        BY ArgumentsOf
      <4> QED BY <3>1, <3>2, <3>3, <3>4, <4>1, <4>2, Zenon
    <3>6. 2 - 1 = 1 /\ 3 - 1 = 2 /\ 1 \in {1, 2} /\ 2 \in {1, 2}
      OBVIOUS
    <3> QED BY <3>5, <3>6, Zenon
  <2>3. x = [o EXCEPT !.cmd = b, !.need = Len(P) - 1, !.args = <<>>]
    <3> HIDE DEF b
    <3>1. ~(b <= 15) /\ b \notin 16 .. 31 /\ b \notin 176 .. 183
      <4>1. b \in {32, 33, 34, 129}
        BY <2>1
      <4> QED BY <4>1
    <3>2. ~(o.need > 0) /\ D!Arguments(b) > 0
      <4>1. o.need = 0 /\ D!Arguments(b) \in {1, 2}
        BY <2>1, <2>2
      <4> QED BY <4>1
    <3> QED BY <1>3, <2>2, <3>1, <3>2, ZenonT(30) DEF D!deluge_oled_write_command
  <2>4. /\ x \in PanelState /\ x.cmd = P[1] /\ x.need = Len(P) - 1 /\ x.args = <<>>
        /\ Others(o, x)
    <3>1. b \in Int /\ Len(P) - 1 \in Int /\ b = P[1]
      BY <2>1, <2>2
    <3> HIDE DEF b
    <3>2. x \in PanelState /\ x.cmd = b /\ x.need = Len(P) - 1 /\ x.args = <<>>
      <4>1. x = WithCommand(o, b, Len(P) - 1)
        BY <2>3, Zenon DEF WithCommand
      <4> QED BY <3>1, <4>1, SetCommand
    <3>3. Others(o, x)
      BY <2>3 DEF PanelState, Others
    <3> QED BY <3>1, <3>2, <3>3
  <2>5. Done(x)
    BY <1>4, <2>3 DEF PanelState, PartDone
  <2> QED BY <1>2, <2>4, <2>5 DEF AtCommand, Listening, Others
<1>7. ASSUME j # 0, j + 1 < Len(P)
      PROVE  x \in PanelState /\ Listening(x) /\ AtCommand(x, s, i, j + 1)
  <2>1. j = 1 /\ Len(P) = 3 /\ b = P[2] /\ b \in Int
    BY <1>5, <1>7
  <2>2. o.need = 2 /\ o.args = <<>> /\ o.cmd = P[1]
    BY <1>2, <2>1 DEF AtCommand
  <2>3. x = [o EXCEPT !.args = <<b>>]
    <3>1. Append(o.args, b) = <<b>> /\ Len(<<b>>) = 1
      BY <2>2
    <3> QED BY <1>3, <2>2, <3>1 DEF D!deluge_oled_write_command
  <2>4. x \in PanelState /\ x.cmd = P[1] /\ x.need = 2 /\ x.args = <<P[2]>> /\ Others(o, x)
    <3>1. P[2] \in Int /\ x = [o EXCEPT !.args = <<P[2]>>]
      BY <2>1, <2>3
    <3>2. x \in PanelState /\ x.args = <<P[2]>> /\ x.cmd = o.cmd /\ x.need = o.need
      <4>1. <<P[2]>> \in Seq(Int)
        BY <3>1
      <4> QED BY <3>1, <4>1 DEF PanelState
    <3>3. Others(o, x)
      BY <3>1 DEF PanelState, Others
    <3> QED BY <2>2, <3>2, <3>3
  <2>5. Done(x)
    BY <1>4, <2>3 DEF PanelState, PartDone
  <2> QED BY <1>2, <2>1, <2>4, <2>5 DEF AtCommand, Listening, Others
<1>8. ASSUME j # 0, j + 1 = Len(P)
      PROVE  /\ x \in PanelState /\ Listening(x) /\ Fresh(x)
             /\ \A q \in 1 .. i : PartDone(x, s, s.order[q])
  <2> DEFINE args == Append(o.args, b)
             y == D!deluge_oled_run_command(o, args)
  <2>1. o.need = Len(P) - 1 /\ o.cmd = P[1] /\ b \in Int
        /\ o.args = IF j = 1 THEN <<>> ELSE <<P[2]>>
    BY <1>2, <1>5, <1>8 DEF AtCommand
  <2>2. /\ p \in {1, 4} => args = <<P[2]>>
        /\ p \in {2, 3} => args = <<P[2], P[3]>>
        /\ Len(args) = o.need
    <3>1. CASE p \in {1, 4}
      <4>1. j = 1 /\ Len(P) = 2
        BY <1>5, <1>8, <3>1
      <4> QED BY <2>1, <3>1, <4>1
    <3>2. CASE p \in {2, 3}
      <4>1. j = 2 /\ Len(P) = 3
        BY <1>5, <1>8, <3>2
      <4>2. o.args = <<P[2]>> /\ b = P[3] /\ o.need = 2
        BY <2>1, <4>1
      <4>3. args = Append(<<P[2]>>, P[3])
        BY <4>2 DEF args
      <4>4. args = <<P[2], P[3]>> /\ Len(args) = 2
        <5> HIDE DEF args, P
        <5>1. P[2] \in Int /\ P[3] \in Int
          <6>1. P \in Seq(Int) /\ Len(P) = 3
            BY <1>5, <4>1
          <6>2. 2 \in 1 .. Len(P) /\ 3 \in 1 .. Len(P)
            BY <6>1
          <6> QED BY <6>1, <6>2, ElementOfSeq, Zenon
        <5> QED BY <4>3, <5>1, TwoArguments, Zenon
      <4> QED BY <1>1, <3>2, <4>2, <4>4
    <3> QED BY <1>1, <3>1, <3>2
  <2> HIDE DEF args, y
  <2>3. x = [y EXCEPT !.need = 0, !.args = <<>>]
    <3>1. o.need > 0 /\ ~(Len(args) < o.need)
      BY <1>5, <2>1, <2>2
    <3> QED BY <1>3, <3>1 DEF D!deluge_oled_write_command, args, y
  <2>4. /\ y \in PanelState /\ PartDone(y, s, p) /\ Others(o, y)
        /\ \A q \in 1 .. 4 : PartDone(o, s, q) => PartDone(y, s, q)
    BY <1>1, <2>1, <2>2, RunPart DEF y, P
  <2>5. \A q \in 1 .. 4 : PartDone(y, s, q) => PartDone(x, s, q)
    BY <2>3, <2>4 DEF PanelState, PartDone
  <2>6. x \in PanelState /\ Listening(x) /\ Fresh(x)
    <3>1. x \in PanelState /\ Others(y, x) /\ x.need = 0 /\ x.args = <<>>
      <4>1. x \in PanelState /\ x.need = 0 /\ x.args = <<>>
        <5>1. x = WithArguments(y, 0, <<>>)
          BY <2>3, Zenon DEF WithArguments
        <5> QED BY <2>4, <5>1, SetNoCommand
      <4>2. Others(y, x)
        BY <2>3, <2>4 DEF PanelState, Others
      <4> QED BY <4>1, <4>2
    <3> QED BY <2>4, <3>1 DEF Listening, Fresh, Others
  <2>7. \A q \in 1 .. i : PartDone(x, s, s.order[q])
    BY <1>1, <1>4, <2>4, <2>5
  <2> QED BY <2>6, <2>7
<1> QED BY <1>2, <1>5, <1>6, <1>7, <1>8 DEF x

\* 175: the display is on.
LEMMA DisplayOn ==
  ASSUME NEW s \in Styles, NEW o \in PanelState, Listening(o), Fresh(o), AllDone(o, s)
  PROVE  LET x == D!deluge_oled_spi_byte(o, 175)
         IN  x \in PanelState /\ Listening(x) /\ Ready(x, s)
<1> DEFINE x == D!deluge_oled_spi_byte(o, 175)
<1>1. D!Arguments(175) = 0
  BY DEF D!Arguments
<1>2. x = [o EXCEPT !.display_on = TRUE]
  <2>1. x = D!deluge_oled_write_command(o, 175)
    BY DEF Listening, D!deluge_oled_spi_byte
  <2>2. /\ ~(o.need > 0) /\ ~(175 <= 15) /\ 175 \notin 16 .. 31 /\ 175 \notin 176 .. 183
        /\ ~(D!Arguments(175) > 0) /\ 175 \in {174, 175}
    BY <1>1 DEF Fresh
  <2>3. x = [o EXCEPT !.display_on = (175 = 175)]
    BY <2>1, <2>2, ZenonT(30) DEF D!deluge_oled_write_command
  <2> QED BY <2>3
<1>3. PartDone(o, s, 1) /\ PartDone(o, s, 2) /\ PartDone(o, s, 3)
  BY DEF AllDone
<1> HIDE DEF x
<1>4. /\ x \in PanelState /\ x.display_on /\ Others(o, x) /\ SameColumns(o, x)
      /\ SamePages(o, x) /\ x.addr_mode = o.addr_mode /\ x.need = o.need /\ x.args = o.args
  BY <1>2 DEF PanelState, Others, SameColumns, SamePages
<1>5. /\ o.addr_mode = s.mode /\ o.col_start = 0 /\ o.col_end = Cols - 1 /\ o.cur_col = 0
      /\ o.page_start = s.first /\ o.page_end = s.first + Rows - 1 /\ o.cur_page = s.first
  BY <1>3 DEF PartDone
<1>6. Listening(x) /\ Ready(x, s)
  BY <1>4, <1>5 DEF Listening, Fresh, Ready, Others, SameColumns, SamePages
<1> QED BY <1>4, <1>6 DEF x

-----------------------------------------------------------------------------
(* The lists of accesses.                                                  *)

Argument == Int \cup Seq(Int \X Int)
Ops == {"enable", "low", "high", "select", "deselect", "spi", "dma", "arm", "word"}
Accesses == [op : Ops, arg : Argument]

LEMMA Concatenated ==
  ASSUME NEW S, NEW s \in Seq(S), NEW t \in Seq(S)
  PROVE  /\ s \o t \in Seq(S) /\ Len(s \o t) = Len(s) + Len(t)
         /\ \A i \in 1 .. Len(s) : (s \o t)[i] = s[i]
         /\ \A i \in 1 .. Len(t) : (s \o t)[Len(s) + i] = t[i]
<1>1. /\ s \o t \in Seq(S) /\ Len(s \o t) = Len(s) + Len(t)
      /\ \A i \in 1 .. Len(s) + Len(t) :
           (s \o t)[i] = IF i <= Len(s) THEN s[i] ELSE t[i - Len(s)]
  BY ConcatProperties
<1>2. Len(s) \in Nat /\ Len(t) \in Nat
  OBVIOUS
<1>3. ASSUME NEW i \in 1 .. Len(t)
      PROVE  (s \o t)[Len(s) + i] = t[i]
  <2>1. Len(s) + i \in 1 .. Len(s) + Len(t) /\ ~(Len(s) + i <= Len(s)) /\ Len(s) + i - Len(s) = i
    BY <1>2
  <2> QED BY <1>1, <2>1
<1> QED BY <1>1, <1>2, <1>3

LEMMA LeftStep ==
  ASSUME NEW S, NEW L \in Seq(S), NEW k \in 0 .. Len(L)
  PROVE  /\ Left(L, 0) = L
         /\ Left(L, k) = <<>> <=> k = Len(L)
         /\ k < Len(L) =>
              Head(Left(L, k)) = L[k + 1] /\ Tail(Left(L, k)) = Left(L, k + 1)
<1>1. Len(L) \in Nat
  OBVIOUS
<1>2. Left(L, 0) = L
  BY SubSeqFull DEF Left
<1>3. ASSUME k < Len(L)
      PROVE  /\ Head(Left(L, k)) = L[k + 1] /\ Tail(Left(L, k)) = Left(L, k + 1)
             /\ Left(L, k) # <<>>
  <2>1. k + 1 \in 1 .. Len(L) /\ Len(L) \in k + 1 .. Len(L) /\ k + 1 + 1 = (k + 1) + 1
    BY <1>1, <1>3
  <2>2. /\ Head(SubSeq(L, k + 1, Len(L))) = L[k + 1]
        /\ Tail(SubSeq(L, k + 1, Len(L))) = SubSeq(L, k + 1 + 1, Len(L))
    BY <2>1, HeadTailOfSubSeq
  <2>3. Len(SubSeq(L, k + 1, Len(L))) # 0
    <3>1. \A i \in k + 1 .. Len(L) : L[i] \in S
      BY <1>1
    <3>2. Len(SubSeq(L, k + 1, Len(L))) = Len(L) - (k + 1) + 1
      BY <1>1, <2>1, <3>1, SubSeqProperties
    <3> QED BY <1>1, <1>3, <3>2
  <2>4. SubSeq(L, k + 1, Len(L)) # <<>>
    <3>1. Len(<<>>) = 0
      OBVIOUS
    <3> QED BY <2>3, <3>1, Zenon
  <2> QED BY <2>2, <2>4 DEF Left
<1>4. k = Len(L) => Left(L, k) = <<>>
  BY <1>1, SubSeqEmpty DEF Left
<1> QED BY <1>1, <1>2, <1>3, <1>4

LEMMA AccessType ==
  ASSUME NEW op \in Ops, NEW arg \in Argument
  PROVE  /\ D!Access(op, arg) \in Accesses
         /\ D!Access(op, arg).op = op /\ D!Access(op, arg).arg = arg
  BY DEF D!Access, Accesses

LEMMA SpiShape ==
  ASSUME NEW bytes \in Seq(Int)
  PROVE  /\ D!Spi(bytes) \in Seq(Accesses) /\ Len(D!Spi(bytes)) = Len(bytes)
         /\ \A i \in 1 .. Len(bytes) : D!Spi(bytes)[i] = D!Access("spi", bytes[i])
<1>1. Len(bytes) \in Nat /\ \A i \in 1 .. Len(bytes) : bytes[i] \in Int
  OBVIOUS
<1>2. \A i \in 1 .. Len(bytes) : D!Access("spi", bytes[i]) \in Accesses
  <2> TAKE i \in 1 .. Len(bytes)
  <2>1. bytes[i] \in Argument
    BY <1>1 DEF Argument
  <2>2. "spi" \in Ops
    BY DEF Ops
  <2> QED BY <2>1, <2>2, AccessType, Zenon
<1>3. D!Spi(bytes) = [i \in 1 .. Len(bytes) |-> D!Access("spi", bytes[i])]
  BY Zenon DEF D!Spi
<1> QED BY <1>1, <1>2, <1>3

LEMMA OpShape ==
  ASSUME NEW op \in Ops
  PROVE  /\ D!Op(op) \in Seq(Accesses) /\ Len(D!Op(op)) = 1
         /\ D!Op(op)[1] = D!Access(op, 0)
<1> DEFINE a == D!Access(op, 0)
<1>1. a \in Accesses
  <2>1. 0 \in Argument
    BY DEF Argument
  <2> QED BY <2>1, AccessType
<1>2. D!Op(op) = <<a>>
  BY DEF D!Op
<1> HIDE DEF a
<1>3. <<a>> \in Seq(Accesses) /\ Len(<<a>>) = 1 /\ <<a>>[1] = a
  BY <1>1
<1> QED BY <1>2, <1>3, Zenon DEF a

\* List c is lists p, q, r and s one after another.
Four(c, p, q, r, s) ==
  /\ c \in Seq(Int) /\ Len(c) = Len(p) + Len(q) + Len(r) + Len(s)
  /\ \A j \in 1 .. Len(p) : c[0 + j] = p[j]
  /\ \A j \in 1 .. Len(q) : c[Len(p) + j] = q[j]
  /\ \A j \in 1 .. Len(r) : c[Len(p) + Len(q) + j] = r[j]
  /\ \A j \in 1 .. Len(s) : c[Len(p) + Len(q) + Len(r) + j] = s[j]

LEMMA FourJoined ==
  ASSUME NEW p \in Seq(Int), NEW q \in Seq(Int), NEW r \in Seq(Int), NEW s \in Seq(Int)
  PROVE  Four(p \o q \o r \o s, p, q, r, s)
<1> DEFINE m == Len(p)  n == Len(q)  k == Len(r)  l == Len(s)
           a == p \o q  b == a \o r  c == b \o s
<1>1. m \in Nat /\ n \in Nat /\ k \in Nat /\ l \in Nat
  OBVIOUS
<1>2. /\ a \in Seq(Int) /\ Len(a) = m + n
      /\ \A j \in 1 .. m : a[j] = p[j]
      /\ \A j \in 1 .. n : a[m + j] = q[j]
  BY Concatenated
<1> HIDE DEF a
<1>3. /\ b \in Seq(Int) /\ Len(b) = m + n + k
      /\ \A j \in 1 .. m + n : b[j] = a[j]
      /\ \A j \in 1 .. k : b[m + n + j] = r[j]
  <2>1. /\ b \in Seq(Int) /\ Len(b) = Len(a) + Len(r)
        /\ \A j \in 1 .. Len(a) : b[j] = a[j]
        /\ \A j \in 1 .. Len(r) : b[Len(a) + j] = r[j]
    <3>1. a \in Seq(Int)
      BY <1>2
    <3> QED BY <3>1, Concatenated
  <2> HIDE DEF b
  <2> QED BY <1>1, <1>2, <2>1
<1> HIDE DEF b
<1>4. /\ c \in Seq(Int) /\ Len(c) = m + n + k + l
      /\ \A j \in 1 .. m + n + k : c[j] = b[j]
      /\ \A j \in 1 .. l : c[m + n + k + j] = s[j]
  <2>1. /\ c \in Seq(Int) /\ Len(c) = Len(b) + Len(s)
        /\ \A j \in 1 .. Len(b) : c[j] = b[j]
        /\ \A j \in 1 .. Len(s) : c[Len(b) + j] = s[j]
    <3>1. b \in Seq(Int)
      BY <1>3
    <3> QED BY <3>1, Concatenated
  <2> HIDE DEF c
  <2> QED BY <1>1, <1>3, <2>1
<1> HIDE DEF c
<1>5. ASSUME NEW j \in 1 .. m
      PROVE  c[0 + j] = p[j]
  <2>1. j \in 1 .. m + n /\ j \in 1 .. m + n + k /\ 0 + j = j
    BY <1>1
  <2> QED BY <1>2, <1>3, <1>4, <2>1
<1>6. ASSUME NEW j \in 1 .. n
      PROVE  c[m + j] = q[j]
  <2>1. m + j \in 1 .. m + n /\ m + j \in 1 .. m + n + k
    BY <1>1
  <2> QED BY <1>2, <1>3, <1>4, <2>1
<1>7. ASSUME NEW j \in 1 .. k
      PROVE  c[m + n + j] = r[j]
  <2>1. m + n + j \in 1 .. m + n + k
    BY <1>1
  <2> QED BY <1>3, <1>4, <2>1
<1> QED BY <1>4, <1>5, <1>6, <1>7 DEF a, b, c, Four

\* The commands of the set-up, one after another.
LEMMA SettingShape ==
  ASSUME NEW s \in Styles
  PROVE  /\ D!Setting(s) \in Seq(Int) /\ Len(D!Setting(s)) = Before(s, 5)
         /\ \A i \in 1 .. 4 : Size(s, i) \in 2 .. 3 /\ Before(s, i) \in Nat
         /\ \A i \in 1 .. 4 : Before(s, i + 1) = Before(s, i) + Size(s, i)
         /\ Before(s, 1) = 0 /\ Before(s, 5) \in Nat
         /\ \A i \in 1 .. 4 : \A j \in 1 .. Size(s, i) :
              D!Setting(s)[Before(s, i) + j] = Nth(s, i)[j]
<1>1. \A i \in 1 .. 4 : /\ Nth(s, i) \in Seq(Int) /\ Size(s, i) = Len(Nth(s, i))
                       /\ Size(s, i) \in 2 .. 3
  <2> TAKE i \in 1 .. 4
  <2>1. s.order[i] \in 1 .. 4
    BY StyleFacts
  <2>2. PartIs(Nth(s, i), s, s.order[i])
    BY <2>1, PartShape, Zenon DEF Nth
  <2> QED BY <2>2 DEF PartIs, Size
<1>2. D!Setting(s) = Nth(s, 1) \o Nth(s, 2) \o Nth(s, 3) \o Nth(s, 4)
  BY Zenon DEF D!Setting, Nth
<1>3. /\ Size(s, 1) \in Nat /\ Size(s, 2) \in Nat
      /\ Size(s, 3) \in Nat /\ Size(s, 4) \in Nat
      /\ Size(s, 1) = Len(Nth(s, 1)) /\ Size(s, 2) = Len(Nth(s, 2))
      /\ Size(s, 3) = Len(Nth(s, 3)) /\ Size(s, 4) = Len(Nth(s, 4))
      /\ Nth(s, 1) \in Seq(Int) /\ Nth(s, 2) \in Seq(Int)
      /\ Nth(s, 3) \in Seq(Int) /\ Nth(s, 4) \in Seq(Int)
  BY <1>1
<1>4. /\ Before(s, 1) = 0 /\ Before(s, 2) = Size(s, 1)
      /\ Before(s, 3) = Size(s, 1) + Size(s, 2)
      /\ Before(s, 4) = Size(s, 1) + Size(s, 2) + Size(s, 3)
      /\ Before(s, 5) = Size(s, 1) + Size(s, 2) + Size(s, 3) + Size(s, 4)
  BY <1>3 DEF Before
<1> DEFINE C == Nth(s, 1) \o Nth(s, 2) \o Nth(s, 3) \o Nth(s, 4)
<1>7. /\ C \in Seq(Int) /\ Len(C) = Size(s, 1) + Size(s, 2) + Size(s, 3) + Size(s, 4)
      /\ \A j \in 1 .. Size(s, 1) : C[0 + j] = Nth(s, 1)[j]
      /\ \A j \in 1 .. Size(s, 2) : C[Size(s, 1) + j] = Nth(s, 2)[j]
      /\ \A j \in 1 .. Size(s, 3) : C[Size(s, 1) + Size(s, 2) + j] = Nth(s, 3)[j]
      /\ \A j \in 1 .. Size(s, 4) :
           C[Size(s, 1) + Size(s, 2) + Size(s, 3) + j] = Nth(s, 4)[j]
  <2>1. Four(C, Nth(s, 1), Nth(s, 2), Nth(s, 3), Nth(s, 4))
    BY <1>3, FourJoined
  <2> HIDE DEF C
  <2> QED BY <2>1, Zenon DEF Size, Four
<1>8. D!Setting(s) = C
  BY <1>2, Zenon
<1> HIDE DEF C
<1>12. ASSUME NEW i \in 1 .. 4, NEW j \in 1 .. Size(s, i)
       PROVE  C[Before(s, i) + j] = Nth(s, i)[j]
  <2>1. i = 1 \/ i = 2 \/ i = 3 \/ i = 4
    OBVIOUS
  <2> QED BY <1>4, <1>7, <2>1
<1>13. ASSUME NEW i \in 1 .. 4
       PROVE  /\ Before(s, i) \in Nat /\ Before(s, i + 1) = Before(s, i) + Size(s, i)
              /\ Size(s, i) \in 2 .. 3
  <2>1. i = 1 \/ i = 2 \/ i = 3 \/ i = 4
    OBVIOUS
  <2>2. Size(s, i) \in 2 .. 3
    BY <1>1
  <2> QED BY <1>3, <1>4, <2>1, <2>2
<1>14. Before(s, 5) \in Nat
  BY <1>3, <1>4
<1> QED BY <1>4, <1>7, <1>8, <1>12, <1>13, <1>14 DEF C

\* The accesses of the set-up.
LEMMA BootShape ==
  ASSUME NEW s \in Styles
  PROVE  /\ D!Boot(s) \in Seq(Accesses) /\ Len(D!Boot(s)) = 6 + Before(s, 5)
         /\ D!Boot(s)[1] = D!Access("enable", 0)
         /\ D!Boot(s)[2] = D!Access("low", 0)
         /\ D!Boot(s)[3] = D!Access("select", 0)
         /\ \A i \in 1 .. 4 : \A j \in 1 .. Size(s, i) :
              D!Boot(s)[3 + Before(s, i) + j] = D!Access("spi", Nth(s, i)[j])
         /\ D!Boot(s)[4 + Before(s, 5)] = D!Access("spi", 175)
         /\ D!Boot(s)[5 + Before(s, 5)] = D!Access("high", 0)
         /\ D!Boot(s)[6 + Before(s, 5)] = D!Access("deselect", 0)
<1> DEFINE N == Before(s, 5)
           B == D!Setting(s) \o <<175>>
           P1 == D!Op("enable") \o D!Op("low")
           P2 == P1 \o D!Op("select")
           P3 == P2 \o D!Spi(B)
           P4 == P3 \o D!Op("high")
           P5 == P4 \o D!Op("deselect")
<1>1. /\ D!Op("enable") \in Seq(Accesses) /\ Len(D!Op("enable")) = 1
      /\ D!Op("enable")[1] = D!Access("enable", 0)
  <2>1. "enable" \in Ops
    BY DEF Ops
  <2> QED BY <2>1, OpShape, Zenon
<1>2. /\ D!Op("low") \in Seq(Accesses) /\ Len(D!Op("low")) = 1
      /\ D!Op("low")[1] = D!Access("low", 0)
  <2>1. "low" \in Ops
    BY DEF Ops
  <2> QED BY <2>1, OpShape, Zenon
<1>3. /\ D!Op("select") \in Seq(Accesses) /\ Len(D!Op("select")) = 1
      /\ D!Op("select")[1] = D!Access("select", 0)
  <2>1. "select" \in Ops
    BY DEF Ops
  <2> QED BY <2>1, OpShape, Zenon
<1>4. /\ D!Op("high") \in Seq(Accesses) /\ Len(D!Op("high")) = 1
      /\ D!Op("high")[1] = D!Access("high", 0)
  <2>1. "high" \in Ops
    BY DEF Ops
  <2> QED BY <2>1, OpShape, Zenon
<1>5. /\ D!Op("deselect") \in Seq(Accesses) /\ Len(D!Op("deselect")) = 1
      /\ D!Op("deselect")[1] = D!Access("deselect", 0)
  <2>1. "deselect" \in Ops
    BY DEF Ops
  <2> QED BY <2>1, OpShape, Zenon
<1>6. /\ N \in Nat /\ B \in Seq(Int) /\ Len(B) = N + 1 /\ B[N + 1] = 175
      /\ \A i \in 1 .. N : B[i] = D!Setting(s)[i]
  <2>1. /\ D!Setting(s) \in Seq(Int) /\ Len(D!Setting(s)) = N /\ N \in Nat
    BY SettingShape
  <2>2. <<175>> \in Seq(Int) /\ Len(<<175>>) = 1 /\ <<175>>[1] = 175 /\ 1 \in 1 .. 1
    OBVIOUS
  <2>3. /\ B \in Seq(Int) /\ Len(B) = Len(D!Setting(s)) + Len(<<175>>)
        /\ \A i \in 1 .. Len(D!Setting(s)) : B[i] = D!Setting(s)[i]
        /\ \A i \in 1 .. Len(<<175>>) : B[Len(D!Setting(s)) + i] = <<175>>[i]
    BY <2>1, <2>2, Concatenated
  <2> HIDE DEF B, N
  <2> QED BY <2>1, <2>2, <2>3
<1>7. \A i \in 1 .. 4 : \A j \in 1 .. Size(s, i) :
        Before(s, i) + j \in 1 .. N /\ B[Before(s, i) + j] = Nth(s, i)[j]
  <2> HIDE DEF B
  <2> SUFFICES ASSUME NEW i \in 1 .. 4, NEW j \in 1 .. Size(s, i)
               PROVE  Before(s, i) + j \in 1 .. N /\ B[Before(s, i) + j] = Nth(s, i)[j]
    OBVIOUS
  <2>1. Before(s, i) + j \in 1 .. N
    <3>1. /\ \A q \in 1 .. 4 : Size(s, q) \in 2 .. 3 /\ Before(s, q) \in Nat
          /\ \A q \in 1 .. 4 : Before(s, q + 1) = Before(s, q) + Size(s, q)
          /\ Before(s, 5) \in Nat
      BY SettingShape
    <3>2. /\ Before(s, 2) = Before(s, 1) + Size(s, 1)
          /\ Before(s, 3) = Before(s, 2) + Size(s, 2)
          /\ Before(s, 4) = Before(s, 3) + Size(s, 3)
          /\ Before(s, 5) = Before(s, 4) + Size(s, 4)
      BY <3>1
    <3>3. i = 1 \/ i = 2 \/ i = 3 \/ i = 4
      OBVIOUS
    <3> QED BY <3>1, <3>2, <3>3
  <2>2. D!Setting(s)[Before(s, i) + j] = Nth(s, i)[j]
    BY SettingShape
  <2> QED BY <1>6, <2>1, <2>2
<1> HIDE DEF B, N
<1>8. /\ D!Spi(B) \in Seq(Accesses) /\ Len(D!Spi(B)) = N + 1
      /\ \A i \in 1 .. N + 1 : D!Spi(B)[i] = D!Access("spi", B[i])
  BY <1>6, SpiShape
<1>9. /\ P1 \in Seq(Accesses) /\ Len(P1) = 2
      /\ P1[1] = D!Access("enable", 0) /\ P1[2] = D!Access("low", 0)
  BY <1>1, <1>2, Concatenated
<1> HIDE DEF P1
<1>10. /\ P2 \in Seq(Accesses) /\ Len(P2) = 3
       /\ P2[1] = P1[1] /\ P2[2] = P1[2] /\ P2[3] = D!Access("select", 0)
  BY <1>3, <1>9, Concatenated
<1> HIDE DEF P2
<1>11. /\ P3 \in Seq(Accesses) /\ Len(P3) = N + 4
       /\ P3[1] = P2[1] /\ P3[2] = P2[2] /\ P3[3] = P2[3]
       /\ \A i \in 1 .. N + 1 : P3[3 + i] = D!Spi(B)[i]
  <2>1. /\ P3 \in Seq(Accesses) /\ Len(P3) = Len(P2) + Len(D!Spi(B))
        /\ \A i \in 1 .. Len(P2) : P3[i] = P2[i]
        /\ \A i \in 1 .. Len(D!Spi(B)) : P3[Len(P2) + i] = D!Spi(B)[i]
    <3>1. P2 \in Seq(Accesses) /\ D!Spi(B) \in Seq(Accesses)
      BY <1>8, <1>10
    <3> QED BY <3>1, Concatenated
  <2> HIDE DEF P3
  <2> QED BY <1>6, <1>8, <1>10, <2>1
<1> HIDE DEF P3
<1>12. /\ P4 \in Seq(Accesses) /\ Len(P4) = N + 5
       /\ \A i \in 1 .. N + 4 : P4[i] = P3[i]
       /\ P4[5 + N] = D!Access("high", 0)
  <2>1. /\ P4 \in Seq(Accesses) /\ Len(P4) = Len(P3) + Len(D!Op("high"))
        /\ \A i \in 1 .. Len(P3) : P4[i] = P3[i]
        /\ \A i \in 1 .. Len(D!Op("high")) : P4[Len(P3) + i] = D!Op("high")[i]
    <3>1. P3 \in Seq(Accesses) /\ D!Op("high") \in Seq(Accesses)
      BY <1>4, <1>11
    <3> QED BY <3>1, Concatenated
  <2> HIDE DEF P4
  <2>2. Len(P3) + 1 = 5 + N /\ 1 \in 1 .. 1
    BY <1>6, <1>11
  <2>3. P4[Len(P3) + 1] = D!Op("high")[1]
    BY <1>4, <2>1
  <2>4. P4[5 + N] = D!Access("high", 0)
    BY <1>4, <2>2, <2>3, Zenon
  <2>5. P4 \in Seq(Accesses) /\ Len(P4) = Len(P3) + 1 /\ Len(P3) = N + 4
    BY <1>4, <1>11, <2>1
  <2>6. Len(P4) = N + 5
    BY <1>6, <2>5
  <2>7. \A i \in 1 .. N + 4 : P4[i] = P3[i]
    BY <2>1, <2>5, Zenon
  <2> QED BY <2>4, <2>5, <2>6, <2>7
<1> HIDE DEF P4
<1>13. /\ P5 \in Seq(Accesses) /\ Len(P5) = 6 + N
       /\ \A i \in 1 .. N + 5 : P5[i] = P4[i]
       /\ P5[6 + N] = D!Access("deselect", 0)
  <2>1. /\ P5 \in Seq(Accesses) /\ Len(P5) = Len(P4) + Len(D!Op("deselect"))
        /\ \A i \in 1 .. Len(P4) : P5[i] = P4[i]
        /\ \A i \in 1 .. Len(D!Op("deselect")) : P5[Len(P4) + i] = D!Op("deselect")[i]
    <3>1. P4 \in Seq(Accesses) /\ D!Op("deselect") \in Seq(Accesses)
      BY <1>5, <1>12
    <3> QED BY <3>1, Concatenated
  <2> HIDE DEF P5
  <2>2. Len(P4) + 1 = 6 + N /\ 1 \in 1 .. 1
    BY <1>6, <1>12
  <2>3. P5[Len(P4) + 1] = D!Op("deselect")[1]
    BY <1>5, <2>1
  <2>4. P5[6 + N] = D!Access("deselect", 0)
    BY <1>5, <2>2, <2>3, Zenon
  <2>5. P5 \in Seq(Accesses) /\ Len(P5) = Len(P4) + 1 /\ Len(P4) = N + 5
    BY <1>5, <1>12, <2>1
  <2>6. Len(P5) = 6 + N
    BY <1>6, <2>5
  <2>7. \A i \in 1 .. N + 5 : P5[i] = P4[i]
    BY <2>1, <2>5, Zenon
  <2> QED BY <2>4, <2>5, <2>6, <2>7
<1> HIDE DEF P5
<1>14. D!Boot(s) = P5
  BY Zenon DEF D!Boot, P1, P2, P3, P4, P5, B
<1>15. /\ P5[1] = D!Access("enable", 0) /\ P5[2] = D!Access("low", 0)
       /\ P5[3] = D!Access("select", 0) /\ P5[5 + N] = D!Access("high", 0)
       /\ \A i \in 1 .. N + 1 : P5[3 + i] = D!Access("spi", B[i])
  BY <1>6, <1>8, <1>9, <1>10, <1>11, <1>12, <1>13
<1>16. P5[4 + N] = D!Access("spi", 175)
  BY <1>6, <1>15
<1>17. ASSUME NEW i \in 1 .. 4, NEW j \in 1 .. Size(s, i)
       PROVE  P5[3 + Before(s, i) + j] = D!Access("spi", Nth(s, i)[j])
  <2>1. Before(s, i) + j \in 1 .. N /\ B[Before(s, i) + j] = Nth(s, i)[j]
    BY <1>7
  <2>2. Before(s, i) \in Nat /\ j \in Nat /\ Before(s, i) + j \in 1 .. N + 1
    <3>1. Before(s, i) \in Nat /\ Size(s, i) \in Nat
      <4>1. \A q \in 1 .. 4 : Size(s, q) \in 2 .. 3 /\ Before(s, q) \in Nat
        BY SettingShape
      <4> QED BY <4>1
    <3> QED BY <1>6, <2>1, <3>1
  <2>3. 3 + Before(s, i) + j = 3 + (Before(s, i) + j)
    BY <2>2
  <2> QED BY <1>15, <2>1, <2>2, <2>3
<1> QED BY <1>13, <1>14, <1>15, <1>16, <1>17 DEF N

\* A word for the converter.
LEMMA WordShape ==
  ASSUME NEW w \in Words
  PROVE  /\ D!Word(w) \in Seq(Accesses) /\ Len(D!Word(w)) = 2
         /\ D!Word(w)[1] = D!Access("arm", 0) /\ D!Word(w)[2] = D!Access("word", w)
<1> DEFINE a == D!Access("arm", 0)  b == D!Access("word", w)
<1>1. b \in Accesses
  <2>1. w \in Argument /\ "word" \in Ops
    BY Sizes DEF Argument, Ops
  <2> QED BY <2>1, AccessType
<1>2. /\ D!Op("arm") \in Seq(Accesses) /\ Len(D!Op("arm")) = 1 /\ D!Op("arm")[1] = a
  <2>1. "arm" \in Ops
    BY DEF Ops
  <2> QED BY <2>1, OpShape, Zenon
<1> HIDE DEF a, b
<1>3. <<b>> \in Seq(Accesses) /\ Len(<<b>>) = 1 /\ <<b>>[1] = b
  BY <1>1
<1>4. D!Word(w) = D!Op("arm") \o <<b>>
  BY Zenon DEF D!Word, b
<1>5. LET c == D!Op("arm") \o <<b>>
      IN  c \in Seq(Accesses) /\ Len(c) = 2 /\ c[1] = a /\ c[2] = b
  BY <1>2, <1>3, Concatenated
<1> QED BY <1>4, <1>5, Zenon DEF a, b

\* The bytes of a burst.
Bytes(f, from, n) == [i \in 1 .. n |-> D!Cell(f, from + i - 1)]

LEMMA BurstShape ==
  ASSUME NEW f \in Int, NEW from \in Int, NEW n \in Nat
  PROVE  /\ Len(Bytes(f, from, n)) = n
         /\ \A i \in 1 .. n : Bytes(f, from, n)[i] = D!Cell(f, from + i - 1)
         /\ D!Burst(f, from, n) \in Seq(Accesses) /\ Len(D!Burst(f, from, n)) = 1
         /\ D!Burst(f, from, n)[1] = D!Access("dma", Bytes(f, from, n))
<1> DEFINE B == Bytes(f, from, n)  a == D!Access("dma", B)
<1>1. B \in Seq(Int \X Int) /\ Len(B) = n /\ \A i \in 1 .. n : B[i] = D!Cell(f, from + i - 1)
  <2>1. \A i \in 1 .. n : D!Cell(f, from + i - 1) \in Int \X Int
    BY DEF D!Cell
  <2> QED BY <2>1 DEF Bytes
<1>2. D!Burst(f, from, n) = <<a>>
  BY Zenon DEF D!Burst, Bytes
<1> HIDE DEF B
<1>3. a \in Accesses
  <2>1. B \in Argument /\ "dma" \in Ops
    BY <1>1 DEF Argument, Ops
  <2> QED BY <2>1, AccessType
<1> HIDE DEF a
<1>4. <<a>> \in Seq(Accesses) /\ Len(<<a>>) = 1 /\ <<a>>[1] = a
  BY <1>3
<1> QED BY <1>1, <1>2, <1>4, Zenon DEF a, B

\* A frame: what lies between its select and its deselect.
LEMMA FrameJoined ==
  ASSUME NEW M \in Seq(Accesses)
  PROVE  LET F == D!Op("select") \o M \o D!Op("deselect")
         IN  /\ F \in Seq(Accesses) /\ Len(F) = 2 + Len(M)
             /\ F[1] = D!Access("select", 0)
             /\ \A i \in 1 .. Len(M) : F[1 + i] = M[i]
             /\ F[2 + Len(M)] = D!Access("deselect", 0)
<1> DEFINE P == D!Op("select") \o M  F == P \o D!Op("deselect")  n == Len(M)
<1>1. /\ D!Op("select") \in Seq(Accesses) /\ Len(D!Op("select")) = 1
      /\ D!Op("select")[1] = D!Access("select", 0)
  <2>1. "select" \in Ops
    BY DEF Ops
  <2> QED BY <2>1, OpShape, Zenon
<1>2. /\ D!Op("deselect") \in Seq(Accesses) /\ Len(D!Op("deselect")) = 1
      /\ D!Op("deselect")[1] = D!Access("deselect", 0)
  <2>1. "deselect" \in Ops
    BY DEF Ops
  <2> QED BY <2>1, OpShape, Zenon
<1>3. n \in Nat
  OBVIOUS
<1>4. /\ P \in Seq(Accesses) /\ Len(P) = 1 + n /\ P[1] = D!Access("select", 0)
      /\ \A i \in 1 .. n : P[1 + i] = M[i]
  BY <1>1, <1>3, Concatenated
<1> HIDE DEF P
<1>5. /\ F \in Seq(Accesses) /\ Len(F) = Len(P) + Len(D!Op("deselect"))
      /\ \A i \in 1 .. Len(P) : F[i] = P[i]
      /\ \A i \in 1 .. Len(D!Op("deselect")) : F[Len(P) + i] = D!Op("deselect")[i]
  <2>1. P \in Seq(Accesses) /\ D!Op("deselect") \in Seq(Accesses)
    BY <1>2, <1>4
  <2> QED BY <2>1, Concatenated
<1> HIDE DEF F, n
<1>6. Len(F) = 2 + n /\ \A i \in 1 .. n + 1 : F[i] = P[i]
  <2>1. Len(F) = Len(P) + 1
    BY <1>2, <1>5
  <2>2. Len(F) = 2 + n /\ Len(P) = n + 1
    BY <1>3, <1>4, <2>1
  <2> QED BY <1>5, <2>2, Zenon
<1>7. F[Len(P) + 1] = D!Op("deselect")[1]
  BY <1>2, <1>5
<1>8. Len(P) + 1 = 2 + n
  BY <1>3, <1>4
<1>9. F[2 + n] = D!Access("deselect", 0)
  BY <1>2, <1>7, <1>8, Zenon
<1>10. F[1] = D!Access("select", 0) /\ \A i \in 1 .. n : F[1 + i] = M[i]
  BY <1>3, <1>4, <1>6
<1> QED BY <1>5, <1>6, <1>9, <1>10 DEF F, P, n

\* In one burst.
LEMMA FrameShape ==
  ASSUME NEW s \in Styles, s.mode # D!PAGE, NEW f \in Int
  PROVE  LET F == D!Frame(s, f)
         IN  /\ F \in Seq(Accesses) /\ Len(F) = 3
             /\ F[1] = D!Access("select", 0)
             /\ F[2] = D!Access("dma", Bytes(f, 0, Rows * Cols))
             /\ F[3] = D!Access("deselect", 0)
<1> DEFINE M == D!Burst(f, 0, Rows * Cols)  F == D!Op("select") \o M \o D!Op("deselect")
<1>1. Rows * Cols \in Nat /\ 0 \in Int
  BY Sizes
<1>2. /\ M \in Seq(Accesses) /\ Len(M) = 1
      /\ M[1] = D!Access("dma", Bytes(f, 0, Rows * Cols))
  BY <1>1, BurstShape
<1>3. D!Frame(s, f) = F
  BY Zenon DEF D!Frame
<1> HIDE DEF M
<1>4. /\ F \in Seq(Accesses) /\ Len(F) = 2 + Len(M)
      /\ F[1] = D!Access("select", 0)
      /\ \A i \in 1 .. Len(M) : F[1 + i] = M[i]
      /\ F[2 + Len(M)] = D!Access("deselect", 0)
  BY <1>2, FrameJoined
<1> HIDE DEF F
<1>5. /\ F \in Seq(Accesses) /\ Len(F) = 3 /\ F[1] = D!Access("select", 0)
      /\ F[2] = M[1] /\ F[3] = D!Access("deselect", 0)
  BY <1>2, <1>4
<1> QED BY <1>2, <1>3, <1>5, Zenon

\* Page by page: six accesses to a page.
LEMMA PageShape ==
  ASSUME NEW s \in Styles, NEW f \in Int, NEW r \in 0 .. Rows - 1
  PROVE  LET P == D!PageBurst(s, f, r)
         IN  /\ P \in Seq(Accesses) /\ Len(P) = 6
             /\ P[1] = D!Access("low", 0)
             /\ P[2] = D!Access("spi", 176 + s.first + r)
             /\ P[3] = D!Access("spi", 0)
             /\ P[4] = D!Access("spi", 16)
             /\ P[5] = D!Access("high", 0)
             /\ P[6] = D!Access("dma", Bytes(f, r * Cols, Cols))
<1> DEFINE c == <<176 + s.first + r, 0, 16>>
           U == D!Spi(c)  V == D!Burst(f, r * Cols, Cols)
           A == D!Op("low") \o U  B == A \o D!Op("high")  C == B \o V
<1>1. /\ D!Op("low") \in Seq(Accesses) /\ Len(D!Op("low")) = 1
      /\ D!Op("low")[1] = D!Access("low", 0)
  <2>1. "low" \in Ops
    BY DEF Ops
  <2> QED BY <2>1, OpShape, Zenon
<1>2. /\ D!Op("high") \in Seq(Accesses) /\ Len(D!Op("high")) = 1
      /\ D!Op("high")[1] = D!Access("high", 0)
  <2>1. "high" \in Ops
    BY DEF Ops
  <2> QED BY <2>1, OpShape, Zenon
<1>3. /\ c \in Seq(Int) /\ Len(c) = 3
      /\ c[1] = 176 + s.first + r /\ c[2] = 0 /\ c[3] = 16
  <2>1. 176 + s.first + r \in Int
    BY Sizes, StyleFacts
  <2> QED BY <2>1
<1> HIDE DEF c
<1>4. /\ U \in Seq(Accesses) /\ Len(U) = 3
      /\ U[1] = D!Access("spi", 176 + s.first + r) /\ U[2] = D!Access("spi", 0)
      /\ U[3] = D!Access("spi", 16)
  <2>1. /\ U \in Seq(Accesses) /\ Len(U) = 3
        /\ \A i \in 1 .. 3 : U[i] = D!Access("spi", c[i])
    BY <1>3, SpiShape
  <2>2. 1 \in 1 .. 3 /\ 2 \in 1 .. 3 /\ 3 \in 1 .. 3
    OBVIOUS
  <2> QED BY <1>3, <2>1, <2>2, Zenon
<1>5. /\ V \in Seq(Accesses) /\ Len(V) = 1
      /\ V[1] = D!Access("dma", Bytes(f, r * Cols, Cols))
  <2>1. r * Cols \in Int /\ Cols \in Nat
    BY Sizes
  <2> QED BY <2>1, BurstShape
<1> HIDE DEF U, V
<1>6. /\ A \in Seq(Accesses) /\ Len(A) = 4 /\ A[1] = D!Access("low", 0)
      /\ A[2] = U[1] /\ A[3] = U[2] /\ A[4] = U[3]
  <2>1. D!Op("low") \in Seq(Accesses) /\ U \in Seq(Accesses)
    BY <1>1, <1>4
  <2>2. /\ A \in Seq(Accesses) /\ Len(A) = Len(D!Op("low")) + Len(U)
        /\ \A i \in 1 .. Len(D!Op("low")) : A[i] = D!Op("low")[i]
        /\ \A i \in 1 .. Len(U) : A[Len(D!Op("low")) + i] = U[i]
    BY <2>1, Concatenated
  <2> HIDE DEF A
  <2> QED BY <1>1, <1>4, <2>2
<1> HIDE DEF A
<1>7. /\ B \in Seq(Accesses) /\ Len(B) = 5 /\ \A i \in 1 .. 4 : B[i] = A[i]
      /\ B[5] = D!Access("high", 0)
  <2>1. A \in Seq(Accesses) /\ D!Op("high") \in Seq(Accesses)
    BY <1>2, <1>6
  <2>2. /\ B \in Seq(Accesses) /\ Len(B) = Len(A) + Len(D!Op("high"))
        /\ \A i \in 1 .. Len(A) : B[i] = A[i]
        /\ \A i \in 1 .. Len(D!Op("high")) : B[Len(A) + i] = D!Op("high")[i]
    BY <2>1, Concatenated
  <2> HIDE DEF B
  <2> QED BY <1>2, <1>6, <2>2
<1> HIDE DEF B
<1>8. /\ C \in Seq(Accesses) /\ Len(C) = 6 /\ \A i \in 1 .. 5 : C[i] = B[i]
      /\ C[6] = V[1]
  <2>1. B \in Seq(Accesses) /\ V \in Seq(Accesses)
    BY <1>5, <1>7
  <2>2. /\ C \in Seq(Accesses) /\ Len(C) = Len(B) + Len(V)
        /\ \A i \in 1 .. Len(B) : C[i] = B[i]
        /\ \A i \in 1 .. Len(V) : C[Len(B) + i] = V[i]
    BY <2>1, Concatenated
  <2> HIDE DEF C
  <2> QED BY <1>5, <1>7, <2>2
<1>9. D!PageBurst(s, f, r) = C
  BY Zenon DEF D!PageBurst, A, B, U, V, c
<1> HIDE DEF C
<1>10. /\ C[1] = D!Access("low", 0) /\ C[2] = U[1] /\ C[3] = U[2] /\ C[4] = U[3]
       /\ C[5] = D!Access("high", 0)
  BY <1>6, <1>7, <1>8
<1> QED BY <1>4, <1>5, <1>8, <1>9, <1>10, Zenon

LEMMA PagesShape ==
  ASSUME NEW s \in Styles, s.mode = D!PAGE, NEW f \in Int
  PROVE  LET F == D!Frame(s, f)
         IN  /\ F \in Seq(Accesses) /\ Len(F) = 2 + 6 * Rows
             /\ F[1] = D!Access("select", 0)
             /\ \A r \in 0 .. Rows - 1 : \A j \in 1 .. 6 :
                  F[1 + 6 * r + j] = D!PageBurst(s, f, r)[j]
             /\ F[2 + 6 * Rows] = D!Access("deselect", 0)
<1> DEFINE E(i) == D!PageBurst(s, f, (i - 1) \div 6)[((i - 1) % 6) + 1]
           M == [i \in 1 .. 6 * Rows |-> E(i)]
           F == D!Op("select") \o M \o D!Op("deselect")
<1>1. D!Frame(s, f) = F
  BY Zenon DEF D!Frame
<1>2. ASSUME NEW r \in 0 .. Rows - 1, NEW j \in 1 .. 6
      PROVE  /\ 6 * r + j \in 1 .. 6 * Rows /\ E(6 * r + j) = D!PageBurst(s, f, r)[j]
             /\ 1 + 6 * r + j = 1 + (6 * r + j)
  <2>1. Rows \in Nat
    BY Sizes
  <2>2. /\ 6 * r + j \in 1 .. 6 * Rows /\ (6 * r + j - 1) \div 6 = r
        /\ ((6 * r + j - 1) % 6) + 1 = j
        /\ 1 + 6 * r + j = 1 + (6 * r + j)
    BY <2>1
  <2> QED BY <2>2
<1>3. ASSUME NEW i \in 1 .. 6 * Rows
      PROVE  \E r \in 0 .. Rows - 1, j \in 1 .. 6 : i = 6 * r + j
  <2>1. Rows \in Nat
    BY Sizes
  <2>2. (i - 1) \div 6 \in 0 .. Rows - 1 /\ i - 6 * ((i - 1) \div 6) \in 1 .. 6
    BY <2>1
  <2>3. i = 6 * ((i - 1) \div 6) + (i - 6 * ((i - 1) \div 6))
    BY <2>1, <2>2
  <2> QED BY <2>2, <2>3
<1>4. ASSUME NEW r \in 0 .. Rows - 1, NEW j \in 1 .. 6
      PROVE  D!PageBurst(s, f, r)[j] \in Accesses
  <2>1. D!PageBurst(s, f, r) \in Seq(Accesses) /\ Len(D!PageBurst(s, f, r)) = 6
    BY PageShape
  <2> DEFINE P == D!PageBurst(s, f, r)
  <2> HIDE DEF P
  <2>2. P \in Seq(Accesses) /\ Len(P) = 6
    BY <2>1 DEF P
  <2>3. P[j] \in Accesses
    <3>1. j \in 1 .. Len(P)
      BY <2>2
    <3> QED BY <2>2, <3>1, ElementOfSeq
  <2> QED BY <2>3 DEF P
<1> HIDE DEF E
<1>5. \A i \in 1 .. 6 * Rows : E(i) \in Accesses
  <2> TAKE i \in 1 .. 6 * Rows
  <2>1. PICK r \in 0 .. Rows - 1, j \in 1 .. 6 : i = 6 * r + j
    BY <1>3
  <2> QED BY <1>2, <1>4, <2>1, Zenon
<1>6. M \in Seq(Accesses) /\ Len(M) = 6 * Rows /\ \A i \in 1 .. 6 * Rows : M[i] = E(i)
  <2>1. 6 * Rows \in Nat
    BY Sizes
  <2> QED BY <1>5, <2>1
<1> HIDE DEF M
<1>7. /\ F \in Seq(Accesses) /\ Len(F) = 2 + Len(M)
      /\ F[1] = D!Access("select", 0)
      /\ \A i \in 1 .. Len(M) : F[1 + i] = M[i]
      /\ F[2 + Len(M)] = D!Access("deselect", 0)
  BY <1>6, FrameJoined
<1> HIDE DEF F
<1>8. ASSUME NEW r \in 0 .. Rows - 1, NEW j \in 1 .. 6
      PROVE  F[1 + 6 * r + j] = D!PageBurst(s, f, r)[j]
  <2>1. /\ 6 * r + j \in 1 .. 6 * Rows /\ E(6 * r + j) = D!PageBurst(s, f, r)[j]
        /\ 1 + 6 * r + j = 1 + (6 * r + j)
    BY <1>2
  <2>2. M[6 * r + j] = E(6 * r + j)
    BY <1>6, <2>1, Zenon
  <2>3. F[1 + (6 * r + j)] = M[6 * r + j]
    BY <1>6, <1>7, <2>1, Zenon
  <2> QED BY <2>1, <2>2, <2>3, Zenon
<1> QED BY <1>1, <1>6, <1>7, <1>8, Zenon

-----------------------------------------------------------------------------
(* What one access does to the panel.                                      *)

\* What the lines of the panel leave alone.
Rest(o, x) ==
  /\ x.gddram = o.gddram /\ x.addr_mode = o.addr_mode /\ x.display_on = o.display_on
  /\ SameColumns(o, x) /\ SamePages(o, x)
  /\ x.cmd = o.cmd /\ x.need = o.need /\ x.args = o.args

Pins == {"enable", "select", "deselect", "low", "high"}

LEMMA PinStep ==
  ASSUME oled \in PanelState, NEW op \in Pins
  PROVE  LET x == D!Pin(op)
         IN  /\ x \in PanelState /\ Rest(oled, x)
             /\ x.enabled = oled.enabled \/ (op = "enable" /\ x.enabled)
             /\ op = "enable" => x.enabled
             /\ op = "select" => x.selected
             /\ op = "deselect" => ~x.selected
             /\ op \notin {"select", "deselect"} => x.selected = oled.selected
             /\ op = "high" => x.dc_high
             /\ op = "low" => ~x.dc_high
             /\ op \notin {"high", "low"} => x.dc_high = oled.dc_high
<1> DEFINE x == D!Pin(op)
<1>1. CASE op = "enable"
  <2>1. x = [oled EXCEPT !.enabled = TRUE]
    BY <1>1 DEF D!Pin
  <2> HIDE DEF x
  <2>2. x \in PanelState /\ Rest(oled, x)
    BY <2>1 DEF PanelState, Rest, SameColumns, SamePages
  <2>3. x.enabled /\ x.selected = oled.selected /\ x.dc_high = oled.dc_high
    BY <2>1 DEF PanelState
  <2> QED BY <1>1, <2>2, <2>3 DEF x
<1>2. CASE op \in {"select", "deselect"}
  <2>1. x = [oled EXCEPT !.selected = (op = "select")]
    BY <1>2 DEF D!Pin
  <2> HIDE DEF x
  <2>2. x \in PanelState /\ Rest(oled, x)
    BY <2>1 DEF PanelState, Rest, SameColumns, SamePages
  <2>3. x.enabled = oled.enabled /\ x.dc_high = oled.dc_high
    BY <2>1 DEF PanelState
  <2>4. x.selected <=> op = "select"
    BY <2>1 DEF PanelState
  <2> QED BY <1>2, <2>2, <2>3, <2>4 DEF x
<1>3. CASE op \in {"low", "high"}
  <2>1. x = [oled EXCEPT !.dc_high = (op = "high")]
    BY <1>3 DEF D!Pin
  <2> HIDE DEF x
  <2>2. x \in PanelState /\ Rest(oled, x)
    BY <2>1 DEF PanelState, Rest, SameColumns, SamePages
  <2>3. x.enabled = oled.enabled /\ x.selected = oled.selected
    BY <2>1 DEF PanelState
  <2>4. x.dc_high <=> op = "high"
    BY <2>1 DEF PanelState
  <2> QED BY <1>3, <2>2, <2>3, <2>4 DEF x
<1> QED BY <1>1, <1>2, <1>3 DEF Pins

LEMMA RestKept ==
  ASSUME NEW o \in PanelState, NEW x, Rest(o, x), NEW s
  PROVE  /\ Fresh(o) => Fresh(x)
         /\ x.enabled /\ Ready(o, s) => Ready(x, s)
         /\ \A f, n : ShowsPages(o, s, f, n) => ShowsPages(x, s, f, n)
<1>1. Fresh(o) => Fresh(x)
  BY DEF Rest, Fresh
<1>2. x.enabled /\ Ready(o, s) => Ready(x, s)
  BY <1>1 DEF Rest, Ready, SameColumns, SamePages
<1>3. \A f, n : ShowsPages(o, s, f, n) => ShowsPages(x, s, f, n)
  BY DEF Rest, ShowsPages
<1> QED BY <1>1, <1>2, <1>3

\* The panel after one of the commands at the start of a page.
PageSet(x, o, s, r, b) ==
  /\ x \in PanelState /\ Listening(x) /\ Ready(x, s) /\ x.gddram = o.gddram
  /\ x.cur_page = IF b > 16 THEN s.first + r ELSE o.cur_page

\* In page mode three commands move the pointer to the start of a page.
LEMMA PagePointer ==
  ASSUME NEW s \in Styles, s.mode = D!PAGE, NEW r \in 0 .. Rows - 1,
         NEW o \in PanelState, Listening(o), Ready(o, s),
         NEW b \in {176 + s.first + r, 0, 16}
  PROVE  PageSet(D!deluge_oled_spi_byte(o, b), o, s, r, b)
<1> DEFINE x == D!deluge_oled_spi_byte(o, b)
<1>1. x = D!deluge_oled_write_command(o, b)
  BY DEF Listening, D!deluge_oled_spi_byte
<1>2. ~(o.need > 0) /\ o.cur_col = 0
  BY DEF Ready, Fresh
<1>3. s.first + r \in 0 .. Pages - 1 /\ Pages \in {1, 2, 4, 8} /\ Nibble \in Nat \ {0}
  <2>1. s.first \in 0 .. Pages - Rows /\ Rows \in 1 .. Pages /\ Pages \in {1, 2, 4, 8}
    BY Sizes, StyleFacts
  <2> QED BY <2>1, Sizes
<1> HIDE DEF x
<1>4. CASE b = 176 + s.first + r
  <2>1. b \in 176 .. 183 /\ ~(b <= 15) /\ b \notin 16 .. 31 /\ b > 16 /\ b % Pages = s.first + r
    <3>1. s.first \in Int /\ r \in Int /\ s.first + r \in 0 .. 7
      BY <1>3, StyleFacts, Sizes
    <3>2. b \in 176 .. 183 /\ ~(b <= 15) /\ b \notin 16 .. 31 /\ b > 16
      BY <1>4, <3>1
    <3> DEFINE c == s.first + r
    <3>3. b = 176 + c
      BY <1>4, <3>1
    <3>4. c \in 0 .. Pages - 1
      BY <1>3
    <3> HIDE DEF c
    <3>5. (176 + c) % Pages = c
      BY <1>3, <3>4
    <3> QED BY <3>2, <3>3, <3>5 DEF c
  <2>2. x = [o EXCEPT !.cur_page = s.first + r]
    <3>1. x = [o EXCEPT !.cur_page = b % Pages]
      BY <1>1, <1>2, <2>1, ZenonT(30) DEF D!deluge_oled_write_command
    <3> QED BY <2>1, <3>1
  <2>3. x \in PanelState /\ x.gddram = o.gddram /\ x.cur_page = s.first + r
    <3>1. s.first + r \in Int
      BY <1>3
    <3> QED BY <2>2, <3>1 DEF PanelState
  <2>4. /\ x.enabled = o.enabled /\ x.dc_high = o.dc_high /\ x.selected = o.selected
        /\ x.display_on = o.display_on
    BY <2>2 DEF PanelState
  <2>5. /\ SameColumns(o, x) /\ x.page_start = o.page_start /\ x.page_end = o.page_end
        /\ x.addr_mode = o.addr_mode /\ x.need = o.need /\ x.args = o.args
    BY <2>2 DEF PanelState, SameColumns
  <2>6. Listening(x) /\ Ready(x, s)
    BY <2>4, <2>5 DEF Listening, Ready, Fresh, SameColumns
  <2> QED BY <2>1, <2>3, <2>6 DEF x, PageSet
<1>5. CASE b \in {0, 16}
  <2>1. 0 % Nibble = 0
    BY <1>3
  <2>2. x = [o EXCEPT !.cur_col = 0]
    <3>1. CASE b = 0
      <4>1. b <= 15 /\ o.cur_col - (o.cur_col % Nibble) + b = 0
        BY <1>2, <2>1, <3>1
      <4> QED BY <1>1, <1>2, <4>1, ZenonT(30) DEF D!deluge_oled_write_command
    <3>2. CASE b = 16
      <4>1. (b - 16) * Nibble = 0
        <5>1. b - 16 = 0 /\ 0 * Nibble = 0
          BY <1>3, <3>2
        <5> QED BY <5>1, Zenon
      <4>2. ~(b <= 15) /\ b \in 16 .. 31 /\ (o.cur_col % Nibble) + (b - 16) * Nibble = 0
        BY <1>2, <2>1, <3>2, <4>1
      <4> QED BY <1>1, <1>2, <4>2, ZenonT(30) DEF D!deluge_oled_write_command
    <3> QED BY <1>5, <3>1, <3>2
  <2>3. x \in PanelState /\ x.gddram = o.gddram /\ SamePages(o, x)
    <3>1. 0 \in Int
      OBVIOUS
    <3>2. \A c \in Int : [o EXCEPT !.cur_col = c] \in PanelState
      BY DEF PanelState
    <3>3. x \in PanelState
      BY <2>2, <3>1, <3>2, Zenon
    <3>4. x.gddram = o.gddram /\ SamePages(o, x)
      BY <2>2 DEF PanelState, SamePages
    <3> QED BY <3>3, <3>4
  <2>4. /\ x.enabled = o.enabled /\ x.dc_high = o.dc_high /\ x.selected = o.selected
        /\ x.display_on = o.display_on
    BY <2>2 DEF PanelState
  <2>5. /\ x.col_start = o.col_start /\ x.col_end = o.col_end /\ x.cur_col = 0
        /\ x.addr_mode = o.addr_mode /\ x.need = o.need /\ x.args = o.args
    BY <2>2 DEF PanelState
  <2>6. Listening(x) /\ Ready(x, s)
    BY <2>3, <2>4, <2>5 DEF Listening, Ready, Fresh, SamePages
  <2>7. ~(b > 16)
    BY <1>5
  <2> QED BY <2>3, <2>6, <2>7 DEF x, SamePages, PageSet
<1> QED BY <1>4, <1>5

\* The panel after an access of the set-up or of a frame.
Panels(a) ==
  IF a.op = "dma" THEN D!deluge_oled_spi_bytes({oled}, a.arg)
  ELSE IF a.op = "spi" THEN {D!deluge_oled_spi_byte(oled, a.arg)}
  ELSE {D!Pin(a.op)}

LEMMA PanelsOf ==
  /\ \A op \in Pins :
       /\ D!Access(op, 0).op = op /\ op \in Pins \cup {"spi", "dma"}
       /\ Panels(D!Access(op, 0)) = {D!Pin(op)}
  /\ \A b \in Int :
       /\ D!Access("spi", b).op = "spi"
       /\ Panels(D!Access("spi", b)) = {D!deluge_oled_spi_byte(oled, b)}
  /\ \A c :
       /\ D!Access("dma", c).op = "dma"
       /\ Panels(D!Access("dma", c)) = D!deluge_oled_spi_bytes({oled}, c)
<1>1. \A op, c : D!Access(op, c).op = op /\ D!Access(op, c).arg = c
  BY DEF D!Access
<1>2. ASSUME NEW op \in Pins
      PROVE  op # "dma" /\ op # "spi"
  BY DEF Pins
<1>3. "spi" # "dma"
  OBVIOUS
<1> QED BY <1>1, <1>2, <1>3 DEF Panels

LEMMA BootNext ==
  ASSUME NEW s \in Styles, oled \in PanelState,
         NEW k \in 0 .. Len(D!Boot(s)), k < Len(D!Boot(s)), BootAt(oled, s, k)
  PROVE  LET a == D!Boot(s)[k + 1]
         IN  /\ a.op \in Pins \cup {"spi"}
             /\ \A x \in Panels(a) : x \in PanelState /\ BootAt(x, s, k + 1)
<1> DEFINE a == D!Boot(s)[k + 1]
           Done == a.op \in Pins \cup {"spi"}
                   /\ \A x \in Panels(a) : x \in PanelState /\ BootAt(x, s, k + 1)
           N == Before(s, 5)
<1>1. /\ N \in Nat /\ Len(D!Boot(s)) = 6 + N /\ Before(s, 1) = 0
      /\ Size(s, 1) \in 2 .. 3
  BY BootShape, SettingShape
<1>2. ASSUME NEW op \in Pins, a = D!Access(op, 0),
             D!Pin(op) \in PanelState => BootAt(D!Pin(op), s, k + 1)
      PROVE  Done
  <2>1. D!Pin(op) \in PanelState
    BY PinStep
  <2> QED BY <1>2, <2>1, PanelsOf
<1>3. ASSUME NEW b \in Int, a = D!Access("spi", b),
             /\ D!deluge_oled_spi_byte(oled, b) \in PanelState
             /\ BootAt(D!deluge_oled_spi_byte(oled, b), s, k + 1)
      PROVE  Done
  BY <1>3, PanelsOf
<1>4. ASSUME NEW op \in Pins
      PROVE  LET x == D!Pin(op)
             IN  /\ Fresh(oled) => Fresh(x)
                 /\ x.enabled /\ Ready(oled, s) => Ready(x, s)
  <2>1. Rest(oled, D!Pin(op))
    BY PinStep
  <2> QED BY <2>1, RestKept
<1> SUFFICES Done
  OBVIOUS
<1>5. CASE k = 0 /\ Fresh(oled)
  <2>1. "enable" \in Pins
    BY DEF Pins
  <2> DEFINE x == D!Pin("enable")
  <2>2. x.enabled /\ Fresh(x)
    BY <1>4, <1>5, <2>1, PinStep
  <2>3. BootAt(x, s, k + 1)
    BY <1>5, <2>2 DEF BootAt
  <2>4. a = D!Access("enable", 0)
    BY <1>5, BootShape
  <2> QED BY <1>2, <2>1, <2>3, <2>4
<1>6. CASE k = 1 /\ Fresh(oled) /\ oled.enabled
  <2>1. "low" \in Pins
    BY DEF Pins
  <2> DEFINE x == D!Pin("low")
  <2>2. x.enabled /\ Fresh(x) /\ ~x.dc_high
    BY <1>4, <1>6, <2>1, PinStep
  <2>3. BootAt(x, s, k + 1)
    BY <1>6, <2>2 DEF BootAt
  <2>4. a = D!Access("low", 0)
    BY <1>6, BootShape
  <2> QED BY <1>2, <2>1, <2>3, <2>4
<1>7. CASE k = 2 /\ Fresh(oled) /\ oled.enabled /\ ~oled.dc_high
  <2>1. "select" \in Pins /\ "select" \notin {"high", "low"}
    BY DEF Pins
  <2> DEFINE x == D!Pin("select")
  <2>2. x.enabled /\ Fresh(x) /\ ~x.dc_high /\ x.selected
    BY <1>4, <1>7, <2>1, PinStep
  <2>3. AtCommand(x, s, 1, 0) /\ Listening(x)
    BY <2>2 DEF AtCommand, Listening
  <2>4. 0 < Size(s, 1) /\ k + 1 = 3 + Before(s, 1) + 0 /\ 1 \in 1 .. 4 /\ 0 \in 0 .. 2
    BY <1>1, <1>7
  <2>5. BootAt(x, s, k + 1)
    BY <2>3, <2>4, Zenon DEF BootAt
  <2>6. a = D!Access("select", 0)
    BY <1>7, BootShape
  <2> QED BY <1>2, <2>1, <2>5, <2>6
<1>8. ASSUME NEW i \in 1 .. 4, NEW j \in 0 .. 2, j < Size(s, i), k = 3 + Before(s, i) + j,
             Listening(oled), AtCommand(oled, s, i, j)
      PROVE  Done
  <2> DEFINE b == Nth(s, i)[j + 1]  x == D!deluge_oled_spi_byte(oled, b)
  <2>1. /\ \A q \in 1 .. 4 : Size(s, q) \in 2 .. 3 /\ Before(s, q) \in Nat
        /\ \A q \in 1 .. 4 : Before(s, q + 1) = Before(s, q) + Size(s, q)
    BY SettingShape
  <2>2. /\ Size(s, i) \in 2 .. 3 /\ Before(s, i) \in Nat
        /\ Before(s, i + 1) = Before(s, i) + Size(s, i)
    BY <2>1
  <2>3. j + 1 \in 1 .. Size(s, i) /\ k + 1 = 3 + Before(s, i) + (j + 1)
    BY <1>8, <2>2
  <2>4. a = D!Access("spi", b)
    BY <2>3, BootShape
  <2>5. b \in Int
    <3>1. Nth(s, i) \in Seq(Int)
      <4>1. s.order[i] \in 1 .. 4
        BY StyleFacts
      <4>2. PartIs(Nth(s, i), s, s.order[i])
        BY <4>1, PartShape, Zenon DEF Nth
      <4> QED BY <4>2 DEF PartIs
    <3>2. j + 1 \in 1 .. Len(Nth(s, i))
      BY <2>3 DEF Size
    <3> QED BY <3>1, <3>2, ElementOfSeq
  <2>6. /\ x \in PanelState /\ Listening(x)
        /\ j + 1 < Size(s, i) => AtCommand(x, s, i, j + 1)
        /\ j + 1 = Size(s, i) =>
             Fresh(x) /\ \A q \in 1 .. i : PartDone(x, s, s.order[q])
    BY <1>8, CommandByte, Zenon
  <2> HIDE DEF b, x
  <2>7. CASE j + 1 < Size(s, i)
    <3>1. j + 1 \in 0 .. 2
      BY <2>2, <2>7
    <3>2. BootAt(x, s, k + 1)
      BY <2>3, <2>6, <2>7, <3>1, Zenon DEF BootAt
    <3> QED BY <1>3, <2>4, <2>5, <2>6, <3>2 DEF x
  <2>8. CASE j + 1 = Size(s, i) /\ i < 4
    <3>1. /\ i + 1 \in 1 .. 4 /\ 0 \in 0 .. 2 /\ 0 < Size(s, i + 1)
          /\ k + 1 = 3 + Before(s, i + 1) + 0
      <4>1. i + 1 \in 1 .. 4
        BY <2>8
      <4>2. Size(s, i + 1) \in 2 .. 3
        BY <2>1, <4>1
      <4> QED BY <2>2, <2>3, <2>8, <4>1, <4>2
    <3>2. AtCommand(x, s, i + 1, 0)
      <4>1. (i + 1) - 1 = i
        OBVIOUS
      <4> QED BY <2>6, <2>8, <4>1 DEF AtCommand
    <3>3. BootAt(x, s, k + 1)
      BY <2>6, <3>1, <3>2, Zenon DEF BootAt
    <3> QED BY <1>3, <2>4, <2>5, <2>6, <3>3 DEF x
  <2>9. CASE j + 1 = Size(s, i) /\ i = 4
    <3>1. k + 1 = 3 + N
      BY <2>2, <2>3, <2>9
    <3>2. AllDone(x, s)
      <4> SUFFICES ASSUME NEW p \in 1 .. 4
                   PROVE  PartDone(x, s, p)
        BY DEF AllDone
      <4>1. PICK q \in 1 .. 4 : s.order[q] = p
        BY StyleFacts
      <4> QED BY <2>6, <2>9, <4>1
    <3>3. BootAt(x, s, k + 1)
      BY <2>6, <2>9, <3>1, <3>2 DEF BootAt
    <3> QED BY <1>3, <2>4, <2>5, <2>6, <3>3 DEF x
  <2>10. j + 1 < Size(s, i) \/ j + 1 = Size(s, i)
    BY <2>2, <2>3
  <2> QED BY <2>7, <2>8, <2>9, <2>10
<1>9. CASE k = 3 + N /\ Listening(oled) /\ Fresh(oled) /\ AllDone(oled, s)
  <2> DEFINE x == D!deluge_oled_spi_byte(oled, 175)
  <2>1. x \in PanelState /\ Listening(x) /\ Ready(x, s)
    BY <1>9, DisplayOn
  <2> HIDE DEF x
  <2>2. k + 1 = 4 + N
    BY <1>1, <1>9
  <2>3. BootAt(x, s, k + 1)
    BY <2>1, <2>2 DEF BootAt
  <2>4. a = D!Access("spi", 175)
    BY <2>2, BootShape
  <2>5. 175 \in Int
    OBVIOUS
  <2> QED BY <1>3, <2>1, <2>3, <2>4, <2>5 DEF x
<1>10. CASE k = 4 + N /\ Listening(oled) /\ Ready(oled, s)
  <2>1. "high" \in Pins /\ "high" \notin {"select", "deselect"}
    BY DEF Pins
  <2> DEFINE x == D!Pin("high")
  <2>2. x.enabled /\ x.dc_high /\ x.selected
    BY <1>10, <2>1, PinStep DEF Listening
  <2>3. Ready(x, s)
    BY <1>4, <1>10, <2>1, <2>2
  <2> HIDE DEF x
  <2>4. k + 1 = 5 + N
    BY <1>1, <1>10
  <2>5. BootAt(x, s, k + 1)
    BY <2>2, <2>3, <2>4 DEF BootAt
  <2>6. a = D!Access("high", 0)
    BY <2>4, BootShape
  <2> QED BY <1>2, <2>1, <2>5, <2>6 DEF x
<1>11. CASE k = 5 + N /\ Ready(oled, s) /\ oled.dc_high /\ oled.selected
  <2>1. "deselect" \in Pins /\ "deselect" \notin {"high", "low"}
    BY DEF Pins
  <2> DEFINE x == D!Pin("deselect")
  <2>2. x.enabled /\ x.dc_high /\ ~x.selected
    BY <1>11, <2>1, PinStep DEF Ready
  <2>3. Ready(x, s)
    BY <1>4, <1>11, <2>1, <2>2
  <2> HIDE DEF x
  <2>4. k + 1 = 6 + N
    BY <1>1, <1>11
  <2>5. BootAt(x, s, k + 1)
    BY <2>2, <2>3, <2>4 DEF BootAt, Idle
  <2>6. a = D!Access("deselect", 0)
    BY <2>4, BootShape
  <2> QED BY <1>2, <2>1, <2>5, <2>6 DEF x
<1>12. k # 6 + N
  BY <1>1
<1> HIDE DEF Done
<1>13. CASE \E i \in 1 .. 4, j \in 0 .. 2 :
              /\ j < Size(s, i) /\ k = 3 + Before(s, i) + j
              /\ Listening(oled) /\ AtCommand(oled, s, i, j)
  <2>1. PICK i \in 1 .. 4, j \in 0 .. 2 :
          /\ j < Size(s, i) /\ k = 3 + Before(s, i) + j
          /\ Listening(oled) /\ AtCommand(oled, s, i, j)
    BY <1>13
  <2> QED BY <1>8, <2>1
<1> QED BY <1>5, <1>6, <1>7, <1>9, <1>10, <1>11, <1>12, <1>13 DEF BootAt

\* The next access of a frame sent in one burst.
LEMMA BurstNext ==
  ASSUME NEW s \in Styles, s.mode # D!PAGE, NEW f \in Int, oled \in PanelState,
         NEW k \in 0 .. 2, BurstAt(oled, s, f, k)
  PROVE  LET a == D!Frame(s, f)[k + 1]
         IN  /\ a.op \in Pins \cup {"dma"}
             /\ \A x \in Panels(a) : x \in PanelState /\ BurstAt(x, s, f, k + 1)
<1> DEFINE a == D!Frame(s, f)[k + 1]
           Done == /\ a.op \in Pins \cup {"dma"}
                   /\ \A x \in Panels(a) : x \in PanelState /\ BurstAt(x, s, f, k + 1)
<1> SUFFICES Done
  OBVIOUS
<1>1. ASSUME NEW op \in Pins, a = D!Access(op, 0),
             D!Pin(op) \in PanelState => BurstAt(D!Pin(op), s, f, k + 1)
      PROVE  Done
  <2>1. D!Pin(op) \in PanelState
    BY PinStep
  <2> QED BY <1>1, <2>1, PanelsOf
<1>2. ASSUME NEW op \in Pins
      PROVE  LET x == D!Pin(op)
             IN  /\ x.enabled => Ready(x, s)
                 /\ ShowsPages(oled, s, f, Rows) => ShowsPages(x, s, f, Rows)
  <2>1. Rest(oled, D!Pin(op)) /\ Ready(oled, s)
    BY PinStep DEF BurstAt
  <2> QED BY <2>1, RestKept
<1>3. CASE k = 0
  <2>1. "select" \in Pins /\ "select" \notin {"high", "low"}
    BY DEF Pins
  <2> DEFINE x == D!Pin("select")
  <2>2. x.enabled /\ x.dc_high /\ x.selected
    BY <1>3, <2>1, PinStep DEF BurstAt, Ready
  <2>3. Ready(x, s)
    BY <1>2, <2>1, <2>2
  <2> HIDE DEF x
  <2>4. BurstAt(x, s, f, k + 1)
    BY <1>3, <2>2, <2>3 DEF BurstAt
  <2>5. a = D!Access("select", 0)
    BY <1>3, FrameShape
  <2> QED BY <1>1, <2>1, <2>4, <2>5 DEF x
<1>4. CASE k = 1
  <2> DEFINE bytes == Bytes(f, 0, Rows * Cols)
  <2>1. Rows * Cols \in Nat /\ 0 \in Int
    BY Sizes
  <2>2. Len(bytes) = Rows * Cols /\ \A i \in 1 .. Rows * Cols : bytes[i] = D!Cell(f, 0 + i - 1)
    BY <2>1, BurstShape
  <2>3. \A i \in 1 .. Rows * Cols : bytes[i] = D!Cell(f, i - 1)
    <3> TAKE i \in 1 .. Rows * Cols
    <3>1. 0 + i - 1 = i - 1
      BY <2>1
    <3> QED BY <2>2, <3>1
  <2>4. a = D!Access("dma", bytes)
    BY <1>4, FrameShape
  <2> HIDE DEF bytes
  <2>5. a.op = "dma" /\ Panels(a) = D!deluge_oled_spi_bytes({oled}, bytes)
    BY <2>4, PanelsOf
  <2>6. Ready(oled, s) /\ oled.selected /\ oled.dc_high
    BY <1>4 DEF BurstAt
  <2>7. ASSUME NEW x \in D!deluge_oled_spi_bytes({oled}, bytes)
        PROVE  x \in PanelState /\ BurstAt(x, s, f, k + 1)
    <3>1. s.mode = D!HORIZONTAL \/ s.mode = D!VERTICAL
      BY StyleFacts DEF D!HORIZONTAL, D!VERTICAL, D!PAGE
    <3>2. /\ x \in PanelState /\ Ready(x, s) /\ x.selected /\ x.dc_high
          /\ ShowsPages(x, s, f, Rows)
      BY <2>2, <2>3, <2>6, <3>1, HorizontalBurst, VerticalBurst
    <3> QED BY <1>4, <3>2 DEF BurstAt
  <2> QED BY <2>5, <2>7
<1>5. CASE k = 2
  <2>1. "deselect" \in Pins /\ "deselect" \notin {"high", "low"}
    BY DEF Pins
  <2> DEFINE x == D!Pin("deselect")
  <2>2. x.enabled /\ x.dc_high /\ ~x.selected
    BY <1>5, <2>1, PinStep DEF BurstAt, Ready
  <2>3. Ready(x, s) /\ ShowsPages(x, s, f, Rows)
    BY <1>2, <1>5, <2>1, <2>2 DEF BurstAt
  <2> HIDE DEF x
  <2>4. BurstAt(x, s, f, k + 1)
    BY <1>5, <2>2, <2>3 DEF BurstAt
  <2>5. a = D!Access("deselect", 0)
    BY <1>5, FrameShape
  <2> QED BY <1>1, <2>1, <2>4, <2>5 DEF x
<1> QED BY <1>3, <1>4, <1>5

\* The next access of a frame sent page by page.
LEMMA PageNext ==
  ASSUME NEW s \in Styles, s.mode = D!PAGE, NEW f \in Int, oled \in PanelState,
         NEW k \in 0 .. 1 + 6 * Rows, PagesAt(oled, s, f, k)
  PROVE  LET a == D!Frame(s, f)[k + 1]
         IN  /\ a.op \in Pins \cup {"spi", "dma"}
             /\ \A x \in Panels(a) : x \in PanelState /\ PagesAt(x, s, f, k + 1)
<1> DEFINE a == D!Frame(s, f)[k + 1]
           Done == /\ a.op \in Pins \cup {"spi", "dma"}
                   /\ \A x \in Panels(a) : x \in PanelState /\ PagesAt(x, s, f, k + 1)
<1> SUFFICES Done
  OBVIOUS
<1>1. ASSUME NEW op \in Pins, a = D!Access(op, 0),
             D!Pin(op) \in PanelState => PagesAt(D!Pin(op), s, f, k + 1)
      PROVE  Done
  <2>1. D!Pin(op) \in PanelState
    BY PinStep
  <2> QED BY <1>1, <2>1, PanelsOf
<1>2. ASSUME NEW b \in Int, a = D!Access("spi", b),
             /\ D!deluge_oled_spi_byte(oled, b) \in PanelState
             /\ PagesAt(D!deluge_oled_spi_byte(oled, b), s, f, k + 1)
      PROVE  Done
  BY <1>2, PanelsOf
<1>3. ASSUME NEW op \in Pins
      PROVE  LET x == D!Pin(op)
             IN  /\ x.enabled /\ Ready(x, s) /\ x.cur_page = oled.cur_page
                 /\ \A n : ShowsPages(oled, s, f, n) => ShowsPages(x, s, f, n)
  <2>1. Rest(oled, D!Pin(op)) /\ Ready(oled, s) /\ oled.enabled /\ D!Pin(op).enabled
    BY PinStep DEF PagesAt, Ready
  <2>2. D!Pin(op).cur_page = oled.cur_page
    BY <2>1 DEF Rest, SamePages
  <2> QED BY <2>1, <2>2, RestKept
<1>4. Rows \in Nat \ {0} /\ Ready(oled, s) /\ oled.enabled
  BY Sizes DEF PagesAt, Ready
\* Before the select.
<1>5. CASE k = 0 /\ oled.dc_high /\ ~oled.selected
  <2>1. "select" \in Pins /\ "select" \notin {"high", "low"}
    BY DEF Pins
  <2> DEFINE x == D!Pin("select")
  <2>2. Ready(x, s) /\ x.dc_high /\ x.selected
    BY <1>3, <1>5, <2>1, PinStep
  <2> HIDE DEF x
  <2>3. 0 \in 0 .. Rows - 1 /\ 0 \in 0 .. 5 /\ k + 1 = 1 + 6 * 0 + 0
    BY <1>4, <1>5
  <2>4. ShowsPages(x, s, f, 0)
    BY DEF ShowsPages
  <2>5. PagesAt(x, s, f, k + 1)
    <3>1. \E r \in 0 .. Rows - 1, j \in 0 .. 5 :
            /\ k + 1 = 1 + 6 * r + j
            /\ x.selected /\ (x.dc_high <=> j \in {0, 5})
            /\ j >= 2 => x.cur_page = s.first + r
            /\ ShowsPages(x, s, f, r)
      BY <2>2, <2>3, <2>4
    <3> QED BY <2>2, <3>1, Zenon DEF PagesAt
  <2>6. a = D!Access("select", 0)
    BY <1>5, PagesShape
  <2> QED BY <1>1, <2>1, <2>5, <2>6 DEF x
\* Within a page.
<1>6. ASSUME NEW r \in 0 .. Rows - 1, NEW j \in 0 .. 5, k = 1 + 6 * r + j,
             oled.selected, oled.dc_high <=> j \in {0, 5},
             j >= 2 => oled.cur_page = s.first + r, ShowsPages(oled, s, f, r)
      PROVE  Done
  <2>1. j + 1 \in 1 .. 6 /\ k + 1 = 1 + 6 * r + (j + 1)
    BY <1>4, <1>6
  <2>2. a = D!PageBurst(s, f, r)[j + 1]
    <3>1. \A q \in 0 .. Rows - 1 : \A i \in 1 .. 6 :
            D!Frame(s, f)[1 + 6 * q + i] = D!PageBurst(s, f, q)[i]
      BY PagesShape
    <3>2. D!Frame(s, f)[1 + 6 * r + (j + 1)] = D!PageBurst(s, f, r)[j + 1]
      BY <2>1, <3>1
    <3> QED BY <2>1, <3>2, Zenon
  <2>3. ASSUME NEW x, Ready(x, s), x.selected, j # 5, x.dc_high <=> j = 4,
               j >= 1 => x.cur_page = s.first + r, ShowsPages(x, s, f, r)
        PROVE  PagesAt(x, s, f, k + 1)
    <3>1. j + 1 \in 0 .. 5 /\ (j + 1 \in {0, 5} <=> j = 4) /\ (j + 1 >= 2 <=> j >= 1)
      BY <2>3
    <3>2. /\ k + 1 = 1 + 6 * r + (j + 1)
          /\ x.selected /\ (x.dc_high <=> j + 1 \in {0, 5})
          /\ j + 1 >= 2 => x.cur_page = s.first + r
          /\ ShowsPages(x, s, f, r)
      BY <2>1, <2>3, <3>1
    <3> QED BY <2>3, <3>1, <3>2, Zenon DEF PagesAt
  <2>4. ASSUME NEW op \in Pins, a = D!Access(op, 0), j # 5, j # 1,
               op \notin {"select", "deselect"}, D!Pin(op).dc_high <=> j = 4
        PROVE  Done
    <3> DEFINE x == D!Pin(op)
    <3>1. x.selected
      BY <1>6, <2>4, PinStep
    <3>2. Ready(x, s) /\ x.cur_page = oled.cur_page /\ ShowsPages(x, s, f, r)
      BY <1>3, <1>6, <2>4
    <3>3. j >= 1 => x.cur_page = s.first + r
      BY <1>6, <2>4, <3>2
    <3> HIDE DEF x
    <3>4. x.dc_high <=> j = 4
      BY <2>4 DEF x
    <3>5. PagesAt(x, s, f, k + 1)
      BY <2>3, <2>4, <3>1, <3>2, <3>3, <3>4
    <3> QED BY <1>1, <2>4, <3>5 DEF x
  <2>5. ASSUME NEW b \in Int, b \in {176 + s.first + r, 0, 16}, a = D!Access("spi", b),
               j \in 1 .. 3, b > 16 <=> j = 1
        PROVE  Done
    <3> DEFINE x == D!deluge_oled_spi_byte(oled, b)
    <3>1. Listening(oled)
      BY <1>4, <1>6, <2>5 DEF Listening
    <3>2. /\ x \in PanelState /\ Listening(x) /\ Ready(x, s) /\ x.gddram = oled.gddram
          /\ x.cur_page = IF b > 16 THEN s.first + r ELSE oled.cur_page
      <4>1. PageSet(x, oled, s, r, b)
        BY <1>4, <2>5, <3>1, PagePointer
      <4> HIDE DEF x
      <4> QED BY <4>1, Zenon DEF PageSet
    <3> HIDE DEF x
    <3>3. x.cur_page = s.first + r /\ j # 5 /\ j # 4
      BY <1>6, <2>5, <3>2
    <3>4. ShowsPages(x, s, f, r)
      BY <1>6, <3>2 DEF ShowsPages
    <3>5. PagesAt(x, s, f, k + 1)
      BY <2>3, <3>2, <3>3, <3>4 DEF Listening
    <3> QED BY <1>2, <2>5, <3>2, <3>5 DEF x
  <2>6. /\ 176 + s.first + r \in Int /\ 0 \in Int /\ 16 \in Int
        /\ 176 + s.first + r > 16 /\ ~(0 > 16) /\ ~(16 > 16)
    BY <1>4, StyleFacts, Sizes
  <2>7. CASE j = 0
    <3>1. "low" \in Pins /\ "low" \notin {"select", "deselect"}
      BY DEF Pins
    <3>2. ~D!Pin("low").dc_high
      BY <3>1, PinStep
    <3>3. a = D!Access("low", 0)
      BY <2>2, <2>7, PageShape
    <3> QED BY <2>4, <2>7, <3>1, <3>2, <3>3
  <2>8. CASE j = 1
    <3>1. a = D!Access("spi", 176 + s.first + r)
      BY <2>2, <2>8, PageShape
    <3> QED BY <2>5, <2>6, <2>8, <3>1
  <2>9. CASE j = 2
    <3>1. a = D!Access("spi", 0)
      BY <2>2, <2>9, PageShape
    <3> QED BY <2>5, <2>6, <2>9, <3>1
  <2>10. CASE j = 3
    <3>1. a = D!Access("spi", 16)
      BY <2>2, <2>10, PageShape
    <3> QED BY <2>5, <2>6, <2>10, <3>1
  <2>11. CASE j = 4
    <3>1. "high" \in Pins /\ "high" \notin {"select", "deselect"}
      BY DEF Pins
    <3>2. D!Pin("high").dc_high
      BY <3>1, PinStep
    <3>3. a = D!Access("high", 0)
      BY <2>2, <2>11, PageShape
    <3> QED BY <2>4, <2>11, <3>1, <3>2, <3>3
  <2>12. CASE j = 5
    <3> DEFINE bytes == Bytes(f, r * Cols, Cols)
    <3>1. r * Cols \in Nat /\ r * Cols \in Int /\ Cols \in Nat /\ s.first + r \in 0 .. Pages - 1
      <4>1. s.first \in 0 .. Pages - Rows /\ Rows \in 1 .. Pages /\ Pages \in Nat /\ Cols \in Nat
        BY Sizes, StyleFacts
      <4> QED BY <4>1
    <3>2. /\ Len(bytes) = Cols
          /\ \A i \in 1 .. Cols : bytes[i] = D!Cell(f, r * Cols + i - 1)
      BY <3>1, BurstShape, Zenon
    <3>3. a = D!Access("dma", bytes)
      <4>1. D!PageBurst(s, f, r)[6] = D!Access("dma", bytes)
        BY PageShape
      <4>2. j + 1 = 6
        BY <2>12
      <4> QED BY <2>2, <4>1, <4>2, Zenon
    <3> HIDE DEF bytes
    <3>4. a.op = "dma" /\ Panels(a) = D!deluge_oled_spi_bytes({oled}, bytes)
      BY <3>3, PanelsOf
    <3>5. oled.dc_high /\ oled.cur_page = s.first + r /\ oled.cur_page \in 0 .. Pages - 1
      BY <1>6, <2>12, <3>1
    <3>6. ASSUME NEW x \in D!deluge_oled_spi_bytes({oled}, bytes)
          PROVE  x \in PanelState /\ PagesAt(x, s, f, k + 1)
      <4>1. /\ x \in PanelState /\ Ready(x, s) /\ x.selected /\ x.dc_high
            /\ \A p \in 0 .. Pages - 1, d \in 0 .. Cols - 1 :
                 x.gddram[p][d] =
                   IF p = oled.cur_page THEN D!Cell(f, r * Cols + d) ELSE oled.gddram[p][d]
        <5>1. /\ r * Cols \in Nat /\ Ready(oled, s) /\ oled.selected /\ oled.dc_high
              /\ oled.cur_page \in 0 .. Pages - 1 /\ Len(bytes) = Cols
              /\ \A n \in 1 .. Cols : bytes[n] = D!Cell(f, r * Cols + n - 1)
          BY <1>4, <1>6, <3>1, <3>2, <3>5
        <5>2. PageSent(x, oled, s, f, r * Cols)
          BY <5>1, OnePage, Zenon
        <5> QED BY <5>2, Zenon DEF PageSent
      <4>2. ShowsPages(x, s, f, r + 1)
        <5> SUFFICES ASSUME NEW q \in 0 .. r, NEW d \in 0 .. Cols - 1
                     PROVE  x.gddram[s.first + q][d] = D!Cell(f, Spot(s, q, d))
          BY <1>4 DEF ShowsPages
        <5>1. Spot(s, q, d) = q * Cols + d
          BY DEF Spot, D!VERTICAL, D!PAGE
        <5>2. /\ s.first + q \in 0 .. Pages - 1 /\ (s.first + q = s.first + r <=> q = r)
              /\ q # r => q \in 0 .. r - 1
          <6>1. /\ s.first \in Nat /\ s.first + r \in 0 .. Pages - 1 /\ r \in Nat
                /\ Pages \in Nat
            <7>1. s.first \in 0 .. Pages - Rows /\ Rows \in 1 .. Pages /\ Pages \in Nat
              BY Sizes, StyleFacts
            <7> QED BY <3>1, <7>1
          <6> QED BY <6>1
        <5>3. x.gddram[s.first + q][d] =
                IF q = r THEN D!Cell(f, r * Cols + d) ELSE oled.gddram[s.first + q][d]
          BY <3>5, <4>1, <5>2
        <5>4. q # r => oled.gddram[s.first + q][d] = D!Cell(f, Spot(s, q, d))
          BY <1>6, <5>2 DEF ShowsPages
        <5> QED BY <5>1, <5>3, <5>4
      <4>3. CASE r + 1 < Rows
        <5>1. r + 1 \in 0 .. Rows - 1 /\ 0 \in 0 .. 5 /\ k + 1 = 1 + 6 * (r + 1) + 0
          BY <1>4, <1>6, <2>12, <4>3
        <5>2. /\ x.selected /\ (x.dc_high <=> 0 \in {0, 5})
              /\ 0 >= 2 => x.cur_page = s.first + (r + 1)
          BY <4>1
        <5> QED BY <4>1, <4>2, <5>1, <5>2, Zenon DEF PagesAt
      <4>4. CASE r + 1 = Rows
        <5>1. k + 1 = 1 + 6 * Rows
          BY <1>4, <1>6, <2>12, <4>4
        <5> QED BY <4>1, <4>2, <4>4, <5>1, Zenon DEF PagesAt
      <4> QED BY <1>4, <4>3, <4>4
    <3> QED BY <3>4, <3>6
  <2> QED BY <2>7, <2>8, <2>9, <2>10, <2>11, <2>12
\* After the last page.
<1>7. CASE k = 1 + 6 * Rows /\ oled.dc_high /\ oled.selected /\ ShowsPages(oled, s, f, Rows)
  <2>1. "deselect" \in Pins /\ "deselect" \notin {"high", "low"}
    BY DEF Pins
  <2> DEFINE x == D!Pin("deselect")
  <2>2. Ready(x, s) /\ x.dc_high /\ ~x.selected /\ ShowsPages(x, s, f, Rows)
    BY <1>3, <1>7, <2>1, PinStep
  <2> HIDE DEF x
  <2>3. k + 1 = 2 + 6 * Rows
    BY <1>4, <1>7
  <2>4. PagesAt(x, s, f, k + 1)
    BY <2>2, <2>3, Zenon DEF PagesAt
  <2>5. a = D!Access("deselect", 0)
    BY <2>3, PagesShape
  <2> QED BY <1>1, <2>1, <2>4, <2>5 DEF x
<1> HIDE DEF Done
<1>8. CASE \E r \in 0 .. Rows - 1, j \in 0 .. 5 :
             /\ k = 1 + 6 * r + j
             /\ oled.selected /\ (oled.dc_high <=> j \in {0, 5})
             /\ j >= 2 => oled.cur_page = s.first + r
             /\ ShowsPages(oled, s, f, r)
  <2>1. PICK r \in 0 .. Rows - 1, j \in 0 .. 5 :
          /\ k = 1 + 6 * r + j
          /\ oled.selected /\ (oled.dc_high <=> j \in {0, 5})
          /\ j >= 2 => oled.cur_page = s.first + r
          /\ ShowsPages(oled, s, f, r)
    BY <1>8
  <2> QED BY <1>6, <2>1
<1>9. k # 2 + 6 * Rows
  BY <1>4
<1> QED BY <1>5, <1>7, <1>8, <1>9 DEF PagesAt

-----------------------------------------------------------------------------
(* Where a transfer starts and where it ends.                              *)

\* The panel at reset, with its memory m, last column n, zeros z and no arguments v.
PanelWith(m, n, z, v) ==
  [gddram |-> m, addr_mode |-> z, col_start |-> z, col_end |-> n, page_start |-> z,
   page_end |-> Pages - 1, cur_col |-> z, cur_page |-> z, display_on |-> FALSE,
   cmd |-> z, need |-> z, args |-> v,
   dc_high |-> FALSE, selected |-> FALSE, enabled |-> FALSE]

LEMMA PanelOf ==
  ASSUME NEW m \in [0 .. Pages - 1 -> [0 .. Cols - 1 -> Content]],
         NEW n \in Int, NEW z \in Int, NEW v \in Seq(Int)
  PROVE  /\ PanelWith(m, n, z, v) \in PanelState
         /\ PanelWith(m, n, z, v).need = z /\ PanelWith(m, n, z, v).args = v
<1>1. Pages - 1 \in Int
  BY Sizes
<1> QED BY <1>1 DEF PanelState, PanelWith

LEMMA PanelReset ==
  /\ D!deluge_oled_reset \in PanelState
  /\ \A s : BootAt(D!deluge_oled_reset, s, 0)
<1> DEFINE g == [p \in 0 .. Pages - 1 |-> [c \in 0 .. Cols - 1 |-> Blank]]
           x == PanelWith(g, Cols - 1, 0, <<>>)
<1>1. D!deluge_oled_reset = x
  BY Zenon DEF D!deluge_oled_reset, D!HORIZONTAL, PanelWith
<1>2. g \in [0 .. Pages - 1 -> [0 .. Cols - 1 -> Content]] /\ Cols - 1 \in Int
  BY Sizes DEF Content
<1>3. 0 \in Int /\ <<>> \in Seq(Int)
  OBVIOUS
<1> HIDE DEF g
<1>5. x \in PanelState /\ x.need = 0 /\ x.args = <<>>
  <2> DEFINE n == Cols - 1
  <2> HIDE DEF n
  <2>1. n \in Int
    BY <1>2 DEF n
  <2>2. \A z \in Int, v \in Seq(Int) :
          /\ PanelWith(g, n, z, v) \in PanelState
          /\ PanelWith(g, n, z, v).need = z /\ PanelWith(g, n, z, v).args = v
    BY <1>2, <2>1, PanelOf
  <2>3. /\ PanelWith(g, n, 0, <<>>) \in PanelState
        /\ PanelWith(g, n, 0, <<>>).need = 0 /\ PanelWith(g, n, 0, <<>>).args = <<>>
    BY <1>3, <2>2, Zenon
  <2> QED BY <2>3, Zenon DEF n
<1> HIDE DEF x
<1>6. Fresh(D!deluge_oled_reset)
  BY <1>1, <1>5, Zenon DEF Fresh
<1> QED BY <1>1, <1>5, <1>6 DEF BootAt

LEMMA BootEnds ==
  ASSUME NEW s \in Styles, NEW o, BootAt(o, s, Len(D!Boot(s)))
  PROVE  Idle(o, s)
<1> DEFINE N == Before(s, 5)  k == Len(D!Boot(s))
<1>1. N \in Nat /\ k = 6 + N
  BY BootShape, SettingShape
<1>2. ASSUME NEW i \in 1 .. 4, NEW j \in 0 .. 2, j < Size(s, i)
      PROVE  3 + Before(s, i) + j < 6 + N
  <2>1. /\ \A q \in 1 .. 4 : Size(s, q) \in 2 .. 3 /\ Before(s, q) \in Nat
        /\ \A q \in 1 .. 4 : Before(s, q + 1) = Before(s, q) + Size(s, q)
    BY SettingShape
  <2>2. /\ Before(s, 2) = Before(s, 1) + Size(s, 1) /\ Before(s, 3) = Before(s, 2) + Size(s, 2)
        /\ Before(s, 4) = Before(s, 3) + Size(s, 3) /\ Before(s, 5) = Before(s, 4) + Size(s, 4)
        /\ Size(s, 1) \in Nat /\ Size(s, 2) \in Nat
        /\ Size(s, 3) \in Nat /\ Size(s, 4) \in Nat
        /\ Before(s, 1) \in Nat /\ Before(s, 2) \in Nat /\ Before(s, 3) \in Nat
        /\ Before(s, 4) \in Nat
    <3>1. \A q \in 1 .. 4 : Size(s, q) \in Nat
      <4> TAKE q \in 1 .. 4
      <4>1. Size(s, q) \in 2 .. 3
        BY <2>1
      <4> QED BY <4>1
    <3> QED BY <2>1, <3>1
  <2>3. i = 1 \/ i = 2 \/ i = 3 \/ i = 4
    OBVIOUS
  <2> HIDE DEF N
  <2>4. N = Before(s, 4) + Size(s, 4)
    BY <2>2 DEF N
  <2>5. Before(s, i) + Size(s, i) <= N
    <3>1. /\ Before(s, 1) + Size(s, 1) <= N /\ Before(s, 2) + Size(s, 2) <= N
          /\ Before(s, 3) + Size(s, 3) <= N /\ Before(s, 4) + Size(s, 4) <= N
      <4> DEFINE w == Before(s, 2)  x == Size(s, 2)  y == Size(s, 3)  z == Size(s, 4)
      <4>1. w \in Nat /\ x \in Nat /\ y \in Nat /\ z \in Nat
        BY <2>2
      <4>2. /\ Before(s, 1) + Size(s, 1) = w /\ Before(s, 2) + Size(s, 2) = w + x
            /\ Before(s, 3) + Size(s, 3) = w + x + y
            /\ Before(s, 4) + Size(s, 4) = w + x + y + z /\ N = w + x + y + z
        BY <2>2, <2>4
      <4> HIDE DEF w, x, y, z
      <4>3. /\ w <= w + x + y + z /\ w + x <= w + x + y + z
            /\ w + x + y <= w + x + y + z /\ w + x + y + z <= w + x + y + z
        BY <4>1
      <4> QED BY <4>2, <4>3, Zenon
    <3> QED BY <2>3, <3>1, Zenon
  <2>6. Before(s, i) \in Nat /\ Size(s, i) \in 2 .. 3
    BY <2>1
  <2> QED BY <1>1, <1>2, <2>5, <2>6
<1> HIDE DEF k
<1>3. /\ k # 0 /\ k # 1 /\ k # 2 /\ k # 3 + N /\ k # 4 + N /\ k # 5 + N
      /\ \A i \in 1 .. 4, j \in 0 .. 2 : j < Size(s, i) => k # 3 + Before(s, i) + j
  <2>1. \A i \in 1 .. 4, j \in 0 .. 2 : j < Size(s, i) => k # 3 + Before(s, i) + j
    <3> SUFFICES ASSUME NEW i \in 1 .. 4, NEW j \in 0 .. 2, j < Size(s, i)
                 PROVE  k # 3 + Before(s, i) + j
      OBVIOUS
    <3>1. 3 + Before(s, i) + j < 6 + N
      BY <1>2
    <3>2. 3 + Before(s, i) + j \in Int
      <4>1. \A q \in 1 .. 4 : Before(s, q) \in Nat
        BY SettingShape
      <4> QED BY <4>1
    <3> QED BY <1>1, <3>1, <3>2
  <2> QED BY <1>1, <2>1
<1>4. BootAt(o, s, k)
  BY DEF k
<1> QED BY <1>3, <1>4, Zenon DEF BootAt

\* A frame begins with the panel idle, and leaves it so, shown in full.
LEMMA FrameBegins ==
  ASSUME NEW s \in Styles, NEW f \in Int, NEW o, Idle(o, s)
  PROVE  FrameAt(o, s, f, 0)
  BY DEF FrameAt, PagesAt, BurstAt, Idle

LEMMA FrameEnds ==
  ASSUME NEW s \in Styles, NEW f \in Int, NEW o, FrameAt(o, s, f, Len(D!Frame(s, f)))
  PROVE  Idle(o, s) /\ ShowsPages(o, s, f, Rows)
<1>1. CASE s.mode # D!PAGE
  <2>1. BurstAt(o, s, f, 3)
    BY <1>1, FrameShape DEF FrameAt
  <2> QED BY <2>1 DEF BurstAt, Idle
<1>2. CASE s.mode = D!PAGE
  <2> DEFINE k == 2 + 6 * Rows
  <2>1. Rows \in Nat \ {0}
    BY Sizes
  <2>2. PagesAt(o, s, f, k)
    BY <1>2, PagesShape DEF FrameAt
  <2>3. k # 0 /\ k # 1 + 6 * Rows /\ \A r \in 0 .. Rows - 1, j \in 0 .. 5 : k # 1 + 6 * r + j
    BY <2>1
  <2> HIDE DEF k
  <2>4. Ready(o, s) /\ o.dc_high /\ ~o.selected /\ ShowsPages(o, s, f, Rows)
    BY <2>2, <2>3, Zenon DEF PagesAt
  <2> QED BY <2>4 DEF Idle
<1> QED BY <1>1, <1>2

\* The next access of a frame.
LEMMA FrameNext ==
  ASSUME NEW s \in Styles, NEW f \in Int, oled \in PanelState,
         NEW k \in 0 .. Len(D!Frame(s, f)), k < Len(D!Frame(s, f)), FrameAt(oled, s, f, k)
  PROVE  LET a == D!Frame(s, f)[k + 1]
         IN  /\ a.op \in Pins \cup {"spi", "dma"}
             /\ \A x \in Panels(a) : x \in PanelState /\ FrameAt(x, s, f, k + 1)
<1>1. CASE s.mode # D!PAGE
  <2>1. k \in 0 .. 2 /\ BurstAt(oled, s, f, k)
    <3>1. Len(D!Frame(s, f)) = 3
      BY <1>1, FrameShape
    <3>2. k \in 0 .. 2
      BY <3>1
    <3> QED BY <1>1, <3>2 DEF FrameAt
  <2> QED BY <1>1, <2>1, BurstNext DEF FrameAt
<1>2. CASE s.mode = D!PAGE
  <2>1. Rows \in Nat
    BY Sizes
  <2>2. k \in 0 .. 1 + 6 * Rows /\ PagesAt(oled, s, f, k)
    BY <1>2, <2>1, PagesShape DEF FrameAt
  <2> QED BY <1>2, <2>2, PageNext DEF FrameAt
<1> QED BY <1>1, <1>2

LEMMA TransferTypes ==
  /\ \A s \in Styles : D!Boot(s) \in Seq(Accesses)
  /\ \A s \in Styles, f \in Int : D!Frame(s, f) \in Seq(Accesses)
  /\ \A w \in Words : D!Word(w) \in Seq(Accesses) /\ Len(D!Word(w)) = 2
<1>1. \A s \in Styles, f \in Int : D!Frame(s, f) \in Seq(Accesses)
  <2> TAKE s \in Styles, f \in Int
  <2>1. s.mode # D!PAGE => D!Frame(s, f) \in Seq(Accesses)
    BY FrameShape
  <2>2. s.mode = D!PAGE => D!Frame(s, f) \in Seq(Accesses)
    BY PagesShape
  <2> QED BY <2>1, <2>2
<1> QED BY <1>1, BootShape, WordShape

-----------------------------------------------------------------------------
(* The invariant.                                                          *)

\* What the invariant speaks of.
tracked == <<oled, SPRIE, spri, style, under, todo, frame, last>>

LEMMA OledInvKept ==
  ASSUME OledInv, UNCHANGED tracked
  PROVE  OledInv'
<1> USE DEF tracked
<1>1. OledTypes'
  BY DEF OledInv, OledTypes
<1>2. BootInv'
  BY DEF OledInv, BootInv, Quiet
<1>3. NoneInv'
  BY DEF OledInv, NoneInv, Quiet, LastShown
<1>4. WordInv'
  BY DEF OledInv, WordInv, Quiet, LastShown
<1>5. FrameInv'
  BY DEF OledInv, FrameInv, Quiet
<1> QED BY <1>1, <1>2, <1>3, <1>4, <1>5 DEF OledInv

\* The set-up begins at power on and at reset.
LEMMA OledBegins ==
  ASSUME NEW s \in Styles,
         style' = s /\ oled' = D!deluge_oled_reset /\ SPRIE' = FALSE /\ spri' = FALSE,
         under' = "boot" /\ todo' = D!Boot(s) /\ frame' = 0 /\ last' = D!NoFrame
  PROVE  OledInv'
<1>1. D!Boot(s) \in Seq(Accesses)
  BY TransferTypes
<1>2. 0 \in 0 .. Len(D!Boot(s)) /\ Left(D!Boot(s), 0) = D!Boot(s)
  <2>1. 0 \in 0 .. Len(D!Boot(s))
    BY <1>1
  <2> QED BY <1>1, <2>1, LeftStep
<1>3. BootAt(oled', s, 0)
  BY PanelReset
<1>4. BootInv'
  <2>1. \E k \in 0 .. Len(D!Boot(s)) : todo' = Left(D!Boot(s), k) /\ BootAt(oled', s, k)
    BY <1>2, <1>3
  <2> QED BY <2>1 DEF BootInv, Quiet
<1>5. OledTypes'
  BY PanelReset DEF OledTypes
<1>6. NoneInv' /\ WordInv' /\ FrameInv'
  BY DEF NoneInv, WordInv, FrameInv
<1> QED BY <1>4, <1>5, <1>6 DEF OledInv

\* An access of the set-up or of a frame, with the receive interrupt disabled.
LEMMA DriveQuietly ==
  ASSUME D!Drive, Quiet, NEW a, a = Head(todo), a.op \in Pins \cup {"spi", "dma"}
  PROVE  /\ oled' \in Panels(a) /\ Quiet' /\ todo' = Tail(todo)
         /\ UNCHANGED <<style, under, frame, last>>
<1>1. /\ D!Command(a) \/ D!ArmInterrupt(a) \/ D!WriteData(a) \/ D!SendBurst(a)
      /\ todo' = Tail(todo) /\ UNCHANGED <<style, under, frame, last>>
  BY DEF D!Drive
<1>2. a.op \notin {"arm", "word"} /\ "spi" \notin Pins /\ "dma" \notin Pins
  BY DEF Pins
<1>3. CASE D!Command(a)
  <2>1. a.op \in Pins /\ oled' = D!Pin(a.op) /\ UNCHANGED <<SPRIE, spri>>
    BY <1>3 DEF D!Command, Pins
  <2> QED BY <1>1, <1>2, <2>1 DEF Panels, Quiet
<1>4. CASE D!ArmInterrupt(a)
  BY <1>2, <1>4 DEF D!ArmInterrupt
<1>5. ASSUME D!rza1l_rspi_write(TRUE, FALSE, SPRIE)
      PROVE  Quiet'
  BY <1>5 DEF D!rza1l_rspi_write, D!LineAfter, Quiet
<1>6. CASE D!WriteData(a)
  <2>1. a.op = "spi" /\ oled' = D!deluge_oled_spi_byte(oled, a.arg)
    BY <1>2, <1>6 DEF D!WriteData
  <2>2. oled' \in Panels(a)
    BY <2>1 DEF Panels
  <2> QED BY <1>1, <1>5, <1>6, <2>2 DEF D!WriteData
<1>7. CASE D!SendBurst(a)
  <2>1. oled' \in Panels(a)
    BY <1>7 DEF D!SendBurst, Panels
  <2> QED BY <1>1, <1>5, <1>7, <2>1 DEF D!SendBurst
<1> QED BY <1>1, <1>3, <1>4, <1>6, <1>7

LEMMA OledDrive ==
  ASSUME OledInv, D!Drive
  PROVE  OledInv'
<1>1. todo # <<>> /\ OledTypes
  BY DEF D!Drive, OledInv
<1>2. CASE under = "boot"
  <2> DEFINE B == D!Boot(style)
  <2>1. PICK k \in 0 .. Len(B) : todo = Left(B, k) /\ BootAt(oled, style, k)
    BY <1>2 DEF OledInv, BootInv
  <2>2. Quiet /\ last = D!NoFrame
    BY <1>2 DEF OledInv, BootInv
  <2>3. style \in Styles /\ oled \in PanelState /\ B \in Seq(Accesses)
    BY <1>1, TransferTypes DEF OledTypes
  <2>4. k < Len(B) /\ Head(todo) = B[k + 1] /\ Tail(todo) = Left(B, k + 1)
    <3>1. /\ Left(B, k) = <<>> <=> k = Len(B)
          /\ k < Len(B) =>
               Head(Left(B, k)) = B[k + 1] /\ Tail(Left(B, k)) = Left(B, k + 1)
      BY <2>3, LeftStep
    <3>2. k # Len(B)
      BY <1>1, <2>1, <3>1
    <3>3. k < Len(B)
      BY <2>3, <3>2
    <3> QED BY <2>1, <3>1, <3>3
  <2>5. /\ B[k + 1].op \in Pins \cup {"spi"}
        /\ \A x \in Panels(B[k + 1]) : x \in PanelState /\ BootAt(x, style, k + 1)
    BY <2>1, <2>3, <2>4, BootNext
  <2>6. /\ oled' \in Panels(B[k + 1]) /\ Quiet' /\ todo' = Tail(todo)
        /\ UNCHANGED <<style, under, frame, last>>
    BY <2>2, <2>4, <2>5, DriveQuietly
  <2>7. k + 1 \in 0 .. Len(B)
    BY <2>3, <2>4
  <2>8. BootInv'
    <3>1. todo' = Left(B, k + 1) /\ BootAt(oled', style, k + 1)
      BY <2>4, <2>5, <2>6
    <3>2. \E n \in 0 .. Len(B) : todo' = Left(B, n) /\ BootAt(oled', style, n)
      BY <2>7, <3>1
    <3> QED BY <2>2, <2>6, <3>2 DEF BootInv
  <2>9. OledTypes'
    BY <1>1, <2>5, <2>6 DEF OledTypes
  <2>10. NoneInv' /\ WordInv' /\ FrameInv'
    BY <1>2, <2>6 DEF NoneInv, WordInv, FrameInv
  <2> QED BY <2>8, <2>9, <2>10 DEF OledInv
<1>3. CASE under = "none"
  BY <1>1, <1>3 DEF OledInv, NoneInv
<1>4. CASE under = "frame"
  <2> DEFINE F == D!Frame(style, frame)
  <2>1. PICK k \in 0 .. Len(F) : todo = Left(F, k) /\ FrameAt(oled, style, frame, k)
    BY <1>4 DEF OledInv, FrameInv
  <2>2. Quiet /\ last = D!NoFrame
    BY <1>4 DEF OledInv, FrameInv
  <2>3. style \in Styles /\ oled \in PanelState /\ frame \in Int /\ F \in Seq(Accesses)
    BY <1>1, TransferTypes DEF OledTypes
  <2>4. k < Len(F) /\ Head(todo) = F[k + 1] /\ Tail(todo) = Left(F, k + 1)
    <3>1. /\ Left(F, k) = <<>> <=> k = Len(F)
          /\ k < Len(F) =>
               Head(Left(F, k)) = F[k + 1] /\ Tail(Left(F, k)) = Left(F, k + 1)
      BY <2>3, LeftStep
    <3>2. k # Len(F)
      BY <1>1, <2>1, <3>1
    <3>3. k < Len(F)
      BY <2>3, <3>2
    <3> QED BY <2>1, <3>1, <3>3
  <2>5. /\ F[k + 1].op \in Pins \cup {"spi", "dma"}
        /\ \A x \in Panels(F[k + 1]) : x \in PanelState /\ FrameAt(x, style, frame, k + 1)
    BY <2>1, <2>3, <2>4, FrameNext
  <2>6. /\ oled' \in Panels(F[k + 1]) /\ Quiet' /\ todo' = Tail(todo)
        /\ UNCHANGED <<style, under, frame, last>>
    BY <2>2, <2>4, <2>5, DriveQuietly
  <2>7. k + 1 \in 0 .. Len(F)
    BY <2>3, <2>4
  <2>8. FrameInv'
    <3>1. todo' = Left(F, k + 1) /\ FrameAt(oled', style, frame, k + 1)
      BY <2>4, <2>5, <2>6
    <3>2. \E n \in 0 .. Len(F) : todo' = Left(F, n) /\ FrameAt(oled', style, frame, n)
      BY <2>7, <3>1
    <3> QED BY <2>2, <2>6, <3>2 DEF FrameInv
  <2>9. OledTypes'
    BY <1>1, <2>5, <2>6 DEF OledTypes
  <2>10. BootInv' /\ NoneInv' /\ WordInv'
    BY <1>4, <2>6 DEF BootInv, NoneInv, WordInv
  <2> QED BY <2>8, <2>9, <2>10 DEF OledInv
<1>5. CASE under = "word"
  <2>1. PICK w \in Words, k \in 0 .. 2 :
          /\ todo = Left(D!Word(w), k)
          /\ k = 0 => Quiet
          /\ k = 1 => SPRIE /\ ~spri
          /\ k = 2 => spri
    BY <1>5 DEF OledInv, WordInv
  <2>2. Idle(oled, style) /\ LastShown
    BY <1>5 DEF OledInv, WordInv
  <2> DEFINE W == D!Word(w)  a == Head(todo)
  <2>3. W \in Seq(Accesses) /\ Len(W) = 2
    BY TransferTypes
  <2>4. k \in {0, 1} /\ Head(todo) = W[k + 1] /\ Tail(todo) = Left(W, k + 1)
    <3>1. k \in 0 .. Len(W)
      BY <2>3
    <3>2. /\ Left(W, k) = <<>> <=> k = Len(W)
          /\ k < Len(W) =>
               Head(Left(W, k)) = W[k + 1] /\ Tail(Left(W, k)) = Left(W, k + 1)
      BY <2>3, <3>1, LeftStep
    <3>3. k # 2
      BY <1>1, <2>1, <2>3, <3>2
    <3>4. k \in {0, 1} /\ k < Len(W)
      BY <2>3, <3>3
    <3> QED BY <2>1, <3>2, <3>4
  <2>5. /\ D!Command(a) \/ D!ArmInterrupt(a) \/ D!WriteData(a) \/ D!SendBurst(a)
        /\ todo' = Tail(todo) /\ UNCHANGED <<style, under, frame, last>>
    BY DEF D!Drive
  <2>6. /\ k = 0 => a.op = "arm"
        /\ k = 1 => a.op = "word"
    <3>1. \A op, c : D!Access(op, c).op = op
      BY DEF D!Access
    <3> QED BY <2>4, <3>1, WordShape
  <2> HIDE DEF a
  <2>7. /\ oled' = oled
        /\ k = 0 => SPRIE' /\ ~spri'
        /\ k = 1 => spri'
    <3>1. CASE k = 0
      BY <2>1, <2>5, <2>6, <3>1
         DEF D!Command, D!ArmInterrupt, D!WriteData, D!SendBurst, D!rza1l_rspi_write,
             D!LineAfter, Quiet
    <3>2. CASE k = 1
      <4>1. D!WriteData(a)
        BY <2>5, <2>6, <3>2 DEF D!Command, D!ArmInterrupt, D!SendBurst
      <4>2. ~oled.selected
        BY <2>2 DEF Idle
      <4>3. oled' = oled
        BY <4>1, <4>2 DEF D!WriteData, D!deluge_oled_spi_byte
      <4>4. spri'
        BY <2>1, <3>2, <4>1 DEF D!WriteData, D!rza1l_rspi_write, D!LineAfter
      <4> QED BY <3>2, <4>3, <4>4
    <3> QED BY <2>4, <3>1, <3>2
  <2>8. k + 1 \in 1 .. 2 /\ (k + 1 = 1 <=> k = 0) /\ (k + 1 = 2 <=> k = 1)
    BY <2>4
  <2>9. WordInv'
    <3>1. Idle(oled', style') /\ LastShown'
      BY <2>2, <2>5, <2>7 DEF LastShown
    <3>2. /\ todo' = Left(D!Word(w), k + 1)
          /\ k + 1 = 1 => SPRIE' /\ ~spri'
          /\ k + 1 = 2 => spri'
      BY <2>4, <2>5, <2>7, <2>8
    <3>3. \E v \in Words, n \in 0 .. 2 :
            /\ todo' = Left(D!Word(v), n)
            /\ n = 0 => Quiet'
            /\ n = 1 => SPRIE' /\ ~spri'
            /\ n = 2 => spri'
      BY <2>8, <3>2
    <3> QED BY <3>1, <3>3 DEF WordInv
  <2>10. OledTypes'
    BY <1>1, <2>5, <2>7 DEF OledTypes
  <2>11. BootInv' /\ NoneInv' /\ FrameInv'
    BY <1>5, <2>5 DEF BootInv, NoneInv, FrameInv
  <2> QED BY <2>9, <2>10, <2>11 DEF OledInv
<1> QED BY <1>1, <1>2, <1>3, <1>4, <1>5 DEF OledTypes

\* The word is acknowledged: the transfer is over, the panel not touched.
LEMMA OledWordInterrupt ==
  ASSUME OledInv, D!WordInterrupt
  PROVE  OledInv'
<1>1. spri /\ OledTypes
  BY DEF D!WordInterrupt, OledInv
<1>2. under = "word"
  BY <1>1 DEF OledInv, OledTypes, BootInv, NoneInv, FrameInv, Quiet
<1>3. Idle(oled, style) /\ LastShown
  BY <1>2 DEF OledInv, WordInv
<1>4. /\ under' = "none" /\ todo' = <<>> /\ SPRIE' = FALSE /\ spri' = FALSE
      /\ UNCHANGED <<oled, style, frame, last>>
  BY DEF D!WordInterrupt, D!rza1l_rspi_write, D!LineAfter
<1>5. NoneInv'
  BY <1>3, <1>4 DEF NoneInv, Quiet, LastShown
<1>6. OledTypes'
  BY <1>1, <1>4 DEF OledTypes
<1>7. BootInv' /\ WordInv' /\ FrameInv'
  BY <1>4 DEF BootInv, WordInv, FrameInv
<1> QED BY <1>5, <1>6, <1>7 DEF OledInv

LEMMA OledFinish ==
  ASSUME OledInv, D!Finish
  PROVE  OledInv'
<1>1. /\ todo = <<>> /\ under \in {"boot", "frame"} /\ under' = "none" /\ OledTypes
      /\ last' = IF under = "frame" THEN frame ELSE last
      /\ UNCHANGED <<oled, SPRIE, spri, style, todo, frame>>
  BY DEF D!Finish, OledInv
<1>2. Quiet /\ Idle(oled, style) /\ LastShown'
  <2>1. CASE under = "boot"
    <3> DEFINE B == D!Boot(style)
    <3>1. PICK k \in 0 .. Len(B) : todo = Left(B, k) /\ BootAt(oled, style, k)
      BY <2>1 DEF OledInv, BootInv
    <3>2. style \in Styles /\ B \in Seq(Accesses)
      BY <1>1, TransferTypes DEF OledTypes
    <3>3. k = Len(B)
      BY <1>1, <3>1, <3>2, LeftStep
    <3>4. Idle(oled, style)
      BY <3>1, <3>2, <3>3, BootEnds
    <3>5. Quiet /\ last = D!NoFrame /\ last' = last
      BY <1>1, <2>1 DEF OledInv, BootInv
    <3> QED BY <3>4, <3>5 DEF LastShown
  <2>2. CASE under = "frame"
    <3> DEFINE F == D!Frame(style, frame)
    <3>1. PICK k \in 0 .. Len(F) : todo = Left(F, k) /\ FrameAt(oled, style, frame, k)
      BY <2>2 DEF OledInv, FrameInv
    <3>2. style \in Styles /\ frame \in Int /\ F \in Seq(Accesses)
      BY <1>1, TransferTypes DEF OledTypes
    <3>3. k = Len(F)
      BY <1>1, <3>1, <3>2, LeftStep
    <3>4. Idle(oled, style) /\ ShowsPages(oled, style, frame, Rows)
      BY <3>1, <3>2, <3>3, FrameEnds
    <3>5. Quiet /\ last' = frame
      BY <1>1, <2>2 DEF OledInv, FrameInv
    <3> QED BY <1>1, <3>4, <3>5 DEF LastShown
  <2> QED BY <1>1, <2>1, <2>2
<1>3. NoneInv'
  BY <1>1, <1>2 DEF NoneInv, Quiet
<1>4. OledTypes'
  BY <1>1 DEF OledTypes
<1>5. BootInv' /\ WordInv' /\ FrameInv'
  BY <1>1 DEF BootInv, WordInv, FrameInv
<1> QED BY <1>3, <1>4, <1>5 DEF OledInv

LEMMA OledStart ==
  ASSUME OledInv, D!Start
  PROVE  OledInv'
<1>1. /\ under = "none" /\ under' = Head(queue) /\ OledTypes
      /\ UNCHANGED <<oled, SPRIE, spri, style>>
      /\ D!StartWord \/ D!StartFrame
  BY DEF D!Start, OledInv
<1>2. Quiet /\ Idle(oled, style) /\ LastShown
  BY <1>1 DEF OledInv, NoneInv
<1>3. CASE D!StartWord
  <2>1. under' = "word" /\ UNCHANGED <<frame, last>>
    BY <1>1, <1>3 DEF D!StartWord
  <2>2. PICK w \in Words : todo' = D!Word(w)
    BY <1>3 DEF D!StartWord
  <2>3. todo' = Left(D!Word(w), 0)
    <3>1. D!Word(w) \in Seq(Accesses) /\ 0 \in 0 .. Len(D!Word(w))
      BY TransferTypes
    <3> QED BY <2>2, <3>1, LeftStep
  <2>4. WordInv'
    <3>1. Idle(oled', style') /\ LastShown' /\ Quiet'
      BY <1>1, <1>2, <2>1 DEF LastShown, Quiet
    <3>2. 0 \in 0 .. 2 /\ 0 # 1
      OBVIOUS
    <3>3. \E v \in Words, n \in 0 .. 2 :
            /\ todo' = Left(D!Word(v), n)
            /\ n = 0 => Quiet'
            /\ n = 1 => SPRIE' /\ ~spri'
            /\ n = 2 => spri'
      BY <2>3, <3>1, <3>2
    <3> QED BY <3>1, <3>3 DEF WordInv
  <2>5. OledTypes'
    BY <1>1, <2>1 DEF OledTypes
  <2>6. BootInv' /\ NoneInv' /\ FrameInv'
    BY <2>1 DEF BootInv, NoneInv, FrameInv
  <2> QED BY <2>4, <2>5, <2>6 DEF OledInv
<1>4. CASE D!StartFrame
  <2>1. /\ under' = "frame" /\ last' = D!NoFrame /\ frame' = 1 - frame /\ frame' \in Int
        /\ todo' = D!Frame(style, frame')
    BY <1>1, <1>4 DEF D!StartFrame, OledTypes
  <2> DEFINE F == D!Frame(style, frame')
  <2>2. style \in Styles /\ F \in Seq(Accesses)
    BY <1>1, <2>1, TransferTypes DEF OledTypes
  <2>3. 0 \in 0 .. Len(F) /\ todo' = Left(F, 0)
    <3>1. 0 \in 0 .. Len(F)
      BY <2>2
    <3> QED BY <2>1, <2>2, <3>1, LeftStep
  <2>4. FrameAt(oled, style, frame', 0)
    BY <1>2, <2>1, <2>2, FrameBegins
  <2>5. FrameInv'
    <3>1. \E k \in 0 .. Len(F) : todo' = Left(F, k) /\ FrameAt(oled, style, frame', k)
      BY <2>3, <2>4
    <3>2. style' = style /\ oled' = oled /\ Quiet' /\ last' = D!NoFrame
      BY <1>1, <1>2, <2>1 DEF Quiet
    <3> QED BY <3>1, <3>2 DEF FrameInv
  <2>6. OledTypes'
    BY <1>1, <2>1 DEF OledTypes
  <2>7. BootInv' /\ NoneInv' /\ WordInv'
    BY <2>1 DEF BootInv, NoneInv, WordInv
  <2> QED BY <2>5, <2>6, <2>7 DEF OledInv
<1> QED BY <1>1, <1>3, <1>4

\* The invariant, with the picture (PictureIsFrame) as a consequence: once a
\* frame is sent the panel shows it byte for byte, in whichever addressing mode
\* and window it was set up and in whatever order the commands of the set-up
\* came, after any frames and words, and after a reset in the middle of a
\* command (deluge_oled_write_data, deluge_oled_write_command).
THEOREM PanelInvariance == D!Spec => []OledInv
<1>1. D!Init => OledInv
  <2> SUFFICES ASSUME D!Init
               PROVE  OledInv
    OBVIOUS
  <2>1. /\ oled = D!deluge_oled_reset /\ Quiet /\ style \in Styles
        /\ under = "boot" /\ todo = D!Boot(style) /\ frame = 0 /\ last = D!NoFrame
    BY DEF D!Init, Quiet
  <2>2. D!Boot(style) \in Seq(Accesses)
    BY <2>1, TransferTypes
  <2>3. 0 \in 0 .. Len(D!Boot(style)) /\ todo = Left(D!Boot(style), 0)
    <3>1. 0 \in 0 .. Len(D!Boot(style))
      BY <2>2
    <3> QED BY <2>1, <2>2, <3>1, LeftStep
  <2>4. BootAt(oled, style, 0) /\ oled \in PanelState
    BY <2>1, PanelReset
  <2>5. BootInv
    <3>1. \E k \in 0 .. Len(D!Boot(style)) :
            todo = Left(D!Boot(style), k) /\ BootAt(oled, style, k)
      BY <2>3, <2>4
    <3> QED BY <2>1, <3>1 DEF BootInv
  <2>6. OledTypes
    BY <2>1, <2>4 DEF OledTypes
  <2>7. NoneInv /\ WordInv /\ FrameInv
    BY <2>1 DEF NoneInv, WordInv, FrameInv
  <2> QED BY <2>5, <2>6, <2>7 DEF OledInv
<1>2. OledInv /\ [D!Next]_(D!vars) => OledInv'
  <2> SUFFICES ASSUME OledInv, [D!Next]_(D!vars)
               PROVE  OledInv'
    OBVIOUS
  <2>1. CASE D!Drive
    BY <2>1, OledDrive
  <2>2. CASE D!FrameInterrupt
    BY <2>2, OledInvKept DEF D!FrameInterrupt, D!driver, tracked
  <2>3. CASE D!WordInterrupt
    BY <2>3, OledWordInterrupt
  <2>4. CASE D!Finish
    BY <2>4, OledFinish
  <2>5. CASE D!Start
    BY <2>5, OledStart
  <2>6. ASSUME NEW kind \in {"word", "frame"}, D!Enqueue(kind)
        PROVE  OledInv'
    BY <2>6, OledInvKept DEF D!Enqueue, tracked
  <2>7. CASE D!Reset
    <3>1. style \in Styles
      BY DEF OledInv, OledTypes
    <3>2. /\ style' = style /\ oled' = D!deluge_oled_reset /\ SPRIE' = FALSE /\ spri' = FALSE
          /\ under' = "boot" /\ todo' = D!Boot(style) /\ frame' = 0 /\ last' = D!NoFrame
      BY <2>7 DEF D!Reset, D!ResetPanel
    <3> QED BY <3>1, <3>2, OledBegins
  <2>8. CASE UNCHANGED D!vars
    BY <2>8, OledInvKept DEF D!vars, D!driver, tracked
  <2> QED BY <2>1, <2>2, <2>3, <2>4, <2>5, <2>6, <2>7, <2>8 DEF D!Next, D!Serve
<1> QED BY <1>1, <1>2, PTL DEF D!Spec

THEOREM PictureRight == D!Spec => []PictureIsFrame
<1>1. OledInv => PictureIsFrame
  <2> SUFFICES ASSUME OledInv, last # D!NoFrame,
                      NEW r \in 0 .. Rows - 1, NEW c \in 0 .. Cols - 1
               PROVE  D!Shown(oled, r, c) = D!Cell(last, D!Position(r, c))
    BY DEF PictureIsFrame, D!PictureIsFrame
  <2>1. Ready(oled, style) /\ ShowsPages(oled, style, last, Rows) /\ style \in Styles
    BY DEF OledInv, OledTypes, BootInv, NoneInv, WordInv, FrameInv, Idle, LastShown
  <2>2. oled.page_start + r < Pages /\ oled.page_start = style.first
    <3>1. /\ style.first \in 0 .. Pages - Rows /\ Rows \in 1 .. Pages /\ Pages \in Nat
          /\ oled.page_start = style.first
      BY <2>1, Sizes, StyleFacts DEF Ready
    <3> QED BY <3>1
  <2>3. D!Shown(oled, r, c) = oled.gddram[style.first + r][c]
    BY <2>1, <2>2 DEF D!Shown, Ready
  <2>4. oled.gddram[style.first + r][c] = D!Cell(last, Spot(style, r, c))
    BY <2>1 DEF ShowsPages
  <2>5. Spot(style, r, c) = D!Position(r, c)
    BY DEF Spot, D!Position
  <2> QED BY <2>3, <2>4, <2>5
<1> QED BY <1>1, PanelInvariance, PTL

-----------------------------------------------------------------------------
(* The safety that QueueServed rests on.                                   *)

\* Each interrupt is the one that the transfer under way waits for: the line is
\* up when a word is sent and only then, and an end of transfer belongs to the
\* frame.  So no transfer waits for an interrupt that was not raised, and none
\* is ended by the interrupt of another (rza1l_rspi_write, and the comment at
\* src/src/hw/arm/rza1l_soc.c:414-415 on a queue that stalls).
InterruptsBelong ==
  /\ spri <=> under = "word" /\ todo = <<>>
  /\ ended => under = "frame"

EndBelongs == ended => under = "frame"

LEMMA EndStays ==
  ASSUME OledInv, EndBelongs, [D!Next]_(D!vars)
  PROVE  EndBelongs'
<1>1. CASE D!Drive
  <2> DEFINE a == Head(todo)
  <2>1. /\ todo # <<>> /\ ~ended /\ UNCHANGED <<style, under>>
        /\ (D!Command(a) \/ D!ArmInterrupt(a) \/ D!WriteData(a) \/ D!SendBurst(a))
    BY <1>1 DEF D!Drive
  <2>2. style \in Styles /\ oled \in PanelState /\ under \in {"boot", "none", "word", "frame"}
    BY DEF OledInv, OledTypes
  <2>3. CASE under = "boot"
    <3> DEFINE B == D!Boot(style)
    <3>1. PICK k \in 0 .. Len(B) : todo = Left(B, k) /\ BootAt(oled, style, k)
      BY <2>3 DEF OledInv, BootInv
    <3>2. B \in Seq(Accesses)
      BY <2>2, TransferTypes
    <3>3. k < Len(B) /\ a = B[k + 1]
      <4>1. /\ Left(B, k) = <<>> <=> k = Len(B)
            /\ k < Len(B) => Head(Left(B, k)) = B[k + 1]
        BY <3>2, LeftStep
      <4>2. k # Len(B)
        BY <2>1, <3>1, <4>1
      <4>3. k < Len(B)
        BY <3>2, <4>2
      <4> QED BY <3>1, <4>1, <4>3
    <3>4. a.op \in Pins \cup {"spi"}
      BY <2>2, <3>1, <3>3, BootNext
    <3>5. a.op # "dma"
      BY <3>4 DEF Pins
    <3> HIDE DEF a
    <3> QED BY <2>1, <3>5 DEF EndBelongs, D!Command, D!ArmInterrupt, D!WriteData, D!SendBurst
  <2>4. CASE under = "word"
    <3>1. PICK w \in Words, k \in 0 .. 2 : todo = Left(D!Word(w), k)
      BY <2>4 DEF OledInv, WordInv
    <3> DEFINE W == D!Word(w)
    <3>2. W \in Seq(Accesses) /\ Len(W) = 2
      BY TransferTypes
    <3>3. k \in {0, 1} /\ a = W[k + 1]
      <4>1. k \in 0 .. Len(W)
        BY <3>2
      <4>2. /\ Left(W, k) = <<>> <=> k = Len(W)
            /\ k < Len(W) => Head(Left(W, k)) = W[k + 1]
        BY <3>2, <4>1, LeftStep
      <4>3. k # 2
        BY <2>1, <3>1, <3>2, <4>2
      <4>4. k \in {0, 1} /\ k < Len(W)
        BY <3>2, <4>3
      <4> QED BY <3>1, <4>2, <4>4
    <3>4. a.op \in {"arm", "word"}
      <4>1. \A op, c : D!Access(op, c).op = op
        BY DEF D!Access
      <4> QED BY <3>3, <4>1, WordShape
    <3>5. a.op # "dma"
      BY <3>4
    <3> HIDE DEF a
    <3> QED BY <2>1, <3>5 DEF EndBelongs, D!Command, D!ArmInterrupt, D!WriteData, D!SendBurst
  <2>5. CASE under = "frame"
    BY <2>1, <2>5 DEF EndBelongs
  <2>6. under # "none"
    BY <2>1 DEF OledInv, NoneInv
  <2> QED BY <2>2, <2>3, <2>4, <2>5, <2>6
<1>2. CASE D!FrameInterrupt
  BY <1>2 DEF D!FrameInterrupt, EndBelongs
<1>3. CASE D!WordInterrupt
  <2>1. spri /\ ended' = ended
    BY <1>3 DEF D!WordInterrupt
  <2>2. under = "word"
    BY <2>1 DEF OledInv, OledTypes, BootInv, NoneInv, FrameInv, Quiet
  <2> QED BY <2>1, <2>2 DEF EndBelongs
<1>4. CASE D!Finish
  BY <1>4 DEF D!Finish, EndBelongs
<1>5. CASE D!Start
  BY <1>5 DEF D!Start, EndBelongs
<1>6. ASSUME NEW kind \in {"word", "frame"}, D!Enqueue(kind)
      PROVE  EndBelongs'
  BY <1>6 DEF D!Enqueue, EndBelongs
<1>7. CASE D!Reset
  BY <1>7 DEF D!Reset, EndBelongs
<1>8. CASE UNCHANGED D!vars
  BY <1>8 DEF D!vars, D!driver, EndBelongs
<1> QED BY <1>1, <1>2, <1>3, <1>4, <1>5, <1>6, <1>7, <1>8 DEF D!Next, D!Serve

THEOREM InterruptsMatch == D!Spec => []InterruptsBelong
<1>1. D!Init => EndBelongs
  BY DEF D!Init, EndBelongs
<1>2. OledInv /\ EndBelongs /\ [D!Next]_(D!vars) => EndBelongs'
  BY EndStays
<1>3. OledInv /\ EndBelongs => InterruptsBelong
  <2> SUFFICES ASSUME OledInv, EndBelongs PROVE InterruptsBelong
    OBVIOUS
  <2>1. ASSUME under = "word"
        PROVE  spri <=> todo = <<>>
    <3>1. PICK w \in Words, k \in 0 .. 2 :
            /\ todo = Left(D!Word(w), k)
            /\ k = 0 => Quiet
            /\ k = 1 => SPRIE /\ ~spri
            /\ k = 2 => spri
      BY <2>1 DEF OledInv, WordInv
    <3>2. D!Word(w) \in Seq(Accesses) /\ Len(D!Word(w)) = 2 /\ k \in 0 .. Len(D!Word(w))
      BY TransferTypes
    <3>3. Left(D!Word(w), k) = <<>> <=> k = Len(D!Word(w))
      BY <3>2, LeftStep
    <3>4. todo = <<>> <=> k = 2
      BY <3>1, <3>2, <3>3
    <3>5. k \in {0, 1, 2}
      OBVIOUS
    <3> QED BY <3>1, <3>4, <3>5 DEF Quiet
  <2>2. under # "word" => ~spri
    BY DEF OledInv, OledTypes, BootInv, NoneInv, FrameInv, Quiet
  <2> QED BY <2>1, <2>2 DEF InterruptsBelong, EndBelongs
<1> QED BY <1>1, <1>2, <1>3, PanelInvariance, PTL DEF D!Spec
=============================================================================
