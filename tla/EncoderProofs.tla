---------------------------- MODULE EncoderProofs ----------------------------
(***************************************************************************)
(* Proofs about the encoder device, and about the device with the          *)
(* interrupt routine that decodes it, for any set of encoders, any wiring, *)
(* any ring size that is a multiple of four greater than four, and any     *)
(* bounds on the turning.                                                  *)
(***************************************************************************)
EXTENDS EncoderIsr, TLAPS

-----------------------------------------------------------------------------
(* The inductive invariant.  RestAtDetent is not inductive: in the middle  *)
(* of a detent the phase is off rest by as many steps as the head is past  *)
(* a multiple of four.  While nothing is lost, four slots at a multiple of *)
(* four hold the four edges of one detent, so the head's offset in its     *)
(* block determines every phase.                                           *)

PinsFollowPhase == \A e \in Enc : pinA[e] = GrayA(phase[e]) /\ pinB[e] = GrayB(phase[e])

LiveEdges == \A i \in Slots : Live(i) => edgeQ[i] \in Edge

Blocks == \A i, j \in Slots :
            (Live(i) /\ Live(j) /\ i \div 4 = j \div 4) => edgeQ[i] = edgeQ[j]

MidDetent == \A e \in Enc :
  phase[e] = IF head % 4 # 0 /\ e = edgeQ[head].enc
             THEN ((head % 4) * PhaseStep(e, edgeQ[head].dir)) % 4
             ELSE 0

Aligned == tail % 4 = 0 /\ Blocks /\ MidDetent

IInv ==
  /\ TypeOK
  /\ NoOrphanLine
  /\ TimerMatchesRing
  /\ PinsFollowPhase
  /\ LiveEdges
  /\ ~lost => Aligned

-----------------------------------------------------------------------------
(* Ring arithmetic. *)

LEMMA RingTypes ==
  ASSUME NEW a \in Slots, NEW b \in Slots
  PROVE  Ahead(a, b) \in Slots /\ Wrap(a + 1) \in Slots
BY EncAssumption DEF Slots, Ahead, Wrap

\* Enqueueing k slots behind the tail keeps the old live slots and adds the
\* k slots found at distance less than k from the tail.
LEMMA RingGrow ==
  ASSUME NEW h \in Slots, NEW t \in Slots, NEW i \in Slots,
         NEW k \in Nat, k <= QSize - 1 - Ahead(h, t)
  PROVE  /\ Wrap(t + k) \in Slots
         /\ Ahead(h, Wrap(t + k)) = Ahead(h, t) + k
         /\ (Ahead(t, i) < k) => ~(Ahead(h, i) < Ahead(h, t))
         /\ (Ahead(h, i) < Ahead(h, t) + k)
              <=> (Ahead(h, i) < Ahead(h, t) \/ Ahead(t, i) < k)
BY EncAssumption DEF Slots, Ahead, Wrap

\* Consuming the head keeps every other live slot and no new one.
LEMMA RingShrink ==
  ASSUME NEW h \in Slots, NEW t \in Slots, NEW i \in Slots, h # t
  PROVE  (Ahead(Wrap(h + 1), i) < Ahead(Wrap(h + 1), t))
            <=> (i # h /\ Ahead(h, i) < Ahead(h, t))
BY EncAssumption DEF Slots, Ahead, Wrap

-----------------------------------------------------------------------------
LEMMA InitInv == Init => IInv
<1> SUFFICES ASSUME Init PROVE IInv
    OBVIOUS
<1>1. TypeOK
  <2>1. 0 \in Slots /\ QSize \in Nat
    BY EncAssumption DEF Slots
  <2>2. ackSeen \in BOOLEAN /\ armed \in BOOLEAN /\ lost \in BOOLEAN
    BY Zenon DEF Init
  <2>3. QED BY <2>1, <2>2 DEF Init, TypeOK
<1>2. \A i \in Slots : ~Live(i)
  BY EncAssumption DEF Init, Live, Ahead, Slots
<1>3. NoOrphanLine /\ TimerMatchesRing /\ PinsFollowPhase
  BY DEF Init, NoOrphanLine, TimerMatchesRing, PinsFollowPhase, GrayA, GrayB
<1>4. LiveEdges /\ Aligned
  BY <1>2 DEF Init, LiveEdges, Aligned, Blocks, MidDetent
<1>5. QED
  BY <1>1, <1>3, <1>4 DEF IInv

LEMMA StepHost ==
  ASSUME IInv, NEW e \in Enc, NEW d \in Dirs, EncoderStep(e, d)
  PROVE  IInv'
<1> DEFINE taken == IF Room < 4 THEN Room ELSE 4
           x == [enc |-> e, dir |-> d]
<1>1. /\ head \in Slots /\ tail \in Slots /\ head' = head
      /\ tail' = Wrap(tail + taken)
      /\ edgeQ \in [Slots -> Edge \cup {Stale}]
      /\ x \in Edge
      /\ UNCHANGED <<pinVars, irqVars, edgeMode>>
  BY DEF IInv, TypeOK, EncoderStep, Edge
<1>2. taken \in Nat /\ taken <= 4 /\ taken <= QSize - 1 - Ahead(head, tail)
  <2>1. Room \in Nat /\ Room = QSize - 1 - Ahead(head, tail)
    <3>1. Ahead(head, tail) \in Slots
      BY <1>1, RingTypes
    <3>2. QED BY <3>1, EncAssumption DEF Room, Slots
  <2>2. QED BY <2>1
<1>3. \A i \in Slots : edgeQ'[i] = IF Ahead(tail, i) < taken THEN x ELSE edgeQ[i]
  BY DEF EncoderStep
<1>4. tail' \in Slots /\ Ahead(head, tail') = Ahead(head, tail) + taken
  <2> HIDE DEF taken
  <2>1. QED BY <1>1, <1>2, RingGrow
<1>5. \A i \in Slots : Live(i)' <=> (Live(i) \/ Ahead(tail, i) < taken)
  <2> HIDE DEF taken
  <2>1. QED BY <1>1, <1>2, <1>4, RingGrow DEF Live, Ahead
<1>6. \A i \in Slots : Ahead(tail, i) < taken => ~Live(i)
  <2> HIDE DEF taken
  <2>1. QED BY <1>1, <1>2, RingGrow DEF Live
<1>7. TypeOK'
  BY <1>1, <1>3, <1>4 DEF TypeOK, IInv, EncoderStep, pinVars, irqVars
<1>8. NoOrphanLine' /\ PinsFollowPhase'
  BY <1>1 DEF IInv, NoOrphanLine, PinsFollowPhase, pinVars, irqVars
<1>9. TimerMatchesRing'
  <2>0. Ahead(head, tail) \in Slots /\ QSize \in Nat /\ taken \in Nat
    BY <1>1, <1>2, RingTypes, EncAssumption
  <2> HIDE DEF taken
  <2>1. taken > 0 <=> tail' # tail
    BY <1>1, <1>4, <2>0 DEF Slots, Wrap
  <2>2. taken > 0 => head # tail'
    BY <1>1, <1>4, <2>0 DEF Slots, Ahead
  <2>3. armed' = (armed \/ taken > 0)
    BY DEF EncoderStep, taken
  <2>4. QED
    <3>1. armed <=> head # tail
      BY DEF IInv, TimerMatchesRing
    <3>2. armed' <=> head' # tail'
      <4>1. CASE taken > 0
        BY <1>1, <2>2, <2>3, <4>1
      <4>2. CASE ~(taken > 0)
        <5>1. armed' <=> armed
          BY <2>3, <4>2
        <5>2. head' = head /\ tail' = tail
          BY <1>1, <2>1, <4>2
        <5>3. QED BY <3>1, <5>1, <5>2
      <4>3. QED BY <4>1, <4>2
    <3>3. QED BY <3>2 DEF TimerMatchesRing
<1>10. LiveEdges'
  BY <1>1, <1>3, <1>5, <1>6 DEF IInv, LiveEdges
<1>11. ASSUME ~lost' PROVE Aligned'
  <2>1. taken = 4 /\ ~lost /\ Aligned
    <3>1. lost' = (lost \/ taken < 4)
      BY DEF EncoderStep
    <3>2. QED BY <1>2, <1>11, <3>1 DEF IInv
  <2>2. tail' % 4 = 0
    BY <1>1, <2>1, EncAssumption DEF Aligned, Wrap, Slots
  <2>3. \A i \in Slots : Ahead(tail, i) < 4 <=> i \div 4 = tail \div 4
    BY <1>1, <2>1, EncAssumption DEF Aligned, Ahead, Slots
  <2>4. ASSUME NEW i \in Slots, NEW j \in Slots, Live(i)', Live(j)',
               i \div 4 = j \div 4
        PROVE  edgeQ'[i] = edgeQ'[j]
    <3>1. CASE i \div 4 = tail \div 4
      BY <1>3, <2>1, <2>3, <2>4, <3>1
    <3>2. CASE i \div 4 # tail \div 4
      <4>1. Live(i) /\ Live(j) /\ edgeQ'[i] = edgeQ[i] /\ edgeQ'[j] = edgeQ[j]
        BY <1>3, <1>5, <2>1, <2>3, <2>4, <3>2
      <4>2. QED BY <2>1, <2>4, <4>1 DEF Aligned, Blocks
    <3>3. QED BY <3>1, <3>2
  <2>5. MidDetent'
    <3>1. CASE head % 4 = 0
      BY <1>1, <2>1, <3>1 DEF Aligned, MidDetent, pinVars
    <3>2. CASE head % 4 # 0
      <4>1. head # tail
        BY <2>1, <3>2 DEF Aligned
      <4>2. Live(head)
        BY <1>1, <4>1, EncAssumption DEF Live, Ahead, Slots
      <4>3. edgeQ'[head] = edgeQ[head]
        BY <1>1, <1>3, <1>6, <4>2
      <4>4. QED BY <1>1, <2>1, <4>3 DEF Aligned, MidDetent, pinVars
    <3>3. QED BY <3>1, <3>2
  <2>6. QED BY <2>2, <2>4, <2>5 DEF Aligned, Blocks
<1>12. QED
  BY <1>7, <1>8, <1>9, <1>10, <1>11 DEF IInv

LEMMA StepTimer ==
  ASSUME IInv, EdgeTimer
  PROVE  IInv'
<1> DEFINE x == edgeQ[head]
           p == (phase[x.enc] + PhaseStep(x.enc, x.dir)) % 4
<1>1. head # tail
  BY DEF EdgeTimer, IInv, TimerMatchesRing
<1>2. /\ ApplyEdge(x)
      /\ edgeQ' = [edgeQ EXCEPT ![head] = Stale]
      /\ head' = Wrap(head + 1)
      /\ armed' = (head' # tail)
      /\ UNCHANGED <<edgeMode, ackSeen, tail, lost>>
  BY <1>1 DEF EdgeTimer
<1>3. head \in Slots /\ tail \in Slots /\ TypeOK
  BY DEF IInv, TypeOK
<1>4. x \in Edge
  <2>1. Live(head)
    BY <1>1, <1>3, EncAssumption DEF Live, Ahead, Slots
  <2>2. QED BY <1>3, <2>1 DEF IInv, LiveEdges
<1>5. x.enc \in Enc /\ x.dir \in Dirs /\ phase[x.enc] \in 0 .. 3 /\ p \in 0 .. 3
  BY <1>3, <1>4 DEF Edge, TypeOK, PhaseStep
<1>6. /\ phase' = [phase EXCEPT ![x.enc] = p]
      /\ pinA' = [pinA EXCEPT ![x.enc] = GrayA(p)]
      /\ pinB' = [pinB EXCEPT ![x.enc] = GrayB(p)]
  BY <1>2 DEF ApplyEdge
<1>7. PICK moved \in SUBSET Enc : irqrr' = irqrr \cup moved /\ line' = line \cup moved
  BY <1>2, <1>5 DEF ApplyEdge
<1>8. head' \in Slots
  BY <1>2, <1>3, RingTypes
<1>9. \A i \in Slots : Live(i)' <=> (i # head /\ Live(i))
  BY <1>1, <1>2, <1>3, RingShrink DEF Live, Ahead
<1>10. TypeOK'
  <2>1. GrayA(p) \in {0, 1} /\ GrayB(p) \in {0, 1}
    BY DEF GrayA, GrayB
  <2>2. phase' \in [Enc -> 0 .. 3] /\ pinA' \in [Enc -> {0, 1}] /\ pinB' \in [Enc -> {0, 1}]
    <3> HIDE DEF x, p
    <3>1. QED BY <1>3, <1>5, <1>6, <2>1 DEF TypeOK
  <2>3. edgeQ' \in [Slots -> Edge \cup {Stale}]
    BY <1>2, <1>3 DEF TypeOK
  <2>4. irqrr' \subseteq Enc /\ line' \subseteq Enc /\ edgeMode' \subseteq Enc
    BY <1>2, <1>3, <1>7 DEF TypeOK
  <2>5. ackSeen' \in BOOLEAN /\ armed' \in BOOLEAN /\ lost' \in BOOLEAN
    BY <1>2, <1>3 DEF TypeOK
  <2>6. QED BY <1>2, <1>3, <1>8, <2>2, <2>3, <2>4, <2>5 DEF TypeOK
<1>11. NoOrphanLine' /\ TimerMatchesRing'
  BY <1>2, <1>7 DEF IInv, NoOrphanLine, TimerMatchesRing
<1>12. PinsFollowPhase'
  <2> HIDE DEF x, p
  <2>1. QED BY <1>3, <1>5, <1>6 DEF IInv, TypeOK, PinsFollowPhase
<1>13. LiveEdges'
  BY <1>2, <1>3, <1>9 DEF IInv, TypeOK, LiveEdges
<1>14. ASSUME ~lost' PROVE Aligned'
  <2>1. Aligned
    BY <1>2, <1>14 DEF IInv
  <2>2. tail' % 4 = 0
    BY <1>2, <2>1 DEF Aligned
  <2>3. Blocks'
    BY <1>2, <1>3, <1>9, <2>1 DEF Aligned, Blocks, TypeOK
  <2>4. (head' % 4 = 0) <=> (head % 4 = 3)
    BY <1>2, <1>3, EncAssumption DEF Wrap, Slots
  <2>5. head % 4 # 3 => head' % 4 = (head % 4) + 1 /\ head' = head + 1
                        /\ head' \div 4 = head \div 4 /\ head' # tail
    BY <1>2, <1>3, <2>1, EncAssumption DEF Wrap, Slots, Aligned
  <2>6. head % 4 # 3 => edgeQ'[head'] = x
    <3> HAVE head % 4 # 3
    <3>1. Live(head')
      BY <1>1, <1>3, <1>8, <2>5, EncAssumption DEF Live, Ahead, Slots
    <3>2. Live(head)
      BY <1>1, <1>3, EncAssumption DEF Live, Ahead, Slots
    <3>3. edgeQ[head'] = edgeQ[head]
      BY <1>3, <1>8, <2>1, <2>5, <3>1, <3>2 DEF Aligned, Blocks
    <3>4. head' # head
      BY <1>3, <2>5 DEF Slots
    <3>5. QED BY <1>2, <1>3, <1>8, <3>3, <3>4 DEF TypeOK
  <2>7. phase[x.enc] = ((head % 4) * PhaseStep(x.enc, x.dir)) % 4
    <3>1. CASE head % 4 = 0
      BY <1>5, <2>1, <3>1 DEF Aligned, MidDetent, PhaseStep
    <3>2. CASE head % 4 # 0
      BY <1>5, <2>1, <3>2 DEF Aligned, MidDetent
    <3>3. QED BY <3>1, <3>2
  <2>8. p = (((head % 4) + 1) * PhaseStep(x.enc, x.dir)) % 4
    <3>1. head % 4 \in 0 .. 3 /\ PhaseStep(x.enc, x.dir) \in {1, 3}
      BY <1>3, EncAssumption DEF Slots, PhaseStep
    <3> HIDE DEF x
    <3>2. QED BY <2>7, <3>1
  <2>9. ASSUME NEW f \in Enc, f # x.enc PROVE phase'[f] = 0 /\ phase[f] = 0
    BY <1>3, <1>6, <2>1, <2>9 DEF Aligned, MidDetent, TypeOK
  <2>10. phase'[x.enc] = p
    BY <1>3, <1>5, <1>6 DEF TypeOK
  <2>11. MidDetent'
    <3>1. CASE head % 4 = 3
      <4>1. p = 0
        <5>1. PhaseStep(x.enc, x.dir) \in {1, 3}
          BY DEF PhaseStep
        <5> HIDE DEF x
        <5>2. QED BY <2>8, <3>1, <5>1
      <4>2. QED BY <2>4, <2>9, <2>10, <3>1, <4>1 DEF MidDetent
    <3>2. CASE head % 4 # 3
      <4>1. head' % 4 # 0 /\ head' % 4 = (head % 4) + 1 /\ edgeQ'[head'] = x
        BY <2>4, <2>5, <2>6, <3>2
      <4> SUFFICES ASSUME NEW f \in Enc
                   PROVE  phase'[f] = IF f = x.enc
                                      THEN (((head % 4) + 1) * PhaseStep(f, x.dir)) % 4
                                      ELSE 0
        BY <4>1 DEF MidDetent, PhaseStep
      <4>2. QED BY <2>8, <2>9, <2>10
    <3>3. QED BY <3>1, <3>2
  <2>12. QED BY <2>2, <2>3, <2>11 DEF Aligned
<1>15. QED
  BY <1>10, <1>11, <1>12, <1>13, <1>14 DEF IInv

\* The firmware's accesses leave the pins and the ring alone.
LEMMA StepFirmware ==
  ASSUME IInv, Firmware
  PROVE  IInv' /\ UNCHANGED pinVars
<1>1. UNCHANGED <<pinVars, ringVars>>
  BY DEF Firmware, ReadPins, WriteRequests, WriteSense, ringVars
<1> DEFINE Good == /\ irqrr' \subseteq Enc /\ line' \subseteq irqrr'
                   /\ edgeMode' \subseteq Enc /\ ackSeen' \in BOOLEAN
<1>2. Good
  <2>1. irqrr \subseteq Enc /\ line \subseteq irqrr /\ edgeMode \subseteq Enc /\ ackSeen \in BOOLEAN
    BY DEF IInv, TypeOK, NoOrphanLine
  <2>2. ASSUME NEW bytes, ReadPins(bytes) PROVE Good
    BY <2>1, <2>2 DEF ReadPins
  <2>3. ASSUME NEW bits \in SUBSET Enc, WriteRequests(bits) PROVE Good
    BY <2>1, <2>3 DEF WriteRequests
  <2>4. ASSUME NEW encs \in SUBSET Enc, WriteSense(encs) PROVE Good
    BY <2>1, <2>4 DEF WriteSense, irqVars
  <2>5. QED BY <2>2, <2>3, <2>4 DEF Firmware
<1>3. TypeOK' /\ NoOrphanLine'
  BY <1>1, <1>2 DEF IInv, TypeOK, NoOrphanLine, pinVars, ringVars
<1>4. TimerMatchesRing' /\ PinsFollowPhase' /\ LiveEdges'
  BY <1>1 DEF IInv, TimerMatchesRing, PinsFollowPhase, LiveEdges, Live, pinVars, ringVars
<1>5. ~lost' => Aligned'
  BY <1>1 DEF IInv, Aligned, Blocks, MidDetent, Live, pinVars, ringVars
<1>6. QED
  BY <1>1, <1>3, <1>4, <1>5 DEF IInv

LEMMA StepReset ==
  ASSUME IInv, Reset
  PROVE  IInv'
<1>1. 0 \in Slots
  BY EncAssumption DEF Slots
<1>2. TypeOK'
  <2>1. ackSeen' \in BOOLEAN /\ armed' \in BOOLEAN /\ lost' \in BOOLEAN
    BY Zenon DEF Reset
  <2>2. QED BY <1>1, <2>1 DEF Reset, TypeOK
<1>3. \A i \in Slots : ~Live(i)'
  BY EncAssumption DEF Reset, Live, Ahead, Slots
<1>4. NoOrphanLine' /\ TimerMatchesRing' /\ PinsFollowPhase'
  BY DEF Reset, NoOrphanLine, TimerMatchesRing, PinsFollowPhase, GrayA, GrayB
<1>5. LiveEdges' /\ Aligned'
  BY <1>3 DEF Reset, LiveEdges, Aligned, Blocks, MidDetent
<1>6. QED
  BY <1>2, <1>4, <1>5 DEF IInv

LEMMA StepRestore ==
  ASSUME IInv, Restore
  PROVE  IInv' /\ UNCHANGED pinVars
<1>1. 0 \in Slots
  BY EncAssumption DEF Slots
<1>2. TypeOK'
  <2>1. ackSeen' \in BOOLEAN /\ armed' \in BOOLEAN
    BY Zenon DEF Restore
  <2>2. lost' \in BOOLEAN
    BY DEF Restore, IInv, TypeOK
  <2>3. QED BY <1>1, <2>1, <2>2 DEF Restore, IInv, TypeOK, pinVars
<1>3. \A i \in Slots : ~Live(i)'
  BY EncAssumption DEF Restore, Live, Ahead, Slots
<1>4. NoOrphanLine' /\ TimerMatchesRing' /\ PinsFollowPhase'
  BY DEF Restore, IInv, NoOrphanLine, TimerMatchesRing, PinsFollowPhase, pinVars
<1>5. LiveEdges' /\ (~lost' => Aligned')
  <2>1. LiveEdges'
    BY <1>3 DEF LiveEdges
  <2>2. ASSUME ~lost' PROVE Aligned'
    <3>1. head = tail /\ Aligned
      BY <2>2 DEF Restore, IInv
    <3>2. \A e \in Enc : phase[e] = 0
      BY <3>1 DEF Aligned, MidDetent
    <3>3. QED BY <1>3, <3>2 DEF Restore, Aligned, Blocks, MidDetent, pinVars
  <2>3. QED BY <2>1, <2>2
<1>6. QED
  BY <1>2, <1>4, <1>5 DEF IInv, Restore

LEMMA StutterInv ==
  ASSUME IInv, UNCHANGED vars
  PROVE  IInv'
BY DEF vars, IInv, TypeOK, NoOrphanLine, TimerMatchesRing, PinsFollowPhase,
       LiveEdges, Aligned, Blocks, MidDetent, Live

LEMMA NextInv == IInv /\ [Next]_vars => IInv'
<1> SUFFICES ASSUME IInv, [Next]_vars PROVE IInv'
    OBVIOUS
<1>1. CASE Host
  BY <1>1, StepHost DEF Host
<1>2. CASE EdgeTimer
  BY <1>2, StepTimer
<1>3. CASE Firmware
  BY <1>3, StepFirmware
<1>4. CASE Reset
  BY <1>4, StepReset
<1>5. CASE Restore
  BY <1>5, StepRestore
<1>6. CASE UNCHANGED vars
  BY <1>6, StutterInv
<1>7. QED
  BY <1>1, <1>2, <1>3, <1>4, <1>5, <1>6 DEF Next

(* The inductive invariant holds of every behaviour of the device.         *)
THEOREM Invariance == Spec => []IInv
<1>1. QED
  BY InitInv, NextInv, PTL DEF Spec

(* Types: every index stays in the ring, every phase in 0..3 (the register *)
(* and ring fields of rza1l_gpio.c).                                       *)
THEOREM TypeCorrect == Spec => []TypeOK
<1>1. IInv => TypeOK
  BY DEF IInv
<1>2. QED
  BY <1>1, Invariance, PTL

(* An asserted interrupt line always has its request bit, so the firmware  *)
(* can release it, whatever it has written before (rza1l_intc_write).      *)
THEOREM LinesReleasable == Spec => []NoOrphanLine
<1>1. IInv => NoOrphanLine
  BY DEF IInv
<1>2. QED
  BY <1>1, Invariance, PTL

(* The edge timer is pending exactly while edges are queued                *)
(* (rza1l_gpio_enqueue_edge, rza1l_gpio_edge_cb).                          *)
THEOREM TimerExact == Spec => []TimerMatchesRing
<1>1. IInv => TimerMatchesRing
  BY DEF IInv
<1>2. QED
  BY <1>1, Invariance, PTL

(* Every accepted detent leaves its encoder at rest, for any ring size     *)
(* that is a multiple of four (rza1l_gpio_encoder_step).                   *)
THEOREM DetentsComplete == Spec => []RestAtDetent
<1>1. IInv => RestAtDetent
  <2> SUFFICES ASSUME IInv, head = tail, ~lost, NEW e \in Enc
               PROVE  phase[e] = 0 /\ pinA[e] = 0 /\ pinB[e] = 0
      BY DEF RestAtDetent
  <2>1. phase[e] = 0
    BY DEF IInv, Aligned, MidDetent
  <2>2. QED BY <2>1 DEF IInv, PinsFollowPhase, GrayA, GrayB
<1>2. QED
  BY <1>1, Invariance, PTL

-----------------------------------------------------------------------------
\* One application of an edge: which pin moves and what it decodes to.
LEMMA GrayStep ==
  ASSUME NEW e \in Enc, NEW d \in Dirs, NEW p \in 0 .. 3, NEW q,
         q = (p + PhaseStep(e, d)) % 4
  PROVE  /\ GrayA(q) = GrayA(p) \/ GrayB(q) = GrayB(p)
         /\ GrayA(q) # GrayA(p) => Decode(e, GrayA(q), GrayB(q)) = d
<1>1. CASE e \in Invert
  BY <1>1 DEF Dirs, PhaseStep, GrayA, GrayB, Decode
<1>2. CASE e \notin Invert
  BY <1>2 DEF Dirs, PhaseStep, GrayA, GrayB, Decode
<1>3. QED BY <1>1, <1>2

\* What a timer step does to the pins.
LEMMA TimerPins ==
  ASSUME IInv, EdgeTimer
  PROVE  LET x == edgeQ[head] IN
         /\ x \in Edge
         /\ \A e \in Enc \ {x.enc} : pinA'[e] = pinA[e] /\ pinB'[e] = pinB[e]
         /\ pinA'[x.enc] = pinA[x.enc] \/ pinB'[x.enc] = pinB[x.enc]
         /\ pinA'[x.enc] # pinA[x.enc] =>
              x.enc \in line' /\ Decode(x.enc, pinA'[x.enc], pinB'[x.enc]) = x.dir
<1> DEFINE x == edgeQ[head]
           p == (phase[x.enc] + PhaseStep(x.enc, x.dir)) % 4
<1>1. head # tail /\ head \in Slots /\ tail \in Slots /\ TypeOK
  BY DEF EdgeTimer, IInv, TypeOK, TimerMatchesRing
<1>2. ApplyEdge(x)
  BY <1>1 DEF EdgeTimer
<1>3. x \in Edge
  <2>1. Live(head)
    BY <1>1, EncAssumption DEF Live, Ahead, Slots
  <2>2. QED BY <1>1, <2>1 DEF IInv, LiveEdges
<1>4. x.enc \in Enc /\ x.dir \in Dirs /\ phase[x.enc] \in 0 .. 3
  BY <1>1, <1>3 DEF Edge, TypeOK
<1>5. /\ pinA' = [pinA EXCEPT ![x.enc] = GrayA(p)]
      /\ pinB' = [pinB EXCEPT ![x.enc] = GrayB(p)]
      /\ line' = line \cup (IF GrayA(p) # GrayA(phase[x.enc]) THEN {x.enc} ELSE {})
  BY <1>2 DEF ApplyEdge
<1>6. pinA[x.enc] = GrayA(phase[x.enc]) /\ pinB[x.enc] = GrayB(phase[x.enc])
  BY <1>4 DEF IInv, PinsFollowPhase
<1>7. /\ GrayA(p) = GrayA(phase[x.enc]) \/ GrayB(p) = GrayB(phase[x.enc])
      /\ GrayA(p) # GrayA(phase[x.enc]) => Decode(x.enc, GrayA(p), GrayB(p)) = x.dir
  <2> HIDE DEF x
  <2>1. QED BY <1>4, GrayStep
<1> HIDE DEF x, p
<1>8. pinA'[x.enc] = GrayA(p) /\ pinB'[x.enc] = GrayB(p)
  BY <1>1, <1>4, <1>5 DEF TypeOK
<1>9. \A e \in Enc \ {x.enc} : pinA'[e] = pinA[e] /\ pinB'[e] = pinB[e]
  BY <1>1, <1>5 DEF TypeOK
<1>10. x.enc \in line' \/ GrayA(p) = GrayA(phase[x.enc])
  BY <1>5
<1>11. QED
  BY <1>3, <1>6, <1>7, <1>8, <1>9, <1>10 DEF x

LEMMA HostKeepsPins ==
  ASSUME Host
  PROVE  UNCHANGED pinVars
BY DEF Host, EncoderStep

(* The decoder never sees two pins move at once.                           *)
THEOREM Quadrature == Spec => OnePinMoves
<1> DEFINE A == Reset \/ (/\ \A e, f \in MovedA \cup MovedB : e = f
                         /\ MovedA \cap MovedB = {})
<1>1. IInv /\ [Next]_vars => [A]_vars
  <2> SUFFICES ASSUME IInv, Next PROVE A
      OBVIOUS
  <2>1. ASSUME UNCHANGED pinVars PROVE A
    BY <2>1 DEF pinVars, MovedA, MovedB
  <2>2. CASE EdgeTimer
    BY <2>2, TimerPins DEF MovedA, MovedB
  <2>3. QED
    BY <2>1, <2>2, HostKeepsPins, StepFirmware, StepRestore DEF Next
<1>2. QED
  BY <1>1, Invariance, PTL DEF Spec, OnePinMoves

(* Every interrupt edge carries the direction the host turned.             *)
THEOREM DirectionCarried == Spec => EdgeShowsDirection
<1> DEFINE A == Reset \/ \A e \in MovedA :
                  /\ e \in line'
                  /\ edgeQ[head].enc = e
                  /\ Decode(e, pinA'[e], pinB'[e]) = edgeQ[head].dir
<1>1. IInv /\ [Next]_vars => [A]_vars
  <2> SUFFICES ASSUME IInv, Next PROVE A
      OBVIOUS
  <2>1. ASSUME UNCHANGED pinVars PROVE A
    BY <2>1 DEF pinVars, MovedA
  <2>2. CASE EdgeTimer
    BY <2>2, TimerPins DEF MovedA
  <2>3. QED
    BY <2>1, <2>2, HostKeepsPins, StepFirmware, StepRestore DEF Next
<1>2. QED
  BY <1>1, Invariance, PTL DEF Spec, EdgeShowsDirection

-----------------------------------------------------------------------------
(* The device with a routine that keeps up.  What the firmware has counted *)
(* and what the host has turned differ by what is on the way: the edges in *)
(* the ring and, of each encoder, at most one A edge that has interrupted  *)
(* and is not decoded yet.                                                 *)
(* The edges in the ring are summed without recursion: there are running   *)
(* sums over the slots, which begin at the firmware's count and end at two *)
(* per detent.                                                             *)

\* The A pin moves with the edge in slot i: every other edge of a detent.
AMoves(e, d, i) == i % 4 \in (IF PhaseStep(e, d) = 1 THEN {0, 2} ELSE {1, 3})

Counted(e, i) ==
  IF edgeQ[i].enc = e /\ AMoves(e, edgeQ[i].dir, i) THEN edgeQ[i].dir ELSE 0

\* Encoders whose last A edge is not decoded yet.
Owed ==
  IF style = "gic" THEN Unsampled
  ELSE IF isr = None THEN Requests ELSE IF "pins" \in todo THEN {isr} ELSE {}

Due(e) == IF e \in Owed THEN Decode(e, pinA[e], pinB[e]) ELSE 0

Account(sum) ==
  /\ \A e \in Enc, i \in Slots : sum[e][i] \in -(2 * turns) .. 2 * turns
  /\ \A e \in Enc : sum[e][head] = decoded[e] + Due(e)
  /\ \A e \in Enc, i \in Slots : Live(i) => sum[e][Wrap(i + 1)] = sum[e][i] + Counted(e, i)
  /\ \A e \in Enc : sum[e][tail] = 2 * turned[e]

Accounted == ~lost => \E sum \in [Enc -> [Slots -> Int]] : Account(sum)

IsrTypes ==
  /\ style \in {"boot", "irqrr", "gic"}
  /\ isr \in Enc \cup {None} /\ pend \subseteq Enc /\ seen \subseteq Enc
  /\ todo \subseteq {"pins", "request", "ack"} /\ (isr = None => todo = {})
  /\ decoded \in [Enc -> Int] /\ turned \in [Enc -> Int]
  /\ turns \in Nat /\ (prompt => turns <= MaxTurns)

\* Nothing is turned before the firmware has programmed the sense register.
Booting ==
  style = "boot" => head = tail /\ isr = None /\ line = {} /\ pend = {} /\ ~ackSeen

\* The read of the pins lowers the lines of edge-triggered interrupts, all
\* at once; each of them is latched until its own routine samples the pins.
ServedByRead ==
  style = "gic" =>
    /\ ~ackSeen /\ edgeMode = Enc /\ todo \subseteq {"pins"}
    /\ line \subseteq Unsampled
    /\ "pins" \in todo => isr \notin pend

\* The write of the request register lowers the line of a level-triggered
\* one, if the routine has read the request.
ServedByAck ==
  style = "irqrr" /\ isr # None =>
    /\ line \subseteq {isr}
    /\ "request" \in todo => "ack" \in todo
    /\ "request" \notin todo /\ "ack" \in todo => line \subseteq seen
    /\ "ack" \notin todo => line = {}

OneRequest == style # "gic" => \A e, f \in Requests : e = f

Served == Booting /\ ServedByRead /\ ServedByAck /\ OneRequest

IsrInv ==
  /\ IInv
  /\ IsrTypes
  /\ prompt => Served /\ Accounted

-----------------------------------------------------------------------------
LEMMA IsrInitInv == IsrInit => IsrInv
<1> SUFFICES ASSUME IsrInit PROVE IsrInv
    OBVIOUS
<1>1. IInv
  BY InitInv DEF IsrInit
<1>2. IsrTypes
  BY IsrAssumption DEF IsrInit, IsrTypes
<1>3. Booting /\ ServedByRead /\ ServedByAck /\ OneRequest
  BY DEF IsrInit, Init, Booting, ServedByRead, ServedByAck, OneRequest, Requests, Unsampled
<1>4. Accounted
  <2> DEFINE sum == [e \in Enc |-> [i \in Slots |-> 0]]
  <2>1. sum \in [Enc -> [Slots -> Int]]
    OBVIOUS
  <2>2. head \in Slots /\ tail \in Slots /\ turns = 0
    BY <1>1 DEF IsrInit, IInv, TypeOK
  <2>3. \A i \in Slots : ~Live(i)
    BY EncAssumption DEF IsrInit, Init, Live, Ahead, Slots
  <2>4. \A e \in Enc : decoded[e] = 0 /\ turned[e] = 0 /\ Due(e) = 0
    BY DEF IsrInit, Due, Owed, Requests, Unsampled
  <2>5. Account(sum)
    BY <2>2, <2>3, <2>4 DEF Account
  <2> QED BY <2>1, <2>5 DEF Accounted
<1> QED BY <1>1, <1>2, <1>3, <1>4 DEF IsrInv, Served

\* The device inside the system makes steps of its own specification.
LEMMA DeviceStep ==
  ASSUME IsrInv, [IsrNext]_allVars
  PROVE  IInv'
<1>1. IInv /\ seen \subseteq Enc
  BY DEF IsrInv, IsrTypes
<1>2. ASSUME [Next]_vars PROVE IInv'
  BY <1>1, <1>2, NextInv
<1>3. ASSUME NEW st, NEW encs \in {{}, Enc}, Boot(st, encs) PROVE IInv'
  <2>1. Firmware
    BY <1>3 DEF Boot, Firmware
  <2> QED BY <1>2, <2>1 DEF Next
<1>4. ASSUME NEW e \in Enc, NEW d \in Dirs, Turn(e, d) PROVE IInv'
  BY <1>2, <1>4 DEF Turn, Host, Next
<1>5. ASSUME Fire PROVE IInv'
  BY <1>2, <1>5 DEF Fire, Next
<1>6. ASSUME Routine PROVE IInv'
  <2>1. ASSUME IsrPins PROVE Firmware
    BY <2>1 DEF IsrPins, Firmware
  <2>2. ASSUME IsrAck PROVE Firmware \/ UNCHANGED vars
    <3>1. seen \ {isr} \in SUBSET Enc
      BY <1>1
    <3> QED BY <2>2, <3>1 DEF IsrAck, Firmware
  <2> QED BY <1>2, <1>6, <2>1, <2>2 DEF Routine, Enter, IsrReadRequests, Exit, Next
<1>7. ASSUME UNCHANGED allVars PROVE IInv'
  BY <1>2, <1>7 DEF allVars
<1> QED BY <1>3, <1>4, <1>5, <1>6, <1>7 DEF IsrNext

\* What the account says survives a step that counts what is no longer due.
LEMMA AccountKept ==
  ASSUME Accounted, UNCHANGED <<edgeQ, head, tail, lost, turned, turns>>,
         \A e \in Enc : decoded'[e] + Due(e)' = decoded[e] + Due(e)
  PROVE  Accounted'
<1> SUFFICES ASSUME ~lost PROVE \E sum \in [Enc -> [Slots -> Int]] : Account(sum)'
    BY DEF Accounted
<1>1. PICK sum \in [Enc -> [Slots -> Int]] : Account(sum)
  BY DEF Accounted
<1>2. Account(sum)'
  BY <1>1 DEF Account, Live, Counted
<1> QED BY <1>2

-----------------------------------------------------------------------------
LEMMA IsrTypesKept ==
  ASSUME IsrInv, [IsrNext]_allVars
  PROVE  IsrTypes'
<1>1. IsrTypes /\ irqrr \subseteq Enc
  BY DEF IsrInv, IInv, TypeOK
<1>2. ASSUME NEW st \in {"irqrr", "gic"}, NEW encs, Boot(st, encs) PROVE IsrTypes'
  BY <1>1, <1>2 DEF IsrTypes, Boot
<1>3. ASSUME NEW e \in Enc, NEW d \in Dirs, Turn(e, d) PROVE IsrTypes'
  <2>1. turned'  = [turned EXCEPT ![e] = @ + d] /\ d \in Int
    BY <1>3 DEF Turn, Dirs
  <2>2. turned' \in [Enc -> Int]
    BY <1>1, <2>1 DEF IsrTypes
  <2>3. turns' \in Nat /\ (prompt' => turns' <= MaxTurns)
    BY <1>1, <1>3, IsrAssumption DEF Turn, IsrTypes, isrVars
  <2> QED BY <1>1, <1>3, <2>2, <2>3 DEF IsrTypes, Turn, isrVars
<1>4. ASSUME Fire PROVE IsrTypes'
  <2>1. line' \subseteq Enc
    BY <1>4, DeviceStep DEF IsrNext, IInv, TypeOK
  <2> QED BY <1>1, <1>4, <2>1 DEF IsrTypes, Fire
<1>5. ASSUME NEW e \in Enc, Enter(e) PROVE IsrTypes'
  BY <1>1, <1>5, IsrAssumption DEF IsrTypes, Enter
<1>6. ASSUME IsrPins PROVE IsrTypes'
  <2>1. isr \in Enc
    BY <1>1, <1>6 DEF IsrTypes, IsrPins
  <2>2. decoded' \in [Enc -> Int]
    <3>1. \A n \in Int : Cut(n) \in Int
      BY IsrAssumption DEF Cut, Most
    <3>2. Decode(isr, pinA[isr], pinB[isr]) \in Int
      BY DEF Decode
    <3>3. Cut(decoded[isr] + Decode(isr, pinA[isr], pinB[isr])) \in Int
      BY <1>1, <2>1, <3>1, <3>2 DEF IsrTypes
    <3> QED BY <1>1, <1>6, <3>3 DEF IsrTypes, IsrPins
  <2> QED BY <1>1, <1>6, <2>1, <2>2 DEF IsrTypes, IsrPins
<1>7. ASSUME IsrReadRequests PROVE IsrTypes'
  BY <1>1, <1>7 DEF IsrTypes, IsrReadRequests
<1>8. ASSUME IsrAck PROVE IsrTypes'
  BY <1>1, <1>8 DEF IsrTypes, IsrAck
<1>9. ASSUME Exit PROVE IsrTypes'
  BY <1>1, <1>9 DEF IsrTypes, Exit
<1>10. ASSUME UNCHANGED allVars PROVE IsrTypes'
  BY <1>1, <1>10 DEF IsrTypes, allVars, isrVars
<1> QED BY <1>2, <1>3, <1>4, <1>5, <1>6, <1>7, <1>8, <1>9, <1>10 DEF IsrNext, Routine

LEMMA StepBoot ==
  ASSUME IsrInv, prompt, NEW st \in {"irqrr", "gic"}, NEW encs \in {{}, Enc}, Boot(st, encs)
  PROVE  Served' /\ Accounted'
<1>1. Booting /\ Accounted /\ IsrTypes
  BY DEF IsrInv, Served
<1>2. /\ style = "boot" /\ style' = st /\ edgeMode' = encs /\ (st = "gic" => encs = Enc)
      /\ UNCHANGED <<pinA, pinB, edgeQ, head, tail, lost, line, ackSeen, pend, isr, todo, seen,
                     decoded, turned, turns>>
  BY DEF Boot, WriteSense, pinVars, irqVars, ringVars
<1>3. line = {} /\ pend = {} /\ isr = None /\ todo = {}
  BY <1>1, <1>2 DEF Booting, IsrTypes
<1>4. Served'
  <2>1. ~ackSeen
    BY <1>1, <1>2 DEF Booting
  <2> QED BY <1>2, <1>3, <2>1
        DEF Served, Booting, ServedByRead, ServedByAck, OneRequest, Requests, Unsampled
<1>5. \A e \in Enc : Due(e)' = Due(e)
  BY <1>2, <1>3 DEF Due, Owed, Requests, Unsampled
<1> QED BY <1>1, <1>2, <1>4, <1>5, AccountKept

LEMMA StepEnter ==
  ASSUME IsrInv, prompt, NEW e \in Enc, Enter(e)
  PROVE  Served' /\ Accounted'
<1>1. IsrTypes /\ Served /\ Accounted
  BY DEF IsrInv
<1>2. /\ isr = None /\ e \in Requests /\ isr' = e /\ pend' = pend \ {e}
      /\ todo' = IF style = "irqrr" THEN {"pins", "request", "ack"} ELSE {"pins"}
      /\ UNCHANGED <<vars, style, decoded, turned, turns>>
  BY DEF Enter
<1>3. UNCHANGED <<pinA, pinB, edgeQ, head, tail, lost, line, edgeMode, ackSeen>>
  BY <1>2 DEF vars
<1>4. e # None /\ "pins" \in todo' /\ todo = {}
  BY <1>1, <1>2, IsrAssumption DEF IsrTypes
<1>5. style # "boot"
  BY <1>1, <1>2 DEF Served, Booting, Requests
<1>6. CASE style = "gic"
  <2>1. e \in pend /\ Unsampled = pend /\ Unsampled' = pend
    BY <1>1, <1>2, <1>4, <1>6 DEF Requests, Unsampled, IsrTypes
  <2>2. ServedByRead'
    BY <1>1, <1>2, <1>3, <1>6, <2>1 DEF Served, ServedByRead
  <2>3. Served'
    BY <1>2, <1>6, <2>2 DEF Served, Booting, ServedByAck, OneRequest
  <2>4. \A f \in Enc : Due(f)' = Due(f)
    BY <1>2, <1>3, <1>6, <2>1 DEF Due, Owed
  <2> QED BY <1>1, <1>2, <1>3, <2>3, <2>4, AccountKept
<1>7. CASE style # "gic"
  <2>1. Requests = {e}
    BY <1>1, <1>2, <1>7 DEF Served, OneRequest
  <2>2. line \subseteq {e}
    BY <1>1, <1>5, <1>7, <2>1 DEF IsrTypes, Requests
  <2>3. Served'
    BY <1>1, <1>2, <1>3, <1>4, <1>5, <1>7, <2>1, <2>2
       DEF Served, Booting, ServedByRead, ServedByAck, OneRequest, Requests, IsrTypes
  <2>4. Owed' = {e} /\ Owed = {e}
    BY <1>2, <1>4, <1>7, <2>1 DEF Owed
  <2>5. \A f \in Enc : Due(f)' = Due(f)
    BY <1>3, <2>4 DEF Due
  <2> QED BY <1>1, <1>2, <1>3, <2>3, <2>5, AccountKept
<1> QED BY <1>6, <1>7

\* The count stays within its cut while nothing is lost.
LEMMA CountFits ==
  ASSUME IsrInv, prompt, Accounted, ~lost, NEW e \in Enc
  PROVE  decoded[e] + Due(e) \in Int /\ Cut(decoded[e] + Due(e)) = decoded[e] + Due(e)
<1>1. PICK sum \in [Enc -> [Slots -> Int]] : Account(sum)
  BY DEF Accounted
<1>2. head \in Slots
  BY DEF IsrInv, IInv, TypeOK
<1>3. sum[e][head] \in -(2 * turns) .. 2 * turns /\ sum[e][head] = decoded[e] + Due(e)
  BY <1>1, <1>2 DEF Account
<1>4. turns \in Nat /\ MaxTurns \in Nat /\ turns <= MaxTurns
  BY IsrAssumption DEF IsrInv, IsrTypes
<1> QED BY <1>3, <1>4 DEF Cut, Most

LEMMA StepPins ==
  ASSUME IsrInv, prompt, IsrPins
  PROVE  Served' /\ Accounted'
<1>1. IsrTypes /\ Served /\ Accounted /\ line \subseteq irqrr /\ irqrr \subseteq Enc
  BY DEF IsrInv, IInv, NoOrphanLine, TypeOK
<1>2. /\ "pins" \in todo /\ todo' = todo \ {"pins"} /\ ReadPins({0, 1})
      /\ decoded' = [decoded EXCEPT ![isr] = Cut(@ + Decode(isr, pinA[isr], pinB[isr]))]
      /\ UNCHANGED <<style, pend, isr, seen, turned, turns>>
  BY DEF IsrPins
<1>3. isr \in Enc /\ isr # None /\ style # "boot"
  BY <1>1, <1>2 DEF IsrTypes, Served, Booting
<1>4. UNCHANGED <<pinA, pinB, edgeQ, head, tail, lost, edgeMode, ackSeen>>
  BY <1>2 DEF ReadPins, pinVars, ringVars
<1>5. line' = line \ (IF ackSeen THEN {} ELSE irqrr \cap edgeMode)
  BY <1>1, <1>2 DEF ReadPins
<1>6. style = "gic" => line' = {}
  BY <1>1, <1>5 DEF Served, ServedByRead
<1>7. Served'
  <2>1. Booting' /\ ServedByRead'
    BY <1>1, <1>2, <1>3, <1>4, <1>6 DEF Served, Booting, ServedByRead
  <2>2. ServedByAck'
    BY <1>1, <1>2, <1>5 DEF Served, ServedByAck
  <2>3. OneRequest'
    BY <1>1, <1>2, <1>5 DEF Served, OneRequest, Requests
  <2> QED BY <2>1, <2>2, <2>3 DEF Served
<1>8. isr \in Owed /\ Owed' = Owed \ {isr} /\ Owed \subseteq Enc
  <2>1. CASE style = "gic"
    BY <1>1, <1>2, <1>3, <2>1 DEF Owed, Unsampled, Served, ServedByRead, IsrTypes
  <2>2. CASE style # "gic"
    BY <1>2, <1>3, <2>2 DEF Owed
  <2> QED BY <2>1, <2>2
<1>9. ASSUME ~lost, NEW f \in Enc PROVE decoded'[f] + Due(f)' = decoded[f] + Due(f)
  <2>1. CASE f = isr
    <3>1. Due(f) = Decode(isr, pinA[isr], pinB[isr]) /\ Due(f)' = 0
      BY <1>8, <2>1 DEF Due
    <3>2. decoded'[f] = decoded[f] + Due(f)
      BY <1>1, <1>2, <1>9, <2>1, <3>1, CountFits DEF IsrTypes
    <3> QED BY <1>1, <1>9, <3>1, <3>2, CountFits
  <2>2. CASE f # isr
    <3>1. Due(f)' = Due(f)
      BY <1>4, <1>8, <2>2 DEF Due
    <3> QED BY <1>1, <1>2, <2>2, <3>1 DEF IsrTypes
  <2> QED BY <2>1, <2>2
<1>10. Accounted'
  <2>1. CASE lost
    BY <1>4, <2>1 DEF Accounted
  <2>2. CASE ~lost
    BY <1>1, <1>2, <1>4, <1>9, <2>2, AccountKept
  <2> QED BY <2>1, <2>2
<1> QED BY <1>7, <1>10

LEMMA StepReadRequests ==
  ASSUME IsrInv, prompt, IsrReadRequests
  PROVE  Served' /\ Accounted'
<1>1. IsrTypes /\ Served /\ Accounted /\ line \subseteq irqrr
  BY DEF IsrInv, IInv, NoOrphanLine
<1>2. /\ "request" \in todo /\ todo' = todo \ {"request"} /\ seen' = irqrr
      /\ UNCHANGED <<vars, style, pend, isr, decoded, turned, turns>>
  BY DEF IsrReadRequests
<1>3. UNCHANGED <<pinA, pinB, irqrr, edgeQ, head, tail, lost, line, edgeMode, ackSeen>>
  BY <1>2 DEF vars
<1>4. isr # None /\ style # "gic"
  BY <1>1, <1>2 DEF IsrTypes, Served, ServedByRead
<1>5. Served'
  BY <1>1, <1>2, <1>3, <1>4 DEF Served, Booting, ServedByRead, ServedByAck, OneRequest, Requests
<1>6. Owed' = Owed
  BY <1>2, <1>4 DEF Owed
<1>7. \A f \in Enc : Due(f)' = Due(f)
  BY <1>3, <1>6 DEF Due
<1> QED BY <1>1, <1>2, <1>3, <1>5, <1>7, AccountKept

LEMMA StepAck ==
  ASSUME IsrInv, prompt, IsrAck
  PROVE  Served' /\ Accounted'
<1>1. IsrTypes /\ Served /\ Accounted /\ line \subseteq irqrr
  BY DEF IsrInv, IInv, NoOrphanLine
<1>2. /\ "ack" \in todo /\ "request" \notin todo /\ todo' = todo \ {"ack"}
      /\ UNCHANGED <<style, pend, isr, decoded, turned, turns>>
  BY DEF IsrAck
<1>3. UNCHANGED <<pinA, pinB, edgeQ, head, tail, lost, edgeMode>>
  BY DEF IsrAck, WriteRequests, vars, pinVars, ringVars
<1>4. isr # None /\ style # "gic"
  BY <1>1, <1>2 DEF IsrTypes, Served, ServedByRead
<1>5. line' \subseteq line
  BY DEF IsrAck, WriteRequests, vars
<1>6. style = "irqrr" => line' = {}
  <2> SUFFICES ASSUME style = "irqrr" PROVE line' = {}
    OBVIOUS
  <2>1. line \subseteq {isr} /\ line \subseteq seen
    BY <1>1, <1>2, <1>4 DEF Served, ServedByAck
  <2>2. CASE isr \in seen
    BY <1>1, <2>1, <2>2 DEF IsrAck, WriteRequests
  <2>3. CASE isr \notin seen
    BY <1>5, <2>1, <2>3
  <2> QED BY <2>2, <2>3
<1>7. Served'
  <2> QED BY <1>1, <1>2, <1>4, <1>6
      DEF Served, Booting, ServedByRead, ServedByAck, OneRequest, Requests, IsrTypes
<1>8. \A f \in Enc : Due(f)' = Due(f)
  <2>1. Owed' = Owed
    BY <1>2, <1>4 DEF Owed
  <2> QED BY <1>3, <2>1 DEF Due
<1> QED BY <1>1, <1>2, <1>3, <1>7, <1>8, AccountKept

LEMMA StepExit ==
  ASSUME IsrInv, prompt, Exit
  PROVE  Served' /\ Accounted'
<1>1. IsrTypes /\ Served /\ Accounted
  BY DEF IsrInv
<1>2. /\ isr # None /\ todo = {} /\ isr' = None
      /\ UNCHANGED <<vars, style, pend, todo, seen, decoded, turned, turns>>
  BY DEF Exit
<1>3. UNCHANGED <<pinA, pinB, edgeQ, head, tail, lost, line, edgeMode, ackSeen>>
  BY <1>2 DEF vars
<1>4. style # "boot" /\ (style = "irqrr" => line = {})
  BY <1>1, <1>2 DEF Served, Booting, ServedByAck
<1>5. Served'
  <2>1. Unsampled' = Unsampled
    BY <1>2 DEF Unsampled
  <2> QED BY <1>1, <1>2, <1>3, <1>4, <2>1
        DEF Served, Booting, ServedByRead, ServedByAck, OneRequest, Requests, IsrTypes
<1>6. Owed' = Owed
  <2>1. Unsampled' = Unsampled
    BY <1>2 DEF Unsampled
  <2> QED BY <1>1, <1>2, <1>3, <1>4, <2>1 DEF Owed, Requests, IsrTypes
<1>7. \A f \in Enc : Due(f)' = Due(f)
  BY <1>3, <1>6 DEF Due
<1> QED BY <1>1, <1>2, <1>3, <1>5, <1>7, AccountKept

\* The A pin moves with every other edge of a detent, and each time it asks
\* for an interrupt.
LEMMA TimerMoves ==
  ASSUME IInv, EdgeTimer, ~lost
  PROVE  LET x == edgeQ[head]
             moved == IF AMoves(x.enc, x.dir, head) THEN {x.enc} ELSE {}
         IN  /\ line' = line \cup moved
             /\ \A e \in Enc : pinA'[e] # pinA[e] <=> e \in moved
             /\ head # tail /\ head' = Wrap(head + 1)
             /\ edgeQ' = [edgeQ EXCEPT ![head] = Stale]
             /\ UNCHANGED <<tail, lost>>
<1> DEFINE x == edgeQ[head]
           h == head % 4
           s == PhaseStep(x.enc, x.dir)
           p == (phase[x.enc] + s) % 4
<1>1. head # tail /\ head \in Slots /\ tail \in Slots /\ TypeOK /\ Aligned
  BY DEF EdgeTimer, IInv, TypeOK, TimerMatchesRing
<1>2. ApplyEdge(x)
  BY <1>1 DEF EdgeTimer
<1>3. x.enc \in Enc /\ x.dir \in Dirs
  BY TimerPins DEF Edge
<1>4. h \in 0 .. 3 /\ s \in {1, 3}
  BY <1>1, EncAssumption DEF Slots, PhaseStep
<1>5. phase[x.enc] = (h * s) % 4
  <2>1. CASE h = 0
    BY <1>1, <1>3, <1>4, <2>1 DEF Aligned, MidDetent
  <2>2. CASE h # 0
    BY <1>1, <1>3, <2>2 DEF Aligned, MidDetent
  <2> QED BY <2>1, <2>2
<1>6. GrayA(p) # GrayA(phase[x.enc]) <=> AMoves(x.enc, x.dir, head)
  <2>1. AMoves(x.enc, x.dir, head) <=> h \in (IF s = 1 THEN {0, 2} ELSE {1, 3})
    BY DEF AMoves
  <2> HIDE DEF x, h, s
  <2> QED BY <1>4, <1>5, <2>1 DEF GrayA
<1>7. line' = line \cup (IF GrayA(p) # GrayA(phase[x.enc]) THEN {x.enc} ELSE {})
  BY <1>2 DEF ApplyEdge
<1>8. pinA' = [pinA EXCEPT ![x.enc] = GrayA(p)] /\ pinA[x.enc] = GrayA(phase[x.enc])
  BY <1>2, <1>3 DEF ApplyEdge, IInv, PinsFollowPhase
<1> HIDE DEF p
<1>9. \A e \in Enc : pinA'[e] # pinA[e] <=> e = x.enc /\ GrayA(p) # GrayA(phase[x.enc])
  <2> HIDE DEF x
  <2> QED BY <1>1, <1>3, <1>8 DEF TypeOK
<1>10. /\ head' = Wrap(head + 1) /\ edgeQ' = [edgeQ EXCEPT ![head] = Stale]
       /\ UNCHANGED <<tail, lost>>
  BY <1>1 DEF EdgeTimer
<1> QED BY <1>1, <1>6, <1>7, <1>9, <1>10 DEF x

LEMMA StepFire ==
  ASSUME IsrInv, prompt, Fire
  PROVE  Served' /\ Accounted'
<1> DEFINE x == edgeQ[head]
           moved == IF AMoves(x.enc, x.dir, head) THEN {x.enc} ELSE {}
<1>1. IInv /\ IsrTypes /\ Served /\ Accounted
  BY DEF IsrInv
<1>2. /\ KeepsUp /\ EdgeTimer /\ pend' = pend \cup (line' \ line)
      /\ UNCHANGED <<style, isr, todo, seen, decoded, turned, turns>>
  BY DEF Fire
<1>3. UNCHANGED <<edgeMode, ackSeen, tail, lost>> /\ head # tail
  BY <1>1, <1>2 DEF EdgeTimer, IInv, TimerMatchesRing
<1>4. style \in {"gic", "irqrr"} /\ (style = "irqrr" => isr = None /\ line = {})
  BY <1>1, <1>2, <1>3 DEF IsrTypes, Served, Booting, KeepsUp, Requests
<1>5. x.enc \in Enc /\ line' \ line \subseteq {x.enc}
  BY <1>1, <1>2, <1>3, TimerPins DEF EdgeTimer, ApplyEdge, Edge
<1>6. Served'
  <2>1. CASE style = "gic"
    <3>1. Unsampled' = Unsampled \cup (line' \ line)
      BY <1>2 DEF Unsampled
    <3>2. ServedByRead'
      BY <1>1, <1>2, <1>3, <1>5, <2>1, <3>1
         DEF Served, ServedByRead, KeepsUp, Unsampled, IsrTypes
    <3> QED BY <1>2, <2>1, <3>2 DEF Served, Booting, ServedByAck, OneRequest
  <2>2. CASE style = "irqrr"
    BY <1>1, <1>2, <1>3, <1>4, <1>5, <2>2
       DEF Served, Booting, ServedByRead, ServedByAck, OneRequest, Requests, IsrTypes
  <2> QED BY <1>4, <2>1, <2>2
<1>7. Accounted'
  <2> SUFFICES ASSUME ~lost PROVE \E sum \in [Enc -> [Slots -> Int]] : Account(sum)'
    BY <1>3 DEF Accounted
  <2>1. PICK sum \in [Enc -> [Slots -> Int]] : Account(sum)
    BY <1>1 DEF Accounted
  <2>2. head \in Slots /\ tail \in Slots /\ edgeQ \in [Slots -> Edge \cup {Stale}]
    BY <1>1 DEF IInv, TypeOK
  <2>3. /\ line' = line \cup moved
        /\ \A e \in Enc : pinA'[e] # pinA[e] <=> e \in moved
        /\ head' = Wrap(head + 1)
        /\ edgeQ' = [edgeQ EXCEPT ![head] = Stale]
    BY <1>1, <1>2, TimerMoves
  <2>4. x.enc \notin Owed /\ Owed' = Owed \cup moved
    <3>1. CASE style = "gic"
      <4>1. x.enc \notin Unsampled /\ line \subseteq Unsampled
        BY <1>1, <1>2, <3>1 DEF KeepsUp, Served, ServedByRead
      <4>2. Unsampled' = Unsampled \cup (line' \ line) /\ line' \ line = moved
        BY <1>2, <2>3, <4>1 DEF Unsampled
      <4> QED BY <1>2, <3>1, <4>1, <4>2 DEF Owed
    <3>2. CASE style = "irqrr"
      BY <1>2, <1>4, <2>3, <3>2 DEF Owed, Requests
    <3> QED BY <1>4, <3>1, <3>2
  <2>5. \A e \in Enc : Due(e)' = Due(e) + Counted(e, head)
    <3>1. x.enc \in Enc
          /\ (pinA'[x.enc] # pinA[x.enc] => Decode(x.enc, pinA'[x.enc], pinB'[x.enc]) = x.dir)
      BY <1>1, <1>2, TimerPins DEF Edge
    <3>2. \A e \in Enc : e # x.enc => pinA'[e] = pinA[e] /\ pinB'[e] = pinB[e]
      BY <1>1, <1>2, <1>3, <3>1 DEF EdgeTimer, ApplyEdge, IInv, TypeOK
    <3>3. Due(x.enc) = 0
      BY <2>4 DEF Due
    <3>4. ASSUME NEW e \in Enc, e = x.enc PROVE Due(e)' = Counted(e, head)
      <4>1. CASE AMoves(x.enc, x.dir, head)
        <5>1. e \in Owed' /\ e \in moved
          BY <2>4, <3>4, <4>1
        <5>2. Decode(e, pinA'[e], pinB'[e]) = x.dir
          BY <2>3, <3>1, <3>4, <5>1
        <5> QED BY <3>4, <4>1, <5>1, <5>2 DEF Due, Counted
      <4>2. CASE ~AMoves(x.enc, x.dir, head)
        <5>1. e \notin Owed'
          BY <2>4, <3>4, <4>2
        <5> QED BY <3>4, <4>2, <5>1 DEF Due, Counted
      <4> QED BY <4>1, <4>2
    <3>5. \A e \in Enc : e # x.enc => Due(e)' = Due(e) /\ Counted(e, head) = 0
      BY <2>4, <3>2 DEF Due, Counted
    <3>6. x.dir \in Int
      BY <1>1, <1>2, TimerPins DEF Edge, Dirs
    <3>7. \A e \in Enc : Due(e) \in Int
      BY DEF Due, Decode
    <3>8. Counted(x.enc, head) \in Int
      BY <3>6 DEF Counted
    <3>9. ASSUME NEW e \in Enc PROVE Due(e)' = Due(e) + Counted(e, head)
      <4>1. CASE e = x.enc
        BY <3>3, <3>4, <3>8, <4>1
      <4>2. CASE e # x.enc
        BY <3>5, <3>7, <4>2
      <4> QED BY <4>1, <4>2
    <3> QED BY <3>9
  <2>6. \A i \in Slots : Live(i)' <=> (i # head /\ Live(i))
    BY <1>3, <2>2, <2>3, RingShrink DEF Live, Ahead
  <2>7. Live(head)
    BY <1>3, <2>2, EncAssumption DEF Live, Ahead, Slots
  <2>8. \A e \in Enc, i \in Slots : i # head => Counted(e, i)' = Counted(e, i)
    BY <2>2, <2>3 DEF Counted
  <2>9. \A e \in Enc : sum[e][head'] = decoded'[e] + Due(e)'
    <3> SUFFICES ASSUME NEW e \in Enc PROVE sum[e][head'] = decoded'[e] + Due(e)'
      OBVIOUS
    <3>1. sum[e][head] = decoded[e] + Due(e) /\ decoded[e] \in Int
      BY <1>1, <2>1 DEF Account, IsrTypes
    <3>2. sum[e][Wrap(head + 1)] = sum[e][head] + Counted(e, head)
      BY <2>1, <2>2, <2>7 DEF Account
    <3>3. Due(e) \in Int /\ Counted(e, head) \in Int
      <4>1. x.dir \in Int
        BY <1>1, <1>2, TimerPins DEF Edge, Dirs
      <4> QED BY <4>1 DEF Due, Decode, Counted
    <3> QED BY <1>2, <2>3, <2>5, <3>1, <3>2, <3>3
  <2>10. Account(sum)'
    BY <1>2, <1>3, <2>1, <2>6, <2>8, <2>9 DEF Account
  <2> QED BY <2>10
<1> QED BY <1>6, <1>7

-----------------------------------------------------------------------------
\* The A edges among the first k of a detent.
AEdges(e, d, k) ==
  IF PhaseStep(e, d) = 1 THEN (IF k = 0 THEN 0 ELSE IF k < 3 THEN 1 ELSE 2)
                         ELSE (IF k < 2 THEN 0 ELSE IF k < 4 THEN 1 ELSE 2)

LEMMA AEdgesStep ==
  ASSUME NEW e, NEW d, NEW k \in 0 .. 3, NEW i \in Nat, i % 4 = k
  PROVE  /\ AEdges(e, d, k + 1) = AEdges(e, d, k) + (IF AMoves(e, d, i) THEN 1 ELSE 0)
         /\ AEdges(e, d, k) \in 0 .. 2 /\ AEdges(e, d, k + 1) \in 0 .. 2
         /\ AEdges(e, d, 0) = 0 /\ AEdges(e, d, 4) = 2
BY DEF AEdges, AMoves

\* Where the four slots of a detent lie.
LEMMA RingDetent ==
  ASSUME NEW h \in Slots, NEW t \in Slots, NEW i \in Slots,
         t % 4 = 0, Ahead(h, t) <= QSize - 5
  PROVE  /\ ~(Ahead(t, h) \in 1 .. 4)
         /\ Ahead(t, Wrap(t + 4)) = 4
         /\ Ahead(h, i) < Ahead(h, t) =>
              ~(Ahead(t, i) \in 0 .. 4) /\ ~(Ahead(t, Wrap(i + 1)) \in 1 .. 4)
         /\ Ahead(t, i) < 4 =>
              Ahead(t, i) = i % 4 /\ Ahead(t, Wrap(i + 1)) = Ahead(t, i) + 1
BY EncAssumption DEF Slots, Ahead, Wrap

LEMMA StepTurn ==
  ASSUME IsrInv, prompt, NEW e \in Enc, NEW d \in Dirs, Turn(e, d)
  PROVE  Served' /\ Accounted'
<1>1. IInv /\ IsrTypes /\ Served /\ Accounted
  BY DEF IsrInv
<1>2. /\ style # "boot" /\ turned' = [turned EXCEPT ![e] = @ + d] /\ turns' = turns + 1
      /\ UNCHANGED <<style, pend, isr, todo, seen, decoded>>
  BY DEF Turn, isrVars
<1>3. UNCHANGED <<pinA, pinB, line, edgeMode, ackSeen, head>>
  BY DEF Turn, EncoderStep, pinVars, irqVars
<1>4. Served'
  BY <1>1, <1>2, <1>3
     DEF Served, Booting, ServedByRead, ServedByAck, OneRequest, Requests, Unsampled
<1>5. Accounted'
  <2> SUFFICES ASSUME ~lost' PROVE \E sum \in [Enc -> [Slots -> Int]] : Account(sum)'
    BY DEF Accounted
  <2>1. head \in Slots /\ tail \in Slots /\ QSize \in Nat /\ Ahead(head, tail) \in Slots
    BY <1>1, RingTypes, EncAssumption DEF IInv, TypeOK
  <2>2. Room \in Nat /\ Room = QSize - 1 - Ahead(head, tail)
    BY <2>1 DEF Room, Slots
  <2>3. Room >= 4 /\ ~lost
    <3>1. lost' = (lost \/ (IF Room < 4 THEN Room ELSE 4) < 4)
      BY DEF Turn, EncoderStep
    <3>2. ~lost /\ ~((IF Room < 4 THEN Room ELSE 4) < 4)
      BY <3>1, Zenon
    <3> QED BY <2>2, <3>2
  <2>4. /\ tail' = Wrap(tail + 4)
        /\ \A i \in Slots : edgeQ'[i] = IF Ahead(tail, i) < 4 THEN [enc |-> e, dir |-> d]
                                        ELSE edgeQ[i]
    BY <2>2, <2>3 DEF Turn, EncoderStep
  <2>5. tail % 4 = 0 /\ Ahead(head, tail) <= QSize - 5
    BY <1>1, <2>1, <2>2, <2>3 DEF IInv, Aligned, Slots
  <2>6. PICK sum \in [Enc -> [Slots -> Int]] : Account(sum)
    BY <1>1, <2>3 DEF Accounted
  <2> DEFINE gain(f, k) == IF f = e THEN d * AEdges(e, d, k) ELSE 0
             new == [f \in Enc |-> [i \in Slots |->
                       IF Ahead(tail, i) \in 1 .. 4
                       THEN sum[f][tail] + gain(f, Ahead(tail, i)) ELSE sum[f][i]]]
  <2>7. \A k \in 0 .. 4 : AEdges(e, d, k) \in 0 .. 2
    BY DEF AEdges
  <2>8. \A f \in Enc, k \in 0 .. 4 : gain(f, k) \in -2 .. 2
    BY <2>7 DEF Dirs
  <2>9. \A f \in Enc, k \in 0 .. 4 : gain(f, k) \in Int
    BY <2>8
  <2>10. \A f \in Enc : gain(f, 0) = 0 /\ gain(f, 4) = IF f = e THEN 2 * d ELSE 0
    BY DEF AEdges, Dirs
  <2>11. \A f \in Enc, k \in 0 .. 3, i \in Slots :
           i % 4 = k => gain(f, k + 1) = gain(f, k)
                          + (IF f = e /\ AMoves(e, d, i) THEN d ELSE 0)
    <3> SUFFICES ASSUME NEW k \in 0 .. 3, NEW i \in Slots, i % 4 = k
                 PROVE  d * AEdges(e, d, k + 1) = d * AEdges(e, d, k)
                          + (IF AMoves(e, d, i) THEN d ELSE 0)
      OBVIOUS
    <3>1. i \in Nat
      BY <2>1 DEF Slots
    <3>2. /\ AEdges(e, d, k + 1) = AEdges(e, d, k) + (IF AMoves(e, d, i) THEN 1 ELSE 0)
          /\ AEdges(e, d, k) \in 0 .. 2
      BY <3>1, AEdgesStep
    <3>3. d = 1 \/ d = -1
      BY DEF Dirs
    <3> QED BY <3>2, <3>3
  <2> HIDE DEF gain
  <2>12. \A f \in Enc, i \in Slots : sum[f][i] \in Int /\ sum[f][tail] \in Int
    BY <2>1, <2>6
  <2>13. new \in [Enc -> [Slots -> Int]]
    BY <2>9, <2>12
  <2>14. PICK acc \in [Enc -> [Slots -> Int]] :
           \A f \in Enc, i \in Slots :
             acc[f][i] = IF Ahead(tail, i) \in 1 .. 4
                         THEN sum[f][tail] + gain(f, Ahead(tail, i)) ELSE sum[f][i]
    BY <2>13
  <2> HIDE DEF new
  <2>15. 4 \in Nat /\ 4 <= QSize - 1 - Ahead(head, tail)
    BY <2>2, <2>3
  <2>16. Wrap(tail + 4) \in Slots /\ Ahead(head, Wrap(tail + 4)) = Ahead(head, tail) + 4
    BY <2>1, <2>15, RingGrow
  <2>17. ASSUME NEW f \in Enc, NEW i \in Slots
         PROVE  acc[f][i] \in -(2 * turns') .. 2 * turns'
    <3>1. sum[f][i] \in -(2 * turns) .. 2 * turns /\ sum[f][tail] \in -(2 * turns) .. 2 * turns
      BY <2>1, <2>6 DEF Account
    <3>2. turns \in Nat
      BY <1>1 DEF IsrTypes
    <3>3. Ahead(tail, i) \in 1 .. 4 => gain(f, Ahead(tail, i)) \in -2 .. 2
      BY <2>8
    <3> QED BY <1>2, <2>14, <3>1, <3>2, <3>3
  <2>18. ASSUME NEW f \in Enc PROVE acc[f][head] = decoded'[f] + Due(f)'
    <3>1. Due(f)' = Due(f)
      BY <1>2, <1>3 DEF Due, Owed, Requests, Unsampled
    <3>2. acc[f][head] = sum[f][head]
      BY <2>1, <2>5, <2>14, RingDetent
    <3> QED BY <1>2, <2>6, <3>1, <3>2 DEF Account
  <2>19. ASSUME NEW f \in Enc, NEW i \in Slots, Live(i)'
         PROVE  acc[f][Wrap(i + 1)] = acc[f][i] + Counted(f, i)'
    <3>1. Wrap(i + 1) \in Slots /\ Ahead(tail, i) \in Slots
      BY <2>1, RingTypes
    <3>2. CASE Ahead(tail, i) < 4
      <4> DEFINE k == Ahead(tail, i)
      <4>1. k \in 0 .. 3 /\ k = i % 4 /\ Ahead(tail, Wrap(i + 1)) = k + 1
        <5>1. k = i % 4 /\ Ahead(tail, Wrap(i + 1)) = k + 1
          BY <2>1, <2>5, <3>2, RingDetent
        <5>2. i % 4 \in 0 .. 3
          BY <2>1 DEF Slots
        <5> QED BY <5>1, <5>2
      <4>2. Counted(f, i)' = IF f = e /\ AMoves(e, d, i) THEN d ELSE 0
        BY <2>4, <3>2 DEF Counted
      <4>3. acc[f][Wrap(i + 1)] = sum[f][tail] + gain(f, k + 1)
        BY <2>14, <3>1, <4>1
      <4>4. acc[f][i] = sum[f][tail] + gain(f, k)
        <5>1. CASE k = 0
          <6>1. i = tail
            BY <2>1, <5>1 DEF Ahead, Slots
          <6> QED BY <2>10, <2>12, <2>14, <5>1, <6>1
        <5>2. CASE k # 0
          BY <2>14, <4>1, <5>2
        <5> QED BY <5>1, <5>2
      <4>5. gain(f, k + 1) = gain(f, k) + Counted(f, i)'
        BY <2>11, <4>1, <4>2
      <4>6. gain(f, k) \in Int /\ Counted(f, i)' \in Int /\ sum[f][tail] \in Int
        BY <2>9, <2>12, <4>1, <4>2 DEF Dirs
      <4> HIDE DEF k
      <4> QED BY <4>3, <4>4, <4>5, <4>6
    <3>3. CASE ~(Ahead(tail, i) < 4)
      <4>1. Live(i)
        <5>1. Ahead(head, i) < Ahead(head, tail')
          BY <1>3, <2>19 DEF Live, Ahead
        <5>2. Ahead(head, i) < Ahead(head, tail) + 4
          BY <2>4, <2>16, <5>1
        <5> QED BY <2>1, <2>15, <3>3, <5>2, RingGrow DEF Live
      <4>2. acc[f][i] = sum[f][i] /\ acc[f][Wrap(i + 1)] = sum[f][Wrap(i + 1)]
        BY <2>1, <2>5, <2>14, <3>1, <4>1, RingDetent DEF Live
      <4>3. Counted(f, i)' = Counted(f, i)
        BY <2>4, <3>3 DEF Counted
      <4> QED BY <2>6, <4>1, <4>2, <4>3 DEF Account
    <3> QED BY <3>2, <3>3
  <2>20. ASSUME NEW f \in Enc PROVE acc[f][tail'] = 2 * turned'[f]
    <3>1. tail' \in Slots /\ Ahead(tail, tail') = 4
      BY <2>1, <2>4, <2>5, <2>16, RingDetent
    <3>2. acc[f][tail'] = sum[f][tail] + gain(f, 4)
      BY <2>14, <3>1
    <3>3. sum[f][tail] = 2 * turned[f] /\ turned[f] \in Int
      BY <1>1, <2>6 DEF Account, IsrTypes
    <3>4. turned'[f] = IF f = e THEN turned[f] + d ELSE turned[f]
      BY <1>1, <1>2 DEF IsrTypes
    <3>5. d \in Int
      BY DEF Dirs
    <3> QED BY <2>10, <3>2, <3>3, <3>4, <3>5
  <2>21. Account(acc)'
    BY <1>3, <2>17, <2>18, <2>19, <2>20 DEF Account
  <2> QED BY <2>21
<1> QED BY <1>4, <1>5

-----------------------------------------------------------------------------
LEMMA IsrStep == IsrInv /\ [IsrNext]_allVars => IsrInv'
<1> SUFFICES ASSUME IsrInv, [IsrNext]_allVars PROVE IsrInv'
    OBVIOUS
<1>1. IInv' /\ IsrTypes'
  BY DeviceStep, IsrTypesKept
<1>2. prompt' = prompt
  BY DEF IsrNext, Boot, Turn, Fire, Routine, Enter, IsrPins, IsrReadRequests, IsrAck, Exit,
         allVars, isrVars
<1>3. ASSUME prompt PROVE Served' /\ Accounted'
  <2>1. ASSUME UNCHANGED allVars PROVE Served' /\ Accounted'
    BY <1>3, <2>1 DEF allVars, isrVars, vars, IsrInv, Served, Booting, ServedByRead,
       ServedByAck, OneRequest, Requests, Unsampled, Accounted, Account, Due, Owed, Live, Counted
  <2> QED BY <1>3, <2>1, StepBoot, StepTurn, StepFire, StepEnter, StepPins, StepReadRequests,
             StepAck, StepExit DEF IsrNext, Routine
<1> QED BY <1>1, <1>2, <1>3 DEF IsrInv

(* What the firmware has counted, what it has still to decode and what is  *)
(* in the ring make two A edges for every detent turned, as long as no     *)
(* edge is lost and the routine keeps up (rza1l_gpio_encoder_step,         *)
(* rza1l_gpio_edge_cb, the reads and writes of the routine).               *)
THEOREM SystemInvariance == IsrSpec => []IsrInv
<1> QED BY IsrInitInv, IsrStep, PTL DEF IsrSpec

(* End to end: at rest the firmware has counted two edges for each detent, *)
(* in the direction the host turned, for any number of encoders turned in  *)
(* any order.                                                              *)
THEOREM RotationCounted == IsrSpec => []RotationDecoded
<1>1. IsrInv => RotationDecoded
  <2> SUFFICES ASSUME IsrInv, Quiet, ~lost, prompt, NEW e \in Enc
               PROVE  decoded[e] = 2 * turned[e]
      BY DEF RotationDecoded
  <2>1. PICK sum \in [Enc -> [Slots -> Int]] : Account(sum)
    BY DEF IsrInv, Accounted
  <2>2. head = tail /\ Due(e) = 0 /\ decoded[e] \in Int
    BY DEF Quiet, Due, Owed, Requests, Unsampled, IsrInv, IsrTypes
  <2> QED BY <2>1, <2>2 DEF Account
<1> QED BY <1>1, SystemInvariance, PTL
=============================================================================
