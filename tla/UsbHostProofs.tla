---------------------------- MODULE UsbHostProofs ----------------------------
(***************************************************************************)
(* Proofs about the USB controller for any number of pipes, any ring,      *)
(* burst and packet size, and a firmware that writes any register at any   *)
(* moment; then about the driver of UsbFirmware on it.                     *)
(***************************************************************************)
EXTENDS UsbFirmware, SequenceTheorems, TLAPS

-----------------------------------------------------------------------------
(* The inductive invariant, by the groups of variables its parts speak of. *)
(* The ring's part adds to InOrder what the cursors owe each other: the    *)
(* tail follows from head and count, and a latch is either empty and reset *)
(* or partly read and owned by a receiving pipe.                           *)

Slots == 0 .. QSize - 1

RingTypes ==
  /\ ring \in [Slots -> Nat]
  /\ qHead \in Slots /\ qCount \in 0 .. QSize
  /\ xfer \in [0 .. Burst - 1 -> Nat]
  /\ xferLen \in 0 .. Burst
  /\ accepted \in Nat /\ taken \in Nat

Latch ==
  \/ xferLen = 0 /\ xferPos = 0 /\ xferPipe = 0
  \/ xferLen > 0 /\ xferPos \in 0 .. xferLen - 1 /\ xferPipe \in Recv

RingInv ==
  /\ RingTypes
  /\ Latch
  /\ qTail = Wrap(qHead + qCount)
  /\ InOrder

IrqTypes ==
  /\ irq \in BOOLEAN
  /\ enb0 \subseteq Causes0 /\ enb1 \subseteq Causes1 /\ sts1 \subseteq Causes1
  /\ brdysts \subseteq Pipes /\ brdyenb \subseteq Pipes
  /\ bempsts \subseteq Pipes /\ bempenb \subseteq Pipes

PendTypes ==
  /\ attachPend \in BOOLEAN /\ sackPend \in BOOLEAN /\ bh \in BOOLEAN
  /\ attachSignalled \in BOOLEAN
  /\ brdyPend \subseteq Pipes /\ bempPend \subseteq Pipes
  /\ armed \subseteq Recv
  /\ noticed \subseteq Pipes

CtrlTypes ==
  /\ curpipe \in Pipes
  /\ ctrlActive \in BOOLEAN /\ ctrlIn \in BOOLEAN /\ dataReady \in BOOLEAN
  /\ respLen \in Nat /\ respPos \in 0 .. respLen

TxTypes == txLen \in 0 .. TxSize /\ written \in Nat /\ sent \in Nat

IInv ==
  /\ IrqTypes /\ PendTypes /\ CtrlTypes /\ TxTypes
  /\ RingInv
  /\ LineIsLevel
  /\ EventScheduled
  /\ NothingDropped
  /\ TransferAnnounced

-----------------------------------------------------------------------------
(* Ring arithmetic. *)

LEMMA WrapSlot ==
  ASSUME NEW a \in Slots, NEW n \in 0 .. QSize
  PROVE  Wrap(a + n) \in Slots
BY UsbAssumption DEF Slots, Wrap

LEMMA WrapSum ==
  ASSUME NEW a \in Slots, NEW n \in 0 .. QSize, NEW i \in Nat, n + i <= QSize
  PROVE  Wrap(Wrap(a + n) + i) = Wrap(a + (n + i))
BY UsbAssumption DEF Slots, Wrap

\* A slot at distance i from h, seen from the tail n slots further on.
LEMMA WrapBehind ==
  ASSUME NEW h \in Slots, NEW n \in 0 .. QSize, NEW i \in 0 .. QSize - 1
  PROVE  Wrap(Wrap(h + i) - Wrap(h + n) + QSize)
           = IF i >= n THEN i - n
             ELSE QSize - n + i
BY UsbAssumption DEF Slots, Wrap

-----------------------------------------------------------------------------
(* Handing a transfer over from a ring in order keeps everything in order, *)
(* announced and scheduled.                                                *)
LEMMA Deliver ==
  ASSUME RingInv, PendTypes, TransferAnnounced,
         NEW rg \in [Slots -> Nat], NEW cnt \in 0 .. QSize,
         NEW arm \in SUBSET Recv, NEW enb \in SUBSET Pipes,
         NEW pend \in SUBSET Pipes, brdyPend \subseteq pend,
         NEW kick \in BOOLEAN,
         (attachPend \/ sackPend \/ pend # {} \/ bempPend # {}) => (bh \/ kick),
         \A i \in 0 .. cnt - 1 : rg[Wrap(qHead + i)] = taken + InFlight + i,
         TryDeliver(rg, cnt, arm, enb, pend, kick),
         ring' = rg, taken' = taken, brdysts' = brdysts,
         accepted' = taken + InFlight + cnt,
         qTail' = Wrap(qHead + cnt),
         UNCHANGED <<attachPend, sackPend, bempPend>>
  PROVE  /\ RingInv' /\ TransferAnnounced' /\ EventScheduled'
         /\ armed' \subseteq Recv /\ noticed' \subseteq Pipes
         /\ brdyPend' \subseteq Pipes /\ bh' \in BOOLEAN
<1> DEFINE ready == arm \cap enb
           n == Lesser(cnt, Burst)
<1>0. /\ QSize \in Nat /\ Burst \in Nat /\ Burst > 0 /\ QSize >= Burst
      /\ qHead \in Slots /\ taken \in Nat /\ accepted \in Nat
      /\ xfer \in [0 .. Burst - 1 -> Nat]
      /\ xferLen \in 0 .. Burst
      /\ Recv \subseteq Pipes
  BY UsbAssumption DEF RingInv, RingTypes, Recv, Pipes
<1>1. CASE xferLen = 0 /\ cnt > 0 /\ ready # {}
  <2>1. PICK p \in ready :
          /\ xfer' = [i \in 0 .. Burst - 1 |->
                        IF i < n THEN rg[Wrap(qHead + i)] ELSE xfer[i]]
          /\ xferLen' = n /\ xferPos' = 0 /\ xferPipe' = p
          /\ qHead' = Wrap(qHead + n)
          /\ qCount' = cnt - n
          /\ armed' = arm \ {p}
          /\ brdyPend' = pend \cup {p}
          /\ bh' = TRUE
          /\ noticed' = noticed \ {p}
    BY <1>1 DEF TryDeliver
  <2>2. n \in 1 .. Burst /\ n <= cnt /\ n \in 0 .. QSize /\ cnt - n \in 0 .. QSize
    BY <1>0, <1>1 DEF Lesser
  <2>3. xferPos = 0 /\ InFlight = 0
    BY <1>1, <1>0 DEF RingInv, Latch, InFlight
  <2> HIDE DEF n, ready
  <2>4. \A i \in 0 .. n - 1 : xfer'[i] = taken + i
    BY <1>0, <2>1, <2>2, <2>3
  <2>5. \A i \in 0 .. cnt - n - 1 : rg[Wrap(qHead' + i)] = taken + n + i
    <3>1. TAKE i \in 0 .. cnt - n - 1
    <3>2. Wrap(qHead' + i) = Wrap(qHead + (n + i)) /\ n + i \in 0 .. cnt - 1
      BY <1>0, <2>1, <2>2, WrapSum
    <3>3. rg[Wrap(qHead + (n + i))] = taken + 0 + (n + i)
      BY <3>2, <2>3
    <3>4. QED BY <1>0, <2>2, <3>2, <3>3
  <2>6. RingTypes'
    <3>1. xfer' \in [0 .. Burst - 1 -> Nat]
      <4>1. \A i \in 0 .. n - 1 : rg[Wrap(qHead + i)] \in Nat
        <5>1. TAKE i \in 0 .. n - 1
        <5>2. i \in 0 .. QSize
          BY <1>0, <2>2
        <5>3. Wrap(qHead + i) \in Slots
          BY <1>0, <5>2, WrapSlot
        <5>4. QED BY <5>3
      <4>2. QED BY <1>0, <2>1, <2>2, <4>1
    <3>2. qHead' \in Slots
      BY <1>0, <2>1, <2>2, WrapSlot
    <3>3. QED BY <1>0, <2>1, <2>2, <2>3, <3>1, <3>2 DEF RingTypes
  <2>7. Latch'
    BY <2>1, <2>2, <1>0 DEF Latch, ready
  <2>8. qTail' = Wrap(qHead' + qCount')
    <3>1. Wrap(Wrap(qHead + n) + (cnt - n)) = Wrap(qHead + (n + (cnt - n)))
      BY <1>0, <2>2, WrapSum
    <3>2. n + (cnt - n) = cnt
      BY <2>2
    <3>3. QED BY <2>1, <3>1, <3>2
  <2>9. InOrder'
    <3>1. accepted' = taken' + (xferLen' - xferPos') + qCount'
      BY <1>0, <2>1, <2>2, <2>3
    <3>2. \A i \in xferPos' .. xferLen' - 1 : xfer'[i] = taken' + (i - xferPos')
      <4>1. TAKE i \in xferPos' .. xferLen' - 1
      <4>2. i \in 0 .. n - 1 /\ i - xferPos' = i
        BY <1>0, <2>1, <2>2
      <4>3. QED BY <2>4, <4>2
    <3>3. \A i \in 0 .. qCount' - 1 :
            ring'[Wrap(qHead' + i)] = taken' + (xferLen' - xferPos') + i
      BY <1>0, <2>1, <2>2, <2>5
    <3>4. QED BY <3>1, <3>2, <3>3 DEF InOrder, InFlight
  <2>10. RingInv'
    BY <2>6, <2>7, <2>8, <2>9 DEF RingInv
  <2>11. TransferAnnounced' /\ EventScheduled'
    BY <2>1 DEF TransferAnnounced, EventScheduled
  <2>12. QED
    BY <1>0, <2>1, <2>10, <2>11 DEF ready, PendTypes
<1>2. CASE ~(xferLen = 0 /\ cnt > 0 /\ ready # {})
  <2>1. /\ UNCHANGED <<xfer, xferLen, xferPos, xferPipe, qHead, noticed>>
        /\ qCount' = cnt /\ armed' = arm /\ brdyPend' = pend /\ bh' = (bh \/ kick)
    BY <1>2 DEF TryDeliver
  <2>2. RingTypes' /\ Latch'
    <3>1. RingTypes /\ UNCHANGED <<xfer, xferLen, qHead>> /\ qCount' = cnt
      BY <2>1 DEF RingInv
    <3>2. InFlight \in Nat
      <4>1. \/ xferLen = 0 /\ xferPos = 0
            \/ xferLen > 0 /\ xferPos \in 0 .. xferLen - 1
        BY DEF RingInv, Latch
      <4>2. xferLen \in Nat
        BY <1>0
      <4>3. QED BY <4>1, <4>2 DEF InFlight
    <3>3. /\ ring' \in [Slots -> Nat] /\ qCount' \in 0 .. QSize
          /\ accepted' \in Nat /\ taken' \in Nat
      BY <1>0, <3>1, <3>2
    <3>4. Latch'
      BY <2>1 DEF RingInv, Latch
    <3>5. QED BY <3>1, <3>3, <3>4 DEF RingTypes
  <2>3. InOrder'
    BY <2>1 DEF RingInv, InOrder, InFlight
  <2>4. RingInv'
    BY <2>1, <2>2, <2>3 DEF RingInv
  <2>5. TransferAnnounced'
    BY <2>1 DEF TransferAnnounced
  <2>6. EventScheduled'
    BY <2>1 DEF EventScheduled
  <2>7. bh' \in BOOLEAN
    BY <2>1 DEF PendTypes
  <2>8. QED
    BY <2>1, <2>4, <2>5, <2>6, <2>7 DEF PendTypes
<1>3. QED BY <1>1, <1>2

-----------------------------------------------------------------------------
(* What is left alone keeps its part of the invariant. *)

LEMMA RingFrame ==
  ASSUME RingInv,
         UNCHANGED <<ring, qHead, qTail, qCount, accepted, xfer, xferLen,
                     xferPos, xferPipe, taken>>
  PROVE  RingInv'
BY DEF RingInv, RingTypes, Latch, InOrder, InFlight, Wrap

LEMMA LineFrame ==
  ASSUME LineIsLevel, UNCHANGED irqVars
  PROVE  LineIsLevel'
BY DEF LineIsLevel, irqVars, Level

LEMMA LineUpdated ==
  ASSUME UpdateIrq
  PROVE  LineIsLevel' /\ irq' \in BOOLEAN
BY Zenon DEF UpdateIrq, LineIsLevel, Level

\* A step that only touches interrupt registers, and keeps the latched BRDY
\* bits or notes the ones it clears.
LEMMA RegisterStep ==
  ASSUME IInv, UpdateIrq,
         enb0' \subseteq Causes0, enb1' \subseteq Causes1, sts1' \subseteq Causes1,
         bempsts' \subseteq Pipes, bempenb' \subseteq Pipes, brdyenb' \subseteq Pipes,
         brdysts' \subseteq Pipes, noticed' \subseteq Pipes,
         brdysts \cup noticed \subseteq brdysts' \cup noticed',
         UNCHANGED <<pendVars, attachSignalled, curpipe, ctrlVars, ringVars,
                     xfer, xferLen, xferPos, xferPipe, taken, armed, txVars>>
  PROVE  IInv'
<1>1. RingInv'
  BY RingFrame DEF IInv, ringVars
<1>2. IrqTypes' /\ LineIsLevel'
  BY LineUpdated DEF IrqTypes
<1>3. PendTypes' /\ CtrlTypes' /\ TxTypes'
  BY DEF IInv, PendTypes, CtrlTypes, TxTypes, pendVars, ctrlVars, txVars
<1>4. EventScheduled' /\ NothingDropped'
  BY DEF IInv, EventScheduled, NothingDropped, pendVars, ringVars
<1>5. TransferAnnounced'
  BY DEF IInv, TransferAnnounced, pendVars
<1>6. QED BY <1>1, <1>2, <1>3, <1>4, <1>5 DEF IInv

-----------------------------------------------------------------------------
LEMMA InitInv == Init => IInv
<1> SUFFICES ASSUME Init PROVE IInv
    OBVIOUS
<1>1. IrqTypes /\ LineIsLevel
  <2>1. irq = FALSE
    BY DEF Init
  <2>2. ~Level(enb0, enb1, sts1, brdysts, brdyenb, bempsts, bempenb)
    BY DEF Init, Level
  <2>3. IrqTypes
    BY DEF Init, IrqTypes
  <2>4. QED BY <2>1, <2>2, <2>3 DEF LineIsLevel, Level
<1>2. PendTypes
  BY DEF Init, PendTypes
<1>3. CtrlTypes /\ TxTypes
  <2>1. ctrlActive = FALSE /\ ctrlIn = FALSE /\ dataReady = FALSE
    BY DEF Init
  <2>2. curpipe \in Pipes
    BY UsbAssumption DEF Init, Ctl, Pipes
  <2>3. (respLen \in Nat /\ respPos \in 0 .. respLen)
    BY DEF Init
  <2>4. TxTypes
    BY UsbAssumption DEF Init, TxTypes
  <2>5. QED BY <2>1, <2>2, <2>3, <2>4 DEF CtrlTypes
<1>4. RingInv
  <2>1. RingTypes /\ Latch
    BY UsbAssumption DEF Init, RingTypes, Latch, Slots
  <2>2. qTail = Wrap(qHead + qCount) /\ InOrder
    BY UsbAssumption DEF Init, Wrap, InOrder, InFlight
  <2>3. QED BY <2>1, <2>2 DEF RingInv
<1>5. EventScheduled /\ NothingDropped /\ TransferAnnounced
  BY DEF Init, EventScheduled, NothingDropped, TransferAnnounced
<1>6. QED BY <1>1, <1>2, <1>3, <1>4, <1>5 DEF IInv

LEMMA StepReset ==
  ASSUME IInv, Reset
  PROVE  IInv'
<1>1. IrqTypes' /\ LineIsLevel'
  <2>1. irq' = FALSE
    BY DEF Reset
  <2>2. ~Level(enb0, enb1, sts1, brdysts, brdyenb, bempsts, bempenb)'
    BY DEF Reset, Level
  <2>3. IrqTypes'
    BY DEF Reset, IrqTypes
  <2>4. QED BY <2>1, <2>2, <2>3 DEF LineIsLevel, Level
<1>2. PendTypes'
  BY DEF IInv, Reset, PendTypes
<1>3. CtrlTypes' /\ TxTypes'
  <2>1. ctrlActive' = FALSE /\ ctrlIn' = FALSE /\ dataReady' = FALSE
    BY DEF Reset
  <2>2. curpipe' \in Pipes
    BY UsbAssumption DEF Reset, Ctl, Pipes
  <2>3. (respLen \in Nat /\ respPos \in 0 .. respLen)'
    BY DEF Reset
  <2>4. TxTypes'
    BY UsbAssumption DEF Reset, TxTypes
  <2>5. QED BY <2>1, <2>2, <2>3, <2>4 DEF CtrlTypes
<1>4. RingInv'
  <2>1. RingTypes' /\ Latch'
    BY UsbAssumption DEF IInv, RingInv, Reset, RingTypes, Latch, Slots
  <2>2. (qTail = Wrap(qHead + qCount))' /\ InOrder'
    BY UsbAssumption DEF Reset, Wrap, InOrder, InFlight
  <2>3. QED BY <2>1, <2>2 DEF RingInv
<1>5. EventScheduled' /\ NothingDropped' /\ TransferAnnounced'
  BY DEF Reset, EventScheduled, NothingDropped, TransferAnnounced
<1>6. QED BY <1>1, <1>2, <1>3, <1>4, <1>5 DEF IInv

LEMMA StepChrReceive ==
  ASSUME IInv, NEW n \in Nat, NEW k \in Nat, ChrReceive(n, k)
  PROVE  IInv'
<1> DEFINE fit == Lesser(k, QSize - qCount)
           rg  == [i \in 0 .. QSize - 1 |->
                     IF Wrap(i - qTail + QSize) < fit
                     THEN accepted + Wrap(i - qTail + QSize)
                     ELSE ring[i]]
           cnt == qCount + fit
<1>1. /\ QSize \in Nat /\ QSize > 0
      /\ qHead \in Slots /\ qCount \in 0 .. QSize /\ taken \in Nat /\ accepted \in Nat
      /\ ring \in [Slots -> Nat] /\ InFlight \in Int
      /\ qTail = Wrap(qHead + qCount) /\ qTail \in Slots
  <2>1. InFlight \in Int
    BY UsbAssumption DEF IInv, RingInv, RingTypes, Latch, InFlight
  <2>2. QED BY <2>1, WrapSlot, UsbAssumption DEF IInv, RingInv, RingTypes
<1>2. fit = k /\ fit \in 0 .. QSize - qCount /\ cnt \in 0 .. QSize
  BY <1>1 DEF ChrReceive, CanReceive, Lesser
<1>3. /\ ring' = rg /\ qTail' = Wrap(qTail + fit) /\ accepted' = accepted + fit
      /\ dropped' = dropped + (k - fit)
      /\ TryDeliver(rg, cnt, armed, brdyenb, brdyPend, FALSE)
      /\ UNCHANGED <<irqVars, attachPend, sackPend, bempPend, attachSignalled,
                     curpipe, ctrlVars, taken, txVars>>
  BY DEF ChrReceive
<1> HIDE DEF fit
<1>4. rg \in [Slots -> Nat]
  <2>1. \A i \in Slots : Wrap(i - qTail + QSize) \in Nat
    BY <1>1 DEF Wrap, Slots
  <2>2. \A i \in Slots : accepted + Wrap(i - qTail + QSize) \in Nat /\ ring[i] \in Nat
    BY <1>1, <2>1
  <2>3. \A i \in Slots : rg[i] \in Nat
    BY <2>2 DEF Slots
  <2>4. rg = [i \in Slots |-> rg[i]]
    BY DEF Slots
  <2>5. QED BY <2>3, <2>4, Zenon
<1>5. \A i \in 0 .. cnt - 1 : rg[Wrap(qHead + i)] = taken + InFlight + i
  <2>1. TAKE i \in 0 .. cnt - 1
  <2>2. i \in 0 .. QSize - 1 /\ Wrap(qHead + i) \in 0 .. QSize - 1
    <3>1. i \in 0 .. QSize - 1
      BY <1>1, <1>2
    <3>2. QED BY <1>1, <3>1, WrapSlot DEF Slots
  <2>3. Wrap(Wrap(qHead + i) - qTail + QSize)
          = IF i >= qCount THEN i - qCount ELSE QSize - qCount + i
    BY <1>1, <2>2, WrapBehind
  <2>4. accepted = taken + InFlight + qCount
    BY DEF IInv, RingInv, InOrder
  <2>5. CASE i >= qCount
    <3>1. i - qCount < fit
      BY <1>1, <1>2, <2>2
    <3>2. rg[Wrap(qHead + i)] = accepted + (i - qCount)
      BY <2>2, <2>3, <2>5, <3>1
    <3>3. QED BY <1>1, <2>2, <2>4, <3>2
  <2>6. CASE ~(i >= qCount)
    <3>1. ~(QSize - qCount + i < fit) /\ i \in 0 .. qCount - 1
      BY <1>1, <1>2, <2>2, <2>6
    <3>2. rg[Wrap(qHead + i)] = ring[Wrap(qHead + i)]
      BY <2>2, <2>3, <2>6, <3>1
    <3>3. QED BY <3>1, <3>2 DEF IInv, RingInv, InOrder
  <2>7. QED BY <2>5, <2>6
<1>6. accepted' = taken + InFlight + cnt
  BY <1>1, <1>2, <1>3 DEF IInv, RingInv, InOrder
<1>7. qTail' = Wrap(qHead + cnt)
  BY <1>1, <1>2, <1>3, WrapSum
<1>8. /\ armed \in SUBSET Recv /\ brdyenb \in SUBSET Pipes
      /\ brdyPend \in SUBSET Pipes /\ PendTypes /\ TransferAnnounced /\ RingInv
  BY DEF IInv, PendTypes, IrqTypes
<1>9. (attachPend \/ sackPend \/ brdyPend # {} \/ bempPend # {}) => (bh \/ FALSE)
  BY DEF IInv, EventScheduled
<1>10. /\ RingInv' /\ TransferAnnounced' /\ EventScheduled'
       /\ armed' \subseteq Recv /\ noticed' \subseteq Pipes
       /\ brdyPend' \subseteq Pipes /\ bh' \in BOOLEAN
  <2> HIDE DEF rg, cnt
  <2>1. brdysts' = brdysts
    BY <1>3 DEF irqVars
  <2>2. QED BY <1>2, <1>3, <1>4, <1>5, <1>6, <1>7, <1>8, <1>9, <2>1, Deliver
<1>11. NothingDropped'
  BY <1>1, <1>2, <1>3 DEF IInv, NothingDropped
<1>12. LineIsLevel'
  BY <1>3, LineFrame DEF IInv
<1>13. IrqTypes' /\ CtrlTypes' /\ TxTypes'
  BY <1>3 DEF IInv, IrqTypes, CtrlTypes, TxTypes, irqVars, ctrlVars, txVars
<1>14. PendTypes'
  BY <1>3, <1>10 DEF IInv, PendTypes
<1>15. QED BY <1>10, <1>11, <1>12, <1>13, <1>14 DEF IInv

LEMMA Unmoved ==
  ASSUME IInv, UNCHANGED vars
  PROVE  IInv'
<1>1. UNCHANGED <<irqVars, pendVars, attachSignalled, curpipe, ctrlVars, ringVars,
                  xferVars, armed, txVars>>
  BY DEF vars
<1>2. RingInv'
  BY <1>1, RingFrame DEF IInv, ringVars, xferVars
<1>3. LineIsLevel'
  BY <1>1, LineFrame DEF IInv
<1>4. IrqTypes' /\ PendTypes' /\ CtrlTypes' /\ TxTypes'
  BY <1>1 DEF IInv, IrqTypes, PendTypes, CtrlTypes, TxTypes, irqVars, pendVars,
              ctrlVars, txVars, xferVars
<1>5. EventScheduled' /\ NothingDropped' /\ TransferAnnounced'
  BY <1>1 DEF IInv, EventScheduled, NothingDropped, TransferAnnounced, pendVars,
              ringVars, irqVars, xferVars
<1>6. QED BY <1>2, <1>3, <1>4, <1>5 DEF IInv

\* Trying to hand over what the ring holds, with the line up to date.
LEMMA DeliverQueue ==
  ASSUME IInv,
         NEW arm \in SUBSET Recv, NEW enb \in SUBSET Pipes,
         NEW pend \in SUBSET Pipes, brdyPend \subseteq pend, NEW kick \in BOOLEAN,
         (attachPend \/ sackPend \/ pend # {} \/ bempPend # {}) => (bh \/ kick),
         TryDeliver(ring, qCount, arm, enb, pend, kick),
         IrqTypes', LineIsLevel', CtrlTypes', brdysts' = brdysts,
         UNCHANGED <<attachPend, sackPend, bempPend, attachSignalled, ring, qTail,
                     accepted, dropped, taken, txVars>>
  PROVE  IInv'
<1>1. /\ PendTypes /\ TransferAnnounced /\ RingInv
      /\ ring \in [Slots -> Nat] /\ qCount \in 0 .. QSize
      /\ accepted = taken + InFlight + qCount
      /\ qTail = Wrap(qHead + qCount)
      /\ \A i \in 0 .. qCount - 1 : ring[Wrap(qHead + i)] = taken + InFlight + i
  BY DEF IInv, RingInv, RingTypes, InOrder
<1>2. /\ RingInv' /\ TransferAnnounced' /\ EventScheduled'
      /\ armed' \subseteq Recv /\ noticed' \subseteq Pipes
      /\ brdyPend' \subseteq Pipes /\ bh' \in BOOLEAN
  BY <1>1, Deliver
<1>3. PendTypes'
  BY <1>2 DEF IInv, PendTypes
<1>4. TxTypes' /\ NothingDropped'
  BY DEF IInv, TxTypes, NothingDropped, txVars
<1>5. QED BY <1>2, <1>3, <1>4 DEF IInv

LEMMA StepWritePipeCtr ==
  ASSUME IInv, NEW p \in Pipes, NEW buf \in BOOLEAN, WritePipeCtr(p, buf)
  PROVE  IInv'
<1>0. ASSUME UNCHANGED vars PROVE IInv'
  BY <1>0, Unmoved
<1>1. ASSUME buf /\ p \in Recv PROVE IInv'
  <2>1. /\ TryDeliver(ring, qCount, armed \cup {p}, brdyenb, brdyPend, FALSE)
        /\ UNCHANGED <<irqVars, attachPend, sackPend, bempPend, attachSignalled,
                      curpipe, ctrlVars, ring, qTail, accepted, dropped, taken,
                      txVars>>
    BY <1>1 DEF WritePipeCtr
  <2>2. IrqTypes' /\ LineIsLevel' /\ CtrlTypes' /\ brdysts' = brdysts
    BY <2>1, LineFrame DEF IInv, IrqTypes, CtrlTypes, irqVars, ctrlVars
  <2>3. /\ armed \cup {p} \in SUBSET Recv /\ brdyenb \in SUBSET Pipes
        /\ brdyPend \in SUBSET Pipes
    BY <1>1 DEF IInv, PendTypes, IrqTypes
  <2>4. (attachPend \/ sackPend \/ brdyPend # {} \/ bempPend # {}) => (bh \/ FALSE)
    BY DEF IInv, EventScheduled
  <2>5. QED BY <2>1, <2>2, <2>3, <2>4, DeliverQueue
<1>2. QED BY <1>0, <1>1 DEF WritePipeCtr

LEMMA StepWriteBrdyenb ==
  ASSUME IInv, NEW c \in SUBSET Pipes, WriteBrdyenb(c)
  PROVE  IInv'
<1> DEFINE data   == Ctl \in c /\ dataReady /\ respPos < respLen
           status == Ctl \in c /\ ~(dataReady /\ respPos < respLen) /\ ctrlActive /\ ~ctrlIn
           pend   == IF data \/ status THEN brdyPend \cup {Ctl} ELSE brdyPend
<1>1. /\ brdyenb' = c
      /\ ctrlActive' = (ctrlActive /\ ~status)
      /\ TryDeliver(ring, qCount, armed, c, pend, data \/ status)
      /\ UNCHANGED <<enb0, enb1, sts1, brdysts, bempsts, bempenb>>
      /\ UpdateIrq
      /\ UNCHANGED <<attachPend, sackPend, bempPend, attachSignalled, curpipe,
                     ctrlIn, dataReady, respLen, respPos, ring, qTail, accepted,
                     dropped, taken, txVars>>
  BY DEF WriteBrdyenb
<1>2. LineIsLevel' /\ IrqTypes'
  BY <1>1, LineUpdated DEF IInv, IrqTypes
<1>3. CtrlTypes'
  <2>1. ctrlActive' \in BOOLEAN
    BY <1>1
  <2>2. QED BY <1>1, <2>1 DEF IInv, CtrlTypes
<1>4. pend \in SUBSET Pipes /\ brdyPend \subseteq pend /\ (data \/ status) \in BOOLEAN
  <2>1. brdyPend \subseteq Pipes /\ Ctl \in Pipes
    BY UsbAssumption DEF IInv, PendTypes, Ctl, Pipes
  <2>2. QED BY <2>1
<1>5. (attachPend \/ sackPend \/ pend # {} \/ bempPend # {}) => (bh \/ (data \/ status))
  BY DEF IInv, EventScheduled
<1>6. armed \in SUBSET Recv
  BY DEF IInv, PendTypes
<1>7. QED
  <2> HIDE DEF data, status, pend
  <2>1. QED BY <1>1, <1>2, <1>3, <1>4, <1>5, <1>6, DeliverQueue

-----------------------------------------------------------------------------
LEMMA StepClear ==
  ASSUME IInv,
         \/ \E c \in SUBSET Causes1 : ClearSts1(c)
         \/ \E c \in SUBSET Pipes : ClearBrdy(c) \/ ClearBemp(c)
  PROVE  IInv'
<1>0. /\ enb0 \subseteq Causes0 /\ enb1 \subseteq Causes1 /\ sts1 \subseteq Causes1
      /\ bempsts \subseteq Pipes /\ bempenb \subseteq Pipes /\ brdyenb \subseteq Pipes
      /\ brdysts \subseteq Pipes /\ noticed \subseteq Pipes
  BY DEF IInv, IrqTypes, PendTypes
<1>1. ASSUME NEW c \in SUBSET Causes1, ClearSts1(c) PROVE IInv'
  BY <1>0, <1>1, RegisterStep DEF ClearSts1, xferVars
<1>2. ASSUME NEW c \in SUBSET Pipes, ClearBrdy(c) PROVE IInv'
  BY <1>0, <1>2, RegisterStep DEF ClearBrdy
<1>3. ASSUME NEW c \in SUBSET Pipes, ClearBemp(c) PROVE IInv'
  BY <1>0, <1>3, RegisterStep DEF ClearBemp, xferVars
<1>4. QED BY <1>1, <1>2, <1>3

LEMMA StepWriteIntenb0 ==
  ASSUME IInv, NEW c \in SUBSET Causes0, WriteIntenb0(c)
  PROVE  IInv'
<1>1. /\ enb0' \subseteq Causes0 /\ enb1 \subseteq Causes1 /\ sts1 \subseteq Causes1
      /\ bempsts \subseteq Pipes /\ bempenb \subseteq Pipes /\ brdyenb \subseteq Pipes
      /\ brdysts \subseteq Pipes /\ noticed \subseteq Pipes
  BY DEF IInv, IrqTypes, PendTypes, WriteIntenb0
<1>2. QED BY <1>1, RegisterStep DEF WriteIntenb0, xferVars

-----------------------------------------------------------------------------
\* A step that queues events other than BRDY of a latched transfer, and
\* schedules the bottom half for them.
LEMMA QueueStep ==
  ASSUME IInv, IrqTypes', LineIsLevel', PendTypes', CtrlTypes', TxTypes',
         RingInv', EventScheduled',
         brdyPend \subseteq brdyPend', brdysts \subseteq brdysts',
         xferLen' > 0 => (xferLen > 0 /\ xferPipe' = xferPipe),
         UNCHANGED <<noticed, dropped>>
  PROVE  IInv'
<1>1. NothingDropped'
  BY DEF IInv, NothingDropped
<1>2. TransferAnnounced'
  BY DEF IInv, TransferAnnounced
<1>3. QED BY <1>1, <1>2 DEF IInv

LEMMA StepWriteIntenb1 ==
  ASSUME IInv, NEW c \in SUBSET Causes1, WriteIntenb1(c)
  PROVE  IInv'
<1>1. IrqTypes' /\ LineIsLevel'
  BY LineUpdated DEF IInv, IrqTypes, WriteIntenb1
<1>2. PendTypes' /\ EventScheduled'
  <2>1. CASE "ATTCH" \in c /\ ~attachSignalled
    BY <2>1 DEF IInv, PendTypes, EventScheduled, WriteIntenb1, xferVars
  <2>2. CASE ~("ATTCH" \in c /\ ~attachSignalled)
    BY <2>2 DEF IInv, PendTypes, EventScheduled, WriteIntenb1, xferVars
  <2>3. QED BY <2>1, <2>2
<1>3. CtrlTypes' /\ TxTypes'
  BY DEF IInv, CtrlTypes, TxTypes, WriteIntenb1, ctrlVars, txVars
<1>4. RingInv'
  BY RingFrame DEF IInv, WriteIntenb1, ringVars, xferVars
<1>5. QED
  BY <1>1, <1>2, <1>3, <1>4, QueueStep DEF WriteIntenb1, xferVars, ringVars

LEMMA StepWriteBempenb ==
  ASSUME IInv, NEW c \in SUBSET Pipes, WriteBempenb(c)
  PROVE  IInv'
<1> DEFINE status == Ctl \in c /\ ctrlActive /\ ~dataReady
<1>0. /\ bempenb' = c
      /\ ctrlActive' = (ctrlActive /\ ~status)
      /\ bempPend' = IF status THEN bempPend \cup {Ctl} ELSE bempPend
      /\ bh' = (bh \/ status)
      /\ UNCHANGED <<enb0, enb1, sts1, brdysts, brdyenb, bempsts>>
      /\ UpdateIrq
      /\ UNCHANGED <<attachPend, sackPend, brdyPend, attachSignalled, curpipe,
                     ctrlIn, dataReady, respLen, respPos, ringVars, xferVars,
                     armed, txVars>>
  BY DEF WriteBempenb
<1>1. IrqTypes' /\ LineIsLevel'
  BY <1>0, LineUpdated DEF IInv, IrqTypes
<1>2. PendTypes' /\ EventScheduled'
  <2>1. bh' \in BOOLEAN /\ Ctl \in Pipes
    BY <1>0, UsbAssumption DEF Ctl, Pipes
  <2>2. EventScheduled'
    BY <1>0 DEF IInv, EventScheduled
  <2>3. QED BY <1>0, <2>1, <2>2 DEF IInv, PendTypes, xferVars
<1>3. CtrlTypes' /\ TxTypes'
  <2>1. ctrlActive' \in BOOLEAN
    BY <1>0
  <2>2. QED BY <1>0, <2>1 DEF IInv, CtrlTypes, TxTypes, txVars
<1>4. RingInv'
  BY <1>0, RingFrame DEF IInv, ringVars, xferVars
<1>5. QED
  BY <1>0, <1>1, <1>2, <1>3, <1>4, QueueStep DEF xferVars, ringVars

LEMMA StepEvent ==
  ASSUME IInv, Event
  PROVE  IInv'
<1>1. IrqTypes' /\ LineIsLevel'
  <2>1. sts1' \subseteq Causes1
    BY DEF IInv, IrqTypes, Event, Causes1
  <2>2. brdysts' \subseteq Pipes /\ bempsts' \subseteq Pipes
    BY DEF IInv, IrqTypes, PendTypes, Event
  <2>3. QED BY <2>1, <2>2, LineUpdated DEF IInv, IrqTypes, Event
<1>2. PendTypes' /\ EventScheduled'
  BY DEF IInv, PendTypes, EventScheduled, Event, xferVars
<1>3. CtrlTypes' /\ TxTypes'
  BY DEF IInv, CtrlTypes, TxTypes, Event, ctrlVars, txVars
<1>4. RingInv'
  BY RingFrame DEF IInv, Event, ringVars, xferVars
<1>5. NothingDropped'
  BY DEF IInv, NothingDropped, Event, ringVars
<1>6. TransferAnnounced'
  <2>1. xferLen' = xferLen /\ xferPipe' = xferPipe /\ noticed' = noticed
        /\ brdysts' = brdysts \cup brdyPend
    BY DEF Event, xferVars
  <2>2. QED BY <2>1 DEF IInv, TransferAnnounced
<1>7. QED BY <1>1, <1>2, <1>3, <1>4, <1>5, <1>6 DEF IInv

LEMMA StepSetup ==
  ASSUME IInv, NEW in \in BOOLEAN, NEW words \in Nat, Setup(in, words)
  PROVE  IInv'
<1>1. IrqTypes' /\ LineIsLevel'
  BY LineFrame DEF IInv, IrqTypes, Setup, irqVars
<1>2. PendTypes' /\ EventScheduled'
  BY DEF IInv, PendTypes, EventScheduled, Setup, xferVars
<1>3. CtrlTypes' /\ TxTypes'
  <2>1. dataReady' \in BOOLEAN
    BY DEF Setup
  <2>2. QED BY <2>1 DEF IInv, CtrlTypes, TxTypes, Setup, txVars
<1>4. RingInv'
  BY RingFrame DEF IInv, Setup, ringVars, xferVars
<1>5. QED
  BY <1>1, <1>2, <1>3, <1>4, QueueStep DEF Setup, irqVars, xferVars, ringVars

LEMMA StepComplete ==
  ASSUME IInv, Complete
  PROVE  IInv'
<1>0. /\ ctrlActive' = FALSE
      /\ bempPend' = IF ctrlActive THEN bempPend \cup {Ctl} ELSE bempPend
      /\ bh' = (bh \/ ctrlActive)
      /\ UNCHANGED <<irqVars, attachPend, sackPend, brdyPend, attachSignalled,
                     curpipe, ctrlIn, dataReady, respLen, respPos, ringVars,
                     xferVars, armed, txVars>>
  BY DEF Complete
<1>1. IrqTypes' /\ LineIsLevel'
  BY <1>0, LineFrame DEF IInv, IrqTypes, irqVars
<1>2. PendTypes' /\ EventScheduled'
  <2>1. bh' \in BOOLEAN /\ Ctl \in Pipes
    BY <1>0, UsbAssumption DEF Ctl, Pipes
  <2>2. EventScheduled'
    BY <1>0 DEF IInv, EventScheduled
  <2>3. QED BY <1>0, <2>1, <2>2 DEF IInv, PendTypes, xferVars
<1>3. CtrlTypes' /\ TxTypes'
  BY <1>0 DEF IInv, CtrlTypes, TxTypes, txVars
<1>4. RingInv'
  BY <1>0, RingFrame DEF IInv, ringVars, xferVars
<1>5. QED
  BY <1>0, <1>1, <1>2, <1>3, <1>4, QueueStep DEF irqVars, xferVars, ringVars

-----------------------------------------------------------------------------
LEMMA StepSelectPipe ==
  ASSUME IInv, NEW p \in Pipes, SelectPipe(p)
  PROVE  IInv'
<1>1. IrqTypes' /\ LineIsLevel'
  BY LineFrame DEF IInv, IrqTypes, SelectPipe, irqVars
<1>2. PendTypes' /\ EventScheduled'
  BY DEF IInv, PendTypes, EventScheduled, SelectPipe, xferVars, pendVars
<1>3. CtrlTypes' /\ TxTypes'
  BY DEF IInv, CtrlTypes, TxTypes, SelectPipe, ctrlVars, txVars
<1>4. RingInv'
  BY RingFrame DEF IInv, SelectPipe, ringVars, xferVars
<1>5. QED
  BY <1>1, <1>2, <1>3, <1>4, QueueStep DEF SelectPipe, irqVars, pendVars, xferVars, ringVars

LEMMA StepReadBulk ==
  ASSUME IInv, ReadBulk
  PROVE  IInv'
<1>1. IrqTypes' /\ LineIsLevel'
  BY LineFrame DEF IInv, IrqTypes, ReadBulk, irqVars
<1>2. PendTypes' /\ EventScheduled'
  BY DEF IInv, PendTypes, EventScheduled, ReadBulk, pendVars
<1>3. CtrlTypes' /\ TxTypes'
  BY DEF IInv, CtrlTypes, TxTypes, ReadBulk, ctrlVars, txVars
<1>4. RingInv'
  <2>0. /\ RingTypes /\ InOrder /\ Burst \in Nat
        /\ xferLen > 0 /\ xferLen \in Nat /\ xferPos \in 0 .. xferLen - 1
        /\ xferPipe \in Recv /\ taken \in Nat
        /\ taken' = taken + 1 /\ UNCHANGED <<ringVars, xfer>>
    BY UsbAssumption DEF IInv, RingInv, RingTypes, Latch, ReadBulk, BulkSelected
  <2>1. InFlight' = InFlight - 1 /\ InFlight \in Int /\ xferPos' .. xferLen' - 1 \subseteq xferPos + 1 .. xferLen - 1
        /\ Latch' /\ xferLen' \in 0 .. Burst
    <3>1. CASE xferPos + 1 >= xferLen
      BY <2>0, <3>1 DEF ReadBulk, InFlight, Latch, RingTypes
    <3>2. CASE ~(xferPos + 1 >= xferLen)
      BY <2>0, <3>2 DEF ReadBulk, InFlight, Latch, RingTypes
    <3>3. QED BY <3>1, <3>2
  <2>2. RingTypes'
    BY <2>0, <2>1 DEF RingTypes, ringVars
  <2>3. ASSUME NEW i \in xferPos' .. xferLen' - 1
        PROVE  xfer'[i] = taken' + (i - xferPos')
    <3>1. CASE xferPos + 1 >= xferLen
      BY <2>0, <3>1 DEF ReadBulk
    <3>2. CASE ~(xferPos + 1 >= xferLen)
      <4>1. xferPos' = xferPos + 1 /\ xferLen' = xferLen
        BY <3>2 DEF ReadBulk
      <4>2. i \in xferPos .. xferLen - 1 /\ i \in Int
        BY <2>0, <4>1
      <4>3. xfer[i] = taken + (i - xferPos)
        BY <4>2, <2>0 DEF InOrder
      <4>4. QED BY <2>0, <4>1, <4>2, <4>3
    <3>3. QED BY <3>1, <3>2
  <2>4. InOrder'
    <3>1. accepted' = taken' + InFlight' + qCount'
      BY <2>0, <2>1 DEF InOrder, ringVars, RingTypes
    <3>2. \A i \in xferPos' .. xferLen' - 1 : xfer'[i] = taken' + (i - xferPos')
      BY <2>3
    <3>3. \A i \in 0 .. qCount' - 1 : ring'[Wrap(qHead' + i)] = taken' + InFlight' + i
      <4>1. TAKE i \in 0 .. qCount' - 1
      <4>2. qCount' = qCount /\ qHead' = qHead /\ ring' = ring /\ i \in Int
        BY <2>0 DEF ringVars
      <4>3. ring[Wrap(qHead + i)] = taken + InFlight + i
        BY <2>0, <4>2 DEF InOrder
      <4>4. QED BY <2>0, <2>1, <4>2, <4>3
    <3>4. QED BY <3>1, <3>2, <3>3 DEF InOrder, Wrap
  <2>5. QED BY <2>0, <2>1, <2>2, <2>4 DEF IInv, RingInv, ringVars, Wrap
<1>5. xferLen' > 0 => (xferLen > 0 /\ xferPipe' = xferPipe)
  BY DEF ReadBulk, BulkSelected
<1>6. QED
  BY <1>1, <1>2, <1>3, <1>4, <1>5, QueueStep DEF ReadBulk, irqVars, pendVars, ringVars

LEMMA StepReadControl ==
  ASSUME IInv, ReadControl
  PROVE  IInv'
<1> DEFINE pos == IF respPos < respLen THEN respPos + 1 ELSE respPos
           more == pos < respLen /\ pos % CtlPacket = 0
<1>0. /\ respPos' = pos
      /\ dataReady' = (dataReady /\ pos < respLen)
      /\ brdyPend' = IF more THEN brdyPend \cup {Ctl} ELSE brdyPend
      /\ bh' = (bh \/ more)
      /\ UNCHANGED <<irqVars, attachPend, sackPend, bempPend, attachSignalled,
                     curpipe, ctrlActive, ctrlIn, respLen, ringVars, xferVars,
                     armed, txVars>>
  BY DEF ReadControl
<1>1. IrqTypes' /\ LineIsLevel'
  BY <1>0, LineFrame DEF IInv, IrqTypes, irqVars
<1>2. PendTypes' /\ EventScheduled'
  <2> HIDE DEF more
  <2>1. bh' \in BOOLEAN /\ Ctl \in Pipes
    BY <1>0, UsbAssumption DEF Ctl, Pipes
  <2>2. EventScheduled'
    BY <1>0 DEF IInv, EventScheduled
  <2>3. QED BY <1>0, <2>1, <2>2 DEF IInv, PendTypes, xferVars
<1>3. CtrlTypes' /\ TxTypes'
  <2>1. dataReady' \in BOOLEAN
    BY <1>0
  <2>2. respLen' \in Nat /\ respPos' \in 0 .. respLen'
    BY <1>0 DEF IInv, CtrlTypes
  <2>3. QED BY <1>0, <2>1, <2>2 DEF IInv, CtrlTypes, TxTypes, txVars
<1>4. RingInv'
  BY <1>0, RingFrame DEF IInv, ringVars, xferVars
<1>5. QED
  <2> HIDE DEF more
  <2>1. QED BY <1>0, <1>1, <1>2, <1>3, <1>4, QueueStep DEF irqVars, xferVars, ringVars

LEMMA StepWriteFifo ==
  ASSUME IInv, WriteFifo
  PROVE  IInv'
<1>1. IrqTypes' /\ LineIsLevel'
  BY LineFrame DEF IInv, IrqTypes, WriteFifo, irqVars
<1>2. PendTypes' /\ EventScheduled'
  BY DEF IInv, PendTypes, EventScheduled, WriteFifo, xferVars, pendVars
<1>3. CtrlTypes'
  BY DEF IInv, CtrlTypes, WriteFifo, ctrlVars
<1>4. TxTypes'
  BY UsbAssumption DEF IInv, TxTypes, WriteFifo, Lesser
<1>5. RingInv'
  BY RingFrame DEF IInv, WriteFifo, ringVars, xferVars
<1>6. QED
  BY <1>1, <1>2, <1>3, <1>4, <1>5, QueueStep DEF WriteFifo, irqVars, pendVars, xferVars, ringVars

LEMMA StepWriteFifoCtr ==
  ASSUME IInv, NEW bval \in BOOLEAN, NEW bclr \in BOOLEAN, WriteFifoCtr(bval, bclr)
  PROVE  IInv'
<1> DEFINE commit == curpipe = Send /\ bval
<1>0. /\ txLen' = IF commit \/ bclr THEN 0 ELSE txLen
      /\ sent' = IF commit THEN sent + txLen ELSE sent
      /\ bempPend' = IF commit THEN bempPend \cup {Send} ELSE bempPend
      /\ bh' = (bh \/ commit)
      /\ UNCHANGED <<irqVars, attachPend, sackPend, brdyPend, attachSignalled,
                     curpipe, ctrlVars, ringVars, xferVars, armed, written>>
  BY DEF WriteFifoCtr
<1>1. IrqTypes' /\ LineIsLevel'
  BY <1>0, LineFrame DEF IInv, IrqTypes, irqVars
<1>2. PendTypes' /\ EventScheduled'
  <2> HIDE DEF commit
  <2>1. bh' \in BOOLEAN /\ Send \in Pipes
    BY <1>0, UsbAssumption DEF Send, Pipes
  <2>2. EventScheduled'
    BY <1>0 DEF IInv, EventScheduled
  <2>3. QED BY <1>0, <2>1, <2>2 DEF IInv, PendTypes, xferVars
<1>3. CtrlTypes'
  BY <1>0 DEF IInv, CtrlTypes, ctrlVars
<1>4. TxTypes'
  <2> HIDE DEF commit
  <2>1. QED BY <1>0, UsbAssumption DEF IInv, TxTypes
<1>5. RingInv'
  BY <1>0, RingFrame DEF IInv, ringVars, xferVars
<1>6. QED
  BY <1>0, <1>1, <1>2, <1>3, <1>4, <1>5, QueueStep DEF irqVars, xferVars, ringVars

-----------------------------------------------------------------------------
LEMMA StepInv == IInv /\ [Next]_vars => IInv'
<1> SUFFICES ASSUME IInv, [Next]_vars PROVE IInv'
    OBVIOUS
<1>1. CASE HostInput
  <2>1. PICK n \in 0 .. CanReceive : \E k \in 0 .. n : ChrReceive(n, k)
    BY <1>1 DEF HostInput
  <2>2. PICK k \in 0 .. n : ChrReceive(n, k)
    BY <2>1
  <2>3. n \in Nat /\ k \in Nat
    OBVIOUS
  <2>4. QED BY <2>2, <2>3, StepChrReceive
<1>2. CASE Event
  BY <1>2, StepEvent
<1>3. CASE Registers
  <2>1. CASE \E c \in SUBSET Causes1 : ClearSts1(c) \/ WriteIntenb1(c)
    BY <2>1, StepClear, StepWriteIntenb1
  <2>2. CASE \E c \in SUBSET Causes0 : WriteIntenb0(c)
    BY <2>2, StepWriteIntenb0
  <2>3. CASE \E c \in SUBSET Pipes : ClearBrdy(c) \/ ClearBemp(c)
    BY <2>3, StepClear
  <2>4. CASE \E c \in SUBSET Pipes : WriteBrdyenb(c) \/ WriteBempenb(c)
    BY <2>4, StepWriteBrdyenb, StepWriteBempenb
  <2>5. CASE \E in \in BOOLEAN, words \in RespLengths \cup {0} : Setup(in, words)
    BY <2>5, StepSetup, UsbAssumption
  <2>6. CASE Complete
    BY <2>6, StepComplete
  <2>7. CASE \E p \in Pipes, buf \in BOOLEAN : WritePipeCtr(p, buf)
    BY <2>7, StepWritePipeCtr
  <2>8. CASE \E p \in Pipes : SelectPipe(p)
    BY <2>8, StepSelectPipe
  <2>9. QED
    BY <1>3, <2>1, <2>2, <2>3, <2>4, <2>5, <2>6, <2>7, <2>8 DEF Registers
<1>4. CASE Fifo
  BY <1>4, StepReadBulk, StepReadControl, StepWriteFifo, StepWriteFifoCtr DEF Fifo
<1>5. CASE Reset
  BY <1>5, StepReset
<1>6. CASE UNCHANGED vars
  BY <1>6, Unmoved
<1>7. QED BY <1>1, <1>2, <1>3, <1>4, <1>5, <1>6 DEF Next

-----------------------------------------------------------------------------
(* The invariant holds in every reachable state.                           *)
THEOREM Invariance == Spec => []IInv
BY InitInv, StepInv, PTL DEF Spec

LEMMA InvTypes == IInv => TypeOK
<1> SUFFICES ASSUME IInv PROVE TypeOK
    OBVIOUS
<1>1. xferPos \in 0 .. Burst /\ xferPipe \in Recv \cup {0}
  BY UsbAssumption DEF IInv, RingInv, RingTypes, Latch
<1>2. qTail \in Slots
  BY WrapSlot DEF IInv, RingInv, RingTypes
<1>3. dropped \in Nat
  BY DEF IInv, NothingDropped
<1>4. QED
  BY <1>1, <1>2, <1>3 DEF IInv, IrqTypes, PendTypes, CtrlTypes, TxTypes, RingInv,
     RingTypes, TypeOK, Slots

(* Every register, cursor and queue keeps its type, whatever the firmware  *)
(* writes and whenever the device is reset.                                *)
THEOREM TypeCorrect == Spec => []TypeOK
BY Invariance, InvTypes, PTL

(* The interrupt line never disagrees with the status and enable           *)
(* registers (rza1l_usb_update_irq is called wherever it has to be).       *)
THEOREM LineExact == Spec => []LineIsLevel
<1>1. IInv => LineIsLevel
  BY DEF IInv
<1>2. QED BY Invariance, <1>1, PTL

(* No queued event waits without a bottom half to apply it.                *)
THEOREM EventsScheduled == Spec => []EventScheduled
<1>1. IInv => EventScheduled
  BY DEF IInv
<1>2. QED BY Invariance, <1>1, PTL

(* The space can_receive reports is enough for every packet the bytes can  *)
(* make: the ring never drops one.                                         *)
THEOREM FlowControl == Spec => []NothingDropped
<1>1. IInv => NothingDropped
  BY DEF IInv
<1>2. QED BY Invariance, <1>1, PTL

(* Packets reach the firmware in the order they were framed, each once,    *)
(* for every ring size, burst and number of pipes.                         *)
THEOREM PacketOrder == Spec => []InOrder
<1>1. IInv => InOrder
  BY DEF IInv, RingInv
<1>2. QED BY Invariance, <1>1, PTL

(* A latched transfer has been announced to the firmware.                  *)
THEOREM TransfersAnnounced == Spec => []TransferAnnounced
<1>1. IInv => TransferAnnounced
  BY DEF IInv
<1>2. QED BY Invariance, <1>1, PTL

-----------------------------------------------------------------------------
(* Refinement: ring and latch together are the abstract queue.  In every   *)
(* reachable state the queue is a run of consecutive numbers, so a step is *)
(* known by what it does to the two counters.                              *)

Run(a, t) == [i \in 1 .. a - t |-> t + i - 1]

LEMMA RunAppend ==
  ASSUME NEW a \in Nat, NEW t \in 0 .. a, NEW n \in Nat
  PROVE  Run(a + n, t) = Run(a, t) \o [i \in 1 .. n |-> a + i - 1]
<1> DEFINE more == [i \in 1 .. n |-> a + i - 1]
<1>1. Run(a, t) \in Seq(Nat) /\ Len(Run(a, t)) = a - t
  BY DEF Run
<1>2. more \in Seq(Nat) /\ Len(more) = n
  OBVIOUS
<1>3. Run(a, t) \o more \in Seq(Nat) /\ Len(Run(a, t) \o more) = a - t + n
  BY <1>1, <1>2
<1>4. Run(a + n, t) \in Seq(Nat) /\ Len(Run(a + n, t)) = a - t + n
  BY DEF Run
<1>5. \A i \in 1 .. a - t + n : (Run(a, t) \o more)[i] = Run(a + n, t)[i]
  BY <1>1, <1>2 DEF Run
<1>6. QED BY <1>3, <1>4, <1>5, SeqEqual

LEMMA RunTail ==
  ASSUME NEW a \in Nat, NEW t \in 0 .. a, t < a
  PROVE  Run(a, t) # <<>> /\ Tail(Run(a, t)) = Run(a, t + 1)
<1>1. Run(a, t) \in Seq(Nat) /\ Len(Run(a, t)) = a - t
  BY DEF Run
<1>2. Tail(Run(a, t)) \in Seq(Nat) /\ Len(Tail(Run(a, t))) = a - t - 1
  BY <1>1
<1>3. Run(a, t + 1) \in Seq(Nat) /\ Len(Run(a, t + 1)) = a - t - 1
  BY DEF Run
<1>4. \A i \in 1 .. a - t - 1 : Tail(Run(a, t))[i] = Run(a, t + 1)[i]
  BY <1>1 DEF Run
<1>5. Run(a, t) # <<>>
  BY <1>1
<1>6. QED BY <1>2, <1>3, <1>4, <1>5, SeqEqual

IsRun ==
  /\ Contents = Run(accepted, taken)
  /\ accepted \in Nat /\ taken \in 0 .. accepted
  /\ accepted - taken <= QSize + Burst

LEMMA ContentsRun == IInv => IsRun
<1> SUFFICES ASSUME IInv PROVE IsRun
    OBVIOUS
<1>0. /\ xferLen \in 0 .. Burst /\ Burst \in Nat /\ Burst > 0
      /\ (xferLen = 0 /\ xferPos = 0) \/ (xferLen > 0 /\ xferPos \in 0 .. xferLen - 1)
  BY UsbAssumption DEF IInv, RingInv, RingTypes, Latch
<1>1. /\ InFlight \in 0 .. Burst /\ qCount \in 0 .. QSize
      /\ accepted \in Nat /\ taken \in Nat /\ xferLen \in Nat /\ xferPos \in Nat
      /\ accepted = taken + InFlight + qCount
      /\ Burst \in Nat /\ QSize \in Nat
      /\ InFlight = xferLen - xferPos
  <2>1. InFlight \in 0 .. Burst /\ xferLen \in Nat /\ xferPos \in Nat
    BY <1>0 DEF InFlight
  <2>2. QED BY <2>1, UsbAssumption DEF IInv, RingInv, RingTypes, InFlight, InOrder
<1>2. ASSUME NEW i \in 1 .. InFlight + qCount
      PROVE  (IF i <= InFlight THEN xfer[xferPos + i - 1]
              ELSE ring[Wrap(qHead + (i - InFlight - 1))]) = taken + i - 1
  <2>1. CASE i <= InFlight
    <3>1. xferPos + i - 1 \in xferPos .. xferLen - 1
      BY <1>1, <2>1
    <3>2. xfer[xferPos + i - 1] = taken + ((xferPos + i - 1) - xferPos)
      BY <3>1 DEF IInv, RingInv, InOrder
    <3>3. QED BY <1>1, <2>1, <3>2
  <2>2. CASE ~(i <= InFlight)
    <3>1. i - InFlight - 1 \in 0 .. qCount - 1
      BY <1>1, <2>2
    <3>2. ring[Wrap(qHead + (i - InFlight - 1))] = taken + InFlight + (i - InFlight - 1)
      BY <3>1 DEF IInv, RingInv, InOrder
    <3>3. QED BY <1>1, <2>2, <3>2
  <2>3. QED BY <2>1, <2>2
<1>3. Contents = [i \in 1 .. InFlight + qCount |-> taken + i - 1]
  BY <1>2 DEF Contents
<1>4. QED BY <1>1, <1>3 DEF Run, IsRun

\* Every step but a host's, a read of the latch and a reset leaves the
\* counters alone.
LEMMA CountersStep ==
  ASSUME IInv, [Next]_vars
  PROVE  \/ UNCHANGED <<accepted, taken>>
         \/ \E n \in Nat : accepted' = accepted + n /\ taken' = taken
         \/ accepted > taken /\ accepted' = accepted /\ taken' = taken + 1
         \/ accepted' = 0 /\ taken' = 0
<1>1. CASE HostInput
  <2>1. PICK n \in 0 .. CanReceive : \E k \in 0 .. n : ChrReceive(n, k)
    BY <1>1 DEF HostInput
  <2>2. PICK k \in 0 .. n : ChrReceive(n, k)
    BY <2>1
  <2>3. qCount \in 0 .. QSize /\ QSize \in Nat
    BY UsbAssumption DEF IInv, RingInv, RingTypes
  <2>4. Lesser(k, QSize - qCount) \in Nat
    BY <2>3 DEF Lesser
  <2>5. accepted' = accepted + Lesser(k, QSize - qCount) /\ taken' = taken
    BY <2>2 DEF ChrReceive
  <2>6. QED BY <2>4, <2>5
<1>2. CASE Event
  BY <1>2 DEF Event, ringVars, xferVars
<1>3. CASE Registers
  BY <1>3 DEF Registers, ClearSts1, WriteIntenb1, WriteIntenb0, ClearBrdy, ClearBemp,
              WriteBrdyenb, WriteBempenb, Setup, Complete, WritePipeCtr, SelectPipe,
              ringVars, xferVars, vars
<1>4. CASE Fifo
  <2>1. CASE ReadBulk
    <3>1. accepted > taken
      BY <2>1, UsbAssumption DEF ReadBulk, BulkSelected, IInv, RingInv, RingTypes,
                                 Latch, InOrder, InFlight
    <3>2. QED BY <2>1, <3>1 DEF ReadBulk, ringVars
  <2>2. CASE ReadControl
    BY <2>2 DEF ReadControl, ringVars, xferVars
  <2>3. CASE WriteFifo
    BY <2>3 DEF WriteFifo, ringVars, xferVars
  <2>4. CASE \E bval, bclr \in BOOLEAN : WriteFifoCtr(bval, bclr)
    BY <2>4 DEF WriteFifoCtr, ringVars, xferVars
  <2>5. QED BY <1>4, <2>1, <2>2, <2>3, <2>4 DEF Fifo
<1>5. CASE Reset
  BY <1>5 DEF Reset
<1>6. CASE UNCHANGED vars
  BY <1>6 DEF vars, ringVars, xferVars
<1>7. QED BY <1>1, <1>2, <1>3, <1>4, <1>5, <1>6 DEF Next

LEMMA QueueStepMaps ==
  ASSUME IInv, IsRun, IsRun', [Next]_vars
  PROVE  [Queue!Next]_<<Contents, accepted>>
<1>1. /\ Contents = Run(accepted, taken) /\ accepted \in Nat /\ taken \in 0 .. accepted
      /\ accepted - taken <= QSize + Burst
  BY DEF IsRun
<1>2. /\ Contents' = Run(accepted', taken') /\ accepted' \in Nat /\ taken' \in 0 .. accepted'
      /\ accepted' - taken' <= QSize + Burst
  BY DEF IsRun, Run
<1>3. CASE UNCHANGED <<accepted, taken>>
  BY <1>1, <1>2, <1>3
<1>4. ASSUME NEW n \in Nat, accepted' = accepted + n, taken' = taken
      PROVE  [Queue!Next]_<<Contents, accepted>>
  <2>1. CASE n = 0
    BY <1>1, <1>2, <1>4, <2>1
  <2>2. CASE n > 0
    <3>1. Contents' = Contents \o [i \in 1 .. n |-> accepted + i - 1]
      BY <1>1, <1>2, <1>4, RunAppend
    <3>2. Len(Contents) = accepted - taken
      BY <1>1 DEF Run
    <3>3. Len(Contents) + n <= QSize + Burst /\ n \in 1 .. QSize + Burst
      BY <1>1, <1>2, <1>4, <2>2, <3>2, UsbAssumption
    <3>4. Queue!Accept(n)
      BY <1>4, <3>1, <3>3 DEF Queue!Accept
    <3>5. QED BY <3>3, <3>4 DEF Queue!Next
  <2>3. QED BY <2>1, <2>2
<1>5. ASSUME accepted > taken, accepted' = accepted, taken' = taken + 1
      PROVE  [Queue!Next]_<<Contents, accepted>>
  <2>1. Contents # <<>> /\ Contents' = Tail(Contents)
    BY <1>1, <1>2, <1>5, RunTail
  <2>2. QED BY <1>5, <2>1 DEF Queue!Take, Queue!Next
<1>6. ASSUME accepted' = 0, taken' = 0
      PROVE  [Queue!Next]_<<Contents, accepted>>
  <2>1. Contents' = <<>>
    BY <1>2, <1>6 DEF Run
  <2>2. QED BY <1>6, <2>1 DEF Queue!Clear, Queue!Next
<1>7. QED BY <1>3, <1>4, <1>5, <1>6, CountersStep

(* For every ring size and burst the receive half implements a lossless    *)
(* first-in first-out queue of packets.                                    *)
THEOREM Refinement == Spec => OneQueue
<1>1. Init => Queue!Init
  <2> SUFFICES ASSUME Init PROVE Queue!Init
      OBVIOUS
  <2>1. IInv
    BY InitInv
  <2>2. Contents = Run(0, 0) /\ accepted = 0
    BY <2>1, ContentsRun DEF Init, IsRun
  <2>3. QED BY <2>2 DEF Run, Queue!Init
<1>2. QED
  BY <1>1, Invariance, ContentsRun, QueueStepMaps, PTL DEF Spec, OneQueue, Queue!Spec

-----------------------------------------------------------------------------
(* The safety that the four promises to the driver of UsbFirmware rest on: *)
(* every event is on its way once, and only if the driver is owed it; it   *)
(* gets through wherever the driver waits; nothing is left where no event  *)
(* tells of it; and each step of enumeration goes forward.                 *)

\* An event is in one of three places if it is owed, and in none if not.
Once(owed, queued, latched, flagged) ==
  \/ /\ owed
     /\ \/ queued /\ ~latched /\ ~flagged
        \/ ~queued /\ latched /\ ~flagged
        \/ ~queued /\ ~latched /\ flagged
  \/ ~owed /\ ~queued /\ ~latched /\ ~flagged

\* Where the driver serves both directions.
Serving == {"idle", "fill", "wait", "sent", "done"}

OwesBrdy(p) ==
  \/ p = Ctl /\ pc = "ready"
  \/ p = Rx /\ pc \in Serving /\ xferLen > 0

OwesBemp(p) ==
  \/ p = Ctl /\ pc = "empty"
  \/ p = Send /\ pc \in {"wait", "sent"}

\* Each event is queued, latched or flagged once between the access that causes
\* it and the wait for it, and never otherwise: none is lost, none is seen twice
\* and none is taken for a later one (usb_queue_event, the bottom half).
EventsOnce ==
  /\ Once(pc = "attach", attachPend, "ATTCH" \in sts1, <<"ATTCH", Ctl>> \in flags)
  /\ Once(pc = "sack", sackPend, "SACK" \in sts1, <<"SACK", Ctl>> \in flags)
  /\ \A p \in Pipes :
       /\ Once(OwesBrdy(p), p \in brdyPend, p \in brdysts, <<"BRDY", p>> \in flags)
       /\ Once(OwesBemp(p), p \in bempPend, p \in bempsts, <<"BEMP", p>> \in flags)

\* What a wait is for has come, or is latched with the line up, or is queued with
\* the bottom half scheduled and will raise the line.
Served(flag, queued, latched, enabled) ==
  \/ flag \in flags
  \/ enabled /\ ((latched /\ irq) \/ (queued /\ bh))

\* Wherever the driver waits, it is served; at "idle" if a packet is unread.
WaitsServed ==
  /\ pc = "attach" =>
       Served(<<"ATTCH", Ctl>>, attachPend, "ATTCH" \in sts1, "ATTCH" \in enb1)
  /\ pc = "sack" =>
       Served(<<"SACK", Ctl>>, sackPend, "SACK" \in sts1, "SACK" \in enb1)
  /\ \A p \in Pipes :
       /\ (pc = "ready" /\ p = Ctl) \/ (pc = "idle" /\ p = Rx /\ accepted > taken) =>
            Served(<<"BRDY", p>>, p \in brdyPend, p \in brdysts,
                   p \in brdyenb /\ "BRDY" \in enb0)
       /\ (pc = "empty" /\ p = Ctl) \/ (pc = "sent" /\ p = Send) =>
            Served(<<"BEMP", p>>, p \in bempPend, p \in bempsts,
                   p \in bempenb /\ "BEMP" \in enb0)

\* A packet out is with the host or in the buffer being filled.
NoneKeptBack ==
  /\ written = sent + txLen
  /\ txLen > 0 => pc = "fill"

\* How far a control transfer has come: its steps, and the words read.
Rank ==
  IF pc = "setup" THEN 0
  ELSE IF pc = "sack" THEN 1
  ELSE IF pc = "enable" THEN 2
  ELSE IF pc = "ready" THEN 3 + 3 * respPos
  ELSE IF pc = "select" THEN 4 + 3 * respPos
  ELSE IF pc = "read" THEN 5 + 3 * respPos
  ELSE IF pc = "off" THEN 6 + 3 * Words
  ELSE IF pc = "status" THEN 7 + 3 * Words
  ELSE IF pc = "empty" THEN 8 + 3 * Words
  ELSE 9 + 3 * Words

InTransfer == {"setup", "sack", "enable", "ready", "select", "read", "off",
               "status", "empty", "next"}

\* Each step of the driver goes on in the transfer or ends it, and no other step
\* sets it back.
EnumerationAdvances ==
  [][/\ Task /\ pc \in InTransfer =>
          \/ request' = request /\ pc' \in InTransfer /\ Rank' > Rank
          \/ request' = request + 1
     /\ ~Task => UNCHANGED <<pc, request, respPos>>]_allVars

-----------------------------------------------------------------------------
(* The inductive invariant: by the place the driver has reached, what it   *)
(* has enabled and selected, where the control transfer is, and what the   *)
(* receiving pipe holds.                                                   *)

Boots == {"boot", "boot1", "attach"}
Announced == {"ready", "select", "read", "off"}
Draining == {"selectRx", "drain", "rearm"}

PlaceInv ==
  /\ pc \in Boots \cup InTransfer \cup {"arm", "enableRx"} \cup Serving \cup Draining
  /\ pc \in Boots \cup InTransfer => request \in 1 .. Len(Requests)

EnableInv ==
  /\ pc # "boot" => enb0 = Causes0
  /\ pc \notin {"boot", "boot1"} => enb1 = Causes1
  /\ attachSignalled => pc \notin {"boot", "boot1"}
  /\ brdyenb = IF pc \in Announced THEN {Ctl}
               ELSE IF pc \in Serving \cup Draining THEN {Rx} ELSE {}
  /\ Ctl \in bempenb => pc \in {"empty", "next"}
  /\ pc = "empty" => Ctl \in bempenb
  /\ pc = "sent" => Send \in bempenb
  /\ pc = "read" => curpipe = Ctl
  /\ pc = "drain" => curpipe = Rx
  /\ pc = "fill" => curpipe = Send

ControlInv ==
  /\ pc \in {"sack", "enable"} =>
       /\ ctrlActive /\ respLen = Words /\ respPos = 0
       /\ ctrlIn <=> Words > 0
       /\ dataReady <=> Words > 0
  /\ pc \in {"ready", "select", "read"} =>
       /\ respLen = Words
       /\ IF Words > 0 THEN ctrlActive /\ dataReady /\ respPos < respLen
          ELSE pc = "ready" /\ respPos = 0
  /\ pc \in {"off", "status"} /\ Words > 0 => ctrlActive /\ ~dataReady
  /\ pc = "status" => Words > 0

BulkInv ==
  /\ xferLen > 0 => xferPipe = Rx
  /\ pc \in Boots \cup InTransfer \cup {"arm"} => armed = {} /\ xferLen = 0
  /\ pc = "enableRx" => armed = {Rx} /\ xferLen = 0
  /\ pc \in Serving => IF xferLen = 0 THEN armed = {Rx} /\ qCount = 0 ELSE armed = {}
  /\ pc \in Draining => armed = {}
  /\ pc = "selectRx" => xferLen > 0
  /\ pc = "rearm" => xferLen = 0

FwParts ==
  PlaceInv /\ EnableInv /\ ControlInv /\ BulkInv /\ NoneKeptBack /\ EventsOnce

FwTypes ==
  /\ xferLen \in Nat /\ qCount \in Nat /\ respPos \in Nat /\ respLen \in Nat
  /\ txLen \in Nat /\ written \in Nat /\ sent \in Nat
  /\ attachPend \in BOOLEAN /\ sackPend \in BOOLEAN
  /\ ctrlActive \in BOOLEAN /\ ctrlIn \in BOOLEAN /\ dataReady \in BOOLEAN
  /\ brdyPend \subseteq Pipes /\ bempPend \subseteq Pipes
  /\ pc \in InTransfer => Words \in Nat

-----------------------------------------------------------------------------
LEMMA RxApart ==
  /\ Rx \in Recv /\ Ctl \in Pipes /\ Send \in Pipes /\ Rx \in Pipes
  /\ Rx # Ctl /\ Rx # Send /\ Ctl # Send /\ Ctl \notin Recv /\ Send \notin Recv
BY UsbAssumption, FirmwareAssumption DEF Recv, Pipes, Ctl, Send

LEMMA FirmwareTypes == IInv /\ FwParts => FwTypes
<1> SUFFICES ASSUME IInv, FwParts PROVE FwTypes
  OBVIOUS
<1>1. pc \in InTransfer => Words \in Nat
  <2> SUFFICES ASSUME pc \in InTransfer PROVE Words \in Nat
    OBVIOUS
  <2>1. request \in 1 .. Len(Requests)
    BY DEF FwParts, PlaceInv
  <2>2. Requests[request] \in RespLengths \cup {0}
    BY <2>1, FirmwareAssumption
  <2>3. RespLengths \cup {0} \subseteq Nat
    BY UsbAssumption
  <2> QED BY <2>2, <2>3 DEF Words
<1> QED BY <1>1, UsbAssumption DEF IInv, IrqTypes, PendTypes, CtrlTypes, TxTypes,
       RingInv, RingTypes, FwTypes

\* The outcome of TryDeliver where only the receiving pipe may be armed.
Delivered(cnt, arm, enb, pend) ==
  \/ /\ xferLen = 0 /\ cnt > 0 /\ Rx \in arm \cap enb
     /\ xferLen' \in Nat \ {0} /\ xferPipe' = Rx
     /\ armed' = {} /\ brdyPend' = pend \cup {Rx}
  \/ /\ ~(xferLen = 0 /\ cnt > 0 /\ Rx \in arm \cap enb)
     /\ UNCHANGED <<xferLen, xferPipe>>
     /\ armed' = arm /\ brdyPend' = pend /\ qCount' = cnt

LEMMA DeliverOne ==
  ASSUME NEW rg, NEW cnt \in Nat, NEW arm \in SUBSET {Rx}, NEW enb, NEW pend,
         NEW kick, TryDeliver(rg, cnt, arm, enb, pend, kick)
  PROVE  Delivered(cnt, arm, enb, pend)
<1>1. Lesser(cnt, Burst) \in Nat /\ (cnt > 0 => Lesser(cnt, Burst) > 0)
  BY UsbAssumption DEF Lesser
<1>2. CASE xferLen = 0 /\ cnt > 0 /\ arm \cap enb # {}
  <2>1. Rx \in arm \cap enb /\ arm \ {Rx} = {}
    BY <1>2
  <2>2. PICK p \in arm \cap enb :
          /\ xferLen' = Lesser(cnt, Burst) /\ xferPipe' = p
          /\ armed' = arm \ {p} /\ brdyPend' = pend \cup {p}
    BY <1>2 DEF TryDeliver
  <2>3. p = Rx
    OBVIOUS
  <2> QED BY <1>1, <1>2, <2>1, <2>2, <2>3 DEF Delivered
<1>3. CASE ~(xferLen = 0 /\ cnt > 0 /\ arm \cap enb # {})
  BY <1>3 DEF TryDeliver, Delivered
<1> QED BY <1>2, <1>3

LEMMA IsrStatus ==
  ASSUME IInv, FwParts, NEW c \in sts1 \cap enb1, ClearSts1({c}),
         flags' = flags \cup {<<c, Ctl>>}, UNCHANGED <<pc, request>>
  PROVE  FwParts'
<1>1. /\ pc' = pc
      /\ sts1' = sts1 \ {c}
      /\ flags' = flags \cup {<<c, Ctl>>}
      /\ c = "ATTCH" \/ c = "SACK"
      /\ UNCHANGED <<enb0, enb1, brdysts, brdyenb, bempsts, bempenb,
                     attachPend, sackPend, brdyPend, bempPend,
                     attachSignalled, curpipe, ctrlActive, ctrlIn, dataReady,
                     respLen, respPos, qCount, xferLen, xferPipe, armed,
                     txLen, written, sent, request>>
  BY DEF ClearSts1, IInv, IrqTypes, Causes1, irqVars, pendVars, ctrlVars,
     ringVars, xferVars, txVars, vars, fwVars
<1>2. FwTypes
  BY FirmwareTypes
<1>3. Words' = Words
  BY <1>1 DEF Words
<1>4. PlaceInv' /\ EnableInv' /\ ControlInv' /\ BulkInv' /\ NoneKeptBack'
  BY <1>1, <1>2, <1>3, RxApart DEF FwParts, FwTypes, PlaceInv, EnableInv,
     ControlInv, BulkInv, NoneKeptBack, Boots, InTransfer, Serving, Draining,
     Announced
<1>5. EventsOnce'
  BY <1>1, <1>2, <1>3, RxApart DEF FwParts, FwTypes, EventsOnce, Once,
     OwesBrdy, OwesBemp, Serving
<1> QED BY <1>4, <1>5 DEF FwParts

LEMMA IsrBrdy ==
  ASSUME IInv, FwParts, NEW q \in brdysts \cap brdyenb, ClearBrdy({q}),
         flags' = flags \cup {<<"BRDY", q>>}, UNCHANGED <<pc, request>>
  PROVE  FwParts'
<1>1. /\ pc' = pc
      /\ brdysts' = brdysts \ {q}
      /\ flags' = flags \cup {<<"BRDY", q>>}
      /\ UNCHANGED <<enb0, enb1, sts1, brdyenb, bempsts, bempenb, attachPend,
                     sackPend, brdyPend, bempPend, attachSignalled, curpipe,
                     ctrlActive, ctrlIn, dataReady, respLen, respPos, qCount,
                     xferLen, xferPipe, armed, txLen, written, sent, request>>
  BY DEF ClearBrdy, irqVars, pendVars, ctrlVars, ringVars, xferVars, txVars,
     vars, fwVars
<1>2. FwTypes
  BY FirmwareTypes
<1>3. Words' = Words
  BY <1>1 DEF Words
<1>4. PlaceInv' /\ EnableInv' /\ ControlInv' /\ BulkInv' /\ NoneKeptBack'
  BY <1>1, <1>2, <1>3, RxApart DEF FwParts, FwTypes, PlaceInv, EnableInv,
     ControlInv, BulkInv, NoneKeptBack, Boots, InTransfer, Serving, Draining,
     Announced
<1>5. EventsOnce'
  BY <1>1, <1>2, <1>3, RxApart DEF FwParts, FwTypes, EventsOnce, Once,
     OwesBrdy, OwesBemp, Serving
<1> QED BY <1>4, <1>5 DEF FwParts

LEMMA IsrBemp ==
  ASSUME IInv, FwParts, NEW q \in bempsts \cap bempenb, ClearBemp({q}),
         flags' = flags \cup {<<"BEMP", q>>}, UNCHANGED <<pc, request>>
  PROVE  FwParts'
<1>1. /\ pc' = pc
      /\ bempsts' = bempsts \ {q}
      /\ flags' = flags \cup {<<"BEMP", q>>}
      /\ UNCHANGED <<enb0, enb1, sts1, brdysts, brdyenb, bempenb, attachPend,
                     sackPend, brdyPend, bempPend, attachSignalled, curpipe,
                     ctrlActive, ctrlIn, dataReady, respLen, respPos, qCount,
                     xferLen, xferPipe, armed, txLen, written, sent, request>>
  BY DEF ClearBemp, irqVars, pendVars, ctrlVars, ringVars, xferVars, txVars,
     vars, fwVars
<1>2. FwTypes
  BY FirmwareTypes
<1>3. Words' = Words
  BY <1>1 DEF Words
<1>4. PlaceInv' /\ EnableInv' /\ ControlInv' /\ BulkInv' /\ NoneKeptBack'
  BY <1>1, <1>2, <1>3, RxApart DEF FwParts, FwTypes, PlaceInv, EnableInv,
     ControlInv, BulkInv, NoneKeptBack, Boots, InTransfer, Serving, Draining,
     Announced
<1>5. EventsOnce'
  BY <1>1, <1>2, <1>3, RxApart DEF FwParts, FwTypes, EventsOnce, Once,
     OwesBrdy, OwesBemp, Serving
<1> QED BY <1>4, <1>5 DEF FwParts

LEMMA Applied ==
  ASSUME IInv, FwParts, FwEvent
  PROVE  FwParts'
<1>1. /\ pc' = pc
      /\ sts1' = sts1 \cup (IF attachPend THEN {"ATTCH"} ELSE {})
                         \cup (IF sackPend THEN {"SACK"} ELSE {})
      /\ brdysts' = brdysts \cup brdyPend
      /\ bempsts' = bempsts \cup bempPend
      /\ attachPend' = FALSE /\ sackPend' = FALSE /\ brdyPend' = {} /\ bempPend' = {}
      /\ UNCHANGED <<enb0, enb1, brdyenb, bempenb, attachSignalled, curpipe,
                     ctrlActive, ctrlIn, dataReady, respLen, respPos, qCount,
                     xferLen, xferPipe, armed, txLen, written, sent, request,
                     flags>>
  BY DEF FwEvent, Event, irqVars, pendVars, ctrlVars, ringVars, xferVars,
     txVars, vars, fwVars
<1>2. FwTypes
  BY FirmwareTypes
<1>3. Words' = Words
  BY <1>1 DEF Words
<1>4. PlaceInv' /\ EnableInv' /\ ControlInv' /\ BulkInv' /\ NoneKeptBack'
  BY <1>1, <1>2, <1>3, RxApart DEF FwParts, FwTypes, PlaceInv, EnableInv,
     ControlInv, BulkInv, NoneKeptBack, Boots, InTransfer, Serving, Draining,
     Announced
<1>5. EventsOnce'
  BY <1>1, <1>2, <1>3, RxApart DEF FwParts, FwTypes, EventsOnce, Once,
     OwesBrdy, OwesBemp, Serving
<1> QED BY <1>4, <1>5 DEF FwParts

LEMMA Boot0 ==
  ASSUME IInv, FwParts, Goto("boot", "boot1"), WriteIntenb0(Causes0)
  PROVE  FwParts'
<1>1. /\ pc = "boot"
      /\ pc' = "boot1"
      /\ enb0' = Causes0
      /\ UNCHANGED <<enb1, sts1, brdysts, brdyenb, bempsts, bempenb,
                     attachPend, sackPend, brdyPend, bempPend,
                     attachSignalled, curpipe, ctrlActive, ctrlIn, dataReady,
                     respLen, respPos, qCount, xferLen, xferPipe, armed,
                     txLen, written, sent, request, flags>>
  BY DEF Goto, WriteIntenb0, irqVars, pendVars, ctrlVars, ringVars, xferVars,
     txVars, vars, fwVars
<1>2. FwTypes
  BY FirmwareTypes
<1>3. Words' = Words
  BY <1>1 DEF Words
<1>4. PlaceInv' /\ EnableInv' /\ ControlInv' /\ BulkInv' /\ NoneKeptBack'
  BY <1>1, <1>2, <1>3, RxApart DEF FwParts, FwTypes, PlaceInv, EnableInv,
     ControlInv, BulkInv, NoneKeptBack, Boots, InTransfer, Serving, Draining,
     Announced
<1>5. EventsOnce'
  BY <1>1, <1>2, <1>3, RxApart DEF FwParts, FwTypes, EventsOnce, Once,
     OwesBrdy, OwesBemp, Serving
<1> QED BY <1>4, <1>5 DEF FwParts

LEMMA Boot1 ==
  ASSUME IInv, FwParts, Goto("boot1", "attach"), WriteIntenb1(Causes1)
  PROVE  FwParts'
<1>1. /\ pc = "boot1"
      /\ pc' = "attach"
      /\ enb1' = Causes1
      /\ attachSignalled' = TRUE /\ attachPend' = TRUE
      /\ UNCHANGED <<enb0, sts1, brdysts, brdyenb, bempsts, bempenb, sackPend,
                     brdyPend, bempPend, curpipe, ctrlActive, ctrlIn,
                     dataReady, respLen, respPos, qCount, xferLen, xferPipe,
                     armed, txLen, written, sent, request, flags>>
  BY DEF Goto, WriteIntenb1, Causes1, FwParts, EnableInv, irqVars, pendVars,
     ctrlVars, ringVars, xferVars, txVars, vars, fwVars
<1>2. FwTypes
  BY FirmwareTypes
<1>3. Words' = Words
  BY <1>1 DEF Words
<1>4. PlaceInv' /\ EnableInv' /\ ControlInv' /\ BulkInv' /\ NoneKeptBack'
  BY <1>1, <1>2, <1>3, RxApart DEF FwParts, FwTypes, PlaceInv, EnableInv,
     ControlInv, BulkInv, NoneKeptBack, Boots, InTransfer, Serving, Draining,
     Announced
<1>5. EventsOnce'
  BY <1>1, <1>2, <1>3, RxApart DEF FwParts, FwTypes, EventsOnce, Once,
     OwesBrdy, OwesBemp, Serving
<1> QED BY <1>4, <1>5 DEF FwParts

LEMMA Attached ==
  ASSUME IInv, FwParts, Await("attach", <<"ATTCH", Ctl>>, "setup")
  PROVE  FwParts'
<1>1. /\ pc = "attach"
      /\ pc' = "setup"
      /\ flags' = flags \ {<<"ATTCH", Ctl>>}
      /\ <<"ATTCH", Ctl>> \in flags
      /\ UNCHANGED <<enb0, enb1, sts1, brdysts, brdyenb, bempsts, bempenb,
                     attachPend, sackPend, brdyPend, bempPend,
                     attachSignalled, curpipe, ctrlActive, ctrlIn, dataReady,
                     respLen, respPos, qCount, xferLen, xferPipe, armed,
                     txLen, written, sent, request>>
  BY DEF Await, irqVars, pendVars, ctrlVars, ringVars, xferVars, txVars, vars,
     fwVars
<1>2. FwTypes
  BY FirmwareTypes
<1>3. Words' = Words
  BY <1>1 DEF Words
<1>4. PlaceInv' /\ EnableInv' /\ ControlInv' /\ BulkInv' /\ NoneKeptBack'
  BY <1>1, <1>2, <1>3, RxApart DEF FwParts, FwTypes, PlaceInv, EnableInv,
     ControlInv, BulkInv, NoneKeptBack, Boots, InTransfer, Serving, Draining,
     Announced
<1>5. EventsOnce'
  BY <1>1, <1>2, <1>3, RxApart DEF FwParts, FwTypes, EventsOnce, Once,
     OwesBrdy, OwesBemp, Serving
<1> QED BY <1>4, <1>5 DEF FwParts

LEMMA SetUp ==
  ASSUME IInv, FwParts, Goto("setup", "sack"), Setup(Words > 0, Words)
  PROVE  FwParts'
<1>1. /\ pc = "setup"
      /\ pc' = "sack"
      /\ ctrlActive' = TRUE /\ ctrlIn' = (Words > 0) /\ dataReady' = (Words > 0)
      /\ respLen' = Words /\ respPos' = 0 /\ sackPend' = TRUE
      /\ UNCHANGED <<enb0, enb1, sts1, brdysts, brdyenb, bempsts, bempenb,
                     attachPend, brdyPend, bempPend, attachSignalled, curpipe,
                     qCount, xferLen, xferPipe, armed, txLen, written, sent,
                     request, flags>>
  BY DEF Goto, Setup, irqVars, pendVars, ctrlVars, ringVars, xferVars, txVars,
     vars, fwVars
<1>2. FwTypes
  BY FirmwareTypes
<1>3. Words' = Words
  BY <1>1 DEF Words
<1>4. PlaceInv' /\ EnableInv' /\ ControlInv' /\ BulkInv' /\ NoneKeptBack'
  BY <1>1, <1>2, <1>3, RxApart DEF FwParts, FwTypes, PlaceInv, EnableInv,
     ControlInv, BulkInv, NoneKeptBack, Boots, InTransfer, Serving, Draining,
     Announced
<1>5. EventsOnce'
  BY <1>1, <1>2, <1>3, RxApart DEF FwParts, FwTypes, EventsOnce, Once,
     OwesBrdy, OwesBemp, Serving
<1> QED BY <1>4, <1>5 DEF FwParts

LEMMA Acknowledged ==
  ASSUME IInv, FwParts, Await("sack", <<"SACK", Ctl>>, "enable")
  PROVE  FwParts'
<1>1. /\ pc = "sack"
      /\ pc' = "enable"
      /\ flags' = flags \ {<<"SACK", Ctl>>}
      /\ <<"SACK", Ctl>> \in flags
      /\ UNCHANGED <<enb0, enb1, sts1, brdysts, brdyenb, bempsts, bempenb,
                     attachPend, sackPend, brdyPend, bempPend,
                     attachSignalled, curpipe, ctrlActive, ctrlIn, dataReady,
                     respLen, respPos, qCount, xferLen, xferPipe, armed,
                     txLen, written, sent, request>>
  BY DEF Await, irqVars, pendVars, ctrlVars, ringVars, xferVars, txVars, vars,
     fwVars
<1>2. FwTypes
  BY FirmwareTypes
<1>3. Words' = Words
  BY <1>1 DEF Words
<1>4. PlaceInv' /\ EnableInv' /\ ControlInv' /\ BulkInv' /\ NoneKeptBack'
  BY <1>1, <1>2, <1>3, RxApart DEF FwParts, FwTypes, PlaceInv, EnableInv,
     ControlInv, BulkInv, NoneKeptBack, Boots, InTransfer, Serving, Draining,
     Announced
<1>5. EventsOnce'
  BY <1>1, <1>2, <1>3, RxApart DEF FwParts, FwTypes, EventsOnce, Once,
     OwesBrdy, OwesBemp, Serving
<1> QED BY <1>4, <1>5 DEF FwParts

LEMMA GotReady ==
  ASSUME IInv, FwParts, Await("ready", <<"BRDY", Ctl>>, IF Words > 0 THEN "select" ELSE "off")
  PROVE  FwParts'
<1>1. /\ pc = "ready"
      /\ pc' = IF Words > 0 THEN "select" ELSE "off"
      /\ flags' = flags \ {<<"BRDY", Ctl>>}
      /\ <<"BRDY", Ctl>> \in flags
      /\ UNCHANGED <<enb0, enb1, sts1, brdysts, brdyenb, bempsts, bempenb,
                     attachPend, sackPend, brdyPend, bempPend,
                     attachSignalled, curpipe, ctrlActive, ctrlIn, dataReady,
                     respLen, respPos, qCount, xferLen, xferPipe, armed,
                     txLen, written, sent, request>>
  BY DEF Await, irqVars, pendVars, ctrlVars, ringVars, xferVars, txVars, vars,
     fwVars
<1>2. FwTypes
  BY FirmwareTypes
<1>3. Words' = Words
  BY <1>1 DEF Words
<1>4. PlaceInv' /\ EnableInv' /\ ControlInv' /\ BulkInv' /\ NoneKeptBack'
  BY <1>1, <1>2, <1>3, RxApart DEF FwParts, FwTypes, PlaceInv, EnableInv,
     ControlInv, BulkInv, NoneKeptBack, Boots, InTransfer, Serving, Draining,
     Announced
<1>5. EventsOnce'
  BY <1>1, <1>2, <1>3, RxApart DEF FwParts, FwTypes, EventsOnce, Once,
     OwesBrdy, OwesBemp, Serving
<1> QED BY <1>4, <1>5 DEF FwParts

LEMMA SelectCtl ==
  ASSUME IInv, FwParts, Goto("select", "read"), SelectPipe(Ctl)
  PROVE  FwParts'
<1>1. /\ pc = "select"
      /\ pc' = "read"
      /\ curpipe' = Ctl
      /\ UNCHANGED <<enb0, enb1, sts1, brdysts, brdyenb, bempsts, bempenb,
                     attachPend, sackPend, brdyPend, bempPend,
                     attachSignalled, ctrlActive, ctrlIn, dataReady, respLen,
                     respPos, qCount, xferLen, xferPipe, armed, txLen,
                     written, sent, request, flags>>
  BY DEF Goto, SelectPipe, irqVars, pendVars, ctrlVars, ringVars, xferVars,
     txVars, vars, fwVars
<1>2. FwTypes
  BY FirmwareTypes
<1>3. Words' = Words
  BY <1>1 DEF Words
<1>4. PlaceInv' /\ EnableInv' /\ ControlInv' /\ BulkInv' /\ NoneKeptBack'
  BY <1>1, <1>2, <1>3, RxApart DEF FwParts, FwTypes, PlaceInv, EnableInv,
     ControlInv, BulkInv, NoneKeptBack, Boots, InTransfer, Serving, Draining,
     Announced
<1>5. EventsOnce'
  BY <1>1, <1>2, <1>3, RxApart DEF FwParts, FwTypes, EventsOnce, Once,
     OwesBrdy, OwesBemp, Serving
<1> QED BY <1>4, <1>5 DEF FwParts

LEMMA StatusStage ==
  ASSUME IInv, FwParts, Goto("status", "empty"), WriteBempenb(bempenb \cup {Ctl})
  PROVE  FwParts'
<1>1. /\ pc = "status"
      /\ pc' = "empty"
      /\ bempenb' = bempenb \cup {Ctl}
      /\ ctrlActive' = FALSE /\ bempPend' = bempPend \cup {Ctl}
      /\ UNCHANGED <<enb0, enb1, sts1, brdysts, brdyenb, bempsts, attachPend,
                     sackPend, brdyPend, attachSignalled, curpipe, ctrlIn,
                     dataReady, respLen, respPos, qCount, xferLen, xferPipe,
                     armed, txLen, written, sent, request, flags>>
  BY DEF Goto, WriteBempenb, FwParts, ControlInv, irqVars, pendVars, ctrlVars,
     ringVars, xferVars, txVars, vars, fwVars
<1>2. FwTypes
  BY FirmwareTypes
<1>3. Words' = Words
  BY <1>1 DEF Words
<1>4. PlaceInv' /\ EnableInv' /\ ControlInv' /\ BulkInv' /\ NoneKeptBack'
  BY <1>1, <1>2, <1>3, RxApart DEF FwParts, FwTypes, PlaceInv, EnableInv,
     ControlInv, BulkInv, NoneKeptBack, Boots, InTransfer, Serving, Draining,
     Announced
<1>5. EventsOnce'
  BY <1>1, <1>2, <1>3, RxApart DEF FwParts, FwTypes, EventsOnce, Once,
     OwesBrdy, OwesBemp, Serving
<1> QED BY <1>4, <1>5 DEF FwParts

LEMMA Emptied ==
  ASSUME IInv, FwParts, Await("empty", <<"BEMP", Ctl>>, "next")
  PROVE  FwParts'
<1>1. /\ pc = "empty"
      /\ pc' = "next"
      /\ flags' = flags \ {<<"BEMP", Ctl>>}
      /\ <<"BEMP", Ctl>> \in flags
      /\ UNCHANGED <<enb0, enb1, sts1, brdysts, brdyenb, bempsts, bempenb,
                     attachPend, sackPend, brdyPend, bempPend,
                     attachSignalled, curpipe, ctrlActive, ctrlIn, dataReady,
                     respLen, respPos, qCount, xferLen, xferPipe, armed,
                     txLen, written, sent, request>>
  BY DEF Await, irqVars, pendVars, ctrlVars, ringVars, xferVars, txVars, vars,
     fwVars
<1>2. FwTypes
  BY FirmwareTypes
<1>3. Words' = Words
  BY <1>1 DEF Words
<1>4. PlaceInv' /\ EnableInv' /\ ControlInv' /\ BulkInv' /\ NoneKeptBack'
  BY <1>1, <1>2, <1>3, RxApart DEF FwParts, FwTypes, PlaceInv, EnableInv,
     ControlInv, BulkInv, NoneKeptBack, Boots, InTransfer, Serving, Draining,
     Announced
<1>5. EventsOnce'
  BY <1>1, <1>2, <1>3, RxApart DEF FwParts, FwTypes, EventsOnce, Once,
     OwesBrdy, OwesBemp, Serving
<1> QED BY <1>4, <1>5 DEF FwParts

LEMMA SelectRecv ==
  ASSUME IInv, FwParts, Goto("selectRx", "drain"), SelectPipe(Rx)
  PROVE  FwParts'
<1>1. /\ pc = "selectRx"
      /\ pc' = "drain"
      /\ curpipe' = Rx
      /\ UNCHANGED <<enb0, enb1, sts1, brdysts, brdyenb, bempsts, bempenb,
                     attachPend, sackPend, brdyPend, bempPend,
                     attachSignalled, ctrlActive, ctrlIn, dataReady, respLen,
                     respPos, qCount, xferLen, xferPipe, armed, txLen,
                     written, sent, request, flags>>
  BY DEF Goto, SelectPipe, irqVars, pendVars, ctrlVars, ringVars, xferVars,
     txVars, vars, fwVars
<1>2. FwTypes
  BY FirmwareTypes
<1>3. Words' = Words
  BY <1>1 DEF Words
<1>4. PlaceInv' /\ EnableInv' /\ ControlInv' /\ BulkInv' /\ NoneKeptBack'
  BY <1>1, <1>2, <1>3, RxApart DEF FwParts, FwTypes, PlaceInv, EnableInv,
     ControlInv, BulkInv, NoneKeptBack, Boots, InTransfer, Serving, Draining,
     Announced
<1>5. EventsOnce'
  BY <1>1, <1>2, <1>3, RxApart DEF FwParts, FwTypes, EventsOnce, Once,
     OwesBrdy, OwesBemp, Serving
<1> QED BY <1>4, <1>5 DEF FwParts

LEMMA RxReady ==
  ASSUME IInv, FwParts, Await("idle", <<"BRDY", Rx>>, "selectRx")
  PROVE  FwParts'
<1>1. /\ pc = "idle"
      /\ pc' = "selectRx"
      /\ flags' = flags \ {<<"BRDY", Rx>>}
      /\ <<"BRDY", Rx>> \in flags
      /\ UNCHANGED <<enb0, enb1, sts1, brdysts, brdyenb, bempsts, bempenb,
                     attachPend, sackPend, brdyPend, bempPend,
                     attachSignalled, curpipe, ctrlActive, ctrlIn, dataReady,
                     respLen, respPos, qCount, xferLen, xferPipe, armed,
                     txLen, written, sent, request>>
  BY DEF Await, irqVars, pendVars, ctrlVars, ringVars, xferVars, txVars, vars,
     fwVars
<1>2. FwTypes
  BY FirmwareTypes
<1>3. Words' = Words
  BY <1>1 DEF Words
<1>0. xferLen > 0
  BY <1>1, <1>2, RxApart DEF FwParts, FwTypes, EventsOnce, Once, OwesBrdy
<1>4. PlaceInv' /\ EnableInv' /\ ControlInv' /\ BulkInv' /\ NoneKeptBack'
  BY <1>0, <1>1, <1>2, <1>3, RxApart DEF FwParts, FwTypes, PlaceInv, EnableInv,
     ControlInv, BulkInv, NoneKeptBack, Boots, InTransfer, Serving, Draining,
     Announced
<1>5. EventsOnce'
  BY <1>0, <1>1, <1>2, <1>3, RxApart DEF FwParts, FwTypes, EventsOnce, Once,
     OwesBrdy, OwesBemp, Serving
<1> QED BY <1>4, <1>5 DEF FwParts

LEMMA SelectSend ==
  ASSUME IInv, FwParts, Goto("idle", "fill"), SelectPipe(Send)
  PROVE  FwParts'
<1>1. /\ pc = "idle"
      /\ pc' = "fill"
      /\ curpipe' = Send
      /\ UNCHANGED <<enb0, enb1, sts1, brdysts, brdyenb, bempsts, bempenb,
                     attachPend, sackPend, brdyPend, bempPend,
                     attachSignalled, ctrlActive, ctrlIn, dataReady, respLen,
                     respPos, qCount, xferLen, xferPipe, armed, txLen,
                     written, sent, request, flags>>
  BY DEF Goto, SelectPipe, irqVars, pendVars, ctrlVars, ringVars, xferVars,
     txVars, vars, fwVars
<1>2. FwTypes
  BY FirmwareTypes
<1>3. Words' = Words
  BY <1>1 DEF Words
<1>4. PlaceInv' /\ EnableInv' /\ ControlInv' /\ BulkInv' /\ NoneKeptBack'
  BY <1>1, <1>2, <1>3, RxApart DEF FwParts, FwTypes, PlaceInv, EnableInv,
     ControlInv, BulkInv, NoneKeptBack, Boots, InTransfer, Serving, Draining,
     Announced
<1>5. EventsOnce'
  BY <1>1, <1>2, <1>3, RxApart DEF FwParts, FwTypes, EventsOnce, Once,
     OwesBrdy, OwesBemp, Serving
<1> QED BY <1>4, <1>5 DEF FwParts

LEMMA EnableSent ==
  ASSUME IInv, FwParts, Goto("wait", "sent"), WriteBempenb(bempenb \cup {Send})
  PROVE  FwParts'
<1>1. /\ pc = "wait"
      /\ pc' = "sent"
      /\ bempenb' = bempenb \cup {Send}
      /\ UNCHANGED <<enb0, enb1, sts1, brdysts, brdyenb, bempsts, attachPend,
                     sackPend, brdyPend, bempPend, attachSignalled, curpipe,
                     ctrlActive, ctrlIn, dataReady, respLen, respPos, qCount,
                     xferLen, xferPipe, armed, txLen, written, sent, request,
                     flags>>
  BY RxApart, FirmwareTypes DEF Goto, WriteBempenb, FwParts, EnableInv,
     FwTypes, irqVars, pendVars, ctrlVars, ringVars, xferVars, txVars, vars,
     fwVars
<1>2. FwTypes
  BY FirmwareTypes
<1>3. Words' = Words
  BY <1>1 DEF Words
<1>4. PlaceInv' /\ EnableInv' /\ ControlInv' /\ BulkInv' /\ NoneKeptBack'
  BY <1>1, <1>2, <1>3, RxApart DEF FwParts, FwTypes, PlaceInv, EnableInv,
     ControlInv, BulkInv, NoneKeptBack, Boots, InTransfer, Serving, Draining,
     Announced
<1>5. EventsOnce'
  BY <1>1, <1>2, <1>3, RxApart DEF FwParts, FwTypes, EventsOnce, Once,
     OwesBrdy, OwesBemp, Serving
<1> QED BY <1>4, <1>5 DEF FwParts

LEMMA SentOut ==
  ASSUME IInv, FwParts, Await("sent", <<"BEMP", Send>>, "done")
  PROVE  FwParts'
<1>1. /\ pc = "sent"
      /\ pc' = "done"
      /\ flags' = flags \ {<<"BEMP", Send>>}
      /\ <<"BEMP", Send>> \in flags
      /\ UNCHANGED <<enb0, enb1, sts1, brdysts, brdyenb, bempsts, bempenb,
                     attachPend, sackPend, brdyPend, bempPend,
                     attachSignalled, curpipe, ctrlActive, ctrlIn, dataReady,
                     respLen, respPos, qCount, xferLen, xferPipe, armed,
                     txLen, written, sent, request>>
  BY DEF Await, irqVars, pendVars, ctrlVars, ringVars, xferVars, txVars, vars,
     fwVars
<1>2. FwTypes
  BY FirmwareTypes
<1>3. Words' = Words
  BY <1>1 DEF Words
<1>4. PlaceInv' /\ EnableInv' /\ ControlInv' /\ BulkInv' /\ NoneKeptBack'
  BY <1>1, <1>2, <1>3, RxApart DEF FwParts, FwTypes, PlaceInv, EnableInv,
     ControlInv, BulkInv, NoneKeptBack, Boots, InTransfer, Serving, Draining,
     Announced
<1>5. EventsOnce'
  BY <1>1, <1>2, <1>3, RxApart DEF FwParts, FwTypes, EventsOnce, Once,
     OwesBrdy, OwesBemp, Serving
<1> QED BY <1>4, <1>5 DEF FwParts

LEMMA DisableSent ==
  ASSUME IInv, FwParts, Goto("done", "idle"), WriteBempenb(bempenb \ {Send})
  PROVE  FwParts'
<1>1. /\ pc = "done"
      /\ pc' = "idle"
      /\ bempenb' = bempenb \ {Send}
      /\ UNCHANGED <<enb0, enb1, sts1, brdysts, brdyenb, bempsts, attachPend,
                     sackPend, brdyPend, bempPend, attachSignalled, curpipe,
                     ctrlActive, ctrlIn, dataReady, respLen, respPos, qCount,
                     xferLen, xferPipe, armed, txLen, written, sent, request,
                     flags>>
  BY RxApart, FirmwareTypes DEF Goto, WriteBempenb, FwParts, EnableInv,
     FwTypes, irqVars, pendVars, ctrlVars, ringVars, xferVars, txVars, vars,
     fwVars
<1>2. FwTypes
  BY FirmwareTypes
<1>3. Words' = Words
  BY <1>1 DEF Words
<1>4. PlaceInv' /\ EnableInv' /\ ControlInv' /\ BulkInv' /\ NoneKeptBack'
  BY <1>1, <1>2, <1>3, RxApart DEF FwParts, FwTypes, PlaceInv, EnableInv,
     ControlInv, BulkInv, NoneKeptBack, Boots, InTransfer, Serving, Draining,
     Announced
<1>5. EventsOnce'
  BY <1>1, <1>2, <1>3, RxApart DEF FwParts, FwTypes, EventsOnce, Once,
     OwesBrdy, OwesBemp, Serving
<1> QED BY <1>4, <1>5 DEF FwParts

LEMMA OffBrdy ==
  ASSUME IInv, FwParts, Goto("off", IF Words > 0 THEN "status" ELSE "next"),
         WriteBrdyenb(brdyenb \ {Ctl})
  PROVE  FwParts'
<1>1. /\ pc = "off"
      /\ pc' = IF Words > 0 THEN "status" ELSE "next"
      /\ brdyenb' = brdyenb \ {Ctl}
      /\ UNCHANGED <<enb0, enb1, sts1, brdysts, bempsts, bempenb, attachPend,
                     sackPend, brdyPend, bempPend, attachSignalled, curpipe,
                     ctrlActive, ctrlIn, dataReady, respLen, respPos, qCount,
                     xferLen, xferPipe, armed, txLen, written, sent, request,
                     flags>>
  BY FirmwareTypes DEF Goto, WriteBrdyenb, TryDeliver, FwParts, BulkInv,
     FwTypes, InTransfer, irqVars, pendVars, ctrlVars, ringVars, xferVars,
     txVars, vars, fwVars
<1>2. FwTypes
  BY FirmwareTypes
<1>3. Words' = Words
  BY <1>1 DEF Words
<1>4. PlaceInv' /\ EnableInv' /\ ControlInv' /\ BulkInv' /\ NoneKeptBack'
  BY <1>1, <1>2, <1>3, RxApart DEF FwParts, FwTypes, PlaceInv, EnableInv,
     ControlInv, BulkInv, NoneKeptBack, Boots, InTransfer, Serving, Draining,
     Announced
<1>5. EventsOnce'
  BY <1>1, <1>2, <1>3, RxApart DEF FwParts, FwTypes, EventsOnce, Once,
     OwesBrdy, OwesBemp, Serving
<1> QED BY <1>4, <1>5 DEF FwParts

LEMMA NextRequest ==
  ASSUME IInv, FwParts, pc = "next", WriteBempenb(bempenb \ {Ctl}), Finished
  PROVE  FwParts'
<1>1. /\ pc = "next"
      /\ pc' = IF request < Len(Requests) THEN "setup" ELSE "arm"
      /\ bempenb' = bempenb \ {Ctl}
      /\ request' = request + 1
      /\ UNCHANGED <<enb0, enb1, sts1, brdysts, brdyenb, bempsts, attachPend,
                     sackPend, brdyPend, bempPend, attachSignalled, curpipe,
                     ctrlActive, ctrlIn, dataReady, respLen, respPos, qCount,
                     xferLen, xferPipe, armed, txLen, written, sent, flags>>
  BY FirmwareTypes DEF Finished, WriteBempenb, FwParts, FwTypes, irqVars,
     pendVars, ctrlVars, ringVars, xferVars, txVars, vars, fwVars
<1>2. FwTypes
  BY FirmwareTypes
<1>4. PlaceInv' /\ EnableInv' /\ ControlInv' /\ BulkInv' /\ NoneKeptBack'
  BY <1>1, <1>2, RxApart DEF FwParts, FwTypes, PlaceInv, EnableInv, ControlInv,
     BulkInv, NoneKeptBack, Boots, InTransfer, Serving, Draining, Announced
<1>5. EventsOnce'
  BY <1>1, <1>2, RxApart DEF FwParts, FwTypes, EventsOnce, Once, OwesBrdy,
     OwesBemp, Serving
<1> QED BY <1>4, <1>5 DEF FwParts

LEMMA EnableCtl ==
  ASSUME IInv, FwParts, Goto("enable", "ready"), WriteBrdyenb(brdyenb \cup {Ctl})
  PROVE  FwParts'
<1>1. /\ pc = "enable"
      /\ pc' = "ready"
      /\ brdyenb' = brdyenb \cup {Ctl} /\ brdyPend' = brdyPend \cup {Ctl}
      /\ Words > 0 => ctrlActive' = ctrlActive
      /\ UNCHANGED <<enb0, enb1, sts1, brdysts, bempsts, bempenb, attachPend,
                     sackPend, bempPend, attachSignalled, curpipe, ctrlIn,
                     dataReady, respLen, respPos, qCount, xferLen, xferPipe,
                     armed, txLen, written, sent, request, flags>>
  BY FirmwareTypes, RxApart DEF Goto, WriteBrdyenb, TryDeliver, FwParts,
     BulkInv, ControlInv, FwTypes, InTransfer, irqVars, pendVars, ctrlVars,
     ringVars, xferVars, txVars, vars, fwVars
<1>2. FwTypes
  BY FirmwareTypes
<1>3. Words' = Words
  BY <1>1 DEF Words
<1>4. PlaceInv' /\ EnableInv' /\ ControlInv' /\ BulkInv' /\ NoneKeptBack'
  BY <1>1, <1>2, <1>3, RxApart DEF FwParts, FwTypes, PlaceInv, EnableInv,
     ControlInv, BulkInv, NoneKeptBack, Boots, InTransfer, Serving, Draining,
     Announced
<1>5. EventsOnce'
  BY <1>1, <1>2, <1>3, RxApart DEF FwParts, FwTypes, EventsOnce, Once,
     OwesBrdy, OwesBemp, Serving
<1> QED BY <1>4, <1>5 DEF FwParts

LEMMA ReadWord ==
  ASSUME IInv, FwParts, pc = "read", ReadControl,
         pc' = IF respPos' = respLen THEN "off"
               ELSE IF respPos' % CtlPacket = 0 THEN "ready" ELSE "read",
         UNCHANGED <<request, flags>>
  PROVE  FwParts'
<1>a. /\ Words > 0 /\ respLen = Words /\ dataReady = TRUE
      /\ respLen \in Nat /\ respPos \in Nat /\ respPos < respLen
  BY FirmwareTypes DEF FwParts, ControlInv, FwTypes, InTransfer
<1>b. respPos' = respPos + 1 /\ respPos' <= respLen
  BY <1>a DEF ReadControl
<1>c. dataReady' = IF respPos' = respLen THEN FALSE ELSE TRUE
  <2>1. dataReady' = (dataReady /\ respPos + 1 < respLen)
    BY <1>a DEF ReadControl
  <2>2. respPos' = respLen <=> ~(respPos + 1 < respLen)
    BY <1>a, <1>b
  <2> QED BY <1>a, <2>1, <2>2
<1>1. /\ pc = "read"
      /\ IF respPos' = respLen THEN pc' = "off" /\ dataReady' = FALSE
         ELSE pc' \in {"ready", "read"} /\ dataReady' = TRUE
      /\ respPos' = respPos + 1 /\ respPos' <= respLen
      /\ Words > 0 /\ respLen = Words
      /\ brdyPend' = IF pc' = "ready" THEN brdyPend \cup {Ctl} ELSE brdyPend
      /\ UNCHANGED <<enb0, enb1, sts1, brdysts, brdyenb, bempsts, bempenb,
                     attachPend, sackPend, bempPend, attachSignalled, curpipe,
                     ctrlActive, ctrlIn, respLen, qCount, xferLen, xferPipe,
                     armed, txLen, written, sent, request, flags>>
  BY <1>a, <1>b, <1>c DEF ReadControl, irqVars, pendVars, ctrlVars, ringVars,
     xferVars, txVars, vars, fwVars
<1>2. FwTypes
  BY FirmwareTypes
<1>3. Words' = Words
  BY <1>1 DEF Words
<1>4. PlaceInv' /\ EnableInv' /\ ControlInv' /\ BulkInv' /\ NoneKeptBack'
  BY <1>1, <1>2, <1>3, RxApart DEF FwParts, FwTypes, PlaceInv, EnableInv,
     ControlInv, BulkInv, NoneKeptBack, Boots, InTransfer, Serving, Draining,
     Announced
<1>5. EventsOnce'
  BY <1>1, <1>2, <1>3, RxApart DEF FwParts, FwTypes, EventsOnce, Once,
     OwesBrdy, OwesBemp, Serving
<1> QED BY <1>4, <1>5 DEF FwParts

LEMMA ArmRx ==
  ASSUME IInv, FwParts, Goto("arm", "enableRx"), WritePipeCtr(Rx, TRUE)
  PROVE  FwParts'
<1>1. /\ pc = "arm"
      /\ pc' = "enableRx"
      /\ armed' = {Rx}
      /\ UNCHANGED <<enb0, enb1, sts1, brdysts, brdyenb, bempsts, bempenb,
                     attachPend, sackPend, brdyPend, bempPend,
                     attachSignalled, curpipe, ctrlActive, ctrlIn, dataReady,
                     respLen, respPos, qCount, xferLen, xferPipe, txLen,
                     written, sent, request, flags>>
  BY RxApart DEF Goto, WritePipeCtr, TryDeliver, FwParts, BulkInv, EnableInv,
     Announced, Serving, Draining, irqVars, pendVars, ctrlVars, ringVars,
     xferVars, txVars, vars, fwVars
<1>2. FwTypes
  BY FirmwareTypes
<1>3. Words' = Words
  BY <1>1 DEF Words
<1>4. PlaceInv' /\ EnableInv' /\ ControlInv' /\ BulkInv' /\ NoneKeptBack'
  BY <1>1, <1>2, <1>3, RxApart DEF FwParts, FwTypes, PlaceInv, EnableInv,
     ControlInv, BulkInv, NoneKeptBack, Boots, InTransfer, Serving, Draining,
     Announced
<1>5. EventsOnce'
  BY <1>1, <1>2, <1>3, RxApart DEF FwParts, FwTypes, EventsOnce, Once,
     OwesBrdy, OwesBemp, Serving
<1> QED BY <1>4, <1>5 DEF FwParts

LEMMA Packet ==
  ASSUME IInv, FwParts, Goto("drain", "drain"), ReadBulk
  PROVE  FwParts'
<1>1. /\ pc = "drain"
      /\ pc' = "drain"
      /\ xferLen' = 0 \/ UNCHANGED <<xferLen, xferPipe>>
      /\ UNCHANGED <<enb0, enb1, sts1, brdysts, brdyenb, bempsts, bempenb,
                     attachPend, sackPend, brdyPend, bempPend,
                     attachSignalled, curpipe, ctrlActive, ctrlIn, dataReady,
                     respLen, respPos, qCount, armed, txLen, written, sent,
                     request, flags>>
  BY DEF Goto, ReadBulk, irqVars, pendVars, ctrlVars, ringVars, xferVars,
     txVars, vars, fwVars
<1>2. FwTypes
  BY FirmwareTypes
<1>3. Words' = Words
  BY <1>1 DEF Words
<1>4. PlaceInv' /\ EnableInv' /\ ControlInv' /\ BulkInv' /\ NoneKeptBack'
  BY <1>1, <1>2, <1>3, RxApart DEF FwParts, FwTypes, PlaceInv, EnableInv,
     ControlInv, BulkInv, NoneKeptBack, Boots, InTransfer, Serving, Draining,
     Announced
<1>5. EventsOnce'
  BY <1>1, <1>2, <1>3, RxApart DEF FwParts, FwTypes, EventsOnce, Once,
     OwesBrdy, OwesBemp, Serving
<1> QED BY <1>4, <1>5 DEF FwParts

LEMMA Drained ==
  ASSUME IInv, FwParts, Goto("drain", "rearm"), ~BulkSelected, UNCHANGED vars
  PROVE  FwParts'
<1>1. /\ pc = "drain"
      /\ pc' = "rearm"
      /\ xferLen = 0
      /\ UNCHANGED <<enb0, enb1, sts1, brdysts, brdyenb, bempsts, bempenb,
                     attachPend, sackPend, brdyPend, bempPend,
                     attachSignalled, curpipe, ctrlActive, ctrlIn, dataReady,
                     respLen, respPos, qCount, xferLen, xferPipe, armed,
                     txLen, written, sent, request, flags>>
  BY FirmwareTypes, RxApart DEF Goto, BulkSelected, FwParts, EnableInv,
     BulkInv, FwTypes, irqVars, pendVars, ctrlVars, ringVars, xferVars, txVars,
     vars, fwVars
<1>2. FwTypes
  BY FirmwareTypes
<1>3. Words' = Words
  BY <1>1 DEF Words
<1>4. PlaceInv' /\ EnableInv' /\ ControlInv' /\ BulkInv' /\ NoneKeptBack'
  BY <1>1, <1>2, <1>3, RxApart DEF FwParts, FwTypes, PlaceInv, EnableInv,
     ControlInv, BulkInv, NoneKeptBack, Boots, InTransfer, Serving, Draining,
     Announced
<1>5. EventsOnce'
  BY <1>1, <1>2, <1>3, RxApart DEF FwParts, FwTypes, EventsOnce, Once,
     OwesBrdy, OwesBemp, Serving
<1> QED BY <1>4, <1>5 DEF FwParts

LEMMA Fill ==
  ASSUME IInv, FwParts, Goto("fill", "fill"), txLen < TxSize, WriteFifo
  PROVE  FwParts'
<1>1. /\ pc = "fill"
      /\ pc' = "fill"
      /\ txLen' = txLen + 1 /\ written' = written + 1
      /\ UNCHANGED <<enb0, enb1, sts1, brdysts, brdyenb, bempsts, bempenb,
                     attachPend, sackPend, brdyPend, bempPend,
                     attachSignalled, curpipe, ctrlActive, ctrlIn, dataReady,
                     respLen, respPos, qCount, xferLen, xferPipe, armed, sent,
                     request, flags>>
  BY FirmwareTypes, UsbAssumption DEF Goto, WriteFifo, FwParts, EnableInv,
     FwTypes, Lesser, irqVars, pendVars, ctrlVars, ringVars, xferVars, txVars,
     vars, fwVars
<1>2. FwTypes
  BY FirmwareTypes
<1>3. Words' = Words
  BY <1>1 DEF Words
<1>4. PlaceInv' /\ EnableInv' /\ ControlInv' /\ BulkInv' /\ NoneKeptBack'
  BY <1>1, <1>2, <1>3, RxApart DEF FwParts, FwTypes, PlaceInv, EnableInv,
     ControlInv, BulkInv, NoneKeptBack, Boots, InTransfer, Serving, Draining,
     Announced
<1>5. EventsOnce'
  BY <1>1, <1>2, <1>3, RxApart DEF FwParts, FwTypes, EventsOnce, Once,
     OwesBrdy, OwesBemp, Serving
<1> QED BY <1>4, <1>5 DEF FwParts

LEMMA Commit ==
  ASSUME IInv, FwParts, Goto("fill", "wait"), WriteFifoCtr(TRUE, FALSE)
  PROVE  FwParts'
<1>1. /\ pc = "fill"
      /\ pc' = "wait"
      /\ txLen' = 0 /\ sent' = sent + txLen
      /\ bempPend' = bempPend \cup {Send}
      /\ UNCHANGED <<enb0, enb1, sts1, brdysts, brdyenb, bempsts, bempenb,
                     attachPend, sackPend, brdyPend, attachSignalled, curpipe,
                     ctrlActive, ctrlIn, dataReady, respLen, respPos, qCount,
                     xferLen, xferPipe, armed, written, request, flags>>
  BY DEF Goto, WriteFifoCtr, FwParts, EnableInv, irqVars, pendVars, ctrlVars,
     ringVars, xferVars, txVars, vars, fwVars
<1>2. FwTypes
  BY FirmwareTypes
<1>3. Words' = Words
  BY <1>1 DEF Words
<1>4. PlaceInv' /\ EnableInv' /\ ControlInv' /\ BulkInv' /\ NoneKeptBack'
  BY <1>1, <1>2, <1>3, RxApart DEF FwParts, FwTypes, PlaceInv, EnableInv,
     ControlInv, BulkInv, NoneKeptBack, Boots, InTransfer, Serving, Draining,
     Announced
<1>5. EventsOnce'
  BY <1>1, <1>2, <1>3, RxApart DEF FwParts, FwTypes, EventsOnce, Once,
     OwesBrdy, OwesBemp, Serving
<1> QED BY <1>4, <1>5 DEF FwParts

LEMMA EnableRx ==
  ASSUME IInv, FwParts, Goto("enableRx", "idle"), WriteBrdyenb(brdyenb \cup {Rx})
  PROVE  FwParts'
<1>t. FwTypes /\ armed \in SUBSET {Rx}
  BY FirmwareTypes DEF FwParts, BulkInv, PlaceInv
<1>1. /\ pc = "enableRx"
      /\ pc' = "idle"
      /\ Delivered(qCount, armed, brdyenb \cup {Rx}, brdyPend)
      /\ brdyenb' = brdyenb \cup {Rx}
      /\ UNCHANGED <<enb0, enb1, sts1, brdysts, bempsts, bempenb, attachPend,
                     sackPend, bempPend, attachSignalled, curpipe, ctrlActive,
                     ctrlIn, dataReady, respLen, respPos, txLen, written,
                     sent, request, flags>>
  BY DeliverOne, <1>t, RxApart DEF Goto, WriteBrdyenb, FwParts, EnableInv,
     FwTypes, Announced, Serving, Draining, irqVars, pendVars, ctrlVars,
     ringVars, xferVars, txVars, vars, fwVars
<1>2. FwTypes
  BY FirmwareTypes
<1>3. Words' = Words
  BY <1>1 DEF Words
<1>0. Delivered(qCount, armed, brdyenb \cup {Rx}, brdyPend)
  BY <1>1
<1>4. PlaceInv' /\ EnableInv' /\ ControlInv' /\ BulkInv' /\ NoneKeptBack'
  BY <1>0, <1>1, <1>2, <1>3, RxApart DEF FwParts, FwTypes, PlaceInv, EnableInv,
     ControlInv, BulkInv, NoneKeptBack, Delivered, Boots, InTransfer, Serving,
     Draining, Announced
<1>5. EventsOnce'
  BY <1>0, <1>1, <1>2, <1>3, RxApart DEF FwParts, FwTypes, EventsOnce, Once,
     OwesBrdy, OwesBemp, Delivered, BulkInv, Draining, Serving
<1> QED BY <1>4, <1>5 DEF FwParts

LEMMA Rearm ==
  ASSUME IInv, FwParts, Goto("rearm", "idle"), WritePipeCtr(Rx, TRUE)
  PROVE  FwParts'
<1>t. FwTypes /\ armed \in SUBSET {Rx}
  BY FirmwareTypes DEF FwParts, BulkInv, PlaceInv
<1>1. /\ pc = "rearm"
      /\ pc' = "idle"
      /\ Delivered(qCount, {Rx}, brdyenb, brdyPend)
      /\ armed = {}
      /\ UNCHANGED <<enb0, enb1, sts1, brdysts, brdyenb, bempsts, bempenb,
                     attachPend, sackPend, bempPend, attachSignalled, curpipe,
                     ctrlActive, ctrlIn, dataReady, respLen, respPos, txLen,
                     written, sent, request, flags>>
  BY DeliverOne, <1>t, RxApart DEF Goto, WritePipeCtr, FwParts, BulkInv,
     Draining, FwTypes, irqVars, pendVars, ctrlVars, ringVars, xferVars,
     txVars, vars, fwVars
<1>2. FwTypes
  BY FirmwareTypes
<1>3. Words' = Words
  BY <1>1 DEF Words
<1>0. Delivered(qCount, {Rx}, brdyenb, brdyPend)
  BY <1>1
<1>4. PlaceInv' /\ EnableInv' /\ ControlInv' /\ BulkInv' /\ NoneKeptBack'
  BY <1>0, <1>1, <1>2, <1>3, RxApart DEF FwParts, FwTypes, PlaceInv, EnableInv,
     ControlInv, BulkInv, NoneKeptBack, Delivered, Boots, InTransfer, Serving,
     Draining, Announced
<1>5. EventsOnce'
  BY <1>0, <1>1, <1>2, <1>3, RxApart DEF FwParts, FwTypes, EventsOnce, Once,
     OwesBrdy, OwesBemp, Delivered, BulkInv, Draining, Serving
<1> QED BY <1>4, <1>5 DEF FwParts

LEMMA HostSends ==
  ASSUME IInv, FwParts, Host
  PROVE  FwParts'
<1>1. PICK n, k : k \in Nat /\ ChrReceive(n, k) /\ UNCHANGED fwVars
  <2>1. PICK n \in 1 .. CanReceive : \E k \in 0 .. Lesser(n, MaxPackets - accepted) :
               ChrReceive(n, k) /\ UNCHANGED fwVars
    BY DEF Host
  <2> QED BY <2>1
<1> DEFINE cnt == qCount + Lesser(k, QSize - qCount)
<1>2. FwTypes /\ armed \in SUBSET {Rx}
  BY FirmwareTypes DEF FwParts, BulkInv, PlaceInv
<1>3. cnt \in Nat
  BY <1>1, <1>2, UsbAssumption DEF FwTypes, IInv, RingInv, RingTypes, Lesser
<1>4. \E rg : TryDeliver(rg, cnt, armed, brdyenb, brdyPend, FALSE)
  BY <1>1 DEF ChrReceive
<1>5. /\ Delivered(cnt, armed, brdyenb, brdyPend)
      /\ UNCHANGED <<enb0, enb1, sts1, brdysts, brdyenb, bempsts, bempenb,
                     attachPend, sackPend, bempPend, attachSignalled, curpipe,
                     ctrlActive, ctrlIn, dataReady, respLen, respPos, txLen,
                     written, sent, pc, request, flags>>
  <2>1. Delivered(cnt, armed, brdyenb, brdyPend)
    BY <1>2, <1>3, <1>4, DeliverOne
  <2> QED BY <1>1, <2>1 DEF ChrReceive, irqVars, ctrlVars, txVars, fwVars
<1> HIDE DEF cnt
<1>6. Words' = Words
  BY <1>5 DEF Words
<1>7. PlaceInv' /\ EnableInv' /\ ControlInv' /\ BulkInv' /\ NoneKeptBack'
  BY <1>2, <1>3, <1>5, <1>6, RxApart DEF FwParts, FwTypes, Delivered, PlaceInv,
     EnableInv, ControlInv, BulkInv, NoneKeptBack, Boots, InTransfer, Serving,
     Draining, Announced
<1>8. EventsOnce'
  BY <1>2, <1>3, <1>5, RxApart DEF FwParts, FwTypes, Delivered, EventsOnce, Once,
     OwesBrdy, OwesBemp, Serving, BulkInv, EnableInv, PlaceInv, Boots, InTransfer,
     Draining, Announced
<1> QED BY <1>7, <1>8 DEF FwParts

-----------------------------------------------------------------------------
LEMMA IsrKeeps == ASSUME IInv, FwParts, Isr PROVE FwParts'
<1>1. CASE \E c \in sts1 \cap enb1 : ClearSts1({c}) /\ flags' = flags \cup {<<c, Ctl>>}
  BY <1>1, IsrStatus DEF Isr
<1>2. CASE \E p \in brdysts \cap brdyenb :
             ClearBrdy({p}) /\ flags' = flags \cup {<<"BRDY", p>>}
  BY <1>2, IsrBrdy DEF Isr
<1>3. CASE \E p \in bempsts \cap bempenb :
             ClearBemp({p}) /\ flags' = flags \cup {<<"BEMP", p>>}
  BY <1>3, IsrBemp DEF Isr
<1> QED BY <1>1, <1>2, <1>3 DEF Isr

LEMMA TaskKeeps == ASSUME IInv, FwParts, Task PROVE FwParts'
<1>1. CASE Boot
  BY <1>1, Boot0, Boot1, Attached DEF Boot
<1>2. CASE Control
  BY <1>2, SetUp, Acknowledged, EnableCtl, GotReady, SelectCtl, ReadWord, OffBrdy,
     StatusStage, Emptied, NextRequest, Zenon DEF Control
<1>3. CASE Receive
  BY <1>3, ArmRx, EnableRx, RxReady, SelectRecv, Packet, Drained, Rearm, Zenon
     DEF Receive
<1>4. CASE Transmit
  BY <1>4, SelectSend, Fill, Commit, EnableSent, SentOut, DisableSent, Zenon DEF Transmit
<1> QED BY <1>1, <1>2, <1>3, <1>4 DEF Task

LEMMA Stays == ASSUME IInv, FwParts, UNCHANGED allVars PROVE FwParts'
<1>1. FwTypes
  BY FirmwareTypes
<1>2. Words' = Words
  BY DEF Words, allVars, fwVars
<1>3. PlaceInv' /\ EnableInv' /\ ControlInv' /\ BulkInv' /\ NoneKeptBack'
  BY <1>2 DEF FwParts, PlaceInv, EnableInv, ControlInv, BulkInv, NoneKeptBack,
     allVars, fwVars, vars, irqVars, ctrlVars, ringVars, xferVars, txVars, pendVars
<1>4. EventsOnce'
  BY DEF FwParts, EventsOnce, Once, OwesBrdy, OwesBemp, allVars, fwVars, vars,
     irqVars, pendVars, xferVars
<1> QED BY <1>3, <1>4 DEF FwParts

\* The driver's accesses are among those the controller is proved for.
LEMMA TaskIsNext == ASSUME IInv, FwParts, Task PROVE [Next]_vars
<1>1. /\ Causes0 \in SUBSET Causes0 /\ Causes1 \in SUBSET Causes1
      /\ brdyenb \in SUBSET Pipes /\ bempenb \in SUBSET Pipes
  BY DEF IInv, IrqTypes
<1>2. /\ brdyenb \cup {Ctl} \in SUBSET Pipes /\ brdyenb \ {Ctl} \in SUBSET Pipes
      /\ brdyenb \cup {Rx} \in SUBSET Pipes
      /\ bempenb \cup {Ctl} \in SUBSET Pipes /\ bempenb \ {Ctl} \in SUBSET Pipes
      /\ bempenb \cup {Send} \in SUBSET Pipes /\ bempenb \ {Send} \in SUBSET Pipes
  BY <1>1, RxApart
<1>3. CASE Boot
  BY <1>1, <1>3 DEF Boot, Await, Next, Registers
<1>4. CASE Control
  <2>1. CASE Goto("setup", "sack") /\ Setup(Words > 0, Words)
    <3>1. request \in 1 .. Len(Requests)
      BY <2>1 DEF Goto, FwParts, PlaceInv, InTransfer
    <3>2. Words \in RespLengths \cup {0} /\ (Words > 0) \in BOOLEAN
      BY <3>1, FirmwareAssumption DEF Words
    <3> QED BY <2>1, <3>2 DEF Next, Registers
  <2>2. CASE \/ \E f, to : Await("sack", f, to) \/ Await("ready", f, to)
                           \/ Await("empty", f, to)
    BY <2>2 DEF Await
  <2>3. CASE \/ WriteBrdyenb(brdyenb \cup {Ctl}) \/ WriteBrdyenb(brdyenb \ {Ctl})
             \/ WriteBempenb(bempenb \cup {Ctl}) \/ WriteBempenb(bempenb \ {Ctl})
    BY <1>2, <2>3 DEF Next, Registers
  <2>4. CASE SelectPipe(Ctl) \/ ReadControl
    BY <2>4, RxApart DEF Next, Registers, Fifo
  <2> QED BY <1>4, <2>1, <2>2, <2>3, <2>4 DEF Control
<1>5. CASE Receive
  BY <1>2, <1>5, RxApart DEF Receive, Await, Next, Registers, Fifo
<1>6. CASE Transmit
  BY <1>2, <1>6, RxApart DEF Transmit, Await, Next, Registers, Fifo
<1> QED BY <1>3, <1>4, <1>5, <1>6 DEF Task

LEMMA FwNextIsNext == ASSUME IInv, FwParts, [FwNext]_allVars PROVE [Next]_vars
<1>1. CASE Isr
  <2>1. /\ \A c \in sts1 : {c} \in SUBSET Causes1
        /\ \A p \in brdysts \cup bempsts : {p} \in SUBSET Pipes
    BY DEF IInv, IrqTypes
  <2> QED BY <1>1, <2>1 DEF Isr, Next, Registers
<1>2. CASE Host
  <2>1. PICK n \in 1 .. CanReceive : \E k \in 0 .. Lesser(n, MaxPackets - accepted) :
               ChrReceive(n, k)
    BY <1>2 DEF Host
  <2>a. PICK k \in 0 .. Lesser(n, MaxPackets - accepted) : ChrReceive(n, k)
    BY <2>1
  <2>2. n \in 0 .. CanReceive /\ k \in 0 .. n
    BY <2>a DEF ChrReceive
  <2> QED BY <2>a, <2>2 DEF Next, HostInput
<1>3. CASE FwEvent
  BY <1>3 DEF FwEvent, Next
<1>4. CASE UNCHANGED allVars
  BY <1>4 DEF allVars
<1> QED BY <1>1, <1>2, <1>3, <1>4, TaskIsNext DEF FwNext

LEMMA FirmwareStep == IInv /\ FwParts /\ [FwNext]_allVars => IInv' /\ FwParts'
<1> SUFFICES ASSUME IInv, FwParts, [FwNext]_allVars PROVE IInv' /\ FwParts'
  OBVIOUS
<1>1. IInv'
  BY FwNextIsNext, StepInv
<1>2. FwParts'
  BY IsrKeeps, TaskKeeps, HostSends, Applied, Stays DEF FwNext
<1> QED BY <1>1, <1>2

LEMMA FirmwareInit == FwInit => IInv /\ FwParts
<1> SUFFICES ASSUME FwInit PROVE IInv /\ FwParts
  OBVIOUS
<1>1. IInv
  BY InitInv DEF FwInit
<1>2. 1 \in 1 .. Len(Requests)
  BY FirmwareAssumption
<1>3. PlaceInv /\ EnableInv /\ ControlInv /\ BulkInv /\ NoneKeptBack
  BY <1>2, RxApart DEF FwInit, Init, PlaceInv, EnableInv, ControlInv, BulkInv,
     NoneKeptBack, Boots, InTransfer, Serving, Draining, Announced
<1>4. EventsOnce
  BY RxApart DEF FwInit, Init, EventsOnce, Once, OwesBrdy, OwesBemp, Serving
<1> QED BY <1>1, <1>3, <1>4 DEF FwParts

(* The inductive invariant of controller and driver together.              *)
THEOREM DriverInvariance == FwSpec => [](IInv /\ FwParts)
<1>1. FwInit => IInv /\ FwParts
  BY FirmwareInit
<1>2. IInv /\ FwParts /\ [FwNext]_allVars => (IInv /\ FwParts)'
  BY FirmwareStep
<1> QED BY <1>1, <1>2, PTL DEF FwSpec

LEMMA PartsServe == IInv /\ FwParts => WaitsServed
<1> SUFFICES ASSUME IInv, FwParts PROVE WaitsServed
  OBVIOUS
<1>1. /\ "ATTCH" \in sts1 /\ "ATTCH" \in enb1 => irq
      /\ "SACK" \in sts1 /\ "SACK" \in enb1 => irq
      /\ \A p : p \in brdysts /\ p \in brdyenb /\ "BRDY" \in enb0 => irq
      /\ \A p : p \in bempsts /\ p \in bempenb /\ "BEMP" \in enb0 => irq
  BY DEF IInv, LineIsLevel, Level
<1>2. /\ attachPend => bh
      /\ sackPend => bh
      /\ \A p : p \in brdyPend => bh
      /\ \A p : p \in bempPend => bh
  BY DEF IInv, EventScheduled
<1>3. pc = "idle" /\ accepted > taken => xferLen > 0
  <2> SUFFICES ASSUME pc = "idle", accepted > taken, xferLen = 0 PROVE FALSE
    BY FirmwareTypes DEF FwTypes
  <2>1. qCount = 0
    BY DEF FwParts, BulkInv, Serving
  <2>2. InFlight = 0
    BY DEF IInv, RingInv, Latch, InFlight
  <2>3. accepted = taken + InFlight + qCount /\ taken \in Nat
    BY DEF IInv, RingInv, RingTypes, InOrder
  <2> QED BY <2>1, <2>2, <2>3
<1>4. EventsOnce /\ EnableInv
  BY DEF FwParts
<1>5. /\ pc = "attach" =>
           Served(<<"ATTCH", Ctl>>, attachPend, "ATTCH" \in sts1, "ATTCH" \in enb1)
      /\ pc = "sack" =>
           Served(<<"SACK", Ctl>>, sackPend, "SACK" \in sts1, "SACK" \in enb1)
  BY <1>1, <1>2, <1>4 DEF Served, EventsOnce, Once, EnableInv, Causes1
<1>6. ASSUME NEW p \in Pipes,
             (pc = "ready" /\ p = Ctl) \/ (pc = "idle" /\ p = Rx /\ accepted > taken)
      PROVE  Served(<<"BRDY", p>>, p \in brdyPend, p \in brdysts,
                    p \in brdyenb /\ "BRDY" \in enb0)
  <2>1. p \in brdyenb /\ "BRDY" \in enb0
    BY <1>4, <1>6 DEF EnableInv, Announced, Serving, Causes0
  <2>2. OwesBrdy(p)
    BY <1>3, <1>6 DEF OwesBrdy, Serving
  <2>3. p \in brdyPend \/ p \in brdysts \/ <<"BRDY", p>> \in flags
    BY <1>4, <2>2 DEF EventsOnce, Once
  <2> QED BY <1>1, <1>2, <2>1, <2>3 DEF Served
<1>7. ASSUME NEW p \in Pipes, (pc = "empty" /\ p = Ctl) \/ (pc = "sent" /\ p = Send)
      PROVE  Served(<<"BEMP", p>>, p \in bempPend, p \in bempsts,
                    p \in bempenb /\ "BEMP" \in enb0)
  <2>1. p \in bempenb /\ "BEMP" \in enb0
    BY <1>4, <1>7 DEF EnableInv, Causes0
  <2>2. OwesBemp(p)
    BY <1>7 DEF OwesBemp
  <2>3. p \in bempPend \/ p \in bempsts \/ <<"BEMP", p>> \in flags
    BY <1>4, <2>2 DEF EventsOnce, Once
  <2> QED BY <1>1, <1>2, <2>1, <2>3 DEF Served
<1> QED BY <1>5, <1>6, <1>7 DEF WaitsServed

(* EventsOnce and WaitsServed: no event the driver waits for is lost, none *)
(* is seen twice, and each gets through, whatever the host sends and the   *)
(* bottom half applies in between.                                         *)
THEOREM EventsReachDriver == FwSpec => [](EventsOnce /\ WaitsServed)
<1>1. IInv /\ FwParts => EventsOnce /\ WaitsServed
  BY PartsServe DEF FwParts
<1> QED BY DriverInvariance, <1>1, PTL

(* NoneKeptBack: packets are in the buffer only while the driver fills it. *)
THEOREM SentOrFilling == FwSpec => []NoneKeptBack
<1>1. IInv /\ FwParts => NoneKeptBack
  BY DEF FwParts
<1> QED BY DriverInvariance, <1>1, PTL

LEMMA TaskAdvances ==
  ASSUME IInv, FwParts, Task, pc \in InTransfer
  PROVE  \/ request' = request /\ pc' \in InTransfer /\ Rank' > Rank
         \/ request' = request + 1
<1>1. FwTypes /\ Words \in Nat
  BY FirmwareTypes DEF FwTypes
<1>2. Control
  BY DEF Task, Boot, Receive, Transmit, Goto, Await, InTransfer
<1>3. CASE pc = "next"
  BY <1>2, <1>3 DEF Control, Goto, Await, Finished
<1>4. CASE pc # "next"
  <2>1. request' = request /\ Words' = Words
    BY <1>2, <1>4 DEF Control, Goto, Await, Words
  <2>2. pc' \in InTransfer /\ Rank' > Rank
    <3>1. \/ pc = "setup" /\ pc' = "sack"
          \/ pc = "sack" /\ pc' = "enable"
          \/ pc = "enable" /\ pc' = "ready" /\ respPos' = respPos
          \/ pc = "ready" /\ pc' \in {"select", "off"} /\ respPos' = respPos
          \/ pc = "select" /\ pc' = "read" /\ respPos' = respPos
          \/ pc = "read" /\ pc' \in {"ready", "read", "off"} /\ respPos' = respPos + 1
          \/ pc = "off" /\ pc' \in {"status", "next"}
          \/ pc = "status" /\ pc' = "empty"
          \/ pc = "empty" /\ pc' = "next"
      <4>1. pc = "read" => respPos' = respPos + 1
        BY <1>1, <1>2 DEF Control, Goto, Await, ReadControl, FwParts, ControlInv, FwTypes
      <4>2. pc \in {"enable", "ready", "select"} => respPos' = respPos
        BY <1>2 DEF Control, Goto, Await, WriteBrdyenb, SelectPipe, vars, ctrlVars
      <4> QED BY <1>2, <1>4, <4>1, <4>2 DEF Control, Goto, Await, InTransfer
    <3>2. /\ respPos \in Nat
          /\ pc \in {"ready", "select", "read"} => 3 * respPos <= 3 * Words
          /\ pc \in {"select", "read"} => 3 * respPos + 3 <= 3 * Words
          /\ pc = "enable" => respPos = 0
      BY <1>1 DEF FwParts, ControlInv, FwTypes
    <3> QED BY <1>1, <2>1, <3>1, <3>2 DEF Rank, InTransfer
  <2> QED BY <2>1, <2>2
<1> QED BY <1>3, <1>4

(* EnumerationAdvances: enumeration takes no more steps than its transfers *)
(* and their words make, so that a driver that is served comes to its end. *)
THEOREM EnumerationGoesOn == FwSpec => EnumerationAdvances
<1> DEFINE Advances == /\ Task /\ pc \in InTransfer =>
                            \/ request' = request /\ pc' \in InTransfer /\ Rank' > Rank
                            \/ request' = request + 1
                       /\ ~Task => UNCHANGED <<pc, request, respPos>>
<1>1. IInv /\ FwParts /\ [FwNext]_allVars => [Advances]_allVars
  <2> SUFFICES ASSUME IInv, FwParts, FwNext PROVE Advances
    OBVIOUS
  <2>1. CASE Task
    BY <2>1, TaskAdvances
  <2>2. CASE ~Task
    <3>1. Isr \/ Host \/ FwEvent
      BY <2>2 DEF FwNext
    <3>2. UNCHANGED <<pc, request, respPos>>
      BY <3>1 DEF Isr, Host, FwEvent, Event, ClearSts1, ClearBrdy, ClearBemp,
         ChrReceive, ctrlVars, fwVars
    <3> QED BY <2>2, <3>2
  <2> QED BY <2>1, <2>2
<1> QED BY DriverInvariance, <1>1, PTL DEF FwSpec, EnumerationAdvances
=============================================================================
