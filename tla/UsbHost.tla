------------------------------- MODULE UsbHost -------------------------------
(***************************************************************************)
(* The USB host controller with its synthetic MIDI device                  *)
(* (src/src/hw/usb/rza1l_usb.c, property "midi" on).  The firmware drives  *)
(* it through registers; interrupts it causes are queued and applied by a  *)
(* bottom half of the main loop; raw MIDI bytes arrive from a chardev, are *)
(* framed into packets and wait in a ring until a bulk IN pipe is armed.   *)
(*                                                                         *)
(* The unit of data is the 32-bit FIFO access: one USB-MIDI packet, or one *)
(* word of a control response.  Packets are numbered in the order they are *)
(* accepted, so the ring and the latch hold numbers.  Accesses narrower    *)
(* than a register, and the two 16-bit halves of a 32-bit one, are the     *)
(* corresponding 16-bit accesses in sequence.                              *)
(***************************************************************************)
EXTENDS Integers, FiniteSets

CONSTANTS
  LastPipe,    \* USB_BULK_RECV_MAX
  QSize,       \* packets in the bulk IN ring (RZA1L_USB_RXQ_BYTES / 4)
  Burst,       \* packets in one bulk transfer (RZA1L_USB_BULK_MAXP / 4)
  TxSize,      \* packets the bulk OUT buffer holds
  CtlPacket,   \* words in one control packet (RZA1L_USB_DCP_MAXP / 4)
  RespLengths  \* lengths in words of the control responses the firmware asks for

Ctl  == 0                 \* the default control pipe
Send == 1                 \* USB_BULK_SEND_PIPE
Recv == 2 .. LastPipe     \* USB_BULK_RECV_MIN .. USB_BULK_RECV_MAX
Pipes == 0 .. LastPipe

ASSUME UsbAssumption ==
  /\ LastPipe \in Nat /\ LastPipe >= 2
  /\ Burst \in Nat \ {0}
  /\ QSize \in Nat /\ QSize >= Burst
  /\ TxSize \in Nat \ {0}
  /\ CtlPacket \in Nat \ {0}
  /\ RespLengths \subseteq Nat

VARIABLES
  irq,                       \* level of the interrupt line
  enb0, enb1,                \* INTENB0, INTENB1
  sts1,                      \* INTSTS1
  brdysts, brdyenb,          \* BRDYSTS, BRDYENB
  bempsts, bempenb,          \* BEMPSTS, BEMPENB
  attachPend, sackPend, brdyPend, bempPend,   \* queued for the bottom half
  bh,                        \* the bottom half is scheduled
  attachSignalled,
  curpipe,                   \* CFIFOSEL.CURPIPE
  ctrlActive, ctrlIn, dataReady, respLen, respPos,
  ring, qHead, qTail, qCount,
  xfer, xferLen, xferPos, xferPipe,
  armed,                     \* recv_armed
  txLen,
  accepted, taken, dropped,  \* history: packets queued, read, dropped
  noticed,                   \* history: pipes whose BRDY was cleared since latch
  written, sent              \* history: OUT packets written, handed to the host

irqVars   == <<irq, enb0, enb1, sts1, brdysts, brdyenb, bempsts, bempenb>>
pendVars  == <<attachPend, sackPend, brdyPend, bempPend, bh>>
ctrlVars  == <<ctrlActive, ctrlIn, dataReady, respLen, respPos>>
ringVars  == <<ring, qHead, qTail, qCount, accepted, dropped>>
xferVars  == <<xfer, xferLen, xferPos, xferPipe, taken, noticed>>
txVars    == <<txLen, written, sent>>
vars == <<irqVars, pendVars, attachSignalled, curpipe, ctrlVars, ringVars,
          xferVars, armed, txVars>>

Causes0 == {"BRDY", "BEMP"}
Causes1 == {"ATTCH", "SACK"}

TypeOK ==
  /\ irq \in BOOLEAN
  /\ enb0 \subseteq Causes0 /\ enb1 \subseteq Causes1 /\ sts1 \subseteq Causes1
  /\ brdysts \subseteq Pipes /\ brdyenb \subseteq Pipes
  /\ bempsts \subseteq Pipes /\ bempenb \subseteq Pipes
  /\ attachPend \in BOOLEAN /\ sackPend \in BOOLEAN /\ bh \in BOOLEAN
  /\ brdyPend \subseteq Pipes /\ bempPend \subseteq Pipes
  /\ attachSignalled \in BOOLEAN
  /\ curpipe \in Pipes
  /\ ctrlActive \in BOOLEAN /\ ctrlIn \in BOOLEAN /\ dataReady \in BOOLEAN
  /\ respLen \in Nat /\ respPos \in 0 .. respLen
  /\ ring \in [0 .. QSize - 1 -> Nat]
  /\ qHead \in 0 .. QSize - 1 /\ qTail \in 0 .. QSize - 1 /\ qCount \in 0 .. QSize
  /\ xfer \in [0 .. Burst - 1 -> Nat]
  /\ xferLen \in 0 .. Burst /\ xferPos \in 0 .. Burst
  /\ xferPipe \in Recv \cup {0}
  /\ armed \subseteq Recv
  /\ txLen \in 0 .. TxSize
  /\ accepted \in Nat /\ taken \in Nat /\ dropped \in Nat
  /\ noticed \subseteq Pipes
  /\ written \in Nat /\ sent \in Nat

Lesser(a, b) == IF a < b THEN a ELSE b

(* Definitions named Fault... are seeded faults: what the definition after *)
(* them would be with a plausible bug.  Nothing else refers to them.       *)
FaultWrap(n) == IF n > QSize THEN n - QSize ELSE n

\* n % QSize for the sums below, which never reach 2 * QSize.
Wrap(n) == IF n >= QSize THEN n - QSize ELSE n

\* The level update_irq computes from the status and enable registers.
Level(e0, e1, s1, brs, bre, bms, bme) ==
  \/ "BRDY" \in e0 /\ brs \cap bre # {}
  \/ "BEMP" \in e0 /\ bms \cap bme # {}
  \/ s1 \cap e1 # {}

UpdateIrq == irq' = Level(enb0', enb1', sts1', brdysts', brdyenb', bempsts', bempenb')

-----------------------------------------------------------------------------
Init ==
  /\ irq = FALSE
  /\ enb0 = {} /\ enb1 = {} /\ sts1 = {}
  /\ brdysts = {} /\ brdyenb = {} /\ bempsts = {} /\ bempenb = {}
  /\ attachPend = FALSE /\ sackPend = FALSE /\ brdyPend = {} /\ bempPend = {}
  /\ attachSignalled = FALSE
  /\ curpipe = Ctl
  /\ ctrlActive = FALSE /\ ctrlIn = FALSE /\ dataReady = FALSE
  /\ respLen = 0 /\ respPos = 0
  /\ qHead = 0 /\ qTail = 0 /\ qCount = 0
  /\ xferLen = 0 /\ xferPos = 0 /\ xferPipe = 0
  /\ armed = {}
  /\ txLen = 0
  /\ accepted = 0 /\ taken = 0 /\ dropped = 0 /\ noticed = {}
  /\ written = 0 /\ sent = 0
  /\ bh = FALSE
  /\ ring = [i \in 0 .. QSize - 1 |-> 0]
  /\ xfer = [i \in 0 .. Burst - 1 |-> 0]

\* Device reset.  A bottom half that is scheduled stays scheduled.  The
\* histories restart with the ring.
Reset ==
  /\ irq' = FALSE
  /\ enb0' = {} /\ enb1' = {} /\ sts1' = {}
  /\ brdysts' = {} /\ brdyenb' = {} /\ bempsts' = {} /\ bempenb' = {}
  /\ attachPend' = FALSE /\ sackPend' = FALSE /\ brdyPend' = {} /\ bempPend' = {}
  /\ attachSignalled' = FALSE
  /\ curpipe' = Ctl
  /\ ctrlActive' = FALSE /\ ctrlIn' = FALSE /\ dataReady' = FALSE
  /\ respLen' = 0 /\ respPos' = 0
  /\ qHead' = 0 /\ qTail' = 0 /\ qCount' = 0
  /\ xferLen' = 0 /\ xferPos' = 0 /\ xferPipe' = 0
  /\ armed' = {}
  /\ txLen' = 0
  /\ accepted' = 0 /\ taken' = 0 /\ dropped' = 0 /\ noticed' = {}
  /\ written' = 0 /\ sent' = 0
  /\ UNCHANGED <<bh, ring, xfer>>

-----------------------------------------------------------------------------
\* A transfer in flight is replaced by the next one.
FaultOverwrite(rg, cnt, arm, enb, pend, kick) ==
  LET ready == arm \cap enb
      n == Lesser(cnt, Burst)
  IN  IF cnt > 0 /\ ready # {}
      THEN \E p \in ready :
             /\ \A r \in ready : p <= r
             /\ xfer' = [i \in 0 .. Burst - 1 |->
                           IF i < n THEN rg[Wrap(qHead + i)] ELSE xfer[i]]
             /\ xferLen' = n /\ xferPos' = 0 /\ xferPipe' = p
             /\ qHead' = Wrap(qHead + n)
             /\ qCount' = cnt - n
             /\ armed' = arm \ {p}
             /\ brdyPend' = pend \cup {p}
             /\ bh' = TRUE
             /\ noticed' = noticed \ {p}
      ELSE /\ UNCHANGED <<xfer, xferLen, xferPos, xferPipe, qHead, noticed>>
           /\ qCount' = cnt
           /\ armed' = arm
           /\ brdyPend' = pend
           /\ bh' = (bh \/ kick)

(* Bulk IN.  TryDeliver(rg, cnt, arm, enb, pend) latches a transfer from   *)
(* ring rg holding cnt packets for the lowest armed and enabled pipe, if   *)
(* none is in flight; pend are the BRDY events queued so far, and kick     *)
(* tells that the caller has scheduled the bottom half already.            *)
TryDeliver(rg, cnt, arm, enb, pend, kick) ==
  LET ready == arm \cap enb
      n == Lesser(cnt, Burst)
  IN  IF xferLen = 0 /\ cnt > 0 /\ ready # {}
      THEN \E p \in ready :
             /\ \A r \in ready : p <= r
             /\ xfer' = [i \in 0 .. Burst - 1 |->
                           IF i < n THEN rg[Wrap(qHead + i)] ELSE xfer[i]]
             /\ xferLen' = n /\ xferPos' = 0 /\ xferPipe' = p
             /\ qHead' = Wrap(qHead + n)
             /\ qCount' = cnt - n
             /\ armed' = arm \ {p}
             /\ brdyPend' = pend \cup {p}
             /\ bh' = TRUE
             /\ noticed' = noticed \ {p}
      ELSE /\ UNCHANGED <<xfer, xferLen, xferPos, xferPipe, qHead, noticed>>
           /\ qCount' = cnt
           /\ armed' = arm
           /\ brdyPend' = pend
           /\ bh' = (bh \/ kick)

FaultCanReceive == QSize

(* The chardev hands over n raw bytes, at most as many as can_receive      *)
(* allows; k of them complete a packet (a byte completes at most one).     *)
CanReceive == QSize - qCount

ChrReceive(n, k) ==
  LET fit == Lesser(k, QSize - qCount)
      rg  == [i \in 0 .. QSize - 1 |->
                IF Wrap(i - qTail + QSize) < fit
                THEN accepted + Wrap(i - qTail + QSize)
                ELSE ring[i]]
  IN  /\ n <= CanReceive /\ k <= n
      /\ ring' = rg
      /\ qTail' = Wrap(qTail + fit)
      /\ accepted' = accepted + fit
      /\ dropped' = dropped + (k - fit)
      /\ TryDeliver(rg, qCount + fit, armed, brdyenb, brdyPend, FALSE)
      /\ UNCHANGED <<irqVars, attachPend, sackPend, bempPend, attachSignalled,
                     curpipe, ctrlVars, taken, txVars>>

\* Arming does not look at the queue.
FaultWritePipeCtr(p, buf) ==
  /\ armed' = armed \cup ({p} \cap Recv)
  /\ UNCHANGED <<irqVars, pendVars, attachSignalled, curpipe, ctrlVars, ringVars,
                 xferVars, txVars>>

\* PIPEnCTR write.  PID = BUF on a receiving pipe arms it; no other value
\* disarms it.
WritePipeCtr(p, buf) ==
  IF buf /\ p \in Recv
  THEN /\ TryDeliver(ring, qCount, armed \cup {p}, brdyenb, brdyPend, FALSE)
       /\ UNCHANGED <<irqVars, attachPend, sackPend, bempPend, attachSignalled,
                      curpipe, ctrlVars, ring, qTail, accepted, dropped, taken,
                      txVars>>
  ELSE UNCHANGED vars

-----------------------------------------------------------------------------
(* Interrupt registers. *)

\* The status register clears the bits written as 1.
FaultClearSts1(c) ==
  /\ sts1' = sts1 \cap c
  /\ UNCHANGED <<enb0, enb1, brdysts, brdyenb, bempsts, bempenb>>
  /\ UpdateIrq
  /\ UNCHANGED <<pendVars, attachSignalled, curpipe, ctrlVars, ringVars,
                 xferVars, armed, txVars>>

\* Status registers are write-0-to-clear: the listed bits are cleared.
ClearSts1(c) ==
  /\ sts1' = sts1 \ c
  /\ UNCHANGED <<enb0, enb1, brdysts, brdyenb, bempsts, bempenb>>
  /\ UpdateIrq
  /\ UNCHANGED <<pendVars, attachSignalled, curpipe, ctrlVars, ringVars,
                 xferVars, armed, txVars>>

\* The line is not recomputed.
FaultClearBrdy(c) ==
  /\ brdysts' = brdysts \ c
  /\ noticed' = noticed \cup (c \cap brdysts)
  /\ UNCHANGED <<irq, enb0, enb1, sts1, brdyenb, bempsts, bempenb>>
  /\ UNCHANGED <<pendVars, attachSignalled, curpipe, ctrlVars, ringVars,
                 xfer, xferLen, xferPos, xferPipe, taken, armed, txVars>>

ClearBrdy(c) ==
  /\ brdysts' = brdysts \ c
  /\ noticed' = noticed \cup (c \cap brdysts)
  /\ UNCHANGED <<enb0, enb1, sts1, brdyenb, bempsts, bempenb>>
  /\ UpdateIrq
  /\ UNCHANGED <<pendVars, attachSignalled, curpipe, ctrlVars, ringVars,
                 xfer, xferLen, xferPos, xferPipe, taken, armed, txVars>>

ClearBemp(c) ==
  /\ bempsts' = bempsts \ c
  /\ UNCHANGED <<enb0, enb1, sts1, brdysts, brdyenb, bempenb>>
  /\ UpdateIrq
  /\ UNCHANGED <<pendVars, attachSignalled, curpipe, ctrlVars, ringVars,
                 xferVars, armed, txVars>>

WriteIntenb0(s) ==
  /\ enb0' = s
  /\ UNCHANGED <<enb1, sts1, brdysts, brdyenb, bempsts, bempenb>>
  /\ UpdateIrq
  /\ UNCHANGED <<pendVars, attachSignalled, curpipe, ctrlVars, ringVars,
                 xferVars, armed, txVars>>

\* Enabling ATTCH for the first time queues the one-shot attach event.
WriteIntenb1(s) ==
  /\ enb1' = s
  /\ UNCHANGED <<enb0, sts1, brdysts, brdyenb, bempsts, bempenb>>
  /\ UpdateIrq
  /\ IF "ATTCH" \in s /\ ~attachSignalled
     THEN attachSignalled' = TRUE /\ attachPend' = TRUE /\ bh' = TRUE
     ELSE UNCHANGED <<attachSignalled, attachPend, bh>>
  /\ UNCHANGED <<sackPend, brdyPend, bempPend, curpipe, ctrlVars, ringVars,
                 xferVars, armed, txVars>>

\* BRDYENB: with pipe 0 enabled, announce the staged data or finish the
\* status stage of a control write; then let a queued transfer go.
WriteBrdyenb(s) ==
  LET data   == Ctl \in s /\ dataReady /\ respPos < respLen
      status == Ctl \in s /\ ~(dataReady /\ respPos < respLen) /\ ctrlActive /\ ~ctrlIn
  IN  /\ brdyenb' = s
      /\ ctrlActive' = (ctrlActive /\ ~status)
      /\ TryDeliver(ring, qCount, armed, s,
                    IF data \/ status THEN brdyPend \cup {Ctl} ELSE brdyPend,
                    data \/ status)
      /\ UNCHANGED <<enb0, enb1, sts1, brdysts, bempsts, bempenb>>
      /\ UpdateIrq
      /\ UNCHANGED <<attachPend, sackPend, bempPend, attachSignalled, curpipe,
                     ctrlIn, dataReady, respLen, respPos, ring, qTail, accepted,
                     dropped, taken, txVars>>

\* Enabling pipe 0 does not finish the status stage.
FaultWriteBempenb(s) ==
  /\ bempenb' = s
  /\ UNCHANGED <<enb0, enb1, sts1, brdysts, brdyenb, bempsts>>
  /\ UpdateIrq
  /\ UNCHANGED <<pendVars, attachSignalled, curpipe, ctrlVars, ringVars,
                 xferVars, armed, txVars>>

\* Fault for the runs: the line is not raised for a completion latched before.
FaultLateEnable(s) ==
  LET status == Ctl \in s /\ ctrlActive /\ ~dataReady
  IN  /\ bempenb' = s
      /\ ctrlActive' = (ctrlActive /\ ~status)
      /\ bempPend' = IF status THEN bempPend \cup {Ctl} ELSE bempPend
      /\ bh' = (bh \/ status)
      /\ UNCHANGED <<enb0, enb1, sts1, brdysts, brdyenb, bempsts, irq>>
      /\ UNCHANGED <<attachPend, sackPend, brdyPend, attachSignalled, curpipe,
                     ctrlIn, dataReady, respLen, respPos, ringVars, xferVars,
                     armed, txVars>>

\* BEMPENB: with pipe 0 enabled, finish the status stage once no data is left.
WriteBempenb(s) ==
  LET status == Ctl \in s /\ ctrlActive /\ ~dataReady
  IN  /\ bempenb' = s
      /\ ctrlActive' = (ctrlActive /\ ~status)
      /\ bempPend' = IF status THEN bempPend \cup {Ctl} ELSE bempPend
      /\ bh' = (bh \/ status)
      /\ UNCHANGED <<enb0, enb1, sts1, brdysts, brdyenb, bempsts>>
      /\ UpdateIrq
      /\ UNCHANGED <<attachPend, sackPend, brdyPend, attachSignalled, curpipe,
                     ctrlIn, dataReady, respLen, respPos, ringVars, xferVars,
                     armed, txVars>>

\* The bottom half: queued events become status bits.
Event ==
  /\ bh
  /\ bh' = FALSE
  /\ sts1' = sts1 \cup (IF attachPend THEN {"ATTCH"} ELSE {})
                  \cup (IF sackPend THEN {"SACK"} ELSE {})
  /\ brdysts' = brdysts \cup brdyPend
  /\ bempsts' = bempsts \cup bempPend
  /\ attachPend' = FALSE /\ sackPend' = FALSE /\ brdyPend' = {} /\ bempPend' = {}
  /\ UNCHANGED <<enb0, enb1, brdyenb, bempenb>>
  /\ UpdateIrq
  /\ UNCHANGED <<attachSignalled, curpipe, ctrlVars, ringVars, xferVars, armed,
                 txVars>>

-----------------------------------------------------------------------------
(* Control transfers. *)

\* DCPCTR.SUREQ: a SETUP packet.  Only a descriptor request stages data.
Setup(in, words) ==
  /\ words > 0 => in
  /\ ctrlActive' = TRUE /\ ctrlIn' = in
  /\ respLen' = words /\ respPos' = 0 /\ dataReady' = (words > 0)
  /\ sackPend' = TRUE /\ bh' = TRUE
  /\ UNCHANGED <<irqVars, attachPend, brdyPend, bempPend, attachSignalled,
                 curpipe, ringVars, xferVars, armed, txVars>>

\* DCPCTR.CCPL: complete the status stage.
Complete ==
  /\ ctrlActive' = FALSE
  /\ bempPend' = IF ctrlActive THEN bempPend \cup {Ctl} ELSE bempPend
  /\ bh' = (bh \/ ctrlActive)
  /\ UNCHANGED <<irqVars, attachPend, sackPend, brdyPend, attachSignalled,
                 curpipe, ctrlIn, dataReady, respLen, respPos, ringVars,
                 xferVars, armed, txVars>>

-----------------------------------------------------------------------------
(* The CFIFO. *)

SelectPipe(p) ==
  /\ curpipe' = p
  /\ UNCHANGED <<irqVars, pendVars, attachSignalled, ctrlVars, ringVars,
                 xferVars, armed, txVars>>

BulkSelected == curpipe \in Recv /\ curpipe = xferPipe /\ xferLen > 0

\* A read while the latched transfer's pipe is selected takes one packet;
\* the last one releases the latch.
ReadBulk ==
  /\ BulkSelected
  /\ taken' = taken + 1
  /\ IF xferPos + 1 >= xferLen
     THEN xferLen' = 0 /\ xferPos' = 0 /\ xferPipe' = 0
     ELSE xferPos' = xferPos + 1 /\ UNCHANGED <<xferLen, xferPipe>>
  /\ UNCHANGED <<irqVars, pendVars, attachSignalled, curpipe, ctrlVars,
                 ringVars, xfer, noticed, armed, txVars>>

\* Any other read takes one word of the control response; draining a full
\* packet announces the next one.
ReadControl ==
  LET pos == IF respPos < respLen THEN respPos + 1 ELSE respPos
      more == pos < respLen /\ pos % CtlPacket = 0
  IN  /\ ~BulkSelected
      /\ respPos' = pos
      /\ dataReady' = (dataReady /\ pos < respLen)
      /\ brdyPend' = IF more THEN brdyPend \cup {Ctl} ELSE brdyPend
      /\ bh' = (bh \/ more)
      /\ UNCHANGED <<irqVars, attachPend, sackPend, bempPend, attachSignalled,
                     curpipe, ctrlActive, ctrlIn, respLen, ringVars, xferVars,
                     armed, txVars>>

\* A write while the sending pipe is selected adds a packet; a full buffer
\* ignores it.
WriteFifo ==
  /\ IF curpipe = Send
     THEN /\ txLen' = Lesser(txLen + 1, TxSize)
          /\ written' = written + 1
     ELSE UNCHANGED <<txLen, written>>
  /\ UNCHANGED <<irqVars, pendVars, attachSignalled, curpipe, ctrlVars,
                 ringVars, xferVars, armed, sent>>

\* A short buffer is not handed over.
FaultWriteFifoCtr(bval, bclr) ==
  LET commit == curpipe = Send /\ bval
      full   == commit /\ txLen = TxSize
  IN  /\ txLen' = IF commit \/ bclr THEN 0 ELSE txLen
      /\ sent' = IF full THEN sent + txLen ELSE sent
      /\ bempPend' = IF commit THEN bempPend \cup {Send} ELSE bempPend
      /\ bh' = (bh \/ commit)
      /\ UNCHANGED <<irqVars, attachPend, sackPend, brdyPend, attachSignalled,
                     curpipe, ctrlVars, ringVars, xferVars, armed, written>>

\* CFIFOCTR: BVAL on the sending pipe hands the buffer to the host; otherwise
\* BCLR empties it, whatever pipe is selected.
WriteFifoCtr(bval, bclr) ==
  LET commit == curpipe = Send /\ bval
  IN  /\ txLen' = IF commit \/ bclr THEN 0 ELSE txLen
      /\ sent' = IF commit THEN sent + txLen ELSE sent
      /\ bempPend' = IF commit THEN bempPend \cup {Send} ELSE bempPend
      /\ bh' = (bh \/ commit)
      /\ UNCHANGED <<irqVars, attachPend, sackPend, brdyPend, attachSignalled,
                     curpipe, ctrlVars, ringVars, xferVars, armed, written>>

-----------------------------------------------------------------------------
HostInput == \E n \in 0 .. CanReceive : \E k \in 0 .. n : ChrReceive(n, k)

Registers ==
  \/ \E c \in SUBSET Causes1 : ClearSts1(c) \/ WriteIntenb1(c)
  \/ \E c \in SUBSET Causes0 : WriteIntenb0(c)
  \/ \E c \in SUBSET Pipes : ClearBrdy(c) \/ ClearBemp(c)
  \/ \E c \in SUBSET Pipes : WriteBrdyenb(c) \/ WriteBempenb(c)
  \/ \E in \in BOOLEAN, words \in RespLengths \cup {0} : Setup(in, words)
  \/ Complete
  \/ \E p \in Pipes, buf \in BOOLEAN : WritePipeCtr(p, buf)
  \/ \E p \in Pipes : SelectPipe(p)

Fifo == ReadBulk \/ ReadControl \/ WriteFifo
        \/ \E bval, bclr \in BOOLEAN : WriteFifoCtr(bval, bclr)

Next == HostInput \/ Event \/ Registers \/ Fifo \/ Reset

\* The main loop runs a scheduled bottom half.
Spec == Init /\ [][Next]_vars

-----------------------------------------------------------------------------
(* The level-triggered line always equals what the status and enable       *)
(* registers say, although only some register writes recompute it.         *)
LineIsLevel == irq = Level(enb0, enb1, sts1, brdysts, brdyenb, bempsts, bempenb)

(* Every queued interrupt event has a bottom half on its way.              *)
EventScheduled ==
  (attachPend \/ sackPend \/ brdyPend # {} \/ bempPend # {}) => bh

(* Flow control: asking the chardev for no more bytes than can_receive     *)
(* says, the ring never drops a packet.                                    *)
NothingDropped == dropped = 0

InFlight == xferLen - xferPos

(* The ring and the latch hold exactly the packets accepted and not yet    *)
(* read, in order: slot by slot the numbers continue from the last one     *)
(* read, across wrap-around, partial drains and re-arming.                 *)
InOrder ==
  /\ accepted = taken + InFlight + qCount
  /\ \A i \in xferPos .. xferLen - 1 : xfer[i] = taken + (i - xferPos)
  /\ \A i \in 0 .. qCount - 1 : ring[Wrap(qHead + i)] = taken + InFlight + i

\* What the ring and the latch hold between them.
Contents ==
  [i \in 1 .. InFlight + qCount |->
     IF i <= InFlight THEN xfer[xferPos + i - 1]
     ELSE ring[Wrap(qHead + (i - InFlight - 1))]]
Queue == INSTANCE PacketQueue
           WITH Capacity <- QSize + Burst, queue <- Contents, next <- accepted

(* The ring and the latch together are one lossless queue: packets leave   *)
(* it once each, in the order they entered, whatever the pipes, transfers  *)
(* and enables do (try_deliver, the ring of rxq_push, the CFIFO reads).    *)
OneQueue == Queue!Spec

(* A latched transfer was announced: its BRDY is queued, or latched in the *)
(* status register, or the firmware has already cleared it there.          *)
TransferAnnounced ==
  xferLen > 0 => xferPipe \in brdyPend \cup brdysts \cup noticed
=============================================================================
