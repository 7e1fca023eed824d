----------------------------- MODULE MidiSerial -----------------------------
(***************************************************************************)
(* The serial MIDI port: the SCIF (src/src/hw/char/rza1l_scif.c) on its    *)
(* two DMA channels (src/src/hw/dma/rza1l_dmac.c), and the firmware's      *)
(* driver.                                                                 *)
(*                                                                         *)
(* Out: the driver keeps a circular buffer and has the DMA controller send *)
(* what it holds, in two register sets when it wraps; only the interrupt   *)
(* at the end of a transfer makes it send the rest.  In: bytes go straight *)
(* into a receive ring, and beside it a second channel writes the playback *)
(* position at which each byte came.                                       *)
(*                                                                         *)
(* The driver is external: what it does is taken from the comments of the  *)
(* two files and from the order of its channels in HW.md.  Bytes are       *)
(* numbers.  The port's holding register is left out: with the DMA         *)
(* controller bound, as the SoC binds it, no byte ever enters it.          *)
(***************************************************************************)
EXTENDS Dmac

CONSTANTS
  TxSize,       \* cells of the driver's transmit buffer
  MaxBytes,     \* bound: bytes sent in a behaviour
  RxSize,       \* bytes of the receive ring
  TimeSize,     \* entries of the timing ring
  Positions     \* playback positions told apart

ASSUME MidiAssumption ==
  /\ TxSize \in Nat /\ TxSize >= 2
  /\ RxSize \in Nat \ {0} /\ TimeSize \in Nat \ {0} /\ RxSize % TimeSize = 0
  /\ MaxBytes \in Nat /\ Positions \in Nat \ {0}

VARIABLES
  \* out
  buffer, read, write,   \* the driver's buffer; [read, write) is to be sent
  driver,                \* quiet, or about to start a transfer, or sending
  chcfg, next0, next1,   \* registers of the transmit channel
  dmaint,                \* its interrupt is pending at the GIC
  line,                  \* bytes the port has sent
  queued,                \* history: bytes the driver has queued
  \* in
  RE,                    \* SCSCR.RE
  ring,                  \* the receive channel's ring
  timing,                \* the timing channel's ring
  playing, position,     \* the audio channel is armed; its source position
  taken,                 \* where the driver reads next in the receive ring
  unread                 \* history: what came in since, with its position

out == <<buffer, read, write, driver, chcfg, next0, next1, dmaint, line, queued>>
in == <<RE, ring, timing, playing, position, taken, unread>>
vars == <<out, in>>

TxCell == 0 .. TxSize - 1
NoTime == Positions              \* the audio channel's register before it plays

Byte == 0 .. RxSize              \* bytes in are numbered modulo RxSize + 1

OutInit ==
  /\ buffer = [c \in TxCell |-> 0]
  /\ read = 0 /\ write = 0 /\ driver = "quiet"
  /\ chcfg = [chained |-> FALSE, DEM |-> FALSE] /\ next0 = <<>> /\ next1 = <<>>
  /\ dmaint = FALSE /\ line = <<>> /\ queued = 0

InInit ==
  /\ RE = FALSE
  /\ ring = [active |-> FALSE, cell |-> [c \in 0 .. RxSize - 1 |-> 0], at |-> 0]
  /\ timing = [active |-> FALSE, cell |-> [c \in 0 .. TimeSize - 1 |-> 0], at |-> 0]
  /\ playing = FALSE /\ position = 0
  /\ taken = 0 /\ unread = <<>>

Init == OutInit /\ InInit

-----------------------------------------------------------------------------
(* Out.                                                                    *)

\* The driver queues the next byte.
Put ==
  /\ (write + 1) % TxSize # read
  /\ queued < MaxBytes
  /\ queued' = queued + 1
  /\ buffer' = [buffer EXCEPT ![write] = queued']
  /\ write' = (write + 1) % TxSize
  /\ UNCHANGED <<read, driver, chcfg, next0, next1, dmaint, line>>

\* Cells a, a + 1, ..., b - 1 of the buffer.
Cells(a, b) == [i \in 1 .. b - a |-> a + i - 1]

\* The driver writes the registers for what it holds: DEM only with two sets,
\* where it means the end of the first.
Configure(from) ==
  LET wraps == write < from
  IN  /\ chcfg' = [chained |-> wraps, DEM |-> wraps]
      /\ next0' = Cells(from, IF wraps THEN TxSize ELSE write)
      /\ next1' = IF wraps THEN Cells(0, write) ELSE next1

Flush ==
  /\ driver = "quiet" /\ read # write
  /\ driver' = "ready"
  /\ Configure(read)
  /\ UNCHANGED <<buffer, read, write, dmaint, line, queued>>

\* CHCTRL.SETEN: the transfer, byte by byte into SCFTDR and out, and its end.
Start ==
  LET cells == rza1l_dmac_do_transfer(chcfg, next0, next1)
  IN  /\ driver = "ready"
      /\ driver' = "sending"
      /\ line' = line \o [i \in DOMAIN cells |-> buffer[cells[i]]]
      /\ dmaint' = (dmaint \/ Signals(chcfg))
      /\ UNCHANGED <<buffer, read, write, chcfg, next0, next1, queued>>

\* The driver's interrupt routine: what was handed over is sent; go on.
Interrupt ==
  LET handed == Len(next0) + IF chcfg.chained THEN Len(next1) ELSE 0
  IN  /\ driver = "sending" /\ dmaint
      /\ dmaint' = FALSE
      /\ read' = (read + handed) % TxSize
      /\ IF read' = write
         THEN driver' = "quiet" /\ UNCHANGED <<chcfg, next0, next1>>
         ELSE driver' = "ready" /\ Configure(read')
      /\ UNCHANGED <<buffer, write, line, queued>>

OutReset ==
  /\ read' = 0 /\ write' = 0 /\ driver' = "quiet"
  /\ chcfg' = [chained |-> FALSE, DEM |-> FALSE] /\ next0' = <<>> /\ next1' = <<>>
  /\ dmaint' = FALSE /\ line' = <<>> /\ queued' = 0
  /\ UNCHANGED buffer

-----------------------------------------------------------------------------
(* In.                                                                     *)

\* Fault for the runs: no entry is written before the audio plays.
FaultTimingCapture(stamp) ==
  IF playing THEN Pushed(timing, TimeSize, stamp) ELSE timing

\* The timing ring once a byte has come, at this position.
rza1l_dmac_timing_capture(stamp) == Pushed(timing, TimeSize, stamp)

\* A byte from the host; the SCIF takes no notice of one that no ring takes.
rza1l_scif_receive(byte) ==
  LET stamp == IF playing THEN position ELSE NoTime
      seen  == Append(unread, [byte |-> byte, at |-> stamp])
  IN  /\ RE
      /\ ring' = Pushed(ring, RxSize, byte)
      /\ IF ring.active
         THEN /\ timing' = rza1l_dmac_timing_capture(stamp)
              /\ unread' = IF Len(seen) = RxSize THEN <<>> ELSE seen
         ELSE UNCHANGED <<timing, unread>>
      /\ UNCHANGED <<RE, playing, position, taken>>

\* The byte after the last one, or any, if that is read.
Receive ==
  rza1l_scif_receive(IF unread = <<>> THEN 0
                     ELSE (unread[Len(unread)].byte + 1) % (RxSize + 1))

\* The driver takes a byte: one is there as long as CRDA is elsewhere.
Take ==
  /\ taken # ring.at
  /\ taken' = (taken + 1) % RxSize
  /\ unread' = Tail(unread)
  /\ UNCHANGED <<RE, ring, timing, playing, position>>

\* The driver starts its channels: timing, then receive, then audio.
ArmTiming ==
  /\ ~timing.active
  /\ timing' = Latched(timing)
  /\ UNCHANGED <<RE, ring, playing, position, taken, unread>>

ArmReceive ==
  /\ timing.active /\ ~ring.active
  /\ ring' = Latched(ring)
  /\ UNCHANGED <<RE, timing, playing, position, taken, unread>>

ArmAudio ==
  /\ ring.active /\ ~playing
  /\ playing' = TRUE /\ position' = 0
  /\ UNCHANGED <<RE, ring, timing, taken, unread>>

WriteSCSCR ==
  /\ RE' = ~RE
  /\ UNCHANGED <<ring, timing, playing, position, taken, unread>>

Play ==
  /\ playing
  /\ position' = (position + 1) % Positions
  /\ UNCHANGED <<RE, ring, timing, playing, taken, unread>>

Off(r) == [r EXCEPT !.active = FALSE, !.at = 0]

\* A reset of the machine: the memory keeps what the rings hold.
InReset ==
  /\ RE' = FALSE
  /\ ring' = Off(ring) /\ timing' = Off(timing)
  /\ playing' = FALSE /\ position' = 0
  /\ taken' = 0 /\ unread' = <<>>

-----------------------------------------------------------------------------
OutNext == Put \/ Flush \/ Start \/ Interrupt
InNext == \/ Receive \/ Take \/ ArmTiming \/ ArmReceive \/ ArmAudio
          \/ WriteSCSCR \/ Play

Next == \/ OutNext /\ UNCHANGED in
        \/ InNext /\ UNCHANGED out
        \/ OutReset /\ InReset

\* The driver flushes what it holds and serves its interrupt.
Fairness == WF_out(Flush) /\ WF_out(Start) /\ WF_out(Interrupt)

Spec == Init /\ [][Next]_vars

-----------------------------------------------------------------------------
\* The bytes leave the port in the order they were queued, none missing and
\* none twice, wherever the buffer wraps and whenever the driver queues more.
LineInOrder == line = [i \in 1 .. Len(line) |-> i]

\* Each byte queued is sent: the end of every transfer interrupts, also when
\* the interrupt comes before the driver has left the write that caused it.
AllSent == \A n \in 1 .. MaxBytes : queued >= n ~> (Len(line) >= n \/ queued < n)

\* Each byte the driver has not read is where it will look, with the position
\* at which it came in the entry beside, but for entries a later byte took.
StampsMatch ==
  \A i \in 1 .. Len(unread) :
    LET cell == (taken + i - 1) % RxSize
    IN  /\ ring.cell[cell] = unread[i].byte
        /\ Len(unread) - i < TimeSize => timing.cell[cell % TimeSize] = unread[i].at
=============================================================================
