-------------------------------- MODULE Dmac --------------------------------
(***************************************************************************)
(* A channel of the DMA controller (src/src/hw/dma/rza1l_dmac.c) as the    *)
(* devices and the firmware see it: a transfer runs to its end inside the  *)
(* register write that enables it, and a channel bound to a peripheral     *)
(* keeps a ring that the peripheral advances.                              *)
(*                                                                         *)
(* The operators are pure; the modules that use a channel keep its state.  *)
(* Addresses, transfer units and the group status registers are left out:  *)
(* a register set is the sequence of the cells it copies.                  *)
(***************************************************************************)
EXTENDS Sequences, FiniteSets, Integers

\* The status bits a channel can show; EN, TACT and ER are never found set.
ChStat == {"END", "TC"}

\* Of CHCFG a channel has chained, REN with RSW, for its second register set,
\* and DEM, which masks the interrupt.

\* Faults for the runs: the second register set is left out; the mask is
\* honoured for a chained transfer too.
FaultDoTransfer(chcfg, next0, next1) == next0
FaultSignals(chcfg) == ~chcfg.DEM

\* The cells a transfer copies, in order.
rza1l_dmac_do_transfer(chcfg, next0, next1) ==
  IF chcfg.chained THEN next0 \o next1 ELSE next0

\* CHSTAT after the control bits of one write, the transfer included.
ChStatAfter(chstat, ctrl) ==
  LET cleared == IF "SWRST" \in ctrl THEN {}
                 ELSE (chstat \ (IF "CLREND" \in ctrl THEN {"END"} ELSE {}))
                        \ (IF "CLRTC" \in ctrl THEN {"TC"} ELSE {})
  IN  IF "SETEN" \in ctrl THEN ChStat ELSE cleared

\* Whether the end of a transfer pulses the interrupt line of its channel.
Signals(chcfg) == chcfg.chained \/ ~chcfg.DEM

-----------------------------------------------------------------------------
\* A ring latched from a self-linking descriptor has its cells, cell, numbered
\* from 0, the one to be written next, at, and is active or not.

\* The descriptor is latched again: writing starts at the base.
Latched(ring) == [ring EXCEPT !.active = TRUE, !.at = 0]

\* One value from the peripheral, if the ring is armed.
Pushed(ring, n, value) ==
  IF ring.active
  THEN [ring EXCEPT !.cell[ring.at] = value, !.at = (ring.at + 1) % n]
  ELSE ring
=============================================================================
