------------------------------- MODULE SdHost -------------------------------
(***************************************************************************)
(* The SD host interface (src/src/hw/sd/rza1l_sdhi.c) between the card and *)
(* a firmware driver that moves blocks by the processor or by the DMA      *)
(* controller, waits for interrupts, and may give up at any time.          *)
(*                                                                         *)
(* The card and the driver are not in the repository: the card is the one  *)
(* of QEMU as the interface calls it, the driver is what the comments of   *)
(* rza1l_sdhi.c say of it.  A block is BlockUnits accesses of the FIFO, a  *)
(* unit is its number in the transfer, and Garbage is data from nowhere.   *)
(* Registers that only hold what was written, and the contents of the      *)
(* responses, are left out.                                                *)
(***************************************************************************)
EXTENDS Dmac

CONSTANTS
  BlockUnits,   \* FIFO accesses of a block
  MaxBlocks,    \* bound: blocks of one transfer
  Garbage       \* a unit that no block holds

ASSUME SdAssumption ==
  /\ BlockUnits \in Nat \ {0}
  /\ MaxBlocks \in Nat \ {0}
  /\ Garbage \notin Nat

Unbounded == BlockUnits * (MaxBlocks + 1)   \* a card that streams until stopped

VARIABLES
  stop, seccnt,              \* SD_STOP.SEC and SD_SECCNT
  info1, info2,              \* the latched events
  enabled1, enabled2,        \* the events not masked
  irq,                       \* the interrupt line
  DMASDRW,                   \* CC_EXT_MODE.DMASDRW
  data_dir, blockcnt, datacnt,
  chstat,                    \* status of the DMA channel
  card, left, next,          \* card state, units it still owes, unit it is at
  drv,                       \* the driver: phase and the transfer it wants
  moved                      \* units that reached the memory, or the card

host == <<stop, seccnt, info1, info2, enabled1, enabled2, irq, DMASDRW,
          data_dir, blockcnt, datacnt>>
medium == <<card, left, next, moved>>
sdVars == <<host, medium, chstat, drv>>

Info1 == {"RESP", "DATA_TRNS"}
Info2 == {"ERR6", "RE", "WE"}

Command == {"CMD12", "CMD13", "CMD17", "CMD18", "CMD24", "CMD25"}

Phase == {"idle", "command", "response", "data", "status", "poll",
          "failed", "stop"}

-----------------------------------------------------------------------------
(* The card (external).                                                    *)

Single == {"CMD17", "CMD24"}

\* The state of the card after a command.
sdbus_do_command(cmd) ==
  CASE cmd \in {"CMD17", "CMD18"} /\ card = "tran" -> "data"
    [] cmd \in {"CMD24", "CMD25"} /\ card = "tran" -> "rcv"
    [] cmd = "CMD12" -> "tran"
    [] OTHER -> card

\* Whether the card answers: it does not know a command out of place.
Answers(cmd) == cmd = "CMD13" \/ (cmd = "CMD12") = (card # "tran")

-----------------------------------------------------------------------------
(* The controller.                                                         *)

rza1l_sdhi_update_irq ==
  irq' = (info1' \cap enabled1' # {} \/ info2' \cap enabled2' # {})

\* Fault for the runs: the block count of an earlier transfer is honoured.
FaultBlocks == IF seccnt > 0 THEN seccnt ELSE 1

\* The blocks a data phase waits for.
Blocks == IF stop /\ seccnt > 0 THEN seccnt ELSE 1

rza1l_sdhi_command(cmd) ==
  LET after == sdbus_do_command(cmd)
      begun == cmd \notin {"CMD12", "CMD13"} /\ card = "tran"
      ready == (IF after = "data" THEN {"RE"} ELSE {})
                 \cup (IF after = "rcv" THEN {"WE"} ELSE {})
  IN  /\ info1' = {"RESP"}
      /\ info2' = ready \cup (IF Answers(cmd) THEN {} ELSE {"ERR6"})
      /\ data_dir' = CASE after = "data" -> 1 [] after = "rcv" -> 2 [] OTHER -> 0
      /\ blockcnt' = IF ready # {} THEN Blocks ELSE 0
      /\ datacnt' = IF ready # {} THEN BlockUnits ELSE 0
      /\ card' = after
      /\ left' = IF begun THEN IF cmd \in Single THEN BlockUnits ELSE Unbounded
                 ELSE IF after = "tran" THEN 0 ELSE left
      /\ next' = IF begun \/ after = "tran" THEN 0 ELSE next
      /\ UNCHANGED <<stop, seccnt, enabled1, enabled2, DMASDRW, moved>>
      /\ rza1l_sdhi_update_irq

\* The units of n accesses of the FIFO in the direction of the data phase.
Streamed(n) == [i \in 1 .. n |-> IF i <= left THEN next + i - 1 ELSE Garbage]

\* Fault for the runs: a counted transfer is not stopped.
FaultAutoStop == card

\* The card after the last block of a transfer: one that counts its blocks
\* is stopped by a CMD12 of the controller itself.
AutoStop == IF stop THEN "tran" ELSE card

\* n accesses of the FIFO, at most to the end of a block: rza1l_sdhi_read_buf
\* or rza1l_sdhi_write_buf, with rza1l_sdhi_data_block_done.
MoveUnits(n) ==
  LET owed   == (blockcnt - 1) * BlockUnits + datacnt - n
      done   == owed = 0
      spent  == left <= n
      moving == IF spent THEN "tran" ELSE card
  IN  /\ moved' = moved \o Streamed(n)
      /\ blockcnt' = (owed + BlockUnits - 1) \div BlockUnits
      /\ datacnt' = IF done THEN 0 ELSE ((owed - 1) % BlockUnits) + 1
      /\ data_dir' = IF done THEN 0 ELSE data_dir
      /\ info1' = IF done THEN info1 \cup {"DATA_TRNS"} ELSE info1
      /\ info2' = IF done THEN info2 \ {IF data_dir = 1 THEN "RE" ELSE "WE"} ELSE info2
      /\ card' = IF done /\ ~spent THEN AutoStop ELSE moving
      /\ left' = IF spent \/ card' = "tran" THEN 0 ELSE left - n
      /\ next' = IF spent \/ card' = "tran" THEN 0 ELSE next + n
      /\ UNCHANGED <<stop, seccnt, enabled1, enabled2, DMASDRW>>
      /\ rza1l_sdhi_update_irq

\* The driver writes the status registers, the masks, or both.
WriteInfo(keep1, keep2, on1, on2) ==
  /\ info1' = info1 \cap keep1 /\ info2' = info2 \cap keep2
  /\ enabled1' = on1 /\ enabled2' = on2
  /\ rza1l_sdhi_update_irq

\* A write of SD_CMD: data while the FIFO is mapped there, else a command.
WriteCmd(cmd) ==
  IF data_dir # 0 /\ DMASDRW
  THEN IF data_dir = 2 THEN MoveUnits(1) ELSE UNCHANGED <<host, medium>>
  ELSE rza1l_sdhi_command(cmd)

-----------------------------------------------------------------------------
(* The driver (external), one transfer after the other.                    *)

Enter(phase) == drv' = [drv EXCEPT !.phase = phase]

SdInit ==
  /\ stop = FALSE /\ seccnt = 0
  /\ info1 = {} /\ info2 = {} /\ enabled1 = {} /\ enabled2 = {}
  /\ irq = FALSE /\ DMASDRW = FALSE
  /\ data_dir = 0 /\ blockcnt = 0 /\ datacnt = 0
  /\ chstat = {}
  /\ card = "tran" /\ left = 0 /\ next = 0 /\ moved = <<>>
  /\ drv = [phase |-> "idle", write |-> FALSE, count |-> 1, dma |-> FALSE]

\* SD_STOP asks to count blocks for several only; SD_SECCNT is left otherwise.
Program(write, count, dma) ==
  /\ drv.phase = "idle"
  /\ drv' = [phase |-> "command", write |-> write, count |-> count, dma |-> dma]
  /\ stop' = (count > 1)
  /\ seccnt' = IF count > 1 THEN count ELSE seccnt
  /\ DMASDRW' = dma
  /\ WriteInfo({}, {}, {"RESP"}, {"ERR6"})
  /\ moved' = <<>>
  /\ chstat' = ChStatAfter(chstat, {"SWRST"})
  /\ UNCHANGED <<data_dir, blockcnt, datacnt, card, left, next>>

Issue ==
  /\ drv.phase = "command"
  /\ Enter("response")
  /\ WriteCmd(CASE drv.write /\ drv.count = 1 -> "CMD24"
                [] drv.write /\ drv.count > 1 -> "CMD25"
                [] ~drv.write /\ drv.count = 1 -> "CMD17"
                [] OTHER -> "CMD18")
  /\ UNCHANGED chstat

TakeResponse ==
  /\ drv.phase = "response" /\ irq
  /\ Enter(IF "ERR6" \in info2 THEN "failed" ELSE "data")
  /\ WriteInfo(Info1 \ {"RESP"}, Info2, {"DATA_TRNS"},
               IF drv.dma THEN {"ERR6"} ELSE Info2)
  /\ UNCHANGED <<stop, seccnt, DMASDRW, data_dir, blockcnt, datacnt, medium, chstat>>

\* By the processor, one access at a time while the buffer is ready.
Access ==
  /\ drv.phase = "data" /\ ~drv.dma /\ irq
  /\ IF drv.write THEN "WE" \in info2 ELSE "RE" \in info2
  /\ MoveUnits(1)
  /\ UNCHANGED <<chstat, drv>>

\* By the DMA controller: every unit inside one write of CHCTRL.
Transfer ==
  /\ drv.phase = "data" /\ drv.dma /\ chstat = {}
  /\ data_dir = IF drv.write THEN 2 ELSE 1
  /\ MoveUnits(drv.count * BlockUnits)
  /\ chstat' = ChStatAfter(chstat, {"SETEN"})
  /\ UNCHANGED drv

TakeEnd ==
  /\ drv.phase = "data" /\ irq /\ "DATA_TRNS" \in info1
  /\ drv.dma => chstat = ChStat
  /\ Enter("status")
  /\ WriteInfo({}, {}, {"RESP"}, {"ERR6"})
  /\ UNCHANGED <<stop, seccnt, DMASDRW, data_dir, blockcnt, datacnt, medium, chstat>>

AskStatus ==
  /\ drv.phase = "status"
  /\ Enter("poll")
  /\ WriteCmd("CMD13")
  /\ UNCHANGED chstat

TakeStatus ==
  /\ drv.phase = "poll" /\ irq
  /\ Enter(IF card = "tran" THEN "idle" ELSE "failed")
  /\ UNCHANGED <<host, medium, chstat>>

\* The driver's timer, wherever the transfer stands.
GiveUp ==
  /\ drv.phase \in {"response", "data", "poll"}
  /\ Enter("failed")
  /\ UNCHANGED <<host, medium, chstat>>

\* Fault for the runs: the reset leaves the data phase open.
FaultSoftReset ==
  /\ blockcnt' = 0 /\ datacnt' = 0
  /\ info1' = info1 /\ info2' = info2 \ {"RE", "WE"}
  /\ UNCHANGED <<stop, seccnt, enabled1, enabled2, DMASDRW, data_dir>>
  /\ rza1l_sdhi_update_irq

\* SOFT_RST with bit 0 clear.
SoftReset ==
  /\ data_dir' = 0 /\ blockcnt' = 0 /\ datacnt' = 0
  /\ info1' = info1 /\ info2' = info2 \ {"RE", "WE"}
  /\ UNCHANGED <<stop, seccnt, enabled1, enabled2, DMASDRW>>
  /\ rza1l_sdhi_update_irq

Recover ==
  /\ drv.phase = "failed"
  /\ Enter("stop")
  /\ SoftReset
  /\ UNCHANGED <<medium, chstat>>

SendStop ==
  /\ drv.phase = "stop"
  /\ Enter("idle")
  /\ WriteCmd("CMD12")
  /\ UNCHANGED chstat

Step == \/ Issue \/ TakeResponse \/ Access \/ Transfer \/ TakeEnd
        \/ AskStatus \/ TakeStatus \/ Recover \/ SendStop

SdNext ==
  \/ \E write, dma \in BOOLEAN, count \in 1 .. MaxBlocks : Program(write, count, dma)
  \/ Step
  \/ GiveUp

\* The driver runs on; nothing obliges it to give up or to start anew.
SdSpec == SdInit /\ [][SdNext]_sdVars /\ WF_sdVars(Step)

-----------------------------------------------------------------------------
\* At the access end the blocks asked for have moved, all of them, once and
\* in order, and the card is ready for a command, whatever was asked before.
AccessEndIsRight ==
  [][("DATA_TRNS" \in info1' \ info1) =>
        /\ moved' = [i \in 1 .. drv.count * BlockUnits |-> i - 1]
        /\ card' = "tran"]_sdVars

\* The access end and its interrupt always come: no transfer hangs on the
\* block count of an earlier one.
TransfersEnd == drv.phase # "idle" ~> drv.phase = "idle"

\* No command of the driver is taken for data of an open data phase.
CommandsReachCard ==
  drv.phase \in {"command", "status", "stop"} => ~(data_dir # 0 /\ DMASDRW)
=============================================================================
