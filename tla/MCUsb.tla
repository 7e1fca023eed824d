-------------------------------- MODULE MCUsb --------------------------------
(* The controller in a part of its use, chosen at the start of the         *)
(* behaviour: under firmware that may do any register access for bulk IN,  *)
(* for control transfers, or for the transmit buffer; or under the driver, *)
(* which enumerates with a two-packet control read, a write without data   *)
(* and a one-packet read, and then moves four packets in and three out.    *)
EXTENDS UsbFirmware

MCRequests == <<3, 0, 2>>

VARIABLE part

BulkFirmware ==
  \/ \E c \in SUBSET Recv : ClearBrdy(c) \/ WriteBrdyenb(c)
  \/ WriteIntenb0({"BRDY"})
  \/ \E p \in Recv : SelectPipe(p) \/ WritePipeCtr(p, TRUE)
  \/ ReadBulk

BulkNext == HostInput \/ Event \/ BulkFirmware \/ Reset
Bound == accepted <= MaxPackets /\ written <= MaxPackets

CtrlFirmware ==
  \/ \E c \in {{"ATTCH"}, {"SACK"}} : ClearSts1(c)
  \/ \E c \in {{}, Causes1} : WriteIntenb1(c)
  \/ \E c \in {{}, Causes0} : WriteIntenb0(c)
  \/ ClearBrdy({Ctl}) \/ ClearBemp({Ctl})
  \/ \E c \in {{}, {Ctl}} : WriteBrdyenb(c) \/ WriteBempenb(c)
  \/ \E in \in BOOLEAN, words \in RespLengths : Setup(in, words)
  \/ Complete
  \/ ReadControl

CtrlNext == Event \/ CtrlFirmware \/ Reset

TxNext ==
  \/ \E p \in Pipes : SelectPipe(p)
  \/ WriteFifo
  \/ \E bval, bclr \in BOOLEAN : WriteFifoCtr(bval, bclr)
  \/ Event

MCNext ==
  /\ \/ part = "bulk" /\ BulkNext /\ UNCHANGED fwVars
     \/ part = "ctrl" /\ CtrlNext /\ UNCHANGED fwVars
     \/ part = "tx" /\ TxNext /\ UNCHANGED fwVars
     \/ part = "driver" /\ FwNext
  /\ UNCHANGED part

MCInit == FwInit /\ part \in {"bulk", "ctrl", "tx", "driver"}

MCSpec ==
  /\ MCInit /\ [][MCNext]_<<allVars, part>>
  /\ WF_allVars(part = "driver" /\ Isr)
  /\ WF_allVars(part = "driver" /\ Task)
  /\ WF_allVars(part = "driver" /\ FwEvent)

\* The four promises of UsbFirmware to the driver.
DriverEnumerates == part = "driver" => Enumerates
DriverReads == part = "driver" => PacketsRead
DriverSends == part = "driver" => PacketsSent
DriverServed == part = "driver" => InterruptsServed
=============================================================================
