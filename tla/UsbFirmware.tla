----------------------------- MODULE UsbFirmware -----------------------------
(***************************************************************************)
(* The USB controller with a firmware that enumerates the device and then  *)
(* moves MIDI both ways.  The firmware is not in the repository: this one  *)
(* is built from the register sequences the comments of rza1l_usb.c        *)
(* describe.  Its interrupt routine clears a latched status bit and leaves *)
(* a flag; its task waits for flags between register accesses, so the      *)
(* bottom half, the chardev and the routine interleave with every access.  *)
(***************************************************************************)
EXTENDS UsbHost, Sequences

CONSTANTS
  Requests,    \* the control transfers of enumeration: a sequence of lengths
               \* in words, 0 for a transfer without data stage
  Rx,          \* the receiving pipe the firmware uses
  MaxPackets,  \* bound on the packets the host sends
  MaxOut       \* bound on the packets the firmware sends

ASSUME FirmwareAssumption ==
  /\ Requests \in Seq(RespLengths \cup {0}) /\ Requests # <<>>
  /\ Rx \in Recv
  /\ MaxPackets \in Nat /\ MaxOut \in Nat

VARIABLES pc, request, flags

fwVars == <<pc, request, flags>>
allVars == <<vars, fwVars>>

FwInit ==
  /\ Init
  /\ pc = "boot" /\ request = 1 /\ flags = {}

-----------------------------------------------------------------------------
\* The interrupt routine: one cause at a time.
Isr ==
  /\ irq
  /\ \/ \E c \in sts1 \cap enb1 :
          ClearSts1({c}) /\ flags' = flags \cup {<<c, Ctl>>}
     \/ \E p \in brdysts \cap brdyenb :
          ClearBrdy({p}) /\ flags' = flags \cup {<<"BRDY", p>>}
     \/ \E p \in bempsts \cap bempenb :
          ClearBemp({p}) /\ flags' = flags \cup {<<"BEMP", p>>}
  /\ UNCHANGED <<pc, request>>

Goto(from, to) == pc = from /\ pc' = to /\ UNCHANGED <<request, flags>>

Await(from, flag, to) ==
  /\ pc = from /\ flag \in flags
  /\ pc' = to
  /\ flags' = flags \ {flag}
  /\ UNCHANGED <<vars, request>>

Boot ==
  \/ Goto("boot", "boot1") /\ WriteIntenb0(Causes0)
  \/ Goto("boot1", "attach") /\ WriteIntenb1(Causes1)
  \/ Await("attach", <<"ATTCH", Ctl>>, "setup")

Words == Requests[request]

Finished ==
  /\ request' = request + 1
  /\ pc' = IF request < Len(Requests) THEN "setup" ELSE "arm"
  /\ UNCHANGED flags

\* A control read ends with BEMP, a transfer without data with BRDY.
Control ==
  \/ Goto("setup", "sack") /\ Setup(Words > 0, Words)
  \/ Await("sack", <<"SACK", Ctl>>, "enable")
  \/ Goto("enable", "ready") /\ WriteBrdyenb(brdyenb \cup {Ctl})
  \/ /\ Await("ready", <<"BRDY", Ctl>>, IF Words > 0 THEN "select" ELSE "off")
  \/ Goto("select", "read") /\ SelectPipe(Ctl)
  \/ /\ pc = "read" /\ ReadControl
     /\ pc' = IF respPos' = respLen THEN "off"
              ELSE IF respPos' % CtlPacket = 0 THEN "ready" ELSE "read"
     /\ UNCHANGED <<request, flags>>
  \/ Goto("off", IF Words > 0 THEN "status" ELSE "next") /\ WriteBrdyenb(brdyenb \ {Ctl})
  \/ Goto("status", "empty") /\ WriteBempenb(bempenb \cup {Ctl})
  \/ Await("empty", <<"BEMP", Ctl>>, "next")
  \/ pc = "next" /\ WriteBempenb(bempenb \ {Ctl}) /\ Finished

\* The main loop: arm and enable the receiving pipe, then serve whichever
\* flag is up; drain a transfer before arming again.
Receive ==
  \/ Goto("arm", "enableRx") /\ WritePipeCtr(Rx, TRUE)
  \/ Goto("enableRx", "idle") /\ WriteBrdyenb(brdyenb \cup {Rx})
  \/ Await("idle", <<"BRDY", Rx>>, "selectRx")
  \/ Goto("selectRx", "drain") /\ SelectPipe(Rx)
  \/ Goto("drain", "drain") /\ ReadBulk
  \/ Goto("drain", "rearm") /\ ~BulkSelected /\ UNCHANGED vars
  \/ Goto("rearm", "idle") /\ WritePipeCtr(Rx, TRUE)

\* A transfer out: fill the buffer, commit it, only then enable BEMP, and
\* disable it again when the transfer is over.
Transmit ==
  \/ Goto("idle", "fill") /\ written < MaxOut /\ SelectPipe(Send)
  \/ Goto("fill", "fill") /\ written < MaxOut /\ txLen < TxSize /\ WriteFifo
  \/ Goto("fill", "wait") /\ txLen > 0 /\ WriteFifoCtr(TRUE, FALSE)
  \/ Goto("wait", "sent") /\ WriteBempenb(bempenb \cup {Send})
  \/ Await("sent", <<"BEMP", Send>>, "done")
  \/ Goto("done", "idle") /\ WriteBempenb(bempenb \ {Send})

Task == Boot \/ Control \/ Receive \/ Transmit

Host ==
  /\ accepted < MaxPackets
  /\ \E n \in 1 .. CanReceive : \E k \in 0 .. Lesser(n, MaxPackets - accepted) :
       ChrReceive(n, k)
  /\ UNCHANGED fwVars

FwEvent == Event /\ UNCHANGED fwVars

FwNext == Isr \/ Task \/ Host \/ FwEvent

FwSpec == FwInit /\ [][FwNext]_allVars

\* The processor serves interrupts and runs the task; the main loop of the
\* emulator runs the bottom half.  The host owes nothing.
FwFairSpec ==
  FwSpec /\ WF_allVars(Isr) /\ WF_allVars(Task) /\ WF_allVars(FwEvent)

-----------------------------------------------------------------------------
(* Enumeration ends: no attach, acknowledge, data or status event is lost  *)
(* between the register write that causes it and the bottom half.          *)
Enumerates == <>(pc = "idle")

(* Every packet the host sends is read in the end: a backlog never stalls  *)
(* behind a firmware that drains before it arms again.                     *)
PacketsRead == \A n \in 1 .. MaxPackets : accepted >= n ~> taken >= n

(* Every packet the firmware writes reaches the host, and every transfer   *)
(* is known to be over, although it is committed before its interrupt is   *)
(* enabled (rza1l_usb.c:814-819).                                          *)
PacketsSent ==
  /\ \A n \in 1 .. MaxOut : written >= n ~> sent >= n
  /\ pc = "wait" ~> pc = "idle"

(* The interrupt line always goes down again: no storm.                    *)
InterruptsServed == irq ~> ~irq
=============================================================================
