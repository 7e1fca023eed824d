------------------------------- MODULE PicPanel -------------------------------
(***************************************************************************)
(* The panel coprocessor (src/src/hw/misc/deluge_pic.c), the DMA receive   *)
(* ring its bytes go through (peripheral_rx_push in rza1l_dmac.c) and the  *)
(* firmware at the other end.  Towards the firmware go the presses and     *)
(* releases of pads and buttons, the idle beat and the answers to          *)
(* commands; towards the coprocessor go commands without a length field,   *)
(* framed by a payload size both ends know.                                *)
(*                                                                         *)
(* A byte is a control, which stands for its index byte, or one of the     *)
(* codes below.  Decoded colours, LEDs and segments are left out: payload  *)
(* bytes are counted, not kept.                                            *)
(***************************************************************************)
EXTENDS Integers, Sequences

CONSTANTS
  Ctrl,    \* pads and buttons (input indices 0..179)
  VerByte, \* the control whose index is the firmware version byte (23)
  RxSize,  \* bytes in the receive ring
  Payload  \* payload bytes of a command that has one

Codes == {"off", "idle", "ver", "select", "deselect"}

ASSUME PanelAssumption ==
  /\ VerByte \in Ctrl
  /\ Ctrl \cap Codes = {}
  /\ RxSize \in Nat \ {0}
  /\ Payload \in Nat

VARIABLES
  held,     \* held_inputs; held_count is its size
  frame,    \* payload bytes still to come (payload_needed - payload_have)
  selected, \* oled_selected
  rxArmed,  \* the receive ring is latched in the DMAC
  unread,   \* ring bytes the firmware has not read
  pressed,  \* firmware: the controls it takes for pressed
  prefix,   \* firmware: "off" or "ver" if that was the last byte, or "none"
  sending,  \* firmware: payload bytes it has still to send
  await,    \* firmware: the echo it is blocked on, or "none"
  told,     \* firmware: the last echoed of select and deselect, or "none"
  lost,     \* history: an event was lost that no idle beat has healed yet
  missed,   \* history: bytes were lost in this wait or unhealed before it
  cut       \* history: the guest was last reset within a command's payload

picVars  == <<held, frame, selected>>
ringVars == <<rxArmed, unread>>
fwInput  == <<pressed, prefix>>
fwOutput == <<sending, await, told>>
panelVars == <<picVars, ringVars, fwInput, fwOutput, lost, missed, cut>>

\* The index byte of a pad and of a button (x is the column, y the row).
PadIndex(x, y) == 9 * y + x \div 2 + IF x % 2 = 1 THEN 72 ELSE 0
ButtonIndex(x, y) == 9 * (y + 16) + x

Bytes == Ctrl \cup Codes
Cmds  == {"plain", "framed", "version", "select", "deselect"}

PanelInit ==
  /\ held = {} /\ frame = 0 /\ selected = FALSE
  /\ rxArmed = FALSE /\ unread = <<>>
  /\ pressed = {} /\ prefix = "none"
  /\ sending = 0 /\ await = "none" /\ told = "none"
  /\ lost = FALSE /\ missed = FALSE /\ cut = FALSE

-----------------------------------------------------------------------------
(* Bytes into the ring.  There is no flow control: a push that reaches the *)
(* firmware's read position laps it, and what it then reads are the newest *)
(* bytes.  Without an armed ring the bytes are gone.                       *)
(* Definitions named Fault... are seeded faults, used by no specification. *)

\* The ring is taken to wrap one byte late.
FaultPush(bytes) ==
  LET all == unread \o bytes
      lap == IF Len(all) > RxSize THEN (Len(all) \div RxSize) * RxSize ELSE 0
      loses == IF rxArmed THEN lap > 0 ELSE bytes # <<>>
  IN  /\ unread' = IF rxArmed THEN SubSeq(all, lap + 1, Len(all)) ELSE unread
      /\ lost' = (lost \/ loses)
      /\ missed' = (loses \/ IF await = "none" THEN lost ELSE missed)

Push(bytes) ==
  LET all == unread \o bytes
      lap == (Len(all) \div RxSize) * RxSize
      loses == IF rxArmed THEN lap > 0 ELSE bytes # <<>>
  IN  /\ unread' = IF rxArmed THEN SubSeq(all, lap + 1, Len(all)) ELSE unread
      /\ lost' = (lost \/ loses)
      /\ missed' = (loses \/ IF await = "none" THEN lost ELSE missed)


ReleaseBytes(cs) ==
  [i \in 1 .. 2 * Len(cs) |-> IF i % 2 = 1 THEN "off" ELSE cs[i \div 2]]

Elems(s) == {s[i] : i \in DOMAIN s}

\* The calls of send_event one handler makes: releases, then presses.
SendEvents(ups, downs) ==
  /\ Push(ReleaseBytes(ups) \o downs)
  /\ held' = (held \ Elems(ups)) \cup Elems(downs)
  /\ UNCHANGED <<frame, selected, rxArmed, fwInput, fwOutput, cut>>

\* The beat does not look at what is held.
FaultHeartbeat ==
  /\ Push(<<"idle">>)
  /\ UNCHANGED <<picVars, rxArmed, fwInput, fwOutput, cut>>

\* The timer of the beat is made and never started.
FaultSilent ==
  /\ FALSE
  /\ UNCHANGED panelVars

\* The idle beat, suppressed while anything is held.
Heartbeat ==
  /\ held = {}
  /\ Push(<<"idle">>)
  /\ UNCHANGED <<picVars, rxArmed, fwInput, fwOutput, cut>>

-----------------------------------------------------------------------------
PayloadLen(cmd) == IF cmd = "framed" THEN Payload ELSE 0

\* The echo of deselect is forgotten.
FaultAnswer(cmd) ==
  CASE cmd = "select" -> <<cmd>>
    [] cmd = "version" -> <<"ver", VerByte>>
    [] OTHER -> <<>>

Answer(cmd) ==
  CASE cmd \in {"select", "deselect"} -> <<cmd>>
    [] cmd = "version" -> <<"ver", VerByte>>
    [] OTHER -> <<>>

\* A byte from the firmware: the next of a payload, or a command.
RxByte(b) ==
  /\ frame' = IF frame > 0 THEN frame - 1 ELSE PayloadLen(b)
  /\ selected' = IF frame = 0 /\ b \in {"select", "deselect"}
                 THEN b = "select" ELSE selected
  /\ Push(IF frame = 0 THEN Answer(b) ELSE <<>>)
  /\ UNCHANGED <<held, rxArmed, fwInput, cut>>

(* The firmware sends a byte: payload of any value, or a command.  After   *)
(* select and deselect it is blocked until it has read the echo.           *)
FwSend(b) ==
  /\ await = "none"
  /\ RxByte(b)
  /\ sending' = IF sending > 0 THEN sending - 1 ELSE PayloadLen(b)
  /\ await' = IF sending = 0 /\ b \in {"select", "deselect"} THEN b ELSE "none"
  /\ UNCHANGED told

\* The firmware starts the receive channel.
FwArm ==
  /\ ~rxArmed
  /\ rxArmed' = TRUE
  /\ UNCHANGED <<picVars, unread, fwInput, fwOutput, lost, missed, cut>>

(* The firmware reads a byte.  "ver" claims the next byte whatever it is;  *)
(* the idle beat makes it forget all presses and so heals earlier losses.  *)
FwRead ==
  LET b == Head(unread)
      asVersion == prefix = "ver"
      idle == ~asVersion /\ b = "idle"
      echo == ~asVersion /\ b = await
  IN  /\ unread # <<>>
      /\ unread' = Tail(unread)
      /\ pressed' = IF idle THEN {}
                    ELSE IF asVersion \/ b \notin Ctrl THEN pressed
                    ELSE IF prefix = "off" THEN pressed \ {b}
                    ELSE pressed \cup {b}
      /\ prefix' = IF ~asVersion /\ b \in {"off", "ver"} THEN b ELSE "none"
      /\ lost' = (lost /\ ~idle)
      /\ await' = IF echo THEN "none" ELSE await
      /\ told' = IF echo THEN b ELSE told
      /\ UNCHANGED <<picVars, rxArmed, sending, missed, cut>>

(* Machine reset: the DMAC and the firmware start again; the coprocessor   *)
(* is a character device, which no reset reaches.                          *)
GuestReset ==
  /\ rxArmed' = FALSE /\ unread' = <<>>
  /\ pressed' = {} /\ prefix' = "none"
  /\ sending' = 0 /\ await' = "none" /\ told' = "none"
  /\ lost' = (held # {}) /\ missed' = FALSE
  /\ cut' = (frame # 0)
  /\ UNCHANGED picVars

-----------------------------------------------------------------------------
(* When the firmware has read everything and nothing was lost since the    *)
(* last idle beat, it takes exactly the held controls for pressed.         *)
ViewAgrees == (unread = <<>> /\ ~lost) => pressed = held

\* The firmware's last completed select or deselect is the state of the
\* OLED's select line, unless a reset cut a command in two.
SelectAgrees ==
  (~cut /\ await = "none" /\ told # "none") => selected = (told = "select")

(* That holds, and the firmware is not blocked for ever waiting for the    *)
(* echo of a select or deselect, unless bytes were lost besides.           *)
HandshakeEnds ==
  /\ []SelectAgrees
  /\ await # "none" ~> (await = "none" \/ missed \/ cut)

(* Whatever the ring lost, the firmware lets go of everything again when   *)
(* nothing is held any more.  (A firmware that for ever asks for answers   *)
(* without reading them may lap every idle beat.)                          *)
Heals ==
  (<>[](held = {}) /\ <>[][\A b \in Cmds : ~FwSend(b)]_panelVars)
     => []<>(pressed = {})
=============================================================================
