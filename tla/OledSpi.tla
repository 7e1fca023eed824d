------------------------------ MODULE OledSpi ------------------------------
(***************************************************************************)
(* The SPI channel (src/src/hw/ssi/rza1l_rspi.c) between the firmware's    *)
(* transfer queue and two devices: the OLED, fed by DMA and selected by    *)
(* the coprocessor, and a converter for control voltages, whose words are  *)
(* acknowledged by the receive interrupt.                                  *)
(*                                                                         *)
(* External: the firmware, as the comments of the two files and HW.md      *)
(* describe it.  It sets the panel up with commands written one by one,    *)
(* in any of its addressing modes, and then serves a queue of frames and   *)
(* words, each of which goes on from the interrupt that ends it.  What it  *)
(* does for one transfer is a list of register accesses and coprocessor    *)
(* commands, carried out one at a time.  The echo it awaits after a select *)
(* is PicPanel's.  The machine's reset also resets the interrupt           *)
(* controller, and with it what it has latched.                            *)
(***************************************************************************)
EXTENDS OledPanel

CONSTANTS
  Styles,        \* how the firmware sets the panel up
  Words,         \* low bytes of the converter's words
  MaxQueue       \* bound: transfers queued

VARIABLES
  oled,          \* DelugeOledState
  SPRIE, line,   \* SPCR.SPRIE; the receive interrupt's line
  ended,         \* end-of-transfer interrupt of the OLED's DMA channel, latched
  style,         \* firmware: its style,
  under,         \* the transfer under way,
  todo,          \* the accesses it still has to make for it,
  queue,         \* the transfers after it,
  turn, frame,   \* parity of transfers finished, of frames begun,
  last           \* the last frame, if it is sent in full

driver == <<style, under, todo, queue, turn, frame, last>>
vars == <<oled, SPRIE, line, ended, driver>>

\* A style: addressing mode, the first page shown, the order of the
\* commands, the argument of one of them that shows nothing.
Style ==
  [mode : {HORIZONTAL, VERTICAL, PAGE}, first : 0 .. Pages - Rows,
   order : {o \in [1 .. 4 -> 1 .. 4] : \A p \in 1 .. 4 : \E i \in 1 .. 4 : o[i] = p},
   contrast : 0 .. 255]

SpiAssumption ==
  /\ Styles \subseteq Style /\ Words \subseteq 0 .. 255 /\ MaxQueue \in Nat \ {0}

-----------------------------------------------------------------------------
(* The firmware's accesses.                                                *)

Access(op, arg) == [op |-> op, arg |-> arg]
Spi(bytes) == [i \in 1 .. Len(bytes) |-> Access("spi", bytes[i])]
Op(op) == <<Access(op, 0)>>

\* The panel's part of the set-up: four commands, in the order of the style.
Part(s, p) ==
  <<<<32, s.mode>>, <<33, 0, Cols - 1>>,
    <<34, s.first, s.first + Rows - 1>>, <<129, s.contrast>>>>[p]
Setting(s) ==
  Part(s, s.order[1]) \o Part(s, s.order[2]) \o Part(s, s.order[3]) \o Part(s, s.order[4])

Boot(s) ==
  Op("enable") \o Op("low") \o Op("select") \o Spi(Setting(s) \o <<175>>)
    \o Op("high") \o Op("deselect")

\* The cells of a frame, numbered from 0 in the order they are sent.
Cell(f, i) == <<f, i>>
NoFrame == -1
Burst(f, from, n) == <<Access("dma", [i \in 1 .. n |-> Cell(f, from + i - 1)])>>

\* In page mode the pointer is set for each page: six accesses to a page.
PageBurst(s, f, r) ==
  Op("low") \o Spi(<<176 + s.first + r, 0, 16>>) \o Op("high") \o Burst(f, r * Cols, Cols)

Frame(s, f) ==
  Op("select")
    \o (IF s.mode = PAGE
        THEN [i \in 1 .. 6 * Rows |-> PageBurst(s, f, (i - 1) \div 6)[((i - 1) % 6) + 1]]
        ELSE Burst(f, 0, Rows * Cols))
    \o Op("deselect")

Word(w) == Op("arm") \o <<Access("word", w)>>

-----------------------------------------------------------------------------
\* Fault for the runs: the line is raised only by a write that enables the
\* interrupt and sends the word at once.
FaultRaise(data, control, enabled) ==
  IF data /\ control /\ enabled THEN TRUE ELSE line /\ ~(control /\ ~enabled)

\* The line after a write of SPDR (data) or SPCR (control).
LineAfter(data, control, enabled) ==
  IF data /\ enabled THEN TRUE
  ELSE IF control /\ ~enabled THEN FALSE
  ELSE line

rza1l_rspi_write(data, control, enabled) ==
  /\ SPRIE' = enabled
  /\ line' = LineAfter(data, control, enabled)

\* The coprocessor's commands for the panel's lines (deluge_pic_dispatch).
Pin(op) ==
  IF op = "enable" THEN [oled EXCEPT !.enabled = TRUE]
  ELSE IF op \in {"select", "deselect"} THEN [oled EXCEPT !.selected = (op = "select")]
  ELSE [oled EXCEPT !.dc_high = (op = "high")]

Init ==
  /\ oled = deluge_oled_reset /\ SPRIE = FALSE /\ line = FALSE /\ ended = FALSE
  /\ style \in Styles /\ under = "boot" /\ todo = Boot(style)
  /\ queue = <<>> /\ turn = 0 /\ frame = 0 /\ last = NoFrame

-----------------------------------------------------------------------------
(* One access of the firmware.  A burst is followed by its interrupt.      *)

Command(a) ==
  /\ a.op \in {"enable", "select", "deselect", "low", "high"}
  /\ oled' = Pin(a.op)
  /\ UNCHANGED <<SPRIE, line, ended>>

ArmInterrupt(a) ==
  /\ a.op = "arm"
  /\ rza1l_rspi_write(FALSE, TRUE, TRUE)
  /\ UNCHANGED <<oled, ended>>

\* A command byte, or the low byte of a word.
WriteData(a) ==
  /\ a.op \in {"spi", "word"}
  /\ oled' = deluge_oled_spi_byte(oled, a.arg)
  /\ rza1l_rspi_write(TRUE, FALSE, SPRIE)
  /\ UNCHANGED ended

\* A burst: each byte is a write of SPDR, all inside the write of SETEN.
SendBurst(a) ==
  /\ a.op = "dma"
  /\ oled' \in deluge_oled_spi_bytes({oled}, a.arg)
  /\ rza1l_rspi_write(TRUE, FALSE, SPRIE)
  /\ ended' = TRUE

Drive ==
  /\ todo # <<>> /\ ~ended
  /\ LET a == Head(todo)
     IN  Command(a) \/ ArmInterrupt(a) \/ WriteData(a) \/ SendBurst(a)
  /\ todo' = Tail(todo)
  /\ UNCHANGED <<style, under, queue, turn, frame, last>>

\* oledTransferComplete: the firmware goes on with the frame.
FrameInterrupt ==
  /\ ended
  /\ ended' = FALSE
  /\ UNCHANGED <<oled, SPRIE, line, driver>>

\* cvSPITransferComplete: SPRIE is cleared on entry, and the transfer is over.
WordInterrupt ==
  /\ line
  /\ rza1l_rspi_write(FALSE, TRUE, FALSE)
  /\ under' = "none" /\ todo' = <<>> /\ turn' = 1 - turn
  /\ UNCHANGED <<oled, ended, style, queue, frame, last>>

\* The panel is set up, or its frame is sent and it is no longer selected.
Finish ==
  /\ todo = <<>> /\ ~ended /\ under \in {"boot", "frame"}
  /\ under' = "none"
  /\ turn' = IF under = "frame" THEN 1 - turn ELSE turn
  /\ last' = IF under = "frame" THEN frame ELSE last
  /\ UNCHANGED <<oled, SPRIE, line, ended, style, todo, queue, frame>>

StartWord ==
  /\ Head(queue) = "word"
  /\ \E w \in Words : todo' = Word(w)
  /\ UNCHANGED <<frame, last>>

StartFrame ==
  /\ Head(queue) = "frame"
  /\ frame' = 1 - frame /\ last' = NoFrame
  /\ todo' = Frame(style, 1 - frame)

Start ==
  /\ under = "none" /\ queue # <<>>
  /\ under' = Head(queue) /\ queue' = Tail(queue)
  /\ StartWord \/ StartFrame
  /\ UNCHANGED <<oled, SPRIE, line, ended, style, turn>>

Enqueue(kind) ==
  /\ Len(queue) < MaxQueue
  /\ queue' = Append(queue, kind)
  /\ UNCHANGED <<oled, SPRIE, line, ended, style, under, todo, turn, frame, last>>

\* The machine's reset; the firmware starts anew.
Reset ==
  /\ oled' = ResetPanel(oled) /\ SPRIE' = FALSE /\ line' = FALSE /\ ended' = FALSE
  /\ under' = "boot" /\ todo' = Boot(style) /\ UNCHANGED style
  /\ queue' = <<>> /\ turn' = 0 /\ frame' = 0 /\ last' = NoFrame

Serve == Drive \/ FrameInterrupt \/ WordInterrupt \/ Finish \/ Start

Next == Serve \/ (\E kind \in {"word", "frame"} : Enqueue(kind)) \/ Reset

\* The processor runs and takes its interrupts; nothing obliges it to queue.
Spec == Init /\ [][Next]_vars /\ WF_vars(Serve)

-----------------------------------------------------------------------------
\* Where the byte for page r and column c of the picture is in a frame.
Position(r, c) == IF style.mode = VERTICAL THEN c * Rows + r ELSE r * Cols + c

\* Once a frame is sent the panel shows it, byte for byte, in whichever
\* addressing mode and window it was set up, after any frames and words, and
\* after a reset in the middle of a command: deluge_oled_write_data's pointer
\* is back where the next frame starts.
PictureIsFrame ==
  last # NoFrame =>
    \A r \in 0 .. Rows - 1, c \in 0 .. Cols - 1 :
      Shown(oled, r, c) = Cell(last, Position(r, c))

\* The queue does not stall: the transfer under way, or first in the queue,
\* is finished.  "Without it the queue stalls after the first CV transfer"
\* (src/src/hw/arm/rza1l_soc.c:414-415).
Pending == queue # <<>> \/ under \in {"word", "frame"}
QueueServed == \A b \in {0, 1} : (Pending /\ turn = b) ~> (turn # b \/ ~Pending)
=============================================================================
