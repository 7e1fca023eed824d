----------------------------- MODULE OledPanel -----------------------------
(***************************************************************************)
(* The display controller of the OLED (src/src/hw/display/deluge_oled.c):  *)
(* the decoder of its command and data stream, as operators on its state.  *)
(* A pixel byte is abstracted to whatever identifies it; a row of the      *)
(* picture is a page of eight rows of pixels.  Inversion is left out.      *)
(***************************************************************************)
EXTENDS Integers, Sequences

CONSTANTS
  Pages, Cols,   \* DELUGE_OLED_PAGES (8) and DELUGE_OLED_COLS (128)
  Rows,          \* pages the panel shows: DELUGE_OLED_HEIGHT / 8
  Nibble,        \* 16 in the code: columns set by the lower-nibble command
  Blank          \* a cleared byte

\* There are eight commands that set the page.
OledAssumption ==
  /\ Pages \in {1, 2, 4, 8} /\ Cols \in Nat \ {0} /\ Nibble \in Nat \ {0}
  /\ Rows \in 1 .. Pages

\* addr_mode.
HORIZONTAL == 0
VERTICAL == 1
PAGE == 2

deluge_oled_reset ==
  [gddram |-> [p \in 0 .. Pages - 1 |-> [c \in 0 .. Cols - 1 |-> Blank]],
   addr_mode |-> HORIZONTAL,
   col_start |-> 0, col_end |-> Cols - 1, page_start |-> 0, page_end |-> Pages - 1,
   cur_col |-> 0, cur_page |-> 0, display_on |-> FALSE,
   cmd |-> 0, need |-> 0, args |-> <<>>,
   dc_high |-> FALSE, selected |-> FALSE, enabled |-> FALSE]

\* Fault for the runs: the arguments awaited survive a reset.
FaultResetPanel(o) == [deluge_oled_reset EXCEPT !.cmd = o.cmd, !.need = o.need, !.args = o.args]

ResetPanel(o) == deluge_oled_reset

-----------------------------------------------------------------------------
NextCol(o) == IF o.cur_col >= o.col_end THEN o.col_start ELSE o.cur_col + 1
NextPage(o) == IF o.cur_page >= o.page_end THEN o.page_start ELSE o.cur_page + 1

\* The pointer moves on after a byte of data.
Advance(o) ==
  IF o.addr_mode = VERTICAL
  THEN [o EXCEPT !.cur_page = NextPage(o),
                 !.cur_col = IF o.cur_page >= o.page_end THEN NextCol(o) ELSE @]
  ELSE [o EXCEPT !.cur_col = NextCol(o),
                 !.cur_page = IF o.addr_mode # PAGE /\ o.cur_col >= o.col_end
                              THEN NextPage(o) ELSE @]

deluge_oled_write_data(o, b) ==
  Advance(IF o.cur_page < Pages /\ o.cur_col < Cols
          THEN [o EXCEPT !.gddram[o.cur_page][o.cur_col] = b] ELSE o)

\* A command whose arguments are complete.
deluge_oled_run_command(o, args) ==
  IF o.cmd = 32 THEN [o EXCEPT !.addr_mode = args[1] % 4]
  ELSE IF o.cmd = 33
  THEN [o EXCEPT !.col_start = args[1] % Cols, !.col_end = args[2] % Cols,
                 !.cur_col = args[1] % Cols]
  ELSE IF o.cmd = 34
  THEN [o EXCEPT !.page_start = args[1] % Pages, !.page_end = args[2] % Pages,
                 !.cur_page = args[1] % Pages]
  ELSE o

\* 0x20 mode, 0x81 contrast, 0xa8, 0xd3, 0xda, 0xd5, 0xd9, 0xdb, 0xfd: one
\* argument; 0x21 and 0x22, the windows: two.
Arguments(b) ==
  IF b \in {32, 129, 168, 211, 218, 213, 217, 219, 253} THEN 1
  ELSE IF b \in {33, 34} THEN 2 ELSE 0

deluge_oled_write_command(o, b) ==
  IF o.need > 0
  THEN LET args == Append(o.args, b)
       IN  IF Len(args) < o.need THEN [o EXCEPT !.args = args]
           ELSE [deluge_oled_run_command(o, args) EXCEPT !.need = 0, !.args = <<>>]
  ELSE IF b <= 15 THEN [o EXCEPT !.cur_col = @ - (@ % Nibble) + b]
  ELSE IF b \in 16 .. 31 THEN [o EXCEPT !.cur_col = (@ % Nibble) + (b - 16) * Nibble]
  ELSE IF b \in 176 .. 183 THEN [o EXCEPT !.cur_page = b % Pages]
  ELSE IF Arguments(b) > 0 THEN [o EXCEPT !.cmd = b, !.need = Arguments(b), !.args = <<>>]
  ELSE IF b \in {174, 175} THEN [o EXCEPT !.display_on = (b = 175)]
  ELSE o

\* While the panel is not selected the bus carries the words of another device.
deluge_oled_spi_byte(o, b) ==
  IF ~o.selected THEN o
  ELSE IF o.dc_high THEN deluge_oled_write_data(o, b)
  ELSE deluge_oled_write_command(o, b)

\* A burst of bytes, for panels in any of these states.
deluge_oled_spi_bytes(S, bytes) ==
  LET after[n \in 0 .. Len(bytes)] ==
        IF n = 0 THEN S ELSE {deluge_oled_spi_byte(o, bytes[n]) : o \in after[n - 1]}
  IN  after[Len(bytes)]

\* What the skin draws of row r of the panel (deluge_skin_draw_oled): the
\* byte, or Blank for a dark one.
Shown(o, r, c) ==
  IF o.display_on /\ o.enabled /\ o.page_start + r < Pages
  THEN o.gddram[o.page_start + r][c] ELSE Blank
=============================================================================
