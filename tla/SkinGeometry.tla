---------------------------- MODULE SkinGeometry ----------------------------
(***************************************************************************)
(* Where the overlays of the composited panel lie and which of them a set  *)
(* of rectangles repaints completely (src/src/hw/display/deluge_skin.c,    *)
(* with the layout of deluge_skin_layout.h and deluge_skin_controls.h).    *)
(*                                                                         *)
(* Pixels are left out: an overlay is the set of boxes its drawing         *)
(* primitives may touch.  A box is half open, [x0, x1) by [y0, y1), in the *)
(* pixels of the photograph; the window may be smaller, and then each of   *)
(* its pixels averages a block of the photograph.                          *)
(***************************************************************************)
EXTENDS Integers

CONSTANT ScalePercent   \* the property "scale-percent", as given

ASSUME ScaleAssumption == ScalePercent \in Nat

Clamp(v, lo, hi) == IF v < lo THEN lo ELSE IF v > hi THEN hi ELSE v

ImageWidth == 2256
ImageHeight == 1584

scale_percent == Clamp(ScalePercent, 10, 100)
out_w == (ImageWidth * scale_percent) \div 100
out_h == (ImageHeight * scale_percent) \div 100

Rect(a, b, c, d) == [x0 |-> a, y0 |-> b, x1 |-> c, y1 |-> d]

\* The pixels a disc or a filled square of this half size may touch.
Around(cx, cy, half) == Rect(cx - half, cy - half, cx + half + 1, cy + half + 1)

FullRect == Rect(0, 0, ImageWidth, ImageHeight)

-----------------------------------------------------------------------------
(* The overlays, the digest that watches each, and what each draws on.     *)

Piece == {"oled", "main", "side", "synced", "upperKnob", "lowerKnob",
          "leds", "level"}

Group == {"oled", "pad", "dyn", "misc"}

GroupOf == [p \in Piece |->
              CASE p = "oled" -> "oled"
                [] p \in {"main", "side"} -> "pad"
                [] p \in {"synced", "upperKnob", "lowerKnob"} -> "dyn"
                [] p \in {"leds", "level"} -> "misc"]

OledRect == Rect(1171, 268, 1171 + 256, 268 + 96)

PadHalf == 78 \div 2

\* The pads of columns cx0, cx0 + 119, ..., cx1 over the eight rows.
PadColumns(cx0, cx1, half) ==
  Rect(cx0 - half, 632 - half, cx1 + half, 632 + 7 * 119 + half)

MainPads(half) == PadColumns(98, 98 + 15 * 119, half)
SidePads(half) == PadColumns(2073, 2073 + 119, half)

KnobBottom == [upperKnob |-> 251, lowerKnob |-> 523]
KnobColumn == [upperKnob |-> 671, lowerKnob |-> 446]

LedCentres ==
  {<<321, 332>>, <<412, 332>>, <<503, 332>>, <<593, 332>>,
   <<684, 332>>, <<775, 332>>, <<865, 332>>, <<956, 332>>,
   <<684, 468>>, <<865, 424>>, <<865, 515>>, <<1045, 516>>,
   <<1187, 424>>, <<1268, 424>>, <<1350, 424>>, <<1432, 424>>,
   <<1205, 515>>, <<1350, 515>>, <<1529, 241>>, <<1529, 332>>,
   <<1529, 424>>, <<1529, 515>>, <<1812, 332>>, <<1812, 424>>,
   <<1812, 515>>, <<2072, 332>>, <<2072, 424>>, <<2072, 515>>}

KnobBoxes(k) ==
  {Around(KnobColumn[k], KnobBottom[k] - 37 * led, 9) : led \in 0 .. 3}

MeterBoxes ==
  {Around(2073 - (15 * 9) \div 2 + 9 * seg, 195 + 62 + 16, 3) : seg \in 0 .. 15}

Boxes == [p \in Piece |->
            CASE p = "oled" -> {OledRect}
              [] p = "main" -> {MainPads(PadHalf)}
              [] p = "side" -> {SidePads(PadHalf)}
              [] p = "synced" -> {Around(1911, 242, 7)}
              [] p \in {"upperKnob", "lowerKnob"} -> KnobBoxes(p)
              [] p = "leds" -> {Around(c[1], c[2], 24) : c \in LedCentres}
              [] p = "level" -> MeterBoxes]

-----------------------------------------------------------------------------
(* The rectangles of a partial refresh.                                    *)

Margin == 2

KnobRect(k) ==
  Rect(KnobColumn[k] - 9 - Margin, KnobBottom[k] - 3 * 37 - 9 - Margin,
       KnobColumn[k] + 9 + Margin, KnobBottom[k] + 9 + Margin)

SyncedRect ==
  Rect(1911 - 7 - Margin, 242 - 7 - Margin, 1911 + 7 + Margin, 242 + 7 + Margin)

GroupRects == [g \in Group |->
                 CASE g = "oled" -> {OledRect}
                   [] g = "pad"  -> {MainPads(PadHalf + 1), SidePads(PadHalf + 1)}
                   [] g = "dyn"  -> {SyncedRect, KnobRect("upperKnob"),
                                     KnobRect("lowerKnob")}
                   [] g = "misc" -> {FullRect}]

-----------------------------------------------------------------------------
(* Painting one rectangle: clamp, composite, map to the window, average.   *)

Clamped(r) == Rect(IF r.x0 < 0 THEN 0 ELSE r.x0, IF r.y0 < 0 THEN 0 ELSE r.y0,
                   IF r.x1 > ImageWidth THEN ImageWidth ELSE r.x1,
                   IF r.y1 > ImageHeight THEN ImageHeight ELSE r.y1)

MapLow(n, native, out) == Clamp((n * out) \div native, 0, out)

\* Fault for the runs: the upper edge of a rectangle is rounded down.
FaultMapHigh(n, native, out) == Clamp((n * out) \div native, 0, out)

MapHigh(n, native, out) == Clamp((n * out + native - 1) \div native, 0, out)

deluge_skin_map_rect(r) ==
  Rect(MapLow(r.x0, ImageWidth, out_w), MapLow(r.y0, ImageHeight, out_h),
       MapHigh(r.x1, ImageWidth, out_w), MapHigh(r.y1, ImageHeight, out_h))

\* The columns (or rows) of the photograph that one of the window averages.
BlockLow(o, native, out) == (o * native) \div out
BlockHigh(o, native, out) ==
  LET hi == ((o + 1) * native) \div out
  IN  IF hi <= BlockLow(o, native, out) THEN BlockLow(o, native, out) + 1 ELSE hi

\* Every column of the window that averages some of [a, b) is in [lo, hi).
Resampled(a, b, lo, hi, native, out) ==
  \A o \in 0 .. out - 1 :
     BlockLow(o, native, out) < b /\ a < BlockHigh(o, native, out)
       => lo <= o /\ o < hi

Within(b, r) == r.x0 <= b.x0 /\ b.x1 <= r.x1 /\ r.y0 <= b.y0 /\ b.y1 <= r.y1
Hits(b, r) == b.x1 > r.x0 /\ b.x0 < r.x1 /\ b.y1 > r.y0 /\ b.y0 < r.y1

\* Painting rectangle r leaves all of box b as the sources say, in the window too.
Repaints(r, b) ==
  LET c == Clamped(r)
      o == deluge_skin_map_rect(c)
  IN  /\ Within(b, c)
      /\ Resampled(b.x0, b.x1, o.x0, o.x1, ImageWidth, out_w)
      /\ Resampled(b.y0, b.y1, o.y0, o.y1, ImageHeight, out_h)

\* The overlays that painting the rectangles of a group repaints, and touches.
Repainted == [g \in Group |->
                {p \in Piece : \A b \in Boxes[p] :
                   \E r \in GroupRects[g] : Repaints(r, b)}]
Touched == [g \in Group |->
              {p \in Piece : \E b \in Boxes[p] :
                 \E r \in GroupRects[g] : Hits(b, Clamped(r))}]
=============================================================================
