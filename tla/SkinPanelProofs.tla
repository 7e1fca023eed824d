--------------------------- MODULE SkinPanelProofs ---------------------------
(***************************************************************************)
(* Proofs about the refresh of the composited panel, for every window      *)
(* scale, every digest and every set of contents.  The geometry comes      *)
(* first: the window block of a box is mapped outward, so a rectangle that *)
(* holds a box repaints it at any scale; every overlay lies in the         *)
(* rectangles of its own group and apart from those of the others.  Then   *)
(* the digests kept are those of the picture on the window.                *)
(***************************************************************************)
EXTENDS SkinPanel, TLAPS

\* The quotient of naturals, by its two bounds.
LEMMA DivLow ==
  ASSUME NEW n \in Nat, NEW d \in Nat \ {0}
  PROVE  /\ n \div d \in Nat
         /\ d * (n \div d) <= n
         /\ n < d * (n \div d) + d
<1>1. n \div d \in Int /\ d * (n \div d) <= n /\ n < d * (n \div d) + d
  BY SMTT(30)
<1>2. ASSUME n \div d < 0 PROVE FALSE
  <2>1. d * (n \div d + 1) <= 0
    BY <1>1, <1>2, SMTT(30)
  <2>2. d * (n \div d + 1) = d * (n \div d) + d
    BY <1>1, SMTT(30)
  <2> QED BY <1>1, <2>1, <2>2
<1> QED BY <1>1, <1>2

\* The window is never empty and never larger than the photograph.
LEMMA Scaled == /\ out_w \in 1 .. ImageWidth /\ out_h \in 1 .. ImageHeight
<1> DEFINE s == scale_percent
<1>1. s \in 10 .. 100
  BY ScaleAssumption DEF scale_percent, Clamp
<1> HIDE DEF s
<1>2. (2256 * s) \div 100 \in 1 .. 2256
  BY <1>1, SMTT(30)
<1>3. (1584 * s) \div 100 \in 1 .. 1584
  BY <1>1, SMTT(30)
<1>4. out_w \in 1 .. ImageWidth
  BY <1>1, <1>2 DEF s, out_w, ImageWidth
<1>5. out_h \in 1 .. ImageHeight
  BY <1>1, <1>3 DEF s, out_h, ImageHeight
<1> QED BY <1>4, <1>5

\* deluge_skin_map_rect rounds outward far enough: each window column whose
\* averaged block meets [a, b) lies between the mapped ends of [lo, hi).
LEMMA Resampling ==
  ASSUME NEW native \in Nat \ {0}, NEW out \in 1 .. native,
         NEW a \in 0 .. native, NEW b \in 0 .. native,
         NEW lo \in 0 .. native, NEW hi \in 0 .. native,
         lo <= a, b <= hi
  PROVE  Resampled(a, b, MapLow(lo, native, out), MapHigh(hi, native, out), native, out)
<1> SUFFICES ASSUME NEW o \in 0 .. out - 1,
                    BlockLow(o, native, out) < b, a < BlockHigh(o, native, out)
             PROVE  /\ MapLow(lo, native, out) <= o
                    /\ o < MapHigh(hi, native, out)
  BY DEF Resampled
<1>1. /\ BlockLow(o, native, out) \in Nat
      /\ o * native < out * BlockLow(o, native, out) + out
  <2>1. o * native \in Nat
    OBVIOUS
  <2> QED BY <2>1, DivLow DEF BlockLow
<1>2. out * BlockHigh(o, native, out) <= (o + 1) * native
  <2>1. (o + 1) * native \in Nat /\ o * native \in Nat
    OBVIOUS
  <2> DEFINE h == ((o + 1) * native) \div out
  <2>2. h \in Nat /\ out * h <= (o + 1) * native
    BY <2>1, DivLow
  <2>3. CASE h > BlockLow(o, native, out)
    <3>1. BlockHigh(o, native, out) = h
      BY <2>3, <1>1, <2>2 DEF BlockHigh
    <3> QED BY <2>2, <3>1
  <2>4. CASE h <= BlockLow(o, native, out)
    <3>1. BlockHigh(o, native, out) = BlockLow(o, native, out) + 1
      BY <2>4 DEF BlockHigh
    <3>2. out * BlockLow(o, native, out) <= o * native
      BY <2>1, DivLow DEF BlockLow
    <3>3. out * (BlockLow(o, native, out) + 1) = out * BlockLow(o, native, out) + out
      BY <1>1
    <3>4. (o + 1) * native = o * native + native
      OBVIOUS
    <3> QED BY <3>1, <3>2, <3>3, <3>4, <1>1, <2>1
  <2> QED BY <2>2, <2>3, <2>4, <1>1
<1>3. BlockHigh(o, native, out) \in Nat
  <2>1. (o + 1) * native \in Nat
    OBVIOUS
  <2> QED BY <2>1, <1>1, DivLow DEF BlockHigh
<1>4. MapLow(lo, native, out) <= o
  <2> DEFINE q == (lo * out) \div native
  <2>1. q \in Nat /\ native * q <= lo * out
    <3>1. lo * out \in Nat
      OBVIOUS
    <3> QED BY <3>1, DivLow
  <2> HIDE DEF q
  <2>2. out * (lo + 1) <= out * BlockHigh(o, native, out)
    <3>1. lo + 1 <= BlockHigh(o, native, out)
      BY <1>3
    <3> QED BY <3>1, <1>3
  <2>3. out * (lo + 1) = lo * out + out
    OBVIOUS
  <2>4. lo * out < (o + 1) * native
    <3>1. lo * out \in Nat /\ (o + 1) * native \in Nat /\ out * BlockHigh(o, native, out) \in Nat
      BY <1>3
    <3> QED BY <2>2, <2>3, <1>2, <3>1
  <2>5. native * q < (o + 1) * native
    BY <2>1, <2>4
  <2>6. q < o + 1
    <3>1. CASE q >= o + 1
      <4>1. native * q >= native * (o + 1)
        BY <3>1, <2>1
      <4> QED BY <4>1, <2>5, <2>1
    <3> QED BY <3>1, <2>1
  <2> QED BY <2>1, <2>6 DEF MapLow, Clamp, q
<1>5. o < MapHigh(hi, native, out)
  <2> DEFINE q == (hi * out + native - 1) \div native
  <2>1. q \in Nat /\ hi * out + native - 1 < native * q + native
    <3>1. hi * out + native - 1 \in Nat
      <4>1. hi * out \in Nat
        OBVIOUS
      <4> QED BY <4>1
    <3> QED BY <3>1, DivLow
  <2> HIDE DEF q
  <2>2. out * (BlockLow(o, native, out) + 1) <= out * hi
    <3>1. BlockLow(o, native, out) + 1 <= hi
      BY <1>1
    <3> QED BY <3>1, <1>1
  <2>3. out * (BlockLow(o, native, out) + 1) = out * BlockLow(o, native, out) + out
    BY <1>1
  <2>4. o * native < hi * out
    <3>1. out * hi = hi * out /\ hi * out \in Nat /\ o * native \in Nat
          /\ out * BlockLow(o, native, out) \in Nat
      BY <1>1
    <3> QED BY <2>2, <2>3, <1>1, <3>1
  <2>5. o * native < native * q
    <3>1. hi * out \in Nat /\ o * native \in Nat /\ native * q \in Nat
      BY <2>1
    <3> QED BY <3>1, <2>1, <2>4
  <2>6. o < q
    <3>1. CASE q <= o
      <4>1. native * q <= native * o
        BY <3>1, <2>1
      <4> QED BY <4>1, <2>5, <2>1
    <3> QED BY <3>1, <2>1
  <2> QED BY <2>1, <2>6 DEF MapHigh, Clamp, q
<1> QED BY <1>4, <1>5

-----------------------------------------------------------------------------

\* Rectangle r lies in the photograph and holds box b.
Fits(b, r) ==
  /\ b.x0 \in Int /\ b.y0 \in Int /\ b.x1 \in Int /\ b.y1 \in Int
  /\ r.x0 \in Int /\ r.y0 \in Int /\ r.x1 \in Int /\ r.y1 \in Int
  /\ 0 <= r.x0 /\ r.x0 <= b.x0 /\ b.x0 <= b.x1 /\ b.x1 <= r.x1 /\ r.x1 <= ImageWidth
  /\ 0 <= r.y0 /\ r.y0 <= b.y0 /\ b.y0 <= b.y1 /\ b.y1 <= r.y1 /\ r.y1 <= ImageHeight

\* The ends of a nested pair of intervals lie in the outer range.
LEMMA Nested ==
  ASSUME NEW lo \in Int, NEW a \in Int, NEW b \in Int, NEW hi \in Int, NEW n \in Nat,
         0 <= lo, lo <= a, a <= b, b <= hi, hi <= n
  PROVE  lo \in 0 .. n /\ a \in 0 .. n /\ b \in 0 .. n /\ hi \in 0 .. n
  OBVIOUS

\* Painting a rectangle inside the photograph repaints every box in it, in
\* the window too.
LEMMA FitsRepaints ==
  ASSUME NEW b, NEW r, Fits(b, r)
  PROVE  Repaints(r, b)
<1> DEFINE c == Clamped(r)
<1>1. c.x0 = r.x0 /\ c.y0 = r.y0 /\ c.x1 = r.x1 /\ c.y1 = r.y1
  BY DEF Clamped, Rect, Fits, ImageWidth, ImageHeight
<1> HIDE DEF c
<1>2. Within(b, c)
  BY <1>1 DEF Fits, Within
<1>3. /\ b.x0 \in 0 .. ImageWidth /\ b.x1 \in 0 .. ImageWidth
      /\ b.y0 \in 0 .. ImageHeight /\ b.y1 \in 0 .. ImageHeight
      /\ c.x0 \in 0 .. ImageWidth /\ c.x1 \in 0 .. ImageWidth
      /\ c.y0 \in 0 .. ImageHeight /\ c.y1 \in 0 .. ImageHeight
      /\ c.x0 <= b.x0 /\ b.x1 <= c.x1 /\ c.y0 <= b.y0 /\ b.y1 <= c.y1
  <2>1. /\ b.x0 \in Int /\ b.x1 \in Int /\ b.y0 \in Int /\ b.y1 \in Int
        /\ c.x0 \in Int /\ c.x1 \in Int /\ c.y0 \in Int /\ c.y1 \in Int
        /\ 0 <= c.x0 /\ c.x0 <= b.x0 /\ b.x0 <= b.x1 /\ b.x1 <= c.x1 /\ c.x1 <= ImageWidth
        /\ 0 <= c.y0 /\ c.y0 <= b.y0 /\ b.y0 <= b.y1 /\ b.y1 <= c.y1 /\ c.y1 <= ImageHeight
        /\ ImageWidth \in Nat /\ ImageHeight \in Nat
    BY <1>1 DEF Fits, ImageWidth, ImageHeight
  <2> QED BY <2>1, Nested
<1>4. ImageWidth \in Nat \ {0} /\ ImageHeight \in Nat \ {0}
  BY DEF ImageWidth, ImageHeight
<1>5. Resampled(b.x0, b.x1, MapLow(c.x0, ImageWidth, out_w),
                MapHigh(c.x1, ImageWidth, out_w), ImageWidth, out_w)
  BY <1>3, <1>4, Scaled, Resampling
<1>6. Resampled(b.y0, b.y1, MapLow(c.y0, ImageHeight, out_h),
                MapHigh(c.y1, ImageHeight, out_h), ImageHeight, out_h)
  BY <1>3, <1>4, Scaled, Resampling
<1>7. /\ deluge_skin_map_rect(c).x0 = MapLow(c.x0, ImageWidth, out_w)
      /\ deluge_skin_map_rect(c).y0 = MapLow(c.y0, ImageHeight, out_h)
      /\ deluge_skin_map_rect(c).x1 = MapHigh(c.x1, ImageWidth, out_w)
      /\ deluge_skin_map_rect(c).y1 = MapHigh(c.y1, ImageHeight, out_h)
  BY DEF Rect, deluge_skin_map_rect
<1> QED BY <1>2, <1>5, <1>6, <1>7 DEF Repaints, c

\* The two quotients of the layout.
LEMMA Numbers ==
  /\ PadHalf = 39 /\ (15 * 9) \div 2 = 67
  BY DEF PadHalf

\* The boxes and rectangles of each overlay and group, one by one.
LEMMA Layout ==
  /\ Boxes["oled"] = {OledRect}
  /\ Boxes["main"] = {MainPads(PadHalf)}
  /\ Boxes["side"] = {SidePads(PadHalf)}
  /\ Boxes["synced"] = {Around(1911, 242, 7)}
  /\ Boxes["upperKnob"] = KnobBoxes("upperKnob")
  /\ Boxes["lowerKnob"] = KnobBoxes("lowerKnob")
  /\ Boxes["leds"] = {Around(c[1], c[2], 24) : c \in LedCentres}
  /\ Boxes["level"] = MeterBoxes
  /\ GroupRects["oled"] = {OledRect}
  /\ GroupRects["pad"] = {MainPads(PadHalf + 1), SidePads(PadHalf + 1)}
  /\ GroupRects["dyn"] = {SyncedRect, KnobRect("upperKnob"), KnobRect("lowerKnob")}
  /\ GroupRects["misc"] = {FullRect}
  /\ GroupOf["oled"] = "oled" /\ GroupOf["main"] = "pad" /\ GroupOf["side"] = "pad"
  /\ GroupOf["synced"] = "dyn" /\ GroupOf["upperKnob"] = "dyn"
  /\ GroupOf["lowerKnob"] = "dyn" /\ GroupOf["leds"] = "misc"
  /\ GroupOf["level"] = "misc"
<1>1. /\ Boxes["oled"] = {OledRect}
      /\ Boxes["main"] = {MainPads(PadHalf)}
      /\ Boxes["side"] = {SidePads(PadHalf)}
      /\ Boxes["synced"] = {Around(1911, 242, 7)}
  BY DEF Boxes, Piece
<1>2. /\ Boxes["upperKnob"] = KnobBoxes("upperKnob")
      /\ Boxes["lowerKnob"] = KnobBoxes("lowerKnob")
      /\ Boxes["leds"] = {Around(c[1], c[2], 24) : c \in LedCentres}
      /\ Boxes["level"] = MeterBoxes
  BY DEF Boxes, Piece
<1>3. /\ GroupRects["oled"] = {OledRect}
      /\ GroupRects["pad"] = {MainPads(PadHalf + 1), SidePads(PadHalf + 1)}
      /\ GroupRects["dyn"] = {SyncedRect, KnobRect("upperKnob"), KnobRect("lowerKnob")}
      /\ GroupRects["misc"] = {FullRect}
  BY DEF GroupRects, Group
<1>4. /\ GroupOf["oled"] = "oled" /\ GroupOf["main"] = "pad" /\ GroupOf["side"] = "pad"
      /\ GroupOf["synced"] = "dyn" /\ GroupOf["upperKnob"] = "dyn"
      /\ GroupOf["lowerKnob"] = "dyn" /\ GroupOf["leds"] = "misc"
      /\ GroupOf["level"] = "misc"
  BY DEF GroupOf, Piece
<1> QED BY <1>1, <1>2, <1>3, <1>4

\* The rectangles in numbers.
LEMMA Places ==
  /\ OledRect = Rect(1171, 268, 1427, 364)
  /\ MainPads(PadHalf) = Rect(59, 593, 1922, 1504)
  /\ SidePads(PadHalf) = Rect(2034, 593, 2231, 1504)
  /\ MainPads(PadHalf + 1) = Rect(58, 592, 1923, 1505)
  /\ SidePads(PadHalf + 1) = Rect(2033, 592, 2232, 1505)
  /\ SyncedRect = Rect(1902, 233, 1920, 251)
  /\ KnobRect("upperKnob") = Rect(660, 129, 682, 262)
  /\ KnobRect("lowerKnob") = Rect(435, 401, 457, 534)
  /\ FullRect = Rect(0, 0, 2256, 1584)
  /\ Around(1911, 242, 7) = Rect(1904, 235, 1919, 250)
<1>1. /\ MainPads(PadHalf) = Rect(59, 593, 1922, 1504)
      /\ SidePads(PadHalf) = Rect(2034, 593, 2231, 1504)
      /\ MainPads(PadHalf + 1) = Rect(58, 592, 1923, 1505)
      /\ SidePads(PadHalf + 1) = Rect(2033, 592, 2232, 1505)
  BY Numbers DEF MainPads, SidePads, PadColumns
<1>2. /\ KnobRect("upperKnob") = Rect(660, 129, 682, 262)
      /\ KnobRect("lowerKnob") = Rect(435, 401, 457, 534)
  BY DEF KnobRect, KnobColumn, KnobBottom, Margin
<1>3. /\ OledRect = Rect(1171, 268, 1427, 364)
      /\ SyncedRect = Rect(1902, 233, 1920, 251)
      /\ FullRect = Rect(0, 0, 2256, 1584)
      /\ Around(1911, 242, 7) = Rect(1904, 235, 1919, 250)
  BY DEF OledRect, SyncedRect, FullRect, Margin, ImageWidth, ImageHeight, Around
<1> QED BY <1>1, <1>2, <1>3

\* The lamps of a knob lie in the rectangle of the knob.
LEMMA KnobPlaces ==
  ASSUME NEW k \in {"upperKnob", "lowerKnob"}, NEW b \in KnobBoxes(k)
  PROVE  Fits(b, KnobRect(k)) /\ Fits(b, FullRect)
<1>1. PICK led \in 0 .. 3 : b = Around(KnobColumn[k], KnobBottom[k] - 37 * led, 9)
  BY DEF KnobBoxes
<1>2. CASE k = "upperKnob"
  <2>1. b = Rect(662, 242 - 37 * led, 681, 261 - 37 * led)
    BY <1>1, <1>2 DEF KnobColumn, KnobBottom, Around
  <2>2. Fits(b, Rect(660, 129, 682, 262)) /\ Fits(b, Rect(0, 0, 2256, 1584))
    BY <2>1 DEF Fits, Rect, ImageWidth, ImageHeight
  <2> QED BY <1>2, <2>2, Places
<1>3. CASE k = "lowerKnob"
  <2>1. b = Rect(437, 514 - 37 * led, 456, 533 - 37 * led)
    BY <1>1, <1>3 DEF KnobColumn, KnobBottom, Around
  <2>2. Fits(b, Rect(435, 401, 457, 534)) /\ Fits(b, Rect(0, 0, 2256, 1584))
    BY <2>1 DEF Fits, Rect, ImageWidth, ImageHeight
  <2> QED BY <1>3, <2>2, Places
<1> QED BY <1>2, <1>3

\* The scattered lamps and the meter lie in the photograph.
LEMMA MiscPlaces ==
  ASSUME NEW b \in Boxes["leds"] \cup Boxes["level"]
  PROVE  Fits(b, FullRect)
<1>1. CASE b \in Boxes["leds"]
  <2>1. PICK c \in LedCentres : b = Around(c[1], c[2], 24)
    BY <1>1, Layout
  <2> DEFINE x == c[1]
             y == c[2]
  <2>2. x \in 24 .. 2231 /\ y \in 24 .. 1559
    <3>1. x \in 24 .. 2231
      BY SMTT(60) DEF LedCentres
    <3>2. y \in 24 .. 1559
      BY SMTT(60) DEF LedCentres
    <3> HIDE DEF x, y
    <3> QED BY <3>1, <3>2
  <2> HIDE DEF x, y
  <2>3. Fits(Around(x, y, 24), FullRect)
    BY <2>2 DEF Fits, Around, FullRect, Rect, ImageWidth, ImageHeight
  <2> QED BY <2>1, <2>3 DEF x, y
<1>2. CASE b \in Boxes["level"]
  <2>1. PICK seg \in 0 .. 15 : b = Around(2006 + 9 * seg, 273, 3)
    BY <1>2, Layout, Numbers DEF MeterBoxes
  <2>2. b = Rect(2003 + 9 * seg, 270, 2010 + 9 * seg, 277)
    BY <2>1 DEF Around
  <2>3. Fits(b, Rect(0, 0, 2256, 1584))
    BY <2>2 DEF Fits, Rect, ImageWidth, ImageHeight
  <2> QED BY <2>3, Places
<1> QED BY <1>1, <1>2

\* Each overlay lies in the rectangles of the group that watches it.
LEMMA BoxesOfGroup ==
  ASSUME NEW p \in Piece, NEW b \in Boxes[p]
  PROVE  /\ Fits(b, FullRect)
         /\ \E r \in GroupRects[GroupOf[p]] : Fits(b, r)
<1>1. CASE p = "oled"
  <2>1. /\ Fits(Rect(1171, 268, 1427, 364), Rect(1171, 268, 1427, 364))
        /\ Fits(Rect(1171, 268, 1427, 364), Rect(0, 0, 2256, 1584))
    BY DEF Fits, Rect, ImageWidth, ImageHeight
  <2>2. b = Rect(1171, 268, 1427, 364) /\ OledRect \in GroupRects[GroupOf[p]]
    BY <1>1, Layout, Places
  <2> QED BY <2>1, <2>2, Places
<1>2. CASE p = "main"
  <2>1. /\ Fits(Rect(59, 593, 1922, 1504), Rect(58, 592, 1923, 1505))
        /\ Fits(Rect(59, 593, 1922, 1504), Rect(0, 0, 2256, 1584))
    BY DEF Fits, Rect, ImageWidth, ImageHeight
  <2>2. b = Rect(59, 593, 1922, 1504) /\ MainPads(PadHalf + 1) \in GroupRects[GroupOf[p]]
    BY <1>2, Layout, Places
  <2> QED BY <2>1, <2>2, Places
<1>3. CASE p = "side"
  <2>1. /\ Fits(Rect(2034, 593, 2231, 1504), Rect(2033, 592, 2232, 1505))
        /\ Fits(Rect(2034, 593, 2231, 1504), Rect(0, 0, 2256, 1584))
    BY DEF Fits, Rect, ImageWidth, ImageHeight
  <2>2. b = Rect(2034, 593, 2231, 1504) /\ SidePads(PadHalf + 1) \in GroupRects[GroupOf[p]]
    BY <1>3, Layout, Places
  <2> QED BY <2>1, <2>2, Places
<1>4. CASE p = "synced"
  <2>1. /\ Fits(Rect(1904, 235, 1919, 250), Rect(1902, 233, 1920, 251))
        /\ Fits(Rect(1904, 235, 1919, 250), Rect(0, 0, 2256, 1584))
    BY DEF Fits, Rect, ImageWidth, ImageHeight
  <2>2. b = Rect(1904, 235, 1919, 250) /\ SyncedRect \in GroupRects[GroupOf[p]]
    BY <1>4, Layout, Places
  <2> QED BY <2>1, <2>2, Places
<1>5. CASE p \in {"upperKnob", "lowerKnob"}
  BY <1>5, Layout, KnobPlaces
<1>6. CASE p \in {"leds", "level"}
  BY <1>6, Layout, MiscPlaces
<1> QED BY <1>1, <1>2, <1>3, <1>4, <1>5, <1>6 DEF Piece

-----------------------------------------------------------------------------

\* Painting the rectangles of its group, or the whole panel, brings an
\* overlay up to date.
LEMMA GroupRepaints ==
  ASSUME NEW p \in Piece
  PROVE  p \in Repainted[GroupOf[p]] /\ p \in Repainted["misc"]
<1>1. GroupOf[p] \in Group /\ "misc" \in Group
  BY DEF GroupOf, Piece, Group
<1>2. \A b \in Boxes[p] : /\ \E r \in GroupRects[GroupOf[p]] : Repaints(r, b)
                          /\ Repaints(FullRect, b)
  BY BoxesOfGroup, FitsRepaints
<1>3. GroupRects["misc"] = {FullRect}
  BY Layout
<1> QED BY <1>1, <1>2, <1>3 DEF Repainted

\* The box and the rectangle share no point.
Apart(b, r) == b.x1 <= r.x0 \/ r.x1 <= b.x0 \/ b.y1 <= r.y0 \/ r.y1 <= b.y0

\* The corners of the box are whole numbers.
Whole(b) == b.x0 \in Int /\ b.x1 \in Int /\ b.y0 \in Int /\ b.y1 \in Int

OledBox == Rect(1171, 268, 1427, 364)
PadBoxes == {Rect(58, 592, 1923, 1505), Rect(2033, 592, 2232, 1505)}
DynBoxes == {Rect(1902, 233, 1920, 251), Rect(660, 129, 682, 262),
             Rect(435, 401, 457, 534)}

\* The rectangles of the partial refreshes, in numbers.
LEMMA PartialPlaces ==
  /\ GroupRects["oled"] = {OledBox}
  /\ GroupRects["pad"] = PadBoxes
  /\ GroupRects["dyn"] = DynBoxes
  BY Layout, Places DEF OledBox, PadBoxes, DynBoxes

\* No scattered lamp reaches into a rectangle of a partial refresh.
LEMMA LampsApart ==
  ASSUME NEW c \in LedCentres, NEW r \in {OledBox} \cup PadBoxes \cup DynBoxes
  PROVE  Whole(Around(c[1], c[2], 24)) /\ Apart(Around(c[1], c[2], 24), r)
<1> DEFINE x == c[1]
           y == c[2]
<1>1. /\ x \in 300 .. 2100 /\ y \in 240 .. 520
      /\ x <= 1140 \/ x >= 1460 \/ y >= 390
      /\ x <= 1870 \/ x >= 1950
      /\ x <= 600 \/ x >= 710 \/ y >= 290
      /\ x <= 410 \/ x >= 490 \/ y <= 370
  BY DEF LedCentres
<1>2. Around(x, y, 24) = Rect(x - 24, y - 24, x + 24 + 1, y + 24 + 1)
  BY DEF Around
<1> HIDE DEF x, y
<1>3. Whole(Rect(x - 24, y - 24, x + 24 + 1, y + 24 + 1))
  BY <1>1 DEF Whole, Rect
<1>4. Apart(Rect(x - 24, y - 24, x + 24 + 1, y + 24 + 1), r)
  BY <1>1 DEF Apart, Rect, OledBox, PadBoxes, DynBoxes
<1> QED BY <1>2, <1>3, <1>4 DEF x, y

\* The pads keep clear of the rectangles of the display and the knobs.
LEMMA PadsApart ==
  ASSUME NEW b \in {MainPads(PadHalf), SidePads(PadHalf)}, NEW r \in {OledBox} \cup DynBoxes
  PROVE  Whole(b) /\ Apart(b, r)
<1>1. b \in {Rect(59, 593, 1922, 1504), Rect(2034, 593, 2231, 1504)}
  BY Places
<1> QED BY <1>1 DEF Whole, Apart, Rect, OledBox, DynBoxes

\* The lamps of the knobs keep clear of the display and the pads.
LEMMA KnobsApart ==
  ASSUME NEW k \in {"upperKnob", "lowerKnob"}, NEW b \in KnobBoxes(k),
         NEW r \in {OledBox} \cup PadBoxes
  PROVE  Whole(b) /\ Apart(b, r)
<1>1. PICK led \in 0 .. 3 : b = Around(KnobColumn[k], KnobBottom[k] - 37 * led, 9)
  BY DEF KnobBoxes
<1>2. b \in {Rect(662, 242 - 37 * led, 681, 261 - 37 * led),
             Rect(437, 514 - 37 * led, 456, 533 - 37 * led)}
  BY <1>1 DEF KnobColumn, KnobBottom, Around
<1> QED BY <1>2 DEF Whole, Apart, Rect, OledBox, PadBoxes

\* The meter keeps clear of every rectangle of a partial refresh.
LEMMA MeterApart ==
  ASSUME NEW b \in MeterBoxes, NEW r \in {OledBox} \cup PadBoxes \cup DynBoxes
  PROVE  Whole(b) /\ Apart(b, r)
<1>1. PICK seg \in 0 .. 15 : b = Around(2006 + 9 * seg, 273, 3)
  BY Numbers DEF MeterBoxes
<1>2. b = Rect(2003 + 9 * seg, 270, 2010 + 9 * seg, 277)
  BY <1>1 DEF Around
<1> QED BY <1>2 DEF Whole, Apart, Rect, OledBox, PadBoxes, DynBoxes

\* A partial refresh of a group touches only the overlays of the group.
LEMMA GroupTouches ==
  ASSUME NEW p \in Piece, NEW g \in Group, g # "misc", p \in Touched[g]
  PROVE  GroupOf[p] = g
<1> SUFFICES ASSUME GroupOf[p] # g PROVE FALSE
  OBVIOUS
<1>1. PICK b \in Boxes[p], r \in GroupRects[g] : Hits(b, Clamped(r))
  BY DEF Touched
<1>2. g \in {"oled", "pad", "dyn"}
  BY DEF Group
<1>3. r \in {OledBox} \cup PadBoxes \cup DynBoxes
  BY <1>1, <1>2, PartialPlaces
<1>4. Whole(b) /\ Apart(b, r)
  <2>1. CASE p = "oled"
    <3>1. b = OledBox /\ r \in PadBoxes \cup DynBoxes
      BY <1>1, <1>2, <2>1, Layout, Places, PartialPlaces DEF OledBox
    <3> QED BY <3>1 DEF Whole, Apart, Rect, OledBox, PadBoxes, DynBoxes
  <2>2. CASE p \in {"main", "side"}
    <3>1. b \in {MainPads(PadHalf), SidePads(PadHalf)} /\ r \in {OledBox} \cup DynBoxes
      BY <1>1, <1>2, <2>2, Layout, PartialPlaces
    <3> QED BY <3>1, PadsApart
  <2>3. CASE p = "synced"
    <3>1. b = Rect(1904, 235, 1919, 250) /\ r \in {OledBox} \cup PadBoxes
      BY <1>1, <1>2, <2>3, Layout, Places, PartialPlaces
    <3> QED BY <3>1 DEF Whole, Apart, Rect, OledBox, PadBoxes
  <2>4. CASE p \in {"upperKnob", "lowerKnob"}
    <3>1. b \in KnobBoxes(p) /\ r \in {OledBox} \cup PadBoxes
      BY <1>1, <1>2, <2>4, Layout, PartialPlaces
    <3> QED BY <2>4, <3>1, KnobsApart
  <2>5. CASE p = "leds"
    <3>1. PICK c \in LedCentres : b = Around(c[1], c[2], 24)
      BY <1>1, <2>5, Layout
    <3> QED BY <1>3, <3>1, LampsApart
  <2>6. CASE p = "level"
    <3>1. b \in MeterBoxes
      BY <1>1, <2>6, Layout
    <3> QED BY <1>3, <3>1, MeterApart
  <2> QED BY <2>1, <2>2, <2>3, <2>4, <2>5, <2>6 DEF Piece
<1>5. Clamped(r).x0 = r.x0 /\ Clamped(r).y0 = r.y0
      /\ Clamped(r).x1 = r.x1 /\ Clamped(r).y1 = r.y1
      /\ r.x0 \in Int /\ r.y0 \in Int /\ r.x1 \in Int /\ r.y1 \in Int
  BY <1>3 DEF OledBox, PadBoxes, DynBoxes, Clamped, Rect, ImageWidth, ImageHeight
<1> QED BY <1>1, <1>4, <1>5 DEF Hits, Apart, Whole

-----------------------------------------------------------------------------

\* After painting the groups whose digest moved, an overlay is up to date or
\* is as it was and its digest did not move.
LEMMA PaintMoved ==
  ASSUME SkinTypeOK, RememberedIsShown, have_region_hashes
  PROVE  LET shown == deluge_skin_paint(Moved) IN
         \A p \in Piece :
            \/ shown[p] = source[p]
            \/ /\ shown[p] = screen[p]
               /\ region_hashes[p] = deluge_skin_region_hashes[p]
<1> SUFFICES ASSUME NEW p \in Piece
             PROVE  \/ deluge_skin_paint(Moved)[p] = source[p]
                    \/ /\ deluge_skin_paint(Moved)[p] = screen[p]
                       /\ region_hashes[p] = deluge_skin_region_hashes[p]
  OBVIOUS
<1>1. GroupOf[p] \in Group
  BY DEF GroupOf, Piece, Group
<1>2. CASE \E g \in Moved : p \in Repainted[g]
  BY <1>2 DEF deluge_skin_paint
<1>3. CASE ~\E g \in Moved : p \in Repainted[g]
  <2>1. GroupOf[p] \notin Moved /\ "misc" \notin Moved
    BY <1>3, GroupRepaints
  <2>2. region_hashes[p] = deluge_skin_region_hashes[p]
    BY <1>1, <2>1 DEF Moved
  <2>3. ~\E g \in Moved : p \in Touched[g]
    <3> SUFFICES ASSUME NEW g \in Moved, p \in Touched[g] PROVE FALSE
      OBVIOUS
    <3>1. g \in Group /\ g # "misc" /\ g # GroupOf[p]
      BY <2>1 DEF Moved
    <3> QED BY <3>1, GroupTouches
  <2> QED BY <1>3, <2>2, <2>3 DEF deluge_skin_paint
<1> QED BY <1>2, <1>3

\* Painting the whole panel brings every overlay up to date.
LEMMA PaintAll ==
  deluge_skin_paint({"misc"}) = [p \in Piece |-> source[p]]
  BY GroupRepaints DEF deluge_skin_paint

\* A digest of the present contents has the type of a digest.
LEMMA HashesTyped ==
  ASSUME SkinTypeOK
  PROVE  deluge_skin_region_hashes \in [Piece -> Hash]
  BY SkinAssumption DEF deluge_skin_region_hashes, SkinTypeOK

\* What a painting of the whole panel leaves.
LEMMA RenderKeeps ==
  ASSUME SkinTypeOK, deluge_skin_render
  PROVE  /\ screen' = [p \in Piece |-> source[p]]
         /\ screen' \in [Piece -> Content]
         /\ region_hashes' \in [Piece -> Hash]
         /\ have_region_hashes' = TRUE /\ idle_ticks' = 0
         /\ \A p \in Piece : region_hashes'[p] = Digest[p][screen'[p]]
BY PaintAll, HashesTyped DEF deluge_skin_render, deluge_skin_region_hashes, SkinTypeOK

\* The safety count is a positive number.
LEMMA Ticks == safety_ticks \in Nat \ {0}
  BY SkinAssumption DEF safety_ticks, refresh_ms, Clamp

\* The inductive invariant.
Remember == SkinTypeOK /\ RememberedIsShown

\* The invariant holds when the device is realized.
LEMMA InitRemembers == SkinInit => Remember
<1> SUFFICES ASSUME SkinInit PROVE Remember
  OBVIOUS
<1>1. safety_ticks \in Nat \ {0}
  BY Ticks
<1>2. PICK v \in Content : source = [p \in Piece |-> v]
  BY DEF SkinInit
<1>3. PICK h \in Hash : region_hashes = [p \in Piece |-> h]
  BY DEF SkinInit
<1>4. source \in [Piece -> Content] /\ region_hashes \in [Piece -> Hash]
  BY <1>2, <1>3
<1>5. screen \in [Piece -> Content \cup {Garbled}]
  BY DEF SkinInit
<1>6. idle_ticks \in 0 .. safety_ticks
  BY <1>1 DEF SkinInit
<1>7. SkinTypeOK
  BY <1>4, <1>5, <1>6 DEF SkinInit, SkinTypeOK
<1> QED BY <1>7 DEF SkinInit, Remember, RememberedIsShown

\* The invariant is inductive: a partial refresh brings the groups that moved
\* up to date and leaves the rest, whose digests have not moved.
LEMMA NextRemembers == Remember /\ [SkinNext]_skinVars => Remember'
<1> SUFFICES ASSUME Remember, [SkinNext]_skinVars PROVE Remember'
  OBVIOUS
<1> USE DEF Remember
<1>1. ASSUME NEW p \in Piece, Change(p) PROVE Remember'
  <2>1. source' \in [Piece -> Content]
    BY <1>1 DEF Change, SkinTypeOK
  <2>2. UNCHANGED <<screen, region_hashes, have_region_hashes, idle_ticks, dirty,
                    render_suspended>>
    BY <1>1 DEF Change
  <2> QED BY <2>1, <2>2 DEF SkinTypeOK, RememberedIsShown
<1>2. ASSUME deluge_skin_render, UNCHANGED source, dirty' \in BOOLEAN,
             render_suspended' \in BOOLEAN
      PROVE  Remember'
  <2>1. /\ screen' \in [Piece -> Content] /\ region_hashes' \in [Piece -> Hash]
        /\ have_region_hashes' = TRUE /\ idle_ticks' = 0
        /\ \A p \in Piece : region_hashes'[p] = Digest[p][screen'[p]]
    BY <1>2, RenderKeeps
  <2>2. safety_ticks \in Nat \ {0}
    BY Ticks
  <2>3. idle_ticks' \in 0 .. safety_ticks
    BY <2>1, <2>2
  <2>4. SkinTypeOK'
    BY <1>2, <2>1, <2>3 DEF SkinTypeOK
  <2> QED BY <2>1, <2>4 DEF RememberedIsShown
<1>3. CASE deluge_skin_refresh
  <2>1. CASE RefreshAll
    BY <1>2, <1>3, <2>1 DEF deluge_skin_refresh, RefreshAll, SkinTypeOK
  <2>2. CASE RefreshMoved
    <3>1. /\ have_region_hashes
          /\ screen' = deluge_skin_paint(Moved)
          /\ region_hashes' = deluge_skin_region_hashes
          /\ idle_ticks' = 0
          /\ UNCHANGED <<source, have_region_hashes, dirty, render_suspended>>
      BY <1>3, <2>2 DEF deluge_skin_refresh, RefreshMoved
    <3>2. \A p \in Piece : /\ screen'[p] \in Content
                           /\ region_hashes'[p] = Digest[p][screen'[p]]
      BY <3>1, PaintMoved
         DEF SkinTypeOK, RememberedIsShown, deluge_skin_region_hashes
    <3>3. screen' = [p \in Piece |-> screen'[p]]
      BY <3>1 DEF deluge_skin_paint
    <3>4. screen' \in [Piece -> Content \cup {Garbled}]
      BY <3>2, <3>3
    <3>5. region_hashes' \in [Piece -> Hash] /\ safety_ticks \in Nat \ {0}
      BY <3>1, HashesTyped, Ticks
    <3> QED BY <3>1, <3>2, <3>4, <3>5 DEF SkinTypeOK, RememberedIsShown
  <2>3. CASE RefreshIdle
    <3>1. safety_ticks \in Nat \ {0}
      BY Ticks
    <3> QED BY <1>3, <2>3, <3>1
            DEF deluge_skin_refresh, RefreshIdle, SkinTypeOK, RememberedIsShown
  <2> QED BY <1>3, <2>1, <2>2, <2>3 DEF deluge_skin_refresh
<1>4. CASE deluge_skin_invalidate
  BY <1>4 DEF deluge_skin_invalidate, SkinTypeOK, RememberedIsShown
<1>5. CASE deluge_skin_update
  BY <1>2, <1>5 DEF deluge_skin_update, SkinTypeOK
<1>6. CASE deluge_skin_set_render_suspended
  <2>1. CASE render_suspended
    BY <1>2, <1>6, <2>1 DEF deluge_skin_set_render_suspended, SkinTypeOK
  <2>2. CASE ~render_suspended
    BY <1>6, <2>2 DEF deluge_skin_set_render_suspended, SkinTypeOK, RememberedIsShown
  <2> QED BY <2>1, <2>2
<1>7. CASE UNCHANGED skinVars
  BY <1>7 DEF skinVars, SkinTypeOK, RememberedIsShown
<1> QED BY <1>1, <1>3, <1>4, <1>5, <1>6, <1>7 DEF SkinNext

\* The digests kept between ticks are those of what the window shows
\* (oled_hash, pad_hash, dyn_hash and misc_hash of deluge_skin.c).
THEOREM Remembered == SkinSpec => [](SkinTypeOK /\ RememberedIsShown)
<1>1. SkinInit => Remember
  BY InitRemembers
<1>2. Remember /\ [SkinNext]_skinVars => Remember'
  BY NextRemembers
<1>3. Remember => SkinTypeOK /\ RememberedIsShown
  BY DEF Remember
<1> QED BY <1>1, <1>2, <1>3, PTL DEF SkinSpec

\* A tick leaves an overlay up to date, but for what its digest confuses.
LEMMA TickShows ==
  ASSUME Remember, deluge_skin_refresh, NEW p \in Piece
  PROVE  \/ screen'[p] = source[p]
         \/ /\ screen'[p] \in Content
            /\ Digest[p][screen'[p]] = Digest[p][source[p]]
<1> USE DEF Remember
<1>1. CASE RefreshAll
  BY <1>1, RenderKeeps DEF RefreshAll
<1>2. CASE RefreshMoved
  <2>1. have_region_hashes /\ screen' = deluge_skin_paint(Moved)
    BY <1>2 DEF RefreshMoved
  <2> QED BY <2>1, PaintMoved DEF RememberedIsShown, deluge_skin_region_hashes
<1>3. CASE RefreshIdle
  <2>1. have_region_hashes /\ screen' = screen /\ Moved = {}
    BY <1>3 DEF RefreshIdle
  <2>2. GroupOf[p] \in Group
    BY DEF GroupOf, Piece, Group
  <2>3. deluge_skin_region_hashes[p] = region_hashes[p]
    BY <2>1, <2>2 DEF Moved
  <2> QED BY <2>1, <2>3 DEF RememberedIsShown, deluge_skin_region_hashes
<1> QED BY <1>1, <1>2, <1>3 DEF deluge_skin_refresh

\* deluge_skin_refresh leaves no overlay out of date, whichever rectangles it
\* paints, but for a change that the digest of the overlay cannot see.
THEOREM TicksShowChanges == SkinSpec => TickShowsChanges
<1> DEFINE Shows == deluge_skin_refresh =>
              \A p \in Piece : \/ screen'[p] = source[p]
                               \/ /\ screen'[p] \in Content
                                  /\ Digest[p][screen'[p]] = Digest[p][source[p]]
<1>1. SkinInit => Remember
  BY InitRemembers
<1>2. Remember /\ [SkinNext]_skinVars => Remember'
  BY NextRemembers
<1>3. Remember /\ [SkinNext]_skinVars => [Shows]_skinVars
  BY TickShows
<1> QED BY <1>1, <1>2, <1>3, PTL DEF SkinSpec, TickShowsChanges

=============================================================================
