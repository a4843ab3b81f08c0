------------------------------- MODULE Raster -------------------------------
(***************************************************************************)
(* The drawing routines of src/src/bitmap.rs on any surface, one turn of their *)
(* loops per step, and the scrolling of the bitmap, one byte per step. A run   *)
(* is one call. Pixels not drawn yet hold their own index, so that a moved or   *)
(* lost one shows. begun and plotted are not in the code: the call, and the     *)
(* points it wanted, those off the surface too.                               *)
(***************************************************************************)
EXTENDS Integers, Sequences, FiniteSets

CONSTANTS
  SideX, SideY,     \* the surface
  IMax,             \* i16::MAX
  Octet,            \* pixels of a sprite's byte, 8 in the code
  Drawings          \* the calls

IMin == -IMax - 1
Glyph == SUBSET (Nat \X Nat)
Newline == {<<-1, -1>>}       \* no glyph has this cell

ASSUME RasterAssumption ==
  /\ IMax \in Nat /\ SideX \in 1 .. IMax /\ SideY \in 1 .. IMax
  /\ Octet \in Nat \ {0}
  /\ \A d \in Drawings :
       /\ d.op \in {"line", "circle", "fill", "rect", "text", "blit", "scroll"}
       /\ d.x \in IMin .. IMax /\ d.y \in IMin .. IMax
       /\ d.op = "line" => d.x1 \in IMin .. IMax /\ d.y1 \in IMin .. IMax
       /\ d.op \in {"circle", "scroll"} => d.r \in Nat
       /\ d.op \in {"fill", "rect", "blit"} => d.w \in Nat /\ d.h \in Nat
       /\ d.op = "text" => d.chars \in Seq(Glyph \cup {Newline})
       /\ d.op = "blit" => d.data \in Seq([0 .. Octet - 1 -> BOOLEAN])

VARIABLES
  begun, plotted,
  rows,             \* turns of the outer loop, or characters, still to come
  px, py, slope,    \* x, y and err of line and circle; the cursor of text
  rects,            \* fill_rect calls still to come
  drawn             \* the call has returned

cursor == <<px, py, slope>>
rasterVars == <<begun, plotted, rows, cursor, rects, drawn>>

VARIABLE surface

Ink == -1
Surface == (0 .. SideX - 1) \X (0 .. SideY - 1)
Index(p) == p[2] * SideX + p[1]
Untouched == [p \in Surface |-> Index(p)]

AbsOf(a) == IF a < 0 THEN -a ELSE a
MinOf(a, b) == IF a < b THEN a ELSE b
MaxOf(a, b) == IF a > b THEN a ELSE b

\* as i16
Cast(v) == ((v - IMin) % (IMax - IMin + 1)) + IMin
SaturatingAdd(a, b) == MinOf(a + b, IMax)

\* What a call starts with: its loop's variables, or the rectangles it fills.
Rows(d) == CASE d.op = "text" -> d.chars
             [] d.op = "blit" -> [k \in 1 .. d.h |-> k - 1]
             [] d.op = "scroll" -> [k \in 1 .. SideX * SideY |-> k - 1]
             [] OTHER -> << >>

Slope(d) == CASE d.op = "line" -> AbsOf(d.x1 - d.x) - AbsOf(d.y1 - d.y)
              [] d.op = "circle" -> 1 - d.r
              [] OTHER -> 0

Box(x, y, w, h) == [x |-> x, y |-> y, w |-> w, h |-> h]

\* Mutant: the far edges wrap.
RectsUnchecked(d) ==
  CASE d.op = "fill" -> <<Box(d.x, d.y, d.w, d.h)>>
    [] d.op = "rect" /\ d.w # 0 /\ d.h # 0 ->
         <<Box(d.x, d.y, d.w, 1), Box(d.x, d.y, 1, d.h),
           Box(d.x, Cast(d.y + d.h - 1), d.w, 1), Box(Cast(d.x + d.w - 1), d.y, 1, d.h)>>
    [] OTHER -> << >>

\* rect leaves out an edge whose coordinate no i16 holds.
Rects(d) ==
  CASE d.op = "fill" -> <<Box(d.x, d.y, d.w, d.h)>>
    [] d.op = "rect" /\ d.w # 0 /\ d.h # 0 ->
         <<Box(d.x, d.y, d.w, 1), Box(d.x, d.y, 1, d.h)>>
         \o (IF d.y + d.h - 1 <= IMax THEN <<Box(d.x, d.y + d.h - 1, d.w, 1)>> ELSE << >>)
         \o (IF d.x + d.w - 1 <= IMax THEN <<Box(d.x + d.w - 1, d.y, 1, d.h)>> ELSE << >>)
    [] OTHER -> << >>

RasterInit ==
  /\ begun \in Drawings
  /\ surface = Untouched /\ plotted = {} /\ drawn = FALSE
  /\ rows = Rows(begun) /\ rects = Rects(begun) /\ slope = Slope(begun)
  /\ px = IF begun.op = "circle" THEN begun.r ELSE begun.x
  /\ py = IF begun.op = "circle" THEN 0 ELSE begun.y

-----------------------------------------------------------------------------
\* plot: the point is on the surface, and i16 holds it.
Clips(p) == p \in Surface /\ p[1] <= IMax /\ p[2] <= IMax

Plot(points) ==
  /\ plotted' = plotted \cup points
  /\ surface' = [p \in Surface |->
       IF \E q \in points : Clips(q) /\ p = <<Cast(q[1]), Cast(q[2])>> THEN Ink ELSE surface[p]]

Drawing(op) == ~drawn /\ begun.op = op

ReturnCall ==
  /\ drawn' = TRUE
  /\ UNCHANGED <<begun, plotted, rows, cursor, rects, surface>>

StepsRight == 2 * slope >= -AbsOf(begun.y1 - begun.y)
StepsDown  == 2 * slope <= AbsOf(begun.x1 - begun.x)

\* One turn of line.
LineTurn ==
  /\ Drawing("line") /\ Plot({<<px, py>>})
  /\ LET dx == AbsOf(begun.x1 - begun.x)
         dy == -AbsOf(begun.y1 - begun.y)
     IN IF px = begun.x1 /\ py = begun.y1
        THEN drawn' = TRUE /\ UNCHANGED cursor
        ELSE /\ px' = IF StepsRight THEN px + (IF begun.x < begun.x1 THEN 1 ELSE -1) ELSE px
             /\ py' = IF StepsDown THEN py + (IF begun.y < begun.y1 THEN 1 ELSE -1) ELSE py
             /\ slope' = slope + (IF StepsRight THEN dy ELSE 0) + (IF StepsDown THEN dx ELSE 0)
             /\ UNCHANGED drawn
  /\ UNCHANGED <<begun, rows, rects>>

Octants(a, b) == {<<a, b>>, <<b, a>>, <<-b, a>>, <<-a, b>>, <<-a, -b>>, <<-b, -a>>, <<b, -a>>, <<a, -b>>}

\* One turn of circle.
CircleTurn ==
  /\ Drawing("circle") /\ px >= py
  /\ Plot({<<begun.x + o[1], begun.y + o[2]>> : o \in Octants(px, py)})
  /\ py' = py + 1
  /\ IF slope < 0
     THEN px' = px /\ slope' = slope + 2 * py' + 1
     ELSE px' = px - 1 /\ slope' = slope + 2 * (py' - px') + 1
  /\ UNCHANGED <<begun, rows, rects, drawn>>

CircleDone == Drawing("circle") /\ px < py /\ ReturnCall

\* One fill_rect: what its loops run over, clipped before they start.
FillRect ==
  /\ ~drawn /\ rects # << >>
  /\ LET b      == Head(rects)
         right  == MinOf(MinOf(b.x + b.w, SideX), IMax + 1)
         bottom == MinOf(MinOf(b.y + b.h, SideY), IMax + 1)
     IN  Plot((MaxOf(b.x, 0) .. right - 1) \X (MaxOf(b.y, 0) .. bottom - 1))
  /\ rects' = Tail(rects)
  /\ UNCHANGED <<begun, rows, cursor, drawn>>

RectsDone == (Drawing("fill") \/ Drawing("rect")) /\ rects = << >> /\ ReturnCall

\* One character of text; a glyph is the set of its cells.
Char ==
  /\ Drawing("text") /\ rows # << >>
  /\ IF Head(rows) = Newline
     THEN px' = begun.x /\ py' = SaturatingAdd(py, 6) /\ UNCHANGED <<plotted, surface>>
     ELSE /\ Plot({<<px + cell[1], py + cell[2]>> : cell \in Head(rows)})
          /\ px' = SaturatingAdd(px, 4) /\ py' = py
  /\ rows' = Tail(rows)
  /\ UNCHANGED <<begun, slope, rects, drawn>>

Stride(d) == (d.w + Octet - 1) \div Octet
ShortSprite == Len(begun.data) < Stride(begun) * begun.h

\* Rows of a sprite are padded to whole bytes, most significant bit first.
BitAt(row, col) == begun.data[row * Stride(begun) + col \div Octet + 1][col % Octet]

\* One row of blit_mono without a background; a background plots the other pixels likewise.
BlitRow ==
  /\ Drawing("blit") /\ ~ShortSprite /\ rows # << >>
  /\ Plot({<<begun.x + col, begun.y + Head(rows)>> :
             col \in {c \in 0 .. begun.w - 1 : BitAt(Head(rows), c)}})
  /\ rows' = Tail(rows)
  /\ UNCHANGED <<begun, cursor, rects, drawn>>

TextDone == Drawing("text") /\ rows = << >> /\ ReturnCall
BlitDone == Drawing("blit") /\ (ShortSprite \/ rows = << >>) /\ ReturnCall

PixelAt(i) == <<i % SideX, i \div SideX>>

\* scroll_up moves a byte, or fills the last rows; Drawings ask for up to SideY rows.
ScrollByte ==
  /\ Drawing("scroll") /\ rows # << >>
  /\ LET i     == Head(rows)
         shift == MinOf(begun.r, SideY) * SideX
     IN  surface' = [surface EXCEPT ![PixelAt(i)] =
           IF i < SideX * SideY - shift THEN surface[PixelAt(i + shift)] ELSE Ink]
  /\ rows' = Tail(rows)
  /\ UNCHANGED <<begun, plotted, cursor, rects, drawn>>

ScrollDone == Drawing("scroll") /\ rows = << >> /\ ReturnCall

RasterNext ==
  \/ LineTurn \/ CircleTurn \/ CircleDone \/ FillRect \/ RectsDone
  \/ Char \/ TextDone \/ BlitRow \/ BlitDone \/ ScrollByte \/ ScrollDone

RasterSpec == RasterInit /\ [][RasterNext]_<<rasterVars, surface>>

-----------------------------------------------------------------------------
(* What each call should have plotted, said of its arguments at once. *)

Dx == AbsOf(begun.x1 - begun.x)
Dy == AbsOf(begun.y1 - begun.y)

\* The points within half a pixel of the ideal line, counted along its longer side.
NearLine(p) ==
  LET a == AbsOf(p[1] - begun.x)
      b == AbsOf(p[2] - begun.y)
  IN  IF Dx >= Dy THEN 2 * AbsOf(b * Dx - a * Dy) <= Dx ELSE 2 * AbsOf(a * Dy - b * Dx) <= Dy

Between(a, low, high) == MinOf(low, high) <= a /\ a <= MaxOf(low, high)

LineSound ==
  /\ {<<begun.x, begun.y>>, <<begun.x1, begun.y1>>} \subseteq plotted
  /\ Cardinality(plotted) = MaxOf(Dx, Dy) + 1
  /\ \A p \in plotted : NearLine(p) /\ Between(p[1], begun.x, begun.x1) /\ Between(p[2], begun.y, begun.y1)
  /\ Cardinality({IF Dx >= Dy THEN p[1] ELSE p[2] : p \in plotted}) = MaxOf(Dx, Dy) + 1

\* The nearest points to the circle in each row of the flat octants, and their mirror images.
CircleSound ==
  LET around == {<<p[1] - begun.x, p[2] - begun.y>> : p \in plotted}
      \* twice the distance of the ideal point in row b, squared
      Row(b) == 4 * (begun.r * begun.r - b * b)
  IN  /\ \A p \in around : Octants(p[1], p[2]) \subseteq around
      /\ \A p \in around : AbsOf(p[2]) <= p[1] =>
           Row(p[2]) \in (2 * p[1] - 1) * (2 * p[1] - 1) - 1 .. (2 * p[1] + 1) * (2 * p[1] + 1)
      /\ {p[1] : p \in around} = -begun.r .. begun.r

Area(x, y, w, h) == (x .. x + w - 1) \X (y .. y + h - 1)

Outline ==
  {p \in Area(begun.x, begun.y, begun.w, begun.h) :
     p[1] \in {begun.x, begun.x + begun.w - 1} \/ p[2] \in {begun.y, begun.y + begun.h - 1}}

\* Where the k-th character stands: the newlines before it, and the characters since the last.
Lines(k) == {j \in 1 .. k - 1 : begun.chars[j] = Newline}
Column(k) == LET start == CHOOSE m \in 0 .. k : (m = 0 \/ m \in Lines(k)) /\ \A j \in Lines(k) : j <= m
             IN  k - 1 - start
Printed == {k \in DOMAIN begun.chars : begun.chars[k] # Newline}
Written == UNION {{<<begun.x + 4 * Column(k) + cell[1], begun.y + 6 * Cardinality(Lines(k)) + cell[2]>> :
                     cell \in begun.chars[k]} : k \in Printed}

\* The bits of a row: the padded bytes, side by side.
RowBit(r, c) == LET row == SubSeq(begun.data, r * Stride(begun) + 1, (r + 1) * Stride(begun))
                IN  row[c \div Octet + 1][c % Octet]
Sprite == IF ShortSprite THEN {}
          ELSE {p \in Area(begun.x, begun.y, begun.w, begun.h) : RowBit(p[2] - begun.y, p[1] - begun.x)}

Scrolled == [p \in Surface |-> IF p[2] + begun.r < SideY THEN Index(<<p[1], p[2] + begun.r>>) ELSE Ink]

Shows(points) == \A p \in Surface : surface[p] = IF p \in points THEN Ink ELSE Index(p)

\* Every call draws its shape clipped to the surface and nothing else, at every octant, corner
\* and edge of i16: lines and circles as near to the ideal as pixels allow, rectangles and text
\* without a pixel that wrapped to the other side, a short sprite nothing, and a scroll in
\* place no byte twice (bitmap.rs).
DrawsExactly == drawn =>
  CASE begun.op = "line"   -> LineSound /\ Shows(plotted)
    [] begun.op = "circle" -> CircleSound /\ Shows(plotted)
    [] begun.op = "fill"   -> Shows(Area(begun.x, begun.y, begun.w, begun.h))
    [] begun.op = "rect"   -> Shows(Outline)
    [] begun.op = "text"   -> Shows(Written)
    [] begun.op = "blit"   -> Shows(Sprite)
    [] begun.op = "scroll" -> surface = Scrolled
=============================================================================
