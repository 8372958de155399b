------------------------------ MODULE Vdp1Draw ------------------------------
(***************************************************************************)
(* The arithmetic of VDP1's rasteriser, runner/src/vdp1.c: which pixels a  *)
(* quad covers, which texel a pixel shows, which pixels clipping lets      *)
(* through, and the midpoint frame built from two command lists.           *)
(*                                                                         *)
(* The hardware's counters have 13 bits, kept by the code in the upper     *)
(* bits of 32-bit words.  Bits is that width here.                         *)
(***************************************************************************)
EXTENDS Integers, Sequences, FiniteSets

CONSTANTS
  Bits,                         \* width of coordinates and counters (13), at least 3
  FbW, FbH                      \* frame buffer (512 x 256)

Abs(n) == IF n < 0 THEN -n ELSE n
Larger(a, b) == IF a > b THEN a ELSE b

\* coord, se13, and the counters' wrap: two's complement of Bits bits.
Signed(n) == LET m == n % 2^Bits IN IF m >= 2^(Bits - 1) THEN m - 2^Bits ELSE m

----------------------------------------------------------------------------
(* Spans: LineStepper. *)

\* line_setup and one line_step: the first pixel.  A step moves along the major
\* axis, and along the minor one when the accumulator passes its target; then
\* a corner pixel at distance `aa' fills the staircase.
Line(p, q) ==
  LET dx == q.x - p.x   dy == q.y - p.y
      wide == Abs(dx) >= Abs(dy)
      sx == IF dx >= 0 THEN 1 ELSE -1   sy == IF dy >= 0 THEN 1 ELSE -1
      same == (p.x > q.x) <=> (p.y > q.y)
      long == IF wide THEN Abs(dx) ELSE Abs(dy)
      short == IF wide THEN Abs(dy) ELSE Abs(dx)
  IN  [major |-> IF wide THEN <<sx, 0>> ELSE <<0, sy>>,
       minor |-> IF wide THEN <<0, sy>> ELSE <<sx, 0>>,
       aa |-> CASE wide /\ same   -> <<0, -sy>>
                [] wide /\ ~same  -> <<-sx, 0>>
                [] ~wide /\ same  -> <<0, -sy>>
                [] OTHER          -> <<-sx, 0>>,
       num |-> 2 * short, den |-> 2 * long, start |-> long + 2 * short,
       length |-> long]

\* Mutant: the minor axis moves a step later.
LineStepLate(l, s) ==
  LET a == Signed(s.acc - l.num)
      turn == a < -1
  IN  [x |-> s.x + l.major[1] + (IF turn THEN l.minor[1] ELSE 0),
       y |-> s.y + l.major[2] + (IF turn THEN l.minor[2] ELSE 0),
       acc |-> IF turn THEN Signed(a + l.den) ELSE a, aa |-> turn]

\* line_step.
LineStep(l, s) ==
  LET a == Signed(s.acc - l.num)
      turn == a <= -1
  IN  [x |-> s.x + l.major[1] + (IF turn THEN l.minor[1] ELSE 0),
       y |-> s.y + l.major[2] + (IF turn THEN l.minor[2] ELSE 0),
       acc |-> IF turn THEN Signed(a + l.den) ELSE a, aa |-> turn]

\* The span's pixels in order, and the set with the corners.
Span(p, q) ==
  LET l == Line(p, q)
      at[j \in 0 .. l.length] ==
        LineStep(l, IF j = 0 THEN [x |-> p.x - l.major[1], y |-> p.y - l.major[2],
                                   acc |-> Signed(l.start), aa |-> FALSE]
                    ELSE at[j - 1])
  IN  at

Pixels(p, q) ==
  LET l == Line(p, q)   at == Span(p, q)
  IN  {<<at[j].x, at[j].y>> : j \in DOMAIN at}
        \cup {<<at[j].x + l.aa[1], at[j].y + l.aa[2]>> : j \in {i \in DOMAIN at : at[i].aa}}

----------------------------------------------------------------------------
(* Quads: the two edges are walked together, in as many steps as the longest *)
(* of their sides has. *)

\* edge_setup.
Edge(p, q, delta) ==
  LET dx == Signed(q.x - p.x)   dy == Signed(q.y - p.y)
      major == Larger(Abs(dx), Abs(dy))
  IN  [inc |-> <<IF dx >= 0 THEN 1 ELSE -1, IF dy >= 0 THEN 1 ELSE -1>>,
       num |-> <<2 * Abs(dx), 2 * Abs(dy)>>, den |-> 2 * major,
       target |-> <<IF dy < 0 THEN -1 ELSE 0, IF dx < 0 THEN -1 ELSE 0>>,
       start |-> -major - 1,
       outer |-> [num |-> 2 * major, den |-> 2 * delta, start |-> -delta - 1,
                  target |-> IF Abs(dx) >= Abs(dy) THEN (IF dx < 0 THEN -1 ELSE 0)
                             ELSE (IF dy < 0 THEN -1 ELSE 0)]]

\* edge_step.
EdgeStep(e, s) ==
  LET o == Signed(s.acc + e.outer.num)
      moves == o >= Signed(e.outer.target)
      a == [i \in 1 .. 2 |-> Signed(s.inner[i] + e.num[i])]
      turns == [i \in 1 .. 2 |-> moves /\ a[i] >= e.target[i]]
  IN  [x |-> s.x + (IF turns[1] THEN e.inc[1] ELSE 0),
       y |-> s.y + (IF turns[2] THEN e.inc[2] ELSE 0),
       acc |-> IF moves THEN Signed(o - e.outer.den) ELSE o,
       inner |-> [i \in 1 .. 2 |-> IF turns[i] THEN Signed(a[i] - e.den)
                                   ELSE IF moves THEN a[i] ELSE s.inner[i]]]

\* The points of the edge, after 0 .. delta steps.
EdgeWalk(p, q, delta) ==
  LET e == Edge(p, q, delta)
      at[i \in 0 .. delta] ==
        IF i = 0 THEN [x |-> p.x, y |-> p.y, acc |-> Signed(e.outer.start),
                       inner |-> [k \in 1 .. 2 |-> Signed(e.start)]]
        ELSE EdgeStep(e, at[i - 1])
  IN  at

\* Number of steps for the corners a b c d: 12 bits of 13.
Steps(a, b, c, d) ==
  LET n == Larger(Larger(Abs(Signed(d.x - a.x)), Abs(Signed(d.y - a.y))),
                  Larger(Abs(Signed(c.x - b.x)), Abs(Signed(c.y - b.y)))) % 2^(Bits - 1)
  IN  IF n = 0 THEN 1 ELSE n

\* quad, untextured.
Quad(a, b, c, d) ==
  LET n == Steps(a, b, c, d)
      left == EdgeWalk(a, d, n)   right == EdgeWalk(b, c, n)
  IN  UNION {Pixels([x |-> left[i].x, y |-> left[i].y], [x |-> right[i].x, y |-> right[i].y])
             : i \in 0 .. n}

\* Mutant: the remainder is dropped.
ColumnTruncated(tw, n) == [j \in 0 .. n |-> (tw \div (n + 1)) * j]

\* Texel column of pixel j of n + 1, for a texture of width tw: the sequence
\* of quotients and remainders that stands for a division per pixel.
Column(tw, n) ==
  LET at[j \in 0 .. n] ==
        IF j = 0 THEN [base |-> 0, acc |-> 0]
        ELSE LET acc == at[j - 1].acc + (tw % (n + 1))
                 base == at[j - 1].base + tw \div (n + 1)
             IN  IF acc >= n + 1 THEN [base |-> base + 1, acc |-> acc - (n + 1)]
                 ELSE [base |-> base, acc |-> acc]
  IN  [j \in 0 .. n |-> IF at[j].base >= tw THEN tw - 1 ELSE at[j].base]

----------------------------------------------------------------------------
(* Pixels: clipping and interlace.  The clip state is that of the list, the *)
(* mode that of the command. *)

\* FBCR's double interlace: a line of the wrong field is not drawn, the others
\* are packed.
Row(clip, y) == IF clip.die THEN y \div 2 ELSE y
WrongField(clip, y) == clip.die /\ clip.select /\ (y % 2 = 1) # clip.dil

\* put: the row written at (x, y), or -1.
Put(clip, mode, x, y) ==
  LET outside == x < clip.usr[1] \/ x > clip.usr[3] \/ y < clip.usr[2] \/ y > clip.usr[4]
  IN  IF \/ x < 0 \/ y < 0 \/ x >= FbW \/ x > clip.sys[1] \/ y > clip.sys[2]
         \/ mode.clips /\ outside # mode.outside
         \/ mode.mesh /\ (x + y) % 2 = 1
         \/ WrongField(clip, y) \/ Row(clip, y) >= FbH
      THEN -1 ELSE Row(clip, y)

\* put_replace: the short cut for commands with neither user clipping, mesh
\* nor colour calculation.
PutReplace(clip, x, y) ==
  IF \/ x < 0 \/ x >= FbW \/ y < 0 \/ x > clip.sys[1] \/ y > clip.sys[2]
     \/ WrongField(clip, y) \/ Row(clip, y) >= FbH
  THEN -1 ELSE Row(clip, y)

----------------------------------------------------------------------------
(* Colours and corners. *)

Transparent == -1
Clamped(n) == IF n < 0 THEN 0 ELSE IF n > 31 THEN 31 ELSE n

\* shade, one channel: the corner colours g weighted in 32nds along the span and
\* across the spans, as an offset from mid-grey.
Shade(base, g, u, v, umax, vmax) ==
  LET ru == (u * 32) \div Larger(umax, 1)
      rv == (v * 32) \div Larger(vmax, 1)
  IN  Clamped(base - 16 + ((g[1] * (32 - ru) + g[2] * ru) * (32 - rv)
                            + (g[4] * (32 - ru) + g[3] * ru) * rv) \div 1024)

\* put, one channel: the colour written over `dst' by the four colour
\* calculations of a command; -1 writes nothing.
Mixed(mode, src, dst, marked) ==
  CASE mode = 1 -> IF marked THEN dst \div 2 ELSE -1
    [] mode = 2 -> src \div 2
    [] mode = 3 /\ marked -> (src + dst) \div 2
    [] OTHER -> src

\* A scaled sprite's two coordinates on one axis: zoom point 0 takes them from
\* A and C, the others put size B after, around or before A.
Scaled(zoom, a, b, c) ==
  CASE zoom = 0 -> <<a, c>>
    [] zoom = 1 -> <<a, a + b>>
    [] zoom = 2 -> <<a - b \div 2, a + (b + 1) \div 2>>
    [] OTHER -> <<a - b, a>>

\* Division in C.
Quotient(n, d) == IF n < 0 THEN -((-n) \div d) ELSE n \div d

\* Lines and polylines, which have no corner pixels.
PlainLine(p, q) ==
  LET n == Larger(Larger(Abs(q.x - p.x), Abs(q.y - p.y)), 1)
  IN  {<<p.x + Quotient((q.x - p.x) * t, n), p.y + Quotient((q.y - p.y) * t, n)>> : t \in 0 .. n}

\* texel: what the frame buffer gets for a texel read as a code of `read' bits,
\* of which `depth' are the index.  All ones ends the texture's line, zero is
\* see-through; the index replaces the low bits of the bank in CMDCOLR.
Texel(depth, read, code, colr, spd, ecd) ==
  CASE code = 2^read - 1 /\ ~ecd -> Transparent
    [] code = 0 /\ ~spd -> Transparent
    [] OTHER -> colr - (colr % 2^depth) + (code % 2^depth)
=============================================================================
