----------------------------- MODULE Vdp2Screen -----------------------------
(***************************************************************************)
(* Where VDP2 finds what it shows (runner/src/vdp2.c): the window sets that *)
(* mask a layer, the tables that scroll its lines and columns, the walk     *)
(* from a dot through planes, pages and pattern names to a character, the   *)
(* bitmaps, and the rotation of RBG0.                                       *)
(*                                                                          *)
(* The powers of two the hardware fixes are parameters: Page dots in a      *)
(* page's side and Cell dots in a character's, 512 and 8 there.             *)
(***************************************************************************)
EXTENDS Integers, Sequences

LOCAL INSTANCE SequencesExt

Bit(b) == IF b THEN 1 ELSE 0

----------------------------------------------------------------------------
(* Windows: one mask per line of width w, TRUE where the layer is hidden. *)

\* A window's columns on this line: signed coordinates, where a negative end
\* stands for an empty window and a negative start for the left edge.
Columns(win, widest) ==
  LET sx == IF win.sx < 0 THEN 0 ELSE win.sx
      first == IF win.ex < 0 /\ sx >= 0 THEN widest ELSE sx
      last == IF win.ex < 0 THEN 0 ELSE win.ex
  IN  IF win.halved THEN first \div 2 .. last \div 2 ELSE first .. last

\* The code writes `or' into the window's columns, or into the others.
Marked(mask, cols, or, inverted) ==
  [x \in DOMAIN mask |-> IF (x \in cols) <=> (inverted # or) THEN or ELSE mask[x]]

WindowStep(set, y, mask, win) ==
  IF ~win.on THEN mask
  ELSE IF y < win.sy \/ y > win.ey
       THEN IF set.or = win.inverted THEN [x \in DOMAIN mask |-> TRUE] ELSE mask
  ELSE Marked(mask, Columns(win, set.widest), set.or, win.inverted)

\* win_calc: the two rectangles, then the sprite window.
WindowMask(set, y, w, spriteBits) ==
  LET rectangles == FoldLeft(LAMBDA mask, win : WindowStep(set, y, mask, win),
                             [x \in 0 .. w - 1 |-> ~set.or], set.wins)
      sprite == [x \in 0 .. w - 1 |-> spriteBits[x] # set.sprite.inverted]
  IN  CASE ~set.sprite.on /\ \A i \in DOMAIN set.wins : ~set.wins[i].on ->
             [x \in 0 .. w - 1 |-> FALSE]
        [] ~set.sprite.on -> rectangles
        [] set.or -> [x \in 0 .. w - 1 |-> rectangles[x] \/ sprite[x]]
        [] OTHER -> [x \in 0 .. w - 1 |-> rectangles[x] /\ sprite[x]]

----------------------------------------------------------------------------
(* Scroll tables. *)

\* line_scroll_build: each line's X, Y and zoom.  The table's pointer moves on as
\* lines take entries, every 2^interval lines and for the features switched on.
LineTable(ls, h, tab) ==
  LET takes(y) == y % 2^ls.interval = 0
      stride == Bit(ls.x) + Bit(ls.y) + Bit(ls.zoom)
      zoomed(v) == IF v <= 0 THEN 256 ELSE v
      line[y \in 0 .. h - 1] ==
        IF takes(y)
        THEN LET at == IF y = 0 THEN 0 ELSE line[y - 1].next
             IN  [x |-> IF ls.x THEN tab[at] ELSE 0,
                  y |-> IF ls.y THEN tab[at + Bit(ls.x)] ELSE 256 * y,
                  zoom |-> IF ls.zoom THEN zoomed(tab[at + Bit(ls.x) + Bit(ls.y)]) ELSE ls.step,
                  next |-> at + stride]
        ELSE [line[y - 1] EXCEPT !.y = IF ls.y THEN @ ELSE 256 * y]
  IN  [y \in 0 .. h - 1 |-> [x |-> line[y].x, y |-> line[y].y, zoom |-> line[y].zoom]]

\* cell_vscroll_prep: the offsets of NBG0's and NBG1's words in a column's entry
\* and the entry's size.  Every access slot that fetches for a layer adds one word;
\* the last one's offset counts.
CellScroll(on, slots0, slots1) ==
  LET Slot(s, t) ==
        LET a == IF on[1] /\ t \in slots0
                 THEN [s EXCEPT !.offset[1] = s.size, !.size = @ + 4,
                                !.delay[1] = t >= 3, !.repeat = t >= 2]
                 ELSE s
        IN  IF on[2] /\ t \in slots1
            THEN [a EXCEPT !.offset[2] = a.size, !.size = @ + 4, !.delay[2] = t >= 3]
            ELSE a
  IN  FoldLeft(Slot, [offset |-> <<0, 0>>, size |-> 0, delay |-> <<FALSE, FALSE>>,
                      repeat |-> FALSE],
               <<0, 1, 2, 3, 4, 5, 6, 7>>)

\* cell_pixel: the column entry of a dot at frac from a line that begins at base.
CellEntry(frac, base, repeat, delay) ==
  LET n == frac \div 2048 - base \div 2048
      m == IF repeat /\ n > 0 THEN n - 1 ELSE n
  IN  IF delay THEN m - 1 ELSE m              \* negative: no entry yet

----------------------------------------------------------------------------
(* Cells.  A configuration has Page and Cell, the side of a character in      *)
(* cells (1 or 2), the pages of a plane across and down, whether pattern      *)
(* names are one word, and the planes' addresses, grid by grid.               *)

\* Bytes of a pattern name and of a page, and patterns along a page's side.
NameBytes(c) == IF c.oneWord THEN 2 ELSE 4
PerPage(c) == c.page \div (c.cell * c.size)
\* Mutant: a page of big characters takes as many bytes as one of small ones.
PageBytesFlat(c) == NameBytes(c) * (c.page \div c.cell) * (c.page \div c.cell)

PageBytes(c) == NameBytes(c) * PerPage(c) * PerPage(c)

\* plane_addr: the low bits of the map register are dropped by planes of several
\* pages, and the upper ones by small characters.
PlaneAddr(c, v) ==
  LET pages == c.across * c.down
      kept == IF c.size = 1 THEN (IF c.oneWord THEN v % 64 ELSE v % 32)
              ELSE IF c.oneWord THEN v ELSE v % 128
  IN  (kept \div 2^(c.across + c.down - 2)) * pages * PageBytes(c)

\* cell_pixel: where the pattern name of the dot (x, y) of the surface is.
NameAddr(c, x, y) ==
  LET w == c.page * c.across   h == c.page * c.down
      px == x % (c.grid * w)   py == y % (c.grid * h)
      plane == (py \div h) * c.grid + px \div w
      page == ((py % h) \div c.page) * c.across + ((px % w) \div c.page)
      side == c.cell * c.size
      pattern == ((py % c.page) \div side) * PerPage(c) + ((px % c.page) \div side)
  IN  c.planes[plane + 1] + page * PageBytes(c) + pattern * NameBytes(c)

\* cell_decode_one_word: a name's character and flips, with the supplement's bits.
OneWord(c, t, supp) ==
  LET chars == IF c.aux THEN 12 ELSE 10
      low == t % 2^chars
      upper == IF c.aux THEN IF c.size = 1 THEN ((supp \div 4) % 8) * 4 ELSE ((supp \div 16) % 2) * 16
               ELSE IF c.size = 1 THEN supp % 32 ELSE ((supp \div 4) % 8) * 4
  IN  [char |-> IF c.size = 1 THEN low + upper * 1024 ELSE low * 4 + (supp % 4) + upper * 1024,
       flip |-> IF c.aux THEN 0 ELSE (t \div 1024) % 4,
       palette |-> IF c.colours = 0 THEN (t \div 4096) * 16 + ((supp \div 32) % 8) * 256
                   ELSE ((t \div 4096) % 8) * 256,
       special |-> (supp \div 512) % 2]

\* The same for a name of two words.
TwoWords(c, t1, t2) ==
  [char |-> t2 % 2^15, flip |-> t1 \div 2^14,
   palette |-> IF c.colours = 0 THEN (t1 % 128) * 16 ELSE ((t1 \div 16) % 8) * 256,
   special |-> (t1 \div 2^13) % 2]

\* The cell of a character, and the dot in it, that the dot (x, y) shows.
InCharacter(c, flip, x, y) ==
  LET side == c.cell * c.size
      cx == IF flip % 2 = 1 THEN side - 1 - (x % side) ELSE x % side
      cy == IF flip >= 2 THEN side - 1 - (y % side) ELSE y % side
  IN  [cell |-> (cy \div c.cell) * c.size + cx \div c.cell, x |-> cx % c.cell, y |-> cy % c.cell]

\* Beyond a rotation surface: repeated, one character, nothing, or nothing beyond
\* the first 512 dots.
Beyond(c, over, x, y) ==
  LET w == IF over = 3 THEN c.page ELSE c.grid * c.page * c.across
      h == IF over = 3 THEN c.page ELSE c.grid * c.page * c.down
      outside == x < 0 \/ y < 0 \/ x >= w \/ y >= h
  IN  CASE outside /\ over = 1 -> "pattern"
        [] outside /\ over # 0 -> "nothing"
        [] OTHER -> "surface"

----------------------------------------------------------------------------
(* Bitmaps. *)

\* bitmap_pixel: the dot of a bitmap of b.w by b.h.  Under line scroll a line
\* that runs over the right edge carries into the next row.
BitmapDot(b, x, y, lines) ==
  IF b.lines
  THEN LET dot == (((lines[y].y + b.fy) \div 256) % b.h) * b.w
                    + (lines[y].x + b.fx + x * lines[y].zoom) \div 256
           at == IF dot < 0 THEN 0 ELSE dot
       IN  <<at % b.w, (at \div b.w) % b.h>>
  ELSE <<((b.fx + x * b.zx) \div 256) % b.w, ((b.fy + y * b.zy) \div 256) % b.h>>

\* bitmap8_visible: whether the layer has anything to show in the display; only
\* whole dots of its scroll are looked at.
BitmapVisible(b, w, h, code) ==
  \/ ~b.transparent \/ b.colours # 1 \/ b.lines \/ b.zx # 256 \/ b.zy # 256
  \/ \E x \in 0 .. w - 1, y \in 0 .. h - 1 :
        code[<<(x + (b.fx \div 256)) % b.w, (y + (b.fy \div 256)) % b.h>>] # 0

\* MZCTL: a layer with mosaic shows the corner of each block.
Mosaic(on, x, y, mh, mv) == IF on THEN <<x - (x % mh), y - (y % mv)>> ELSE <<x, y>>

----------------------------------------------------------------------------
(* Rotation, in fixed point with One for 1.0. *)

Rounded(n, one) == n \div one                   \* the arithmetic shift

\* rot_decode: what holds for the whole frame.
RotFrame(r, One) ==
  [xp |-> r.A * (r.px - r.cx) + r.B * (r.py - r.cy) + r.C * (r.pz - r.cz) + r.cx * One + r.mx,
   yp |-> r.D * (r.px - r.cx) + r.E * (r.py - r.cy) + r.F * (r.pz - r.cz) + r.cy * One + r.my,
   incX |-> Rounded(r.A * r.dx + r.B * r.dy, One), incY |-> Rounded(r.D * r.dx + r.E * r.dy, One)]

\* What holds for line y.
RotLine(r, y, One) ==
  LET xs == r.xst + r.dxst * y - r.px * One   ys == r.yst + r.dyst * y - r.py * One
      zs == r.zst - r.pz * One
  IN  [x |-> Rounded(r.A * xs + r.B * ys + r.C * zs, One),
       y |-> Rounded(r.D * xs + r.E * ys + r.F * zs, One)]

\* A coefficient may scale one axis or both, or take Xp's place (mode 3).
RotDot(r, f, l, x, coeff, One) ==
  LET kx == IF r.table /\ r.mode \in {0, 1} THEN coeff ELSE r.kx
      ky == IF r.table /\ r.mode \in {0, 2} THEN coeff ELSE r.ky
      xp == IF r.table /\ r.mode = 3 THEN 4 * coeff ELSE f.xp
  IN  <<Rounded(Rounded(kx * (l.x + f.incX * x), r.unit) + xp, One),
        Rounded(Rounded(ky * (l.y + f.incY * x), r.unit) + f.yp, One)>>

\* The index into the coefficient table at dot x of line y: the table moves on
\* per dot only where a memory bank is given to it, and every other dot in the
\* doubled modes.
CoeffIndex(r, y, x) ==
  r.ka + r.dkast * y
    + (IF ~r.perDot THEN 0 ELSE IF r.doubled THEN r.dkax * (x \div 2) ELSE r.dkax * x)
=============================================================================
