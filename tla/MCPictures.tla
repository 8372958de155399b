----------------------------- MODULE MCPictures -----------------------------
(* The arithmetic of VDP1's rasteriser and of VDP2, against what it stands    *)
(* for.  A state is one question, put to the operators of Vdp1Draw,            *)
(* Vdp2Screen and Vdp2Dot.                                                     *)
EXTENDS Vdp1Draw, TLC

D == INSTANCE Vdp2Dot
S == INSTANCE Vdp2Screen

VARIABLE input                  \* <<kind, arguments...>>

P(xs, ys) == [x : xs, y : ys]
Clips == [sys : {<<2, 2>>, <<3, 1>>}, usr : {<<0, 1, 2, 2>>, <<1, 0, 1, 3>>},
          die : BOOLEAN, select : BOOLEAN, dil : BOOLEAN]
Modes == [clips : BOOLEAN, outside : BOOLEAN, mesh : BOOLEAN]

Off == [on |-> FALSE, inverted |-> FALSE, sx |-> 0, ex |-> 0, sy |-> 0, ey |-> 0, halved |-> FALSE]
Wins == {Off} \cup [on : {TRUE}, inverted : BOOLEAN, sx : {-2, 0, 1, 3}, ex : {-2, 1, 3},
                    sy : {0, 1}, ey : {1}, halved : {FALSE}]

Cells == {c \in [page : {4}, cell : {1}, size : {1, 2}, grid : {2}, across : {1, 2},
                 down : {1, 2}, oneWord : BOOLEAN] : c.down <= c.across}

Bgs(l) == [layer : {l}, pri : {0, 4, 5}, mode : {0, 1}, flag : BOOLEAN, opaque : BOOLEAN,
           code : {1}, special : {{}}, ccMode : {0}, ccFlag : {FALSE}, msb : {FALSE},
           windowed : {FALSE}, col : {64 + 32 * l}]
MixBgs(l) == {b \in Bgs(l) : b.mode = 0 /\ b.opaque /\ ~b.flag}
Sprites == [pri : {0, 4, 5, 6}, spec : {"normal", "shadow"}, col : {240}, ratio : {0},
            winbit : BOOLEAN, msb : {TRUE}]
Meshes == {D!NoDot, [D!NoDot EXCEPT !.pri = 5, !.spec = "normal", !.col = 128]}
Regs(on) == [ccOn : on, usesWindow : BOOLEAN, shadowOn : {{0, 5}}, offsetOn : {{4, 6}},
             offsetB : {{6}}, offset : {<<500, 30>>}, cond : {0}, condPri : {7},
             extended : {FALSE}, lineOn : {{}}, lineBlends : {FALSE}, lineCol : {0},
             secondRatio : {FALSE}, ccWindowed : {FALSE}, add : {FALSE}, ratios : {<<>>},
             weight : {<<>>}, lineRatio : {0}]
Mixes == [ccOn : SUBSET {0, 4, 6}, usesWindow : {FALSE}, shadowOn : {{}}, offsetOn : {{}},
          offsetB : {{}}, offset : {<<0, 0>>}, cond : {0, 3}, condPri : {5},
          extended : BOOLEAN, lineOn : {{}, {0}}, lineBlends : BOOLEAN, lineCol : {16},
          secondRatio : BOOLEAN, ccWindowed : BOOLEAN, add : BOOLEAN,
          ratios : {[i \in 0 .. 7 |-> 4]}, weight : {[l \in 0 .. 6 |-> 5 * l]}, lineRatio : {9}]

Init ==
  \/ input \in {"span"} \X P(-3 .. 3, -3 .. 3) \X P(-3 .. 3, -3 .. 3)
  \/ input \in {"quad"} \X P({0}, {0}) \X P(1 .. 4, -2 .. 2) \X P(1 .. 4, 1 .. 4) \X P(-1 .. 2, 1 .. 4)
  \/ input \in {"column"} \X (0 .. 12) \X (0 .. 9)
  \/ input \in {"shade"} \X {0, 16, 31} \X [1 .. 4 -> {0, 16, 31}]
  \/ input \in {"texel"} \X (0 .. 15) \X {48, 53} \X BOOLEAN \X BOOLEAN
  \/ input \in {"pixel"} \X Clips \X Modes \X ((-1 .. 4) \X (-1 .. 7))
  \/ input \in {"blend"} \X (0 .. 3) \X {0, 9, 30, 31} \X {0, 9, 30, 31} \X BOOLEAN
  \/ input \in {"sprite"} \X (0 .. 3) \X (-2 .. 2) \X (0 .. 5)
  \/ input \in {"window"} \X Wins \X Wins \X BOOLEAN \X BOOLEAN \X {0, 1}
  \/ input \in {"cells"} \X Cells
  \/ input \in {"name"} \X [size : {1, 2}, aux : BOOLEAN, colours : {0, 1}] \X {0, 3, 1023}
                        \X {0, 1, 1023, 4095, 65535}
  \/ input \in {"flip"} \X [cell : {2, 3}, size : {1, 2}] \X (0 .. 3)
  \/ input \in {"turn"} \X [table : BOOLEAN, mode : 0 .. 3, px : {0, 3}, cx : {0, 5}, mx : {0, 8},
                            xst : {0, 12}] \X (0 .. 3) \X (0 .. 3)
  \/ input \in {"table"} \X [x : BOOLEAN, y : BOOLEAN, zoom : BOOLEAN, interval : 0 .. 2,
                             step : {256}] \X (1 .. 9)
  \/ input \in {"blocks"} \X (1 .. 3) \X (1 .. 4)
  \/ input \in {"coefficients"} \X (1 .. 6) \X BOOLEAN \X BOOLEAN
  \/ input \in {"columns"} \X (BOOLEAN \X BOOLEAN) \X (SUBSET {0, 2, 3}) \X (SUBSET {1, 2, 7})
  \/ input \in {"bitmap"} \X [w : {2}, h : {2}, fx : {0, 255, 256, 511}, fy : {0, 128}, zx : {256, 512},
                              zy : {256}, transparent : BOOLEAN, colours : {0, 1}, lines : {FALSE}]
                          \X [(0 .. 1) \X (0 .. 1) -> {0, 1}]
  \/ input \in {"dot"} \X Regs({{}}) \X Bgs(4) \X Bgs(0) \X Sprites \X Meshes
  \/ input \in {"mix"} \X Mixes \X MixBgs(4) \X MixBgs(0)
                  \X {D!NoDot, [D!NoDot EXCEPT !.pri = 5, !.spec = "normal", !.col = 200]} \X Meshes
  \/ input \in {"word"} \X (0 .. 15) \X BOOLEAN \X {0, 1, 254, 255, 1022, 2046, 32768, 32770, 65535}

Next == UNCHANGED input
Spec == Init /\ [][Next]_input

Is(kind) == input[1] = kind

----------------------------------------------------------------------------
Near(a, b) == Abs(a[1] - b[1]) + Abs(a[2] - b[2]) = 1

\* The part of `set' that hangs together with `from'.
RECURSIVE Reach(_, _)
Reach(from, set) ==
  LET more == from \cup {b \in set : \E a \in from : Near(a, b)}
  IN  IF more = from THEN from ELSE Reach(more, set)

SpanIsConnected ==
  Is("span") =>
    LET p == input[2]   q == input[3]   at == Span(p, q)   l == Line(p, q).length
        pixels == Pixels(p, q)
    IN  /\ <<at[0].x, at[0].y>> = <<p.x, p.y>> /\ <<at[l].x, at[l].y>> = <<q.x, q.y>>
        /\ Reach({<<p.x, p.y>>}, pixels) = pixels

\* A line drawn as a line has one pixel for each step of its longer axis, from
\* one end to the other.
LineIsStepped ==
  Is("span") =>
    LET p == input[2]   q == input[3]   n == Larger(Abs(q.x - p.x), Abs(q.y - p.y))
        pixels == PlainLine(p, q)
    IN  /\ {<<p.x, p.y>>, <<q.x, q.y>>} \subseteq pixels /\ Cardinality(pixels) = n + 1
        /\ \A a \in pixels : a = <<q.x, q.y>> \/ \E b \in pixels :
             b # a /\ Abs(b[1] - a[1]) <= 1 /\ Abs(b[2] - a[2]) <= 1
                  /\ Abs(b[1] - q.x) + Abs(b[2] - q.y) < Abs(a[1] - q.x) + Abs(a[2] - q.y)

Turn(a, b, c) == (b.x - a.x) * (c.y - b.y) - (b.y - a.y) * (c.x - b.x)
Convex(a, b, c, d) == Turn(a, b, c) > 0 /\ Turn(b, c, d) > 0 /\ Turn(c, d, a) > 0 /\ Turn(d, a, b) > 0

EdgesArrive(p, q, n) == EdgeWalk(p, q, n)[n].x = q.x /\ EdgeWalk(p, q, n)[n].y = q.y

NoHoles(set) ==
  \A x, y \in -2 .. 5 :
    {<<x + 1, y>>, <<x - 1, y>>, <<x, y + 1>>, <<x, y - 1>>} \subseteq set => <<x, y>> \in set

QuadIsFull ==
  Is("quad") =>
    LET a == input[2]   b == input[3]   c == input[4]   d == input[5]   n == Steps(a, b, c, d)
    IN  /\ EdgesArrive(a, d, n) /\ EdgesArrive(b, c, n)
        /\ Convex(a, b, c, d) => NoHoles(Quad(a, b, c, d))

\* A quad has no gaps: each of its spans runs from the left edge to the right one
\* without a break, the edges end in the corners, and a convex quad has no pixel
\* missing inside.  (vdp1.c: quad, edge_step, line_step.)
QuadIsSolid == SpanIsConnected /\ LineIsStepped /\ QuadIsFull

----------------------------------------------------------------------------
ColumnIsQuotient ==
  Is("column") =>
    LET tw == input[2]   n == input[3]
    IN  \A j \in 0 .. n : tw > 0 => Column(tw, n)[j] = (j * tw) \div (n + 1)

CornersKeepColours ==
  Is("shade") =>
    LET base == input[2]   g == input[3]
        At(u, v) == Shade(base, g, u, v, 7, 5)
        Corner(i) == Clamped(base + g[i] - 16)
    IN  /\ At(0, 0) = Corner(1) /\ At(7, 0) = Corner(2) /\ At(7, 5) = Corner(3) /\ At(0, 5) = Corner(4)
        /\ \A u \in 0 .. 7, v \in 0 .. 5 :
             (\A i \in 1 .. 4 : g[i] = g[1]) => At(u, v) = Corner(1)

TexelKeepsBank ==
  Is("texel") =>
    LET t == Texel(4, 4, input[2], input[3], input[4], input[5])
    IN  t # Transparent => t \div 16 = input[3] \div 16 /\ t % 16 = input[2]

ScaledKeepsSize ==
  Is("sprite") =>
    LET zoom == input[2]   a == input[3]   b == input[4]   s == Scaled(zoom, a, b, a + b)
    IN  s[2] - s[1] = b

\* Half transparency is between the two colours, a shadow darkens what is there, and
\* neither touches what is not a colour.
BlendKeepsBetween ==
  Is("blend") =>
    LET mode == input[2]   src == input[3]   dst == input[4]   marked == input[5]
        c == Mixed(mode, src, dst, marked)
    IN  /\ mode = 3 /\ marked => c \in src .. dst \/ c \in dst .. src
        /\ mode = 1 => (c = -1) = ~marked /\ c <= dst
        /\ mode # 1 /\ ~marked => c \in {src, src \div 2} /\ c = Mixed(mode, src, 31 - dst, marked)

\* What a sprite shows does not depend on how it is put there: the stepped texture
\* column is the quotient it replaces, the corners of a shaded quad have their
\* vertices' colours, a texel keeps the upper bits of its bank, a scaled sprite is
\* as large whichever point it is held by, and a colour calculation stays between
\* its colours.  (vdp1.c: quad, shade, texel, put.)
SamplingIsExact == ColumnIsQuotient /\ CornersKeepColours /\ TexelKeepsBank /\ ScaledKeepsSize
                   /\ BlendKeepsBetween

\* The short cut for plain commands draws what the full path draws: a pixel put by
\* put_replace is put by put, on the same row, and neither leaves the system
\* clipping area or the frame buffer.  (vdp1.c: put, put_replace.)
ClippingAgrees ==
  Is("pixel") =>
    LET clip == input[2]   mode == input[3]   x == input[4][1]   y == input[4][2]
        row == Put(clip, mode, x, y)
    IN  /\ ~mode.clips /\ ~mode.mesh => row = PutReplace(clip, x, y)
        /\ row # -1 => x \in 0 .. clip.sys[1] /\ y \in 0 .. clip.sys[2] /\ row < FbH

----------------------------------------------------------------------------
Inside(win, x, y) == y \in win.sy .. win.ey /\ x \in S!Columns(win, 9)
SpriteBits == [x \in 0 .. 3 |-> x \in {1, 2}]

Set(or, sw) == [or |-> or, wins |-> <<input[2], input[3]>>, widest |-> 9,
                sprite |-> [on |-> sw, inverted |-> FALSE]]

\* Whether the set's windows hide the dot, each with its sense.
Hides(x, y, or, sw) ==
  LET on == {i \in {2, 3} : input[i].on}
      In(i) == Inside(input[i], x, y) # input[i].inverted
  IN  CASE on = {} /\ ~sw -> FALSE
        [] or -> (\E i \in on : In(i)) \/ (sw /\ SpriteBits[x])
        [] OTHER -> (\A i \in on : In(i)) /\ (sw => SpriteBits[x])

MaskIs(relevant(_)) ==
  Is("window") =>
    LET or == input[4]   sw == input[5]   y == input[6]
        mask == S!WindowMask(Set(or, sw), y, 4, SpriteBits)
    IN  relevant(y) => \A x \in 0 .. 3 : mask[x] = Hides(x, y, or, sw)

\* Under AND, the lines above and below an upright window are another matter.
Crossed(y) == input[4] \/ \A i \in {2, 3} : input[i].on /\ ~input[i].inverted => y \in input[i].sy .. input[i].ey
MaskIsWindows == MaskIs(Crossed)

Everywhere(y) == TRUE
\* vdp2.c:565-570 says of the masks that TRUE hides a dot "inside active window
\* area", whether a set's windows are combined with AND or OR.
WindowsHideInside == MaskIs(Everywhere)

PatternNamesAbut ==
  Is("cells") =>
    LET shift == input[2].across + input[2].down - 2
        c == input[2] @@ [planes |-> [i \in 1 .. 4 |-> S!PlaneAddr(input[2], (i - 1) * 2^shift)]]
        w == c.grid * c.across * c.page   h == c.grid * c.down * c.page
        names == {S!NameAddr(c, x, y) : x \in 0 .. w - 1, y \in 0 .. h - 1}
        count == (w * h) \div (c.size * c.size)
    IN  names = {S!NameBytes(c) * k : k \in 0 .. count - 1}

\* A one-word name's low bits name different characters, and its character is one
\* that a name of two words can have.
NamesAreCharacters ==
  Is("name") =>
    LET n == S!OneWord(input[2], input[4], input[3])
        two == S!TwoWords(input[2], n.flip * 2^14, n.char)
        bits == IF input[2].aux THEN 4096 ELSE 1024
        Other(t) == S!OneWord(input[2], t, input[3]).char
    IN  /\ two.char = n.char /\ two.flip = n.flip
        /\ \A t \in {0, 1, 5, bits - 1} : t # input[4] % bits => Other(t) # n.char

FlipsAreOneToOne ==
  Is("flip") =>
    LET side == input[2].cell * input[2].size
        dots == (0 .. side - 1) \X (0 .. side - 1)
    IN  Cardinality({S!InCharacter(input[2], input[3], d[1], d[2]) : d \in dots}) = side * side

\* A surface that is not turned is scrolled, whatever point it turns about, and a
\* coefficient of 1 leaves it so.
TurnByNothing ==
  Is("turn") =>
    LET one == 4   x == input[3]   y == input[4]
        r == input[2] @@ [A |-> one, B |-> 0, C |-> 0, D |-> 0, E |-> one, F |-> 0,
                          py |-> 1, pz |-> 2, cy |-> 0, cz |-> 1, my |-> 4, yst |-> 0, zst |-> 0,
                          dx |-> one, dy |-> 0, dxst |-> 0, dyst |-> one,
                          kx |-> 16, ky |-> 16, unit |-> 16]
        coeff == IF r.mode = 3 THEN S!RotFrame(r, one).xp \div 4 ELSE 16
    IN  S!RotDot(r, S!RotFrame(r, one), S!RotLine(r, y, one), x, coeff, one)
          = <<x + (r.xst + r.mx) \div one, y + 1>>

LinesTakeTheirEntry ==
  Is("table") =>
    LET ls == input[2]   stride == S!Bit(ls.x) + S!Bit(ls.y) + S!Bit(ls.zoom)
        lines == S!LineTable(ls, input[3], [i \in 0 .. 30 |-> 1000 + i])
        Entry(y, k) == 1000 + (y \div 2^ls.interval) * stride + k
    IN  \A y \in 0 .. input[3] - 1 :
          /\ lines[y].x = (IF ls.x THEN Entry(y, 0) ELSE 0)
          /\ lines[y].y = (IF ls.y THEN Entry(y, S!Bit(ls.x)) ELSE 256 * y)
          /\ lines[y].zoom = (IF ls.zoom THEN Entry(y, stride - 1) ELSE 256)

\* A mosaic shows as many dots as it has blocks, and leaves those as they are.
BlocksShowOneDot ==
  Is("blocks") =>
    LET At(x, y) == S!Mosaic(TRUE, x, y, input[2], input[3])
        shown == {At(x, y) : x \in 0 .. 11, y \in 0 .. 11}
    IN  /\ Cardinality(shown) = (12 \div input[2]) * (12 \div input[3])
        /\ \A d \in shown : At(d[1], d[2]) = d

\* With a line's worth of entries between lines, no two lines share a coefficient, and a
\* line that takes one per dot takes one for every dot, or for every two.
LinesHaveOwnCoefficients ==
  Is("coefficients") =>
    LET w == input[2]   each == IF input[4] THEN (w + 1) \div 2 ELSE w
        r == [ka |-> 3, dkast |-> IF input[3] THEN each ELSE 1, dkax |-> 1,
              perDot |-> input[3], doubled |-> input[4]]
        Of(y) == {S!CoeffIndex(r, y, x) : x \in 0 .. w - 1}
    IN  /\ \A y, z \in 0 .. 3 : y # z => Of(y) \cap Of(z) = {}
        /\ \A y \in 0 .. 3 : Cardinality(Of(y)) = IF input[3] THEN each ELSE 1

ColumnsHaveOwnWords ==
  Is("columns") =>
    LET c == S!CellScroll(input[2], input[3], input[4])
        Fetches(k, slots) == input[2][k] /\ slots # {}
    IN  /\ Fetches(1, input[3]) => c.offset[1] < c.size
        /\ Fetches(2, input[4]) => c.offset[2] < c.size
        /\ Fetches(1, input[3]) /\ Fetches(2, input[4]) => c.offset[1] # c.offset[2]
        /\ \A dot \in 0 .. 20 : S!CellEntry(5 * 256 + dot * 256, 5 * 256, c.repeat, FALSE) <= dot \div 8 + 1

\* VDP2 reads what the registers lay out: the window sets hide a dot where their
\* windows say so, the pattern names of a surface's planes and pages follow each
\* other without gap or overlap, a character's dots are all shown, whichever way it is
\* flipped, a rotation by nothing is a scroll, each line takes the scroll entry of its interval
\* and its own coefficients, a mosaic block shows one dot,
\* and two layers' column scrolls do not share a word.  (vdp2.c: win_calc,
\* plane_addr, cell_pixel, line_scroll_build, cell_vscroll_prep.)
LayoutIsRead == MaskIsWindows /\ PatternNamesAbut /\ NamesAreCharacters
                /\ FlipsAreOneToOne /\ TurnByNothing /\ LinesTakeTheirEntry /\ ColumnsHaveOwnWords
                /\ BlocksShowOneDot /\ LinesHaveOwnCoefficients

----------------------------------------------------------------------------
Regs1 == input[2]
Layers2 == <<input[3], input[4]>>
Back1 == 8

\* The stack's keys are the three best of the layers that show, or the back's.
RanksLayers ==
  Is("dot") \/ Is("mix") =>
    LET stack == D!BgStack(Layers2, Back1)
        keys == {D!SortKey(b.layer, D!DotPriority(b)) : b \in {c \in {input[3], input[4]} : D!Shows(c)}}
        back == D!SortKey(D!Back, 0)
    IN  /\ keys \subseteq {stack[1].key, stack[2].key}
        /\ stack[1].key >= stack[2].key /\ stack[2].key >= stack[3].key
        /\ stack[3].key = back

CacheAgrees ==
  Is("dot") => D!FromCache(Regs1, Layers2, Back1, input[5], input[6])
                 = D!Composed(Regs1, Layers2, Back1, input[5], input[6])

EarlyAgrees(apart) ==
  (Is("dot") /\ D!SpriteIsFinal(Regs1, Layers2, input[5], input[6]) /\ ~apart) =>
    D!Early(Regs1, input[5]) = D!Composed(Regs1, Layers2, Back1, input[5], input[6])

\* What the early way out does not look at: the sprite's own shadow bit, and
\* pattern names that raise a background above its priority.
OwnShadow == ~Regs1.usesWindow /\ input[5].winbit
Raised == \E b \in {input[3], input[4]} : D!Shows(b) /\ D!DotPriority(b) > b.pri

\* Blending, but for the additive one, gives a colour between the two it blends.
BlendsBetween ==
  Is("mix") =>
    LET stack == D!BgStack(Layers2, Back1)
        sprite == input[5]
        all == IF sprite.pri > 0 THEN D!Push(stack, D!Entry(D!Sprite, sprite.pri, sprite.col)) ELSE stack
        blending == D!Blending(Regs1, Layers2)
        second == D!Second(Regs1, all, input[6], blending)
        c == D!Calculated(Regs1, all, sprite, input[6], blending)
    IN  IF all[1].layer \notin blending \/ Regs1.ccWindowed THEN c = all[1].col
        ELSE IF Regs1.add THEN c >= all[1].col
        ELSE c \in all[1].col .. second \/ c \in second .. all[1].col

EmptyIsInvisible ==
  Is("bitmap") =>
    LET b == input[2]   code == input[3]
    IN  ~S!BitmapVisible(b, 2, 2, code) =>
          \A x, y \in 0 .. 1 : code[S!BitmapDot(b, x, y, << >>)] = 0

\* A word that is neither nothing nor a window keeps a priority the tables give,
\* and a transparent one is shown by no rule.
WordsHavePlaces ==
  Is("word") =>
    LET regs == [type |-> input[2], rgb |-> input[3], usesWindow |-> TRUE, windowOn |-> TRUE,
                 windowInv |-> FALSE, cond |-> 3, prio |-> [i \in 0 .. 7 |-> 7 - i]]
        dot == D!SpriteDot(regs, input[4], [col |-> 1, rgb |-> 2, msb |-> TRUE])
        mesh == D!MeshDot(regs, input[4], [col |-> 1, rgb |-> 2, msb |-> TRUE])
    IN  /\ dot.winbit => dot.pri = 0
        /\ dot.pri > 0 => dot.spec # "transparent"
        /\ mesh.pri > 0 => mesh.spec = "normal"

\* The short cuts show what the whole pipeline shows: the composite cache, the
\* sprite that needs no background (without its shadow bit and raised pattern
\* names) and the bitmap that need not be looked at; and the pipeline ranks the
\* layers by priority and blends between the two on top.  (vdp2.c: vdp2_render,
\* bitmap8_visible.)
DotIsComposed ==
  /\ RanksLayers /\ CacheAgrees /\ EarlyAgrees(OwnShadow \/ Raised)
  /\ BlendsBetween /\ EmptyIsInvisible /\ WordsHavePlaces

\* vdp2.c:2093-2096: "a normal sprite whose key exceeds every possible background
\* key is already the final answer."
EarlyOutIsFinal == EarlyAgrees(FALSE)

\* vdp2.c:34-39 of the colour RAM's wrap: "Masking everything with the full 4 KB
\* let a mode-0 index past 1024 words read colours the hardware would never
\* return."
MsbIsOfTheColour ==
  Is("column") => D!CramMsbAt(0, 1020 + input[2]) = D!CramAt(0, 1020 + input[2])
=============================================================================
