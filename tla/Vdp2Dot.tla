------------------------------ MODULE Vdp2Dot ------------------------------
(***************************************************************************)
(* One dot of the picture VDP2 composes (vdp2_render in runner/src/vdp2.c): *)
(* how a word of VDP1's frame buffer becomes a sprite dot, how the layers   *)
(* are ranked, and what colour calculation, the line colour, shadows, the   *)
(* colour offset and the transparent mesh make of the ones on top.          *)
(*                                                                          *)
(* A colour is one of its three channels, which the unit treats alike.      *)
(* Layers are numbered as in the code: 0 .. 3 are NBG0 .. NBG3, 4 is RBG0,  *)
(* 5 the back screen and 6 the sprites.                                     *)
(***************************************************************************)
EXTENDS Integers, Sequences

LOCAL INSTANCE SequencesExt

Layers == 0 .. 6
Back == 5
Sprite == 6

Field(word, shift, bits) == (word \div 2^shift) % 2^bits
Flag(word, bit) == Field(word, bit, 1) = 1

----------------------------------------------------------------------------
(* Colour RAM. *)

\* cram_colour: the byte a palette index is read at, by RAMCTL's mode.
CramAt(mode, index) ==
  CASE mode = 2 -> (index % 1024) * 4
    [] mode = 0 -> (index % 1024) * 2
    [] OTHER    -> (index % 2048) * 2

\* cram_msb: the byte whose upper bit is the colour's MSB.
CramMsbAt(mode, index) ==
  IF mode = 2 THEN (index % 1024) * 4 ELSE (index % 2048) * 2

\* rgb555: five bits widened to eight.
Widened(c) == c * 8 + c \div 4

\* cc_blend: a sum that saturates, or the top weighted in 32nds.
Blend(top, below, weight, add) ==
  IF add THEN IF top + below > 255 THEN 255 ELSE top + below
  ELSE below + ((top - below) * weight) \div 32

\* colour_offset and apply_offset: nine bits of two's complement, clamped.
Offset(layer, regs) ==
  IF layer \notin regs.offsetOn THEN 0
  ELSE LET v == regs.offset[IF layer \in regs.offsetB THEN 2 ELSE 1] % 512
       IN  IF v >= 256 THEN v - 512 ELSE v

Shifted(colour, by) ==
  LET c == colour + by IN IF c < 0 THEN 0 ELSE IF c > 255 THEN 255 ELSE c

----------------------------------------------------------------------------
(* Sprite dots. *)

\* The sixteen sprite types: width of the colour code, place and width of the
\* priority and ratio indices (-1: none), and whether bit 15 is the shadow and
\* window bit.
SpriteType ==
  LET T(d, p, pb, c, cb, sw) ==
        [dbits |-> d, cbits |-> d, pshift |-> p, pbits |-> pb,
         rshift |-> c, rbits |-> cb, sw |-> sw]
      Byte(d, m, p, pb, c, cb) == [T(d, p, pb, c, cb, FALSE) EXCEPT !.cbits = m]
  IN  [t \in 0 .. 15 |->
        CASE t = 0  -> T(11, 14, 2, 11, 3, FALSE)
          [] t = 1  -> T(11, 13, 3, 11, 2, FALSE)
          [] t = 2  -> T(11, 14, 1, 11, 3, TRUE)
          [] t = 3  -> T(11, 13, 2, 11, 2, TRUE)
          [] t = 4  -> T(10, 13, 2, 10, 3, TRUE)
          [] t = 5  -> T(11, 12, 3, 11, 1, TRUE)
          [] t = 6  -> T(10, 12, 3, 10, 2, TRUE)
          [] t = 7  -> T(9, 12, 3, 9, 3, TRUE)
          [] t = 8  -> Byte(7, 7, 7, 1, -1, 0)
          [] t = 9  -> Byte(6, 6, 7, 1, 6, 1)
          [] t = 10 -> Byte(6, 6, 6, 2, -1, 0)
          [] t = 11 -> Byte(6, 6, -1, 0, 6, 2)
          [] t = 12 -> Byte(8, 8, 7, 1, -1, 0)
          [] t = 13 -> Byte(8, 8, 7, 1, 6, 1)
          [] t = 14 -> Byte(8, 8, 6, 2, -1, 0)
          [] OTHER  -> Byte(8, 8, -1, 0, 6, 2)]

Indexed(word, shift, bits) == IF shift < 0 THEN 0 ELSE Field(word, shift, bits)

NoDot == [pri |-> 0, spec |-> "transparent", col |-> 0, ratio |-> 0,
          winbit |-> FALSE, msb |-> FALSE]

\* What a palette code stands for: all ones but the last bit is a shadow.
Special(ty, word) ==
  IF word % 2^15 = 0 THEN "transparent"
  ELSE IF Field(word, 0, ty.cbits) = 2^ty.dbits - 2 THEN "shadow" ELSE "normal"

\* A frame-buffer word whose palette code selects the colour RAM entry `entry';
\* the colour of an RGB word is `entry.rgb'.
RgbDot(regs, word, entry) ==
  IF \/ regs.type >= 8 /\ word % 256 = 0
     \/ regs.type \in 2 .. 7 /\ regs.usesWindow /\ word % 2^15 = 0
  THEN NoDot
  ELSE [NoDot EXCEPT !.pri = regs.prio[0], !.spec = "normal", !.col = entry.rgb, !.msb = TRUE]

PaletteDot(regs, word, entry) ==
  LET ty == SpriteType[regs.type]
      sw == ty.sw /\ Flag(word, 15)
      spec == Special(ty, word)
  IN  IF regs.usesWindow /\ regs.windowOn /\ sw # regs.windowInv
      THEN [NoDot EXCEPT !.winbit = TRUE]          \* only a source for window sets
      ELSE [pri |-> IF spec = "transparent" /\ ~sw THEN 0
                    ELSE regs.prio[Indexed(word, ty.pshift, ty.pbits)],
            spec |-> spec, col |-> entry.col, winbit |-> sw,
            ratio |-> Indexed(word, ty.rshift, ty.rbits),
            msb |-> regs.cond = 3 /\ entry.msb]

SpriteDot(regs, word, entry) ==
  IF word = 0 THEN NoDot
  ELSE IF regs.rgb /\ Flag(word, 15) THEN RgbDot(regs, word, entry)
  ELSE PaletteDot(regs, word, entry)

\* The mesh frame buffer's word, decoded as a second sprite layer: never a
\* window or a shadow.
MeshDot(regs, word, entry) ==
  LET ty == SpriteType[regs.type]   spec == Special(ty, word)
  IN  CASE word = 0 -> NoDot
        [] regs.rgb /\ Flag(word, 15) /\ regs.type >= 8 /\ word % 256 = 0 -> NoDot
        [] regs.rgb /\ Flag(word, 15) ->
             [NoDot EXCEPT !.pri = regs.prio[0], !.spec = "normal", !.col = entry.rgb, !.msb = TRUE]
        [] OTHER ->
             [NoDot EXCEPT !.spec = spec, !.col = entry.col, !.msb = regs.cond = 3 /\ entry.msb,
                !.ratio = Indexed(word, ty.rshift, ty.rbits),
                !.pri = IF spec = "normal" THEN regs.prio[Indexed(word, ty.pshift, ty.pbits)]
                        ELSE 0]

----------------------------------------------------------------------------
(* Ranking. *)

\* SORT_KEY: priority first, then the sprites, RBG0, NBG0 .. NBG3, the back.
SortKey(layer, pri) ==
  8 * pri + 7 - (CASE layer = Sprite -> 0 [] layer = 4 -> 1 [] layer = Back -> 6
                   [] OTHER -> layer + 2)

Entry(layer, pri, col) == [key |-> SortKey(layer, pri), layer |-> layer, col |-> col]

Bottom(back) == LET e == Entry(Back, 0, back) IN <<e, e, e>>

\* Mutant: a layer that loses its rank is thrown away.
PushDropping(stack, e) == IF e.key > stack[1].key THEN <<e, stack[2], stack[3]>> ELSE stack

\* PUSH: the three best so far.
Push(stack, e) ==
  CASE e.key > stack[1].key -> <<e, stack[1], stack[2]>>
    [] e.key > stack[2].key -> <<stack[1], e, stack[2]>>
    [] e.key > stack[3].key -> <<stack[1], stack[2], e>>
    [] OTHER -> stack

\* The priority of a background's dot: SFPRMD replaces the lowest bit by the
\* pattern's flag, or by the flag where the dot's colour code is a special one.
\* code is -1 for an RGB dot.
Selected(b) == b.code >= 0 /\ b.code \in b.special
DotPriority(b) ==
  LET even == 2 * (b.pri \div 2)
  IN  CASE b.mode = 1 -> even + (IF b.flag THEN 1 ELSE 0)
        [] b.mode = 2 -> even + (IF b.flag /\ Selected(b) THEN 1 ELSE 0)
        [] OTHER -> b.pri

\* Whether a background's dot takes part in colour calculation.
DotBlends(regs, b) ==
  /\ b.layer \in regs.ccOn
  /\ CASE b.ccMode = 0 -> TRUE
       [] b.ccMode = 1 -> b.ccFlag
       [] b.ccMode = 2 -> b.ccFlag /\ (b.code < 0 \/ Selected(b))
       [] OTHER -> b.msb

\* A background shows where it is switched on with a priority, outside its
\* windows, and its dot is not transparent.
Shows(b) == b.pri > 0 /\ ~b.windowed /\ b.opaque

\* The backgrounds' stack, in the order the code visits them: RBG0, NBG0 ..
BgStack(bgs, back) ==
  FoldLeft(LAMBDA stack, b : IF Shows(b) THEN Push(stack, Entry(b.layer, DotPriority(b), b.col))
                             ELSE stack,
           Bottom(back), bgs)

----------------------------------------------------------------------------
(* What becomes of the stack. *)

\* SPCTL's condition on a sprite dot, or the mesh's.
Condition(regs, dot) ==
  CASE regs.cond = 0 -> dot.pri <= regs.condPri
    [] regs.cond = 1 -> dot.pri = regs.condPri
    [] regs.cond = 2 -> dot.pri >= regs.condPri
    [] OTHER -> dot.msb

\* The layers whose dot blends: all those with colour calculation, but for the
\* backgrounds whose dot does not qualify.
Blending(regs, bgs) ==
  {l \in regs.ccOn : \A i \in DOMAIN bgs : bgs[i].layer = l /\ Shows(bgs[i]) => DotBlends(regs, bgs[i])}

\* Where a mesh dot comes in the stack: 1, 2 or 3, or 0.
MeshPlace(stack, mesh) ==
  IF mesh.pri = 0 \/ mesh.spec # "normal" THEN 0
  ELSE CASE mesh.pri >= stack[1].key \div 8 -> 1
         [] mesh.pri >= stack[2].key \div 8 -> 2
         [] mesh.pri >= stack[3].key \div 8 -> 3
         [] OTHER -> 0

\* A sprite's shadow halves the top layer, unless the sprite is buried.
Shadowed(regs, sprite, top, colour) ==
  LET casts == sprite.spec = "shadow" \/ (~regs.usesWindow /\ sprite.winbit)
      takes == IF top.layer = Sprite THEN sprite.winbit ELSE top.layer \in regs.shadowOn
  IN  IF sprite.pri >= top.key \div 8 /\ casts /\ takes THEN colour \div 2 ELSE colour

\* The second colour: the mesh below the top, the third screen where colour
\* calculation is extended, and the line colour.
Second(regs, stack, mesh, blending) ==
  LET place == MeshPlace(stack, mesh)
      third == IF place = 3 THEN Blend(mesh.col, stack[3].col, 16, FALSE) ELSE stack[3].col
      mid == IF place = 2 THEN Blend(mesh.col, stack[2].col, 16, FALSE) ELSE stack[2].col
      both == IF regs.extended /\ stack[2].layer \in blending
              THEN Blend(mid, third, 16, FALSE) ELSE mid
  IN  CASE stack[1].layer \notin regs.lineOn \ {Back} -> both
        [] regs.extended /\ regs.lineBlends -> Blend(both, regs.lineCol, 16, FALSE)
        [] OTHER -> regs.lineCol

\* The top layer's colour after colour calculation.
Calculated(regs, stack, sprite, mesh, blending) ==
  LET top == stack[1]
      second == Second(regs, stack, mesh, blending)
      from == IF regs.secondRatio THEN stack[2].layer ELSE top.layer
      weight == CASE regs.secondRatio /\ top.layer \in regs.lineOn \ {Back} -> 31 - regs.lineRatio
                  [] from = Sprite -> 31 - regs.ratios[sprite.ratio]
                  [] OTHER -> regs.weight[from]
  IN  IF /\ top.layer \in blending /\ ~regs.ccWindowed
         /\ top.layer = Sprite => Condition(regs, sprite)
      THEN Blend(top.col, second, weight, regs.add) ELSE top.col

\* A mesh dot on top, after its own colour calculation and offset.
Meshed(regs, mesh, colour) ==
  LET calculated == IF Sprite \in regs.ccOn /\ ~regs.ccWindowed /\ Condition(regs, mesh)
                    THEN Blend(mesh.col, colour, 31 - regs.ratios[mesh.ratio], regs.add)
                    ELSE mesh.col
  IN  Blend(Shifted(calculated, Offset(Sprite, regs)), colour, 16, FALSE)

\* The dot, from the backgrounds' stack.
Finished(regs, under, sprite, mesh, blending) ==
  LET stack == IF sprite.pri > 0 /\ sprite.spec = "normal"
               THEN Push(under, Entry(Sprite, sprite.pri, sprite.col)) ELSE under
      top == stack[1]
      plain == Shadowed(regs, sprite, top, Calculated(regs, stack, sprite, mesh, blending))
      colour == Shifted(plain, Offset(top.layer, regs))
  IN  IF MeshPlace(stack, mesh) = 1 THEN Meshed(regs, mesh, colour) ELSE colour

Composed(regs, bgs, back, sprite, mesh) ==
  Finished(regs, BgStack(bgs, back), sprite, mesh, Blending(regs, bgs))

----------------------------------------------------------------------------
(* Short cuts, taken when no layer has colour calculation. *)

\* The composite cache keeps the top of the backgrounds' stack only.
FromCache(regs, bgs, back, sprite, mesh) ==
  Finished(regs, <<BgStack(bgs, back)[1]>> \o SubSeq(Bottom(back), 2, 3), sprite, mesh, {})

\* The early way out: a sprite above every background's own priority is drawn
\* without looking at the backgrounds.
BestKey(bgs) ==
  LET keys == {SortKey(bgs[i].layer, bgs[i].pri) : i \in {j \in DOMAIN bgs : bgs[j].pri > 0}}
                \cup {SortKey(Back, 0)}
  IN  CHOOSE k \in keys : \A m \in keys : m <= k

SpriteIsFinal(regs, bgs, sprite, mesh) ==
  /\ regs.ccOn = {} /\ mesh.pri = 0
  /\ sprite.pri > 0 /\ sprite.spec = "normal"
  /\ SortKey(Sprite, sprite.pri) > BestKey(bgs)

Early(regs, sprite) == Shifted(sprite.col, Offset(Sprite, regs))
=============================================================================
