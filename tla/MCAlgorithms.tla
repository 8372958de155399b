---------------------------- MODULE MCAlgorithms ----------------------------
(* The pure algorithms in one run: the questions of MCPictures and those of    *)
(* MCProcessors, each against a reference written another way.                 *)
EXTENDS MCProcessors

VARIABLE picture

Pic == INSTANCE MCPictures WITH input <- picture, Bits <- 6, FbW <- 4, FbH <- 3

NoPicture == <<"none">>

AllInit == Init /\ \/ picture = NoPicture
                   \/ input = NoInput /\ Pic!Init
AllNext == Next /\ UNCHANGED picture
AllSpec == AllInit /\ [][AllNext]_<<input, cache, mem, age, frt, base, since, seen, unseen,
                                given, picture>>

\* A quad has no gaps: each of its spans runs from the left edge to the right one
\* without a break, the edges end in the corners, and a convex quad has no pixel
\* missing inside.  (vdp1.c: quad, edge_step, line_step.)
QuadIsSolid == Pic!QuadIsSolid

\* What a sprite shows depends neither on how it is put there nor on which of the
\* two ways a pixel takes: texture steps are quotients, shaded corners have their
\* vertices' colours, texels keep their bank, scaled sprites their size, and the
\* short cut for plain commands clips as the full path does.  (vdp1.c: quad, shade,
\* texel, put, put_replace.)
DrawingIsExact == Pic!SamplingIsExact /\ Pic!ClippingAgrees

\* VDP2 reads what its registers lay out: windows, pattern names, flips, rotation,
\* line and column scroll.  (vdp2.c: win_calc, plane_addr, cell_pixel,
\* line_scroll_build, cell_vscroll_prep.)
LayoutIsRead == Pic!LayoutIsRead

\* The short cuts of the compositor show what the whole pipeline shows, and the
\* pipeline ranks the layers by priority and blends between the two on top.
\* (vdp2.c: vdp2_render, bitmap8_visible.)
DotIsComposed == Pic!DotIsComposed

\* Both engines of the SH-2 are one machine: the dispatcher written inline does
\* what the reference does for every instruction it takes, and a slice of clocks
\* leaves the core, folded wait loops and interrupts included, as stepping would;
\* and that machine's quotients and wide sums come out right.  (sh2_interp.c:
\* FAST_SIMPLE, sh2_run against exec_one, sh2_step.)
EnginesAgree == FastMatchesReference /\ RunIsSteps /\ ArithmeticIsExact

\* A parallel operation of the DSP reads everything before it writes anything, and
\* a program does the same however its clocks are sliced or paused, with its loops,
\* its end and its ports.  (scu_dsp.c: cmd_operation, scu_dsp_tick, inc_pc,
\* scu_dsp_write_reg.)
DspRunsAsWritten == OperationIsParallel /\ LoopsRunTheirCount
=============================================================================
