-------------------------------- MODULE Vdp1 --------------------------------
(***************************************************************************)
(* VDP1's frame buffers and command walk: runner/src/vdp1.c with the field *)
(* change of bus.c.  Two buffers, one drawn into and one displayed; a list *)
(* of commands in VRAM that is walked one command per scheduler slice,     *)
(* while the CPUs may rewrite it; erase, draw and swap decided once per    *)
(* field from registers that were written at any time before.              *)
(*                                                                         *)
(* What a command draws is one mark in a buffer, and buffers go by their   *)
(* roles, which a swap exchanges, in place of the index fb_draw.  The walk *)
(* draws into the buffer it captured when it began; with the GPU renderer  *)
(* bound, commands are queued for the draw buffer of the moment.           *)
(***************************************************************************)
EXTENDS Integers, FiniteSets

CONSTANTS
  Lists,                        \* command tables guests write
  Slots,                        \* addresses of commands
  MaxCommands                   \* the guard of 8192

Buffers == {"draw", "display"}
None == -1                      \* ret_addr 0xFFFFFFFF
Commands == [op : {"draw", "skip", "end"}, jump : 0 .. 3, link : Slots]

ASSUME Vdp1Assumption ==
  /\ 0 \in Slots /\ Slots \subseteq Nat
  /\ Lists \subseteq [Slots -> Commands] /\ Lists # {}
  /\ MaxCommands \in Nat \ {0}

VARIABLES
  gpu,                          \* vdp1_gpu_is_bound
  list,                         \* the command table in VRAM
  beam,                         \* "border" before the field change, "visible", "blank"
  vbe, fcm, fct, ptm,           \* TVMR.VBE, FBCR, PTMR bit 1
  fbparams,                     \* FBCR was written since the last field change
  vblank_erase, erase_pending,
  active, addr, ret_addr, guard, fb,    \* async_v1, with its captured buffer
  cef,                          \* EDSR.CEF; BEF and LOPR are its copies
  draw_end,                     \* Sprite Draw End pending in the SCU
  pic,                          \* history: what each buffer shows
  owed,                         \* history: a list begun whose END is not yet announced
  auto                          \* history: the last field change was automatic

regs == <<vbe, fcm, fct, ptm>>
walk == <<active, addr, ret_addr, guard, fb>>
latches == <<fbparams, vblank_erase, erase_pending>>
vars == <<gpu, list, beam, regs, latches, walk, cef, draw_end, pic, owed, auto>>

Init ==
  /\ gpu \in BOOLEAN /\ list \in Lists /\ beam = "border"
  /\ vbe = FALSE /\ fcm = FALSE /\ fct = FALSE /\ ptm = FALSE
  /\ fbparams = FALSE /\ vblank_erase = FALSE /\ erase_pending = FALSE
  /\ active = FALSE /\ addr = 0 /\ ret_addr = None /\ guard = 0 /\ fb = "draw"
  /\ cef = FALSE /\ draw_end = FALSE
  /\ pic = [b \in Buffers |-> "none"] /\ owed = FALSE /\ auto = FALSE

----------------------------------------------------------------------------
(* The walk. *)

\* vdp1_begin_frame, with the buffer to draw into from now on.
Begin ==
  /\ active' = TRUE /\ addr' = 0 /\ ret_addr' = None /\ guard' = 0 /\ fb' = "draw"
  /\ cef' = FALSE /\ owed' = TRUE

\* Next command and return address: NEXT, ASSIGN, CALL, RETURN.
Follow(c) ==
  CASE c.jump = 1 -> <<c.link, ret_addr>>
    [] c.jump = 2 -> <<c.link, IF ret_addr = None THEN addr + 1 ELSE ret_addr>>
    [] c.jump = 3 /\ ret_addr # None -> <<ret_addr, None>>
    [] OTHER -> <<addr + 1, ret_addr>>

Wrap(a) == IF a \in Slots THEN a ELSE 0

Target == IF gpu THEN "draw" ELSE fb

\* The walk is at an END.
AtEnd == active /\ guard < MaxCommands /\ list[addr].op = "end"

\* One command; the slice is over.
Command ==
  /\ active /\ guard < MaxCommands /\ ~AtEnd
  /\ LET next == Follow(list[addr])
     IN  addr' = Wrap(next[1]) /\ ret_addr' = (IF next[2] = None THEN None ELSE Wrap(next[2]))
  /\ guard' = guard + 1
  /\ pic' = IF list[addr].op = "draw" THEN [pic EXCEPT ![Target] = "partial"] ELSE pic
  /\ UNCHANGED <<gpu, list, beam, regs, latches, active, fb, cef, draw_end,
                 owed, auto>>

\* Mutant: a draw end that stops the walk and is shown by EDSR alone.
EndUnannounced ==
  /\ AtEnd
  /\ active' = FALSE /\ cef' = TRUE /\ owed' = FALSE
  /\ pic' = IF Target = "draw" /\ pic["draw"] = "partial"
            THEN [pic EXCEPT !["draw"] = "whole"] ELSE pic
  /\ UNCHANGED <<gpu, list, beam, regs, latches, addr, ret_addr, guard, fb, draw_end, auto>>

\* The END command: draw end.  The picture is whole if no swap came in between.
End ==
  /\ AtEnd
  /\ active' = FALSE /\ cef' = TRUE /\ draw_end' = TRUE /\ owed' = FALSE
  /\ pic' = IF Target = "draw" /\ pic["draw"] = "partial"
            THEN [pic EXCEPT !["draw"] = "whole"] ELSE pic
  /\ UNCHANGED <<gpu, list, beam, regs, latches, addr, ret_addr, guard, fb, auto>>

\* Mutant: falls through to the draw end, in every slice.
RunawayAnnounced ==
  /\ active /\ guard = MaxCommands
  /\ draw_end' = TRUE /\ owed' = FALSE
  /\ UNCHANGED <<gpu, list, beam, regs, latches, walk, cef, pic, auto>>

\* A list without END is given up, with no sign.
Runaway ==
  /\ active /\ guard = MaxCommands
  /\ active' = FALSE /\ owed' = FALSE
  /\ UNCHANGED <<gpu, list, beam, regs, latches, addr, ret_addr, guard, fb, cef,
                 draw_end, pic, auto>>

\* vdp1_tick, when the command's wait is over.
Tick == Command \/ End \/ Runaway

----------------------------------------------------------------------------
(* Registers and VRAM, as CPUs write them. *)

WriteTvmr ==
  /\ vbe' \in BOOLEAN
  /\ vblank_erase' = (vblank_erase \/ (vbe' /\ beam = "blank"))
  /\ UNCHANGED <<gpu, list, beam, fcm, fct, ptm, fbparams, erase_pending, walk,
                 cef, draw_end, pic, owed, auto>>

\* FCT counts in manual mode only.
WriteFbcr ==
  /\ fcm' \in BOOLEAN /\ fct' \in (IF fcm' THEN BOOLEAN ELSE {FALSE}) /\ fbparams' = TRUE
  /\ UNCHANGED <<gpu, list, beam, vbe, ptm, vblank_erase, erase_pending, walk,
                 cef, draw_end, pic, owed, auto>>

WritePtmr ==
  /\ \E v \in 0 .. 2 : /\ ptm' = (v = 2)
                       /\ IF v = 1 THEN Begin ELSE UNCHANGED <<walk, cef, owed>>
  /\ UNCHANGED <<gpu, list, beam, vbe, fcm, fct, latches, draw_end, pic, auto>>

WriteTable ==
  /\ list' \in Lists
  /\ UNCHANGED <<gpu, beam, regs, latches, walk, cef, draw_end, pic, owed, auto>>

TakeDrawEnd ==
  /\ draw_end /\ draw_end' = FALSE
  /\ UNCHANGED <<gpu, list, beam, regs, latches, walk, cef, pic, owed, auto>>

\* vdp1_soft_reset, part of a clock change.
SoftReset ==
  /\ vbe' = FALSE /\ fcm' = FALSE /\ fct' = FALSE /\ ptm' = FALSE
  /\ fbparams' = FALSE /\ vblank_erase' = FALSE /\ erase_pending' = FALSE
  /\ cef' = FALSE /\ active' = FALSE
  /\ owed' = FALSE /\ auto' = FALSE
  /\ UNCHANGED <<gpu, list, beam, addr, ret_addr, guard, fb, draw_end, pic>>

Guest == WriteTvmr \/ WriteFbcr \/ WritePtmr \/ WriteTable \/ TakeDrawEnd \/ SoftReset

----------------------------------------------------------------------------
(* The beam. *)

VBlankIn ==
  /\ beam = "visible" /\ beam' = "blank"
  /\ vblank_erase' = vbe
  /\ pic' = IF pic["display"] = "whole" THEN [pic EXCEPT !["display"] = "shown"] ELSE pic
  /\ UNCHANGED <<gpu, list, regs, fbparams, erase_pending, walk, cef,
                 draw_end, owed, auto>>

VBlankOut ==
  /\ beam = "blank" /\ beam' = "border"
  /\ UNCHANGED <<gpu, list, regs, latches, walk, cef, draw_end, pic, owed, auto>>

\* Decisions of a field change.
Swap  == ~fcm \/ (fbparams /\ fct)
Erase == ~fcm \/ (fbparams /\ ~fct)

\* Mutant: the draw buffer is erased.
ErasedDraw == IF vblank_erase \/ erase_pending THEN [pic EXCEPT !["draw"] = "none"] ELSE pic

\* vdp1_erase clears the displayed buffer.
Erased == IF vblank_erase \/ erase_pending THEN [pic EXCEPT !["display"] = "none"] ELSE pic

\* vdp1_swap exchanges the roles.
Other(b) == IF b = "draw" THEN "display" ELSE "draw"
Exchanged(p) == [b \in Buffers |-> p[Other(b)]]

\* Mutant: the erase asked for by this field change is not remembered.
FieldChangeForgets ==
  /\ beam = "border" /\ beam' = "visible"
  /\ fbparams' = FALSE /\ vblank_erase' = FALSE /\ erase_pending' = FALSE
  /\ pic' = IF Swap THEN Exchanged(Erased) ELSE Erased
  /\ IF Swap /\ ptm THEN Begin
     ELSE /\ cef' = (cef /\ ~Swap)
          /\ fb' = (IF Swap THEN Other(fb) ELSE fb)
          /\ UNCHANGED <<active, addr, ret_addr, guard, owed>>
  /\ auto' = ~fcm
  /\ UNCHANGED <<gpu, list, regs, draw_end>>

\* vdp1_field_change: what was asked before is erased, then the buffers swap,
\* then a list begins; an erase asked for now comes at the next field change.
FieldChange ==
  /\ beam = "border" /\ beam' = "visible"
  /\ fbparams' = FALSE /\ vblank_erase' = FALSE /\ erase_pending' = Erase
  /\ pic' = IF Swap THEN Exchanged(Erased) ELSE Erased
  /\ IF Swap /\ ptm THEN Begin
     ELSE /\ cef' = (cef /\ ~Swap)
          /\ fb' = (IF Swap THEN Other(fb) ELSE fb)
          /\ UNCHANGED <<active, addr, ret_addr, guard, owed>>
  /\ auto' = ~fcm
  /\ UNCHANGED <<gpu, list, regs, draw_end>>

Beam == VBlankIn \/ VBlankOut \/ FieldChange

Next == Tick \/ Guest \/ Beam

Spec == Init /\ [][Next]_vars

\* The scheduler ticks the walk in every slice and the raster goes round.
FairSpec == Spec /\ WF_vars(Tick) /\ WF_vars(Beam)

----------------------------------------------------------------------------
(* Properties. *)

TypeOK ==
  /\ gpu \in BOOLEAN /\ list \in Lists /\ beam \in {"border", "visible", "blank"}
  /\ vbe \in BOOLEAN /\ fcm \in BOOLEAN /\ fct \in BOOLEAN /\ ptm \in BOOLEAN
  /\ fbparams \in BOOLEAN /\ vblank_erase \in BOOLEAN /\ erase_pending \in BOOLEAN
  /\ active \in BOOLEAN /\ addr \in Slots /\ ret_addr \in Slots \cup {None}
  /\ guard \in 0 .. MaxCommands /\ fb \in Buffers
  /\ cef \in BOOLEAN /\ draw_end \in BOOLEAN
  /\ pic \in [Buffers -> {"none", "partial", "whole", "shown"}]
  /\ owed \in BOOLEAN /\ auto \in BOOLEAN

\* A picture whose list ended before the buffers were swapped is not erased
\* until a whole field has displayed it, whichever of the two erase paths and
\* of the modes the registers ask for, and in which fields.
WholePictureIsShown ==
  [][FieldChange => Cardinality({b \in Buffers : pic'[b] = "whole"})
                     = Cardinality({b \in Buffers : pic[b] = "whole"})]_vars

\* In automatic mode each list starts on an erased buffer from the second
\* field on, although erase is carried out a field after it is decided.
AutoDrawsOnErased ==
  [][FieldChange /\ auto /\ ~fcm => pic'["draw"] = "none"]_vars

\* Sprite Draw End and EDSR.CEF announce the END of a list, once for each list
\* begun: never a runaway list or one still being walked.  And each walk that
\* stops either says so, has spent its guard without a word, or was reset; none
\* goes on past an END, whatever the CPUs make of the table meanwhile.
DrawEndIsOwed ==
  [][/\ (draw_end' /\ ~draw_end) \/ (cef' /\ ~cef) => owed /\ ~owed' /\ ~active' /\ AtEnd
     /\ active /\ ~active' => \/ AtEnd /\ draw_end' /\ cef'
                              \/ guard = MaxCommands /\ UNCHANGED <<draw_end, cef>>
                              \/ ~cef' /\ regs' = <<FALSE, FALSE, FALSE, FALSE>>
     /\ AtEnd => guard' <= guard]_vars

\* The walk comes to rest whatever the table holds, loops included, and the CPUs
\* make of it in the meantime: it ends infinitely often, unless guests begin
\* lists for ever.
WalkEnds == []<>~active \/ []<><<active' /\ guard' = 0>>_vars

\* What a swap should guarantee a guest, and does only for lists that have
\* ended: nothing is drawn into the displayed buffer.
DisplayedIsStill ==
  [][Tick => pic'["display"] = pic["display"]]_vars
=============================================================================
