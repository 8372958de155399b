------------------------------ MODULE Machine ------------------------------
(***************************************************************************)
(* The scheduler of runner/src/bus.c: saturn_run_field walks scanlines,    *)
(* saturn_run_line cuts a line into slices in which both CPUs run and then *)
(* the devices catch up.  Video edges raise SCU interrupts, start the SCU  *)
(* DMA channels armed for them and count the SCU's timers.                 *)
(*                                                                         *)
(* A call of saturn_run_field returns at V-Blank-IN, in the middle of a    *)
(* line's work, and the next call resumes there.  Everything but `line',   *)
(* the latch and the registers is local to a call and reset when it is out *)
(* of scope.  CPU code is any sequence of register accesses and accepted   *)
(* interrupts while pc = "cpu"; time passes at the end of the slice.  What *)
(* the other devices do with their share of it (CdDrive, AudioPath, FRT,   *)
(* VDP1, DSP) is not repeated here, nor are the data of a DMA transfer and *)
(* the interrupts those devices raise.                                     *)
(***************************************************************************)
EXTENDS Integers

CONSTANTS
  CycPerLine, HBlankStart,      \* cycles of a line, where its H-Blank begins
  FieldPos,                     \* VDP1's sampling point on line 0 (128)
  LinesTotal, LineVBlank,       \* lines of a field, the first blanked one
  DefaultSlice, Slices,         \* slice of 128; values of SATURN_SLICE
  TimerSettings,                \* what guests write to T1MD and T0C
  TimerMod,                     \* the Timer 0 counter has 9 bits
  Levels,                       \* SCU DMA channels
  Factors,                      \* start factors guests program (0..4)
  Masks,                        \* interrupt masks guests write
  TvstatWrites,                 \* what guests write over TVSTAT's bits 3 and 1
  Suppressed                    \* SCU sources that SATURN_NOINT switches off

None == 99                      \* a channel that is not armed
Bits == 0 .. 31
ResetMask == {b \in Bits : b <= 13 \/ b = 15}          \* 0xBFFF
Settings == [enable : BOOLEAN, mode : BOOLEAN, compare : Nat]

ASSUME MachineAssumption ==
  /\ CycPerLine \in Nat /\ HBlankStart \in Nat /\ FieldPos \in Nat
  /\ 0 < FieldPos /\ FieldPos < HBlankStart /\ HBlankStart < CycPerLine
  /\ LinesTotal \in Nat /\ LineVBlank \in Nat
  /\ 0 < LineVBlank /\ LineVBlank < LinesTotal
  /\ DefaultSlice \in Nat \ {0} /\ Slices \subseteq Nat
  /\ TimerSettings \subseteq Settings
  /\ TimerMod \in Nat /\ LinesTotal < TimerMod
  /\ Levels \subseteq 0 .. 2 /\ Factors \subseteq 0 .. 6 /\ Masks \subseteq SUBSET Bits
  /\ TvstatWrites \subseteq [vblank : BOOLEAN, odd : BOOLEAN]
  /\ Suppressed \subseteq Bits

VARIABLES
  pc,                           \* where the scheduler is
  quantum,
  line, vblank_boundary_done, visible_started,
  pos, hb, field_change,        \* locals of saturn_run_line
  clk,                          \* machine clock modulo CycPerLine
  halted,                       \* master.halted
  vblank, odd, interlaced,      \* TVSTAT bits 3 and 1, TVMD.LSMD
  ipend, mask,                  \* SCU interrupts: pending, masked
  timer, t0_counter,            \* the timer registers and Timer 0's line counter
  armed,                        \* start factor of each enabled DMA channel
  pending_ckchg,                \* clock change: 1 with SMPC, 2 done and NMI due
  steady,                       \* history: timers enabled and their compare value
                                \* unwritten since V-Blank-OUT
  touched                       \* history: TVSTAT written or reset since the
                                \* last V-Blank edge

place == <<line, vblank_boundary_done, visible_started, pos, hb, field_change, clk>>
tv == <<vblank, odd, interlaced, touched>>
scu == <<ipend, mask, timer, t0_counter, armed, steady>>
vars == <<pc, quantum, place, halted, tv, scu, pending_ckchg>>

\* saturn_run_line's reading of SATURN_SLICE; 0 stands for "not set" as well.
Quantum(e) == LET q == IF e = 0 THEN DefaultSlice ELSE e
              IN  IF q > CycPerLine THEN CycPerLine ELSE q

Init ==
  /\ pc = "frontend"
  /\ \E e \in Slices : quantum = Quantum(e)
  /\ line = 0 /\ vblank_boundary_done = FALSE /\ visible_started = FALSE
  /\ pos = 0 /\ hb = FALSE /\ field_change = FALSE /\ clk = 0
  /\ halted = FALSE
  /\ vblank = FALSE /\ odd = FALSE /\ interlaced = FALSE
  /\ ipend = {} /\ mask = {}
  /\ timer = [enable |-> FALSE, mode |-> FALSE, compare |-> 0] /\ t0_counter = 0
  /\ armed = [l \in Levels |-> None] /\ pending_ckchg = 0
  /\ steady = FALSE /\ touched = FALSE

----------------------------------------------------------------------------
(* The SCU. *)

\* Bits of the completion interrupts of channels 0, 1, 2.
DmaEnd(l) == 11 - l

\* scu_dma_trigger for all factors in fs: each channel armed for one of them
\* runs and is switched off.
Triggered(fs) == {l \in Levels : armed[l] \in fs}

\* scu_raise for the bits, then the transfers the factors start.
Raise(bits, fs) ==
  /\ ipend' = ipend \cup ((bits \cup {DmaEnd(l) : l \in Triggered(fs)}) \ Suppressed)
  /\ armed' = [l \in Levels |-> IF l \in Triggered(fs) THEN None ELSE armed[l]]

\* scu_check_timer0 for the counter's value c: the interrupt and factor 3.
Timer0At(c) == IF timer.enable /\ c = timer.compare THEN {3} ELSE {}

----------------------------------------------------------------------------
(* saturn_run_field: one call of the front end, headless or window. *)

RunField ==
  /\ pc = "frontend"
  /\ pc' = "loop" /\ visible_started' = FALSE
  /\ UNCHANGED <<quantum, line, vblank_boundary_done, pos, hb, field_change, clk,
                 halted, tv, scu, pending_ckchg>>

\* V-Blank-OUT, with the Timer 0 counter's reset.
VBlankOut ==
  /\ pc = "loop" /\ ~vblank_boundary_done /\ line = 0
  /\ vblank' = FALSE /\ touched' = FALSE
  /\ Raise({1} \cup Timer0At(0), {1} \cup Timer0At(0))
  /\ t0_counter' = 0 /\ steady' = TRUE
  /\ visible_started' = TRUE /\ vblank_boundary_done' = TRUE
  /\ pc' = "timers"
  /\ UNCHANGED <<quantum, line, pos, hb, field_change, clk, halted, odd, interlaced,
                 mask, timer, pending_ckchg>>

\* V-Blank-IN.  A call that began before the visible lines ends here.
VBlankIn ==
  /\ pc = "loop" /\ ~vblank_boundary_done /\ line = LineVBlank
  /\ vblank' = TRUE /\ touched' = FALSE
  /\ odd' = (interlaced => ~odd)
  /\ Raise({0}, {0})
  /\ vblank_boundary_done' = TRUE
  /\ pc' = IF visible_started THEN "frontend" ELSE "timers"
  /\ UNCHANGED <<quantum, line, visible_started, pos, hb, field_change, clk, halted,
                 interlaced, mask, timer, t0_counter, steady, pending_ckchg>>

NoBoundary ==
  /\ pc = "loop" /\ (vblank_boundary_done \/ line \notin {0, LineVBlank})
  /\ pc' = "timers"
  /\ UNCHANGED <<quantum, place, halted, tv, scu, pending_ckchg>>

\* scu_timer_hblank, at the start of every line: Timer 0, then Timer 1.
TimerHBlank ==
  /\ pc = "timers" /\ pc' = "cpu"
  /\ steady' = (steady /\ timer.enable)
  /\ IF timer.enable
     THEN LET c  == (t0_counter + 1) % TimerMod
              t1 == IF ~timer.mode \/ c = timer.compare THEN {4} ELSE {}
          IN  /\ t0_counter' = c
              /\ Raise(Timer0At(c) \cup t1, Timer0At(c) \cup t1)
     ELSE UNCHANGED <<t0_counter, ipend, armed>>
  /\ UNCHANGED <<quantum, place, halted, tv, mask, timer, pending_ckchg>>

----------------------------------------------------------------------------
(* CPU code within a slice. *)

\* Mutant: late by one cycle.
HBlankBitLate == clk > HBlankStart

\* What a read of TVSTAT shows: H-Blank comes from the machine clock.
HBlankBit == clk >= HBlankStart

WriteTimers ==
  /\ pc = "cpu"
  /\ \E t \in TimerSettings :
       /\ timer' = t
       /\ steady' = (steady /\ t.compare = timer.compare)
  /\ UNCHANGED <<pc, quantum, place, halted, tv, ipend, mask, t0_counter, armed, pending_ckchg>>

\* A channel is programmed and enabled or disabled: factor 7 starts it at once,
\* any other factor arms it.
ArmDma ==
  /\ pc = "cpu"
  /\ \E l \in Levels :
       \/ \E f \in Factors \cup {None} : armed' = [armed EXCEPT ![l] = f] /\ UNCHANGED ipend
       \/ /\ ipend' = ipend \cup ({DmaEnd(l)} \ Suppressed)
          /\ armed' = [armed EXCEPT ![l] = None]
  /\ UNCHANGED <<pc, quantum, place, halted, tv, mask, timer, t0_counter, steady,
                 pending_ckchg>>

WriteMask ==
  /\ pc = "cpu" /\ mask' \in Masks
  /\ UNCHANGED <<pc, quantum, place, halted, tv, ipend, timer, t0_counter, armed,
                 steady, pending_ckchg>>

\* The VDP2 register file stores what is written, TVSTAT's bits included.
WriteVdp2 ==
  /\ pc = "cpu"
  /\ \/ interlaced' \in BOOLEAN /\ UNCHANGED <<vblank, odd, touched>>
     \/ \E w \in TvstatWrites : /\ vblank' = w.vblank /\ odd' = w.odd
                              /\ touched' = TRUE /\ UNCHANGED interlaced
  /\ UNCHANGED <<pc, quantum, place, halted, scu, pending_ckchg>>

\* scu_pending: the first source in bit order, if SR.I, which is any, lets it.
TakeInterrupt ==
  /\ pc = "cpu" /\ ~halted
  /\ \E b \in ipend \ mask : /\ \A c \in ipend \ mask : b <= c
                             /\ ipend' = ipend \ {b}
  /\ UNCHANGED <<pc, quantum, place, halted, tv, mask, timer, t0_counter, armed,
                 steady, pending_ckchg>>

\* COMREG is written with CKCHG; SMPC accepts it when it is not busy.
RequestClockChange ==
  /\ pc = "cpu" /\ pending_ckchg = 0
  /\ pending_ckchg' = 1
  /\ UNCHANGED <<pc, quantum, place, halted, tv, scu>>

\* The master's step after a completed clock change takes the NMI, or, once, when
\* the CD player has staged a game, enters the game: the mask leaves the two
\* V-Blank sources open and TVMD is restored.
Nmi ==
  /\ pc = "cpu" /\ ~halted /\ pending_ckchg = 2
  /\ pending_ckchg' = 0 /\ ipend' = {}
  /\ \/ UNCHANGED <<mask, interlaced>>
     \/ mask' = Bits \ {0, 1} /\ interlaced' \in BOOLEAN
  /\ UNCHANGED <<pc, quantum, place, halted, vblank, odd, touched, timer, t0_counter,
                 armed, steady>>

Fault ==
  /\ pc = "cpu" /\ ~halted
  /\ halted' = TRUE
  /\ UNCHANGED <<pc, quantum, place, tv, scu, pending_ckchg>>

----------------------------------------------------------------------------
(* saturn_run_line. *)

\* Mutant: the two places are not protected.
WholeSlice ==
  LET n == CycPerLine - pos IN IF n > quantum THEN quantum ELSE n

\* Length of the next slice: never over the H-Blank edge, nor on line 0 over
\* the field change.
Slice ==
  LET rest == CycPerLine - pos
      n0 == IF rest > quantum THEN quantum ELSE rest
      n1 == IF ~hb /\ pos < HBlankStart /\ pos + n0 > HBlankStart
            THEN HBlankStart - pos ELSE n0
  IN  IF line = 0 /\ ~field_change /\ pos < FieldPos /\ pos + n1 > FieldPos
      THEN FieldPos - pos ELSE n1

\* smpc_tick: nothing, or the completion of a clock change, which resets the
\* VDP2 registers with TVSTAT, and the interrupt controller, not the timers.
SmpcTick ==
  \/ UNCHANGED <<tv, ipend, mask, pending_ckchg>>
  \/ /\ pending_ckchg = 1 /\ pending_ckchg' = 2
     /\ vblank' = FALSE /\ odd' = FALSE /\ interlaced' = FALSE /\ touched' = TRUE
     /\ ipend' = {} /\ mask' = ResetMask

\* Mutant: a sleeping master idles through its slices without looking for the NMI.
RunSliceIdle ==
  /\ pc = "cpu"
  /\ pos' = pos + Slice
  /\ clk' = (IF clk + Slice < CycPerLine THEN clk + Slice ELSE clk + Slice - CycPerLine)
  /\ SmpcTick
  /\ pc' = "edges"
  /\ UNCHANGED <<quantum, line, vblank_boundary_done, visible_started, hb, field_change,
                 halted, timer, t0_counter, armed, steady>>

\* The CPUs have run the slice; clock and devices follow.  The master's first
\* step takes a pending NMI.
RunSlice ==
  /\ pc = "cpu" /\ (halted \/ pending_ckchg # 2)
  /\ pos' = pos + Slice
  /\ clk' = (IF clk + Slice < CycPerLine THEN clk + Slice ELSE clk + Slice - CycPerLine)
  /\ SmpcTick
  /\ pc' = "edges"
  /\ UNCHANGED <<quantum, line, vblank_boundary_done, visible_started, hb, field_change,
                 halted, timer, t0_counter, armed, steady>>

\* vdp1_field_change is due.
FieldChangeDue == line = 0 /\ ~field_change /\ pos >= FieldPos
HBlankDue == ~hb /\ pos >= HBlankStart

FieldChange ==
  /\ pc = "edges" /\ FieldChangeDue
  /\ field_change' = TRUE
  /\ UNCHANGED <<pc, quantum, line, vblank_boundary_done, visible_started, pos, hb, clk,
                 halted, tv, scu, pending_ckchg>>

\* H-Blank-IN; its transfers start before the interrupt is raised.
HBlankIn ==
  /\ pc = "edges" /\ ~FieldChangeDue /\ HBlankDue
  /\ hb' = TRUE
  /\ Raise({2}, {2})
  /\ UNCHANGED <<pc, quantum, line, vblank_boundary_done, visible_started, pos,
                 field_change, clk, halted, tv, mask, timer, t0_counter, steady,
                 pending_ckchg>>

NextSlice ==
  /\ pc = "edges" /\ ~FieldChangeDue /\ ~HBlankDue
  /\ ~halted /\ pos < CycPerLine
  /\ pc' = "cpu"
  /\ UNCHANGED <<quantum, place, halted, tv, scu, pending_ckchg>>

\* The line is over: back in saturn_run_field, which goes to the next one.
EndLine ==
  /\ pc = "edges" /\ ~FieldChangeDue /\ ~HBlankDue
  /\ ~halted /\ pos >= CycPerLine
  /\ line' = (IF line + 1 >= LinesTotal THEN 0 ELSE line + 1)
  /\ vblank_boundary_done' = FALSE
  /\ pos' = 0 /\ hb' = FALSE /\ field_change' = FALSE
  /\ pc' = "loop"
  /\ UNCHANGED <<quantum, visible_started, clk, halted, tv, scu, pending_ckchg>>

\* A fault ends the line's loop and the field's; the front end may call again.
EndFaulted ==
  /\ pc = "edges" /\ ~FieldChangeDue /\ ~HBlankDue /\ halted
  /\ pos' = 0 /\ hb' = FALSE /\ field_change' = FALSE
  /\ pc' = "frontend"
  /\ UNCHANGED <<quantum, line, vblank_boundary_done, visible_started, clk, halted, tv,
                 scu, pending_ckchg>>

Guest == WriteTimers \/ ArmDma \/ WriteMask \/ WriteVdp2 \/ TakeInterrupt
           \/ RequestClockChange \/ Nmi \/ Fault

Field == RunField \/ VBlankOut \/ VBlankIn \/ NoBoundary \/ TimerHBlank
           \/ RunSlice \/ FieldChange \/ HBlankIn \/ NextSlice \/ EndLine \/ EndFaulted

Next == Guest \/ Field

Spec == Init /\ [][Next]_vars

\* One thread runs the loop, which no device can hold up; a slice of CPU time
\* is bounded by its cycles; the NMI is the master's first step.
FairSpec == Spec /\ WF_vars(Field) /\ WF_vars(Nmi)

----------------------------------------------------------------------------
(* Properties. *)

\* Types of all variables, in three groups.
BeamTypes ==
  /\ pc \in {"frontend", "loop", "timers", "cpu", "edges"}
  /\ quantum \in 1 .. CycPerLine
  /\ line \in 0 .. LinesTotal - 1 /\ pos \in 0 .. CycPerLine /\ clk \in 0 .. CycPerLine - 1
FlagTypes ==
  /\ vblank_boundary_done \in BOOLEAN /\ visible_started \in BOOLEAN
  /\ hb \in BOOLEAN /\ field_change \in BOOLEAN /\ halted \in BOOLEAN
  /\ vblank \in BOOLEAN /\ odd \in BOOLEAN /\ interlaced \in BOOLEAN
  /\ steady \in BOOLEAN /\ touched \in BOOLEAN
RegisterTypes ==
  /\ ipend \in SUBSET Bits /\ mask \in SUBSET Bits
  /\ timer \in Settings /\ t0_counter \in 0 .. TimerMod - 1
  /\ armed \in [Levels -> Factors \cup {None}]
  /\ pending_ckchg \in 0 .. 2

TypeOK == BeamTypes /\ FlagTypes /\ RegisterTypes

\* Whatever the slices, the scheduler is a raster: every line in turn, every
\* edge once, at its place and in order, though a call of saturn_run_field
\* returns in the middle of a line's work and the next one resumes there.
Announced ==
  (IF vblank_boundary_done /\ line \in {0, LineVBlank} THEN 1 ELSE 0)
  + (IF pc \in {"cpu", "edges"} THEN 1 ELSE 0)
  + (IF field_change THEN 1 ELSE 0) + (IF hb THEN 1 ELSE 0)

Beam == INSTANCE Raster WITH v <- line, h <- pos, k <- Announced, live <- ~halted

Implements == Beam!RasterSpec

\* While a CPU runs, the H-Blank it reads in TVSTAT, derived from the clock,
\* agrees with the H-Blank interrupt; V-Blank agrees with the line, unless a
\* CPU or a clock change has overwritten the register since the last edge.
TvstatTracksBeam ==
  pc = "cpu" /\ ~halted =>
    /\ HBlankBit <=> hb
    /\ ~touched => (vblank <=> line >= LineVBlank)

\* With the timers left enabled and the compare value unwritten since
\* V-Blank-OUT, Timer 0 fires on the line before the compare value and on no
\* other: its counter is not ticked twice where a call returns and resumes.
Timer0OnItsLine ==
  [][pc = "timers" /\ steady /\ timer.enable /\ ~halted =>
       /\ timer.compare = line + 1 /\ 3 \notin Suppressed => 3 \in ipend'
       /\ 3 \in ipend' \ ipend => timer.compare = line + 1]_vars

\* A frame ends when V-Blank-IN has just been raised and no CPU has run since:
\* the interrupt is pending, the register shows blanking, and the field's
\* lines have all been scanned.
FrameEndsAtBlanking ==
  pc = "frontend" /\ visible_started /\ ~halted =>
    line = LineVBlank /\ vblank_boundary_done /\ vblank /\ ~touched
      /\ (0 \in ipend \/ 0 \in Suppressed)

\* A clock change ends in an NMI, or in a master that has halted.
ClockChangeCompletes == pending_ckchg = 2 ~> (pending_ckchg = 0 \/ halted)

\* What a comment in bus.c asks of a channel armed for a repeating event, that
\* it not fire "exactly once instead of once per frame": V-Blank-IN leaves it
\* armed for the next one.
ArmedRunsEveryField == [][\A l \in Levels : VBlankIn /\ armed[l] = 0 => armed'[l] = 0]_vars

\* What the comment on TVSTAT's ODD says: "when it is NOT interlaced the flag
\* is held at 1 permanently".
OddHeldInProgressive ==
  [][pc = "cpu" /\ ~interlaced /\ odd => odd']_vars

\* What the comment where TVSTAT is read says: V-Blank "is maintained by the
\* frame loop", whatever a CPU writes over it or a clock change resets.
VBlankMaintained == pc = "cpu" /\ ~halted => (vblank <=> line >= LineVBlank)
=============================================================================
