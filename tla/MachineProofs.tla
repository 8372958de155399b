--------------------------- MODULE MachineProofs ---------------------------
(* Theorems about Machine: for every geometry of line and field, every slice *)
(* and every program of the CPUs.                                            *)
EXTENDS Machine, Sequences, TLAPS

(***************************************************************************)
(* Where the beam stands at each place of the scheduler.  Between slices   *)
(* an edge has been announced exactly when the beam has reached its place; *)
(* after a slice it may stand at the place of one still to be announced,   *)
(* never beyond it.                                                        *)
(***************************************************************************)
AtBoundary == line = 0 \/ line = LineVBlank
OutsideLine == pc \in {"frontend", "loop", "timers"} => pos = 0 /\ ~hb /\ ~field_change
Latched == pc \in {"timers", "cpu", "edges"} /\ AtBoundary => vblank_boundary_done
FieldChangeAt == /\ field_change => line = 0 /\ pos >= FieldPos
                 /\ line = 0 /\ ~field_change => pos <= FieldPos
                 /\ pc = "cpu" /\ line = 0 /\ pos >= FieldPos => field_change
HBlankAt == /\ hb => pos >= HBlankStart
            /\ ~hb => pos <= HBlankStart
            /\ pc = "cpu" /\ pos >= HBlankStart => hb
InLine == pc = "cpu" => pos < CycPerLine
Clocked == ~halted => clk = (IF pos < CycPerLine THEN pos ELSE 0)

BeamInv == BeamTypes /\ FlagTypes /\ OutsideLine /\ Latched /\ FieldChangeAt /\ HBlankAt
             /\ InLine /\ Clocked

\* A slice is not empty, ends within the line, and passes no edge.
LEMMA SliceBounds ==
  ASSUME BeamInv, pc = "cpu"
  PROVE  /\ Slice \in 1 .. CycPerLine - pos
         /\ ~hb => pos + Slice <= HBlankStart
         /\ line = 0 /\ ~field_change => pos + Slice <= FieldPos
BY MachineAssumption
   DEF BeamInv, BeamTypes, FieldChangeAt, HBlankAt, InLine, Slice

LEMMA FlagsStay ==
  ASSUME FlagTypes, Next
  PROVE  FlagTypes'
<1>1. CASE Guest
  <2>1. CASE WriteTimers
    BY <2>1, Zenon DEF WriteTimers, FlagTypes, place, tv
  <2>2. CASE ArmDma \/ WriteMask \/ TakeInterrupt \/ RequestClockChange
    <3>1. UNCHANGED <<place, halted, tv, steady>>
      BY <2>2 DEF ArmDma, WriteMask, TakeInterrupt, RequestClockChange, scu
    <3> QED
      BY <3>1, Zenon DEF FlagTypes, place, tv
  <2>3. CASE WriteVdp2
    <3>1. vblank' \in BOOLEAN /\ odd' \in BOOLEAN /\ touched' \in BOOLEAN
            /\ interlaced' \in BOOLEAN
      <4>1. CASE interlaced' \in BOOLEAN /\ UNCHANGED <<vblank, odd, touched>>
        BY <4>1, Zenon DEF FlagTypes
      <4>2. CASE \E w \in TvstatWrites : /\ vblank' = w.vblank /\ odd' = w.odd
                                         /\ touched' = TRUE /\ UNCHANGED interlaced
        <5>1. PICK w \in TvstatWrites : /\ vblank' = w.vblank /\ odd' = w.odd
                                        /\ touched' = TRUE /\ interlaced' = interlaced
          BY <4>2
        <5>2. w \in [vblank : BOOLEAN, odd : BOOLEAN]
          BY MachineAssumption
        <5>3. w.vblank \in BOOLEAN /\ w.odd \in BOOLEAN
          BY <5>2
        <5> QED
          BY <5>1, <5>3, Zenon DEF FlagTypes
      <4> QED
        BY <2>3, <4>1, <4>2, Zenon DEF WriteVdp2
    <3>2. UNCHANGED <<place, halted, steady>>
      BY <2>3 DEF WriteVdp2, scu
    <3> QED
      BY <3>1, <3>2, Zenon DEF FlagTypes, place
  <2>5. CASE Nmi
    BY <2>5, Zenon DEF Nmi, FlagTypes, place
  <2>4. CASE Fault
    BY <2>4, Zenon DEF Fault, FlagTypes, place, tv, scu
  <2> QED
    BY <1>1, <2>1, <2>2, <2>3, <2>4, <2>5, Zenon DEF Guest
<1>2. CASE Field
  <2>1. CASE RunField \/ NoBoundary \/ NextSlice
    BY <2>1, Zenon DEF RunField, NoBoundary, NextSlice, FlagTypes, place, tv, scu
  <2>2. CASE VBlankOut
    BY <2>2, Zenon DEF VBlankOut, FlagTypes
  <2>3. CASE VBlankIn
    BY <2>3, Zenon DEF VBlankIn, FlagTypes
  <2>4. CASE TimerHBlank
    BY <2>4, Zenon DEF TimerHBlank, FlagTypes, place, tv
  <2>5. CASE RunSlice
    BY <2>5, Zenon DEF RunSlice, SmpcTick, FlagTypes, tv
  <2>6. CASE FieldChange \/ HBlankIn
    BY <2>6, Zenon DEF FieldChange, HBlankIn, FlagTypes, tv, scu
  <2>7. CASE EndLine \/ EndFaulted
    BY <2>7, Zenon DEF EndLine, EndFaulted, FlagTypes, tv, scu
  <2> QED
    BY <1>2, <2>1, <2>2, <2>3, <2>4, <2>5, <2>6, <2>7, Zenon DEF Field
<1> QED
  BY <1>1, <1>2 DEF Next

\* The beam's invariant is kept by every step.
LEMMA BeamStep ==
  ASSUME BeamInv, [Next]_vars
  PROVE  BeamInv'
<1>1. CASE Next
  <2>0. FlagTypes'
    BY <1>1, FlagsStay DEF BeamInv
  <2>1. CASE Guest
    <3>1. pc' = pc /\ UNCHANGED <<quantum, place>> /\ (halted' = halted \/ halted')
      BY <2>1 DEF Guest, WriteTimers, ArmDma, WriteMask, WriteVdp2, TakeInterrupt,
         RequestClockChange, Nmi, Fault
    <3> QED
      BY <2>0, <3>1 DEF BeamInv, BeamTypes, OutsideLine, Latched, AtBoundary, FieldChangeAt,
         HBlankAt, InLine, Clocked, place
  <2>2. CASE RunField
    BY <2>0, <2>2 DEF RunField, BeamInv, BeamTypes, OutsideLine, Latched, AtBoundary,
       FieldChangeAt, HBlankAt, InLine, Clocked
  <2>3. CASE VBlankOut
    BY <2>0, <2>3 DEF VBlankOut, BeamInv, BeamTypes, OutsideLine, Latched, AtBoundary,
       FieldChangeAt, HBlankAt, InLine, Clocked
  <2>4. CASE VBlankIn
    BY <2>0, <2>4 DEF VBlankIn, BeamInv, BeamTypes, OutsideLine, Latched, AtBoundary,
       FieldChangeAt, HBlankAt, InLine, Clocked
  <2>5. CASE NoBoundary
    BY <2>0, <2>5 DEF NoBoundary, place, BeamInv, BeamTypes, OutsideLine, Latched,
       AtBoundary, FieldChangeAt, HBlankAt, InLine, Clocked
  <2>6. CASE TimerHBlank
    BY <2>0, <2>6, MachineAssumption DEF TimerHBlank, place, BeamInv, BeamTypes,
       OutsideLine, Latched, AtBoundary, FieldChangeAt, HBlankAt, InLine, Clocked
  <2>7. CASE RunSlice
    <3>1. /\ Slice \in 1 .. CycPerLine - pos
          /\ ~hb => pos + Slice <= HBlankStart
          /\ line = 0 /\ ~field_change => pos + Slice <= FieldPos
      BY <2>7, SliceBounds DEF RunSlice
    <3>2. /\ pc = "cpu" /\ pc' = "edges" /\ pos' = pos + Slice
          /\ clk' = (IF clk + Slice < CycPerLine THEN clk + Slice
                                                 ELSE clk + Slice - CycPerLine)
          /\ UNCHANGED <<quantum, line, vblank_boundary_done, hb, field_change, halted>>
      BY <2>7 DEF RunSlice
    <3>3. BeamTypes'
      BY <3>1, <3>2, MachineAssumption DEF BeamInv, BeamTypes
    <3>4. Clocked'
      BY <3>1, <3>2, MachineAssumption DEF BeamInv, BeamTypes, Clocked, InLine
    <3>5. (OutsideLine /\ Latched /\ InLine)'
      BY <3>2 DEF BeamInv, OutsideLine, Latched, AtBoundary, InLine
    <3>6. (FieldChangeAt /\ HBlankAt)'
      BY <3>1, <3>2, MachineAssumption DEF BeamInv, BeamTypes, FieldChangeAt, HBlankAt
    <3> QED
      BY <2>0, <3>3, <3>4, <3>5, <3>6 DEF BeamInv
  <2>8. CASE FieldChange
    BY <2>0, <2>8 DEF FieldChange, FieldChangeDue, BeamInv, BeamTypes, OutsideLine,
       Latched, AtBoundary, FieldChangeAt, HBlankAt, InLine, Clocked
  <2>9. CASE HBlankIn
    BY <2>0, <2>9 DEF HBlankIn, HBlankDue, BeamInv, BeamTypes, OutsideLine,
       Latched, AtBoundary, FieldChangeAt, HBlankAt, InLine, Clocked
  <2>10. CASE NextSlice
    BY <2>0, <2>10, MachineAssumption DEF NextSlice, FieldChangeDue, HBlankDue, place,
       BeamInv, BeamTypes, OutsideLine, Latched, AtBoundary, FieldChangeAt, HBlankAt,
       InLine, Clocked
  <2>11. CASE EndLine
    BY <2>0, <2>11, MachineAssumption DEF EndLine, BeamInv, BeamTypes, OutsideLine,
       Latched, AtBoundary, FieldChangeAt, HBlankAt, InLine, Clocked
  <2>12. CASE EndFaulted
    BY <2>0, <2>12, MachineAssumption DEF EndFaulted, BeamInv, BeamTypes, OutsideLine,
       Latched, AtBoundary, FieldChangeAt, HBlankAt, InLine, Clocked
  <2> QED
    BY <1>1, <2>1, <2>2, <2>3, <2>4, <2>5, <2>6, <2>7, <2>8, <2>9, <2>10, <2>11, <2>12
       DEF Next, Field
<1>2. CASE UNCHANGED vars
  BY <1>2 DEF vars, place, tv, scu, BeamInv, BeamTypes, FlagTypes, OutsideLine, Latched,
     AtBoundary, FieldChangeAt, HBlankAt, InLine, Clocked
<1> QED
  BY <1>1, <1>2

(***************************************************************************)
(* Refinement.  How many edges a line has announced follows from the       *)
(* beam's invariant, so a step of the scheduler is a step of the raster.   *)
(***************************************************************************)
LEMMA RasterEdges ==
  /\ Len(Beam!Edges(0)) = 4 /\ Len(Beam!Edges(LineVBlank)) = 3
  /\ Beam!Place(Beam!Edges(0)[1]) = 0 /\ Beam!Place(Beam!Edges(0)[2]) = 0
  /\ Beam!Place(Beam!Edges(0)[3]) = FieldPos /\ Beam!Place(Beam!Edges(0)[4]) = HBlankStart
  /\ Beam!Place(Beam!Edges(LineVBlank)[1]) = 0 /\ Beam!Place(Beam!Edges(LineVBlank)[2]) = 0
  /\ Beam!Place(Beam!Edges(LineVBlank)[3]) = HBlankStart
  /\ \A l : l # 0 /\ l # LineVBlank =>
        /\ Len(Beam!Edges(l)) = 2
        /\ Beam!Place(Beam!Edges(l)[1]) = 0 /\ Beam!Place(Beam!Edges(l)[2]) = HBlankStart
BY MachineAssumption DEF Beam!Edges, Beam!Place

\* What is announced, and up to where the beam may go, at each place.
LEMMA Progress ==
  ASSUME BeamInv
  PROVE  /\ pc \in {"frontend", "loop"} =>
              Announced = (IF AtBoundary /\ vblank_boundary_done THEN 1 ELSE 0)
         /\ pc = "timers" => Announced = (IF AtBoundary THEN 1 ELSE 0)
         /\ pc \in {"cpu", "edges"} =>
              Announced = (IF AtBoundary THEN 2 ELSE 1) + (IF field_change THEN 1 ELSE 0)
                            + (IF hb THEN 1 ELSE 0)
BY DEF BeamInv, BeamTypes, OutsideLine, Latched, AtBoundary, Announced

\* Initial states map to the raster's.
LEMMA RasterInitial ==
  Init => Beam!RasterInit
BY DEF Init, Beam!RasterInit, Announced

\* Each step of a machine that runs is a step of the raster or a stutter.
LEMMA RasterStep ==
  ASSUME BeamInv, BeamInv', [Next]_vars
  PROVE  [Beam!RasterNext]_(Beam!beam)
<1>1. CASE halted'
  BY <1>1 DEF Beam!RasterNext, Beam!Fault
<1>2. CASE ~halted' /\ UNCHANGED vars
  BY <1>2 DEF vars, place, Beam!beam, Announced
<1>3. CASE ~halted' /\ Next
  <2>0. ~halted
    BY <1>3 DEF Next, Guest, Field, WriteTimers, ArmDma, WriteMask, WriteVdp2, TakeInterrupt,
       RequestClockChange, Nmi, Fault, RunField, VBlankOut, VBlankIn, NoBoundary, TimerHBlank,
       RunSlice, FieldChange, HBlankIn, NextSlice, EndLine, EndFaulted
  <2>1. CASE Guest
    <3>1. UNCHANGED <<pc, place>>
      BY <2>1 DEF Guest, WriteTimers, ArmDma, WriteMask, WriteVdp2, TakeInterrupt,
         RequestClockChange, Nmi, Fault
    <3>2. halted' = halted
      BY <1>3, <2>0, <2>1 DEF Guest, WriteTimers, ArmDma, WriteMask, WriteVdp2,
         TakeInterrupt, RequestClockChange, Nmi, Fault
    <3> QED
      BY <3>1, <3>2 DEF place, Beam!beam, Announced
  <2>2. CASE RunField \/ NoBoundary \/ NextSlice
    BY <2>2, Progress DEF RunField, NoBoundary, NextSlice, place, Beam!beam, Announced,
       BeamInv, Latched, AtBoundary
  <2>3. CASE VBlankOut
    BY <2>0, <2>3, RasterEdges DEF VBlankOut, BeamInv, OutsideLine, Announced,
       Beam!RasterNext, Beam!Announce
  <2>4. CASE VBlankIn
    BY <2>0, <2>4, RasterEdges, MachineAssumption DEF VBlankIn, BeamInv, OutsideLine,
       Announced, Beam!RasterNext, Beam!Announce
  <2>5. CASE TimerHBlank
    BY <2>0, <2>5, RasterEdges, MachineAssumption DEF TimerHBlank, place, BeamInv, OutsideLine,
       Latched, AtBoundary, Announced, Beam!RasterNext, Beam!Announce
  <2>6. CASE RunSlice
    <3>1. /\ Slice \in 1 .. CycPerLine - pos
          /\ ~hb => pos + Slice <= HBlankStart
          /\ line = 0 /\ ~field_change => pos + Slice <= FieldPos
      BY <2>6, SliceBounds DEF RunSlice
    <3>2. /\ pc = "cpu" /\ pc' = "edges" /\ pos' = pos + Slice
          /\ UNCHANGED <<line, vblank_boundary_done, hb, field_change, halted>>
      BY <2>6 DEF RunSlice
    <3>3. Announced' = Announced
      BY <3>2 DEF Announced
    <3>4. pos' <= Beam!Limit
      <4>1. Announced = (IF AtBoundary THEN 2 ELSE 1) + (IF field_change THEN 1 ELSE 0)
                          + (IF hb THEN 1 ELSE 0)
        BY <3>2, Progress
      <4>2. CASE line = 0
        <5>1. /\ hb => field_change
              /\ ~field_change => Announced = 2
              /\ field_change /\ ~hb => Announced = 3
              /\ hb => Announced = 4
          BY <3>2, <4>1, <4>2, MachineAssumption
             DEF BeamInv, BeamTypes, FieldChangeAt, HBlankAt, AtBoundary
        <5>2. CASE ~field_change
          <6>1. Beam!Limit = FieldPos
            BY <4>2, <5>1, <5>2, RasterEdges DEF Beam!Limit
          <6> QED
            BY <3>1, <3>2, <4>2, <5>2, <6>1
        <5>3. CASE field_change /\ ~hb
          <6>1. Beam!Limit = HBlankStart
            BY <4>2, <5>1, <5>3, RasterEdges DEF Beam!Limit
          <6> QED
            BY <3>1, <3>2, <5>3, <6>1
        <5>4. CASE hb
          <6>1. Beam!Limit = CycPerLine
            BY <4>2, <5>1, <5>4, RasterEdges DEF Beam!Limit
          <6> QED
            BY <3>1, <3>2, <6>1, MachineAssumption DEF BeamInv, BeamTypes
        <5> QED
          BY <5>2, <5>3, <5>4
      <4>3. CASE line = LineVBlank
        BY <3>1, <3>2, <4>1, <4>3, RasterEdges, MachineAssumption
           DEF BeamInv, BeamTypes, FieldChangeAt, AtBoundary, Beam!Limit
      <4>4. CASE ~AtBoundary
        <5>1. /\ Len(Beam!Edges(line)) = 2 /\ Beam!Place(Beam!Edges(line)[2]) = HBlankStart
              /\ ~field_change
          BY <4>4, RasterEdges DEF AtBoundary, BeamInv, FieldChangeAt
        <5>2. CASE ~hb
          <6>1. Announced = 1
            BY <4>1, <4>4, <5>1, <5>2
          <6>2. Beam!Limit = HBlankStart
            BY <5>1, <6>1 DEF Beam!Limit
          <6> QED
            BY <3>1, <3>2, <5>2, <6>2
        <5>3. CASE hb
          <6>1. Announced = 2
            BY <4>1, <4>4, <5>1, <5>3
          <6>2. Beam!Limit = CycPerLine
            BY <5>1, <6>1 DEF Beam!Limit
          <6> QED
            BY <3>1, <3>2, <6>2, MachineAssumption DEF BeamInv, BeamTypes
        <5> QED
          BY <5>2, <5>3
      <4> QED
        BY <4>2, <4>3, <4>4 DEF AtBoundary
    <3>5. pos' \in pos + 1 .. Beam!Limit
      BY <3>1, <3>2, <3>4, MachineAssumption DEF BeamInv, BeamTypes, Beam!Limit, Beam!Place
    <3> QED
      BY <2>0, <3>2, <3>3, <3>5 DEF Beam!RasterNext, Beam!Move
  <2>7. CASE FieldChange
    BY <2>0, <2>7, Progress, RasterEdges, MachineAssumption DEF FieldChange, FieldChangeDue,
       BeamInv, BeamTypes, FieldChangeAt, HBlankAt, AtBoundary, Announced, Beam!RasterNext,
       Beam!Announce
  <2>8. CASE HBlankIn
    <3>1. pos = HBlankStart /\ (line = 0 => field_change) /\ (line # 0 => ~field_change)
      BY <2>8, MachineAssumption DEF HBlankIn, HBlankDue, FieldChangeDue, BeamInv, BeamTypes,
         FieldChangeAt, HBlankAt
    <3>2. Announced' = Announced + 1
      BY <2>8 DEF HBlankIn, HBlankDue, Announced
    <3>3. Announced = (IF AtBoundary THEN 2 ELSE 1) + (IF field_change THEN 1 ELSE 0)
      BY <2>8, Progress DEF HBlankIn, HBlankDue
    <3>4. /\ Announced < Len(Beam!Edges(line))
          /\ pos = Beam!Place(Beam!Edges(line)[Announced + 1])
      BY <3>1, <3>3, RasterEdges, MachineAssumption DEF AtBoundary
    <3> QED
      BY <2>0, <2>8, <3>2, <3>4 DEF HBlankIn, Beam!RasterNext, Beam!Announce
  <2>9. CASE EndLine
    <3>1. pos = CycPerLine /\ hb /\ (line = 0 => field_change) /\ (line # 0 => ~field_change)
      BY <2>9, MachineAssumption DEF EndLine, HBlankDue, FieldChangeDue, BeamInv, BeamTypes,
         FieldChangeAt
    <3>2. Announced = Len(Beam!Edges(line))
      <4>1. Announced = (IF AtBoundary THEN 2 ELSE 1) + (IF line = 0 THEN 1 ELSE 0) + 1
        BY <2>9, <3>1, Progress DEF EndLine
      <4>2. Len(Beam!Edges(line)) = (IF line = 0 THEN 4 ELSE IF line = LineVBlank THEN 3 ELSE 2)
        BY RasterEdges, MachineAssumption
      <4> QED
        BY <4>1, <4>2, MachineAssumption DEF AtBoundary
    <3>3. Announced' = 0
      BY <2>9 DEF EndLine, Announced
    <3>4. line' = (IF line + 1 < LinesTotal THEN line + 1 ELSE 0) /\ pos' = 0
      BY <2>9, MachineAssumption DEF EndLine, BeamInv, BeamTypes
    <3> QED
      BY <2>0, <2>9, <3>1, <3>2, <3>3, <3>4 DEF EndLine, Beam!RasterNext, Beam!NextLine
  <2>10. CASE EndFaulted
    BY <2>0, <2>10 DEF EndFaulted
  <2> QED
    BY <1>3, <2>1, <2>2, <2>3, <2>4, <2>5, <2>6, <2>7, <2>8, <2>9, <2>10 DEF Next, Field
<1> QED
  BY <1>1, <1>2, <1>3

(***************************************************************************)
(* The registers against the line.  Between the end of a line and the edge *)
(* that begins the next one they still show the old line, which is what    *)
(* EdgePending stands for.                                                 *)
(***************************************************************************)
EdgePending == AtBoundary /\ ~vblank_boundary_done
VBlankFollowsLine == ~EdgePending /\ ~touched => (vblank <=> line >= LineVBlank)
CounterFollowsLine ==
  steady /\ ~halted /\ ~(line = 0 /\ ~vblank_boundary_done) =>
    t0_counter = (IF pc \in {"cpu", "edges"} THEN line + 1 ELSE line)

IInv == BeamInv /\ RegisterTypes /\ VBlankFollowsLine /\ CounterFollowsLine
          /\ FrameEndsAtBlanking

LEMMA Remainder ==
  ASSUME NEW m \in Nat \ {0}, NEW x \in Nat
  PROVE  x % m \in 0 .. m - 1 /\ (x < m => x % m = x)
OBVIOUS

LEMMA RaiseTypes ==
  ASSUME RegisterTypes, NEW bits \in SUBSET Bits, NEW fs, Raise(bits, fs)
  PROVE  ipend' \in SUBSET Bits /\ armed' \in [Levels -> Factors \cup {None}]
<1>1. \A l \in Levels : DmaEnd(l) \in Bits
  BY MachineAssumption DEF DmaEnd, Bits
<1> QED
  BY <1>1 DEF Raise, RegisterTypes, Triggered

LEMMA RegistersStep ==
  ASSUME BeamInv, RegisterTypes, [Next]_vars
  PROVE  RegisterTypes'
<1>0. {0} \in SUBSET Bits /\ {2} \in SUBSET Bits /\ ResetMask \in SUBSET Bits
        /\ Bits \ {0, 1} \in SUBSET Bits
  BY DEF Bits, ResetMask
<1>1. CASE WriteTimers
  BY <1>1, MachineAssumption DEF WriteTimers, RegisterTypes
<1>2. CASE ArmDma
  <2>1. \A l \in Levels : DmaEnd(l) \in Bits
    BY MachineAssumption DEF DmaEnd, Bits
  <2>2. ipend' \in SUBSET Bits /\ armed' \in [Levels -> Factors \cup {None}]
    BY <1>2, <2>1 DEF ArmDma, RegisterTypes
  <2> QED
    BY <1>2, <2>2 DEF ArmDma, RegisterTypes
<1>3. CASE WriteMask
  BY <1>3, MachineAssumption DEF WriteMask, RegisterTypes
<1>4. CASE WriteVdp2
  BY <1>4 DEF WriteVdp2, scu, RegisterTypes
<1>5. CASE TakeInterrupt
  BY <1>5 DEF TakeInterrupt, RegisterTypes
<1>6. CASE RequestClockChange
  BY <1>6 DEF RequestClockChange, scu, RegisterTypes
<1>7. CASE Nmi
  BY <1>0, <1>7 DEF Nmi, RegisterTypes
<1>8. CASE Fault \/ RunField \/ NoBoundary \/ FieldChange \/ NextSlice \/ EndLine \/ EndFaulted
  BY <1>8 DEF Fault, RunField, NoBoundary, FieldChange, NextSlice, EndLine, EndFaulted, scu,
     RegisterTypes
<1>9. CASE VBlankOut
  <2>1. {1} \cup Timer0At(0) \in SUBSET Bits
    BY DEF Timer0At, Bits
  <2>2. ipend' \in SUBSET Bits /\ armed' \in [Levels -> Factors \cup {None}]
    BY <1>9, <2>1, RaiseTypes DEF VBlankOut
  <2> QED
    BY <1>9, <2>2, MachineAssumption DEF VBlankOut, RegisterTypes
<1>10. CASE VBlankIn
  <2>1. ipend' \in SUBSET Bits /\ armed' \in [Levels -> Factors \cup {None}]
    BY <1>0, <1>10, RaiseTypes DEF VBlankIn
  <2> QED
    BY <1>10, <2>1 DEF VBlankIn, RegisterTypes
<1>11. CASE TimerHBlank
  <2>1. UNCHANGED <<mask, timer, pending_ckchg>>
    BY <1>11 DEF TimerHBlank
  <2>2. CASE ~timer.enable
    BY <1>11, <2>1, <2>2 DEF TimerHBlank, RegisterTypes
  <2>3. CASE timer.enable
    <3> DEFINE c == (t0_counter + 1) % TimerMod
               raised == Timer0At(c) \cup (IF ~timer.mode \/ c = timer.compare THEN {4} ELSE {})
    <3>1. t0_counter' = c /\ Raise(raised, raised)
      BY <1>11, <2>3 DEF TimerHBlank
    <3>2. raised \in SUBSET Bits
      BY DEF Timer0At, Bits
    <3>3. ipend' \in SUBSET Bits /\ armed' \in [Levels -> Factors \cup {None}]
      BY <3>1, <3>2, RaiseTypes
    <3>4. c \in 0 .. TimerMod - 1
      BY Remainder, MachineAssumption DEF RegisterTypes
    <3> QED
      BY <2>1, <3>1, <3>3, <3>4 DEF RegisterTypes
  <2> QED
    BY <2>2, <2>3
<1>12. CASE RunSlice
  BY <1>0, <1>12 DEF RunSlice, SmpcTick, RegisterTypes
<1>13. CASE HBlankIn
  <2>1. ipend' \in SUBSET Bits /\ armed' \in [Levels -> Factors \cup {None}]
    BY <1>0, <1>13, RaiseTypes DEF HBlankIn
  <2> QED
    BY <1>13, <2>1 DEF HBlankIn, RegisterTypes
<1>14. CASE UNCHANGED vars
  BY <1>14 DEF vars, scu, RegisterTypes
<1> QED
  BY <1>1, <1>2, <1>3, <1>4, <1>5, <1>6, <1>7, <1>8, <1>9, <1>10, <1>11, <1>12, <1>13, <1>14
     DEF Next, Guest, Field

\* V-Blank in TVSTAT: only edges, a reset and the next line matter.
LEMMA VBlankStep ==
  ASSUME BeamInv, VBlankFollowsLine, [Next]_vars
  PROVE  VBlankFollowsLine'
<1>1. CASE VBlankOut
  BY <1>1, MachineAssumption DEF VBlankOut, VBlankFollowsLine
<1>2. CASE VBlankIn
  BY <1>2, MachineAssumption DEF VBlankIn, VBlankFollowsLine
<1>3. CASE RunSlice
  BY <1>3 DEF RunSlice, SmpcTick, tv, VBlankFollowsLine, EdgePending, AtBoundary
<1>4. CASE EndLine
  <2>1. /\ UNCHANGED <<vblank, touched>> /\ vblank_boundary_done' = FALSE
        /\ line' = (IF line + 1 >= LinesTotal THEN 0 ELSE line + 1)
    BY <1>4 DEF EndLine, tv
  <2>2. ~EdgePending
    BY <1>4 DEF EndLine, EdgePending, BeamInv, Latched
  <2>3. ~EdgePending' => (line' >= LineVBlank <=> line >= LineVBlank)
    BY <2>1, MachineAssumption DEF EdgePending, AtBoundary, BeamInv, BeamTypes
  <2> QED
    BY <2>1, <2>2, <2>3 DEF VBlankFollowsLine
<1>5. CASE WriteVdp2
  BY <1>5 DEF WriteVdp2, place, VBlankFollowsLine, EdgePending, AtBoundary
<1>6. CASE \/ WriteTimers \/ ArmDma \/ WriteMask \/ TakeInterrupt
           \/ RequestClockChange \/ Nmi \/ Fault \/ RunField \/ NoBoundary \/ TimerHBlank
           \/ FieldChange \/ HBlankIn \/ NextSlice \/ EndFaulted \/ UNCHANGED vars
  <2>1. UNCHANGED <<vblank, touched, line, vblank_boundary_done>>
    BY <1>6 DEF WriteTimers, ArmDma, WriteMask, TakeInterrupt,
       RequestClockChange, Nmi, Fault, RunField, NoBoundary, TimerHBlank, FieldChange,
       HBlankIn, NextSlice, EndFaulted, vars, place, tv
  <2> QED
    BY <2>1 DEF VBlankFollowsLine, EdgePending, AtBoundary
<1> QED
  BY <1>1, <1>2, <1>3, <1>4, <1>5, <1>6 DEF Next, Guest, Field

\* The Timer 0 counter: a reset at V-Blank-OUT and one tick per line.
LEMMA CounterStep ==
  ASSUME BeamInv, RegisterTypes, CounterFollowsLine, [Next]_vars
  PROVE  CounterFollowsLine'
<1>1. CASE VBlankOut
  BY <1>1 DEF VBlankOut, CounterFollowsLine
<1>2. CASE VBlankIn
  BY <1>2, MachineAssumption DEF VBlankIn, CounterFollowsLine
<1>3. CASE TimerHBlank
  <2>1. CASE ~timer.enable
    BY <1>3, <2>1 DEF TimerHBlank, CounterFollowsLine
  <2>2. CASE timer.enable
    <3>1. /\ pc = "timers" /\ pc' = "cpu" /\ t0_counter' = (t0_counter + 1) % TimerMod
          /\ steady' = steady
          /\ UNCHANGED <<line, vblank_boundary_done, halted>>
      <4>1. steady' = (steady /\ timer.enable)
        BY <1>3 DEF TimerHBlank
      <4> QED
        BY <1>3, <2>2, <4>1 DEF TimerHBlank, place, BeamInv, FlagTypes
    <3>2. line = 0 => vblank_boundary_done
      BY <3>1 DEF BeamInv, Latched, AtBoundary
    <3>3. SUFFICES ASSUME steady, ~halted
                   PROVE  t0_counter' = line + 1
      BY <3>1 DEF CounterFollowsLine
    <3>4. t0_counter = line
      BY <3>1, <3>2, <3>3 DEF CounterFollowsLine
    <3>5. line + 1 \in Nat /\ line + 1 < TimerMod /\ TimerMod \in Nat \ {0}
      BY MachineAssumption DEF BeamInv, BeamTypes
    <3>6. (line + 1) % TimerMod = line + 1
      BY <3>5, Remainder
    <3> QED
      BY <3>1, <3>4, <3>6
  <2> QED
    BY <2>1, <2>2
<1>4. CASE EndLine
  <2>1. /\ UNCHANGED <<steady, halted, t0_counter>> /\ vblank_boundary_done' = FALSE
        /\ pc = "edges" /\ pc' = "loop" /\ ~halted
        /\ line' = (IF line + 1 >= LinesTotal THEN 0 ELSE line + 1)
    BY <1>4 DEF EndLine, scu
  <2>2. line = 0 => vblank_boundary_done
    BY <2>1 DEF BeamInv, Latched, AtBoundary
  <2> QED
    BY <2>1, <2>2, MachineAssumption DEF CounterFollowsLine, BeamInv, BeamTypes
<1>5. CASE WriteTimers
  BY <1>5 DEF WriteTimers, place, CounterFollowsLine
<1>6. CASE Fault \/ EndFaulted
  BY <1>6 DEF Fault, EndFaulted, CounterFollowsLine
<1>7. CASE \/ ArmDma \/ WriteMask \/ WriteVdp2 \/ TakeInterrupt \/ RequestClockChange
           \/ Nmi \/ RunField \/ NoBoundary \/ RunSlice \/ FieldChange \/ HBlankIn
           \/ NextSlice \/ UNCHANGED vars
  <2>1. UNCHANGED <<steady, halted, t0_counter, line, vblank_boundary_done>>
    BY <1>7 DEF ArmDma, WriteMask, WriteVdp2, TakeInterrupt, RequestClockChange, Nmi,
       RunField, NoBoundary, RunSlice, FieldChange, HBlankIn, NextSlice, vars, place, scu
  <2>2. pc' \in {"cpu", "edges"} <=> pc \in {"cpu", "edges"} \/ pc' = "cpu"
    BY <1>7 DEF ArmDma, WriteMask, WriteVdp2, TakeInterrupt, RequestClockChange, Nmi,
       RunField, NoBoundary, RunSlice, FieldChange, HBlankIn, NextSlice, vars
  <2>3. pc' = "cpu" => pc \in {"cpu", "edges"}
    BY <1>7 DEF ArmDma, WriteMask, WriteVdp2, TakeInterrupt, RequestClockChange, Nmi,
       RunField, NoBoundary, RunSlice, FieldChange, HBlankIn, NextSlice, vars
  <2> QED
    BY <2>1, <2>2, <2>3 DEF CounterFollowsLine
<1> QED
  BY <1>1, <1>2, <1>3, <1>4, <1>5, <1>6, <1>7 DEF Next, Guest, Field

\* A frame's end: nothing but V-Blank-IN comes back from a field it has begun,
\* unless the machine has halted.
LEMMA FrameStep ==
  ASSUME BeamInv, FrameEndsAtBlanking, [Next]_vars
  PROVE  FrameEndsAtBlanking'
<1>1. CASE VBlankIn
  <2>1. 0 \in ipend' \/ 0 \in Suppressed
    BY <1>1 DEF VBlankIn, Raise
  <2> QED
    BY <1>1, <2>1 DEF VBlankIn, FrameEndsAtBlanking
<1>2. CASE EndFaulted
  BY <1>2 DEF EndFaulted, FrameEndsAtBlanking
<1>3. CASE UNCHANGED vars
  BY <1>3 DEF vars, place, tv, scu, FrameEndsAtBlanking
<1>4. CASE Guest
  <2>1. pc' = "cpu"
    BY <1>4 DEF Guest, WriteTimers, ArmDma, WriteMask, WriteVdp2, TakeInterrupt,
       RequestClockChange, Nmi, Fault
  <2> QED
    BY <2>1 DEF FrameEndsAtBlanking
<1>5. CASE RunField \/ VBlankOut \/ NoBoundary \/ TimerHBlank \/ RunSlice \/ FieldChange
             \/ HBlankIn \/ NextSlice \/ EndLine
  <2>1. pc' # "frontend"
    BY <1>5 DEF RunField, VBlankOut, NoBoundary, TimerHBlank, RunSlice, FieldChange,
       HBlankIn, NextSlice, EndLine
  <2> QED
    BY <2>1 DEF FrameEndsAtBlanking
<1> QED
  BY <1>1, <1>2, <1>3, <1>4, <1>5 DEF Next, Field

LEMMA Initially == Init => IInv
<1> SUFFICES ASSUME Init PROVE IInv
  OBVIOUS
<1>1. quantum \in 1 .. CycPerLine
  BY MachineAssumption DEF Init, Quantum
<1>2. BeamTypes
  BY <1>1, MachineAssumption DEF Init, BeamTypes
<1>3. FlagTypes
  BY Zenon DEF Init, FlagTypes
<1>4. OutsideLine /\ Latched /\ FieldChangeAt /\ HBlankAt /\ InLine /\ Clocked
  BY MachineAssumption DEF Init, OutsideLine, Latched, FieldChangeAt, HBlankAt, InLine, Clocked
<1>5. RegisterTypes
  BY MachineAssumption DEF Init, RegisterTypes, Settings
<1>6. VBlankFollowsLine /\ CounterFollowsLine /\ FrameEndsAtBlanking
  BY DEF Init, VBlankFollowsLine, EdgePending, AtBoundary, CounterFollowsLine,
     FrameEndsAtBlanking
<1> QED
  BY <1>2, <1>3, <1>4, <1>5, <1>6 DEF IInv, BeamInv

\* The inductive invariant holds in every behaviour.
THEOREM MachineInvariance == Spec => []IInv
<1>1. IInv /\ [Next]_vars => IInv'
  BY BeamStep, RegistersStep, VBlankStep, CounterStep, FrameStep DEF IInv
<1> QED
  BY Initially, <1>1, PTL DEF Spec

\* All variables keep their types.
THEOREM MachineTypeCorrect == Spec => []TypeOK
<1>1. IInv => TypeOK
  BY DEF IInv, BeamInv, TypeOK
<1> QED
  BY MachineInvariance, <1>1, PTL

\* Whatever its slices and however a frame ends, the scheduler announces every
\* edge of every line once, at its place: it implements the raster.
THEOREM MachineIsARaster == Spec => Implements
<1>1. IInv /\ IInv' /\ [Next]_vars => [Beam!RasterNext]_(Beam!beam)
  BY RasterStep DEF IInv
<1> QED
  BY MachineInvariance, RasterInitial, <1>1, PTL DEF Spec, Implements, Beam!RasterSpec

\* What a CPU reads of H-Blank and V-Blank agrees with the interrupts raised.
THEOREM TvstatAgrees == Spec => []TvstatTracksBeam
<1>1. IInv => TvstatTracksBeam
  <2> SUFFICES ASSUME IInv, pc = "cpu", ~halted
               PROVE  (HBlankBit <=> hb) /\ (~touched => (vblank <=> line >= LineVBlank))
    BY DEF TvstatTracksBeam
  <2>1. HBlankBit <=> hb
    BY MachineAssumption DEF IInv, BeamInv, BeamTypes, InLine, Clocked, HBlankAt, HBlankBit
  <2>2. ~EdgePending
    BY DEF IInv, BeamInv, Latched, EdgePending
  <2> QED
    BY <2>1, <2>2 DEF IInv, VBlankFollowsLine
<1> QED
  BY MachineInvariance, <1>1, PTL

\* A frame handed to the front end ends where blanking begins, before any
\* handler of it has run.
THEOREM FramesEndAtBlanking == Spec => []FrameEndsAtBlanking
<1>1. IInv => FrameEndsAtBlanking
  BY DEF IInv
<1> QED
  BY MachineInvariance, <1>1, PTL

\* Timer 0 fires on its line and on no other.
THEOREM Timer0Exact == Spec => Timer0OnItsLine
<1> DEFINE Fires == pc = "timers" /\ steady /\ timer.enable /\ ~halted =>
                      /\ timer.compare = line + 1 /\ 3 \notin Suppressed => 3 \in ipend'
                      /\ 3 \in ipend' \ ipend => timer.compare = line + 1
<1>1. IInv /\ [Next]_vars => [Fires]_vars
  <2> SUFFICES ASSUME IInv, Next, pc = "timers", steady, timer.enable, ~halted
               PROVE  /\ timer.compare = line + 1 /\ 3 \notin Suppressed => 3 \in ipend'
                      /\ 3 \in ipend' \ ipend => timer.compare = line + 1
    OBVIOUS
  <2>1. TimerHBlank
    BY DEF Next, Guest, Field, WriteTimers, ArmDma, WriteMask, WriteVdp2, TakeInterrupt,
       RequestClockChange, Nmi, Fault, RunField, VBlankOut, VBlankIn, NoBoundary, RunSlice,
       FieldChange, HBlankIn, NextSlice, EndLine, EndFaulted
  <2>2. t0_counter = line
    BY DEF IInv, CounterFollowsLine, BeamInv, Latched, AtBoundary
  <2>3. (t0_counter + 1) % TimerMod = line + 1
    <3>1. line + 1 \in Nat /\ line + 1 < TimerMod /\ TimerMod \in Nat \ {0}
      BY MachineAssumption DEF IInv, BeamInv, BeamTypes
    <3> QED
      BY <2>2, <3>1, Remainder
  <2> DEFINE c == (t0_counter + 1) % TimerMod
             raised == Timer0At(c) \cup (IF ~timer.mode \/ c = timer.compare THEN {4} ELSE {})
  <2>4. Raise(raised, raised)
    BY <2>1 DEF TimerHBlank
  <2>5. 3 \in raised <=> timer.compare = line + 1
    BY <2>3 DEF Timer0At
  <2>6. ipend' = ipend \cup ((raised \cup {DmaEnd(l) : l \in Triggered(raised)}) \ Suppressed)
    BY <2>4 DEF Raise
  <2>7. \A l \in Levels : DmaEnd(l) # 3
    BY MachineAssumption DEF DmaEnd
  <2>8. 3 \notin {DmaEnd(l) : l \in Triggered(raised)}
    BY <2>7 DEF Triggered
  <2> HIDE DEF raised, c
  <2> QED
    BY <2>5, <2>6, <2>8
<1> QED
  BY MachineInvariance, <1>1, PTL DEF Spec, Timer0OnItsLine
=============================================================================
