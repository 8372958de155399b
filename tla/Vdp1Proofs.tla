----------------------------- MODULE Vdp1Proofs -----------------------------
(* The buffers of VDP1 for tables of any size and any guard: the invariant    *)
(* behind the three safety properties of Vdp1, and the properties.            *)
EXTENDS Vdp1, TLAPS, FiniteSetTheorems

\* A draw end is owed exactly while a list is walked.
WalkOwes == active <=> owed

\* An automatic field change leaves an erase to the next one.
AutoErases == auto => erase_pending

\* Outside the visible field, no whole picture on display is yet to be seen.
DisplayIsSeen == beam # "visible" => pic["display"] # "whole"

IInv == TypeOK /\ WalkOwes /\ AutoErases /\ DisplayIsSeen

----------------------------------------------------------------------------
\* An address that wraps is one of a command.
LEMMA WrapInSlots == ASSUME NEW a PROVE Wrap(a) \in Slots
  BY Vdp1Assumption DEF Wrap

\* The invariant holds at power-on.
LEMMA InitInv == Init => IInv
  <1> SUFFICES ASSUME Init PROVE IInv
    OBVIOUS
  <1>1. TypeOK
    <2>1. /\ gpu \in BOOLEAN /\ vbe \in BOOLEAN /\ fcm \in BOOLEAN /\ fct \in BOOLEAN /\ ptm \in BOOLEAN
          /\ fbparams \in BOOLEAN /\ vblank_erase \in BOOLEAN /\ erase_pending \in BOOLEAN
      BY DEF Init
    <2>2. /\ active \in BOOLEAN /\ cef \in BOOLEAN /\ draw_end \in BOOLEAN
          /\ owed \in BOOLEAN /\ auto \in BOOLEAN
      BY DEF Init
    <2>3. list \in Lists /\ beam \in {"border", "visible", "blank"}
      BY DEF Init
    <2>4. addr \in Slots /\ ret_addr \in Slots \cup {None} /\ fb \in Buffers
      BY Vdp1Assumption DEF Init, Buffers
    <2>5. guard \in 0 .. MaxCommands
      BY Vdp1Assumption DEF Init
    <2>6. pic \in [Buffers -> {"none", "partial", "whole", "shown"}]
      BY DEF Init
    <2> QED
      BY <2>1, <2>2, <2>3, <2>4, <2>5, <2>6 DEF TypeOK
  <1>2. WalkOwes /\ AutoErases /\ DisplayIsSeen
    BY DEF Init, WalkOwes, AutoErases, DisplayIsSeen, Buffers
  <1> QED
    BY <1>1, <1>2 DEF IInv

\* Pictures stay pictures.
LEMMA PicType ==
  ASSUME TypeOK, Command \/ End \/ VBlankIn \/ FieldChange
  PROVE  pic' \in [Buffers -> {"none", "partial", "whole", "shown"}]
  <1>1. CASE Command
    BY <1>1 DEF Command, TypeOK, Target, Buffers
  <1>2. CASE End
    BY <1>2 DEF End, TypeOK, Target, Buffers
  <1>3. CASE VBlankIn
    BY <1>3 DEF VBlankIn, TypeOK, Buffers
  <1>4. CASE FieldChange
    <2>1. Erased \in [Buffers -> {"none", "partial", "whole", "shown"}]
      BY DEF Erased, TypeOK, Buffers
    <2>2. Exchanged(Erased) \in [Buffers -> {"none", "partial", "whole", "shown"}]
      BY <2>1 DEF Exchanged, Other, Buffers
    <2> QED
      BY <1>4, <2>1, <2>2 DEF FieldChange
  <1> QED
    BY <1>1, <1>2, <1>3, <1>4

\* A list that begins has its types.
LEMMA BeginType ==
  ASSUME Begin
  PROVE  /\ active' \in BOOLEAN /\ cef' \in BOOLEAN /\ owed' \in BOOLEAN
         /\ addr' \in Slots /\ ret_addr' \in Slots \cup {None}
         /\ guard' \in 0 .. MaxCommands /\ fb' \in Buffers
  <1>1. active' \in BOOLEAN /\ cef' \in BOOLEAN /\ owed' \in BOOLEAN
    BY DEF Begin
  <1>2. addr' \in Slots /\ ret_addr' \in Slots \cup {None} /\ fb' \in Buffers
    BY Vdp1Assumption DEF Begin, Buffers
  <1>3. guard' \in 0 .. MaxCommands
    BY Vdp1Assumption DEF Begin
  <1> QED
    BY <1>1, <1>2, <1>3

\* Each step keeps the types.
LEMMA TypeStep ==
  ASSUME TypeOK, [Next]_vars
  PROVE  TypeOK'
  <1>1. CASE Command
    <2>1. addr' \in Slots /\ ret_addr' \in Slots \cup {None}
      BY <1>1, WrapInSlots DEF Command
    <2>2. guard' \in 0 .. MaxCommands
      BY <1>1, Vdp1Assumption DEF Command, TypeOK
    <2> QED
      BY <1>1, <2>1, <2>2, PicType DEF Command, TypeOK, regs, latches
  <1>2. CASE End
    <2>1. /\ active' \in BOOLEAN /\ cef' \in BOOLEAN /\ draw_end' \in BOOLEAN /\ owed' \in BOOLEAN
          /\ UNCHANGED <<gpu, list, beam, regs, latches, addr, ret_addr, guard, fb, auto>>
      BY <1>2 DEF End
    <2> QED
      BY <1>2, <2>1, PicType DEF TypeOK, regs, latches
  <1>3. CASE Runaway
    <2>1. /\ active' \in BOOLEAN /\ owed' \in BOOLEAN
          /\ UNCHANGED <<gpu, list, beam, regs, latches, addr, ret_addr, guard, fb, cef,
                         draw_end, pic, auto>>
      BY <1>3 DEF Runaway
    <2> QED
      BY <2>1 DEF TypeOK, regs, latches
  <1>4. CASE WriteTvmr
    <2>1. vblank_erase' \in BOOLEAN
      BY <1>4 DEF WriteTvmr
    <2> QED
      BY <1>4, <2>1 DEF WriteTvmr, TypeOK, walk
  <1>5. CASE WriteFbcr
    <2>1. fct' \in BOOLEAN
      BY <1>5 DEF WriteFbcr
    <2> QED
      BY <1>5, <2>1 DEF WriteFbcr, TypeOK, walk
  <1>6. CASE WritePtmr
    <2>1. ptm' \in BOOLEAN
          /\ UNCHANGED <<gpu, list, beam, vbe, fcm, fct, latches, draw_end, pic, auto>>
      BY <1>6 DEF WritePtmr
    <2>2. CASE Begin
      BY <2>1, <2>2, BeginType DEF TypeOK, latches
    <2>3. CASE UNCHANGED <<walk, cef, owed>>
      BY <2>1, <2>3 DEF TypeOK, latches, walk
    <2> QED
      BY <1>6, <2>2, <2>3 DEF WritePtmr
  <1>7. CASE WriteTable
    BY <1>7 DEF WriteTable, TypeOK, regs, latches, walk
  <1>8. CASE TakeDrawEnd
    <2>1. /\ draw_end' \in BOOLEAN
          /\ UNCHANGED <<gpu, list, beam, regs, latches, walk, cef, pic, owed, auto>>
      BY <1>8 DEF TakeDrawEnd
    <2> QED
      BY <2>1 DEF TypeOK, regs, latches, walk
  <1>9. CASE SoftReset
    BY <1>9 DEF SoftReset, TypeOK
  <1>10. CASE VBlankIn
    BY <1>10, PicType DEF VBlankIn, TypeOK, regs, walk
  <1>11. CASE VBlankOut
    BY <1>11 DEF VBlankOut, TypeOK, regs, latches, walk
  <1>12. CASE FieldChange
    <2>1. erase_pending' \in BOOLEAN /\ auto' \in BOOLEAN
      BY <1>12 DEF FieldChange, Erase
    <2>2. CASE Swap /\ ptm
      <3>1. Begin
        BY <1>12, <2>2 DEF FieldChange
      <3>2. /\ beam' = "visible" /\ fbparams' \in BOOLEAN /\ vblank_erase' \in BOOLEAN
            /\ UNCHANGED <<gpu, list, regs, draw_end>>
        BY <1>12 DEF FieldChange
      <3> QED
        BY <1>12, <2>1, <3>1, <3>2, BeginType, PicType DEF TypeOK, regs
    <2>3. CASE ~(Swap /\ ptm)
      <3>1. fb' \in Buffers
        BY <1>12, <2>3 DEF FieldChange, TypeOK, Other, Buffers
      <3>2. cef' \in BOOLEAN
        BY <1>12, <2>3 DEF FieldChange
      <3> QED
        BY <1>12, <2>1, <2>3, <3>1, <3>2, PicType DEF FieldChange, TypeOK, regs
    <2> QED
      BY <2>2, <2>3
  <1>13. CASE UNCHANGED vars
    BY <1>13 DEF vars, TypeOK, regs, latches, walk
  <1> QED
    BY <1>1, <1>2, <1>3, <1>4, <1>5, <1>6, <1>7, <1>8, <1>9, <1>10, <1>11, <1>12, <1>13
       DEF Next, Tick, Guest, Beam

\* A list begins and ends together with what it owes.
LEMMA WalkStep ==
  ASSUME WalkOwes, [Next]_vars
  PROVE  WalkOwes'
  <1>1. CASE Command \/ End \/ Runaway
    BY <1>1 DEF Command, End, Runaway, WalkOwes
  <1>2. CASE WritePtmr
    BY <1>2 DEF WritePtmr, Begin, WalkOwes, walk
  <1>3. CASE FieldChange
    BY <1>3 DEF FieldChange, Begin, WalkOwes
  <1>4. CASE SoftReset
    BY <1>4 DEF SoftReset, WalkOwes
  <1>5. CASE WriteTvmr \/ WriteFbcr \/ WriteTable \/ TakeDrawEnd \/ VBlankIn \/ VBlankOut \/ UNCHANGED vars
    <2>1. UNCHANGED <<active, owed>>
      BY <1>5 DEF WriteTvmr, WriteFbcr, WriteTable, TakeDrawEnd, VBlankIn, VBlankOut, vars, walk
    <2> QED
      BY <2>1 DEF WalkOwes
  <1> QED
    BY <1>1, <1>2, <1>3, <1>4, <1>5 DEF Next, Tick, Guest, Beam

\* Only the next field change carries out the erase, and a reset forgets both.
LEMMA EraseStep ==
  ASSUME AutoErases, [Next]_vars
  PROVE  AutoErases'
  <1>1. CASE FieldChange
    BY <1>1 DEF FieldChange, Erase, AutoErases
  <1>2. CASE SoftReset
    BY <1>2 DEF SoftReset, AutoErases
  <1>3. CASE Command \/ End \/ Runaway
    BY <1>3 DEF Command, End, Runaway, latches, AutoErases
  <1>4. CASE WriteTvmr \/ WriteFbcr \/ WritePtmr \/ WriteTable \/ TakeDrawEnd
    BY <1>4 DEF WriteTvmr, WriteFbcr, WritePtmr, WriteTable, TakeDrawEnd, latches, AutoErases
  <1>5. CASE VBlankIn \/ VBlankOut \/ UNCHANGED vars
    BY <1>5 DEF VBlankIn, VBlankOut, vars, latches, AutoErases
  <1> QED
    BY <1>1, <1>2, <1>3, <1>4, <1>5 DEF Next, Tick, Guest, Beam

\* A whole picture comes to be displayed by a field change alone, which begins the
\* field; V-Blank-IN ends the field and has seen it.
LEMMA SeenStep ==
  ASSUME TypeOK, DisplayIsSeen, [Next]_vars
  PROVE  DisplayIsSeen'
  <1>1. CASE Command
    BY <1>1 DEF Command, Target, TypeOK, DisplayIsSeen, Buffers
  <1>2. CASE End
    BY <1>2 DEF End, TypeOK, DisplayIsSeen, Buffers
  <1>3. CASE VBlankIn
    BY <1>3 DEF VBlankIn, TypeOK, DisplayIsSeen, Buffers
  <1>4. CASE FieldChange
    BY <1>4 DEF FieldChange, DisplayIsSeen
  <1>5. CASE VBlankOut
    BY <1>5 DEF VBlankOut, DisplayIsSeen
  <1>6. CASE Runaway \/ WriteTvmr \/ WriteFbcr \/ WritePtmr \/ WriteTable \/ TakeDrawEnd
    BY <1>6 DEF Runaway, WriteTvmr, WriteFbcr, WritePtmr, WriteTable, TakeDrawEnd, DisplayIsSeen
  <1>7. CASE SoftReset \/ UNCHANGED vars
    BY <1>7 DEF SoftReset, vars, DisplayIsSeen
  <1> QED
    BY <1>1, <1>2, <1>3, <1>4, <1>5, <1>6, <1>7 DEF Next, Tick, Guest, Beam

\* The invariant: types, what a walk owes, what an automatic field change leaves
\* to be erased, what has been seen.  (vdp1.c and vdp1_field_change of bus.c.)
THEOREM Vdp1Invariance == Spec => []IInv
  <1>1. IInv /\ [Next]_vars => IInv'
    BY TypeStep, WalkStep, EraseStep, SeenStep DEF IInv
  <1> QED
    BY InitInv, <1>1, PTL DEF Spec

\* Every variable keeps its type.
THEOREM Vdp1TypeCorrect == Spec => []TypeOK
  BY Vdp1Invariance, PTL DEF IInv

----------------------------------------------------------------------------
\* Sprite Draw End and EDSR.CEF are raised by the END command of a list that was
\* begun and not yet announced, and by nothing else; and each walk that stops has
\* raised both, or has used up its guard and raised neither, or was reset.
\* (vdp1_execute, vdp1_begin_frame, vdp1_soft_reset.)
THEOREM DrawEndCorrect == Spec => DrawEndIsOwed
  <1> DEFINE Raised == (draw_end' /\ ~draw_end) \/ (cef' /\ ~cef)
                         => owed /\ ~owed' /\ ~active' /\ AtEnd
             Stops == active /\ ~active' => \/ AtEnd /\ draw_end' /\ cef'
                                            \/ guard = MaxCommands /\ UNCHANGED <<draw_end, cef>>
                                            \/ ~cef' /\ regs' = <<FALSE, FALSE, FALSE, FALSE>>
             Stays == AtEnd => guard' <= guard
  <1>1. IInv /\ [Next]_vars => [Raised /\ Stops /\ Stays]_vars
    <2> SUFFICES ASSUME IInv, Next PROVE Raised /\ Stops /\ Stays
      OBVIOUS
    <2>0. guard \in 0 .. MaxCommands /\ guard <= guard /\ 0 <= guard
      BY Vdp1Assumption DEF IInv, TypeOK
    <2>1. CASE End
      <3>1. /\ AtEnd /\ active' = FALSE /\ cef' = TRUE /\ draw_end' = TRUE /\ owed' = FALSE
            /\ guard' = guard
        BY <2>1 DEF End
      <3>2. owed
        BY <3>1 DEF AtEnd, IInv, WalkOwes
      <3> QED
        BY <2>0, <3>1, <3>2
    <2>2. CASE Command
      <3>1. ~AtEnd /\ active' = active /\ UNCHANGED <<cef, draw_end>>
        BY <2>2 DEF Command, AtEnd
      <3> QED
        BY <3>1
    <2>3. CASE Runaway
      <3>1. guard = MaxCommands /\ UNCHANGED <<guard, cef, draw_end>>
        BY <2>3 DEF Runaway
      <3> QED
        BY <2>0, <3>1
    <2>4. CASE SoftReset
      <3>1. /\ vbe' = FALSE /\ fcm' = FALSE /\ fct' = FALSE /\ ptm' = FALSE /\ cef' = FALSE
            /\ UNCHANGED <<guard, draw_end>>
        BY <2>4 DEF SoftReset
      <3> QED
        BY <2>0, <3>1 DEF regs
    <2>5. CASE WriteTvmr \/ WriteFbcr \/ WriteTable \/ TakeDrawEnd
      <3>1. UNCHANGED <<active, guard, cef>> /\ (draw_end' => draw_end)
        <4>1. CASE WriteTvmr \/ WriteFbcr \/ WriteTable
          <5>1. UNCHANGED <<walk, cef, draw_end>>
            BY <4>1 DEF WriteTvmr, WriteFbcr, WriteTable
          <5> QED
            BY <5>1 DEF walk
        <4>2. CASE TakeDrawEnd
          <5>1. UNCHANGED <<walk, cef>> /\ draw_end' = FALSE
            BY <4>2 DEF TakeDrawEnd
          <5> QED
            BY <5>1 DEF walk
        <4> QED
          BY <2>5, <4>1, <4>2
      <3> QED
        BY <2>0, <3>1
    <2>6. CASE WritePtmr
      <3>1. (active => active') /\ (cef' => cef) /\ draw_end' = draw_end /\ (guard' = 0 \/ guard' = guard)
        BY <2>6 DEF WritePtmr, Begin, walk
      <3> QED
        BY <2>0, <3>1
    <2>7. CASE VBlankIn \/ VBlankOut
      <3>1. UNCHANGED <<active, guard, cef, draw_end>>
        BY <2>7 DEF VBlankIn, VBlankOut, walk
      <3> QED
        BY <2>0, <3>1
    <2>8. CASE FieldChange
      <3>1. (active => active') /\ (cef' => cef) /\ draw_end' = draw_end /\ (guard' = 0 \/ guard' = guard)
        BY <2>8 DEF FieldChange, Begin
      <3> QED
        BY <2>0, <3>1
    <2> QED
      BY <2>1, <2>2, <2>3, <2>4, <2>5, <2>6, <2>7, <2>8 DEF Next, Tick, Guest, Beam
  <1> QED
    BY Vdp1Invariance, <1>1, PTL DEF Spec, DrawEndIsOwed

\* From its second field on, automatic mode begins each list on an erased
\* buffer, though an erase is carried out a field after it is decided.
\* (vdp1_field_change, vdp1_erase, vdp1_swap.)
THEOREM AutoErasesCorrect == Spec => AutoDrawsOnErased
  <1>1. IInv /\ [Next]_vars => [FieldChange /\ auto /\ ~fcm => pic'["draw"] = "none"]_vars
    <2> SUFFICES ASSUME IInv, FieldChange, auto, ~fcm PROVE pic'["draw"] = "none"
      OBVIOUS
    <2>1. erase_pending /\ pic \in [Buffers -> {"none", "partial", "whole", "shown"}]
      BY DEF IInv, AutoErases, TypeOK
    <2>2. Erased["display"] = "none"
      BY <2>1 DEF Erased, Buffers
    <2>3. pic' = Exchanged(Erased)
      BY DEF FieldChange, Swap
    <2> QED
      BY <2>2, <2>3 DEF Exchanged, Other, Buffers
  <1> QED
    BY Vdp1Invariance, <1>1, PTL DEF Spec, AutoDrawsOnErased

\* A picture finished before a swap is displayed for a whole field before
\* it is erased, in whatever modes and fields erases and swaps are asked for.
\* (vdp1_field_change, vdp1_erase, vdp1_swap.)
THEOREM WholePictureCorrect == Spec => WholePictureIsShown
  <1> DEFINE Whole(p) == {b \in Buffers : p[b] = "whole"}
  <1>1. IInv /\ [Next]_vars
          => [FieldChange => Cardinality(Whole(pic')) = Cardinality(Whole(pic))]_vars
    <2> SUFFICES ASSUME IInv, FieldChange PROVE Cardinality(Whole(pic')) = Cardinality(Whole(pic))
      OBVIOUS
    <2>1. pic["display"] # "whole" /\ pic \in [Buffers -> {"none", "partial", "whole", "shown"}]
      BY DEF FieldChange, IInv, DisplayIsSeen, TypeOK
    <2>2. Erased["display"] # "whole" /\ Erased["draw"] = pic["draw"]
      BY <2>1 DEF Erased, Buffers
    <2>3. Whole(pic) = IF pic["draw"] = "whole" THEN {"draw"} ELSE {}
      BY <2>1 DEF Buffers
    <2>4. CASE Swap
      <3>1. Whole(pic') = IF pic["draw"] = "whole" THEN {"display"} ELSE {}
        BY <2>2, <2>4 DEF FieldChange, Exchanged, Other, Buffers
      <3> QED
        BY <2>3, <3>1, FS_Singleton, FS_EmptySet
    <2>5. CASE ~Swap
      <3>1. Whole(pic') = Whole(pic)
        BY <2>2, <2>3, <2>5 DEF FieldChange, Buffers
      <3> QED
        BY <3>1
    <2> QED
      BY <2>4, <2>5
  <1> QED
    BY Vdp1Invariance, <1>1, PTL DEF Spec, WholePictureIsShown
=============================================================================
