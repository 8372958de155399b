-------------------------------- MODULE Pad ---------------------------------
(* The controller as the two paths of smpc.c report it: the INTBACK report   *)
(* (smpc_pad_report) and the direct port a program clocks itself             *)
(* (smpc_pdr_read), for the standard pad and the 3D pad.                      *)
(*                                                                           *)
(* A bit is named by where it comes from: one of the bytes of buttons, which *)
(* are sent inverted, one of an axis, or a fixed one or zero.  A nibble is    *)
(* four bits, the highest first, and a byte two nibbles.  The buttons do not *)
(* change while one report is read: the window samples them between fields.  *)
EXTENDS Naturals, Sequences, SequencesExt

VARIABLES
  analog,        \* pad1_analog
  ddr,           \* the protocol of the port: "th", "thtr", or another
  th, tr,        \* bits 6 and 5 of PDR1
  pos, tl,       \* pad1_report_pos, pad1_tl
  clocked,       \* TR moved since the program's last nibble
  got            \* the nibbles the program took, with the select it used

pad == <<analog, ddr, th, tr, pos, tl, clocked, got>>

Zero == <<"fixed", 0>>
One  == <<"fixed", 1>>
High(r) == << <<r, 7>>, <<r, 6>>, <<r, 5>>, <<r, 4>> >>
Low(r)  == << <<r, 3>>, <<r, 2>>, <<r, 1>>, <<r, 0>> >>
Byte(r) == <<High(r), Low(r)>>
Number(a, b, c) == <<Zero, a, b, c>>

\* smpc_pad_report: the identity, two bytes of buttons, the last three bits of
\* them fixed high, and four axes.
Report ==
  << <<Number(Zero, Zero, IF analog THEN One ELSE Zero),
       Number(IF analog THEN One ELSE Zero, One, Zero)>>,
     Byte("~lo"),
     <<High("~hi"), << <<"~hi", 3>>, One, One, One>> >> >>
  \o IF analog THEN <<Byte("x"), Byte("y"), Byte("r"), Byte("l")>> ELSE <<>>

\* The low nibble of the second byte of buttons, as the port has it.
LeftTrigger == << <<"~hi", 3>>, One, Zero, Zero>>

\* The sixteen nibbles of the 3D pad's handshake: type, length, the buttons,
\* the axes, and two closing nibbles.
Stream == << Number(Zero, Zero, One), Number(One, Zero, One),
             High("~lo"), Low("~lo"), High("~hi"), LeftTrigger,
             High("x"), Low("x"), High("y"), Low("y"),
             High("l"), Low("l"), High("r"), Low("r"),
             Number(Zero, Zero, Zero), Number(Zero, Zero, One) >>

GroupSwapped(h, t) ==    \* mutant: the first and the last phase exchanged
  IF h THEN (IF t THEN High("~hi") ELSE Low("~lo"))
  ELSE (IF t THEN High("~lo") ELSE LeftTrigger)

\* The four groups of the standard pad, by the select bits.
Group(h, t) ==
  IF h THEN (IF t THEN LeftTrigger ELSE Low("~lo"))
  ELSE (IF t THEN High("~lo") ELSE High("~hi"))

\* The 3D pad answers only after TR moved, except at the first nibble.
Stalls(p, t) == p # 0 /\ t = tl

PadInit ==
  /\ analog \in BOOLEAN /\ ddr \in {"th", "thtr"}
  /\ th = FALSE /\ tr = FALSE /\ pos = 0 /\ tl = FALSE /\ clocked = FALSE
  /\ got = <<>>

\* The program drives the select lines: the 3D pad's restart, its clock, any
\* select of the standard pad.  It gives up a report it already has.
Select(h, t) ==
  /\ Len(got) < (IF analog THEN Len(Stream) ELSE 4)
  /\ th' = h /\ tr' = t
  /\ clocked' = (clocked \/ t # tr)
  /\ UNCHANGED <<analog, ddr, pos, tl, got>>

\* A read with TH high restarts the 3D pad's report.
ReadRestarts ==
  /\ ddr = "thtr" /\ analog /\ th
  /\ pos' = 0 /\ tl' = FALSE /\ got' = <<>> /\ clocked' = FALSE
  /\ UNCHANGED <<analog, ddr, th, tr>>

\* A read before TR moved is answered with all ones and changes nothing.
ReadStalls ==
  /\ ddr = "thtr" /\ analog /\ ~th /\ Stalls(pos, tr)
  /\ UNCHANGED <<analog, ddr, th, tr, pos, tl, clocked, got>>

\* Otherwise the next nibble, and TL follows TR.
ReadNibble ==
  /\ ddr = "thtr" /\ analog /\ ~th /\ ~Stalls(pos, tr)
  /\ tl' = tr /\ pos' = (pos + 1) % 16
  /\ got' = IF Len(got) < Len(Stream) /\ (clocked \/ got = <<>>)
            THEN Append(got, Stream[pos + 1]) ELSE got
  /\ clocked' = FALSE
  /\ UNCHANGED <<analog, ddr, th, tr>>

\* The standard pad answers the group the select bits name, every time.
ReadGroup ==
  /\ ddr = "thtr" /\ ~analog
  /\ got' = IF <<th, tr, Group(th, tr)>> \in ToSet(got) THEN got
            ELSE Append(got, <<th, tr, Group(th, tr)>>)
  /\ UNCHANGED <<analog, ddr, th, tr, pos, tl, clocked>>

\* With TR an input the port answers the pad's identity and nothing else.
ReadIdentity ==
  /\ ddr = "th" /\ got' = <<"identity">>
  /\ UNCHANGED <<analog, ddr, th, tr, pos, tl, clocked>>

PadNext ==
  \/ \E h, t \in BOOLEAN : Select(h, t)
  \/ ReadRestarts \/ ReadStalls \/ ReadNibble \/ ReadGroup \/ ReadIdentity

PadSpec == PadInit /\ [][PadNext]_pad

-----------------------------------------------------------------------------

\* The bytes a program has assembled from the port, in the order it sends
\* them: after the two nibbles of the head, or by the select of each group.
Clocked(i) == <<got[2 * i + 1], got[2 * i + 2]>>
Taken(h, t) == (CHOOSE g \in ToSet(got) : g[1] = h /\ g[2] = t)[3]
Selected == << <<Taken(FALSE, TRUE), Taken(TRUE, FALSE)>>,
               <<Taken(FALSE, FALSE), Taken(TRUE, TRUE)>> >>

\* Two bytes are the same, bit by bit, where a control is behind the bit; the
\* fixed bits of the two paths differ.
SameControls(a, b) ==
  \A n \in 1 .. 2, k \in 1 .. 4 :
    a[n][k] = b[n][k] \/ (a[n][k] \in {Zero, One} /\ b[n][k] \in {Zero, One})

\* Where in the report is what the port sends as its first byte, its second ...:
\* the report has the right trigger before the left, the port after it.
Place == <<2, 3, 4, 5, 7, 6>>

\* The two paths say the same of the same pad, however often the program
\* reads a phase, in whatever order it selects the groups and wherever it
\* restarts: each bit it assembles from the port that is a control is in the
\* INTBACK report, in its byte and its place (smpc_pad_report, smpc_pdr_read).
PadPathsAgree ==
  /\ (ddr = "thtr" /\ analog) =>
       /\ got = SubSeq(Stream, 1, Len(got))
       /\ Len(got) = Len(Stream) =>
            \A i \in 1 .. 6 : SameControls(Clocked(i), Report[Place[i]])
  /\ (ddr = "thtr" /\ ~analog /\ Len(got) = 4) =>
       \A i \in 1 .. 2 : SameControls(Selected[i], Report[i + 1])

\* Not so: the two paths send the same bytes in the same order.
ReportsAreOne ==
  /\ (ddr = "thtr" /\ analog /\ Len(got) = Len(Stream)) =>
       \A i \in 1 .. 6 : Clocked(i) = Report[i + 1]
  /\ (ddr = "thtr" /\ ~analog /\ Len(got) = 4) =>
       \A i \in 1 .. 2 : Selected[i] = Report[i + 1]
=============================================================================
