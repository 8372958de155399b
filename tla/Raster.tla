------------------------------- MODULE Raster -------------------------------
(***************************************************************************)
(* What the scheduler promises about the beam: lines follow one another,   *)
(* and the edges of a line are announced once each, in their order, with   *)
(* the beam standing exactly at their place.  How much time passes between *)
(* two edges, and where a frame of the front end ends, is left open.  The  *)
(* promise ends when the machine stops on a fault.                         *)
(***************************************************************************)
EXTENDS Integers, Sequences

CONSTANTS CycPerLine, HBlankStart, FieldPos, LinesTotal, LineVBlank

VARIABLES
  v, h,                         \* line, and place in it
  k,                            \* how many of the line's edges are announced
  live                          \* the machine runs

beam == <<v, h, k, live>>

Edges(line) ==
  CASE line = 0          -> <<"v-blank-out", "timers", "field-change", "h-blank-in">>
    [] line = LineVBlank -> <<"v-blank-in", "timers", "h-blank-in">>
    [] OTHER             -> <<"timers", "h-blank-in">>

Place(edge) == CASE edge = "field-change" -> FieldPos
                 [] edge = "h-blank-in"   -> HBlankStart
                 [] OTHER                 -> 0

\* The beam does not pass the next edge.
Limit == IF k < Len(Edges(v)) THEN Place(Edges(v)[k + 1]) ELSE CycPerLine

RasterInit == v = 0 /\ h = 0 /\ k = 0 /\ live = TRUE

Announce ==
  /\ k < Len(Edges(v)) /\ h = Place(Edges(v)[k + 1])
  /\ k' = k + 1
  /\ UNCHANGED <<v, h, live>>

Move ==
  /\ h' \in h + 1 .. Limit
  /\ UNCHANGED <<v, k, live>>

NextLine ==
  /\ h = CycPerLine /\ k = Len(Edges(v))
  /\ v' = (IF v + 1 < LinesTotal THEN v + 1 ELSE 0)
  /\ h' = 0 /\ k' = 0
  /\ UNCHANGED live

Fault == live' = FALSE

RasterNext == (live /\ (Announce \/ Move \/ NextLine)) \/ Fault

RasterSpec == RasterInit /\ [][RasterNext]_beam
=============================================================================
