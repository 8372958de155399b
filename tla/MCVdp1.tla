------------------------------- MODULE MCVdp1 -------------------------------
(* Two command tables for TLC: one ends after drawing, one calls a           *)
(* subroutine, returns and never ends.                                       *)
EXTENDS Vdp1, TLC

Cmd(op, jump, link) == [op |-> op, jump |-> jump, link |-> link]
Straight == (0 :> Cmd("draw", 0, 0)) @@ (1 :> Cmd("end", 0, 0))
Endless == (0 :> Cmd("skip", 2, 1)) @@ (1 :> Cmd("draw", 3, 0))
SomeLists == {Straight, Endless}
=============================================================================
