------------------------------ MODULE MCCdHost ------------------------------
(* Small instances of CdHost for TLC: the kind of a message tells it from    *)
(* the others, so commands are interchangeable.                              *)
EXTENDS CdHost, TLC

CONSTANTS c1, c2
TwoCommands == {c1, c2}
Symmetry == Permutations(TwoCommands)
=============================================================================
