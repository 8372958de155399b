----------------------------- MODULE MCMachine -----------------------------
(* A small machine for TLC: two visible lines and a blanked one, three       *)
(* cycles a line, slices of one cycle or of the whole line.                  *)
EXTENDS Machine

SomeTimers == {[enable |-> e, mode |-> TRUE, compare |-> 2] : e \in BOOLEAN}
SomeMasks == {{}}
ZeroWrites == {[vblank |-> FALSE, odd |-> FALSE]}
=============================================================================
