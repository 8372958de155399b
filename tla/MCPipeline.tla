----------------------------- MODULE MCPipeline -----------------------------
(* Fields for TLC: a full picture drawn after a swap, to begin with; then that *)
(* again, more drawn into the hidden buffer, a partial clear, a write by the   *)
(* CPU.                                                                       *)
EXTENDS Pipeline

Plan(e, s, t) == [erase |-> e, swap |-> s, then |-> t]
Full == Plan("erase", TRUE, "quad")
Later == {Full, Plan("none", FALSE, "quad"), Plan("clear", TRUE, "quad"),
        Plan("none", TRUE, "write")}
SomePlans == [n \in 1 .. MaxFrames |-> IF n = 1 THEN {Full} ELSE Later]
=============================================================================
