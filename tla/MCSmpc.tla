------------------------------- MODULE MCSmpc -------------------------------
(* The system manager and the controller port for TLC: a behaviour is about  *)
(* one of them, and the other stays as it was.                                *)
EXTENDS Smpc, Pad

VARIABLE scene

Guests == {{"INTBACK", "RESENAB", "CKCHG352"},
           {"SSHON", "SSHOFF", "CKCHG320"},
           {"SETTIME", "SETSMEM", "CDON"},
           {"SYSRES", "RESENAB", "RESDISA", "SNDON", "SNDOFF"}}

all == <<scene, vars, pad>>

MCInit == scene \in {"smpc", "pad"} /\ Init /\ PadInit
MCNext ==
  /\ UNCHANGED scene
  /\ \/ scene = "smpc" /\ Next /\ UNCHANGED pad
     \/ scene = "pad" /\ PadNext /\ UNCHANGED vars
MCSpec == MCInit /\ [][MCNext]_all /\ Fairness
=============================================================================
