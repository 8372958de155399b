----------------------------- MODULE MCAudioPath -----------------------------
(* The instance of AudioPath that TLC checks.  Its cfg gives every constant: *)
(* slices that do not divide a batch, a batch that is not a whole number of  *)
(* samples, and a ring with room for the lead and no more.                   *)
EXTENDS AudioPath
=============================================================================
