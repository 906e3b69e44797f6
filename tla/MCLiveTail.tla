----------------------------- MODULE MCLiveTail -----------------------------
(* Instances of LiveTail for TLC. *)
EXTENDS LiveTail

Refusals == {"refuse"}
NoFaults == {}
=============================================================================
