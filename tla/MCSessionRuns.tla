--------------------------- MODULE MCSessionRuns ---------------------------
(* Instances of SessionRuns.  Clients differ in nothing but their name. *)
EXTENDS SessionRuns, TLC

ClientSymmetry == Permutations(Clients)
=============================================================================
