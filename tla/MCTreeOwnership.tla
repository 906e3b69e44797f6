-------------------------- MODULE MCTreeOwnership --------------------------
(* Instances of TreeOwnership for TLC. *)
EXTENDS TreeOwnership, TLC

CONSTANTS daemon, other, c1, c2

TwoProcesses == {daemon, other}
TwoChildren == {c1, c2}

Settled == {"create", "fork", "delete"}
NoReverts == AllOperations \ {"revert"}
Published == AllOperations \ {"create", "childFirst"}

RecoveryFaults == {"recovery", "lock"}

(* The processes are interchangeable in the safety runs, and so are the
   children. *)
Interchangeable == Permutations(TwoProcesses) \cup Permutations(TwoChildren)
=============================================================================
