----------------------------- MODULE MCEventLog -----------------------------
(* Instances of EventLog for TLC. *)
EXTENDS EventLog

CONSTANTS actor, runner, fork, b1

ActorAndRunner == {actor, runner}
Fork == {fork}
NoThreads == {}
OneBlob == {b1}
NoBlobs == {}

CleanFaults == {"write", "sync", "cut"}
NoFaults == {}

ProcessCrashes == {"process"}
MachineCrashes == {"machine"}
=============================================================================
