----------------------------- MODULE CommitLog -----------------------------
(***************************************************************************)
(* What the event log of a session promises the engine, without threads,   *)
(* syncs or files: records are appended one after the other, some of them  *)
(* are acknowledged, a revert removes a suffix, and a crash may drop any   *)
(* record but an acknowledged one.  A dropped record may be read again     *)
(* after a later crash (its blob was stored again meanwhile); a reverted   *)
(* one never is.  EventLog implements this specification.                  *)
(***************************************************************************)
EXTENDS Naturals

VARIABLES log, lost, next, acked
commitLogVars == <<log, lost, next, acked>>

Init == log = {0} /\ lost = {} /\ next = 1 /\ acked = {0}

Append == /\ log' = log \cup {next}
          /\ next' = next + 1
          /\ UNCHANGED <<lost, acked>>

(* One sync may acknowledge several records. *)
Acknowledge == /\ acked' \in {acked \cup S : S \in SUBSET log}
               /\ UNCHANGED <<log, lost, next>>

Revert == \E c \in log : /\ log' = {n \in log : n <= c}
                         /\ lost' = {n \in lost : n <= c}
                         /\ acked' = {n \in acked : n <= c}
                         /\ UNCHANGED next

Crash == /\ log' \subseteq log \cup lost
         /\ lost' \subseteq (log \cup lost) \ log'
         /\ acked \subseteq log'
         /\ UNCHANGED <<next, acked>>

Next == Append \/ Acknowledge \/ Revert \/ Crash

Spec == Init /\ [][Next]_commitLogVars
=============================================================================
