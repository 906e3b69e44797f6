--------------------------- MODULE TreeOwnership ---------------------------
(***************************************************************************)
(* Who may write a session tree: crates/engine_store/src/ownership.rs,     *)
(* session/mod.rs and session/delete.rs, with the engine's adoption gate   *)
(* (engine/src/runtime/messaging/mailbox.rs, sessions/delete.rs).          *)
(*                                                                         *)
(* Several processes share the store.  A tree, a root session and its      *)
(* children, is guarded by one lock file in the root's directory.  A       *)
(* process writes a session once it holds the tree and created the session *)
(* or adopted it: took it over, closed what its log left open, committed.  *)
(*                                                                         *)
(* The module follows one tree.  Within a process, forks, publications and *)
(* deletions of the tree exclude each other (the store's mutation lock and *)
(* the tree's publish gate): "task" is the one under way.  At most one     *)
(* adoption is under way beside it (the tree's adoption gate): "adopt".    *)
(* Which sessions are in memory, and the tree's bulk load, are left out.   *)
(***************************************************************************)
EXTENDS Naturals, FiniteSets

CONSTANTS
    Processes,
    Nobody,      \* the holder of a free lock
    Root,        \* the tree's root session
    Children,    \* the ids of delegated sessions and forks of them
    Operations,  \* what the processes do besides adopting, see below
    Faults       \* what may fail

(* "create": the tree starts out in memory of one process; "childFirst": a
   child is published while its root is not; "fork": a child is forked;
   "joinAdopting": also while the tree is held for an adoption; "delete": the
   tree is deleted; "revert": a revert deletes a child. *)
AllOperations ==
    {"create", "childFirst", "fork", "joinAdopting", "delete", "revert"}

(* "recovery": reconciling an adopted session fails, or the engine shuts
   down meanwhile; "publish": a publication or a fork fails, perhaps after
   its directory is in place; "lock": the lock file cannot be opened. *)
AllFaults == {"recovery", "publish", "lock"}

Sessions == {Root} \cup Children

ASSUME TreeAssumption ==
    /\ Nobody \notin Processes
    /\ Root \notin Children
    /\ Operations \subseteq AllOperations
    /\ Faults \subseteq AllFaults

VARIABLES
    \* OwnershipState and SessionStore, one of each per process
    tree,       \* the process's entry for the tree (TreeOwnership)
    writable,   \* sessions created or adopted in the process
    adopting,   \* sessions whose adoption is not committed
    closed,     \* the store no longer takes operations
    inPlace,    \* sessions whose log the process writes in the tree's directory
    live,       \* sessions with a run of the process under way
    adopt,      \* the adoption under way
    task,       \* the fork, publication or deletion under way
    \* The disk
    dir,        \* the root's directory
    lockFile,   \* owner.lock exists in it
    holder,     \* the process whose lock on it the system grants
    onDisk,     \* the sessions with a log in the directory
    unfinished, \* sessions whose log ends inside a run
    born        \* session ids in use

ownershipVars == <<tree, writable, adopting>>
processVars == <<closed, inPlace, live, adopt, task>>
diskVars == <<dir, lockFile, holder, onDisk, unfinished, born>>
vars == <<ownershipVars, processVars, diskVars>>

TreeStates == {"none", "pending", "adopting", "owned", "foreign"}
NoAdoption == [pc |-> "idle", session |-> Root]
NoTask == [pc |-> "idle", session |-> Root, lock |-> FALSE]

AdoptSteps == {"idle", "recover", "commit", "rollback", "drop"}
TaskSteps == {"idle", "publish", "published", "fork", "forkWrite", "forked",
              "delete"}

Adoptions == [pc: AdoptSteps, session: Sessions]
Tasks == [pc: TaskSteps, session: Sessions, lock: BOOLEAN]

(* Every variable has its type; a run is left open only in a log, and a log
   belongs to a session that exists. *)
TypeOK ==
    /\ tree \in [Processes -> TreeStates]
    /\ writable \in [Processes -> SUBSET Sessions]
    /\ adopting \in [Processes -> SUBSET Sessions]
    /\ closed \in [Processes -> BOOLEAN]
    /\ inPlace \in [Processes -> SUBSET Sessions]
    /\ live \in [Processes -> SUBSET Sessions]
    /\ adopt \in [Processes -> Adoptions]
    /\ task \in [Processes -> Tasks]
    /\ dir \in {"absent", "scaffold", "published"}
    /\ lockFile \in BOOLEAN
    /\ holder \in Processes \cup {Nobody}
    /\ unfinished \subseteq onDisk /\ onDisk \subseteq born
    /\ born \subseteq Sessions

(* A tree on disk that nobody holds, some of its sessions perhaps left inside
   a run by a crash, or no tree yet. *)
Init ==
    /\ tree = [p \in Processes |-> "none"]
    /\ writable = [p \in Processes |-> {}]
    /\ adopting = [p \in Processes |-> {}]
    /\ closed = [p \in Processes |-> FALSE]
    /\ inPlace = [p \in Processes |-> {}]
    /\ live = [p \in Processes |-> {}]
    /\ adopt = [p \in Processes |-> NoAdoption]
    /\ task = [p \in Processes |-> NoTask]
    /\ holder = Nobody
    /\ \/ /\ "create" \in Operations
          /\ dir = "absent" /\ lockFile = FALSE
          /\ onDisk = {} /\ unfinished = {} /\ born = {}
       \/ /\ dir = "published" /\ lockFile = TRUE
          /\ onDisk \in {{Root} \cup S : S \in SUBSET Children}
          /\ unfinished \in SUBSET onDisk
          /\ born = onDisk

-----------------------------------------------------------------------------
(* TreeOwnership: whether the process holds the tree at all, and whether an
   adoption settled it. *)
HasAuthority(p) == tree[p] \in {"pending", "adopting", "owned"}
IsSettled(p) == tree[p] \in {"pending", "owned"}

(* No structural change of the tree is under way in the process, so its
   mutation lock can be taken exclusively. *)
MutationFree(p) == task[p].pc = "idle"

(* The shared mode: appends go on beside a publication. *)
SharedFree(p) == task[p].pc \in {"idle", "publish", "published"}

DirExists == dir # "absent"

(* ownership.rs, try_acquire: the lock file is created if it is missing, and
   its lock taken if nobody has it. *)
TryAcquire(p) ==
    /\ DirExists /\ holder = Nobody
    /\ holder' = p /\ lockFile' = TRUE

(* hold_tree: a tree the process holds is joined; otherwise its lock is
   taken.  A cached "foreign" is checked again. *)
HoldTree(p, took) ==
    IF HasAuthority(p)
    THEN ~took /\ UNCHANGED <<holder, lockFile>>
    ELSE took /\ TryAcquire(p)

(* hold_tree and begin_tree_deletion when another process has the lock, or it
   cannot be classified: the tree is recorded as foreign. *)
FindForeign(p) ==
    /\ ~closed[p] /\ MutationFree(p) /\ ~HasAuthority(p) /\ DirExists
    /\ holder # Nobody \/ "lock" \in Faults
    /\ tree' = [tree EXCEPT ![p] = "foreign"]
    /\ UNCHANGED <<writable, adopting, processVars, diskVars>>

(* Mutant: a handle of an adoption's lock is never dropped. *)
MutantKeepsAdopting(p) ==
    holder' = IF holder = p /\ tree[p] # "adopting" THEN Nobody ELSE holder

(* The lock is released when the last handle on it is dropped. *)
Unlock(p) == holder' = IF holder = p THEN Nobody ELSE holder

EndTask(p) == task' = [task EXCEPT ![p] = NoTask]

-----------------------------------------------------------------------------
(* Creating and publishing. *)

(* create_with_initial: a new root opens a tree of its own, a child joins the
   tree of its root, which must be settled.  Both start in memory. *)
Create(p, s) ==
    /\ "create" \in Operations
    /\ ~closed[p] /\ MutationFree(p) /\ s \notin born
    /\ IF s = Root
       THEN dir = "absent" /\ tree' = [tree EXCEPT ![p] = "pending"]
       ELSE IsSettled(p) /\ tree' = tree
    /\ born' = born \cup {s}
    /\ writable' = [writable EXCEPT ![p] = @ \cup {s}]
    /\ UNCHANGED <<adopting, processVars, dir, lockFile, holder, onDisk,
                   unfinished>>

(* persist_buffered prepares a directory beside the tree's, or below it for a
   child, whose "subagents" folder it makes; a root's lock is taken in the
   prepared directory, where nobody else looks.  A run of the root publishes
   it before it delegates. *)
BeginPublish(p, s) ==
    /\ ~closed[p] /\ MutationFree(p)
    /\ s \in writable[p] /\ s \notin inPlace[p] /\ IsSettled(p)
    /\ s # Root => tree[p] = "owned" \/ "childFirst" \in Operations
    /\ task' = [task EXCEPT ![p] = [pc |-> "publish", session |-> s,
                                    lock |-> s = Root]]
    /\ dir' = IF s # Root /\ dir = "absent" THEN "scaffold" ELSE dir
    /\ UNCHANGED <<ownershipVars, closed, inPlace, live, adopt, lockFile,
                   holder, onDisk, unfinished, born>>

(* publish_prepared_dir: a rename where nothing is, a merge where there is
   only the folder of the children.  The lock comes along. *)
PublishDirectory(p) ==
    LET s == task[p].session
    IN  /\ task[p].pc = "publish"
        /\ IF s = Root
           THEN /\ dir # "published" /\ ~lockFile
                /\ dir' = "published" /\ lockFile' = TRUE /\ holder' = p
           ELSE DirExists /\ UNCHANGED <<dir, lockFile, holder>>
        /\ onDisk' = onDisk \cup {s}
        /\ task' = [task EXCEPT ![p].pc = "published"]
        /\ UNCHANGED <<ownershipVars, closed, inPlace, live, adopt, unfinished,
                       born>>

(* The publication settles the tree, or finds it settled. *)
EndPublish(p) ==
    LET s == task[p].session
    IN  /\ task[p].pc = "published"
        /\ IF s = Root THEN tree[p] = "pending" ELSE IsSettled(p)
        /\ tree' = IF s = Root THEN [tree EXCEPT ![p] = "owned"] ELSE tree
        /\ inPlace' = [inPlace EXCEPT ![p] = @ \cup {s}]
        /\ EndTask(p)
        /\ UNCHANGED <<writable, adopting, closed, live, adopt, diskVars>>

(* The location is taken, or a step fails: the prepared directory is removed
   if it is still there, and the lock dropped. *)
PublishFails(p) ==
    LET s == task[p].session
        taken == IF s = Root THEN dir = "published" \/ lockFile ELSE ~DirExists
    IN  /\ \/ task[p].pc = "publish" /\ (taken \/ "publish" \in Faults)
              /\ UNCHANGED holder
           \/ task[p].pc = "published" /\ "publish" \in Faults
              /\ IF s = Root THEN Unlock(p) ELSE UNCHANGED holder
        /\ EndTask(p)
        /\ UNCHANGED <<ownershipVars, closed, inPlace, live, adopt, dir, lockFile,
                       onDisk, unfinished, born>>

-----------------------------------------------------------------------------
(* Writing: a run starts and ends in the log of a session the process may
   write (capability, write_event). *)

(* Mutant: an event of a buffered session goes to the log it will have. *)
MutantAppendsUnpublished(p, s) ==
    /\ ~closed[p] /\ SharedFree(p)
    /\ s \in writable[p] /\ IsSettled(p)

CanAppend(p, s) ==
    /\ ~closed[p] /\ SharedFree(p)
    /\ s \in writable[p] /\ IsSettled(p) /\ s \in inPlace[p]

StartRun(p, s) ==
    /\ CanAppend(p, s) /\ s \notin unfinished
    /\ live' = [live EXCEPT ![p] = @ \cup {s}]
    /\ unfinished' = unfinished \cup {s}
    /\ UNCHANGED <<ownershipVars, closed, inPlace, adopt, task, dir, lockFile,
                   holder, onDisk, born>>

EndRun(p, s) ==
    /\ CanAppend(p, s) /\ s \in live[p]
    /\ live' = [live EXCEPT ![p] = @ \ {s}]
    /\ unfinished' = unfinished \ {s}
    /\ UNCHANGED <<ownershipVars, closed, inPlace, adopt, task, dir, lockFile,
                   holder, onDisk, born>>

-----------------------------------------------------------------------------
(* Adopting: ensure_session_owned, under the tree's adoption gate. *)

(* Mutant: a deletion does not take the adoption gate. *)
MutantGateOpen(p) == TRUE

(* The tree's adoption gate is free. *)
GateFree(p) == adopt[p].pc = "idle"

(* begin_write: the tree is held and the session's log opened for writing;
   when the tree is another's, or the log cannot be opened, nothing stays. *)
BeginWrite(p, s) ==
    /\ adopt[p].pc = "idle" /\ ~closed[p] /\ MutationFree(p)
    /\ s \in onDisk /\ ~(s \in writable[p] /\ IsSettled(p))
    /\ \E took \in BOOLEAN :
        /\ HoldTree(p, took)
        /\ tree' = IF took THEN [tree EXCEPT ![p] = "adopting"] ELSE tree
    /\ adopting' = [adopting EXCEPT ![p] = @ \cup {s}]
    /\ inPlace' = [inPlace EXCEPT ![p] = @ \cup {s}]
    /\ adopt' = [adopt EXCEPT ![p] = [pc |-> "recover", session |-> s]]
    /\ UNCHANGED <<writable, closed, live, task, dir, onDisk, unfinished, born>>

(* Mutant: the session is committed without being reconciled. *)
MutantSkipsRecovery(p) ==
    /\ adopt[p].pc = "recover"
    /\ adopt' = [adopt EXCEPT ![p].pc = "commit"]
    /\ UNCHANGED <<ownershipVars, closed, inPlace, live, task, diskVars>>

(* reconcile_session closes what the log left open.  Its appends are the only
   ones an uncommitted session takes. *)
Reconcile(p) ==
    LET s == adopt[p].session
    IN  /\ adopt[p].pc = "recover"
        /\ ~closed[p] /\ SharedFree(p) /\ s \in adopting[p] /\ HasAuthority(p)
        /\ unfinished' = unfinished \ {s}
        /\ adopt' = [adopt EXCEPT ![p].pc = "commit"]
        /\ UNCHANGED <<ownershipVars, closed, inPlace, live, task, dir, lockFile,
                       holder, onDisk, born>>

(* An append is refused or fails, or the engine is shutting down. *)
ReconcileFails(p) ==
    /\ adopt[p].pc = "recover"
    /\ \/ closed[p]
       \/ adopt[p].session \notin adopting[p] \/ ~HasAuthority(p)
       \/ "recovery" \in Faults
    /\ adopt' = [adopt EXCEPT ![p].pc = "rollback"]
    /\ UNCHANGED <<ownershipVars, closed, inPlace, live, task, diskVars>>

CommitAdoption(p) ==
    LET s == adopt[p].session
    IN  /\ adopt[p].pc = "commit"
        /\ ~closed[p] /\ s \in adopting[p] /\ HasAuthority(p)
        /\ tree' = IF tree[p] = "adopting" THEN [tree EXCEPT ![p] = "owned"]
                   ELSE tree
        /\ adopting' = [adopting EXCEPT ![p] = @ \ {s}]
        /\ writable' = [writable EXCEPT ![p] = @ \cup {s}]
        /\ adopt' = [adopt EXCEPT ![p] = NoAdoption]
        /\ UNCHANGED <<closed, inPlace, live, task, diskVars>>

CommitFails(p) ==
    /\ adopt[p].pc = "commit"
    /\ closed[p] \/ adopt[p].session \notin adopting[p] \/ ~HasAuthority(p)
    /\ adopt' = [adopt EXCEPT ![p].pc = "rollback"]
    /\ UNCHANGED <<ownershipVars, closed, inPlace, live, task, diskVars>>

(* rollback_adoption brings the metadata cache up to date under the mutation
   lock, and lets go of it. *)
RollbackFlush(p) ==
    /\ adopt[p].pc = "rollback" /\ MutationFree(p)
    /\ adopt' = [adopt EXCEPT ![p].pc = "drop"]
    /\ UNCHANGED <<ownershipVars, closed, inPlace, live, task, diskVars>>

(* Mutant: the adoption that ends still counts. *)
MutantReferencedBySelf(p, s) == writable[p] \cup adopting[p] # {}

(* tree_is_referenced, once the adoption of s is forgotten. *)
TreeIsReferenced(p, s) == writable[p] \cup (adopting[p] \ {s}) # {}

(* Mutant: the lock goes with the adoption and the tree's entry stays. *)
MutantDropsLockOnly(p) ==
    LET s == adopt[p].session
    IN  /\ adopt[p].pc = "drop"
        /\ adopting' = [adopting EXCEPT ![p] = @ \ {s}]
        /\ inPlace' = [inPlace EXCEPT ![p] = @ \ {s}]
        /\ IF tree[p] = "adopting" THEN Unlock(p) ELSE UNCHANGED holder
        /\ adopt' = [adopt EXCEPT ![p] = NoAdoption]
        /\ UNCHANGED <<tree, writable, closed, live, task, dir, lockFile, onDisk,
                       unfinished, born>>

(* Then, without it, it forgets the adoption, and a tree that was locked for
   it alone. *)
RollbackDrop(p) ==
    LET s == adopt[p].session
        release == /\ s \in adopting[p] /\ tree[p] = "adopting"
                   /\ ~TreeIsReferenced(p, s)
    IN  /\ adopt[p].pc = "drop"
        /\ adopting' = [adopting EXCEPT ![p] = @ \ {s}]
        /\ inPlace' = [inPlace EXCEPT ![p] = @ \ {s}]
        /\ tree' = IF release THEN [tree EXCEPT ![p] = "none"] ELSE tree
        /\ IF release THEN Unlock(p) ELSE UNCHANGED holder
        /\ adopt' = [adopt EXCEPT ![p] = NoAdoption]
        /\ UNCHANGED <<writable, closed, live, task, dir, lockFile, onDisk,
                       unfinished, born>>

-----------------------------------------------------------------------------
(* Forking a child, under the mutation lock but not the adoption gate.  A
   fork of the root opens a tree of its own and is not followed here. *)

(* fork_with holds the tree before it makes its temporary directory there. *)
BeginFork(p, s) ==
    /\ "fork" \in Operations
    /\ ~closed[p] /\ MutationFree(p)
    /\ s \in Children \ born /\ onDisk \cap Children # {}
    /\ tree[p] = "adopting" => "joinAdopting" \in Operations
    /\ \E took \in BOOLEAN :
        /\ HoldTree(p, took)
        /\ task' = [task EXCEPT ![p] = [pc |-> "fork", session |-> s,
                                        lock |-> took]]
    /\ born' = born \cup {s}
    /\ UNCHANGED <<ownershipVars, closed, inPlace, live, adopt, dir, onDisk,
                   unfinished>>

(* The fork's log is assembled in memory under the tree's authority. *)
AssembleFork(p) ==
    /\ task[p].pc = "fork"
    /\ task[p].lock \/ HasAuthority(p)
    /\ task' = [task EXCEPT ![p].pc = "forkWrite"]
    /\ UNCHANGED <<ownershipVars, closed, inPlace, live, adopt, diskVars>>

(* It is written whole and its directory renamed into place. *)
PublishFork(p) ==
    /\ task[p].pc = "forkWrite" /\ DirExists
    /\ onDisk' = onDisk \cup {task[p].session}
    /\ task' = [task EXCEPT ![p].pc = "forked"]
    /\ UNCHANGED <<ownershipVars, closed, inPlace, live, adopt, dir, lockFile,
                   holder, unfinished, born>>

EndFork(p) ==
    LET s == task[p].session
    IN  /\ task[p].pc = "forked"
        /\ task[p].lock \/ IsSettled(p)
        /\ tree' = IF task[p].lock THEN [tree EXCEPT ![p] = "owned"] ELSE tree
        /\ writable' = [writable EXCEPT ![p] = @ \cup {s}]
        /\ inPlace' = [inPlace EXCEPT ![p] = @ \cup {s}]
        /\ EndTask(p)
        /\ UNCHANGED <<adopting, closed, live, adopt, diskVars>>

(* The authority is gone, the tree is not settled, or a step fails; a lock
   taken for the fork is dropped, a directory renamed into place stays. *)
ForkFails(p) ==
    /\ \/ task[p].pc \in {"fork", "forkWrite", "forked"} /\ "publish" \in Faults
       \/ task[p].pc = "fork" /\ ~task[p].lock /\ ~HasAuthority(p)
       \/ task[p].pc = "forkWrite" /\ ~DirExists
       \/ task[p].pc = "forked" /\ ~task[p].lock /\ ~IsSettled(p)
    /\ IF task[p].lock THEN Unlock(p) ELSE UNCHANGED holder
    /\ EndTask(p)
    /\ UNCHANGED <<ownershipVars, closed, inPlace, live, adopt, dir, lockFile,
                   onDisk, unfinished, born>>

-----------------------------------------------------------------------------
(* Deleting. *)

(* begin_tree_deletion, under the adoption gate: a tree the process holds, or
   one nobody holds, which it locks.  A tree with a run is refused. *)
BeginDelete(p) ==
    /\ "delete" \in Operations
    /\ GateFree(p) /\ ~closed[p] /\ MutationFree(p)
    /\ tree[p] # "adopting"
    /\ Root \in writable[p] \cup onDisk
    /\ IsSettled(p) => live[p] = {}
    /\ \E took \in BOOLEAN :
        /\ HoldTree(p, took)
        /\ task' = [task EXCEPT ![p] = [pc |-> "delete", session |-> Root,
                                        lock |-> took]]
    /\ UNCHANGED <<ownershipVars, closed, inPlace, live, adopt, dir, onDisk,
                   unfinished, born>>

(* The deletion is refused after all (the root moved on), or the rename
   fails. *)
AbandonDelete(p) ==
    /\ task[p].pc = "delete"
    /\ IF task[p].lock THEN Unlock(p) ELSE UNCHANGED holder
    /\ EndTask(p)
    /\ UNCHANGED <<ownershipVars, closed, inPlace, live, adopt, dir, lockFile,
                   onDisk, unfinished, born>>

(* forget_tree: the tree's entry goes, which drops its lock, and with it what
   the process could write.  Closing the store or losing the process does the
   same. *)
ForgetTree(p) ==
    /\ tree' = [tree EXCEPT ![p] = "none"]
    /\ writable' = [writable EXCEPT ![p] = {}]
    /\ adopting' = [adopting EXCEPT ![p] = {}]
    /\ inPlace' = [inPlace EXCEPT ![p] = {}]
    /\ Unlock(p)

(* TreeDeletion::commit renames the tree away, forgets it and its adoptions,
   and drops its lock. *)
CommitDelete(p) ==
    /\ task[p].pc = "delete"
    /\ dir' = "absent"
    /\ onDisk' = {} /\ unfinished' = {} /\ lockFile' = FALSE
    /\ ForgetTree(p)
    /\ EndTask(p)
    /\ UNCHANGED <<closed, live, adopt, born>>

(* delete_children: a revert in the tree removes the children whose
   delegation it removed, under the mutation lock alone; a revert is refused
   while one of them is inside a run. *)
DeleteChild(p, s) ==
    /\ "revert" \in Operations
    /\ MutationFree(p) /\ tree[p] = "owned"
    /\ s \in onDisk \cap Children /\ s \notin unfinished
    /\ writable' = [writable EXCEPT ![p] = @ \ {s}]
    /\ adopting' = [adopting EXCEPT ![p] = @ \ {s}]
    /\ inPlace' = [inPlace EXCEPT ![p] = @ \ {s}]
    /\ onDisk' = onDisk \ {s}
    /\ UNCHANGED <<tree, closed, live, adopt, task, dir, lockFile, holder,
                   unfinished, born>>

-----------------------------------------------------------------------------
(* Shutting down and crashing. *)

(* release_ownership closes the store first and then, once it has the
   mutation lock, drops everything. *)
Close(p) ==
    /\ ~closed[p]
    /\ closed' = [closed EXCEPT ![p] = TRUE]
    /\ UNCHANGED <<ownershipVars, inPlace, live, adopt, task, diskVars>>

ReleaseOwnership(p) ==
    /\ closed[p] /\ MutationFree(p) /\ HasAuthority(p)
    /\ ForgetTree(p)
    /\ live' = [live EXCEPT ![p] = {}]
    /\ UNCHANGED <<closed, adopt, task, dir, lockFile, onDisk, unfinished, born>>

(* The process dies, perhaps while it shuts down, and starts again: the system
   releases its lock, and what was only in its memory is gone. *)
Crash(p) ==
    /\ ForgetTree(p)
    /\ live' = [live EXCEPT ![p] = {}]
    /\ adopt' = [adopt EXCEPT ![p] = NoAdoption]
    /\ task' = [task EXCEPT ![p] = NoTask]
    /\ closed' = [closed EXCEPT ![p] = FALSE]
    /\ UNCHANGED <<dir, lockFile, onDisk, unfinished, born>>

-----------------------------------------------------------------------------
AdoptStep(p) ==
    \/ Reconcile(p) \/ ReconcileFails(p) \/ CommitAdoption(p) \/ CommitFails(p)
    \/ RollbackFlush(p) \/ RollbackDrop(p)

TaskStep(p) ==
    \/ PublishDirectory(p) \/ EndPublish(p) \/ PublishFails(p)
    \/ AssembleFork(p) \/ PublishFork(p) \/ EndFork(p) \/ ForkFails(p)
    \/ CommitDelete(p) \/ AbandonDelete(p)

Next == \E p \in Processes :
    \/ \E s \in Sessions : \/ Create(p, s) \/ BeginPublish(p, s)
                           \/ StartRun(p, s) \/ EndRun(p, s)
                           \/ BeginWrite(p, s) \/ BeginFork(p, s)
                           \/ DeleteChild(p, s)
    \/ BeginDelete(p) \/ FindForeign(p)
    \/ AdoptStep(p) \/ TaskStep(p)
    \/ Close(p) \/ ReleaseOwnership(p) \/ Crash(p)

Spec == Init /\ [][Next]_vars

(* A call that began goes on, and so does a shutdown. *)
Fairness == \A p \in Processes : /\ WF_vars(AdoptStep(p))
                                 /\ WF_vars(TaskStep(p))
                                 /\ WF_vars(ReleaseOwnership(p))

FairSpec == Spec /\ Fairness

-----------------------------------------------------------------------------
(* Properties. *)

(* The process writes below the root's directory, or may start to without
   looking at the lock again. *)
Writing(p) ==
    \/ IsSettled(p) /\ writable[p] \cap inPlace[p] # {} /\ ~closed[p]
    \/ adopt[p].pc = "recover" /\ adopt[p].session \in adopting[p]
       /\ HasAuthority(p) /\ ~closed[p]
    \/ task[p].pc \in {"fork", "forkWrite", "delete"} /\ DirExists
    \/ task[p].pc = "publish" /\ task[p].session # Root

(* "Holding a root's lock guarantees that only its holder writes anywhere
   under that root's directory, children included"
   (tree-ownership-lock.md), through adoptions, rollbacks, forks, deletions,
   shutdowns and crashes of every process. *)
OnlyHolderWrites == \A p \in Processes : Writing(p) => holder = p

(* A session is written only once what its last owner left open is closed:
   where a log ends inside a run, the run is one the process runs itself
   (OwnershipState: "created in this process or adopted (reconciled and
   committed) in it"). *)
RecoveredBeforeWritten ==
    \A p \in Processes : writable[p] \cap unfinished \subseteq live[p]

(* A rollback finds the adoption it rolls back, unless the store was closed
   under it: rollback_adoption's debug_assert. *)
RollbackFindsAdoption ==
    \A p \in Processes :
        adopt[p].pc = "drop" => adopt[p].session \in adopting[p] \/ closed[p]

(* A held lock has something that will release it or needs it: a settled
   tree, an adoption or a task under way.  A lock without any would keep every
   other process out, and the tree busy, until the process exits. *)
NoStrandedLock ==
    \A p \in Processes : holder = p =>
        \/ tree[p] = "owned" \/ task[p].lock
        \/ tree[p] = "adopting" /\ adopt[p].pc # "idle"

(* A store that is closed lets go of the tree, whatever it was doing. *)
ClosingFreesTree == \A p \in Processes : closed[p] ~> holder # p
-----------------------------------------------------------------------------
(* The inductive invariant of TreeOwnership_proofs: what ties a process's
   entry for the tree, and its task, to the lock on disk.  It holds unless a
   child may be published first, a fork may join an adoption, or a publication
   may fail halfway. *)

(* A tree that was locked is held by its process, and a process without the
   tree has nothing to write. *)
EntryInv(p) ==
    /\ tree[p] \in {"adopting", "owned"} => holder = p
    /\ HasAuthority(p) => Root \in born
    /\ ~HasAuthority(p) => writable[p] = {} /\ adopting[p] = {}
    /\ adopting[p] \subseteq inPlace[p]
    /\ inPlace[p] \subseteq (writable[p] \cup adopting[p]) \cap onDisk
    /\ writable[p] \subseteq born

(* A tree that is still in memory has no directory, until the task that
   publishes its root renames it into place, lock and all. *)
PendingInv(p) ==
    tree[p] = "pending" =>
        /\ inPlace[p] = {} /\ adopting[p] = {}
        /\ IF task[p].pc = "published" THEN holder = p ELSE dir = "absent"

(* A fork, a publication or a deletion works in a tree its process settled,
   or under a lock it took itself. *)
TaskInv(p) ==
    /\ task[p].pc \in {"fork", "forkWrite", "forked"} =>
          /\ holder = p /\ task[p].session # Root
          /\ IF task[p].lock THEN ~HasAuthority(p) ELSE tree[p] = "owned"
    /\ task[p].pc = "delete" =>
          IF task[p].lock THEN holder = p /\ ~HasAuthority(p) ELSE IsSettled(p)
    /\ task[p].pc \in {"publish", "published"} =>
          /\ tree[p] = IF task[p].session = Root THEN "pending" ELSE "owned"
          /\ task[p].session \in writable[p]
    /\ task[p].pc # "idle" => task[p].session \in born
    /\ task[p].pc \in {"published", "forked"} => task[p].session \in onDisk

(* The root is written where it is published or not at all: a process that
   may write it in a tree it owns has its log open. *)
RootInv(p) ==
    /\ tree[p] = "adopting" => Root \notin writable[p]
    /\ tree[p] = "owned" /\ Root \in writable[p] => Root \in inPlace[p]
    /\ adopt[p].pc # "idle" =>
          /\ adopt[p].session \in born
          /\ adopt[p].session = Root => Root \notin writable[p]

DirInv ==
    /\ dir # "scaffold"
    /\ IF dir = "absent" THEN holder = Nobody /\ onDisk = {} ELSE Root \in born

OwnershipInv ==
    /\ DirInv
    /\ \A p \in Processes :
          EntryInv(p) /\ PendingInv(p) /\ TaskInv(p) /\ RootInv(p)
    /\ \A p, q \in Processes :
          tree[p] = "pending" /\ tree[q] = "pending" => p = q
=============================================================================
