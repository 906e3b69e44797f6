------------------------ MODULE TreeOwnership_proofs ------------------------
(***************************************************************************)
(* Who writes a session tree, for any processes and children: only the     *)
(* holder of its lock (OnlyHolderWritesTree), and a session only once what *)
(* its last owner left open is closed (RecoveredBeforeWriting); no lock is *)
(* held for nothing (NoLockIsStranded), and a rollback finds its adoption  *)
(* (RollbackFindsItsAdoption).                                             *)
(*                                                                         *)
(* OnlyHolderWrites is not inductive: that a process holds the lock when   *)
(* it writes follows from how its entry for the tree, its task and the     *)
(* directory on disk hang together, which is OwnershipInv.  The other      *)
(* three rest on invariants of their own, stated where they are used.      *)
(***************************************************************************)
EXTENDS TreeOwnership, TLAPS

(* The three behaviours under which the promise does not hold are left out:
   publishing a child before its root, forking in a tree that is only held
   for an adoption, and a publication that fails halfway. *)
Orderly ==
    /\ Operations \cap {"childFirst", "joinAdopting"} = {}
    /\ "publish" \notin Faults

TreeInv == TypeOK /\ OwnershipInv

(* The initial states, a tree on disk that nobody holds or none, satisfy the
   invariant. *)
LEMMA InitInv == Init => TreeInv
<1> USE TreeAssumption DEF Init, Sessions
<1>1. ASSUME Init PROVE TypeOK
    BY <1>1 DEF TypeOK, TreeStates, Adoptions, Tasks,
                AdoptSteps, TaskSteps, NoTask, NoAdoption
<1>2. ASSUME Init PROVE OwnershipInv
    BY <1>2 DEF OwnershipInv, EntryInv, PendingInv, TaskInv, RootInv, DirInv,
                HasAuthority, NoTask, NoAdoption
<1>3. QED BY <1>1, <1>2 DEF TreeInv

(* The types of the variables, without what ties the sets of sessions on disk
   together. *)
Shape ==
    /\ tree \in [Processes -> TreeStates]
    /\ writable \in [Processes -> SUBSET Sessions]
    /\ adopting \in [Processes -> SUBSET Sessions]
    /\ closed \in [Processes -> BOOLEAN]
    /\ inPlace \in [Processes -> SUBSET Sessions]
    /\ live \in [Processes -> SUBSET Sessions]
    /\ adopt \in [Processes -> Adoptions]
    /\ task \in [Processes -> Tasks]
    /\ dir \in {"absent", "scaffold", "published"}
    /\ lockFile \in BOOLEAN
    /\ holder \in Processes \cup {Nobody}

(* hold_tree gives the lock to the process or leaves it alone. *)
LEMMA HoldTreeType ==
    ASSUME Shape, NEW p \in Processes, NEW took \in BOOLEAN,
           HoldTree(p, took)
    PROVE  holder' \in Processes \cup {Nobody} /\ lockFile' \in BOOLEAN
    BY DEF Shape, HoldTree, TryAcquire

(* A step that only moves on stays inside the types. *)
LEMMA MovesOn ==
    ASSUME Shape, NEW p \in Processes
    PROVE  /\ \A pc \in AdoptSteps :
                [adopt EXCEPT ![p].pc = pc] \in [Processes -> Adoptions]
           /\ \A pc \in TaskSteps :
                [task EXCEPT ![p].pc = pc] \in [Processes -> Tasks]
    BY DEF Shape, Adoptions, Tasks

(* The steps of one process, with and without a session. *)
SessionStep(p, s) ==
    \/ Create(p, s) \/ BeginPublish(p, s) \/ StartRun(p, s) \/ EndRun(p, s)
    \/ BeginWrite(p, s) \/ BeginFork(p, s) \/ DeleteChild(p, s)

ProcessStep(p) ==
    \/ BeginDelete(p) \/ FindForeign(p) \/ AdoptStep(p) \/ TaskStep(p)
    \/ Close(p) \/ ReleaseOwnership(p) \/ Crash(p)

(* Every step keeps the types of what it writes, whatever may happen. *)
LEMMA ShapeStep ==
    ASSUME Shape, NEW p \in Processes
    PROVE  /\ \A s \in Sessions : SessionStep(p, s) => Shape'
           /\ ProcessStep(p) => Shape'
<1> USE TreeAssumption DEF Shape, TreeStates, Adoptions,
        Tasks, AdoptSteps, TaskSteps, NoTask, NoAdoption, Sessions,
        ownershipVars, processVars, diskVars
<1>1. ASSUME NEW s \in Sessions, Create(p, s) PROVE Shape'
    BY <1>1 DEF Create
<1>2. ASSUME NEW s \in Sessions, BeginPublish(p, s) PROVE Shape'
    BY <1>2 DEF BeginPublish
<1>3. ASSUME NEW s \in Sessions, StartRun(p, s) PROVE Shape'
    BY <1>3 DEF StartRun, CanAppend
<1>4. ASSUME NEW s \in Sessions, EndRun(p, s) PROVE Shape'
    BY <1>4 DEF EndRun, CanAppend
<1>5. ASSUME NEW s \in Sessions, BeginWrite(p, s) PROVE Shape'
    <2>1. tree' \in [Processes -> TreeStates]
        BY <1>5 DEF BeginWrite, HoldTree, TryAcquire
    <2>2. holder' \in Processes \cup {Nobody} /\ lockFile' \in BOOLEAN
        BY <1>5, HoldTreeType DEF BeginWrite
    <2>3. adopt' \in [Processes -> Adoptions]
        BY <1>5 DEF BeginWrite, HoldTree, TryAcquire
    <2>4. QED BY <1>5, <2>1, <2>2, <2>3 DEF BeginWrite, HoldTree, TryAcquire
<1>6. ASSUME NEW s \in Sessions, BeginFork(p, s) PROVE Shape'
    <2>1. holder' \in Processes \cup {Nobody} /\ lockFile' \in BOOLEAN
        BY <1>6, HoldTreeType DEF BeginFork
    <2>2. task' \in [Processes -> Tasks]
        BY <1>6 DEF BeginFork, HoldTree, TryAcquire
    <2>3. QED BY <1>6, <2>1, <2>2 DEF BeginFork, HoldTree, TryAcquire
<1>7. ASSUME NEW s \in Sessions, DeleteChild(p, s) PROVE Shape'
    BY <1>7 DEF DeleteChild
<1>8. ASSUME BeginDelete(p) PROVE Shape'
    <2>1. holder' \in Processes \cup {Nobody} /\ lockFile' \in BOOLEAN
        BY <1>8, HoldTreeType DEF BeginDelete
    <2>2. task' \in [Processes -> Tasks]
        BY <1>8 DEF BeginDelete, HoldTree, TryAcquire
    <2>3. QED BY <1>8, <2>1, <2>2 DEF BeginDelete, HoldTree, TryAcquire
<1>9. ASSUME FindForeign(p) PROVE Shape'
    BY <1>9 DEF FindForeign
<1>10. ASSUME Reconcile(p) PROVE Shape'
    <2>1. adopt' \in [Processes -> Adoptions]
        BY <1>10, MovesOn DEF Reconcile
    <2>2. QED BY <1>10, <2>1 DEF Reconcile
<1>11. ASSUME ReconcileFails(p) PROVE Shape'
    <2>1. adopt' \in [Processes -> Adoptions]
        BY <1>11, MovesOn DEF ReconcileFails
    <2>2. QED BY <1>11, <2>1 DEF ReconcileFails
<1>12. ASSUME CommitAdoption(p) PROVE Shape'
    BY <1>12 DEF CommitAdoption
<1>13. ASSUME CommitFails(p) PROVE Shape'
    <2>1. adopt' \in [Processes -> Adoptions]
        BY <1>13, MovesOn DEF CommitFails
    <2>2. QED BY <1>13, <2>1 DEF CommitFails
<1>14. ASSUME RollbackFlush(p) PROVE Shape'
    <2>1. adopt' \in [Processes -> Adoptions]
        BY <1>14, MovesOn DEF RollbackFlush
    <2>2. QED BY <1>14, <2>1 DEF RollbackFlush
<1>15. ASSUME RollbackDrop(p) PROVE Shape'
    BY <1>15 DEF RollbackDrop, Unlock
<1>16. ASSUME PublishDirectory(p) PROVE Shape'
    <2>1. task' \in [Processes -> Tasks]
        BY <1>16, MovesOn DEF PublishDirectory
    <2>2. holder' \in Processes \cup {Nobody} /\ lockFile' \in BOOLEAN
        BY <1>16 DEF PublishDirectory
    <2>3. dir' \in {"absent", "scaffold", "published"}
        BY <1>16 DEF PublishDirectory
    <2>4. QED BY <1>16, <2>1, <2>2, <2>3 DEF PublishDirectory
<1>17. ASSUME EndPublish(p) PROVE Shape'
    BY <1>17 DEF EndPublish, EndTask
<1>18. ASSUME PublishFails(p) PROVE Shape'
    BY <1>18 DEF PublishFails, Unlock, EndTask
<1>19. ASSUME AssembleFork(p) PROVE Shape'
    <2>1. task' \in [Processes -> Tasks]
        BY <1>19, MovesOn DEF AssembleFork
    <2>2. QED BY <1>19, <2>1 DEF AssembleFork
<1>20. ASSUME PublishFork(p) PROVE Shape'
    <2>1. task' \in [Processes -> Tasks]
        BY <1>20, MovesOn DEF PublishFork
    <2>2. QED BY <1>20, <2>1 DEF PublishFork
<1>21. ASSUME EndFork(p) PROVE Shape'
    BY <1>21 DEF EndFork, EndTask
<1>22. ASSUME ForkFails(p) PROVE Shape'
    BY <1>22 DEF ForkFails, Unlock, EndTask
<1>23. ASSUME CommitDelete(p) PROVE Shape'
    BY <1>23 DEF CommitDelete, ForgetTree, Unlock, EndTask
<1>24. ASSUME AbandonDelete(p) PROVE Shape'
    BY <1>24 DEF AbandonDelete, Unlock, EndTask
<1>25. ASSUME Close(p) PROVE Shape'
    BY <1>25 DEF Close
<1>26. ASSUME ReleaseOwnership(p) PROVE Shape'
    BY <1>26 DEF ReleaseOwnership, ForgetTree, Unlock
<1>27. ASSUME Crash(p) PROVE Shape'
    BY <1>27 DEF Crash, ForgetTree, Unlock
<1>28. QED
    BY <1>1, <1>2, <1>3, <1>4, <1>5, <1>6, <1>7,
       <1>8, <1>9, <1>10, <1>11, <1>12, <1>13, <1>14, <1>15, <1>16, <1>17,
       <1>18, <1>19, <1>20, <1>21, <1>22, <1>23, <1>24, <1>25, <1>26, <1>27
    DEF SessionStep, ProcessStep, AdoptStep, TaskStep

(* Every step keeps the types, given what the invariant says of the disk. *)
LEMMA TypeStep ==
    ASSUME TreeInv, NEW p \in Processes
    PROVE  /\ \A s \in Sessions : SessionStep(p, s) => TypeOK'
           /\ ProcessStep(p) => TypeOK'
<1> DEFINE OnDisk == /\ unfinished \subseteq onDisk /\ onDisk \subseteq born
                     /\ born \subseteq Sessions
<1> USE DEF TreeInv, ownershipVars, processVars, diskVars
<1>1. Shape /\ OnDisk
    BY DEF TypeOK, Shape
<1>2. Shape' /\ OnDisk' => TypeOK'
    BY DEF TypeOK, Shape
<1>3. UNCHANGED <<onDisk, unfinished, born>> => OnDisk'
    BY <1>1
<1>4. ASSUME NEW s \in Sessions, SessionStep(p, s) PROVE OnDisk'
    <2>1. CASE Create(p, s) \/ BeginFork(p, s)
        BY <1>1, <2>1 DEF Create, BeginFork
    <2>2. CASE StartRun(p, s) \/ EndRun(p, s)
        BY <1>1, <2>2 DEF StartRun, EndRun, CanAppend, OwnershipInv, EntryInv
    <2>3. CASE DeleteChild(p, s)
        BY <1>1, <2>3 DEF DeleteChild
    <2>4. CASE BeginPublish(p, s) \/ BeginWrite(p, s)
        BY <1>3, <2>4 DEF BeginPublish, BeginWrite
    <2>5. QED BY <1>4, <2>1, <2>2, <2>3, <2>4 DEF SessionStep
<1>5. ASSUME AdoptStep(p) PROVE OnDisk'
    <2>1. CASE Reconcile(p)
        BY <1>1, <2>1 DEF Reconcile
    <2>2. CASE ~Reconcile(p)
        BY <1>3, <1>5, <2>2 DEF AdoptStep, ReconcileFails, CommitAdoption,
           CommitFails, RollbackFlush, RollbackDrop
    <2>3. QED BY <2>1, <2>2
<1>6. ASSUME TaskStep(p) PROVE OnDisk'
    <2>1. CASE PublishDirectory(p) \/ PublishFork(p)
        BY <1>1, <2>1 DEF PublishDirectory, PublishFork, OwnershipInv, TaskInv
    <2>2. CASE CommitDelete(p)
        BY <1>1, <2>2 DEF CommitDelete
    <2>3. CASE ~(PublishDirectory(p) \/ PublishFork(p) \/ CommitDelete(p))
        BY <1>3, <1>6, <2>3 DEF TaskStep, EndPublish, PublishFails, AssembleFork,
           EndFork, ForkFails, AbandonDelete
    <2>4. QED BY <2>1, <2>2, <2>3
<1>7. ASSUME ProcessStep(p) PROVE OnDisk'
    BY <1>3, <1>5, <1>6, <1>7, SMTT(40) DEF ProcessStep, BeginDelete, FindForeign, Close,
       ReleaseOwnership, Crash
<1>8. QED BY <1>1, <1>2, <1>4, <1>7, ShapeStep

(* Every step keeps what ties entries, tasks and directory to the lock. *)
LEMMA OwnershipStep ==
    ASSUME Orderly, TreeInv, NEW p \in Processes
    PROVE  /\ \A s \in Sessions : SessionStep(p, s) => OwnershipInv'
           /\ ProcessStep(p) => OwnershipInv'
<1> USE TreeAssumption DEF TreeInv, TypeOK, TreeStates,
        Adoptions, Tasks, AdoptSteps, TaskSteps, NoTask, NoAdoption, Sessions,
        OwnershipInv, EntryInv, PendingInv, TaskInv, RootInv, DirInv,
        HasAuthority, IsSettled, ownershipVars, processVars, diskVars, Orderly
<1>1. ASSUME NEW s \in Sessions, Create(p, s) PROVE OwnershipInv'
    BY <1>1 DEF Create, MutationFree
<1>2. ASSUME NEW s \in Sessions, BeginPublish(p, s) PROVE OwnershipInv'
    <2>1. DirInv'
        BY <1>2 DEF BeginPublish, MutationFree
    <2>2. ASSUME NEW q \in Processes PROVE EntryInv(q)'
        BY <1>2 DEF BeginPublish, MutationFree
    <2>3. ASSUME NEW q \in Processes PROVE PendingInv(q)'
        BY <1>2 DEF BeginPublish, MutationFree
    <2>4. ASSUME NEW q \in Processes PROVE TaskInv(q)'
        <3>1. CASE q = p
            BY <3>1, <1>2 DEF BeginPublish, MutationFree
        <3>2. CASE q # p
            BY <3>2, <1>2 DEF BeginPublish, MutationFree
        <3>3. QED BY <3>1, <3>2
    <2>5. ASSUME NEW q \in Processes PROVE RootInv(q)'
        BY <1>2 DEF BeginPublish, MutationFree
    <2>6. ASSUME NEW q \in Processes, NEW r \in Processes,
                 tree'[q] = "pending", tree'[r] = "pending"
          PROVE  q = r
        BY <2>6, <1>2 DEF BeginPublish, MutationFree
    <2>7. QED BY <2>1, <2>2, <2>3, <2>4, <2>5, <2>6
<1>3. ASSUME NEW s \in Sessions, StartRun(p, s) PROVE OwnershipInv'
    BY <1>3 DEF StartRun, CanAppend, SharedFree
<1>4. ASSUME NEW s \in Sessions, EndRun(p, s) PROVE OwnershipInv'
    BY <1>4 DEF EndRun, CanAppend, SharedFree
<1>5. ASSUME NEW s \in Sessions, BeginWrite(p, s) PROVE OwnershipInv'
    <2> USE DEF BeginWrite, MutationFree, HoldTree, TryAcquire, DirExists
    <2>1. DirInv'
        BY <1>5
    <2>2. ASSUME NEW q \in Processes PROVE EntryInv(q)'
        <3>1. CASE q = p
            BY <3>1, <1>5
        <3>2. CASE q # p
            BY <3>2, <1>5
        <3>3. QED BY <3>1, <3>2
    <2>3. ASSUME NEW q \in Processes PROVE PendingInv(q)'
        BY <1>5
    <2>4. ASSUME NEW q \in Processes PROVE TaskInv(q)'
        BY <1>5
    <2>5. ASSUME NEW q \in Processes PROVE RootInv(q)'
        BY <1>5
    <2>6. ASSUME NEW q \in Processes, NEW r \in Processes,
                 tree'[q] = "pending", tree'[r] = "pending"
          PROVE  q = r
        BY <2>6, <1>5
    <2>7. QED BY <2>1, <2>2, <2>3, <2>4, <2>5, <2>6
<1>6. ASSUME NEW s \in Sessions, BeginFork(p, s) PROVE OwnershipInv'
    BY <1>6 DEF BeginFork, MutationFree, HoldTree, TryAcquire, DirExists
<1>7. ASSUME NEW s \in Sessions, DeleteChild(p, s) PROVE OwnershipInv'
    BY <1>7 DEF DeleteChild, MutationFree
<1>8. ASSUME BeginDelete(p) PROVE OwnershipInv'
    BY <1>8 DEF BeginDelete, GateFree, MutationFree, HoldTree, TryAcquire,
           DirExists
<1>9. ASSUME FindForeign(p) PROVE OwnershipInv'
    BY <1>9 DEF FindForeign, MutationFree, DirExists
<1>10. ASSUME Reconcile(p) PROVE OwnershipInv'
    BY <1>10 DEF Reconcile, SharedFree
<1>11. ASSUME ReconcileFails(p) PROVE OwnershipInv'
    BY <1>11 DEF ReconcileFails
<1>12. ASSUME CommitAdoption(p) PROVE OwnershipInv'
    <2>1. DirInv'
        BY <1>12 DEF CommitAdoption
    <2>2. ASSUME NEW q \in Processes PROVE EntryInv(q)'
        <3>1. CASE q = p
            BY <3>1, <1>12 DEF CommitAdoption
        <3>2. CASE q # p
            BY <3>2, <1>12 DEF CommitAdoption
        <3>3. QED BY <3>1, <3>2
    <2>3. ASSUME NEW q \in Processes PROVE PendingInv(q)'
        BY <1>12 DEF CommitAdoption
    <2>4. ASSUME NEW q \in Processes PROVE TaskInv(q)'
        BY <1>12 DEF CommitAdoption
    <2>5. ASSUME NEW q \in Processes PROVE RootInv(q)'
        BY <1>12 DEF CommitAdoption
    <2>6. ASSUME NEW q \in Processes, NEW r \in Processes,
                 tree'[q] = "pending", tree'[r] = "pending"
          PROVE  q = r
        BY <2>6, <1>12 DEF CommitAdoption
    <2>7. QED BY <2>1, <2>2, <2>3, <2>4, <2>5, <2>6
<1>13. ASSUME CommitFails(p) PROVE OwnershipInv'
    BY <1>13 DEF CommitFails
<1>14. ASSUME RollbackFlush(p) PROVE OwnershipInv'
    BY <1>14 DEF RollbackFlush, MutationFree
<1>15. ASSUME RollbackDrop(p) PROVE OwnershipInv'
    BY <1>15 DEF RollbackDrop, TreeIsReferenced, Unlock
<1>16. ASSUME PublishDirectory(p) PROVE OwnershipInv'
    BY <1>16 DEF PublishDirectory, DirExists
<1>17. ASSUME EndPublish(p) PROVE OwnershipInv'
    <2>1. DirInv'
        BY <1>17 DEF EndPublish, EndTask
    <2>2. ASSUME NEW q \in Processes PROVE EntryInv(q)'
        <3>1. CASE q = p
            BY <3>1, <1>17 DEF EndPublish, EndTask
        <3>2. CASE q # p
            BY <3>2, <1>17 DEF EndPublish, EndTask
        <3>3. QED BY <3>1, <3>2
    <2>3. ASSUME NEW q \in Processes PROVE PendingInv(q)'
        BY <1>17 DEF EndPublish, EndTask
    <2>4. ASSUME NEW q \in Processes PROVE TaskInv(q)'
        BY <1>17 DEF EndPublish, EndTask
    <2>5. ASSUME NEW q \in Processes PROVE RootInv(q)'
        BY <1>17 DEF EndPublish, EndTask
    <2>6. ASSUME NEW q \in Processes, NEW r \in Processes,
                 tree'[q] = "pending", tree'[r] = "pending"
          PROVE  q = r
        BY <2>6, <1>17 DEF EndPublish, EndTask
    <2>7. QED BY <2>1, <2>2, <2>3, <2>4, <2>5, <2>6
<1>18. ASSUME PublishFails(p) PROVE OwnershipInv'
    BY <1>18 DEF PublishFails, DirExists, Unlock, EndTask
<1>19. ASSUME AssembleFork(p) PROVE OwnershipInv'
    BY <1>19 DEF AssembleFork
<1>20. ASSUME PublishFork(p) PROVE OwnershipInv'
    BY <1>20 DEF PublishFork, DirExists
<1>21. ASSUME EndFork(p) PROVE OwnershipInv'
    <2>1. DirInv'
        BY <1>21 DEF EndFork, EndTask
    <2>2. ASSUME NEW q \in Processes PROVE EntryInv(q)'
        <3>1. CASE q = p
            BY <3>1, <1>21 DEF EndFork, EndTask
        <3>2. CASE q # p
            BY <3>2, <1>21 DEF EndFork, EndTask
        <3>3. QED BY <3>1, <3>2
    <2>3. ASSUME NEW q \in Processes PROVE PendingInv(q)'
        BY <1>21 DEF EndFork, EndTask
    <2>4. ASSUME NEW q \in Processes PROVE TaskInv(q)'
        BY <1>21 DEF EndFork, EndTask
    <2>5. ASSUME NEW q \in Processes PROVE RootInv(q)'
        BY <1>21 DEF EndFork, EndTask
    <2>6. ASSUME NEW q \in Processes, NEW r \in Processes,
                 tree'[q] = "pending", tree'[r] = "pending"
          PROVE  q = r
        BY <2>6, <1>21 DEF EndFork, EndTask
    <2>7. QED BY <2>1, <2>2, <2>3, <2>4, <2>5, <2>6
<1>22. ASSUME ForkFails(p) PROVE OwnershipInv'
    BY <1>22 DEF ForkFails, DirExists, Unlock, EndTask
<1>23. ASSUME CommitDelete(p) PROVE OwnershipInv'
    <2>1. DirInv'
        BY <1>23 DEF CommitDelete, ForgetTree, Unlock, EndTask
    <2>2. ASSUME NEW q \in Processes PROVE EntryInv(q)'
        BY <1>23 DEF CommitDelete, ForgetTree, Unlock, EndTask
    <2>3. ASSUME NEW q \in Processes PROVE PendingInv(q)'
        BY <1>23 DEF CommitDelete, ForgetTree, Unlock, EndTask
    <2>4. ASSUME NEW q \in Processes PROVE TaskInv(q)'
        BY <1>23 DEF CommitDelete, ForgetTree, Unlock, EndTask
    <2>5. ASSUME NEW q \in Processes PROVE RootInv(q)'
        BY <1>23 DEF CommitDelete, ForgetTree, Unlock, EndTask
    <2>6. ASSUME NEW q \in Processes, NEW r \in Processes,
                 tree'[q] = "pending", tree'[r] = "pending"
          PROVE  q = r
        BY <2>6, <1>23 DEF CommitDelete, ForgetTree, Unlock, EndTask
    <2>7. QED BY <2>1, <2>2, <2>3, <2>4, <2>5, <2>6
<1>24. ASSUME AbandonDelete(p) PROVE OwnershipInv'
    BY <1>24 DEF AbandonDelete, Unlock, EndTask
<1>25. ASSUME Close(p) PROVE OwnershipInv'
    BY <1>25 DEF Close
<1>26. ASSUME ReleaseOwnership(p) PROVE OwnershipInv'
    BY <1>26 DEF ReleaseOwnership, ForgetTree, Unlock, MutationFree
<1>27. ASSUME Crash(p) PROVE OwnershipInv'
    BY <1>27 DEF Crash, ForgetTree, Unlock
<1>28. QED
    BY <1>1, <1>2, <1>3, <1>4, <1>5, <1>6, <1>7,
       <1>8, <1>9, <1>10, <1>11, <1>12, <1>13, <1>14, <1>15, <1>16, <1>17,
       <1>18, <1>19, <1>20, <1>21, <1>22, <1>23, <1>24, <1>25, <1>26, <1>27
    DEF SessionStep, ProcessStep, AdoptStep, TaskStep

(* A process that writes below the root's directory holds its lock. *)
LEMMA WritersHold == TreeInv => OnlyHolderWrites
<1> SUFFICES ASSUME TreeInv, NEW p \in Processes, Writing(p) PROVE holder = p
    BY DEF OnlyHolderWrites
<1> USE DEF TreeInv, OwnershipInv, EntryInv, PendingInv, TaskInv, DirInv,
            HasAuthority, IsSettled, DirExists
<1>1. CASE task[p].pc \in {"fork", "forkWrite", "delete"} /\ DirExists
    BY <1>1
<1>2. CASE task[p].pc = "publish" /\ task[p].session # Root
    BY <1>2
<1>3. QED BY <1>1, <1>2 DEF Writing

(* TreeInv holds in every reachable state. *)
LEMMA Invariance ==
    ASSUME Orderly
    PROVE  Spec => []TreeInv
<1>1. Init => TreeInv
    BY InitInv
<1>2. ASSUME TreeInv, [Next]_vars PROVE TreeInv'
    <2>1. CASE Next
        BY <1>2, <2>1, TypeStep, OwnershipStep
        DEF Next, SessionStep, ProcessStep, TreeInv
    <2>2. CASE UNCHANGED vars
        BY <1>2, <2>2 DEF TreeInv, TypeOK, OwnershipInv, EntryInv, PendingInv,
            TaskInv, RootInv, DirInv, HasAuthority, IsSettled, vars,
            ownershipVars, processVars, diskVars
    <2>3. QED BY <1>2, <2>1, <2>2
<1>3. QED BY <1>1, <1>2, PTL DEF Spec

(* Every state has its type; in particular a log left inside a run belongs to
   a session on disk, and what is on disk was created: no run starts in a
   session that has no directory (session/mod.rs, OwnershipState and
   write_event). *)
THEOREM TreeTypeCorrect ==
    ASSUME Orderly
    PROVE  Spec => []TypeOK
<1>1. TreeInv => TypeOK
    BY DEF TreeInv
<1>2. QED BY <1>1, Invariance, PTL

(* Only the holder of a tree's lock writes below the root's directory,
   children included (session/mod.rs, tree-ownership-lock.md): for any number
   of processes and sessions, through adoptions and their rollbacks, forks,
   deletions, reverts, shutdowns and crashes. *)
THEOREM OnlyHolderWritesTree ==
    ASSUME Orderly
    PROVE  Spec => []OnlyHolderWrites
<1>1. QED BY WritersHold, Invariance, PTL

-----------------------------------------------------------------------------
(* Locks that are held for nothing, and adoptions that are lost.  Nothing is
   left out here: publications fail halfway, children come first and forks
   join adoptions. *)

(* A lock is held for a settled tree, for an adoption, or by the task that
   took it; a root's publication has its own lock in the prepared directory
   until it is renamed into place. *)
LockInv(p) ==
    /\ holder = p => \/ tree[p] = "owned"
                     \/ task[p].lock /\ task[p].pc # "publish"
                     \/ tree[p] = "adopting" /\ adopt[p].pc # "idle"
    /\ task[p].pc = "idle" => ~task[p].lock
    /\ task[p].pc \in {"publish", "published"} =>
          (task[p].lock <=> task[p].session = Root)

(* An adoption under way is the only one, and the process has the tree, unless
   its store was closed under it. *)
AdoptionInv(p) ==
    /\ ~IsSettled(p) => writable[p] = {}
    /\ adopt[p].pc = "idle" => adopting[p] = {}
    /\ adopting[p] \subseteq {adopt[p].session}
    /\ adopt[p].pc # "idle" =>
          \/ HasAuthority(p) /\ (adopt[p].session \in adopting[p] \/ tree[p] = "owned")
          \/ closed[p] /\ ~HasAuthority(p) /\ task[p].pc = "idle"
    /\ task[p].pc = "delete" => adopt[p].pc = "idle"

(* A tree whose sessions anybody knows has its root. *)
RootKnown ==
    \/ Root \in born
    \/ /\ born = {} /\ onDisk = {}
       /\ \A p \in Processes : /\ ~HasAuthority(p) /\ task[p].pc = "idle"
                               /\ writable[p] = {}

HeldInv ==
    /\ Shape /\ RootKnown
    /\ \A p \in Processes : LockInv(p) /\ AdoptionInv(p)

(* A step of p leaves the entries of q alone, and gives q no lock. *)
Untouched(p, q) ==
    /\ tree'[q] = tree[q] /\ task'[q] = task[q] /\ adopt'[q] = adopt[q]
    /\ writable'[q] = writable[q] /\ adopting'[q] = adopting[q]
    /\ closed'[q] = closed[q]
    /\ holder' = holder \/ holder' = p \/ holder' = Nobody

(* Such a step leaves the lock and the adoption of q in order. *)
LEMMA OthersStay ==
    ASSUME HeldInv, NEW p, NEW q \in Processes, p # q, Untouched(p, q)
    PROVE  LockInv(q)' /\ AdoptionInv(q)'
<1>1. Nobody # q
    BY TreeAssumption
<1>2. LockInv(q)'
    BY <1>1 DEF HeldInv, LockInv, Untouched
<1>3. AdoptionInv(q)'
    BY DEF HeldInv, AdoptionInv, HasAuthority, IsSettled, Untouched
<1>4. QED BY <1>2, <1>3

(* Every step is one: a process changes its own entries, takes the lock or
   drops it. *)
LEMMA OwnEntries ==
    ASSUME Shape, NEW p \in Processes, NEW q \in Processes, q # p,
           ProcessStep(p) \/ \E s \in Sessions : SessionStep(p, s)
    PROVE  Untouched(p, q)
<1> USE DEF Shape, Untouched, ownershipVars, processVars, diskVars
<1>1. ASSUME NEW s \in Sessions, SessionStep(p, s)
      PROVE  Untouched(p, q)
    BY <1>1 DEF SessionStep, Create, BeginPublish, StartRun, EndRun, BeginWrite,
       BeginFork, DeleteChild, HoldTree, TryAcquire
<1>2. ASSUME AdoptStep(p)
      PROVE  Untouched(p, q)
    BY <1>2 DEF AdoptStep, Reconcile, ReconcileFails, CommitAdoption, CommitFails,
       RollbackFlush, RollbackDrop, Unlock
<1>3. ASSUME TaskStep(p)
      PROVE  Untouched(p, q)
    BY <1>3 DEF TaskStep, PublishDirectory, EndPublish, PublishFails, AssembleFork,
       PublishFork, EndFork, ForkFails, CommitDelete, AbandonDelete, Unlock, EndTask,
       ForgetTree
<1>4. ASSUME BeginDelete(p) \/ FindForeign(p) \/ Close(p) \/ ReleaseOwnership(p) \/ Crash(p)
      PROVE  Untouched(p, q)
    BY <1>4 DEF BeginDelete, FindForeign, Close, ReleaseOwnership, Crash, ForgetTree,
       Unlock, HoldTree, TryAcquire
<1>5. QED BY <1>1, <1>2, <1>3, <1>4 DEF ProcessStep

(* A process keeps its own lock and adoption in order. *)
LEMMA HeldBySession ==
    ASSUME HeldInv, NEW p \in Processes, NEW s \in Sessions, SessionStep(p, s)
    PROVE  LockInv(p)' /\ AdoptionInv(p)'
<1> USE TreeAssumption DEF HeldInv, Shape, LockInv, AdoptionInv, HasAuthority,
        IsSettled, MutationFree, ownershipVars, processVars, diskVars, TreeStates,
        Adoptions, Tasks, AdoptSteps, TaskSteps
<1>1. CASE Create(p, s)
    BY <1>1 DEF Create, RootKnown
<1>2. CASE BeginPublish(p, s)
    BY <1>2 DEF BeginPublish
<1>3. CASE StartRun(p, s) \/ EndRun(p, s)
    BY <1>3 DEF StartRun, EndRun
<1>4. CASE BeginWrite(p, s)
    BY <1>4 DEF BeginWrite, HoldTree, TryAcquire
<1>5. CASE BeginFork(p, s)
    BY <1>5 DEF BeginFork, HoldTree, TryAcquire
<1>6. CASE DeleteChild(p, s)
    BY <1>6 DEF DeleteChild
<1>7. QED BY <1>1, <1>2, <1>3, <1>4, <1>5, <1>6 DEF SessionStep

LEMMA HeldByProcess ==
    ASSUME HeldInv, NEW p \in Processes, ProcessStep(p)
    PROVE  LockInv(p)' /\ AdoptionInv(p)'
<1> USE TreeAssumption DEF HeldInv, Shape, LockInv, AdoptionInv, HasAuthority,
        IsSettled, MutationFree, ownershipVars, processVars, diskVars, TreeStates,
        Adoptions, Tasks, AdoptSteps, TaskSteps, NoTask, NoAdoption
<1>1. CASE BeginDelete(p)
    BY <1>1 DEF BeginDelete, GateFree, HoldTree, TryAcquire
<1>2. CASE FindForeign(p) \/ Close(p)
    BY <1>2 DEF FindForeign, Close
<1>3. CASE ReleaseOwnership(p) \/ Crash(p)
    BY <1>3 DEF ReleaseOwnership, Crash, ForgetTree, Unlock
<1>4. CASE Reconcile(p) \/ ReconcileFails(p) \/ CommitFails(p) \/ RollbackFlush(p)
    BY <1>4 DEF Reconcile, ReconcileFails, CommitFails, RollbackFlush
<1>5. CASE CommitAdoption(p)
    BY <1>5 DEF CommitAdoption
<1>6. CASE RollbackDrop(p)
    BY <1>6 DEF RollbackDrop, TreeIsReferenced, Unlock
<1>7. CASE PublishDirectory(p) \/ EndPublish(p) \/ PublishFails(p)
    BY <1>7 DEF PublishDirectory, EndPublish, PublishFails, Unlock, EndTask
<1>8. CASE AssembleFork(p) \/ PublishFork(p)
    BY <1>8 DEF AssembleFork, PublishFork
<1>9. CASE EndFork(p) \/ ForkFails(p)
    BY <1>9 DEF EndFork, ForkFails, Unlock, EndTask
<1>10. CASE CommitDelete(p) \/ AbandonDelete(p)
    BY <1>10 DEF CommitDelete, AbandonDelete, ForgetTree, Unlock, EndTask
<1>11. QED
    BY <1>1, <1>2, <1>3, <1>4, <1>5, <1>6, <1>7, <1>8, <1>9, <1>10
    DEF ProcessStep, AdoptStep, TaskStep

(* No step makes a tree known without its root. *)
LEMMA RootStaysKnown ==
    ASSUME HeldInv, NEW p \in Processes,
           ProcessStep(p) \/ \E s \in Sessions : SessionStep(p, s)
    PROVE  RootKnown'
<1> USE DEF HeldInv, RootKnown, Shape, Sessions, ownershipVars, processVars, diskVars
<1>1. born \subseteq born'
    BY DEF SessionStep, Create, BeginPublish, StartRun, EndRun, BeginWrite, BeginFork,
       DeleteChild, ProcessStep, BeginDelete, FindForeign, Close, ReleaseOwnership,
       Crash, AdoptStep, Reconcile, ReconcileFails, CommitAdoption, CommitFails,
       RollbackFlush, RollbackDrop, TaskStep, PublishDirectory, EndPublish,
       PublishFails, AssembleFork, PublishFork, EndFork, ForkFails, CommitDelete,
       AbandonDelete
<1>2. CASE Root \in born
    BY <1>1, <1>2
<1>3. CASE /\ born = {} /\ onDisk = {}
           /\ \A q \in Processes : /\ ~HasAuthority(q) /\ task[q].pc = "idle"
                                   /\ writable[q] = {}
    <2>1. adopt[p].pc # "idle" => closed[p]
        BY <1>3 DEF AdoptionInv
    <2>2. ASSUME NEW s \in Sessions, SessionStep(p, s) PROVE RootKnown'
        <3>1. Create(p, s)
            BY <1>3, <2>2 DEF SessionStep, BeginPublish, StartRun, EndRun, CanAppend,
               BeginWrite, BeginFork, DeleteChild
        <3>2. s = Root
            BY <1>3, <3>1 DEF Create, IsSettled, HasAuthority
        <3>3. QED BY <3>1, <3>2 DEF Create
    <2>3. ASSUME TaskStep(p) \/ BeginDelete(p) PROVE FALSE
        BY <1>3, <2>3 DEF TaskStep, PublishDirectory, EndPublish, PublishFails,
           AssembleFork, PublishFork, EndFork, ForkFails, CommitDelete, AbandonDelete,
           BeginDelete
    <2>4. ASSUME AdoptStep(p) PROVE RootKnown'
        <3>1. ~CommitAdoption(p)
            BY <1>3 DEF CommitAdoption
        <3>2. UNCHANGED <<born, onDisk, writable, task>>
            BY <2>4, <3>1 DEF AdoptStep, Reconcile, ReconcileFails, CommitFails,
               RollbackFlush, RollbackDrop
        <3>3. \A q \in Processes : ~HasAuthority(q)'
            BY <1>3, <2>4, <3>1 DEF AdoptStep, Reconcile, ReconcileFails, CommitFails,
               RollbackFlush, RollbackDrop, HasAuthority
        <3>4. QED BY <1>3, <3>2, <3>3
    <2>5. ASSUME FindForeign(p) \/ Close(p) \/ ReleaseOwnership(p) \/ Crash(p)
          PROVE  RootKnown'
        BY <1>3, <2>5 DEF FindForeign, Close, ReleaseOwnership, Crash, ForgetTree,
           HasAuthority, NoTask
    <2>6. QED BY <2>2, <2>3, <2>4, <2>5 DEF ProcessStep
<1>4. QED BY <1>2, <1>3

(* HeldInv holds in every reachable state, for all operations and faults. *)
LEMMA HeldInvariance == Spec => []HeldInv
<1>1. ASSUME Init PROVE HeldInv
    BY <1>1, TreeAssumption DEF Init, HeldInv, Shape, RootKnown, LockInv, AdoptionInv,
       HasAuthority, NoTask, NoAdoption, TreeStates, Adoptions, Tasks, AdoptSteps,
       TaskSteps, Sessions
<1>2. ASSUME HeldInv, NEW p \in Processes,
             ProcessStep(p) \/ \E s \in Sessions : SessionStep(p, s)
      PROVE  HeldInv'
    <2>1. Shape'
        BY <1>2, ShapeStep DEF HeldInv
    <2>2. LockInv(p)' /\ AdoptionInv(p)'
        BY <1>2, HeldBySession, HeldByProcess
    <2>3. ASSUME NEW q \in Processes, q # p PROVE LockInv(q)' /\ AdoptionInv(q)'
        <3>1. Untouched(p, q)
            BY <1>2, <2>3, OwnEntries DEF HeldInv
        <3>2. QED BY <1>2, <2>3, <3>1, OthersStay
    <2>4. QED BY <1>2, <2>1, <2>2, <2>3, RootStaysKnown DEF HeldInv
<1>3. ASSUME HeldInv, UNCHANGED vars PROVE HeldInv'
    BY <1>3 DEF HeldInv, Shape, RootKnown, LockInv, AdoptionInv, HasAuthority,
       IsSettled, vars, ownershipVars, processVars, diskVars
<1>4. HeldInv /\ [Next]_vars => HeldInv'
    BY <1>2, <1>3 DEF Next, SessionStep, ProcessStep
<1>5. QED BY <1>1, <1>4, PTL DEF Spec

(* A held lock has something that releases it or needs it, whatever fails and
   whichever operations meet: rollback_adoption drops the lock of a tree that
   only it held, and every task that took a lock drops it or settles the tree
   (session/mod.rs).  No process keeps the others out of a tree for nothing. *)
THEOREM NoLockIsStranded == Spec => []NoStrandedLock
<1>1. HeldInv => NoStrandedLock
    BY DEF HeldInv, LockInv, NoStrandedLock
<1>2. QED BY <1>1, HeldInvariance, PTL

(* An adoption under way is known to the store, unless that was closed. *)
FoundInv ==
    \A p \in Processes :
        adopt[p].pc # "idle" => adopt[p].session \in adopting[p] \/ closed[p]

(* rollback_adoption finds the adoption it rolls back: a deletion of the tree
   waits for the adoption gate, and a shutdown closes the store before it
   forgets the tree.  A revert that deletes a child waits for neither, and is
   left out: it forgets the adoption of the child it deletes. *)
THEOREM RollbackFindsItsAdoption ==
    ASSUME "revert" \notin Operations
    PROVE  Spec => []RollbackFindsAdoption
<1>1. ASSUME Init PROVE FoundInv
    BY <1>1 DEF Init, FoundInv, NoAdoption
<1>2. ASSUME HeldInv, FoundInv, NEW p \in Processes,
             ProcessStep(p) \/ \E s \in Sessions : SessionStep(p, s)
      PROVE  FoundInv'
    <2> USE DEF HeldInv, Shape, FoundInv, Adoptions, AdoptSteps, ownershipVars,
                processVars, diskVars
    <2>1. ASSUME NEW q \in Processes, q # p, adopt'[q].pc # "idle"
          PROVE  adopt'[q].session \in adopting'[q] \/ closed'[q]
        <3>1. Untouched(p, q)
            BY <1>2, <2>1, OwnEntries
        <3>2. QED BY <1>2, <2>1, <3>1 DEF Untouched
    <2>2. adopt'[p].pc # "idle" => adopt'[p].session \in adopting'[p] \/ closed'[p]
        <3>1. ASSUME NEW s \in Sessions, SessionStep(p, s)
              PROVE  adopt'[p].pc # "idle" => adopt'[p].session \in adopting'[p] \/ closed'[p]
            BY <1>2, <3>1 DEF SessionStep, Create, BeginPublish, StartRun, EndRun,
               BeginWrite, BeginFork, DeleteChild
        <3>2. ASSUME AdoptStep(p)
              PROVE  adopt'[p].pc # "idle" => adopt'[p].session \in adopting'[p] \/ closed'[p]
            BY <1>2, <3>2 DEF AdoptStep, Reconcile, ReconcileFails, CommitAdoption,
               CommitFails, RollbackFlush, RollbackDrop, NoAdoption
        <3>3. ASSUME TaskStep(p)
              PROVE  adopt'[p].pc # "idle" => adopt'[p].session \in adopting'[p] \/ closed'[p]
            <4>1. CASE CommitDelete(p)
                BY <1>2, <4>1 DEF CommitDelete, AdoptionInv
            <4>2. CASE ~CommitDelete(p)
                BY <1>2, <3>3, <4>2 DEF TaskStep, PublishDirectory, EndPublish,
                   PublishFails, AssembleFork, PublishFork, EndFork, ForkFails,
                   AbandonDelete
            <4>3. QED BY <4>1, <4>2
        <3>4. CASE BeginDelete(p) \/ FindForeign(p) \/ Close(p) \/ ReleaseOwnership(p)
                   \/ Crash(p)
            BY <1>2, <3>4 DEF BeginDelete, FindForeign, Close, ReleaseOwnership, Crash,
               NoAdoption
        <3>5. QED BY <1>2, <3>1, <3>2, <3>3, <3>4 DEF ProcessStep
    <2>3. QED BY <2>1, <2>2
<1>3. ASSUME FoundInv, UNCHANGED vars PROVE FoundInv'
    BY <1>3 DEF FoundInv, vars, ownershipVars, processVars
<1>4. HeldInv /\ FoundInv /\ [Next]_vars => FoundInv'
    BY <1>2, <1>3 DEF Next, SessionStep, ProcessStep
<1>5. FoundInv => RollbackFindsAdoption
    BY DEF FoundInv, RollbackFindsAdoption
<1>6. QED BY <1>1, <1>4, <1>5, HeldInvariance, PTL DEF Spec

-----------------------------------------------------------------------------
(* Recovery before writing. *)

(* What a process writes, or is about to, was left open by nobody but itself:
   a session it reconciled and has not committed yet, and one it forks. *)
RecoveredBy(p) ==
    /\ writable[p] \cap unfinished \subseteq live[p]
    /\ adopt[p].pc = "commit" /\ adopt[p].session \in adopting[p]
          => adopt[p].session \notin unfinished \ live[p]
    /\ task[p].pc \in {"fork", "forkWrite", "forked"}
          => task[p].session \notin writable[p] \cup adopting[p] \cup unfinished

RecoveredInv == \A p \in Processes : RecoveredBy(p)

(* A process that may start or end a run shares the tree with no other that
   has anything of it. *)
LEMMA OneAppends ==
    ASSUME TreeInv, NEW p \in Processes, NEW q \in Processes, NEW s,
           CanAppend(p, s), writable[q] \cup adopting[q] # {}
    PROVE  q = p
<1> USE TreeAssumption DEF TreeInv, TypeOK, OwnershipInv, EntryInv, PendingInv, DirInv,
        HasAuthority, IsSettled
<1>1. holder = p
    BY DEF CanAppend
<1>2. tree[q] \in {"pending", "adopting", "owned"}
    BY DEF CanAppend
<1>3. CASE tree[q] = "pending"
    BY <1>1, <1>3
<1>4. CASE tree[q] \in {"adopting", "owned"}
    BY <1>1, <1>4
<1>5. QED BY <1>2, <1>3, <1>4

(* A step of another process leaves what a process has recovered alone: it
   can only close runs, unless it starts one, and then the tree is its own. *)
LEMMA OthersRecovered ==
    ASSUME TreeInv, RecoveredInv, NEW p \in Processes, NEW q \in Processes, q # p,
           ProcessStep(p) \/ \E s \in Sessions : SessionStep(p, s)
    PROVE  RecoveredBy(q)'
<1>1. Untouched(p, q) /\ live'[q] = live[q]
    <2>1. Shape
        BY DEF TreeInv, TypeOK, Shape
    <2>2. Untouched(p, q)
        BY <2>1, OwnEntries
    <2>3. live'[q] = live[q]
        BY <2>1 DEF Shape, SessionStep, ProcessStep, AdoptStep, TaskStep, Create,
           BeginPublish, StartRun, EndRun, BeginWrite, BeginFork, DeleteChild,
           BeginDelete, FindForeign, Close, ReleaseOwnership, Crash, Reconcile,
           ReconcileFails, CommitAdoption, CommitFails, RollbackFlush, RollbackDrop,
           PublishDirectory, EndPublish, PublishFails, AssembleFork, PublishFork,
           EndFork, ForkFails, CommitDelete, AbandonDelete, processVars
    <2>4. QED BY <2>2, <2>3
<1>2. CASE \E s \in Sessions : StartRun(p, s)
    <2>1. PICK s \in Sessions : StartRun(p, s)
        BY <1>2
    <2>2. writable[q] = {} /\ adopting[q] = {}
        BY <2>1, OneAppends DEF StartRun
    <2>3. task[q].pc \notin {"fork", "forkWrite", "forked"}
        <3>1. holder = p
            BY <2>1 DEF StartRun, CanAppend, TreeInv, TypeOK, OwnershipInv, EntryInv,
               PendingInv, IsSettled
        <3>2. QED BY <3>1 DEF TreeInv, OwnershipInv, TaskInv
    <2>4. QED BY <1>1, <2>2, <2>3 DEF Untouched, RecoveredBy
<1>3. CASE ~\E s \in Sessions : StartRun(p, s)
    <2>1. unfinished' \subseteq unfinished
        BY <1>3 DEF SessionStep, ProcessStep, AdoptStep, TaskStep, Create,
           BeginPublish, EndRun, BeginWrite, BeginFork, DeleteChild,
           BeginDelete, FindForeign, Close, ReleaseOwnership, Crash, Reconcile,
           ReconcileFails, CommitAdoption, CommitFails, RollbackFlush, RollbackDrop,
           PublishDirectory, EndPublish, PublishFails, AssembleFork, PublishFork,
           EndFork, ForkFails, CommitDelete, AbandonDelete, diskVars
    <2>2. QED BY <1>1, <2>1 DEF RecoveredInv, RecoveredBy, Untouched
<1>4. QED BY <1>2, <1>3

(* A process keeps what it recovered through its own steps. *)
LEMMA OwnRecovered ==
    ASSUME TreeInv, RecoveredInv, NEW p \in Processes,
           ProcessStep(p) \/ \E s \in Sessions : SessionStep(p, s)
    PROVE  RecoveredBy(p)'
<1> USE DEF RecoveredInv, RecoveredBy, ownershipVars, processVars, diskVars
<1>1. /\ Shape /\ unfinished \subseteq onDisk /\ onDisk \subseteq born
      /\ EntryInv(p)
    BY DEF TreeInv, TypeOK, Shape, OwnershipInv
<1>2. ASSUME NEW s \in Sessions, Create(p, s) PROVE RecoveredBy(p)'
    BY <1>1, <1>2 DEF Create, Shape, EntryInv, MutationFree
<1>3. ASSUME NEW s \in Sessions, BeginPublish(p, s) PROVE RecoveredBy(p)'
    BY <1>1, <1>3 DEF BeginPublish, Shape
<1>4. ASSUME NEW s \in Sessions, StartRun(p, s) PROVE RecoveredBy(p)'
    BY <1>1, <1>4 DEF StartRun, CanAppend, SharedFree, Shape
<1>5. ASSUME NEW s \in Sessions, EndRun(p, s) PROVE RecoveredBy(p)'
    BY <1>1, <1>5 DEF EndRun, CanAppend, SharedFree, Shape
<1>6. ASSUME NEW s \in Sessions, BeginWrite(p, s) PROVE RecoveredBy(p)'
    BY <1>1, <1>6 DEF BeginWrite, MutationFree, Shape
<1>7. ASSUME NEW s \in Sessions, BeginFork(p, s) PROVE RecoveredBy(p)'
    BY <1>1, <1>7 DEF BeginFork, EntryInv, Shape
<1>8. ASSUME NEW s \in Sessions, DeleteChild(p, s) PROVE RecoveredBy(p)'
    BY <1>1, <1>8 DEF DeleteChild, Shape
<1>9. ASSUME AdoptStep(p) PROVE RecoveredBy(p)'
    BY <1>1, <1>9 DEF AdoptStep, Reconcile, ReconcileFails, CommitAdoption, CommitFails,
       RollbackFlush, RollbackDrop, NoAdoption, Shape, Adoptions
<1>10. ASSUME TaskStep(p) PROVE RecoveredBy(p)'
    <2>1. CASE CommitDelete(p)
        BY <1>1, <2>1 DEF CommitDelete, ForgetTree, EndTask, NoTask, Shape
    <2>2. CASE EndFork(p)
        BY <1>1, <2>2 DEF EndFork, EndTask, NoTask, Shape
    <2>3. CASE PublishFork(p) \/ AssembleFork(p)
        BY <1>1, <2>3 DEF PublishFork, AssembleFork, Shape, Tasks
    <2>4. CASE PublishDirectory(p) \/ EndPublish(p) \/ PublishFails(p) \/ ForkFails(p)
               \/ AbandonDelete(p)
        BY <1>1, <2>4 DEF PublishDirectory, EndPublish, PublishFails, ForkFails,
           AbandonDelete, EndTask, NoTask, Shape, Tasks
    <2>5. QED BY <1>10, <2>1, <2>2, <2>3, <2>4 DEF TaskStep
<1>11. ASSUME ReleaseOwnership(p) \/ Crash(p) PROVE RecoveredBy(p)'
    BY <1>1, <1>11 DEF ReleaseOwnership, Crash, ForgetTree, MutationFree, NoTask,
       NoAdoption, Shape
<1>12. ASSUME BeginDelete(p) \/ FindForeign(p) \/ Close(p) PROVE RecoveredBy(p)'
    BY <1>1, <1>12 DEF BeginDelete, FindForeign, Close, Shape
<1>13. QED BY <1>2, <1>3, <1>4, <1>5, <1>6, <1>7, <1>8, <1>9, <1>10, <1>11, <1>12
              DEF SessionStep, ProcessStep

(* A session is written only once what its last owner left open is closed:
   ensure_session_owned commits an adoption after reconcile_session, and no
   other process can open a run in between, since the lock is held throughout.
   A process starts runs of its own only in sessions it created, forked or
   recovered. *)
THEOREM RecoveredBeforeWriting ==
    ASSUME Orderly
    PROVE  Spec => []RecoveredBeforeWritten
<1>1. ASSUME Init PROVE RecoveredInv
    BY <1>1 DEF Init, RecoveredInv, RecoveredBy, NoAdoption, NoTask
<1>2. ASSUME TreeInv, RecoveredInv, NEW p \in Processes,
             ProcessStep(p) \/ \E s \in Sessions : SessionStep(p, s)
      PROVE  RecoveredInv'
    BY <1>2, OthersRecovered, OwnRecovered DEF RecoveredInv
<1>3. ASSUME RecoveredInv, UNCHANGED vars PROVE RecoveredInv'
    BY <1>3 DEF RecoveredInv, RecoveredBy, vars, ownershipVars, processVars, diskVars
<1>4. TreeInv /\ RecoveredInv /\ [Next]_vars => RecoveredInv'
    BY <1>2, <1>3 DEF Next, SessionStep, ProcessStep
<1>5. RecoveredInv => RecoveredBeforeWritten
    BY DEF RecoveredInv, RecoveredBy, RecoveredBeforeWritten
<1>6. Spec => []TreeInv
    BY Invariance
<1>7. QED BY <1>1, <1>4, <1>5, <1>6, PTL DEF Spec

=============================================================================
