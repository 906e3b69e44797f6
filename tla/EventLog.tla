------------------------------ MODULE EventLog ------------------------------
(***************************************************************************)
(* The event log of one session: crates/engine_store.                      *)
(*                                                                         *)
(* A record is written under the session's slot and synced outside every   *)
(* lock, by whichever thread finds no sync in flight                       *)
(* (events/durability.rs); a commit point is acknowledged and published    *)
(* only after a sync that covers it (session/mod.rs,                       *)
(* session/publication.rs).  Values too large for a line go to blobs, which *)
(* the sync that covers the record makes durable before the log.  A fork   *)
(* closes the writer while other threads may be syncing; a revert cuts the *)
(* file.  The process or the machine may crash between any two steps.      *)
(*                                                                         *)
(* Records are identified by the number durability.rs gives them (Commit): *)
(* it grows with every write and is never reused, so a log is the SET of   *)
(* the numbers in it and its order is the order of the numbers.  Record 0  *)
(* is SessionCreated, which is on disk before the log is ever appended to. *)
(* The code restarts the numbers when it reopens a log; the model lets     *)
(* them go on, and "base" is where the code's zero is.                     *)
(***************************************************************************)
EXTENDS Naturals, Sequences, FiniteSets

CONSTANTS
    Appenders,   \* threads that append, sync, and revert
    Closers,     \* threads that close the writer (forks, release)
    Nobody,      \* who holds the slot when no thread does
    Blobs,       \* contents large enough to be stored beside the log
    MaxRecords,  \* bound: records ever written
    Reverts,     \* whether the session is ever reverted
    Faults,      \* the I/O that may fail, see below
    Crashes      \* the crashes that may happen: "process", "machine"

(* "write": a write fails and leaves the file as it was; "torn": it fails
   with part of the record in the file; "sync": a sync of blobs or of the log
   fails; "cut": a revert fails with the file as it was; "halfcut": it fails
   after the file was cut; "cache": the metadata cache cannot be written. *)
AllFaults == {"write", "torn", "sync", "cut", "halfcut", "cache"}

ASSUME ConstantsAssumption ==
    /\ Appenders \cap Closers = {}
    /\ Nobody \notin Appenders \cup Closers
    /\ MaxRecords \in Nat
    /\ Reverts \in BOOLEAN
    /\ Faults \subseteq AllFaults
    /\ Crashes \subseteq {"process", "machine"}

Threads == Appenders \cup Closers

VARIABLES
    \* Durability's State (events/durability.rs)
    written,      \* records written so far
    synced,       \* `written' when the last successful sync started
    settled,      \* `written' when the last sync, successful or not, started
    syncing,      \* a sync_through is in flight
    dupFd,        \* the duplicate descriptor syncs run on is held
    blobs,        \* blobs to sync before the log
    syncedBlobs,  \* blobs a sync of this log covered
    \* EventLog and SessionStore
    writer,       \* the append handle is open
    mem,          \* the records in memory
    slot,         \* the thread holding the session's slot, or Nobody
    pc,           \* where each thread is
    op,           \* what each thread is doing
    owed,         \* records a thread appended without waiting for their sync
    \* Publications (session/publication.rs)
    queue,        \* records not yet published, oldest first
    tail,         \* what a live tail opened at the last open received
    \* The files, as the operating system keeps them
    file,         \* the readable records in the log file
    torn,         \* the file ends in part of a record
    flushed,      \* records up to this number are on disk
    blobFiles,    \* the blobs in the tree's blobs/ folder
    blobDisk,     \* the blobs on disk
    \* What the records are
    commits,      \* the commit points (syncs_on_append)
    names,        \* <<n, b>>: record n names blob b
    \* History, for the properties
    acked,        \* commit points whose append reported success
    failed,       \* the last record a failed sync covered
    base          \* records written before the log was last opened

durabilityVars == <<written, synced, settled, syncing, dupFd, blobs, syncedBlobs>>
storeVars == <<writer, mem, slot, pc, op, owed>>
publicationVars == <<queue, tail>>
fileVars == <<file, torn, flushed, blobFiles, blobDisk>>
recordVars == <<commits, names>>
historyVars == <<acked, failed, base>>
vars == <<durabilityVars, storeVars, publicationVars, fileVars, recordVars,
          historyVars>>

-----------------------------------------------------------------------------
(* What a thread does.  kind: "append" waits for its sync, "ride" appends a
   record that rides along, "defer" a commit point synced later, "sync" is
   sync_appended, "close" drops the writer.  commit is the record a
   sync_through waits for; target, taken and fd are what a sync took as it
   started; ok is how it ended.                                            *)
RecordNumber == 0 .. MaxRecords

Ops == [kind: {"none", "append", "ride", "defer", "sync", "close"},
        blobs: SUBSET Blobs, commit: RecordNumber, target: RecordNumber,
        taken: SUBSET Blobs, fd: BOOLEAN, ok: BOOLEAN]

NoOp == [kind |-> "none", blobs |-> {}, commit |-> 0, target |-> 0,
         taken |-> {}, fd |-> FALSE, ok |-> FALSE]

Steps == {"idle", "write", "queue", "check", "wait", "blobs", "file", "end",
          "publish"}

FlagsOK ==
    /\ syncing \in BOOLEAN /\ dupFd \in BOOLEAN
    /\ writer \in BOOLEAN /\ torn \in BOOLEAN

NumbersOK ==
    /\ written \in RecordNumber
    /\ synced \in RecordNumber /\ settled \in RecordNumber
    /\ flushed \in RecordNumber
    /\ failed \in RecordNumber /\ base \in RecordNumber

SetsOK ==
    /\ mem \subseteq RecordNumber /\ file \subseteq RecordNumber
    /\ commits \subseteq RecordNumber /\ acked \subseteq RecordNumber
    /\ names \subseteq RecordNumber \X Blobs
    /\ blobs \subseteq Blobs /\ syncedBlobs \subseteq Blobs
    /\ blobFiles \subseteq Blobs /\ blobDisk \subseteq Blobs

SequencesOK == queue \in Seq(RecordNumber) /\ tail \in Seq(RecordNumber)

ThreadsOK ==
    /\ slot \in Threads \cup {Nobody}
    /\ pc \in [Threads -> Steps]
    /\ op \in [Threads -> Ops]
    /\ owed \in [Threads -> SUBSET RecordNumber]

(* Every variable has its type; the numbers stay within the records written:
   two threads never write one after the other's check of the bound. *)
TypeOK == FlagsOK /\ NumbersOK /\ SetsOK /\ SequencesOK /\ ThreadsOK

Init ==
    /\ written = 0 /\ synced = 0 /\ settled = 0
    /\ syncing = FALSE /\ dupFd = FALSE
    /\ blobs = {} /\ syncedBlobs = {}
    /\ writer = FALSE /\ mem = {0} /\ slot = Nobody
    /\ pc = [t \in Threads |-> "idle"]
    /\ op = [t \in Threads |-> NoOp]
    /\ owed = [t \in Threads |-> {}]
    /\ queue = <<>> /\ tail = <<>>
    /\ file = {0} /\ torn = FALSE /\ flushed = 0
    /\ blobFiles = {} /\ blobDisk = {}
    /\ commits = {0} /\ names = {}
    /\ acked = {0} /\ failed = 0 /\ base = 0

MaxOf(m, n) == IF m >= n THEN m ELSE n

Elements(s) == {s[i] : i \in 1 .. Len(s)}

NamedBy(n) == {b \in Blobs : <<n, b>> \in names}

-----------------------------------------------------------------------------
(* Publication. *)

(* Mutant: a record counts as settled once it is written. *)
MutantReadyWhenWritten(n, limit) == n \in commits => n <= written

(* A record that rides along is ready at once; a commit point once a sync
   covering it ended, successfully or not (Pending::ready). *)
Ready(n, limit) == n \in commits => n <= limit

(* The number of records at the front of q that one pass of publish_ready
   publishes: the queue's lock is held for the whole pass. *)
ReadyPrefix(q, limit) ==
    Cardinality({i \in 1 .. Len(q) : \A j \in 1 .. i : Ready(q[j], limit)})

(* Mutant: a pass publishes past a commit point that still waits. *)
MutantPublishPastWaiting(q, limit) ==
    /\ tail' = tail \o SelectSeq(q, LAMBDA n : Ready(n, limit))
    /\ queue' = SelectSeq(q, LAMBDA n : ~Ready(n, limit))

PublishReady(q, limit) ==
    LET k == ReadyPrefix(q, limit)
    IN  /\ tail' = tail \o SubSeq(q, 1, k)
        /\ queue' = SubSeq(q, k + 1, Len(q))

(* Mutant: a failed sync does not publish what it settled. *)
MutantPublishOnlySuccess(t) ==
    IF op[t].ok THEN PublishReady(queue, settled) ELSE UNCHANGED <<queue, tail>>

(* publish_settled after a sync, whether or not the sync succeeded. *)
PublishSettled(t) == PublishReady(queue, settled)

-----------------------------------------------------------------------------
(* Appending. *)

(* write_blobs stores the values a record names; names_blobs registers the
   ones its sync has to cover: those just stored, and those no sync of this
   log covered. *)
NamesBlobs(bs) ==
    LET stored == bs \ blobFiles
    IN  /\ blobFiles' = blobFiles \cup bs
        /\ blobs' = blobs \cup stored \cup (bs \ syncedBlobs)
        /\ syncedBlobs' = syncedBlobs \ stored

(* write_event takes the slot.  Only tool call starts are deferred: several
   in a row, then their sync, and none of them has a value that moves to a
   blob (blobs::may_move). *)
BeginAppend(t, kind, bs) ==
    /\ pc[t] = "idle" /\ slot = Nobody
    /\ written < MaxRecords
    /\ owed[t] # {} => kind = "defer"
    /\ kind = "defer" => bs = {}
    /\ slot' = t
    /\ NamesBlobs(bs)
    /\ pc' = [pc EXCEPT ![t] = "write"]
    /\ op' = [op EXCEPT ![t] = [NoOp EXCEPT !.kind = kind, !.blobs = bs]]
    /\ UNCHANGED <<written, synced, settled, syncing, dupFd, writer, mem,
                   owed, publicationVars, file, torn, flushed, blobDisk,
                   recordVars, historyVars>>

(* A blob cannot be stored: write_blobs returns before it registers any, and
   the ones stored before it stay in the folder. *)
StoreFails(t, bs) ==
    /\ pc[t] = "idle" /\ slot = Nobody
    /\ "write" \in Faults
    /\ blobFiles' = blobFiles \cup bs
    /\ UNCHANGED <<durabilityVars, storeVars, publicationVars, file, torn,
                   flushed, blobDisk, recordVars, historyVars>>

(* The writer is opened if it is closed; Durability keeps a duplicate of its
   descriptor (attach). *)
OpenWriter == writer' = TRUE /\ dupFd' = (dupFd \/ ~writer)

(* write_record opens the writer, writes the line and counts it; append_inner
   adds the record to memory.  Behind part of an earlier record the line is
   not readable. *)
WriteRecord(t) ==
    LET n == written + 1
    IN  /\ pc[t] = "write"
        /\ OpenWriter
        /\ written' = n
        /\ file' = IF torn THEN file ELSE file \cup {n}
        /\ torn' = FALSE
        /\ mem' = mem \cup {n}
        /\ commits' = IF op[t].kind = "ride" THEN commits ELSE commits \cup {n}
        /\ names' = names \cup ({n} \X op[t].blobs)
        /\ op' = [op EXCEPT ![t].commit = n]
        /\ pc' = [pc EXCEPT ![t] = "queue"]
        /\ UNCHANGED <<synced, settled, syncing, blobs, syncedBlobs, slot, owed,
                       publicationVars, flushed, blobFiles, blobDisk,
                       historyVars>>

(* The writer cannot be opened, or the write fails, perhaps after part of the
   record reached the file: the append ends with the error, memory and the
   next sequence as they were. *)
WriteFails(t) ==
    /\ pc[t] = "write"
    /\ \/ /\ "write" \in Faults /\ ~writer
          /\ UNCHANGED <<writer, dupFd, torn>>
       \/ /\ OpenWriter
          /\ \/ "write" \in Faults /\ torn' = torn
             \/ "torn" \in Faults /\ torn' = TRUE
    /\ slot' = Nobody
    /\ pc' = [pc EXCEPT ![t] = "idle"]
    /\ op' = [op EXCEPT ![t] = NoOp]
    /\ UNCHANGED <<written, synced, settled, syncing, blobs, syncedBlobs, mem,
                   owed, publicationVars, file, flushed, blobFiles, blobDisk,
                   recordVars, historyVars>>

(* write_event queues the publication under the slot and releases it.  A
   record that rides along returns; a deferred commit point returns too, and
   its caller owes a sync_appended; the others go on to sync_through. *)
QueuePublication(t) ==
    LET n == op[t].commit
    IN  /\ pc[t] = "queue"
        /\ PublishReady(Append(queue, n), settled)
        /\ slot' = Nobody
        /\ owed' = IF op[t].kind = "defer"
                   THEN [owed EXCEPT ![t] = @ \cup {n}] ELSE owed
        /\ IF op[t].kind = "append"
           THEN pc' = [pc EXCEPT ![t] = "check"] /\ op' = op
           ELSE pc' = [pc EXCEPT ![t] = "idle"] /\ op' = [op EXCEPT ![t] = NoOp]
        /\ UNCHANGED <<durabilityVars, writer, mem, fileVars, recordVars,
                       historyVars>>

(* The record is written, but refresh_meta_cache fails: write_event returns
   the error before it queues the publication. *)
CacheFails(t) ==
    /\ pc[t] = "queue" /\ "cache" \in Faults
    /\ slot' = Nobody
    /\ pc' = [pc EXCEPT ![t] = "idle"]
    /\ op' = [op EXCEPT ![t] = NoOp]
    /\ UNCHANGED <<durabilityVars, writer, mem, owed, publicationVars, fileVars,
                   recordVars, historyVars>>

(* sync_appended: the run that deferred its tool call starts syncs them
   before any of the tools runs. *)
SyncAppended(t) ==
    /\ pc[t] = "idle" /\ owed[t] # {}
    /\ op' = [op EXCEPT ![t] = [NoOp EXCEPT !.kind = "sync", !.commit = written]]
    /\ pc' = [pc EXCEPT ![t] = "check"]
    /\ UNCHANGED <<durabilityVars, writer, mem, slot, owed, publicationVars,
                   fileVars, recordVars, historyVars>>

-----------------------------------------------------------------------------
(* Syncing: the loop of sync_through, one action per hold of the state's
   lock and one per system call made without it. *)

(* Mutant: a sync that ended covers the commit, even if it failed. *)
MutantCoveredWhenSettled(t) ==
    /\ pc[t] = "check" /\ settled >= op[t].commit
    /\ pc' = [pc EXCEPT ![t] = "publish"]
    /\ op' = [op EXCEPT ![t].ok = TRUE]
    /\ UNCHANGED <<durabilityVars, writer, mem, slot, owed, publicationVars,
                   fileVars, recordVars, historyVars>>

Covered(t) ==
    /\ pc[t] = "check" /\ synced >= op[t].commit
    /\ pc' = [pc EXCEPT ![t] = "publish"]
    /\ op' = [op EXCEPT ![t].ok = TRUE]
    /\ UNCHANGED <<durabilityVars, writer, mem, slot, owed, publicationVars,
                   fileVars, recordVars, historyVars>>

WaitForSync(t) ==
    /\ pc[t] = "check" /\ synced < op[t].commit /\ syncing
    /\ pc' = [pc EXCEPT ![t] = "wait"]
    /\ UNCHANGED <<durabilityVars, writer, mem, slot, op, owed, publicationVars,
                   fileVars, recordVars, historyVars>>

(* Mutant: the sync counts a record that is not written yet. *)
MutantTargetAhead == written + 1

(* What a sync that starts now covers. *)
Target == written

StartSync(t) ==
    /\ pc[t] = "check" /\ synced < op[t].commit /\ ~syncing
    /\ syncing' = TRUE
    /\ blobs' = {}
    /\ op' = [op EXCEPT ![t].target = Target, ![t].taken = blobs,
                        ![t].fd = dupFd]
    /\ pc' = [pc EXCEPT ![t] = "blobs"]
    /\ UNCHANGED <<written, synced, settled, dupFd, syncedBlobs, writer, mem,
                   slot, owed, publicationVars, fileVars, recordVars,
                   historyVars>>

(* Blobs::sync: each blob, then their folder. *)
SyncBlobs(t) ==
    /\ pc[t] = "blobs"
    /\ blobDisk' = blobDisk \cup (op[t].taken \cap blobFiles)
    /\ pc' = [pc EXCEPT ![t] = "file"]
    /\ UNCHANGED <<durabilityVars, writer, mem, slot, op, owed, publicationVars,
                   file, torn, flushed, blobFiles, recordVars, historyVars>>

(* Mutant: the log is synced before the blobs its records name. *)
MutantFileBeforeBlobs(t) ==
    /\ pc[t] \in {"blobs", "file"}
    /\ flushed' = IF op[t].fd THEN MaxOf(flushed, op[t].target) ELSE flushed
    /\ op' = [op EXCEPT ![t].ok = TRUE]
    /\ pc' = [pc EXCEPT ![t] = "end"]
    /\ UNCHANGED <<durabilityVars, writer, mem, slot, owed, publicationVars,
                   file, torn, blobFiles, blobDisk, recordVars, historyVars>>

(* fdatasync, which makes at least the records written before the sync
   started durable; without a descriptor there is nothing to call. *)
SyncFile(t) ==
    /\ pc[t] = "file"
    /\ flushed' = IF op[t].fd THEN MaxOf(flushed, op[t].target) ELSE flushed
    /\ op' = [op EXCEPT ![t].ok = TRUE]
    /\ pc' = [pc EXCEPT ![t] = "end"]
    /\ UNCHANGED <<durabilityVars, writer, mem, slot, owed, publicationVars,
                   file, torn, blobFiles, blobDisk, recordVars, historyVars>>

(* Any of the calls of one sync fails; nothing more of it is durable. *)
SyncFails(t) ==
    /\ pc[t] \in {"blobs", "file"} /\ "sync" \in Faults
    /\ op' = [op EXCEPT ![t].ok = FALSE]
    /\ pc' = [pc EXCEPT ![t] = "end"]
    /\ UNCHANGED <<durabilityVars, writer, mem, slot, owed, publicationVars,
                   fileVars, recordVars, historyVars>>

(* Mutant: the end of a sync wakes nobody. *)
MutantNobodyWoken == pc

(* notify_all *)
Woken == [u \in Threads |-> IF pc[u] = "wait" THEN "check" ELSE pc[u]]

(* Mutant: a failed sync forgets the blobs it took. *)
MutantForgotten(taken) == blobs

(* Blobs::restore: a failed sync leaves the blobs it took for the next one. *)
Restored(taken) == blobs \cup taken

(* The sync ended: what it took is covered, or left for the next sync.  The
   thread that ran it checks again, or takes the error. *)
EndSync(t) ==
    /\ pc[t] = "end" /\ t \in Appenders
    /\ syncing' = FALSE
    /\ settled' = MaxOf(settled, op[t].target)
    /\ IF op[t].ok
       THEN /\ synced' = MaxOf(synced, op[t].target)
            /\ syncedBlobs' = syncedBlobs \cup op[t].taken
            /\ UNCHANGED <<blobs, failed>>
            /\ pc' = [Woken EXCEPT ![t] = "check"]
       ELSE /\ blobs' = Restored(op[t].taken)
            /\ failed' = MaxOf(failed, op[t].target)
            /\ UNCHANGED <<synced, syncedBlobs>>
            /\ pc' = [Woken EXCEPT ![t] = "publish"]
    /\ op' = [op EXCEPT ![t].ok = FALSE, ![t].taken = {}, ![t].target = 0,
                        ![t].fd = FALSE]
    /\ UNCHANGED <<written, dupFd, writer, mem, slot, owed, publicationVars,
                   fileVars, recordVars, acked, base>>

(* Then the append (or sync_appended) returns its result. *)
Return(t) ==
    /\ pc[t] = "publish"
    /\ PublishSettled(t)
    /\ acked' = IF ~op[t].ok THEN acked
                ELSE acked \cup (IF op[t].kind = "sync" THEN owed[t]
                                 ELSE {op[t].commit})
    /\ owed' = IF op[t].kind = "sync" THEN [owed EXCEPT ![t] = {}] ELSE owed
    /\ pc' = [pc EXCEPT ![t] = "idle"]
    /\ op' = [op EXCEPT ![t] = NoOp]
    /\ UNCHANGED <<durabilityVars, writer, mem, slot, fileVars, recordVars,
                   failed, base>>

-----------------------------------------------------------------------------
(* Closing the writer: suspend_writer, then Durability::close.  A fork
   excludes appends (the store's exclusive mutation lock, here the slot) but
   not the syncs, which hold no lock. *)

SuspendWriter(t) ==
    /\ pc[t] = "idle" /\ slot = Nobody /\ writer
    /\ writer' = FALSE
    /\ IF synced >= written
       THEN /\ dupFd' = FALSE
            /\ UNCHANGED <<slot, blobs, pc, op>>
       ELSE /\ slot' = t
            /\ blobs' = {}
            /\ op' = [op EXCEPT ![t] = [NoOp EXCEPT !.kind = "close",
                                        !.target = Target, !.taken = blobs,
                                        !.fd = TRUE]]
            /\ pc' = [pc EXCEPT ![t] = "blobs"]
            /\ UNCHANGED dupFd
    /\ UNCHANGED <<written, synced, settled, syncing, syncedBlobs, mem, owed,
                   publicationVars, fileVars, recordVars, historyVars>>

EndClose(t) ==
    /\ pc[t] = "end" /\ t \in Closers
    /\ IF op[t].ok
       THEN /\ synced' = MaxOf(synced, op[t].target)
            /\ settled' = MaxOf(settled, op[t].target)
            /\ syncedBlobs' = syncedBlobs \cup op[t].taken
            /\ dupFd' = (dupFd /\ synced' < written)
            /\ UNCHANGED blobs
       ELSE /\ blobs' = Restored(op[t].taken)
            /\ UNCHANGED <<synced, settled, syncedBlobs, dupFd>>
    /\ slot' = Nobody
    /\ pc' = [Woken EXCEPT ![t] = "idle"]
    /\ op' = [op EXCEPT ![t] = NoOp]
    /\ UNCHANGED <<written, syncing, writer, mem, owed, publicationVars,
                   fileVars, recordVars, historyVars>>

-----------------------------------------------------------------------------
(* Reverting.  The engine reverts on the session's actor and only while no
   run is active, so no append and no sync of the session is under way. *)

NoRunActive(t) ==
    \A u \in Appenders : owed[u] = {} /\ (u # t => pc[u] = "idle")

(* Mutant: the cut drops the record it should keep. *)
MutantThroughBefore(S, c) == {n \in S : n < c}

(* What a cut after record c keeps. *)
Through(S, c) == {n \in S : n <= c}
ThroughSeq(s, c) == SubSeq(s, 1, Cardinality({i \in 1 .. Len(s) : s[i] <= c}))

(* truncate: truncate_after closes the writer, cuts the file after record c
   and syncs it (which makes everything kept durable, its blobs included),
   cuts memory; then the revert is published behind everything queued, unless
   the metadata cache cannot be written. *)
Truncate(t, c) ==
    /\ pc[t] = "idle" /\ slot = Nobody /\ NoRunActive(t)
    /\ c \in mem /\ \E n \in mem : n > c
    /\ writer' = FALSE
    /\ \/ dupFd' = (dupFd /\ ~writer)
       \/ "sync" \in Faults /\ synced < written /\ dupFd' = dupFd
    /\ file' = Through(file, c)
    /\ mem' = Through(mem, c)
    /\ torn' = FALSE
    /\ synced' = written /\ settled' = written /\ flushed' = written
    /\ blobDisk' = blobDisk \cup (blobs \cap blobFiles)
    /\ syncedBlobs' = syncedBlobs \cup blobs
    /\ blobs' = {}
    /\ \/ tail' = ThroughSeq(tail \o queue, c) /\ queue' = <<>>
       \/ "cache" \in Faults /\ UNCHANGED publicationVars
    /\ acked' = Through(acked, c)
    /\ UNCHANGED <<written, syncing, slot, pc, op, owed, blobFiles, recordVars,
                   failed, base>>

(* The cut fails, perhaps only in its sync, after the file is shorter:
   truncate_after returns the error before it cuts memory.  The writer was
   closed before, and synced what no sync had covered, or failed to. *)
TruncateFails(t, c) ==
    /\ pc[t] = "idle" /\ slot = Nobody /\ NoRunActive(t)
    /\ c \in mem /\ \E n \in mem : n > c
    /\ writer' = FALSE
    /\ \/ "cut" \in Faults /\ UNCHANGED <<file, torn>>
       \/ "halfcut" \in Faults /\ file' = Through(file, c) /\ torn' = FALSE
    /\ \/ /\ writer /\ synced < written
          /\ synced' = written /\ settled' = written
          /\ flushed' = written /\ dupFd' = FALSE
          /\ blobDisk' = blobDisk \cup (blobs \cap blobFiles)
          /\ syncedBlobs' = syncedBlobs \cup blobs
          /\ blobs' = {}
       \/ /\ writer => synced >= written \/ "sync" \in Faults
          /\ dupFd' = (dupFd /\ (writer => synced < written))
          /\ UNCHANGED <<synced, settled, flushed, blobDisk, syncedBlobs, blobs>>
    /\ UNCHANGED <<written, syncing, mem, slot, pc, op, owed, publicationVars,
                   blobFiles, recordVars, historyVars>>

-----------------------------------------------------------------------------
(* Crashing and opening the log again.  A record whose blob is missing is
   left out of memory; every count of Durability starts over. *)

Reopen(records, present) ==
    /\ mem' = {n \in records : NamedBy(n) \subseteq present}
    /\ file' = records
    /\ torn' = FALSE
    /\ blobFiles' = present
    /\ base' = written
    /\ synced' = written /\ settled' = written
    /\ syncing' = FALSE /\ dupFd' = FALSE
    /\ blobs' = {} /\ syncedBlobs' = {}
    /\ writer' = FALSE /\ slot' = Nobody
    /\ pc' = [t \in Threads |-> "idle"]
    /\ op' = [t \in Threads |-> NoOp]
    /\ owed' = [t \in Threads |-> {}]
    /\ queue' = <<>> /\ tail' = <<>>
    /\ UNCHANGED <<written, recordVars, acked, failed>>

(* The daemon dies: what it wrote is in the page cache. *)
ProcessCrash ==
    /\ "process" \in Crashes
    /\ Reopen(file, blobFiles)
    /\ UNCHANGED <<flushed, blobDisk>>

(* The machine dies: of what no sync covered, any part may be on disk, and
   the loader skips a damaged line and reads on. *)
MachineCrash ==
    /\ "machine" \in Crashes
    /\ \E lost \in SUBSET {n \in file : n > flushed},
          gone \in SUBSET (blobFiles \ blobDisk) :
        /\ Reopen(file \ lost, blobFiles \ gone)
        /\ blobDisk' = blobFiles \ gone
    /\ flushed' = written

-----------------------------------------------------------------------------
Kinds == {"append", "ride", "defer"}

(* One thread inside an operation it began. *)
Step(t) ==
    \/ WriteRecord(t) \/ WriteFails(t) \/ QueuePublication(t) \/ CacheFails(t)
    \/ Covered(t) \/ WaitForSync(t) \/ StartSync(t)
    \/ SyncBlobs(t) \/ SyncFile(t) \/ SyncFails(t)
    \/ EndSync(t) \/ Return(t) \/ EndClose(t)

Next ==
    \/ \E t \in Appenders :
        \/ \E kind \in Kinds, bs \in SUBSET Blobs : BeginAppend(t, kind, bs)
        \/ \E bs \in SUBSET Blobs : StoreFails(t, bs)
        \/ SyncAppended(t)
        \/ Reverts /\ \E c \in mem : Truncate(t, c) \/ TruncateFails(t, c)
    \/ \E t \in Closers : SuspendWriter(t)
    \/ \E t \in Threads : Step(t)
    \/ ProcessCrash
    \/ MachineCrash

Spec == Init /\ [][Next]_vars

(* Every thread inside a call goes on with it, and the run that deferred a
   sync asks for it: model_loop.rs does after the last tool call start of the
   turn or the first one that fails (strong fairness: it may still append
   starts meanwhile, but a turn has finitely many). *)
Fairness ==
    /\ \A t \in Threads : WF_vars(Step(t))
    /\ \A t \in Appenders : SF_vars(SyncAppended(t))

FairSpec == Spec /\ Fairness

-----------------------------------------------------------------------------
(* Properties. *)

(* An append that reported success keeps its promise: its record is in the
   log, readable, whatever crashed since (store-locks-and-durability.md,
   section 3, rule 2: commit points sync before they take effect).  Only a
   revert that succeeded removes it. *)
AckedSurvives == acked \subseteq mem

(* The same promise for the line alone, without the values it moved to
   blobs: it is in the file and a sync covered it. *)
AckedDurable == \A n \in acked : n \in file /\ n <= flushed

(* The log keeps the promise of CommitLog: what threads, syncs, reverts and
   crashes do to it is a sequence of appends, acknowledgements, reverts, and
   crashes that drop nothing acknowledged. *)
Promise == INSTANCE CommitLog WITH log <- mem, lost <- file \ mem,
                                   next <- written + 1
ImplementsCommitLog == Promise!Spec

(* A blob is durable before the record that names it counts as synced
   (durability.rs, State::blobs): "a synced record never names a blob a crash
   could lose". *)
SyncedKeepsBlobs ==
    \A n \in mem : n <= flushed => NamedBy(n) \subseteq blobDisk

(* A live tail sees a session's records in append order, each once, without
   a hole, and nothing a revert removed (publication.rs: "so a session's
   publications queue in append order"), whichever thread publishes them. *)
TailIsAPrefix ==
    /\ \A i, j \in DOMAIN tail : i < j => tail[i] < tail[j]
    /\ Elements(tail) \subseteq mem
    /\ \A n \in Elements(tail), m \in mem :
          base < m /\ m < n => m \in Elements(tail)

(* A commit point reaches a tail only once it is on disk, or once a sync
   covering it failed, which its caller was told of (publication.rs: "each
   commit point only after its sync"). *)
PublishedAfterSync ==
    \A n \in Elements(tail) : n \in commits => n <= flushed \/ n <= failed

(* Every append, sync_appended and close returns: no wakeup of sync_through's
   condition variable is lost, and a failed sync strands no waiter. *)
CallsReturn == \A t \in Threads : pc[t] # "idle" ~> pc[t] = "idle"

(* No record stays queued: one that waits for a sync is published by whoever
   ends that sync or by a later pass, although closing the writer settles
   records without publishing them. *)
QueueDrains ==
    \A n \in 1 .. MaxRecords : n \in Elements(queue) ~> n \notin Elements(queue)

-----------------------------------------------------------------------------
(* Inductive invariants of the log, for EventLog_proofs; what its other proofs
   add is stated there and in EventLogTail_proofs. *)

(* The slot excludes: whoever writes or queues a record, or closes the
   writer, holds it, so the bound an append checked still holds as it writes. *)
SlotInv ==
    \A t \in Threads :
        /\ pc[t] \in {"write", "queue"} => slot = t
        /\ pc[t] = "write" => written < MaxRecords
        /\ t \in Closers => pc[t] \in {"idle", "blobs", "file", "end"}
        /\ t \in Closers /\ pc[t] # "idle" => slot = t

(* What Durability counts as synced is on disk, except for what the log was
   opened with, which no append of this process waits for; a sync that is
   needed has a descriptor to run on; and what a thread waits for was written
   since the log was opened and is still in the file. *)
CountsInv ==
    /\ synced <= written /\ flushed <= written /\ base <= written
    /\ synced <= base \/ synced <= flushed
    /\ writer => dupFd
    /\ synced < written => dupFd

InFlight == {"check", "wait", "blobs", "file", "end", "publish"}

ThreadInv(t) ==
    /\ op[t].target <= written
    /\ t \in Closers /\ pc[t] # "idle" => ~writer
    /\ pc[t] \in {"blobs", "file"} => op[t].fd
    /\ pc[t] = "end" /\ op[t].ok => op[t].target <= flushed
    /\ pc[t] = "publish" /\ op[t].ok => op[t].commit <= flushed
    /\ pc[t] = "queue" => /\ op[t].commit \in file
                          /\ base < op[t].commit /\ op[t].commit <= written
    /\ t \in Appenders =>
          \A n \in owed[t] : n \in file /\ base < n /\ n <= written
    /\ t \in Appenders /\ pc[t] \in InFlight =>
          /\ base < op[t].commit /\ op[t].commit <= written
          /\ \/ op[t].kind = "append" /\ op[t].commit \in file
             \/ op[t].kind = "sync" /\ \A n \in owed[t] : n <= op[t].commit

SyncInv == ~torn /\ CountsInv /\ AckedDurable /\ \A t \in Threads : ThreadInv(t)
=============================================================================
