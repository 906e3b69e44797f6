------------------------- MODULE EventLogTail_proofs -------------------------
(***************************************************************************)
(* What a live tail of a session receives (session/publication.rs), for    *)
(* any threads, bounds and blobs: a commit point only once its sync ended  *)
(* (CommitPointsAfterSync), and the records in append order, each once,    *)
(* without a hole and without a reverted one (TailsSeeAPrefix).            *)
(***************************************************************************)
EXTENDS EventLog_proofs

-----------------------------------------------------------------------------
(* Cutting a sequence by counting. *)

(* A set of positions that holds every position before one of its own is the
   first so many of them. *)
LEMMA InitialPositions ==
    ASSUME NEW n \in Nat, NEW P \in SUBSET (1 .. n),
           \A i \in P : \A j \in 1 .. i : j \in P
    PROVE  Cardinality(P) \in 0 .. n /\ P = 1 .. Cardinality(P)
<1> DEFINE k == Cardinality(P)
<1>1. k \in 0 .. n
  BY PositionsBound
<1>2. IsFiniteSet(P)
  <2>1. IsFiniteSet(1 .. n)
    BY FS_Interval
  <2> QED
    BY <2>1, FS_Subset
<1>3. ASSUME NEW i \in P PROVE i \in 1 .. k
  <2>1. 1 .. i \in SUBSET P /\ i \in Nat \ {0}
    OBVIOUS
  <2>2. Cardinality(1 .. i) = i
    BY <2>1, FS_Interval
  <2>3. Cardinality(1 .. i) <= k
    BY <2>1, <1>2, FS_Subset
  <2> QED
    BY <2>1, <2>2, <2>3, <1>1
<1>4. IsFiniteSet(1 .. k) /\ Cardinality(1 .. k) = k
  BY <1>1, FS_Interval
<1>5. P \in SUBSET (1 .. k)
  BY <1>3
<1>6. 1 .. k = P
  BY <1>4, <1>5, FS_Subset
<1> QED
  BY <1>1, <1>6

(* publish_ready's cut is a cut: what it publishes and what it leaves make up
   the queue, and it publishes only what is ready. *)
LEMMA ReadyCut ==
    ASSUME NEW S, NEW q \in Seq(S), NEW limit
    PROVE  LET k == ReadyPrefix(q, limit)
           IN  /\ k \in 0 .. Len(q)
               /\ \A i \in 1 .. k : Ready(q[i], limit)
<1> DEFINE P == {i \in 1 .. Len(q) : \A j \in 1 .. i : Ready(q[j], limit)}
<1>1. Len(q) \in Nat /\ P \in SUBSET (1 .. Len(q))
  OBVIOUS
<1>2. \A i \in P : \A j \in 1 .. i : j \in P
  OBVIOUS
<1> HIDE DEF P
<1>3. Cardinality(P) \in 0 .. Len(q) /\ P = 1 .. Cardinality(P)
  BY <1>1, <1>2, InitialPositions
<1>4. \A i \in P : Ready(q[i], limit)
  BY DEF P
<1>5. ReadyPrefix(q, limit) = Cardinality(P)
  BY DEF P, ReadyPrefix
<1> QED
  BY <1>3, <1>4, <1>5

(* So a pass leaves what was announced, published or queued, as it was. *)
LEMMA PassKeepsAnnounced ==
    ASSUME NEW S, tail \in Seq(S), NEW q \in Seq(S), NEW limit,
           PublishReady(q, limit)
    PROVE  /\ tail' \in Seq(S) /\ queue' \in Seq(S)
           /\ tail' \o queue' = tail \o q
           /\ Elements(queue') \subseteq Elements(q)
           /\ \A n \in Elements(tail') :
                 n \in Elements(tail) \/ (n \in Elements(q) /\ Ready(n, limit))
<1> DEFINE k == ReadyPrefix(q, limit)
           front == SubSeq(q, 1, k)
           rest == SubSeq(q, k + 1, Len(q))
<1>1. k \in 0 .. Len(q) /\ (\A i \in 1 .. k : Ready(q[i], limit)) /\ Len(q) \in Nat
  BY ReadyCut
<1>2. tail' = tail \o front /\ queue' = rest
  BY DEF PublishReady
<1> HIDE DEF k
<1>3. \A i \in 1 .. Len(q) : q[i] \in S
  OBVIOUS
<1>4. /\ front \in Seq(S) /\ Len(front) = k
      /\ \A i \in 1 .. k : front[i] = q[i]
  BY <1>1, <1>3, SubSeqProperties
<1>5. /\ rest \in Seq(S) /\ Len(rest) = Len(q) - k
      /\ \A i \in 1 .. Len(q) - k : rest[i] = q[k + i]
  BY <1>1, <1>3, SubSeqProperties
<1> HIDE DEF front, rest
<1>6. front \o rest = q
  <2>1. /\ front \o rest \in Seq(S) /\ Len(front \o rest) = Len(q)
        /\ \A i \in 1 .. Len(q) : (front \o rest)[i] =
              IF i <= k THEN front[i] ELSE rest[i - k]
    BY <1>1, <1>4, <1>5, ConcatProperties
  <2>2. ASSUME NEW i \in 1 .. Len(q) PROVE (front \o rest)[i] = q[i]
    <3>1. CASE i <= k
      BY <2>1, <1>1, <1>4, <3>1
    <3>2. CASE ~(i <= k)
      <4>1. i - k \in 1 .. Len(q) - k /\ k + (i - k) = i
        BY <1>1, <3>2
      <4> QED
        BY <2>1, <1>5, <3>2, <4>1
    <3> QED
      BY <3>1, <3>2
  <2>3. \A s \in Seq(S) :
           Len(s) = Len(q) /\ (\A i \in 1 .. Len(q) : s[i] = q[i]) => s = q
    BY SeqEqual
  <2> QED
    BY <2>1, <2>2, <2>3
<1>7. (tail \o front) \o rest = tail \o q
  <2>1. \A s1, s2, s3 \in Seq(S) : (s1 \o s2) \o s3 = s1 \o (s2 \o s3)
    BY ConcatAssociative, SMTT(40)
  <2>2. (tail \o front) \o rest = tail \o (front \o rest)
    BY <1>4, <1>5, <2>1
  <2> QED
    BY <1>6, <2>2
<1>8. tail \o front \in Seq(S)
  BY <1>4, ConcatProperties
<1>9. Elements(rest) \subseteq Elements(q)
  BY <1>1, <1>5 DEF Elements
<1>10. \A n \in Elements(tail \o front) :
          n \in Elements(tail) \/ (n \in Elements(q) /\ Ready(n, limit))
  <2>1. /\ Len(tail \o front) = Len(tail) + k
        /\ \A i \in 1 .. Len(tail) + k : (tail \o front)[i] =
              IF i <= Len(tail) THEN tail[i] ELSE front[i - Len(tail)]
    BY <1>4, ConcatProperties
  <2> SUFFICES ASSUME NEW i \in 1 .. Len(tail) + k
               PROVE  \/ (tail \o front)[i] \in Elements(tail)
                      \/ /\ (tail \o front)[i] \in Elements(q)
                         /\ Ready((tail \o front)[i], limit)
    BY <2>1 DEF Elements
  <2>2. Len(tail) \in Nat
    OBVIOUS
  <2>3. CASE i <= Len(tail)
    BY <2>1, <2>2, <2>3 DEF Elements
  <2>4. CASE ~(i <= Len(tail))
    <3>1. i - Len(tail) \in 1 .. k
      BY <1>1, <2>2, <2>4
    <3>2. (tail \o front)[i] = q[i - Len(tail)]
      BY <1>4, <2>1, <2>4, <3>1
    <3> QED
      BY <1>1, <3>1, <3>2 DEF Elements
  <2> QED
    BY <2>3, <2>4
<1> QED
  BY <1>2, <1>5, <1>7, <1>8, <1>9, <1>10

(* What a revert leaves of a sequence is its beginning. *)
LEMMA CutIsABeginning ==
    ASSUME NEW S, NEW s \in Seq(S), NEW c
    PROVE  /\ ThroughSeq(s, c) \in Seq(S)
           /\ Len(ThroughSeq(s, c)) = Cardinality({i \in 1 .. Len(s) : s[i] <= c})
           /\ Len(ThroughSeq(s, c)) \in 0 .. Len(s)
           /\ \A i \in 1 .. Len(ThroughSeq(s, c)) : ThroughSeq(s, c)[i] = s[i]
<1> DEFINE k == Cardinality({i \in 1 .. Len(s) : s[i] <= c})
<1>1. Len(s) \in Nat /\ \A i \in 1 .. Len(s) : s[i] \in S
  OBVIOUS
<1>2. k \in 0 .. Len(s)
  BY <1>1, PositionsBound
<1>3. ThroughSeq(s, c) = SubSeq(s, 1, k)
  BY DEF ThroughSeq
<1> HIDE DEF k
<1>4. /\ SubSeq(s, 1, k) \in Seq(S) /\ Len(SubSeq(s, 1, k)) = k
      /\ \A i \in 1 .. k : SubSeq(s, 1, k)[i] = s[i]
  BY <1>1, <1>2, SubSeqProperties
<1> QED
  BY <1>2, <1>3, <1>4 DEF k

(* Of a sequence that increases it is what does not exceed the cut. *)
LEMMA CutOfIncreasing ==
    ASSUME NEW s \in Seq(Nat), NEW c \in Nat,
           \A i, j \in 1 .. Len(s) : i < j => s[i] < s[j]
    PROVE  \A i \in 1 .. Len(s) : s[i] <= c <=> i <= Len(ThroughSeq(s, c))
<1> DEFINE P == {i \in 1 .. Len(s) : s[i] <= c}
<1>1. Len(s) \in Nat /\ \A i \in 1 .. Len(s) : s[i] \in Nat
  OBVIOUS
<1>2. ASSUME NEW i \in P, NEW j \in 1 .. i PROVE j \in P
  <2>1. j \in 1 .. Len(s) /\ (j = i \/ j < i)
    BY <1>1
  <2>2. s[j] <= s[i] /\ s[j] \in Nat /\ s[i] \in Nat
    BY <1>1, <2>1
  <2> QED
    BY <2>1, <2>2
<1>3. P \in SUBSET (1 .. Len(s))
  OBVIOUS
<1>4. Len(ThroughSeq(s, c)) = Cardinality(P)
  BY CutIsABeginning
<1> HIDE DEF P
<1>5. P = 1 .. Cardinality(P) /\ Cardinality(P) \in 0 .. Len(s)
  BY <1>1, <1>2, <1>3, InitialPositions
<1>6. \A i \in 1 .. Len(s) : i \in P <=> i <= Cardinality(P)
  BY <1>1, <1>5
<1> QED
  BY <1>4, <1>6 DEF P

(* The elements of a sequence have its type, and a cut adds none. *)
LEMMA ElementsType ==
    ASSUME NEW S, NEW s \in Seq(S)
    PROVE  Elements(s) \subseteq S
<1>1. \A i \in 1 .. Len(s) : s[i] \in S
  OBVIOUS
<1> QED
  BY <1>1 DEF Elements

LEMMA CutElements ==
    ASSUME NEW S, NEW s \in Seq(S), NEW c
    PROVE  Elements(ThroughSeq(s, c)) \subseteq Elements(s)
<1> DEFINE cut == ThroughSeq(s, c)
<1>0. Len(s) \in Nat
  OBVIOUS
<1>1. /\ Len(cut) \in 0 .. Len(s)
      /\ \A i \in 1 .. Len(cut) : cut[i] = s[i]
  BY CutIsABeginning, Zenon
<1> HIDE DEF cut
<1>2. ASSUME NEW i \in 1 .. Len(cut) PROVE cut[i] \in Elements(s)
  <2>1. i \in 1 .. Len(s)
    BY <1>0, <1>1
  <2> QED
    BY <1>1, <2>1 DEF Elements
<1>3. Elements(cut) \subseteq Elements(s)
  BY <1>2 DEF Elements
<1> QED
  BY <1>3 DEF cut

(* What two sequences have together is what one of them has. *)
LEMMA ElementsOfConcat ==
    ASSUME NEW S, NEW s \in Seq(S), NEW r \in Seq(S)
    PROVE  Elements(s \o r) = Elements(s) \cup Elements(r)
<1>1. /\ Len(s \o r) = Len(s) + Len(r) /\ Len(s) \in Nat /\ Len(r) \in Nat
      /\ \A i \in 1 .. Len(s) + Len(r) :
            (s \o r)[i] = IF i <= Len(s) THEN s[i] ELSE r[i - Len(s)]
  BY ConcatProperties
<1>2. ASSUME NEW i \in 1 .. Len(s) + Len(r)
      PROVE  (s \o r)[i] \in Elements(s) \cup Elements(r)
  <2>1. CASE i <= Len(s)
    BY <1>1, <2>1 DEF Elements
  <2>2. CASE ~(i <= Len(s))
    <3>1. i - Len(s) \in 1 .. Len(r) /\ (s \o r)[i] = r[i - Len(s)]
      BY <1>1, <2>2
    <3> QED
      BY <3>1 DEF Elements
  <2> QED
    BY <2>1, <2>2
<1>3. ASSUME NEW i \in 1 .. Len(s) PROVE s[i] \in Elements(s \o r)
  <2>1. i \in 1 .. Len(s) + Len(r) /\ (s \o r)[i] = s[i]
    BY <1>1
  <2> QED
    BY <1>1, <2>1 DEF Elements
<1>4. ASSUME NEW i \in 1 .. Len(r) PROVE r[i] \in Elements(s \o r)
  <2>1. /\ Len(s) + i \in 1 .. Len(s) + Len(r) /\ ~(Len(s) + i <= Len(s))
        /\ (Len(s) + i) - Len(s) = i
    BY <1>1
  <2>2. (s \o r)[Len(s) + i] = r[i]
    BY <1>1, <2>1
  <2> QED
    BY <1>1, <2>1, <2>2 DEF Elements
<1>5. Elements(s \o r) \subseteq Elements(s) \cup Elements(r)
  BY <1>1, <1>2 DEF Elements
<1>6. Elements(s) \subseteq Elements(s \o r) /\ Elements(r) \subseteq Elements(s \o r)
  BY <1>3, <1>4 DEF Elements
<1> QED
  BY <1>5, <1>6

-----------------------------------------------------------------------------
(* Published only after its sync. *)

(* What a sync settles it covers or fails to: a sync under way has a
   descriptor, and one that reports success covers what it set out to. *)
ThreadCovers(t) ==
    /\ op[t].target <= written /\ op[t].commit <= written
    /\ pc[t] \in {"blobs", "file"} => op[t].fd
    /\ pc[t] = "end" /\ op[t].ok => op[t].target <= flushed
    /\ pc[t] = "queue" => base < op[t].commit

CoverInv ==
    /\ synced <= written /\ flushed <= written /\ base <= written
    /\ (writer \/ synced < written) => dupFd
    /\ settled <= base \/ settled <= flushed \/ settled <= failed
    /\ \A t \in Threads : ThreadCovers(t)

(* A number that was settled since the log was opened. *)
Settled(n) == n <= flushed \/ n <= failed

SeenInv ==
    /\ \A n \in Elements(tail) :
          base < n /\ n <= written /\ (n \in commits => Settled(n))
    /\ \A n \in Elements(queue) : base < n /\ n <= written

(* The numbers this section compares are naturals. *)
CountTypes ==
    /\ written \in Nat /\ synced \in Nat /\ settled \in Nat /\ flushed \in Nat
    /\ failed \in Nat /\ base \in Nat
    /\ writer \in BOOLEAN /\ dupFd \in BOOLEAN
    /\ pc \in [Threads -> Steps] /\ op \in [Threads -> Ops]
    /\ \A u \in Threads : /\ op[u].commit \in Nat /\ op[u].target \in Nat
                          /\ op[u].ok \in BOOLEAN /\ op[u].fd \in BOOLEAN

LEMMA TypeGivesCounts == TypeOK => CountTypes
<1> SUFFICES ASSUME TypeOK PROVE CountTypes
  OBVIOUS
<1>1. RecordNumber \subseteq Nat
  BY DEF RecordNumber
<1>2. op \in [Threads -> Ops] /\ pc \in [Threads -> Steps]
  BY DEF TypeOK, ThreadsOK
<1>3. \A u \in Threads : /\ op[u].commit \in RecordNumber
                         /\ op[u].target \in RecordNumber
                         /\ op[u].ok \in BOOLEAN /\ op[u].fd \in BOOLEAN
  BY <1>2 DEF Ops
<1> QED
  BY <1>1, <1>2, <1>3 DEF CountTypes, TypeOK, NumbersOK, FlagsOK

LEMMA InitCover == Init => CoverInv /\ SeenInv
  BY DEF Init, CoverInv, ThreadCovers, SeenInv, Elements, NoOp

(* Every step but a crash adds to the counts. *)
Grows ==
    /\ base' = base /\ written <= written' /\ flushed <= flushed'
    /\ failed <= failed' /\ written' \in Nat /\ flushed' \in Nat /\ failed' \in Nat
    /\ \A n \in commits' : n \in commits \/ n > written

LEMMA CountsGrow ==
    ASSUME CountTypes, CoverInv
    PROVE  /\ \A t \in Appenders : CallStep(t) => Grows
           /\ \A t \in Closers : SuspendWriter(t) => Grows
           /\ \A t \in Threads : Step(t) => Grows
<1> USE DEF CountTypes, CoverInv, Grows, durabilityVars, storeVars, publicationVars,
            fileVars, recordVars, historyVars
<1>1. ASSUME NEW t \in Appenders, CallStep(t) PROVE Grows
  <2>1. ASSUME NEW c, Truncate(t, c) PROVE Grows
    BY <2>1 DEF Truncate
  <2>2. ASSUME NEW c, TruncateFails(t, c) PROVE Grows
    BY <2>2 DEF TruncateFails
  <2>3. ASSUME NEW kind, NEW bs, BeginAppend(t, kind, bs) PROVE Grows
    BY <2>3 DEF BeginAppend
  <2>4. ASSUME NEW bs, StoreFails(t, bs) \/ SyncAppended(t) PROVE Grows
    BY <2>4 DEF StoreFails, SyncAppended
  <2> QED
    BY <1>1, <2>1, <2>2, <2>3, <2>4 DEF CallStep
<1>2. ASSUME NEW t \in Closers, SuspendWriter(t) PROVE Grows
  BY <1>2 DEF SuspendWriter
<1>3. ASSUME NEW t \in Threads, Step(t) PROVE Grows
  <2>1. CASE WriteRecord(t)
    BY <2>1 DEF WriteRecord
  <2>2. CASE SyncFile(t) \/ EndSync(t)
    BY <2>2 DEF SyncFile, EndSync, MaxOf
  <2>3. CASE \/ WriteFails(t) \/ QueuePublication(t) \/ CacheFails(t)
             \/ Covered(t) \/ WaitForSync(t) \/ StartSync(t) \/ SyncBlobs(t)
             \/ SyncFails(t) \/ Return(t) \/ EndClose(t)
    BY <2>3 DEF WriteFails, QueuePublication, CacheFails, Covered, WaitForSync,
       StartSync, SyncBlobs, SyncFails, Return, EndClose
  <2> QED
    BY <1>3, <2>1, <2>2, <2>3 DEF Step
<1> QED
  BY <1>1, <1>2, <1>3

(* A closer works on a closed writer. *)
ClosedInv == \A t \in Closers : pc[t] # "idle" => ~writer

(* A thread that another one only wakes stays covered. *)
LEMMA OthersCovered ==
    ASSUME CountTypes, Grows, NEW u \in Threads, ThreadCovers(u), Undisturbed(u)
    PROVE  ThreadCovers(u)'
<1>1. op[u].target <= written' /\ (op[u].target <= flushed => op[u].target <= flushed')
      /\ (op[u].commit <= written => op[u].commit <= written')
  BY DEF CountTypes, Grows, ThreadCovers
<1> QED
  BY <1>1 DEF Grows, ThreadCovers, Undisturbed

(* Starting or reverting keeps the counts in order. *)
LEMMA CallsCover ==
    ASSUME CountTypes, CoverInv, NEW t \in Appenders, CallStep(t)
    PROVE  CoverInv'
<1> USE DEF durabilityVars, storeVars, publicationVars, fileVars, recordVars,
            historyVars
<1>0. Grows /\ t \in Threads
  BY CountsGrow DEF Threads
<1>1. ASSUME NEW u \in Threads, u # t PROVE ThreadCovers(u)'
  <2>1. Undisturbed(u)
    BY <1>1 DEF CallStep, BeginAppend, StoreFails, SyncAppended, Truncate,
       TruncateFails, CountTypes, Undisturbed
  <2> QED
    BY <1>0, <2>1, OthersCovered DEF CoverInv
<1>2. ASSUME NEW c, Truncate(t, c) PROVE CoverInv'
  <2>1. Undisturbed(t)
    BY <1>2 DEF Truncate, Undisturbed
  <2>2. ThreadCovers(t)'
    BY <1>0, <2>1, OthersCovered DEF CoverInv
  <2>3. /\ written' = written /\ synced' = written /\ settled' = written
        /\ flushed' = written /\ base' = base /\ writer' = FALSE
    BY <1>2 DEF Truncate
  <2> QED
    BY <1>1, <2>2, <2>3 DEF CoverInv, CountTypes
<1>3. ASSUME NEW c, TruncateFails(t, c) PROVE CoverInv'
  <2>1. Undisturbed(t)
    BY <1>3 DEF TruncateFails, Undisturbed
  <2>2. ThreadCovers(t)'
    BY <1>0, <2>1, OthersCovered DEF CoverInv
  <2>3. /\ written' = written /\ base' = base /\ failed' = failed /\ writer' = FALSE
        /\ \/ synced' = written /\ settled' = written /\ flushed' = written
           \/ /\ synced' = synced /\ settled' = settled /\ flushed' = flushed
              /\ dupFd' = (dupFd /\ (writer => synced < written))
    BY <1>3 DEF TruncateFails
  <2> QED
    BY <1>1, <2>2, <2>3 DEF CoverInv, CountTypes
<1>4. ASSUME NEW kind, NEW bs, BeginAppend(t, kind, bs) PROVE CoverInv'
  <2>1. ThreadCovers(t)'
    BY <1>0, <1>4 DEF BeginAppend, ThreadCovers, NoOp, CountTypes
  <2>2. UNCHANGED <<written, synced, settled, flushed, base, failed, writer, dupFd>>
    BY <1>4 DEF BeginAppend
  <2> QED
    BY <1>1, <2>1, <2>2 DEF CoverInv
<1>5. ASSUME SyncAppended(t) PROVE CoverInv'
  <2>1. ThreadCovers(t)'
    BY <1>0, <1>5 DEF SyncAppended, ThreadCovers, NoOp, CountTypes
  <2>2. UNCHANGED <<written, synced, settled, flushed, base, failed, writer, dupFd>>
    BY <1>5 DEF SyncAppended
  <2> QED
    BY <1>1, <2>1, <2>2 DEF CoverInv
<1>6. ASSUME NEW bs, StoreFails(t, bs) PROVE CoverInv'
  <2>1. Undisturbed(t)
    BY <1>6 DEF StoreFails, Undisturbed
  <2>2. UNCHANGED <<written, synced, settled, flushed, base, failed, writer, dupFd>>
    BY <1>6 DEF StoreFails
  <2> QED
    BY <1>0, <1>1, <2>1, <2>2, OthersCovered DEF CoverInv
<1> QED
  BY <1>2, <1>3, <1>4, <1>5, <1>6 DEF CallStep

(* So does every step inside a call, and closing the writer. *)
LEMMA StepsCover ==
    ASSUME CountTypes, ClosedInv, CoverInv, NEW t \in Threads,
           Step(t) \/ (t \in Closers /\ SuspendWriter(t))
    PROVE  CoverInv'
<1> USE DEF durabilityVars, storeVars, publicationVars, fileVars, recordVars,
            historyVars
<1>0. Grows
  BY CountsGrow
<1>1. ASSUME NEW u \in Threads, u # t PROVE ThreadCovers(u)'
  <2>1. Undisturbed(u)
    BY <1>1 DEF Step, SuspendWriter, WriteRecord, WriteFails, QueuePublication,
       CacheFails, Covered, WaitForSync, StartSync, SyncBlobs, SyncFile, SyncFails,
       EndSync, Return, EndClose, Woken, CountTypes, Undisturbed
  <2> QED
    BY <1>0, <2>1, OthersCovered DEF CoverInv
<1>2. CASE WriteRecord(t)
  <2>1. ThreadCovers(t)'
    BY <1>2 DEF WriteRecord, ThreadCovers, CountTypes, CoverInv
  <2>2. written' = written + 1 /\ UNCHANGED <<synced, settled, flushed, base, failed>>
    BY <1>2 DEF WriteRecord, OpenWriter
  <2>3. dupFd'
    BY <1>2 DEF WriteRecord, OpenWriter, CoverInv
  <2> QED
    BY <1>1, <2>1, <2>2, <2>3 DEF CoverInv, CountTypes
<1>3. CASE WriteFails(t)
  <2>1. ThreadCovers(t)'
    BY <1>3 DEF WriteFails, ThreadCovers, CountTypes, NoOp
  <2>2. UNCHANGED <<written, synced, settled, flushed, base, failed>>
    BY <1>3 DEF WriteFails
  <2>3. (writer' \/ synced' < written') => dupFd'
    BY <1>3, <2>2 DEF WriteFails, OpenWriter, CoverInv
  <2> QED
    BY <1>1, <2>1, <2>2, <2>3 DEF CoverInv
<1>4. CASE \/ QueuePublication(t) \/ CacheFails(t) \/ Covered(t) \/ WaitForSync(t)
           \/ SyncBlobs(t) \/ SyncFails(t) \/ Return(t)
  <2>1. UNCHANGED <<written, synced, settled, flushed, base, failed, writer, dupFd>>
    BY <1>4 DEF QueuePublication, CacheFails, Covered, WaitForSync, SyncBlobs,
       SyncFails, Return
  <2>2. ThreadCovers(t)'
    <3> USE DEF ThreadCovers, CountTypes
    <3>1. ThreadCovers(t)
      BY DEF CoverInv
    <3>2. CASE QueuePublication(t) \/ CacheFails(t) \/ Return(t)
      BY <2>1, <3>1, <3>2 DEF QueuePublication, CacheFails, Return, NoOp
    <3>3. CASE Covered(t)
      <4>1. /\ op'[t].target = op[t].target /\ op'[t].commit = op[t].commit
            /\ pc'[t] = "publish"
        BY <3>3 DEF Covered
      <4> QED
        BY <2>1, <3>1, <4>1
    <3>5. CASE WaitForSync(t) \/ SyncBlobs(t)
      BY <2>1, <3>1, <3>5 DEF WaitForSync, SyncBlobs
    <3>4. CASE SyncFails(t)
      BY <2>1, <3>1, <3>4 DEF SyncFails
    <3> QED
      BY <1>4, <3>2, <3>3, <3>4, <3>5
  <2> QED
    BY <1>1, <2>1, <2>2 DEF CoverInv
<1>5. CASE StartSync(t)
  <2>1. UNCHANGED <<written, synced, settled, flushed, base, failed, writer, dupFd>>
    BY <1>5 DEF StartSync
  <2>2. dupFd
    BY <1>5 DEF StartSync, CoverInv, ThreadCovers, CountTypes
  <2>3. /\ op'[t].target = written /\ op'[t].fd = dupFd /\ op'[t].commit = op[t].commit
        /\ pc'[t] = "blobs"
    BY <1>5 DEF StartSync, CountTypes, Target
  <2>4. ThreadCovers(t)'
    BY <2>1, <2>2, <2>3 DEF ThreadCovers, CountTypes, CoverInv
  <2> QED
    BY <1>1, <2>1, <2>4 DEF CoverInv
<1>6. CASE SyncFile(t)
  <2>1. /\ UNCHANGED <<written, synced, settled, base, failed, writer, dupFd>>
        /\ flushed' = MaxOf(flushed, op[t].target)
    BY <1>6 DEF SyncFile, CoverInv, ThreadCovers
  <2>2. /\ op'[t].target = op[t].target /\ op'[t].commit = op[t].commit
        /\ pc'[t] = "end"
    BY <1>6 DEF SyncFile, CountTypes
  <2>3. ThreadCovers(t)'
    BY <2>1, <2>2 DEF ThreadCovers, CountTypes, MaxOf, CoverInv
  <2>4. flushed' <= written /\ flushed <= flushed' /\ flushed' \in Nat
    BY <2>1 DEF CoverInv, ThreadCovers, CountTypes, MaxOf
  <2> QED
    BY <1>1, <2>1, <2>3, <2>4 DEF CoverInv, CountTypes
<1>7. CASE EndSync(t)
  <2>1. /\ UNCHANGED <<written, flushed, base, writer, dupFd>>
        /\ settled' = MaxOf(settled, op[t].target)
        /\ \/ /\ op[t].ok /\ synced' = MaxOf(synced, op[t].target)
              /\ failed' = failed /\ pc'[t] = "check"
           \/ /\ ~op[t].ok /\ failed' = MaxOf(failed, op[t].target)
              /\ synced' = synced /\ pc'[t] = "publish"
    BY <1>7 DEF EndSync, Woken, CountTypes
  <2>2. op'[t].target = 0 /\ op'[t].commit = op[t].commit /\ op'[t].ok = FALSE
    BY <1>7 DEF EndSync, CountTypes
  <2>3. ThreadCovers(t)'
    BY <2>1, <2>2 DEF ThreadCovers, CountTypes, CoverInv
  <2>4. op[t].target <= written /\ (op[t].ok => op[t].target <= flushed)
    BY <1>7 DEF EndSync, CoverInv, ThreadCovers
  <2>5. /\ synced' <= written /\ synced <= synced' /\ synced' \in Nat
        /\ settled' <= base \/ settled' <= flushed \/ settled' <= failed'
    BY <2>1, <2>4 DEF CoverInv, CountTypes, MaxOf
  <2> QED
    BY <1>1, <2>1, <2>3, <2>5 DEF CoverInv, CountTypes
<1>8. CASE EndClose(t)
  <2>1. UNCHANGED <<written, flushed, base, failed, writer>>
    BY <1>8 DEF EndClose
  <2>2. ThreadCovers(t)'
    BY <1>8, <2>1 DEF EndClose, ThreadCovers, Woken, CountTypes, NoOp
  <2>3. op[t].target <= written /\ (op[t].ok => op[t].target <= flushed)
    BY <1>8 DEF EndClose, CoverInv, ThreadCovers
  <2>4. ~writer
    BY <1>8 DEF EndClose, ClosedInv
  <2>5. CASE op[t].ok
    <3>1. /\ synced' = MaxOf(synced, op[t].target)
          /\ settled' = MaxOf(settled, op[t].target)
          /\ synced' < written /\ dupFd => dupFd'
      BY <1>8, <2>5 DEF EndClose
    <3>2. /\ synced' <= written /\ synced <= synced' /\ synced' \in Nat
          /\ settled' <= base \/ settled' <= flushed \/ settled' <= failed
      BY <2>3, <2>5, <3>1 DEF CoverInv, CountTypes, MaxOf
    <3>3. synced' < written => synced < written
      BY <3>2 DEF CountTypes
    <3> QED
      BY <1>1, <2>1, <2>2, <2>4, <3>1, <3>2, <3>3 DEF CoverInv
  <2>6. CASE ~op[t].ok
    <3>1. UNCHANGED <<synced, settled, dupFd>>
      BY <1>8, <2>6 DEF EndClose
    <3> QED
      BY <1>1, <2>1, <2>2, <3>1 DEF CoverInv
  <2> QED
    BY <2>5, <2>6
<1>9. CASE t \in Closers /\ SuspendWriter(t)
  <2>1. UNCHANGED <<written, flushed, base, failed, synced, settled>> /\ ~writer'
    BY <1>9 DEF SuspendWriter
  <2>2. synced < written => dupFd' = dupFd
    BY <1>9 DEF SuspendWriter, CountTypes
  <2>3. ThreadCovers(t)'
    <3>1. CASE synced >= written
      <4>1. Undisturbed(t)
        BY <1>9, <3>1 DEF SuspendWriter, Undisturbed
      <4> QED
        BY <1>0, <4>1, OthersCovered DEF CoverInv
    <3>2. CASE ~(synced >= written)
      <4>1. /\ op'[t] = [NoOp EXCEPT !.kind = "close", !.target = Target,
                                     !.taken = blobs, !.fd = TRUE]
            /\ pc'[t] = "blobs"
        BY <1>9, <3>2 DEF SuspendWriter, CountTypes
      <4>2. op'[t].target = written /\ op'[t].commit = 0 /\ op'[t].fd = TRUE
        BY <4>1 DEF NoOp, Target
      <4> QED
        BY <2>1, <4>1, <4>2 DEF ThreadCovers, CountTypes
    <3> QED
      BY <3>1, <3>2
  <2> QED
    BY <1>1, <2>1, <2>2, <2>3 DEF CoverInv
<1> QED
  BY <1>2, <1>3, <1>4, <1>5, <1>6, <1>7, <1>8, <1>9 DEF Step

(* A crash starts the counts over. *)
LEMMA CrashCovers ==
    ASSUME CountTypes, CoverInv, ProcessCrash \/ MachineCrash
    PROVE  CoverInv' /\ SeenInv'
<1>1. \E records, present : Reopen(records, present)
  BY DEF ProcessCrash, MachineCrash
<1>2. /\ written' = written /\ synced' = written /\ settled' = written
      /\ base' = written /\ writer' = FALSE /\ queue' = <<>> /\ tail' = <<>>
      /\ pc' = [t \in Threads |-> "idle"] /\ op' = [t \in Threads |-> NoOp]
  BY <1>1 DEF Reopen
<1>3. flushed' = flushed \/ flushed' = written
  BY DEF ProcessCrash, MachineCrash
<1>4. CoverInv'
  BY <1>2, <1>3 DEF CoverInv, ThreadCovers, NoOp, CountTypes
<1>5. SeenInv'
  BY <1>2 DEF SeenInv, Elements
<1> QED
  BY <1>4, <1>5

(* The writer is opened under the slot, which a closer holds until it is done. *)
LEMMA ClosedStep ==
    ASSUME pc \in [Threads -> Steps], SlotInv, ClosedInv, [Next]_vars
    PROVE  ClosedInv'
<1> SUFFICES ASSUME NEW u \in Closers, pc'[u] # "idle" PROVE ~writer'
  BY DEF ClosedInv
<1> USE DEF durabilityVars, storeVars, publicationVars, fileVars, recordVars,
            historyVars
<1>0. u \in Threads /\ u \notin Appenders
  BY ConstantsAssumption DEF Threads
<1>1. ASSUME NEW t \in Threads, WriteRecord(t) \/ WriteFails(t) PROVE ~writer'
  <2>1. slot = t /\ pc[t] = "write" /\ t \notin Closers
    BY <1>1 DEF WriteRecord, WriteFails, SlotInv
  <2>2. pc'[u] = pc[u]
    BY <1>0, <1>1, <2>1 DEF WriteRecord, WriteFails
  <2> QED
    BY <1>0, <2>1, <2>2 DEF SlotInv
<1>2. ASSUME NEW t \in Closers, SuspendWriter(t) PROVE ~writer'
  BY <1>2 DEF SuspendWriter
<1>3. ASSUME NEW t \in Appenders, CallStep(t) PROVE ~writer'
  <2>1. pc'[u] = pc[u] /\ (writer' = writer \/ ~writer')
    BY <1>0, <1>3 DEF CallStep, BeginAppend, StoreFails, SyncAppended, Truncate,
       TruncateFails
  <2> QED
    BY <2>1 DEF ClosedInv
<1>4. ASSUME NEW t \in Threads, Step(t), ~WriteRecord(t), ~WriteFails(t) PROVE ~writer'
  <2>1. writer' = writer /\ pc[u] # "idle"
    BY <1>0, <1>4 DEF Step, QueuePublication, CacheFails, Covered, WaitForSync,
       StartSync, SyncBlobs, SyncFile, SyncFails, EndSync, Return, EndClose, Woken
  <2> QED
    BY <2>1 DEF ClosedInv
<1>5. CASE ProcessCrash \/ MachineCrash
  BY <1>5 DEF ProcessCrash, MachineCrash, Reopen
<1>6. CASE UNCHANGED vars
  BY <1>6 DEF vars, ClosedInv
<1> QED
  BY <1>1, <1>2, <1>3, <1>4, <1>5, <1>6 DEF Next, CallStep

(* A step that publishes nothing leaves what was seen settled. *)
LEMMA SeenStays ==
    ASSUME CountTypes, SequencesOK, SeenInv, Grows, UNCHANGED publicationVars
    PROVE  SeenInv'
<1>1. RecordNumber \subseteq Nat
  BY DEF RecordNumber
<1>2. \A n \in Elements(tail) \cup Elements(queue) : n \in Nat
  BY <1>1, ElementsType DEF SequencesOK
<1>3. ASSUME NEW n \in Elements(tail)
      PROVE  base' < n /\ n <= written' /\ (n \in commits' => Settled(n)')
  BY <1>2 DEF SeenInv, Settled, Grows, CountTypes
<1>4. ASSUME NEW n \in Elements(queue) PROVE base' < n /\ n <= written'
  BY <1>2 DEF SeenInv, Grows, CountTypes
<1> QED
  BY <1>3, <1>4 DEF SeenInv, publicationVars

(* A pass over a queue in order publishes what is settled. *)
LEMMA PassIsSettled ==
    ASSUME CountTypes, SequencesOK, CoverInv, SeenInv,
           NEW q \in Seq(RecordNumber), PublishReady(q, settled),
           \A n \in Elements(q) : base < n /\ n <= written,
           UNCHANGED <<written, base, flushed, failed, commits>>
    PROVE  SeenInv'
<1>1. RecordNumber \subseteq Nat
  BY DEF RecordNumber
<1>2. /\ Elements(queue') \subseteq Elements(q)
      /\ \A n \in Elements(tail') :
            n \in Elements(tail) \/ (n \in Elements(q) /\ Ready(n, settled))
  BY PassKeepsAnnounced DEF SequencesOK
<1>3. \A n \in Elements(q) : n \in Nat
  BY <1>1, ElementsType
<1>4. ASSUME NEW n \in Elements(q), Ready(n, settled), n \in commits PROVE Settled(n)
  BY <1>3, <1>4 DEF Ready, Settled, CoverInv, CountTypes
<1>5. ASSUME NEW n \in Elements(tail')
      PROVE  base < n /\ n <= written /\ (n \in commits => Settled(n))
  BY <1>2, <1>4, <1>5 DEF SeenInv
<1> QED
  BY <1>2, <1>5 DEF SeenInv, Settled

LEMMA SeenStep ==
    ASSUME TypeOK, CountTypes, CoverInv, SeenInv, [Next]_vars
    PROVE  SeenInv'
<1> USE DEF durabilityVars, storeVars, publicationVars, fileVars, recordVars,
            historyVars
<1>0. SequencesOK
  BY DEF TypeOK
<1>1. ASSUME NEW t \in Threads, QueuePublication(t) PROVE SeenInv'
  <2>1. /\ op[t].commit \in RecordNumber /\ op[t].commit <= written
        /\ base < op[t].commit
    BY <1>1 DEF QueuePublication, CoverInv, ThreadCovers, CountTypes, Ops
  <2> DEFINE q == Append(queue, op[t].commit)
  <2>2. q \in Seq(RecordNumber)
    BY <1>0, <2>1, AppendProperties DEF SequencesOK
  <2>3. \A n \in Elements(q) : n \in Elements(queue) \/ n = op[t].commit
    BY <1>0, <2>1, AppendProperties DEF SequencesOK, Elements
  <2>4. PublishReady(q, settled) /\ UNCHANGED <<written, base, flushed, failed, commits>>
    BY <1>1 DEF QueuePublication
  <2> HIDE DEF q
  <2>5. \A n \in Elements(q) : base < n /\ n <= written
    BY <2>1, <2>3 DEF SeenInv
  <2> QED
    BY <1>0, <2>2, <2>4, <2>5, PassIsSettled
<1>2. ASSUME NEW t \in Threads, Return(t) PROVE SeenInv'
  <2>1. /\ PublishReady(queue, settled)
        /\ UNCHANGED <<written, base, flushed, failed, commits>>
    BY <1>2 DEF Return, PublishSettled
  <2> QED
    BY <1>0, <2>1, PassIsSettled DEF SequencesOK, SeenInv
<1>3. ASSUME NEW t \in Appenders, NEW c \in mem, Truncate(t, c) PROVE SeenInv'
  <2>1. CASE UNCHANGED publicationVars
    BY <1>0, <1>3, <2>1, SeenStays, CountsGrow DEF CallStep
  <2>2. CASE tail' = ThroughSeq(tail \o queue, c) /\ queue' = <<>>
    <3>1. tail \o queue \in Seq(RecordNumber)
      BY <1>0, ConcatProperties DEF SequencesOK
    <3>2. Elements(ThroughSeq(tail \o queue, c)) \subseteq Elements(tail \o queue)
      BY <3>1, CutElements
    <3>3. Elements(tail \o queue) = Elements(tail) \cup Elements(queue)
      BY <1>0, ElementsOfConcat DEF SequencesOK
    <3>4. written' = written /\ flushed' = written /\ base' = base
      BY <1>3 DEF Truncate
    <3>5. Elements(queue') = {}
      BY <2>2 DEF Elements
    <3>6. \A n \in Elements(tail') : base < n /\ n <= written
      BY <2>2, <3>2, <3>3 DEF SeenInv
    <3> QED
      BY <3>4, <3>5, <3>6 DEF SeenInv, Settled
  <2> QED
    BY <1>3, <2>1, <2>2 DEF Truncate
<1>4. ASSUME NEW t \in Appenders, CallStep(t), \A c \in mem : ~Truncate(t, c)
      PROVE  SeenInv'
  <2>1. UNCHANGED publicationVars
    BY <1>4 DEF CallStep, BeginAppend, StoreFails, SyncAppended, TruncateFails
  <2> QED
    BY <1>0, <1>4, <2>1, SeenStays, CountsGrow
<1>5. ASSUME NEW t \in Closers, SuspendWriter(t) PROVE SeenInv'
  <2>1. UNCHANGED publicationVars
    BY <1>5 DEF SuspendWriter
  <2> QED
    BY <1>0, <1>5, <2>1, SeenStays, CountsGrow
<1>6. ASSUME NEW t \in Threads, Step(t), ~QueuePublication(t), ~Return(t) PROVE SeenInv'
  <2>1. UNCHANGED publicationVars
    BY <1>6 DEF Step, WriteRecord, WriteFails, CacheFails, Covered, WaitForSync,
       StartSync, SyncBlobs, SyncFile, SyncFails, EndSync, EndClose
  <2> QED
    BY <1>0, <1>6, <2>1, SeenStays, CountsGrow
<1>7. CASE ProcessCrash \/ MachineCrash
  BY <1>7, CrashCovers
<1>8. CASE UNCHANGED vars
  BY <1>8 DEF vars, SeenInv, Settled
<1> QED
  BY <1>1, <1>2, <1>3, <1>4, <1>5, <1>6, <1>7, <1>8 DEF Next, CallStep

PublishInv == TypeInv /\ ClosedInv /\ CoverInv /\ SeenInv

LEMMA PublishInvariance == Spec => []PublishInv
<1>1. ASSUME Init PROVE PublishInv
  <2>1. ClosedInv
    BY <1>1 DEF Init, ClosedInv
  <2> QED
    BY <1>1, <2>1, InitType, InitCover DEF PublishInv
<1>2. ASSUME PublishInv, [Next]_vars PROVE PublishInv'
  <2>1. CountTypes /\ TypeOK /\ SlotInv /\ pc \in [Threads -> Steps]
    BY <1>2, TypeGivesCounts DEF PublishInv, TypeInv, CountTypes
  <2>2. TypeInv'
    BY <1>2, NextType DEF PublishInv
  <2>3. ClosedInv'
    BY <1>2, <2>1, ClosedStep DEF PublishInv
  <2>4. SeenInv'
    BY <1>2, <2>1, SeenStep DEF PublishInv
  <2>5. CoverInv'
    <3>1. ASSUME NEW t \in Appenders, CallStep(t) PROVE CoverInv'
      BY <1>2, <2>1, <3>1, CallsCover DEF PublishInv
    <3>2. ASSUME NEW t \in Closers, SuspendWriter(t) PROVE CoverInv'
      BY <1>2, <2>1, <3>2, StepsCover DEF PublishInv, Threads
    <3>3. ASSUME NEW t \in Threads, Step(t) PROVE CoverInv'
      BY <1>2, <2>1, <3>3, StepsCover DEF PublishInv
    <3>4. CASE ProcessCrash \/ MachineCrash
      BY <1>2, <2>1, <3>4, CrashCovers DEF PublishInv
    <3>5. CASE UNCHANGED vars
      BY <1>2, <3>5 DEF PublishInv, CoverInv, ThreadCovers, vars, durabilityVars,
         storeVars, fileVars, historyVars
    <3> QED
      BY <1>2, <3>1, <3>2, <3>3, <3>4, <3>5 DEF Next, CallStep
  <2> QED
    BY <2>2, <2>3, <2>4, <2>5 DEF PublishInv
<1> QED
  BY <1>1, <1>2, PTL DEF Spec

(* A commit point reaches a tail only once it is on disk, or once a sync
   covering it failed, which its caller was told of: publication.rs, "each
   commit point only after its sync".  It holds whatever fails: the record
   that rides along may overtake a sync, the commit point never does, whoever
   runs the sync, closes the writer or reverts the log meanwhile. *)
THEOREM CommitPointsAfterSync == Spec => []PublishedAfterSync
<1>1. PublishInv => PublishedAfterSync
  BY DEF PublishInv, SeenInv, Settled, PublishedAfterSync
<1> QED
  BY <1>1, PublishInvariance, PTL

-----------------------------------------------------------------------------
(* In order, without a hole. *)

(* What was announced since the log was opened, published or not. *)
Announced == tail \o queue

(* It is the log from there on, in order, but for the record that a thread
   has written and is about to announce under the slot. *)
Announcing(t) == pc[t] = "queue"

OrderInv ==
    /\ \A n \in mem \cup file : n <= written
    /\ \A i, j \in 1 .. Len(Announced) : i < j => Announced[i] < Announced[j]
    /\ Elements(Announced) \subseteq mem
    /\ \A t \in Threads : Announcing(t) =>
          /\ op[t].commit = written /\ written \in mem
          /\ \A n \in Elements(Announced) : n < written
    /\ \A m \in mem : base < m =>
          \/ m \in Elements(Announced)
          \/ \E t \in Threads : Announcing(t) /\ m = op[t].commit

OrderTypes ==
    /\ CountTypes /\ SlotInv /\ slot \in Threads \cup {Nobody}
    /\ mem \subseteq Nat /\ file \subseteq Nat
    /\ tail \in Seq(Nat) /\ queue \in Seq(Nat) /\ Announced \in Seq(Nat)

LEMMA TypeGivesOrder == TypeInv => OrderTypes
<1> SUFFICES ASSUME TypeInv PROVE OrderTypes
  OBVIOUS
<1>1. RecordNumber \subseteq Nat
  BY DEF RecordNumber
<1>2. CountTypes /\ SlotInv /\ slot \in Threads \cup {Nobody}
  BY TypeGivesCounts DEF TypeInv, TypeOK, ThreadsOK
<1>3. mem \subseteq Nat /\ file \subseteq Nat
  BY <1>1 DEF TypeInv, TypeOK, SetsOK
<1>4. tail \in Seq(RecordNumber) /\ queue \in Seq(RecordNumber)
  BY DEF TypeInv, TypeOK, SequencesOK
<1>5. tail \in Seq(Nat) /\ queue \in Seq(Nat)
  BY <1>1, <1>4, SeqMonotonic
<1>6. Announced \in Seq(Nat)
  BY <1>5, ConcatProperties DEF Announced
<1> QED
  BY <1>2, <1>3, <1>5, <1>6 DEF OrderTypes

LEMMA InitOrder == Init => OrderInv
<1> SUFFICES ASSUME Init PROVE OrderInv
  OBVIOUS
<1>1. Announced = <<>>
  BY DEF Init, Announced
<1>2. Elements(Announced) = {} /\ Len(Announced) = 0
  BY <1>1 DEF Elements
<1> QED
  BY <1>2 DEF Init, OrderInv, Announcing

(* Steps that announce nothing and change no record. *)
LEMMA OrderStays ==
    ASSUME OrderInv, Announced' = Announced, UNCHANGED <<mem, written, base>>,
           file' \subseteq file,
           \A u \in Threads : /\ Announcing(u)' <=> Announcing(u)
                              /\ Announcing(u) => op'[u].commit = op[u].commit
    PROVE  OrderInv'
  BY DEF OrderInv

(* Writing a record. *)
LEMMA OrderOfWriting ==
    ASSUME OrderTypes, OrderInv, NEW t \in Threads, WriteRecord(t)
    PROVE  OrderInv'
<1>1. /\ written' = written + 1 /\ mem' = mem \cup {written + 1} /\ base' = base
      /\ file' \subseteq file \cup {written + 1}
      /\ Announced' = Announced
  BY DEF WriteRecord, Announced, publicationVars, historyVars
<1>2. \A u \in Threads : ~Announcing(u)
  BY DEF WriteRecord, OrderTypes, SlotInv, Announcing
<1>3. /\ op'[t].commit = written + 1 /\ pc'[t] = "queue"
      /\ \A u \in Threads : u # t => pc'[u] = pc[u]
  BY DEF WriteRecord, OrderTypes, CountTypes
<1>4. \A u \in Threads : Announcing(u)' => u = t
  BY <1>2, <1>3 DEF Announcing
<1>5. \A n \in mem \cup file : n \in Nat /\ n <= written
  BY DEF OrderTypes, OrderInv
<1>6. written \in Nat /\ \A n \in Elements(Announced) : n < written + 1
  <2>1. written \in Nat /\ Elements(Announced) \subseteq mem
    BY DEF OrderInv, OrderTypes, CountTypes
  <2> QED
    BY <1>5, <2>1
<1>7. \A n \in mem' \cup file' : n <= written'
  BY <1>1, <1>5, <1>6
<1>8. \A m \in mem' : base' < m =>
          \/ m \in Elements(Announced')
          \/ \E u \in Threads : Announcing(u)' /\ m = op'[u].commit
  BY <1>1, <1>2, <1>3 DEF OrderInv, Announcing
<1> QED
  BY <1>1, <1>3, <1>4, <1>6, <1>7, <1>8 DEF OrderInv

(* Announcing it. *)
LEMMA OrderOfAnnouncing ==
    ASSUME OrderTypes, OrderInv, NEW t \in Threads, QueuePublication(t)
    PROVE  OrderInv'
<1> DEFINE n == op[t].commit
<1>0. /\ Announcing(t) /\ n \in Nat /\ n = written /\ written \in mem
      /\ \A k \in Elements(Announced) : k < n
  BY DEF QueuePublication, Announcing, OrderInv, OrderTypes, CountTypes
<1>1. UNCHANGED <<mem, file, written, base>>
  BY DEF QueuePublication, durabilityVars, fileVars, historyVars
<1>2. Announced' = Append(Announced, n)
  <2>1. Append(queue, n) \in Seq(Nat) /\ Append(queue, n) = queue \o <<n>>
        /\ <<n>> \in Seq(Nat)
    BY <1>0, AppendProperties, AppendIsConcat DEF OrderTypes
  <2>2. PublishReady(Append(queue, n), settled)
    BY DEF QueuePublication
  <2>3. Announced' = tail \o Append(queue, n)
    BY <2>1, <2>2, PassKeepsAnnounced DEF OrderTypes, Announced
  <2>4. tail \o (queue \o <<n>>) = (tail \o queue) \o <<n>>
    BY <2>1, ConcatAssociative DEF OrderTypes
  <2>5. Append(Announced, n) = Announced \o <<n>>
    BY <1>0, AppendIsConcat DEF OrderTypes
  <2> QED
    BY <2>1, <2>3, <2>4, <2>5 DEF Announced
<1>3. \A u \in Threads : ~Announcing(u)'
  BY <1>0 DEF QueuePublication, OrderTypes, CountTypes, SlotInv, Announcing
<1>4. \A u \in Threads : Announcing(u) => u = t
  BY <1>0 DEF OrderTypes, SlotInv, Announcing
<1> HIDE DEF n
<1>5. /\ Len(Announced') = Len(Announced) + 1 /\ Len(Announced) \in Nat
      /\ \A i \in 1 .. Len(Announced) : Announced'[i] = Announced[i]
      /\ Announced'[Len(Announced) + 1] = n
  BY <1>0, <1>2, AppendProperties DEF OrderTypes
<1>6. Elements(Announced') = Elements(Announced) \cup {n}
  <2>1. \A i \in 1 .. Len(Announced) + 1 :
           i \in 1 .. Len(Announced) \/ i = Len(Announced) + 1
    BY <1>5
  <2>2. \A i \in 1 .. Len(Announced) : i \in 1 .. Len(Announced) + 1
    BY <1>5
  <2>3. Len(Announced) + 1 \in 1 .. Len(Announced) + 1
    BY <1>5
  <2> QED
    BY <1>5, <2>1, <2>2, <2>3 DEF Elements
<1>7. ASSUME NEW i \in 1 .. Len(Announced'), NEW j \in 1 .. Len(Announced'), i < j
      PROVE  Announced'[i] < Announced'[j]
  <2>1. i \in 1 .. Len(Announced) /\ Announced'[i] = Announced[i]
    BY <1>5, <1>7
  <2>2. CASE j \in 1 .. Len(Announced)
    BY <1>5, <1>7, <2>1, <2>2 DEF OrderInv
  <2>3. CASE j = Len(Announced) + 1
    BY <1>0, <1>5, <2>1, <2>3 DEF Elements
  <2> QED
    BY <1>5, <2>2, <2>3
<1>8. \A m \in mem : base < m => m \in Elements(Announced')
  BY <1>4, <1>6 DEF OrderInv, n
<1> QED
  BY <1>0, <1>1, <1>3, <1>6, <1>7, <1>8 DEF OrderInv

(* Reverting: what is kept of the tail is what is kept of the log. *)
LEMMA OrderOfReverting ==
    ASSUME OrderTypes, OrderInv, "cache" \notin Faults, NEW t, NEW c \in mem,
           Truncate(t, c)
    PROVE  OrderInv'
<1> DEFINE cut == ThroughSeq(Announced, c)
<1>1. /\ UNCHANGED <<written, base>> /\ mem' = Through(mem, c)
      /\ file' = Through(file, c) /\ pc' = pc /\ slot = Nobody
      /\ tail' = cut /\ queue' = <<>>
  BY DEF Truncate, historyVars, Announced
<1>2. c \in Nat /\ Announced \in Seq(Nat) /\ mem \subseteq Nat /\ file \subseteq Nat
  BY DEF OrderTypes
<1>3. /\ cut \in Seq(Nat) /\ Len(cut) \in 0 .. Len(Announced)
      /\ \A i \in 1 .. Len(cut) : cut[i] = Announced[i]
  BY <1>2, CutIsABeginning, Zenon
<1>4. \A i \in 1 .. Len(Announced) : Announced[i] <= c <=> i <= Len(cut)
  BY <1>2, CutOfIncreasing DEF OrderInv
<1> HIDE DEF cut
<1>5. Announced' = cut
  BY <1>1, <1>3, ConcatEmptySeq DEF Announced
<1>6. Len(Announced) \in Nat /\ \A i \in 1 .. Len(cut) : i \in 1 .. Len(Announced)
  BY <1>2, <1>3
<1>7. \A i, j \in 1 .. Len(cut) : i < j => cut[i] < cut[j]
  BY <1>3, <1>6 DEF OrderInv
<1>8. \A u \in Threads : ~Announcing(u) /\ ~Announcing(u)'
  BY <1>1, ConstantsAssumption DEF OrderTypes, SlotInv, Announcing, Threads
<1>9. ASSUME NEW m \in Elements(cut) PROVE m \in mem'
  <2>1. PICK i \in 1 .. Len(cut) : m = cut[i]
    BY DEF Elements
  <2>2. m = Announced[i] /\ i \in 1 .. Len(Announced) /\ m <= c
    BY <2>1, <1>3, <1>4, <1>6
  <2>3. m \in mem
    BY <2>2 DEF OrderInv, Elements
  <2> QED
    BY <1>1, <2>2, <2>3 DEF Through
<1>10. ASSUME NEW m \in mem', base < m PROVE m \in Elements(cut)
  <2>1. m \in mem /\ m <= c
    BY <1>1 DEF Through
  <2>2. m \in Elements(Announced)
    BY <1>8, <1>10, <2>1 DEF OrderInv
  <2>3. PICK i \in 1 .. Len(Announced) : m = Announced[i]
    BY <2>2 DEF Elements
  <2>4. i \in 1 .. Len(cut) /\ cut[i] = m
    BY <1>3, <1>4, <1>6, <2>1, <2>3
  <2> QED
    BY <2>4 DEF Elements
<1>11. \A m \in mem' \cup file' : m <= written
  BY <1>1 DEF Through, OrderInv
<1> QED
  BY <1>1, <1>5, <1>7, <1>8, <1>9, <1>10, <1>11 DEF OrderInv

(* Opening the log again: nothing of it is announced, and all of it lies
   before the new tails. *)
LEMMA OrderOfReopening ==
    ASSUME OrderTypes, OrderInv, ProcessCrash \/ MachineCrash
    PROVE  OrderInv'
<1>1. PICK records \in SUBSET file : \E present : Reopen(records, present)
  BY DEF ProcessCrash, MachineCrash
<1>2. /\ written' = written /\ base' = written /\ tail' = <<>> /\ queue' = <<>>
      /\ mem' \subseteq file /\ file' \subseteq file
      /\ pc' = [u \in Threads |-> "idle"]
  BY <1>1 DEF Reopen
<1>3. \A n \in file : n \in Nat /\ n <= written
  BY DEF OrderTypes, OrderInv
<1>4. Announced' = <<>>
  BY <1>2 DEF Announced
<1>5. Elements(Announced') = {} /\ Len(Announced') = 0
  BY <1>4 DEF Elements
<1>6. \A u \in Threads : ~Announcing(u)'
  BY <1>2 DEF Announcing
<1>7. \A m \in mem' : ~(base' < m)
  BY <1>2, <1>3 DEF OrderTypes, CountTypes
<1>8. \A n \in mem' \cup file' : n <= written'
  BY <1>2, <1>3
<1> QED
  BY <1>5, <1>6, <1>7, <1>8 DEF OrderInv

LEMMA OrderStep ==
    ASSUME OrderTypes, OrderInv, "cache" \notin Faults, [Next]_vars
    PROVE  OrderInv'
<1> USE DEF durabilityVars, storeVars, publicationVars, fileVars, recordVars,
            historyVars
<1>0. pc \in [Threads -> Steps] /\ op \in [Threads -> Ops] /\ Appenders \subseteq Threads
      /\ Closers \subseteq Threads
  BY DEF OrderTypes, CountTypes, Threads
<1>1. ASSUME NEW t \in Appenders, CallStep(t), \A c \in mem : ~Truncate(t, c)
      PROVE  OrderInv'
  <2>1. UNCHANGED <<publicationVars, mem, written, base>> /\ file' \subseteq file
    BY <1>1 DEF CallStep, BeginAppend, StoreFails, SyncAppended, TruncateFails, Through
  <2>2. \A u \in Threads : /\ Announcing(u)' <=> Announcing(u)
                           /\ Announcing(u) => op'[u].commit = op[u].commit
    BY <1>0, <1>1 DEF CallStep, BeginAppend, StoreFails, SyncAppended, TruncateFails,
       Announcing
  <2> QED
    BY <2>1, <2>2, OrderStays DEF Announced
<1>2. ASSUME NEW t \in Closers, SuspendWriter(t) PROVE OrderInv'
  <2>1. UNCHANGED <<publicationVars, mem, written, base, file>>
    BY <1>2 DEF SuspendWriter
  <2>2. \A u \in Threads : /\ Announcing(u)' <=> Announcing(u)
                           /\ Announcing(u) => op'[u].commit = op[u].commit
    BY <1>0, <1>2 DEF SuspendWriter, Announcing
  <2> QED
    BY <2>1, <2>2, OrderStays DEF Announced
<1>3. ASSUME NEW t \in Threads, Return(t) PROVE OrderInv'
  <2>1. UNCHANGED <<mem, written, base, file>> /\ PublishReady(queue, settled)
    BY <1>3 DEF Return, PublishSettled
  <2>2. \A u \in Threads : /\ Announcing(u)' <=> Announcing(u)
                           /\ Announcing(u) => op'[u].commit = op[u].commit
    BY <1>0, <1>3 DEF Return, Announcing
  <2>3. Announced' = Announced
    BY <2>1, PassKeepsAnnounced DEF OrderTypes, Announced
  <2> QED
    BY <2>1, <2>2, <2>3, OrderStays
<1>4. ASSUME NEW t \in Threads, Step(t), ~WriteRecord(t), ~QueuePublication(t), ~Return(t)
      PROVE  OrderInv'
  <2>1. UNCHANGED <<publicationVars, mem, written, base, file>>
    BY <1>4 DEF Step, WriteFails, CacheFails, Covered, WaitForSync, StartSync, SyncBlobs,
       SyncFile, SyncFails, EndSync, EndClose
  <2>2. \A u \in Threads : /\ Announcing(u)' <=> Announcing(u)
                           /\ Announcing(u) => op'[u].commit = op[u].commit
    <3>1. ~Announcing(t) /\ ~Announcing(t)'
      <4>1. CASE EndSync(t) \/ EndClose(t)
        BY <1>0, <4>1 DEF EndSync, EndClose, Woken, Announcing
      <4>2. CASE ~EndSync(t) /\ ~EndClose(t)
        BY <1>0, <1>4, <4>2 DEF Step, WriteFails, CacheFails, Covered, WaitForSync,
           StartSync, SyncBlobs, SyncFile, SyncFails, Announcing
      <4> QED
        BY <4>1, <4>2
    <3>2. \A u \in Threads : u # t => Undisturbed(u)
      BY <1>0, <1>4 DEF Step, WriteFails, CacheFails, Covered, WaitForSync, StartSync,
         SyncBlobs, SyncFile, SyncFails, EndSync, EndClose, Woken, Undisturbed
    <3> QED
      BY <3>1, <3>2 DEF Undisturbed, Announcing
  <2> QED
    BY <2>1, <2>2, OrderStays DEF Announced
<1>5. ASSUME UNCHANGED vars PROVE OrderInv'
  BY <1>5, OrderStays DEF vars, Announced, Announcing
<1> QED
  BY <1>1, <1>2, <1>3, <1>4, <1>5, OrderOfWriting, OrderOfAnnouncing, OrderOfReverting,
     OrderOfReopening DEF Next, CallStep, Step

(* A live tail sees the records in append order, each once, without a hole,
   and nothing that a revert removed (publication.rs: "so a session's
   publications queue in append order"), whichever threads publish them and
   whatever else fails.  A failed write of the metadata cache is left out: it
   loses the announcement of its record (CacheFails). *)
THEOREM TailsSeeAPrefix ==
    ASSUME "cache" \notin Faults
    PROVE  Spec => []TailIsAPrefix
<1>1. Init => OrderInv
  BY InitOrder
<1>2. ASSUME TypeInv, OrderInv, [Next]_vars PROVE OrderInv'
  BY <1>2, TypeGivesOrder, OrderStep
<1>3. ASSUME TypeInv, OrderInv PROVE TailIsAPrefix
  <2> USE <1>3
  <2>1. OrderTypes
    BY TypeGivesOrder
  <2>2. /\ Len(Announced) = Len(tail) + Len(queue)
        /\ Len(tail) \in Nat /\ Len(queue) \in Nat /\ DOMAIN tail = 1 .. Len(tail)
        /\ \A i \in 1 .. Len(tail) : i \in 1 .. Len(Announced)
    BY <2>1, ConcatProperties DEF OrderTypes, Announced
  <2>3. \A i \in 1 .. Len(tail) : Announced[i] = tail[i]
    BY <2>1, <2>2, ConcatProperties DEF OrderTypes, Announced
  <2>4. \A i, j \in DOMAIN tail : i < j => tail[i] < tail[j]
    BY <2>2, <2>3 DEF OrderInv
  <2>5. Elements(tail) \subseteq Elements(Announced)
    BY <2>1, ElementsOfConcat DEF OrderTypes, Announced
  <2>6. Elements(Announced) \subseteq mem /\ mem \subseteq Nat
    BY <2>1 DEF OrderInv, OrderTypes
  <2>7. ASSUME NEW n \in Elements(tail), NEW m \in mem, base < m, m < n
        PROVE  m \in Elements(tail)
    <3>1. n \in Nat /\ m \in Nat /\ n <= written /\ written \in Nat
      BY <2>1, <2>5, <2>6 DEF OrderInv, OrderTypes, CountTypes
    <3>2. m \in Elements(Announced)
      BY <2>7, <3>1 DEF OrderInv
    <3>3. PICK i \in 1 .. Len(tail) : n = tail[i]
      BY DEF Elements
    <3>4. PICK j \in 1 .. Len(Announced) : m = Announced[j]
      BY <3>2 DEF Elements
    <3>5. j < i
      <4>1. CASE i < j
        <5>1. Announced[i] < Announced[j]
          BY <2>2, <4>1 DEF OrderInv
        <5> QED
          BY <2>3, <2>7, <3>1, <3>3, <3>4, <5>1
      <4>2. CASE i = j
        BY <2>3, <2>7, <3>1, <3>3, <3>4, <4>2
      <4> QED
        BY <2>2, <4>1, <4>2
    <3>6. j \in 1 .. Len(tail)
      BY <2>2, <3>5
    <3> QED
      BY <2>3, <3>4, <3>6 DEF Elements
  <2> QED
    BY <2>4, <2>5, <2>6, <2>7 DEF TailIsAPrefix
<1>4. Spec => []TypeInv
  BY InitType, NextType, PTL DEF Spec
<1> QED
  BY <1>1, <1>2, <1>3, <1>4, PTL DEF Spec

=============================================================================
