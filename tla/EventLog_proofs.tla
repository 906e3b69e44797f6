--------------------------- MODULE EventLog_proofs ---------------------------
(***************************************************************************)
(* What a session's log promises, for every set of threads, every bound    *)
(* and every set of blobs: its state is well formed (TypeCorrect), what is *)
(* acknowledged is durable (AckedIsDurable), a record that counts as       *)
(* synced has its blobs (SyncedRecordsKeepBlobs), acknowledged records are *)
(* readable after a crash (AckedRecordsSurvive), and so the log implements *)
(* CommitLog (LogKeepsItsPromise).                                         *)
(***************************************************************************)
EXTENDS EventLog, SequenceTheorems, FiniteSetTheorems, TLAPS

USE ConstantsAssumption

-----------------------------------------------------------------------------
(* The lengths that cut a sequence are lengths of the sequence. *)

(* A set of positions of a sequence has at most as many elements as the
   sequence. *)
LEMMA PositionsBound ==
    ASSUME NEW n \in Nat, NEW P \in SUBSET (1 .. n)
    PROVE  Cardinality(P) \in 0 .. n
<1>1. IsFiniteSet(1 .. n) /\ Cardinality(1 .. n) = n
  BY FS_Interval
<1>2. IsFiniteSet(P) /\ Cardinality(P) <= n
  BY <1>1, FS_Subset
<1> QED
  BY <1>2, FS_CardinalityType

(* A stretch of a sequence has its type. *)
LEMMA SubSeqType ==
    ASSUME NEW S, NEW s \in Seq(S), NEW m \in Nat, NEW n \in Nat,
           m >= 1, n <= Len(s)
    PROVE  SubSeq(s, m, n) \in Seq(S)
<1>1. Len(s) \in Nat /\ \A i \in 1 .. Len(s) : s[i] \in S
  OBVIOUS
<1>2. \A i \in m .. n : s[i] \in S
  BY <1>1
<1> QED
  BY <1>2, SubSeqProperties

(* publish_ready publishes a part of the queue and leaves the rest of it. *)
LEMMA ReadyPrefixType ==
    ASSUME NEW S, NEW q \in Seq(S), NEW limit
    PROVE  /\ SubSeq(q, 1, ReadyPrefix(q, limit)) \in Seq(S)
           /\ SubSeq(q, ReadyPrefix(q, limit) + 1, Len(q)) \in Seq(S)
<1> DEFINE P == {i \in 1 .. Len(q) : \A j \in 1 .. i : Ready(q[j], limit)}
<1>1. Len(q) \in Nat
  OBVIOUS
<1>2. ReadyPrefix(q, limit) \in 0 .. Len(q)
  BY <1>1, PositionsBound DEF ReadyPrefix
<1> QED
  BY <1>1, <1>2, SubSeqType

(* What a revert leaves of a tail is a part of it. *)
LEMMA ThroughSeqType ==
    ASSUME NEW S, NEW s \in Seq(S), NEW c
    PROVE  ThroughSeq(s, c) \in Seq(S)
<1> DEFINE k == Cardinality({i \in 1 .. Len(s) : s[i] <= c})
<1>1. Len(s) \in Nat
  OBVIOUS
<1>2. k \in 0 .. Len(s)
  BY <1>1, PositionsBound
<1> HIDE DEF k
<1>3. SubSeq(s, 1, k) \in Seq(S)
  BY <1>1, <1>2, SubSeqType
<1> QED
  BY <1>3 DEF ThroughSeq, k

-----------------------------------------------------------------------------
(* Type correctness, with the exclusion of the slot that it rests on. *)

TypeInv == TypeOK /\ SlotInv

LEMMA InitType == Init => TypeInv
<1> SUFFICES ASSUME Init PROVE TypeInv
  OBVIOUS
<1>1. NoOp \in Ops
  BY DEF NoOp, Ops, RecordNumber
<1>2. FlagsOK
  BY DEF Init, FlagsOK
<1>3. NumbersOK /\ SetsOK
  BY DEF Init, NumbersOK, SetsOK, RecordNumber
<1>4. SequencesOK
  BY DEF Init, SequencesOK
<1>5. ThreadsOK
  BY <1>1 DEF Init, ThreadsOK, Steps
<1>6. SlotInv
  BY DEF Init, SlotInv
<1> QED
  BY <1>2, <1>3, <1>4, <1>5, <1>6 DEF TypeInv, TypeOK

LEMMA NextType == TypeInv /\ [Next]_vars => TypeInv'
<1> SUFFICES ASSUME TypeInv, [Next]_vars PROVE TypeInv'
  OBVIOUS
<1> USE DEF TypeInv, TypeOK, durabilityVars, storeVars, publicationVars,
            fileVars, recordVars, historyVars
<1>0. NoOp \in Ops
  BY DEF NoOp, Ops, RecordNumber
<1>1. ASSUME NEW t \in Appenders, NEW kind \in Kinds,
             NEW bs \in SUBSET Blobs, BeginAppend(t, kind, bs)
      PROVE  TypeInv'
  <2>0. [NoOp EXCEPT !.kind = kind, !.blobs = bs] \in Ops
    BY <1>0 DEF Ops, Kinds
  <2>1. FlagsOK'
    BY <1>1 DEF BeginAppend, NamesBlobs, FlagsOK
  <2>2. NumbersOK'
    BY <1>1 DEF BeginAppend, NamesBlobs, NumbersOK
  <2>3. SetsOK'
    BY <1>1 DEF BeginAppend, NamesBlobs, SetsOK, NumbersOK
  <2>4. SequencesOK'
    BY <1>1 DEF BeginAppend, NamesBlobs, SequencesOK
  <2>5. ThreadsOK'
    BY <1>1, <2>0 DEF BeginAppend, NamesBlobs, ThreadsOK, NumbersOK, Threads,
       Steps
  <2>6. SlotInv'
    BY <1>1 DEF BeginAppend, NamesBlobs, SlotInv, ThreadsOK, Threads, Steps
  <2> QED
    BY <2>1, <2>2, <2>3, <2>4, <2>5, <2>6
<1>2. ASSUME NEW t \in Appenders, SyncAppended(t)
      PROVE  TypeInv'
  <2>0. [NoOp EXCEPT !.kind = "sync", !.commit = written] \in Ops
    BY <1>0 DEF Ops, NumbersOK, SetsOK, Target
  <2>1. FlagsOK'
    BY <1>2 DEF SyncAppended, FlagsOK
  <2>2. NumbersOK'
    BY <1>2 DEF SyncAppended, NumbersOK
  <2>3. SetsOK'
    BY <1>2 DEF SyncAppended, SetsOK, NumbersOK
  <2>4. SequencesOK'
    BY <1>2 DEF SyncAppended, SequencesOK
  <2>5. ThreadsOK'
    BY <1>2, <2>0 DEF SyncAppended, ThreadsOK, NumbersOK, Threads, Steps
  <2>6. SlotInv'
    BY <1>2 DEF SyncAppended, SlotInv, ThreadsOK, Threads, Steps
  <2> QED
    BY <2>1, <2>2, <2>3, <2>4, <2>5, <2>6
<1>3. ASSUME NEW t \in Appenders, NEW c \in mem, Truncate(t, c)
      PROVE  TypeInv'
  <2>1. FlagsOK'
    BY <1>3 DEF Truncate, FlagsOK
  <2>2. NumbersOK'
    BY <1>3 DEF Truncate, NumbersOK
  <2>3. SetsOK'
    BY <1>3 DEF Truncate, SetsOK, NumbersOK, Through
  <2>4. SequencesOK'
    <3>1. tail \o queue \in Seq(RecordNumber)
      BY ConcatProperties DEF SequencesOK
    <3>2. ThroughSeq(tail \o queue, c) \in Seq(RecordNumber)
      BY <3>1, ThroughSeqType
    <3>3. \/ tail' = ThroughSeq(tail \o queue, c) /\ queue' = <<>>
          \/ tail' = tail /\ queue' = queue
      BY <1>3 DEF Truncate
    <3>4. CASE tail' = ThroughSeq(tail \o queue, c) /\ queue' = <<>>
      BY <3>2, <3>4 DEF SequencesOK
    <3>5. CASE tail' = tail /\ queue' = queue
      BY <3>5 DEF SequencesOK
    <3> QED
      BY <3>3, <3>4, <3>5
  <2>5. ThreadsOK'
    BY <1>3 DEF Truncate, ThreadsOK, NumbersOK, Threads, Steps
  <2>6. SlotInv'
    BY <1>3 DEF Truncate, SlotInv, ThreadsOK, Threads, Steps
  <2> QED
    BY <2>1, <2>2, <2>3, <2>4, <2>5, <2>6
<1>4. ASSUME NEW t \in Appenders, NEW c \in mem, TruncateFails(t, c)
      PROVE  TypeInv'
  <2>1. FlagsOK'
    BY <1>4 DEF TruncateFails, FlagsOK
  <2>2. NumbersOK'
    BY <1>4 DEF TruncateFails, NumbersOK
  <2>3. SetsOK'
    BY <1>4 DEF TruncateFails, SetsOK, NumbersOK, Through
  <2>4. SequencesOK'
    BY <1>4 DEF TruncateFails, SequencesOK
  <2>5. ThreadsOK'
    BY <1>4 DEF TruncateFails, ThreadsOK, NumbersOK, Threads, Steps
  <2>6. SlotInv'
    BY <1>4 DEF TruncateFails, SlotInv, ThreadsOK, Threads, Steps
  <2> QED
    BY <2>1, <2>2, <2>3, <2>4, <2>5, <2>6
<1>5. ASSUME NEW t \in Closers, SuspendWriter(t)
      PROVE  TypeInv'
  <2>0. [NoOp EXCEPT !.kind = "close", !.target = Target,
                     !.taken = blobs, !.fd = TRUE] \in Ops
    BY <1>0 DEF Ops, NumbersOK, SetsOK, Target
  <2>1. FlagsOK'
    BY <1>5 DEF SuspendWriter, FlagsOK
  <2>2. NumbersOK'
    BY <1>5 DEF SuspendWriter, NumbersOK
  <2>3. SetsOK'
    BY <1>5 DEF SuspendWriter, SetsOK, NumbersOK
  <2>4. SequencesOK'
    BY <1>5 DEF SuspendWriter, SequencesOK
  <2>5. ThreadsOK'
    BY <1>5, <2>0 DEF SuspendWriter, ThreadsOK, NumbersOK, Threads, Steps
  <2>6. SlotInv'
    BY <1>5 DEF SuspendWriter, SlotInv, ThreadsOK, Threads, Steps
  <2> QED
    BY <2>1, <2>2, <2>3, <2>4, <2>5, <2>6
<1>6. ASSUME NEW t \in Threads, WriteRecord(t)
      PROVE  TypeInv'
  <2>1. FlagsOK'
    BY <1>6 DEF WriteRecord, OpenWriter, FlagsOK
  <2>2. NumbersOK'
    BY <1>6 DEF WriteRecord, OpenWriter, NumbersOK, SlotInv, ThreadsOK,
       RecordNumber
  <2>3. SetsOK'
    BY <1>6 DEF WriteRecord, OpenWriter, SetsOK, NumbersOK, SlotInv,
       ThreadsOK, RecordNumber, Ops
  <2>4. SequencesOK'
    BY <1>6 DEF WriteRecord, OpenWriter, SequencesOK
  <2>5. ThreadsOK'
    BY <1>6 DEF WriteRecord, OpenWriter, ThreadsOK, NumbersOK, Threads, Steps,
       SlotInv, Ops,
       RecordNumber
  <2>6. SlotInv'
    BY <1>6 DEF WriteRecord, OpenWriter, SlotInv, ThreadsOK, Threads, Steps
  <2> QED
    BY <2>1, <2>2, <2>3, <2>4, <2>5, <2>6
<1>7. ASSUME NEW t \in Threads, WriteFails(t)
      PROVE  TypeInv'
  <2>1. FlagsOK'
    BY <1>7 DEF WriteFails, OpenWriter, FlagsOK
  <2>2. NumbersOK'
    BY <1>7 DEF WriteFails, OpenWriter, NumbersOK
  <2>3. SetsOK'
    BY <1>7 DEF WriteFails, OpenWriter, SetsOK, NumbersOK
  <2>4. SequencesOK'
    BY <1>7 DEF WriteFails, OpenWriter, SequencesOK
  <2>5. ThreadsOK'
    BY <1>7, <1>0 DEF WriteFails, OpenWriter, ThreadsOK, NumbersOK, Threads,
       Steps
  <2>6. SlotInv'
    BY <1>7 DEF WriteFails, OpenWriter, SlotInv, ThreadsOK, Threads, Steps
  <2> QED
    BY <2>1, <2>2, <2>3, <2>4, <2>5, <2>6
<1>8. ASSUME NEW t \in Threads, QueuePublication(t)
      PROVE  TypeInv'
  <2>1. FlagsOK'
    BY <1>8 DEF QueuePublication, FlagsOK
  <2>2. NumbersOK'
    BY <1>8 DEF QueuePublication, NumbersOK
  <2>3. SetsOK'
    BY <1>8 DEF QueuePublication, SetsOK, NumbersOK
  <2>4. SequencesOK'
    BY <1>8, ReadyPrefixType, AppendProperties, ConcatProperties
       DEF QueuePublication, SequencesOK, PublishReady, ThreadsOK, Ops
  <2>5. ThreadsOK'
    BY <1>8, <1>0 DEF QueuePublication, ThreadsOK, NumbersOK, Threads, Steps,
       Ops
  <2>6. SlotInv'
    BY <1>8 DEF QueuePublication, SlotInv, ThreadsOK, Threads, Steps
  <2> QED
    BY <2>1, <2>2, <2>3, <2>4, <2>5, <2>6
<1>9. ASSUME NEW t \in Threads, Covered(t)
      PROVE  TypeInv'
  <2>1. FlagsOK'
    BY <1>9 DEF Covered, FlagsOK
  <2>2. NumbersOK'
    BY <1>9 DEF Covered, NumbersOK
  <2>3. SetsOK'
    BY <1>9 DEF Covered, SetsOK, NumbersOK
  <2>4. SequencesOK'
    BY <1>9 DEF Covered, SequencesOK
  <2>5. ThreadsOK'
    <3>0. [op[t] EXCEPT !.ok = TRUE] \in Ops
      BY DEF ThreadsOK, Ops
    <3>1. slot' \in Threads \cup {Nobody}
      BY <1>9 DEF Covered, ThreadsOK
    <3>2. pc' \in [Threads -> Steps]
      BY <1>9 DEF Covered, ThreadsOK, Steps
    <3>3. op' \in [Threads -> Ops]
      BY <1>9, <3>0 DEF Covered, ThreadsOK
    <3>4. owed' \in [Threads -> SUBSET RecordNumber]
      BY <1>9 DEF Covered, ThreadsOK
    <3> QED
      BY <3>1, <3>2, <3>3, <3>4 DEF ThreadsOK
  <2>6. SlotInv'
    BY <1>9 DEF Covered, SlotInv, ThreadsOK, Threads, Steps
  <2> QED
    BY <2>1, <2>2, <2>3, <2>4, <2>5, <2>6
<1>10. ASSUME NEW t \in Threads, WaitForSync(t)
      PROVE  TypeInv'
  <2>1. FlagsOK'
    BY <1>10 DEF WaitForSync, FlagsOK
  <2>2. NumbersOK'
    BY <1>10 DEF WaitForSync, NumbersOK
  <2>3. SetsOK'
    BY <1>10 DEF WaitForSync, SetsOK, NumbersOK
  <2>4. SequencesOK'
    BY <1>10 DEF WaitForSync, SequencesOK
  <2>5. ThreadsOK'
    BY <1>10 DEF WaitForSync, ThreadsOK, NumbersOK, Threads, Steps
  <2>6. SlotInv'
    BY <1>10 DEF WaitForSync, SlotInv, ThreadsOK, Threads, Steps
  <2> QED
    BY <2>1, <2>2, <2>3, <2>4, <2>5, <2>6
<1>11. ASSUME NEW t \in Threads, StartSync(t)
      PROVE  TypeInv'
  <2>1. FlagsOK'
    BY <1>11 DEF StartSync, FlagsOK
  <2>2. NumbersOK'
    BY <1>11 DEF StartSync, NumbersOK
  <2>3. SetsOK'
    BY <1>11 DEF StartSync, SetsOK, NumbersOK
  <2>4. SequencesOK'
    BY <1>11 DEF StartSync, SequencesOK
  <2>5. ThreadsOK'
    <3>0. [op[t] EXCEPT !.target = Target, !.taken = blobs, !.fd = dupFd] \in Ops
      BY <1>11 DEF ThreadsOK, Ops, NumbersOK, SetsOK, FlagsOK, Target
    <3>1. slot' \in Threads \cup {Nobody}
      BY <1>11 DEF StartSync, ThreadsOK, Threads
    <3>2. pc' \in [Threads -> Steps]
      BY <1>11 DEF StartSync, ThreadsOK, Steps
    <3>3. op' \in [Threads -> Ops]
      BY <1>11, <3>0 DEF StartSync, ThreadsOK
    <3>4. owed' \in [Threads -> SUBSET RecordNumber]
      BY <1>11 DEF StartSync, ThreadsOK
    <3> QED
      BY <3>1, <3>2, <3>3, <3>4 DEF ThreadsOK
  <2>6. SlotInv'
    BY <1>11 DEF StartSync, SlotInv, ThreadsOK, Threads, Steps
  <2> QED
    BY <2>1, <2>2, <2>3, <2>4, <2>5, <2>6
<1>12. ASSUME NEW t \in Threads, SyncBlobs(t)
      PROVE  TypeInv'
  <2>1. FlagsOK'
    BY <1>12 DEF SyncBlobs, FlagsOK
  <2>2. NumbersOK'
    BY <1>12 DEF SyncBlobs, NumbersOK
  <2>3. SetsOK'
    BY <1>12 DEF SyncBlobs, SetsOK, NumbersOK, ThreadsOK, Ops
  <2>4. SequencesOK'
    BY <1>12 DEF SyncBlobs, SequencesOK
  <2>5. ThreadsOK'
    BY <1>12 DEF SyncBlobs, ThreadsOK, NumbersOK, Threads, Steps
  <2>6. SlotInv'
    BY <1>12 DEF SyncBlobs, SlotInv, ThreadsOK, Threads, Steps
  <2> QED
    BY <2>1, <2>2, <2>3, <2>4, <2>5, <2>6
<1>13. ASSUME NEW t \in Threads, SyncFile(t)
      PROVE  TypeInv'
  <2>1. FlagsOK'
    BY <1>13 DEF SyncFile, FlagsOK
  <2>2. NumbersOK'
    BY <1>13 DEF SyncFile, NumbersOK, MaxOf, ThreadsOK, Ops
  <2>3. SetsOK'
    BY <1>13 DEF SyncFile, SetsOK, NumbersOK
  <2>4. SequencesOK'
    BY <1>13 DEF SyncFile, SequencesOK
  <2>5. ThreadsOK'
    <3>0. [op[t] EXCEPT !.ok = TRUE] \in Ops
      BY DEF ThreadsOK, Ops
    <3>1. slot' \in Threads \cup {Nobody}
      BY <1>13 DEF SyncFile, ThreadsOK
    <3>2. pc' \in [Threads -> Steps]
      BY <1>13 DEF SyncFile, ThreadsOK, Steps
    <3>3. op' \in [Threads -> Ops]
      BY <1>13, <3>0 DEF SyncFile, ThreadsOK
    <3>4. owed' \in [Threads -> SUBSET RecordNumber]
      BY <1>13 DEF SyncFile, ThreadsOK
    <3> QED
      BY <3>1, <3>2, <3>3, <3>4 DEF ThreadsOK
  <2>6. SlotInv'
    BY <1>13 DEF SyncFile, SlotInv, ThreadsOK, Threads, Steps
  <2> QED
    BY <2>1, <2>2, <2>3, <2>4, <2>5, <2>6
<1>14. ASSUME NEW t \in Threads, SyncFails(t)
      PROVE  TypeInv'
  <2>1. FlagsOK'
    BY <1>14 DEF SyncFails, FlagsOK
  <2>2. NumbersOK'
    BY <1>14 DEF SyncFails, NumbersOK
  <2>3. SetsOK'
    BY <1>14 DEF SyncFails, SetsOK, NumbersOK
  <2>4. SequencesOK'
    BY <1>14 DEF SyncFails, SequencesOK
  <2>5. ThreadsOK'
    <3>0. [op[t] EXCEPT !.ok = FALSE] \in Ops
      BY DEF ThreadsOK, Ops
    <3>1. slot' \in Threads \cup {Nobody}
      BY <1>14 DEF SyncFails, ThreadsOK
    <3>2. pc' \in [Threads -> Steps]
      BY <1>14 DEF SyncFails, ThreadsOK, Steps
    <3>3. op' \in [Threads -> Ops]
      BY <1>14, <3>0 DEF SyncFails, ThreadsOK
    <3>4. owed' \in [Threads -> SUBSET RecordNumber]
      BY <1>14 DEF SyncFails, ThreadsOK
    <3> QED
      BY <3>1, <3>2, <3>3, <3>4 DEF ThreadsOK
  <2>6. SlotInv'
    BY <1>14 DEF SyncFails, SlotInv, ThreadsOK, Threads, Steps
  <2> QED
    BY <2>1, <2>2, <2>3, <2>4, <2>5, <2>6
<1>15. ASSUME NEW t \in Threads, EndSync(t)
      PROVE  TypeInv'
  <2>1. FlagsOK'
    BY <1>15 DEF EndSync, FlagsOK
  <2>2. NumbersOK'
    BY <1>15 DEF EndSync, NumbersOK, MaxOf, ThreadsOK, Ops
  <2>3. SetsOK'
    BY <1>15 DEF EndSync, SetsOK, NumbersOK, ThreadsOK, Ops, Restored
  <2>4. SequencesOK'
    BY <1>15 DEF EndSync, SequencesOK
  <2>5. ThreadsOK'
    <3>0. [op[t] EXCEPT !.ok = FALSE, !.taken = {}, !.target = 0, !.fd = FALSE]
             \in Ops
      <4>1. op[t] \in Ops /\ 0 \in RecordNumber
        BY DEF ThreadsOK, RecordNumber
      <4> QED
        BY <4>1 DEF Ops
    <3>1. slot' \in Threads \cup {Nobody}
      BY <1>15 DEF EndSync, ThreadsOK, Threads
    <3>2. pc' \in [Threads -> Steps]
      BY <1>15 DEF EndSync, ThreadsOK, Steps, Woken
    <3>3. op' \in [Threads -> Ops]
      BY <1>15, <3>0 DEF EndSync, ThreadsOK
    <3>4. owed' \in [Threads -> SUBSET RecordNumber]
      BY <1>15 DEF EndSync, ThreadsOK
    <3> QED
      BY <3>1, <3>2, <3>3, <3>4 DEF ThreadsOK
  <2>6. SlotInv'
    BY <1>15 DEF EndSync, SlotInv, ThreadsOK, Threads, Steps, Woken
  <2> QED
    BY <2>1, <2>2, <2>3, <2>4, <2>5, <2>6
<1>16. ASSUME NEW t \in Threads, Return(t)
      PROVE  TypeInv'
  <2>1. FlagsOK'
    BY <1>16 DEF Return, FlagsOK
  <2>2. NumbersOK'
    BY <1>16 DEF Return, NumbersOK
  <2>3. SetsOK'
    BY <1>16 DEF Return, SetsOK, NumbersOK, ThreadsOK, Ops
  <2>4. SequencesOK'
    BY <1>16, ReadyPrefixType, ConcatProperties
       DEF Return, SequencesOK, PublishReady, PublishSettled
  <2>5. ThreadsOK'
    <3>1. slot' \in Threads \cup {Nobody}
      BY <1>16 DEF Return, ThreadsOK, Threads
    <3>2. pc' \in [Threads -> Steps]
      BY <1>16 DEF Return, ThreadsOK, Steps
    <3>3. op' \in [Threads -> Ops]
      BY <1>16, <1>0 DEF Return, ThreadsOK
    <3>4. owed' \in [Threads -> SUBSET RecordNumber]
      BY <1>16 DEF Return, ThreadsOK
    <3> QED
      BY <3>1, <3>2, <3>3, <3>4 DEF ThreadsOK
  <2>6. SlotInv'
    BY <1>16 DEF Return, SlotInv, ThreadsOK, Threads, Steps
  <2> QED
    BY <2>1, <2>2, <2>3, <2>4, <2>5, <2>6
<1>17. ASSUME NEW t \in Threads, EndClose(t)
      PROVE  TypeInv'
  <2>1. FlagsOK'
    BY <1>17 DEF EndClose, FlagsOK
  <2>2. NumbersOK'
    BY <1>17 DEF EndClose, NumbersOK, MaxOf, ThreadsOK, Ops
  <2>3. SetsOK'
    BY <1>17 DEF EndClose, SetsOK, NumbersOK, ThreadsOK, Ops, Restored
  <2>4. SequencesOK'
    BY <1>17 DEF EndClose, SequencesOK
  <2>5. ThreadsOK'
    <3>1. slot' \in Threads \cup {Nobody}
      BY <1>17 DEF EndClose, ThreadsOK, Threads
    <3>2. pc' \in [Threads -> Steps]
      BY <1>17 DEF EndClose, ThreadsOK, Steps, Woken
    <3>3. op' \in [Threads -> Ops]
      BY <1>17, <1>0 DEF EndClose, ThreadsOK
    <3>4. owed' \in [Threads -> SUBSET RecordNumber]
      BY <1>17 DEF EndClose, ThreadsOK
    <3> QED
      BY <3>1, <3>2, <3>3, <3>4 DEF ThreadsOK
  <2>6. SlotInv'
    BY <1>17 DEF EndClose, SlotInv, ThreadsOK, Threads, Steps, Woken
  <2> QED
    BY <2>1, <2>2, <2>3, <2>4, <2>5, <2>6
<1>18. ASSUME ProcessCrash
      PROVE  TypeInv'
  <2>1. FlagsOK'
    BY <1>18 DEF ProcessCrash, FlagsOK, Reopen
  <2>2. NumbersOK'
    BY <1>18 DEF ProcessCrash, NumbersOK, Reopen
  <2>3. SetsOK'
    BY <1>18 DEF ProcessCrash, SetsOK, NumbersOK, Reopen
  <2>4. SequencesOK'
    BY <1>18 DEF ProcessCrash, SequencesOK, Reopen
  <2>5. ThreadsOK'
    BY <1>18, <1>0 DEF ProcessCrash, ThreadsOK, NumbersOK, Threads, Steps,
       Reopen
  <2>6. SlotInv'
    BY <1>18 DEF ProcessCrash, SlotInv, ThreadsOK, Threads, Steps, Reopen
  <2> QED
    BY <2>1, <2>2, <2>3, <2>4, <2>5, <2>6
<1>19. ASSUME MachineCrash
      PROVE  TypeInv'
  <2>1. FlagsOK'
    BY <1>19 DEF MachineCrash, FlagsOK, Reopen
  <2>2. NumbersOK'
    BY <1>19 DEF MachineCrash, NumbersOK, Reopen
  <2>3. SetsOK'
    BY <1>19 DEF MachineCrash, SetsOK, NumbersOK, Reopen
  <2>4. SequencesOK'
    BY <1>19 DEF MachineCrash, SequencesOK, Reopen
  <2>5. ThreadsOK'
    BY <1>19, <1>0 DEF MachineCrash, ThreadsOK, NumbersOK, Threads, Steps,
       Reopen
  <2>6. SlotInv'
    BY <1>19 DEF MachineCrash, SlotInv, ThreadsOK, Threads, Steps, Reopen
  <2> QED
    BY <2>1, <2>2, <2>3, <2>4, <2>5, <2>6
<1>20. ASSUME NEW t \in Appenders, NEW bs \in SUBSET Blobs, StoreFails(t, bs)
      PROVE  TypeInv'
  <2>1. FlagsOK' /\ NumbersOK' /\ SequencesOK' /\ ThreadsOK' /\ SlotInv'
    BY <1>20 DEF StoreFails, FlagsOK, NumbersOK, SequencesOK, ThreadsOK, SlotInv
  <2>2. SetsOK'
    BY <1>20 DEF StoreFails, SetsOK
  <2> QED
    BY <2>1, <2>2
<1>21. ASSUME NEW t \in Threads, CacheFails(t)
      PROVE  TypeInv'
  <2>1. FlagsOK' /\ NumbersOK' /\ SetsOK' /\ SequencesOK'
    BY <1>21 DEF CacheFails, FlagsOK, NumbersOK, SetsOK, SequencesOK
  <2>2. ThreadsOK'
    BY <1>21, <1>0 DEF CacheFails, ThreadsOK, Steps
  <2>3. SlotInv'
    BY <1>21 DEF CacheFails, SlotInv, ThreadsOK, Threads
  <2> QED
    BY <2>1, <2>2, <2>3
<1>22. CASE UNCHANGED vars
  BY <1>22 DEF FlagsOK, NumbersOK, SetsOK, SequencesOK, ThreadsOK, SlotInv, vars
<1> QED
  BY <1>1, <1>2, <1>3, <1>4, <1>5, <1>6, <1>7, <1>8, <1>9, <1>10, <1>11, <1>12,
     <1>13, <1>14, <1>15, <1>16, <1>17, <1>18, <1>19, <1>20, <1>21, <1>22
     DEF Next, Step

(* Every variable keeps its type: in particular two threads never take the
   log past its bound, because write_event holds the session's slot from its
   check to its write. *)
THEOREM TypeCorrect == Spec => []TypeOK
<1>1. Init => TypeInv
  BY InitType
<1>2. TypeInv /\ [Next]_vars => TypeInv'
  BY NextType
<1>3. TypeInv => TypeOK
  BY DEF TypeInv
<1> QED
  BY <1>1, <1>2, <1>3, PTL DEF Spec

-----------------------------------------------------------------------------
(* Acknowledged records are durable. *)

(* The numbers the proof compares are naturals. *)
NumberTypes ==
    /\ written \in Nat /\ synced \in Nat /\ flushed \in Nat /\ base \in Nat
    /\ acked \subseteq Nat /\ mem \subseteq Nat /\ file \subseteq Nat
    /\ \A u \in Threads : /\ op[u].commit \in Nat
                          /\ op[u].target \in Nat
                          /\ owed[u] \subseteq Nat

LEMMA TypeGivesNumbers == TypeOK => NumberTypes
<1> SUFFICES ASSUME TypeOK PROVE NumberTypes
  OBVIOUS
<1>1. RecordNumber \subseteq Nat
  BY DEF RecordNumber
<1>2. \A u \in Threads : /\ op[u].commit \in RecordNumber
                         /\ op[u].target \in RecordNumber
                         /\ owed[u] \subseteq RecordNumber
  BY DEF TypeOK, ThreadsOK, Ops
<1> QED
  BY <1>1, <1>2 DEF NumberTypes, TypeOK, NumbersOK, SetsOK

(* The I/O errors that leave a part of a record behind, or a cut file under
   an uncut log, do not happen. *)
WholeWrites == Faults \cap {"torn", "halfcut"} = {}

LEMMA InitSync == Init => SyncInv
  BY DEF Init, SyncInv, CountsInv, AckedDurable, ThreadInv, NoOp, InFlight

LEMMA NextSync ==
    ASSUME WholeWrites
    PROVE  TypeInv /\ SyncInv /\ [Next]_vars => SyncInv'
<1> SUFFICES ASSUME TypeInv, SyncInv, [Next]_vars PROVE SyncInv'
  OBVIOUS
<1> USE DEF SyncInv, durabilityVars, storeVars, publicationVars, fileVars,
            recordVars, historyVars
<1>0. /\ NumberTypes /\ SlotInv /\ (dupFd \in BOOLEAN) /\ (writer \in BOOLEAN)
      /\ (pc \in [Threads -> Steps]) /\ (op \in [Threads -> Ops])
      /\ (owed \in [Threads -> SUBSET RecordNumber])
  BY TypeGivesNumbers DEF TypeInv, TypeOK, FlagsOK, ThreadsOK
<1>1. ASSUME NEW t \in Appenders, NEW kind \in Kinds,
             NEW bs \in SUBSET Blobs, BeginAppend(t, kind, bs)
      PROVE  SyncInv'
  <2>1. ~torn' /\ CountsInv'
    BY <1>1, <1>0 DEF BeginAppend, NamesBlobs, CountsInv
  <2>2. AckedDurable'
    BY <1>1, <1>0 DEF BeginAppend, NamesBlobs, AckedDurable
  <2>3. ASSUME NEW u \in Threads PROVE ThreadInv(u)'
    BY <1>1, <1>0 DEF BeginAppend, NamesBlobs, ThreadInv, InFlight, Threads,
       NoOp,
       NumberTypes
  <2> QED
    BY <2>1, <2>2, <2>3
<1>2. ASSUME NEW t \in Appenders, SyncAppended(t)
      PROVE  SyncInv'
  <2>1. ~torn' /\ CountsInv'
    BY <1>2, <1>0 DEF SyncAppended, CountsInv
  <2>2. AckedDurable'
    BY <1>2, <1>0 DEF SyncAppended, AckedDurable
  <2>3. ASSUME NEW u \in Threads PROVE ThreadInv(u)'
    BY <1>2, <1>0 DEF SyncAppended, ThreadInv, InFlight, Threads, NoOp,
       NumberTypes
  <2> QED
    BY <2>1, <2>2, <2>3
<1>3. ASSUME NEW t \in Appenders, NEW c \in mem, Truncate(t, c)
      PROVE  SyncInv'
  <2>1. ~torn' /\ CountsInv'
    BY <1>3, <1>0 DEF Truncate, CountsInv, NumberTypes
  <2>2. AckedDurable'
    <3>1. flushed' = written /\ acked' = Through(acked, c)
          /\ file' = Through(file, c)
      BY <1>3 DEF Truncate
    <3>2. \A n \in acked : n \in file /\ n <= written
      BY <1>0 DEF AckedDurable, CountsInv, NumberTypes
    <3> QED
      BY <3>1, <3>2 DEF AckedDurable, Through
  <2>3. ASSUME NEW u \in Threads PROVE ThreadInv(u)'
    <3>1. pc[u] = "idle" /\ pc' = pc /\ op' = op /\ owed' = owed
      BY <1>3, <1>0 DEF Truncate, NoRunActive, SlotInv, Threads
    <3>2. u \in Appenders => owed[u] = {}
      BY <1>3 DEF Truncate, NoRunActive
    <3>3. op[u].target <= written'
      BY <1>3 DEF Truncate, ThreadInv
    <3> QED
      BY <3>1, <3>2, <3>3 DEF ThreadInv, InFlight
  <2> QED
    BY <2>1, <2>2, <2>3
<1>4. ASSUME NEW t \in Appenders, NEW c \in mem, TruncateFails(t, c)
      PROVE  SyncInv'
  <2>1. ~torn' /\ CountsInv'
    <3>1. ~torn' /\ ~writer' /\ written' = written /\ base' = base
      BY <1>4 DEF TruncateFails, WholeWrites
    <3>2. \/ synced' = written /\ flushed' = written
          \/ /\ synced' = synced /\ flushed' = flushed
             /\ dupFd' = (dupFd /\ (writer => synced < written))
      BY <1>4 DEF TruncateFails
    <3> QED
      BY <3>1, <3>2, <1>0 DEF CountsInv, NumberTypes
  <2>2. AckedDurable'
    <3>1. acked' = acked /\ file' = file
      BY <1>4 DEF TruncateFails, WholeWrites
    <3>2. flushed' = flushed \/ flushed' = written
      BY <1>4 DEF TruncateFails
    <3>3. \A n \in acked : n <= flushed'
      BY <1>0, <3>2 DEF AckedDurable, CountsInv, NumberTypes
    <3> QED
      BY <3>1, <3>3 DEF AckedDurable
  <2>3. ASSUME NEW u \in Threads PROVE ThreadInv(u)'
    <3>1. pc[u] = "idle" /\ pc' = pc /\ op' = op /\ owed' = owed
      BY <1>4, <1>0 DEF TruncateFails, NoRunActive, SlotInv, Threads
    <3>2. u \in Appenders => owed[u] = {}
      BY <1>4 DEF TruncateFails, NoRunActive
    <3>3. op[u].target <= written'
      BY <1>4 DEF TruncateFails, ThreadInv
    <3> QED
      BY <3>1, <3>2, <3>3 DEF ThreadInv, InFlight
  <2> QED
    BY <2>1, <2>2, <2>3
<1>5. ASSUME NEW t \in Closers, SuspendWriter(t)
      PROVE  SyncInv'
  <2>1. ~torn' /\ CountsInv'
    <3>1. /\ written' = written /\ synced' = synced /\ flushed' = flushed
          /\ base' = base /\ torn' = torn /\ ~writer'
      BY <1>5 DEF SuspendWriter
    <3>2. synced < written => dupFd' = dupFd
      BY <1>5, <1>0 DEF SuspendWriter, NumberTypes
    <3> QED
      BY <3>1, <3>2 DEF CountsInv
  <2>2. AckedDurable'
    BY <1>5, <1>0 DEF SuspendWriter, AckedDurable
  <2>3. ASSUME NEW u \in Threads PROVE ThreadInv(u)'
    <3>1. CASE u = t
      <4>1. CASE synced >= written
        BY <1>5, <1>0, <3>1, <4>1 DEF SuspendWriter, ThreadInv, InFlight
      <4>2. CASE ~(synced >= written)
        <5>1. /\ op'[t].target = written /\ op'[t].fd = TRUE
              /\ op'[t].ok = FALSE /\ pc'[t] = "blobs"
          <6>1. op'[t] = [NoOp EXCEPT !.kind = "close", !.target = Target,
                                      !.taken = blobs, !.fd = TRUE]
                /\ pc'[t] = "blobs"
            BY <1>5, <1>0, <4>2 DEF SuspendWriter, Threads
          <6> QED
            BY <6>1 DEF NoOp, Target
        <5>2. t \notin Appenders /\ written' = written /\ ~writer'
          BY <1>5 DEF SuspendWriter
        <5> QED
          BY <3>1, <5>1, <5>2, <1>0 DEF ThreadInv, NumberTypes
      <4> QED
        BY <4>1, <4>2
    <3>2. CASE u # t
      <4>1. pc'[u] = pc[u] /\ op'[u] = op[u]
        BY <1>5, <1>0, <3>2 DEF SuspendWriter, Threads
      <4> QED
        BY <1>5, <4>1 DEF SuspendWriter, ThreadInv, InFlight
    <3> QED
      BY <3>1, <3>2
  <2> QED
    BY <2>1, <2>2, <2>3
<1>6. ASSUME NEW t \in Threads, WriteRecord(t)
      PROVE  SyncInv'
  <2>1. ~torn' /\ CountsInv'
    <3>1. /\ written' = written + 1 /\ synced' = synced /\ flushed' = flushed
          /\ base' = base /\ ~torn'
      BY <1>6 DEF WriteRecord
    <3>2. dupFd'
      <4>1. dupFd' = (dupFd \/ ~writer)
        BY <1>6 DEF WriteRecord, OpenWriter
      <4> QED
        BY <4>1 DEF CountsInv
    <3> QED
      BY <1>0, <3>1, <3>2 DEF CountsInv, NumberTypes
  <2>2. AckedDurable'
    BY <1>6, <1>0 DEF WriteRecord, OpenWriter, AckedDurable
  <2>3. ASSUME NEW u \in Threads PROVE ThreadInv(u)'
    BY <1>6, <1>0 DEF WriteRecord, OpenWriter, CountsInv, ThreadInv, SlotInv,
       InFlight,
       Threads, NumberTypes
  <2> QED
    BY <2>1, <2>2, <2>3
<1>7. ASSUME NEW t \in Threads, WriteFails(t)
      PROVE  SyncInv'
  <2>1. ~torn' /\ CountsInv'
    <3>1. /\ written' = written /\ synced' = synced /\ flushed' = flushed
          /\ base' = base /\ ~torn'
      BY <1>7 DEF WriteFails, OpenWriter, WholeWrites
    <3>2. dupFd' \/ (dupFd' = dupFd /\ writer' = writer)
      <4>1. \/ dupFd' = dupFd /\ writer' = writer
            \/ dupFd' = (dupFd \/ ~writer)
        BY <1>7 DEF WriteFails, OpenWriter
      <4> QED
        BY <4>1 DEF CountsInv
    <3> QED
      BY <3>1, <3>2 DEF CountsInv
  <2>2. AckedDurable'
    BY <1>7, <1>0 DEF WriteFails, OpenWriter, AckedDurable
  <2>3. ASSUME NEW u \in Threads PROVE ThreadInv(u)'
    BY <1>7, <1>0 DEF WriteFails, OpenWriter, ThreadInv, SlotInv, InFlight,
       Threads, NoOp,
       NumberTypes
  <2> QED
    BY <2>1, <2>2, <2>3
<1>8. ASSUME NEW t \in Threads, QueuePublication(t)
      PROVE  SyncInv'
  <2>1. ~torn' /\ CountsInv'
    BY <1>8, <1>0 DEF QueuePublication, CountsInv
  <2>2. AckedDurable'
    BY <1>8, <1>0 DEF QueuePublication, AckedDurable
  <2>3. ASSUME NEW u \in Threads PROVE ThreadInv(u)'
    BY <1>8, <1>0 DEF QueuePublication, ThreadInv, SlotInv, InFlight, Threads,
       NoOp, NumberTypes
  <2> QED
    BY <2>1, <2>2, <2>3
<1>9. ASSUME NEW t \in Threads, Covered(t)
      PROVE  SyncInv'
  <2>1. ~torn' /\ CountsInv'
    BY <1>9, <1>0 DEF Covered, CountsInv
  <2>2. AckedDurable'
    BY <1>9, <1>0 DEF Covered, AckedDurable
  <2>3. ASSUME NEW u \in Threads PROVE ThreadInv(u)'
    BY <1>9, <1>0 DEF Covered, CountsInv, ThreadInv, SlotInv, InFlight,
       Threads, NumberTypes
  <2> QED
    BY <2>1, <2>2, <2>3
<1>10. ASSUME NEW t \in Threads, WaitForSync(t)
      PROVE  SyncInv'
  <2>1. ~torn' /\ CountsInv'
    BY <1>10, <1>0 DEF WaitForSync, CountsInv
  <2>2. AckedDurable'
    BY <1>10, <1>0 DEF WaitForSync, AckedDurable
  <2>3. ASSUME NEW u \in Threads PROVE ThreadInv(u)'
    BY <1>10, <1>0 DEF WaitForSync, ThreadInv, InFlight, Threads
  <2> QED
    BY <2>1, <2>2, <2>3
<1>11. ASSUME NEW t \in Threads, StartSync(t)
      PROVE  SyncInv'
  <2>1. ~torn' /\ CountsInv'
    BY <1>11, <1>0 DEF StartSync, CountsInv
  <2>2. AckedDurable'
    BY <1>11, <1>0 DEF StartSync, AckedDurable
  <2>3. ASSUME NEW u \in Threads PROVE ThreadInv(u)'
    BY <1>11, <1>0 DEF StartSync, CountsInv, ThreadInv, SlotInv, InFlight,
       Target, Threads, NumberTypes
  <2> QED
    BY <2>1, <2>2, <2>3
<1>12. ASSUME NEW t \in Threads, SyncBlobs(t)
      PROVE  SyncInv'
  <2>1. ~torn' /\ CountsInv'
    BY <1>12, <1>0 DEF SyncBlobs, CountsInv
  <2>2. AckedDurable'
    BY <1>12, <1>0 DEF SyncBlobs, AckedDurable
  <2>3. ASSUME NEW u \in Threads PROVE ThreadInv(u)'
    BY <1>12, <1>0 DEF SyncBlobs, ThreadInv, InFlight, Threads
  <2> QED
    BY <2>1, <2>2, <2>3
<1>13. ASSUME NEW t \in Threads, SyncFile(t)
      PROVE  SyncInv'
  <2>1. ~torn' /\ CountsInv'
    BY <1>13, <1>0 DEF SyncFile, CountsInv, ThreadInv, MaxOf, NumberTypes
  <2>2. AckedDurable'
    BY <1>13, <1>0 DEF SyncFile, AckedDurable, MaxOf, NumberTypes
  <2>3. ASSUME NEW u \in Threads PROVE ThreadInv(u)'
    BY <1>13, <1>0 DEF SyncFile, ThreadInv, InFlight, Threads, MaxOf,
       NumberTypes
  <2> QED
    BY <2>1, <2>2, <2>3
<1>14. ASSUME NEW t \in Threads, SyncFails(t)
      PROVE  SyncInv'
  <2>1. ~torn' /\ CountsInv'
    BY <1>14, <1>0 DEF SyncFails, CountsInv
  <2>2. AckedDurable'
    BY <1>14, <1>0 DEF SyncFails, AckedDurable
  <2>3. ASSUME NEW u \in Threads PROVE ThreadInv(u)'
    BY <1>14, <1>0 DEF SyncFails, ThreadInv, InFlight, Threads
  <2> QED
    BY <2>1, <2>2, <2>3
<1>15. ASSUME NEW t \in Threads, EndSync(t)
      PROVE  SyncInv'
  <2>1. ~torn' /\ CountsInv'
    BY <1>15, <1>0 DEF EndSync, CountsInv, ThreadInv, MaxOf, NumberTypes
  <2>2. AckedDurable'
    BY <1>15, <1>0 DEF EndSync, AckedDurable
  <2>3. ASSUME NEW u \in Threads PROVE ThreadInv(u)'
    <3>1. CASE u = t
      <4>1. pc'[t] \in {"check", "publish"} /\ t \in Appenders
        BY <1>15, <1>0 DEF EndSync, Woken
      <4>2. /\ op'[t].target = 0 /\ op'[t].ok = FALSE
            /\ op'[t].commit = op[t].commit /\ op'[t].kind = op[t].kind
        BY <1>15, <1>0 DEF EndSync, Ops
      <4>3. /\ written' = written /\ file' = file /\ base' = base
            /\ owed' = owed /\ pc[t] = "end"
        BY <1>15 DEF EndSync
      <4> QED
        BY <3>1, <4>1, <4>2, <4>3, <1>0 DEF ThreadInv, InFlight, NumberTypes
    <3>2. CASE u # t
      <4>1. op'[u] = op[u] /\ pc'[u] = IF pc[u] = "wait" THEN "check" ELSE pc[u]
        BY <1>15, <1>0, <3>2 DEF EndSync, Woken
      <4>2. /\ written' = written /\ file' = file /\ base' = base
            /\ owed' = owed /\ flushed' = flushed /\ writer' = writer
        BY <1>15 DEF EndSync
      <4> QED
        BY <4>1, <4>2 DEF ThreadInv, InFlight
    <3> QED
      BY <3>1, <3>2
  <2> QED
    BY <2>1, <2>2, <2>3
<1>16. ASSUME NEW t \in Threads, Return(t)
      PROVE  SyncInv'
  <2>1. ~torn' /\ CountsInv'
    BY <1>16, <1>0 DEF Return, CountsInv
  <2>2. AckedDurable'
    <3>0. t \in Appenders
      BY <1>16, <1>0 DEF Return, SlotInv, Threads
    <3>1. CASE ~op[t].ok
      BY <1>16, <3>1 DEF Return, AckedDurable
    <3>2. CASE op[t].ok /\ op[t].kind = "sync"
      <4>1. \A n \in owed[t] : n \in file /\ n <= op[t].commit
        BY <1>16, <3>0, <3>2 DEF Return, ThreadInv, InFlight
      <4>2. op[t].commit <= flushed
        BY <1>16, <3>2 DEF Return, ThreadInv
      <4>3. \A n \in owed[t] : n <= flushed
        BY <4>1, <4>2, <1>0 DEF NumberTypes
      <4> QED
        BY <1>16, <3>2, <4>1, <4>3 DEF Return, AckedDurable
    <3>3. CASE op[t].ok /\ op[t].kind # "sync"
      <4>1. op[t].commit \in file /\ op[t].commit <= flushed
        BY <1>16, <3>0, <3>3 DEF Return, ThreadInv, InFlight
      <4> QED
        BY <1>16, <3>3, <4>1 DEF Return, AckedDurable
    <3> QED
      BY <3>1, <3>2, <3>3
  <2>3. ASSUME NEW u \in Threads PROVE ThreadInv(u)'
    BY <1>16, <1>0 DEF Return, ThreadInv, InFlight, Threads, NoOp, NumberTypes
  <2> QED
    BY <2>1, <2>2, <2>3
<1>17. ASSUME NEW t \in Threads, EndClose(t)
      PROVE  SyncInv'
  <2>1. ~torn' /\ CountsInv'
    <3>1. ~writer /\ ~writer' /\ ~torn'
      BY <1>17 DEF EndClose, ThreadInv
    <3>2. written' = written /\ flushed' = flushed /\ base' = base
      BY <1>17 DEF EndClose
    <3>3. CASE op[t].ok
      <4>1. synced' = MaxOf(synced, op[t].target) /\ op[t].target <= flushed
            /\ dupFd' = (dupFd /\ synced' < written)
        BY <1>17, <3>3 DEF EndClose, ThreadInv
      <4> QED
        BY <1>0, <3>1, <3>2, <4>1 DEF CountsInv, MaxOf, NumberTypes
    <3>4. CASE ~op[t].ok
      BY <1>17, <3>1, <3>2, <3>4 DEF EndClose, CountsInv
    <3> QED
      BY <3>3, <3>4
  <2>2. AckedDurable'
    BY <1>17, <1>0 DEF EndClose, AckedDurable
  <2>3. ASSUME NEW u \in Threads PROVE ThreadInv(u)'
    BY <1>17, <1>0 DEF EndClose, ThreadInv, SlotInv, InFlight, Threads, NoOp,
       Woken, NumberTypes
  <2> QED
    BY <2>1, <2>2, <2>3
<1>18. ASSUME ProcessCrash
      PROVE  SyncInv'
  <2>1. ~torn' /\ CountsInv'
    BY <1>18, <1>0 DEF ProcessCrash, Reopen, CountsInv, NumberTypes
  <2>2. AckedDurable'
    BY <1>18, <1>0 DEF ProcessCrash, Reopen, AckedDurable
  <2>3. ASSUME NEW u \in Threads PROVE ThreadInv(u)'
    BY <1>18, <1>0 DEF ProcessCrash, Reopen, ThreadInv, InFlight, NoOp,
       NumberTypes
  <2> QED
    BY <2>1, <2>2, <2>3
<1>19. ASSUME MachineCrash
      PROVE  SyncInv'
  <2>1. ~torn' /\ CountsInv'
    BY <1>19, <1>0 DEF MachineCrash, Reopen, CountsInv, NumberTypes
  <2>2. AckedDurable'
    BY <1>19, <1>0 DEF MachineCrash, Reopen, AckedDurable, CountsInv,
       NumberTypes
  <2>3. ASSUME NEW u \in Threads PROVE ThreadInv(u)'
    BY <1>19, <1>0 DEF MachineCrash, Reopen, ThreadInv, InFlight, NoOp,
       NumberTypes
  <2> QED
    BY <2>1, <2>2, <2>3
<1>20. ASSUME NEW t \in Appenders, NEW bs \in SUBSET Blobs, StoreFails(t, bs)
      PROVE  SyncInv'
  BY <1>20 DEF StoreFails, CountsInv, AckedDurable, ThreadInv
<1>21. ASSUME NEW t \in Threads, CacheFails(t)
      PROVE  SyncInv'
  <2>1. ~torn' /\ CountsInv'
    BY <1>21 DEF CacheFails, CountsInv
  <2>2. AckedDurable'
    BY <1>21 DEF CacheFails, AckedDurable
  <2>3. ASSUME NEW u \in Threads PROVE ThreadInv(u)'
    BY <1>21, <1>0 DEF CacheFails, ThreadInv, SlotInv, InFlight, Threads, NoOp,
       NumberTypes
  <2> QED
    BY <2>1, <2>2, <2>3
<1>22. CASE UNCHANGED vars
  BY <1>22 DEF CountsInv, AckedDurable, ThreadInv, vars
<1> QED
  BY <1>1, <1>2, <1>3, <1>4, <1>5, <1>6, <1>7, <1>8, <1>9, <1>10, <1>11, <1>12,
     <1>13, <1>14, <1>15, <1>16, <1>17, <1>18, <1>19, <1>20, <1>21, <1>22
     DEF Next, Step

(* Every commit point whose append reported success is in the file and a sync
   covered it, whatever threads shared that sync, closed the writer under it,
   reverted the log or crashed; provided no failed write or cut leaves half of
   its work behind. *)
THEOREM AckedIsDurable ==
    ASSUME WholeWrites
    PROVE  Spec => []AckedDurable
<1>1. Init => TypeInv /\ SyncInv
  BY InitType, InitSync
<1>2. TypeInv /\ SyncInv /\ [Next]_vars => (TypeInv /\ SyncInv)'
  BY NextType, NextSync
<1>3. SyncInv => AckedDurable
  BY DEF SyncInv
<1> QED
  BY <1>1, <1>2, <1>3, PTL DEF Spec

-----------------------------------------------------------------------------
(* The values that records moved to blobs. *)

(* What the threads that append do outside a call, and what a step of one
   thread does to another: nothing, or it wakes it. *)
CallStep(t) ==
    \/ \E kind \in Kinds, bs \in SUBSET Blobs : BeginAppend(t, kind, bs)
    \/ \E bs \in SUBSET Blobs : StoreFails(t, bs)
    \/ SyncAppended(t)
    \/ \E c \in mem : Truncate(t, c) \/ TruncateFails(t, c)

Undisturbed(u) ==
    op'[u] = op[u] /\ (pc'[u] = pc[u] \/ (pc[u] = "wait" /\ pc'[u] = "check"))

LEMMA OthersUndisturbed ==
    ASSUME pc \in [Threads -> Steps], op \in [Threads -> Ops],
           NEW t, NEW u \in Threads, u # t,
           CallStep(t) \/ Step(t) \/ SuspendWriter(t)
    PROVE  Undisturbed(u)
  BY DEF CallStep, BeginAppend, StoreFails, SyncAppended, Truncate, TruncateFails, Step,
     SuspendWriter, WriteRecord, WriteFails, QueuePublication, CacheFails, Covered,
     WaitForSync, StartSync, SyncBlobs, SyncFile, SyncFails, EndSync, Return, EndClose,
     Woken, Undisturbed, storeVars

(* A blob that a record written since the log was opened names is on disk,
   registered for the next sync, or taken by the sync under way. *)
InSync(t) == pc[t] \in {"blobs", "file", "end"}

Comes(b) == \/ b \in blobDisk \/ b \in blobs
            \/ \E t \in Threads : InSync(t) /\ b \in op[t].taken

BlobCounts ==
    /\ flushed <= written /\ base <= written
    /\ \A n \in mem \cup file : n <= written
    /\ \A n \in file : base < n => n \in mem
    /\ \A n \in Nat : written < n => NamedBy(n) = {}

BlobSets ==
    /\ blobDisk \subseteq blobFiles /\ blobs \subseteq blobFiles
    /\ syncedBlobs \subseteq blobDisk

(* The one sync under way took every blob that a record it covers may lack. *)
SyncerInv(t) ==
    InSync(t) =>
        /\ syncing /\ op[t].target <= written /\ op[t].taken \subseteq blobFiles
        /\ pc[t] = "file" => op[t].taken \subseteq blobDisk
        /\ pc[t] = "end" /\ op[t].ok => op[t].taken \subseteq blobDisk
        /\ \A n \in mem : base < n /\ n <= op[t].target =>
              \A b \in NamedBy(n) : b \in blobDisk \/ b \in op[t].taken
        /\ \A u \in Threads : InSync(u) => u = t

WriterInv(t) ==
    pc[t] = "write" => \A b \in op[t].blobs : b \in blobFiles /\ Comes(b)

RecordInv(n) ==
    /\ NamedBy(n) \subseteq blobFiles
    /\ base < n => \A b \in NamedBy(n) : Comes(b)
    /\ base < n /\ n <= flushed => NamedBy(n) \subseteq blobDisk
    /\ "process" \notin Crashes /\ n <= base => NamedBy(n) \subseteq blobDisk

BlobInv ==
    /\ BlobCounts /\ BlobSets
    /\ \A t \in Threads : SyncerInv(t) /\ WriterInv(t)
    /\ \A n \in mem : RecordInv(n)

BlobTypes ==
    /\ written \in Nat /\ flushed \in Nat /\ base \in Nat
    /\ mem \subseteq Nat /\ file \subseteq Nat
    /\ pc \in [Threads -> Steps] /\ op \in [Threads -> Ops]
    /\ \A t \in Threads : op[t].target \in Nat /\ op[t].blobs \subseteq Blobs

LEMMA TypeGivesBlobs == TypeOK => BlobTypes
<1> SUFFICES ASSUME TypeOK PROVE BlobTypes
  OBVIOUS
<1>1. RecordNumber \subseteq Nat
  BY DEF RecordNumber
<1>2. op \in [Threads -> Ops] /\ pc \in [Threads -> Steps]
  BY DEF TypeOK, ThreadsOK
<1>3. \A t \in Threads : op[t].target \in RecordNumber /\ op[t].blobs \subseteq Blobs
  BY <1>2 DEF Ops
<1> QED
  BY <1>1, <1>2, <1>3 DEF BlobTypes, TypeOK, NumbersOK, SetsOK

LEMMA InitBlobs == Init => BlobInv
<1> SUFFICES ASSUME Init PROVE BlobInv
  OBVIOUS
<1>1. \A n : NamedBy(n) = {}
  BY DEF Init, NamedBy
<1> QED
  BY <1>1 DEF Init, BlobInv, BlobCounts, BlobSets, SyncerInv, WriterInv, RecordInv,
     InSync

(* A step that touches no record, no count and no blob, and begins or ends no
   sync. *)
LEMMA BlobsStay ==
    ASSUME BlobInv, file' \subseteq file,
           UNCHANGED <<mem, names, written, flushed, base, blobFiles, blobDisk>>,
           UNCHANGED <<blobs, syncedBlobs, syncing>>,
           \A u \in Threads :
              /\ pc'[u] = pc[u] \/ (pc'[u] # "write" /\ ~InSync(u) /\ ~InSync(u)')
              /\ pc[u] = "write" /\ pc'[u] = "write" => op'[u].blobs = op[u].blobs
              /\ InSync(u) => op'[u] = op[u]
    PROVE  BlobInv'
<1>1. \A n : NamedBy(n)' = NamedBy(n)
  BY DEF NamedBy
<1>2. \A u \in Threads : InSync(u)' <=> InSync(u)
  BY DEF InSync
<1>3. \A b : Comes(b)' <=> Comes(b)
  BY <1>2 DEF Comes
<1>4. BlobCounts' /\ BlobSets'
  BY <1>1 DEF BlobInv, BlobCounts, BlobSets
<1>5. ASSUME NEW u \in Threads PROVE SyncerInv(u)'
  <2>1. SyncerInv(u)
    BY DEF BlobInv
  <2> QED
    BY <1>1, <1>2, <2>1 DEF SyncerInv, InSync
<1>6. ASSUME NEW u \in Threads PROVE WriterInv(u)'
  <2>1. WriterInv(u)
    BY DEF BlobInv
  <2> QED
    BY <1>3, <2>1 DEF WriterInv
<1>7. ASSUME NEW n \in mem PROVE RecordInv(n)'
  <2>1. RecordInv(n)
    BY DEF BlobInv
  <2> QED
    BY <1>1, <1>3, <2>1 DEF RecordInv
<1> QED
  BY <1>4, <1>5, <1>6, <1>7 DEF BlobInv

(* A record keeps what it has while blobs are only added. *)
LEMMA RecordStays ==
    ASSUME NEW n, RecordInv(n), NamedBy(n)' = NamedBy(n), base' = base,
           flushed' = flushed, blobFiles \subseteq blobFiles',
           blobDisk \subseteq blobDisk', \A b : Comes(b) => Comes(b)'
    PROVE  RecordInv(n)'
  BY DEF RecordInv

(* Beginning an append registers the blobs it names. *)
LEMMA BeginAppendBlobs ==
    ASSUME BlobTypes, BlobInv, NEW t \in Appenders, NEW kind, NEW bs \in SUBSET Blobs,
           BeginAppend(t, kind, bs)
    PROVE  BlobInv'
<1>0. t \in Threads
  BY DEF Threads
<1>1. /\ UNCHANGED <<mem, file, names, written, flushed, base, blobDisk, syncing>>
      /\ blobFiles' = blobFiles \cup bs
      /\ blobs' = blobs \cup (bs \ blobFiles) \cup (bs \ syncedBlobs)
      /\ syncedBlobs' = syncedBlobs \ (bs \ blobFiles)
  BY DEF BeginAppend, NamesBlobs, fileVars, recordVars, historyVars
<1>2. /\ pc[t] = "idle" /\ pc'[t] = "write" /\ op'[t].blobs = bs
      /\ \A u \in Threads : u # t => pc'[u] = pc[u] /\ op'[u] = op[u]
  BY <1>0 DEF BeginAppend, BlobTypes, NoOp
<1>3. \A n : NamedBy(n)' = NamedBy(n)
  BY <1>1 DEF NamedBy
<1>4. \A u \in Threads : /\ InSync(u)' <=> InSync(u)
                         /\ InSync(u) => op'[u] = op[u] /\ pc'[u] = pc[u]
  BY <1>2 DEF InSync
<1>5. \A b : Comes(b) => Comes(b)'
  BY <1>1, <1>4 DEF Comes
<1>6. BlobCounts' /\ BlobSets'
  BY <1>1, <1>3 DEF BlobInv, BlobCounts, BlobSets
<1>7. ASSUME NEW u \in Threads PROVE SyncerInv(u)'
  <2>1. SyncerInv(u)
    BY DEF BlobInv
  <2> QED
    BY <1>1, <1>3, <1>4, <2>1 DEF SyncerInv
<1>8. ASSUME NEW u \in Threads PROVE WriterInv(u)'
  <2>1. CASE u = t
    <3>1. ASSUME NEW b \in bs PROVE b \in blobFiles' /\ (b \in blobs' \/ b \in blobDisk')
      BY <1>1 DEF BlobInv, BlobSets
    <3> QED
      BY <1>2, <2>1, <3>1 DEF WriterInv, Comes
  <2>2. CASE u # t
    BY <1>1, <1>2, <1>5, <2>2 DEF BlobInv, WriterInv
  <2> QED
    BY <2>1, <2>2
<1>9. ASSUME NEW n \in mem PROVE RecordInv(n)'
  BY <1>1, <1>3, <1>5, RecordStays DEF BlobInv
<1> QED
  BY <1>1, <1>6, <1>7, <1>8, <1>9 DEF BlobInv

(* A blob that is stored without a record. *)
LEMMA StoreFailsBlobs ==
    ASSUME BlobTypes, BlobInv, NEW t, NEW bs, StoreFails(t, bs)
    PROVE  BlobInv'
<1>1. /\ UNCHANGED <<mem, file, names, written, flushed, base, blobDisk, syncing>>
      /\ UNCHANGED <<blobs, syncedBlobs, pc, op>>
      /\ blobFiles' = blobFiles \cup bs
  BY DEF StoreFails, durabilityVars, storeVars, recordVars, historyVars
<1>2. \A n : NamedBy(n)' = NamedBy(n)
  BY <1>1 DEF NamedBy
<1>3. /\ \A u : InSync(u)' <=> InSync(u)
      /\ \A b : Comes(b)' <=> Comes(b)
  BY <1>1 DEF Comes, InSync
<1>4. BlobCounts' /\ BlobSets'
  BY <1>1, <1>2 DEF BlobInv, BlobCounts, BlobSets
<1>5. ASSUME NEW u \in Threads PROVE SyncerInv(u)' /\ WriterInv(u)'
  <2>1. SyncerInv(u) /\ WriterInv(u)
    BY DEF BlobInv
  <2>2. SyncerInv(u)'
    BY <1>1, <1>2, <1>3, <2>1 DEF SyncerInv
  <2>3. WriterInv(u)'
    BY <1>1, <1>3, <2>1 DEF WriterInv
  <2> QED
    BY <2>2, <2>3
<1>6. ASSUME NEW n \in mem PROVE RecordInv(n)'
  BY <1>1, <1>2, <1>3, RecordStays DEF BlobInv
<1> QED
  BY <1>1, <1>4, <1>5, <1>6 DEF BlobInv

(* Writing a record: no sync under way covers it. *)
LEMMA WriteRecordBlobs ==
    ASSUME BlobTypes, BlobInv, NEW t \in Threads, WriteRecord(t)
    PROVE  BlobInv'
<1>0. PICK n : n = written + 1
  OBVIOUS
<1>1. /\ UNCHANGED <<flushed, base, blobFiles, blobDisk, blobs, syncedBlobs, syncing>>
      /\ written' = n /\ mem' = mem \cup {n} /\ file' \subseteq file \cup {n}
      /\ names' = names \cup ({n} \X op[t].blobs)
  BY <1>0 DEF WriteRecord, historyVars
<1>2. /\ pc[t] = "write" /\ pc'[t] = "queue"
      /\ \A u \in Threads : u # t => pc'[u] = pc[u] /\ op'[u] = op[u]
  BY DEF WriteRecord, BlobTypes
<1>3. n \in Nat /\ n > written /\ written \in Nat
  BY <1>0 DEF BlobTypes
<1>4. \A m : m # n => NamedBy(m)' = NamedBy(m)
  BY <1>1 DEF NamedBy
<1>5. NamedBy(n)' = op[t].blobs
  <2>1. NamedBy(n) = {}
    BY <1>3 DEF BlobInv, BlobCounts
  <2>2. op[t].blobs \subseteq Blobs
    BY DEF BlobTypes
  <2> QED
    BY <1>1, <2>1, <2>2 DEF NamedBy
<1>6. \A u \in Threads : /\ InSync(u)' <=> InSync(u)
                         /\ InSync(u) => op'[u] = op[u] /\ pc'[u] = pc[u]
  BY <1>2 DEF InSync
<1>7. \A b : Comes(b) => Comes(b)'
  BY <1>1, <1>6 DEF Comes
<1>8. \A m \in mem \cup file : m \in Nat /\ m <= written
  BY DEF BlobInv, BlobCounts, BlobTypes
<1>9. BlobCounts'
  <2>1. flushed <= written /\ base <= written
    BY DEF BlobInv, BlobCounts
  <2>2. flushed' <= written' /\ base' <= written'
    BY <1>0, <1>1, <1>3, <2>1 DEF BlobTypes
  <2>3. \A m \in mem' \cup file' : m <= written'
    BY <1>0, <1>1, <1>3, <1>8
  <2>4. \A m \in file' : base' < m => m \in mem'
    BY <1>1 DEF BlobInv, BlobCounts
  <2>5. ASSUME NEW m \in Nat, written' < m PROVE NamedBy(m)' = {}
    <3>1. m # n /\ written < m
      BY <1>0, <1>1, <1>3, <2>5
    <3> QED
      BY <1>4, <3>1 DEF BlobInv, BlobCounts
  <2> QED
    BY <2>2, <2>3, <2>4, <2>5 DEF BlobCounts
<1>10. BlobSets'
  BY <1>1 DEF BlobInv, BlobSets
<1>11. ASSUME NEW u \in Threads, InSync(u)' PROVE SyncerInv(u)'
  <2>1. SyncerInv(u) /\ InSync(u)
    BY <1>6, <1>11 DEF BlobInv
  <2>2. op[u].target <= written /\ op[u].target \in Nat
    BY <2>1 DEF SyncerInv, BlobTypes
  <2>3. op[u].target <= n /\ ~(n <= op[u].target)
    BY <1>0, <1>3, <2>2
  <2>4. \A m \in mem : m # n
    BY <1>3, <1>8
  <2> QED
    BY <1>1, <1>4, <1>6, <2>1, <2>3, <2>4 DEF SyncerInv
<1>12. ASSUME NEW u \in Threads PROVE WriterInv(u)'
  BY <1>1, <1>2, <1>7 DEF BlobInv, WriterInv
<1>13. ASSUME NEW m \in mem PROVE RecordInv(m)'
  <2>1. m # n
    BY <1>3, <1>8
  <2> QED
    BY <1>1, <1>4, <1>7, <2>1, RecordStays DEF BlobInv
<1>14. RecordInv(n)'
  <2>1. \A b \in op[t].blobs : b \in blobFiles /\ Comes(b)
    BY <1>2 DEF BlobInv, WriterInv
  <2>2. flushed <= written /\ base <= written
    BY DEF BlobInv, BlobCounts
  <2>3. ~(n <= flushed) /\ ~(n <= base)
    BY <1>3, <2>2 DEF BlobTypes
  <2> QED
    BY <1>1, <1>5, <1>7, <2>1, <2>3 DEF RecordInv
<1>15. \A u \in Threads : SyncerInv(u)'
  BY <1>11 DEF SyncerInv
<1> QED
  BY <1>1, <1>9, <1>10, <1>12, <1>13, <1>14, <1>15 DEF BlobInv

(* A sync takes every blob that is not on disk yet: no other sync is under
   way, so all of them are registered. *)
LEMMA StartSyncBlobs ==
    ASSUME BlobTypes, BlobInv, NEW t \in Threads, StartSync(t)
    PROVE  BlobInv'
<1>1. /\ UNCHANGED <<mem, file, names, written, flushed, base, blobFiles, blobDisk>>
      /\ blobs' = {} /\ syncedBlobs' = syncedBlobs /\ syncing' = TRUE
  BY DEF StartSync, fileVars, recordVars, historyVars
<1>2. /\ pc[t] = "check" /\ pc'[t] = "blobs"
      /\ op'[t].target = written /\ op'[t].taken = blobs
      /\ \A u \in Threads : u # t => pc'[u] = pc[u] /\ op'[u] = op[u]
  BY DEF StartSync, BlobTypes, Target
<1>3. \A u \in Threads : ~InSync(u)
  BY DEF StartSync, BlobInv, SyncerInv
<1>4. \A u \in Threads : InSync(u)' <=> u = t
  BY <1>2, <1>3 DEF InSync
<1>5. \A n : NamedBy(n)' = NamedBy(n)
  BY <1>1 DEF NamedBy
<1>6. \A b : Comes(b) => b \in blobDisk \/ b \in blobs
  BY <1>3 DEF Comes
<1>7. \A b : Comes(b) => Comes(b)'
  BY <1>1, <1>2, <1>4, <1>6 DEF Comes
<1>8. BlobCounts' /\ BlobSets'
  BY <1>1, <1>5 DEF BlobInv, BlobCounts, BlobSets
<1>9. SyncerInv(t)'
  <2>1. \A n \in mem : base < n => \A b \in NamedBy(n) : b \in blobDisk \/ b \in blobs
    BY <1>6 DEF BlobInv, RecordInv
  <2>2. blobs \subseteq blobFiles /\ written <= written
    BY DEF BlobInv, BlobSets, BlobTypes
  <2> QED
    BY <1>1, <1>2, <1>4, <1>5, <2>1, <2>2 DEF SyncerInv
<1>10. ASSUME NEW u \in Threads PROVE SyncerInv(u)'
  BY <1>4, <1>9 DEF SyncerInv
<1>11. ASSUME NEW u \in Threads PROVE WriterInv(u)'
  BY <1>1, <1>2, <1>7 DEF BlobInv, WriterInv
<1>12. ASSUME NEW n \in mem PROVE RecordInv(n)'
  BY <1>1, <1>5, <1>7, RecordStays DEF BlobInv
<1> QED
  BY <1>1, <1>8, <1>10, <1>11, <1>12 DEF BlobInv

(* The sync under way is the only one, and others keep their blobs. *)
LEMMA OnlySyncer ==
    ASSUME BlobInv, NEW t \in Threads, InSync(t)
    PROVE  /\ SyncerInv(t) /\ syncing /\ op[t].taken \subseteq blobFiles
           /\ \A u \in Threads : InSync(u) <=> u = t
           /\ \A b : Comes(b) <=> b \in blobDisk \/ b \in blobs \/ b \in op[t].taken
<1>1. SyncerInv(t) /\ \A u \in Threads : InSync(u) <=> u = t
  BY DEF BlobInv, SyncerInv
<1> QED
  BY <1>1 DEF SyncerInv, Comes

LEMMA SyncBlobsBlobs ==
    ASSUME BlobTypes, BlobInv, NEW t \in Threads, SyncBlobs(t)
    PROVE  BlobInv'
<1>0. /\ InSync(t) /\ SyncerInv(t) /\ op[t].taken \subseteq blobFiles
      /\ \A u \in Threads : InSync(u) <=> u = t
  BY OnlySyncer DEF SyncBlobs, InSync
<1>1. /\ UNCHANGED <<mem, file, names, written, flushed, base, blobFiles>>
      /\ UNCHANGED <<blobs, syncedBlobs, syncing, op>>
      /\ blobDisk' = blobDisk \cup op[t].taken
  BY <1>0 DEF SyncBlobs, durabilityVars, recordVars, historyVars
<1>2. /\ pc[t] = "blobs" /\ pc'[t] = "file"
      /\ \A u \in Threads : u # t => pc'[u] = pc[u]
  BY DEF SyncBlobs, BlobTypes
<1>3. \A n : NamedBy(n)' = NamedBy(n)
  BY <1>1 DEF NamedBy
<1>4. \A u \in Threads : InSync(u)' <=> InSync(u)
  BY <1>2 DEF InSync
<1>5. \A b : Comes(b) => Comes(b)'
  BY <1>1, <1>4 DEF Comes
<1>6. BlobCounts' /\ BlobSets'
  BY <1>0, <1>1, <1>3 DEF BlobInv, BlobCounts, BlobSets
<1>7. ASSUME NEW u \in Threads PROVE SyncerInv(u)'
  BY <1>0, <1>1, <1>2, <1>3, <1>4 DEF SyncerInv
<1>8. ASSUME NEW u \in Threads PROVE WriterInv(u)'
  BY <1>1, <1>2, <1>5 DEF BlobInv, WriterInv
<1>9. ASSUME NEW n \in mem PROVE RecordInv(n)'
  BY <1>1, <1>3, <1>5, RecordStays DEF BlobInv
<1> QED
  BY <1>1, <1>6, <1>7, <1>8, <1>9 DEF BlobInv

(* The log is synced after the blobs that the records it covers name. *)
LEMMA SyncFileBlobs ==
    ASSUME BlobTypes, BlobInv, NEW t \in Threads, SyncFile(t)
    PROVE  BlobInv'
<1>0. /\ InSync(t) /\ SyncerInv(t)
      /\ \A u \in Threads : InSync(u) <=> u = t
  BY OnlySyncer DEF SyncFile, InSync
<1>1. /\ UNCHANGED <<mem, file, names, written, base, blobFiles, blobDisk>>
      /\ UNCHANGED <<blobs, syncedBlobs, syncing>>
      /\ flushed' = flushed \/ flushed' = MaxOf(flushed, op[t].target)
  BY DEF SyncFile, durabilityVars, recordVars, historyVars
<1>2. /\ pc[t] = "file" /\ pc'[t] = "end" /\ op'[t].taken = op[t].taken
      /\ op'[t].target = op[t].target
      /\ \A u \in Threads : u # t => pc'[u] = pc[u] /\ op'[u] = op[u]
  BY DEF SyncFile, BlobTypes
<1>3. \A n : NamedBy(n)' = NamedBy(n)
  BY <1>1 DEF NamedBy
<1>4. \A u \in Threads : (InSync(u)' <=> InSync(u)) /\ op'[u].taken = op[u].taken
  BY <1>2 DEF InSync
<1>5. \A b : Comes(b)' <=> Comes(b)
  BY <1>1, <1>4 DEF Comes
<1>6. op[t].target <= written /\ op[t].taken \subseteq blobDisk
  BY <1>0, <1>2 DEF SyncerInv
<1>7. BlobCounts'
  <2>1. flushed' <= written
    BY <1>1, <1>6 DEF BlobInv, BlobCounts, MaxOf
  <2> QED
    BY <1>1, <1>3, <2>1 DEF BlobInv, BlobCounts
<1>8. BlobSets'
  BY <1>1 DEF BlobInv, BlobSets
<1>9. ASSUME NEW u \in Threads PROVE SyncerInv(u)'
  BY <1>0, <1>1, <1>2, <1>3, <1>4, <1>6 DEF SyncerInv
<1>10. ASSUME NEW u \in Threads PROVE WriterInv(u)'
  BY <1>1, <1>2, <1>5 DEF BlobInv, WriterInv
<1>11. ASSUME NEW n \in mem PROVE RecordInv(n)'
  <2>1. RecordInv(n)
    BY DEF BlobInv
  <2>2. ASSUME base < n, n <= flushed' PROVE NamedBy(n) \subseteq blobDisk
    <3>1. n <= flushed \/ n <= op[t].target
      BY <1>1, <2>2 DEF MaxOf
    <3>2. CASE n <= flushed
      BY <2>1, <2>2, <3>2 DEF RecordInv
    <3>3. CASE n <= op[t].target
      BY <1>0, <1>6, <2>2, <3>3 DEF SyncerInv
    <3> QED
      BY <3>1, <3>2, <3>3
  <2> QED
    BY <1>1, <1>3, <1>5, <2>1, <2>2 DEF RecordInv
<1> QED
  BY <1>1, <1>7, <1>8, <1>9, <1>10, <1>11 DEF BlobInv

LEMMA SyncFailsBlobs ==
    ASSUME BlobTypes, BlobInv, NEW t \in Threads, SyncFails(t)
    PROVE  BlobInv'
<1>0. /\ InSync(t) /\ SyncerInv(t)
      /\ \A u \in Threads : InSync(u) <=> u = t
  BY OnlySyncer DEF SyncFails, InSync
<1>1. /\ UNCHANGED <<mem, file, names, written, flushed, base, blobFiles, blobDisk>>
      /\ UNCHANGED <<blobs, syncedBlobs, syncing>>
  BY DEF SyncFails, durabilityVars, fileVars, recordVars, historyVars
<1>2. /\ pc'[t] = "end" /\ op'[t].taken = op[t].taken /\ op'[t].ok = FALSE
      /\ op'[t].target = op[t].target
      /\ \A u \in Threads : u # t => pc'[u] = pc[u] /\ op'[u] = op[u]
  BY DEF SyncFails, BlobTypes
<1>3. \A n : NamedBy(n)' = NamedBy(n)
  BY <1>1 DEF NamedBy
<1>4. \A u \in Threads : (InSync(u)' <=> InSync(u)) /\ op'[u].taken = op[u].taken
  BY <1>0, <1>2 DEF InSync
<1>5. \A b : Comes(b)' <=> Comes(b)
  BY <1>1, <1>4 DEF Comes
<1>6. BlobCounts' /\ BlobSets'
  BY <1>1, <1>3 DEF BlobInv, BlobCounts, BlobSets
<1>7. ASSUME NEW u \in Threads PROVE SyncerInv(u)'
  BY <1>0, <1>1, <1>2, <1>3, <1>4 DEF SyncerInv
<1>8. ASSUME NEW u \in Threads PROVE WriterInv(u)'
  BY <1>1, <1>2, <1>5 DEF BlobInv, WriterInv
<1>9. ASSUME NEW n \in mem PROVE RecordInv(n)'
  BY <1>1, <1>3, <1>5, RecordStays DEF BlobInv
<1> QED
  BY <1>1, <1>6, <1>7, <1>8, <1>9 DEF BlobInv

(* A sync that ends leaves its blobs on disk, or registered again. *)
LEMMA EndSyncBlobs ==
    ASSUME BlobTypes, BlobInv, NEW t \in Threads, EndSync(t)
    PROVE  BlobInv'
<1>0. /\ InSync(t) /\ SyncerInv(t) /\ op[t].taken \subseteq blobFiles
      /\ \A u \in Threads : InSync(u) <=> u = t
      /\ \A b : Comes(b) => b \in blobDisk \/ b \in blobs \/ b \in op[t].taken
  BY OnlySyncer DEF EndSync, InSync
<1>1. /\ UNCHANGED <<mem, file, names, written, flushed, base, blobFiles, blobDisk>>
      /\ \/ /\ op[t].ok /\ blobs' = blobs
            /\ syncedBlobs' = syncedBlobs \cup op[t].taken
         \/ ~op[t].ok /\ blobs' = blobs \cup op[t].taken /\ syncedBlobs' = syncedBlobs
  BY DEF EndSync, fileVars, recordVars, Restored
<1>2. /\ pc[t] = "end" /\ pc'[t] \in {"check", "publish"}
      /\ \A u \in Threads : u # t => Undisturbed(u)
  BY DEF EndSync, BlobTypes, Woken, Undisturbed
<1>3. \A n : NamedBy(n)' = NamedBy(n)
  BY <1>1 DEF NamedBy
<1>4. \A u \in Threads : ~InSync(u)'
  BY <1>0, <1>2 DEF InSync, Undisturbed
<1>5. op[t].ok => op[t].taken \subseteq blobDisk
  BY <1>0, <1>2 DEF SyncerInv
<1>6. \A b : Comes(b) => Comes(b)'
  BY <1>0, <1>1, <1>5 DEF Comes
<1>7. BlobCounts'
  BY <1>1, <1>3 DEF BlobInv, BlobCounts
<1>8. BlobSets'
  BY <1>0, <1>1, <1>5 DEF BlobInv, BlobSets
<1>9. ASSUME NEW u \in Threads PROVE SyncerInv(u)'
  BY <1>4 DEF SyncerInv
<1>10. ASSUME NEW u \in Threads PROVE WriterInv(u)'
  BY <1>1, <1>2, <1>6 DEF BlobInv, WriterInv, Undisturbed
<1>11. ASSUME NEW n \in mem PROVE RecordInv(n)'
  BY <1>1, <1>3, <1>6, RecordStays DEF BlobInv
<1> QED
  BY <1>1, <1>7, <1>8, <1>9, <1>10, <1>11 DEF BlobInv

(* A revert happens while no thread is inside a call: every blob is on disk
   or registered, and what syncs the log syncs the registered ones first. *)
LEMMA RevertBlobs ==
    ASSUME BlobTypes, BlobInv, Closers = {}, NEW t \in Appenders, NEW c,
           Truncate(t, c) \/ TruncateFails(t, c)
    PROVE  BlobInv'
<1>1. /\ UNCHANGED <<names, written, base, blobFiles, syncing, pc, op>>
      /\ mem' \subseteq mem /\ file' \subseteq file
      /\ \A n \in file' : n \in mem => n \in mem'
  BY DEF Truncate, TruncateFails, Through, recordVars, historyVars
<1>2. \A u \in Threads : pc[u] = "idle"
  BY DEF Truncate, TruncateFails, NoRunActive, Threads
<1>3. \A u \in Threads : ~InSync(u) /\ ~InSync(u)'
  BY <1>1, <1>2 DEF InSync
<1>4. \A n : NamedBy(n)' = NamedBy(n)
  BY <1>1 DEF NamedBy
<1>5. \/ UNCHANGED <<flushed, blobDisk, syncedBlobs, blobs>>
      \/ /\ flushed' = written /\ blobDisk' = blobDisk \cup blobs
         /\ syncedBlobs' = syncedBlobs \cup blobs /\ blobs' = {}
  BY DEF Truncate, TruncateFails, BlobInv, BlobSets
<1>6. \A b : Comes(b) => b \in blobDisk \/ b \in blobs
  BY <1>3 DEF Comes
<1>7. \A b : Comes(b) => Comes(b)'
  BY <1>5, <1>6 DEF Comes
<1>8. BlobCounts'
  <2>1. flushed' <= written
    BY <1>5 DEF BlobInv, BlobCounts, BlobTypes
  <2>2. \A n \in mem' \cup file' : n <= written
    BY <1>1 DEF BlobInv, BlobCounts
  <2>3. \A n \in file' : base < n => n \in mem'
    BY <1>1 DEF BlobInv, BlobCounts
  <2> QED
    BY <1>1, <1>4, <2>1, <2>2, <2>3 DEF BlobInv, BlobCounts
<1>9. BlobSets'
  BY <1>1, <1>5 DEF BlobInv, BlobSets
<1>10. ASSUME NEW u \in Threads PROVE SyncerInv(u)' /\ WriterInv(u)'
  BY <1>1, <1>2, <1>3 DEF SyncerInv, WriterInv
<1>11. ASSUME NEW n \in mem PROVE RecordInv(n)'
  <2>1. CASE UNCHANGED <<flushed, blobDisk, syncedBlobs, blobs>>
    BY <1>1, <1>4, <1>7, <2>1, RecordStays DEF BlobInv
  <2>2. CASE blobDisk' = blobDisk \cup blobs
    <3>1. RecordInv(n)
      BY DEF BlobInv
    <3>2. base < n => NamedBy(n) \subseteq blobDisk'
      BY <1>6, <2>2, <3>1 DEF RecordInv
    <3>3. "process" \notin Crashes /\ n <= base => NamedBy(n) \subseteq blobDisk'
      BY <2>2, <3>1 DEF RecordInv
    <3> QED
      BY <1>1, <1>4, <1>7, <3>1, <3>2, <3>3 DEF RecordInv
  <2> QED
    BY <1>5, <2>1, <2>2
<1> QED
  BY <1>1, <1>8, <1>9, <1>10, <1>11 DEF BlobInv

(* A crash: what is left of the blobs after one of the machine is on disk. *)
LEMMA CrashBlobs ==
    ASSUME BlobTypes, BlobInv, ProcessCrash \/ MachineCrash
    PROVE  BlobInv'
<1>1. PICK records \in SUBSET file, present \in SUBSET blobFiles :
          /\ Reopen(records, present)
          /\ \/ /\ "process" \in Crashes /\ present = blobFiles
                /\ UNCHANGED <<flushed, blobDisk>>
             \/ blobDisk' = present /\ flushed' = written
  BY DEF ProcessCrash, MachineCrash
<1>2. /\ names' = names /\ written' = written /\ base' = written
      /\ file' = records /\ blobFiles' = present
      /\ mem' = {n \in records : NamedBy(n) \subseteq present}
      /\ blobs' = {} /\ syncedBlobs' = {} /\ pc' = [u \in Threads |-> "idle"]
  BY <1>1 DEF Reopen, recordVars
<1>3. \A n : NamedBy(n)' = NamedBy(n)
  BY <1>2 DEF NamedBy
<1>4. \A n \in records : n \in Nat /\ n <= written
  BY DEF BlobInv, BlobCounts, BlobTypes
<1>5. BlobCounts'
  <2>1. flushed' <= written /\ base' <= written
    BY <1>1, <1>2 DEF BlobInv, BlobCounts, BlobTypes
  <2>2. \A n \in records : ~(base' < n)
    BY <1>2, <1>4 DEF BlobTypes
  <2> QED
    BY <1>2, <1>3, <1>4, <2>1, <2>2 DEF BlobInv, BlobCounts
<1>6. BlobSets'
  BY <1>1, <1>2 DEF BlobInv, BlobSets
<1>7. ASSUME NEW u \in Threads PROVE SyncerInv(u)' /\ WriterInv(u)'
  BY <1>2 DEF SyncerInv, WriterInv, InSync
<1>8. ASSUME NEW n \in mem' PROVE RecordInv(n)'
  <2>1. n \in Nat /\ ~(base' < n) /\ NamedBy(n) \subseteq present
    BY <1>2, <1>4 DEF BlobTypes
  <2> QED
    BY <1>1, <1>2, <1>3, <2>1 DEF RecordInv
<1> QED
  BY <1>5, <1>6, <1>7, <1>8 DEF BlobInv

LEMMA NextBlobs ==
    ASSUME TypeOK, BlobInv, Closers = {}, [Next]_vars
    PROVE  BlobInv'
<1>0. BlobTypes
  BY TypeGivesBlobs
<1> USE DEF durabilityVars, storeVars, publicationVars, fileVars, recordVars,
            historyVars
<1>1. ASSUME NEW t \in Appenders, SyncAppended(t) PROVE BlobInv'
  BY <1>0, <1>1, BlobsStay DEF SyncAppended, BlobTypes, InSync, Threads
<1>2. ASSUME NEW t \in Threads,
             \/ WriteFails(t) \/ QueuePublication(t) \/ CacheFails(t) \/ Covered(t)
             \/ WaitForSync(t) \/ Return(t)
      PROVE  BlobInv'
  <2>1. /\ UNCHANGED <<mem, file, names, written, flushed, base, blobFiles, blobDisk>>
        /\ UNCHANGED <<blobs, syncedBlobs, syncing>>
    BY <1>2 DEF WriteFails, QueuePublication, CacheFails, Covered, WaitForSync, Return
  <2>2. /\ ~InSync(t) /\ ~InSync(t)' /\ pc'[t] # "write"
        /\ \A u \in Threads : u # t => pc'[u] = pc[u] /\ op'[u] = op[u]
    BY <1>0, <1>2 DEF WriteFails, QueuePublication, CacheFails, Covered, WaitForSync,
       Return, BlobTypes, InSync
  <2> QED
    BY <2>1, <2>2, BlobsStay
<1>3. ASSUME NEW t \in Threads, EndClose(t) PROVE FALSE
  BY <1>3 DEF EndClose
<1>4. CASE UNCHANGED vars
  BY <1>4, BlobsStay DEF vars, InSync
<1>5. ASSUME NEW t \in Threads, Step(t) PROVE BlobInv'
  BY <1>0, <1>2, <1>3, <1>5, WriteRecordBlobs, StartSyncBlobs, SyncBlobsBlobs,
     SyncFileBlobs, SyncFailsBlobs, EndSyncBlobs DEF Step
<1>6. ASSUME NEW t \in Appenders, CallStep(t) PROVE BlobInv'
  BY <1>0, <1>1, <1>6, BeginAppendBlobs, StoreFailsBlobs, RevertBlobs DEF CallStep
<1> QED
  BY <1>0, <1>4, <1>5, <1>6, CrashBlobs DEF Next, CallStep

LEMMA BlobInvariance ==
    ASSUME Closers = {}
    PROVE  Spec => [](TypeInv /\ BlobInv)
<1>1. Init => TypeInv /\ BlobInv
  BY InitType, InitBlobs
<1>2. TypeInv /\ BlobInv /\ [Next]_vars => (TypeInv /\ BlobInv)'
  BY NextType, NextBlobs DEF TypeInv
<1> QED
  BY <1>1, <1>2, PTL DEF Spec

(* A synced record never names a blob a crash could lose (durability.rs,
   State::blobs): through shared, failed and repeated syncs, failed writes,
   reverts and crashes of the machine.  Two behaviours are left out, which
   break it: a writer closed while a sync runs (the run of
   EventLogCloseLosesBlob), and a daemon that dies, whose successor no longer
   knows which blobs to sync. *)
THEOREM SyncedRecordsKeepBlobs ==
    ASSUME Closers = {}, "process" \notin Crashes
    PROVE  Spec => []SyncedKeepsBlobs
<1>1. ASSUME TypeInv, BlobInv PROVE SyncedKeepsBlobs
  <2>1. BlobTypes
    BY <1>1, TypeGivesBlobs DEF TypeInv
  <2>2. \A n \in mem : base < n \/ n <= base
    BY <2>1 DEF BlobTypes
  <2> QED
    BY <1>1, <2>2 DEF BlobInv, RecordInv, SyncedKeepsBlobs
<1> QED
  BY <1>1, BlobInvariance, PTL

-----------------------------------------------------------------------------
(* Acknowledged records survive, and the log keeps the promise of CommitLog. *)

(* What was acknowledged is in memory, its blobs on disk. *)
AckedInv == acked \subseteq mem /\ \A n \in acked : NamedBy(n) \subseteq blobDisk

LogInv == TypeInv /\ SyncInv /\ BlobInv /\ AckedInv

(* What an append or sync_appended that succeeded acknowledges. *)
Acknowledged(t) ==
    IF ~op[t].ok THEN {} ELSE IF op[t].kind = "sync" THEN owed[t] ELSE {op[t].commit}

(* It is in memory, since it was written to the file since the log was opened,
   and its blobs were synced with it. *)
LEMMA AcknowledgedIsKept ==
    ASSUME LogInv, Closers = {}, NEW t \in Threads, pc[t] = "publish",
           NEW n \in Acknowledged(t)
    PROVE  n \in mem /\ NamedBy(n) \subseteq blobDisk
<1>1. ThreadInv(t) /\ t \in Appenders
  BY DEF LogInv, SyncInv, Threads
<1>2. op[t].ok /\ op[t].commit <= flushed
  BY <1>1 DEF ThreadInv, Acknowledged
<1>3. NumberTypes
  BY TypeGivesNumbers DEF LogInv, TypeInv
<1>4. n \in file /\ base < n /\ n <= flushed
  <2>1. CASE op[t].kind = "sync"
    <3>1. n \in owed[t] /\ n \in Nat
      BY <1>2, <1>3, <2>1 DEF Acknowledged, NumberTypes
    <3>2. n \in file /\ base < n
      BY <1>1, <3>1 DEF ThreadInv
    <3>3. n <= op[t].commit
      BY <1>1, <2>1, <3>1 DEF ThreadInv, InFlight
    <3> QED
      BY <1>2, <1>3, <3>1, <3>2, <3>3 DEF NumberTypes
  <2>2. CASE op[t].kind # "sync"
    BY <1>1, <1>2, <2>2 DEF Acknowledged, ThreadInv, InFlight
  <2> QED
    BY <2>1, <2>2
<1>5. n \in mem
  BY <1>4 DEF LogInv, BlobInv, BlobCounts
<1>6. RecordInv(n)
  BY <1>5 DEF LogInv, BlobInv
<1> QED
  BY <1>4, <1>5, <1>6 DEF RecordInv

(* No crash loses an acknowledged record. *)
LEMMA CrashKeepsAcked ==
    ASSUME LogInv, ProcessCrash \/ MachineCrash
    PROVE  AckedInv' /\ acked' = acked
<1>0. blobDisk \subseteq blobFiles
  BY DEF LogInv, BlobInv, BlobSets
<1>1. \A n \in acked : n \in file /\ n <= flushed /\ NamedBy(n) \subseteq blobDisk
  BY DEF LogInv, SyncInv, AckedDurable, AckedInv
<1>2. NumberTypes
  BY TypeGivesNumbers DEF LogInv, TypeInv
<1>3. PICK records, present :
          /\ Reopen(records, present)
          /\ acked \subseteq records /\ blobDisk \subseteq present
          /\ blobDisk \subseteq blobDisk'
  <2>1. CASE ProcessCrash
    BY <1>0, <1>1, <2>1 DEF ProcessCrash
  <2>2. CASE MachineCrash
    <3>1. PICK lost \in SUBSET {n \in file : n > flushed},
               gone \in SUBSET (blobFiles \ blobDisk) :
            /\ Reopen(file \ lost, blobFiles \ gone)
            /\ blobDisk' = blobFiles \ gone
      BY <2>2 DEF MachineCrash
    <3>2. acked \subseteq file \ lost
      BY <1>1, <1>2 DEF NumberTypes
    <3>3. blobDisk \subseteq blobFiles \ gone
      BY <1>0
    <3> QED
      BY <3>1, <3>2, <3>3
  <2> QED
    BY <2>1, <2>2
<1>4. /\ mem' = {n \in records : NamedBy(n) \subseteq present}
      /\ acked' = acked /\ names' = names
  BY <1>3 DEF Reopen, recordVars
<1>5. \A n : NamedBy(n)' = NamedBy(n)
  BY <1>4 DEF NamedBy
<1> QED
  BY <1>1, <1>3, <1>4, <1>5 DEF AckedInv

(* What the steps do to the records, as the engine sees them. *)
LogAppends == /\ mem' = mem \cup {written + 1} /\ file' = file \cup {written + 1}
              /\ written' = written + 1 /\ acked' = acked
              /\ \A n \in mem : NamedBy(n)' = NamedBy(n)
              /\ blobDisk' = blobDisk

LogAcknowledges == /\ UNCHANGED <<mem, file, written, blobDisk, names>>
                   /\ \E S \in SUBSET mem :
                         /\ acked' = acked \cup S
                         /\ \A n \in S : NamedBy(n) \subseteq blobDisk

LogReverts == \E c \in mem : /\ mem' = Through(mem, c) /\ file' = Through(file, c)
                             /\ acked' = Through(acked, c)
                             /\ UNCHANGED <<written, names>>
                             /\ blobDisk \subseteq blobDisk'

LogStays == /\ UNCHANGED <<mem, file, acked, written, names>>
            /\ blobDisk \subseteq blobDisk'

LogCrashes == ProcessCrash \/ MachineCrash

LEMMA LogSteps ==
    ASSUME WholeWrites, Closers = {}, LogInv, [Next]_vars
    PROVE  LogAppends \/ LogAcknowledges \/ LogReverts \/ LogStays \/ LogCrashes
<1> USE DEF durabilityVars, storeVars, publicationVars, fileVars, recordVars,
            historyVars
<1>0. BlobTypes /\ ~torn /\ \A n \in mem : n <= written
  BY TypeGivesBlobs DEF LogInv, TypeInv, SyncInv, BlobInv, BlobCounts
<1>1. ASSUME NEW t \in Threads, WriteRecord(t) PROVE LogAppends
  <2>1. \A n \in mem : n # written + 1
    BY <1>0 DEF BlobTypes
  <2>2. /\ mem' = mem \cup {written + 1} /\ file' = file \cup {written + 1}
        /\ written' = written + 1 /\ acked' = acked /\ blobDisk' = blobDisk
        /\ names' = names \cup ({written + 1} \X op[t].blobs)
    BY <1>0, <1>1 DEF WriteRecord
  <2>3. \A n \in mem : NamedBy(n)' = NamedBy(n)
    BY <2>1, <2>2 DEF NamedBy
  <2> QED
    BY <2>2, <2>3 DEF LogAppends
<1>2. ASSUME NEW t \in Threads, Return(t) PROVE LogAcknowledges
  <2>1. pc[t] = "publish" /\ acked' = acked \cup Acknowledged(t)
    BY <1>2 DEF Return, Acknowledged
  <2>2. UNCHANGED <<mem, file, written, blobDisk, names>>
    BY <1>2 DEF Return
  <2>3. \A n \in Acknowledged(t) : n \in mem /\ NamedBy(n) \subseteq blobDisk
    BY <2>1, AcknowledgedIsKept
  <2> QED
    BY <2>1, <2>2, <2>3 DEF LogAcknowledges
<1>3. ASSUME NEW t \in Appenders, NEW c \in mem, Truncate(t, c) PROVE LogReverts
  BY <1>3 DEF Truncate, LogReverts
<1>4. ASSUME NEW t \in Appenders, CallStep(t), \A c \in mem : ~Truncate(t, c)
      PROVE  LogStays
  BY <1>4 DEF CallStep, BeginAppend, StoreFails, SyncAppended, TruncateFails, WholeWrites,
     LogStays
<1>5. ASSUME NEW t \in Threads, Step(t), ~WriteRecord(t), ~Return(t) PROVE LogStays
  BY <1>5 DEF Step, WriteFails, QueuePublication, CacheFails, Covered, WaitForSync,
     StartSync, SyncBlobs, SyncFile, SyncFails, EndSync, EndClose, LogStays
<1>6. CASE UNCHANGED vars
  BY <1>6 DEF vars, LogStays
<1> QED
  BY <1>1, <1>2, <1>3, <1>4, <1>5, <1>6 DEF Next, CallStep, LogCrashes

LEMMA LogInvariance ==
    ASSUME WholeWrites, Closers = {}
    PROVE  Spec => []LogInv
<1>1. ASSUME Init PROVE LogInv
  <2>1. AckedInv
    BY <1>1 DEF Init, AckedInv, NamedBy
  <2> QED
    BY <1>1, <2>1, InitType, InitSync, InitBlobs DEF LogInv
<1>2. ASSUME LogInv, [Next]_vars PROVE LogInv'
  <2>1. TypeInv' /\ SyncInv' /\ BlobInv'
    BY <1>2, NextType, NextSync, NextBlobs DEF LogInv, TypeInv
  <2>2. names' = names => \A n : NamedBy(n)' = NamedBy(n)
    BY DEF NamedBy
  <2>3. AckedInv
    BY <1>2 DEF LogInv
  <2>4. AckedInv'
    <3>1. CASE LogAppends
      BY <2>3, <3>1 DEF LogAppends, AckedInv
    <3>2. CASE LogAcknowledges
      BY <2>2, <2>3, <3>2 DEF LogAcknowledges, AckedInv
    <3>3. CASE LogReverts
      BY <2>2, <2>3, <3>3 DEF LogReverts, AckedInv, Through
    <3>4. CASE LogStays
      BY <2>2, <2>3, <3>4 DEF LogStays, AckedInv
    <3>5. CASE LogCrashes
      BY <1>2, <3>5, CrashKeepsAcked DEF LogCrashes
    <3> QED
      BY <1>2, <3>1, <3>2, <3>3, <3>4, <3>5, LogSteps
  <2> QED
    BY <2>1, <2>4 DEF LogInv
<1> QED
  BY <1>1, <1>2, PTL DEF Spec

(* An append that reported success keeps its promise through any crash of the
   daemon or the machine: its record is read again, blobs and all
   (store-locks-and-durability.md, "commit points sync before they take
   effect").  Left out are the writes and cuts that leave half of their work
   behind, and a writer closed while a sync runs. *)
THEOREM AckedRecordsSurvive ==
    ASSUME WholeWrites, Closers = {}
    PROVE  Spec => []AckedSurvives
<1>1. LogInv => AckedSurvives
  BY DEF LogInv, AckedInv, AckedSurvives
<1> QED
  BY <1>1, LogInvariance, PTL

(* Under the same conditions the log implements CommitLog: whatever the
   threads, syncs, reverts and crashes do to it is a sequence of appends,
   acknowledgements, reverts, and crashes that drop nothing acknowledged. *)
THEOREM LogKeepsItsPromise ==
    ASSUME WholeWrites, Closers = {}
    PROVE  Spec => ImplementsCommitLog
<1>1. ASSUME Init PROVE Promise!Init
  BY <1>1 DEF Init, Promise!Init
<1>2. ASSUME LogInv, LogInv', [Next]_vars
      PROVE  [Promise!Next]_Promise!commitLogVars
  <2> USE DEF Promise!Next, Promise!commitLogVars
  <2>1. CASE LogAppends
    <3>1. \A n \in file : n # written + 1
      BY <1>2, TypeGivesBlobs DEF LogInv, TypeInv, BlobInv, BlobCounts, BlobTypes
    <3>2. file' \ mem' = file \ mem
      BY <2>1, <3>1 DEF LogAppends
    <3>3. Promise!Append
      BY <2>1, <3>2 DEF LogAppends, Promise!Append
    <3> QED
      BY <3>3
  <2>2. CASE LogAcknowledges
    <3>1. Promise!Acknowledge
      BY <2>2 DEF LogAcknowledges, Promise!Acknowledge
    <3> QED
      BY <3>1
  <2>3. CASE LogReverts
    <3>1. Promise!Revert
      BY <2>3 DEF LogReverts, Through, Promise!Revert
    <3> QED
      BY <3>1
  <2>4. CASE LogStays
    BY <2>4 DEF LogStays
  <2>5. CASE LogCrashes
    <3>1. mem' \subseteq file /\ file' \subseteq file /\ written' = written
      BY <2>5 DEF LogCrashes, ProcessCrash, MachineCrash, Reopen
    <3>2. acked' = acked /\ acked \subseteq mem'
      BY <1>2, <2>5, CrashKeepsAcked DEF LogCrashes, AckedInv
    <3>3. Promise!Crash
      BY <3>1, <3>2 DEF Promise!Crash
    <3> QED
      BY <3>3
  <2> QED
    BY <1>2, <2>1, <2>2, <2>3, <2>4, <2>5, LogSteps
<1> QED
  BY <1>1, <1>2, LogInvariance, PTL DEF Spec, ImplementsCommitLog, Promise!Spec

=============================================================================
