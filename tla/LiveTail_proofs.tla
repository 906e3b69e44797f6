--------------------------- MODULE LiveTail_proofs ---------------------------
(***************************************************************************)
(* What holds of a client's subscription (protocol_transport/src/client.rs *)
(* and client_state/src/lib.rs) for any bounds, page size, tail capacity   *)
(* and faults: its state stays well formed (TailTypeCorrect), and a        *)
(* session marked as fetching has a task that will end its replay          *)
(* (FetchesAreAwaited).                                                    *)
(***************************************************************************)
EXTENDS LiveTail, SequenceTheorems, FiniteSetTheorems, TLAPS

Cursors == 0 .. MaxRecords
SentMessages == {m \in Messages : m.kind = "event" => m.seq # 0 /\ m.id # 0}
LiveMessages == {m \in [kind: {"event", "gap", "rewound"}, seq: Cursors,
                        id: Cursors, generation: Nat] :
                    m.kind = "event" => m.seq # 0 /\ m.id # 0}
SettledReplays == [cursor: Cursors, stamp: Cursors, gap: BOOLEAN,
                   kept: Seq(LiveMessages)]

Requests == [attempt: Nat \ {0}, generation: Nat, rebuild: BOOLEAN,
             cursor: Cursors, stamp: Cursors]
Pages == [kind: {"page"}, request: Requests,
          outcome: {"more", "final", "stale", "error"}, records: Seq(Records)]
Subscriptions == [cursor: Cursors, stamp: Cursors, backCursor: Cursors,
                  backStamp: Cursors, generation: Nat, attempt: Nat,
                  fetching: BOOLEAN, buffered: Seq(LiveMessages),
                  asked: {"none", "catchUp", "full"}, pages: Seq(Records)]
Waiters == [pc: {"idle", "wait", "ok", "failed"}, attempt: Nat]
Jobs == [pc: {"idle", "run", "busy"}, full: BOOLEAN, tries: Nat,
         follow: BOOLEAN, followFull: BOOLEAN]
Replays == [kind: {"replay"}, generation: Nat, rebuild: BOOLEAN,
            records: Seq(Records), final: Cursors]
RecoveryFailed == [kind |-> "recoveryFailed"]
Views == [known: BOOLEAN, shown: SUBSET Records, last: Cursors,
          generation: Nat, awaiting: BOOLEAN, quarantined: BOOLEAN]

(* The log and its history: the log's records are some of those appended. *)
LogType ==
    /\ before \in Seq(Cursors) /\ Len(before) <= MaxRecords
    /\ \A i \in 1 .. Len(before) : before[i] < i
    /\ log \in Seq(1 .. Len(before)) /\ Len(log) \in 1 .. Len(before)
    /\ published \in 0 .. Len(log)

(* What the daemon sends. *)
DaemonType ==
    /\ tail \in [on: BOOLEAN, after: Cursors, attempt: Nat]
    /\ feed \in Seq([tail: Nat, message: SentMessages])
    /\ wire \in Seq(Pages \cup SentMessages)

(* A request, asked or answered, is for a replay the client has begun; the
   page of an answer that is not the last holds a record. *)
WellAnswered(frame, attempt) ==
    frame.kind = "page" =>
        /\ frame.request.attempt <= attempt
        /\ frame.outcome = "more" => frame.records # <<>>
AskedType ==
    /\ requests \subseteq Requests
    /\ \A q \in requests : q.attempt <= sub.attempt
    /\ \A i \in 1 .. Len(wire) : WellAnswered(wire[i], sub.attempt)

(* The client and the view. *)
ClientType ==
    /\ sub \in Subscriptions
    /\ conn = NoReplay \/ conn \in [busy: {TRUE}, request: Requests,
                                    records: Seq(Records)]
    /\ waiter \in [Tasks -> Waiters]
    /\ recovery \in Jobs
ViewType ==
    /\ inbox \in Seq(LiveMessages \cup Replays \cup {RecoveryFailed})
    /\ view \in Views /\ opens \in BOOLEAN
BoundsType == reverts \in 0 .. MaxReverts /\ faults \in 0 .. MaxFaults

TypeInv ==
    /\ LogType /\ DaemonType /\ AskedType /\ ClientType /\ ViewType /\ BoundsType

-----------------------------------------------------------------------------
(* Induction up to a bound, for a set of numbers: the set holds 0, and the
   next number of each it holds. *)

LEMMA CountUpTo ==
    ASSUME NEW n \in Nat, NEW P \in SUBSET (0 .. n), 0 \in P,
           \A i \in 0 .. n - 1 : i \in P => i + 1 \in P
    PROVE  P = 0 .. n
<1> DEFINE Q == {i \in 1 .. n : \A j \in 0 .. i : j \in P}
           k == Cardinality(Q)
<1>1. Q \in SUBSET (1 .. n) /\ IsFiniteSet(Q)
  <2>1. IsFiniteSet(1 .. n) /\ Q \in SUBSET (1 .. n)
    BY FS_Interval
  <2> QED
    BY <2>1, FS_Subset
<1>2. k \in Nat
  BY <1>1, FS_CardinalityType
<1>3. ASSUME NEW i \in Q PROVE i \in 1 .. k
  <2>1. 1 .. i \in SUBSET Q /\ i \in Nat \ {0}
    OBVIOUS
  <2>2. Cardinality(1 .. i) = i
    BY <2>1, FS_Interval
  <2>3. Cardinality(1 .. i) <= k
    BY <2>1, <1>1, FS_Subset
  <2> QED
    BY <2>1, <2>2, <2>3, <1>2
<1>4. Q = 1 .. k
  <2>1. IsFiniteSet(1 .. k) /\ Cardinality(1 .. k) = k
    BY <1>2, FS_Interval
  <2>2. Q \in SUBSET (1 .. k)
    BY <1>3
  <2> QED
    BY <2>1, <2>2, FS_Subset
<1> HIDE DEF k
<1>5. k \in 0 .. n
  BY <1>1, <1>2, <1>4
<1>6. \A j \in 0 .. k : j \in P
  BY <1>4, <1>5
<1>7. ~(k < n)
  <2> SUFFICES ASSUME k < n PROVE FALSE
    OBVIOUS
  <2>1. k + 1 \in P
    BY <1>5, <1>6
  <2>2. k + 1 \in Q
    BY <1>5, <1>6, <2>1
  <2> QED
    BY <2>2, <1>4, <1>2
<1>8. k = n
  BY <1>5, <1>7
<1>9. \A j \in 0 .. n : j \in P
  BY <1>6, <1>8
<1> QED
  BY <1>9

-----------------------------------------------------------------------------
(* The messages buffered behind a replay. *)

(* finish_ready_replay's loop keeps its state well formed. *)
LEMMA BehindType ==
    ASSUME NEW done \in SettledReplays, NEW m \in LiveMessages
    PROVE  Behind(done, m) \in SettledReplays
BY DEF Behind, SettledReplays, LiveMessages, Keeps, Continues, Cursors

(* So the replay ends well formed, whatever was buffered: Settle's recursion
   has a solution, built one message at a time. *)
LEMMA SettleType ==
    ASSUME NEW last, last.seq \in Cursors, last.id \in Cursors,
           NEW b \in Seq(LiveMessages)
    PROVE  Settle(last, b) \in SettledReplays
<1> DEFINE L == Len(b)
           Start == [cursor |-> last.seq, stamp |-> last.id, gap |-> FALSE,
                     kept |-> <<>>]
           Loop(f, n) == /\ f \in [0 .. n -> SettledReplays]
                         /\ f[0] = Start
                         /\ \A i \in 1 .. n : f[i] = Behind(f[i - 1], b[i])
           P == {n \in 0 .. L : \E f : Loop(f, n)}
           Body(f) == [n \in 0 .. L |->
                          IF n = 0 THEN Start ELSE Behind(f[n - 1], b[n])]
<1>1. L \in Nat /\ \A i \in 1 .. L : b[i] \in LiveMessages
  OBVIOUS
<1>2. Start \in SettledReplays
  BY DEF SettledReplays
<1> HIDE DEF Start, L
<1>3. 0 \in P
  <2> DEFINE f == [i \in 0 .. 0 |-> Start]
  <2>1. Loop(f, 0)
    BY <1>2
  <2> HIDE DEF f
  <2>2. 0 \in 0 .. L
    BY <1>1
  <2>3. \E g : Loop(g, 0)
    BY <2>1
  <2> QED
    BY <2>2, <2>3
<1>4. ASSUME NEW n \in 0 .. L - 1, n \in P PROVE n + 1 \in P
  <2>1. PICK f : Loop(f, n)
    BY <1>4
  <2> DEFINE g == [i \in 0 .. n + 1 |->
                      IF i = n + 1 THEN Behind(f[n], b[n + 1]) ELSE f[i]]
  <2>2. n + 1 \in 1 .. L /\ n \in 0 .. n /\ n + 1 \in 0 .. L
    BY <1>1
  <2>3. Behind(f[n], b[n + 1]) \in SettledReplays
    BY <2>1, <2>2, <1>1, BehindType
  <2>4. g \in [0 .. n + 1 -> SettledReplays] /\ g[0] = Start
    BY <2>1, <2>2, <2>3
  <2>5. ASSUME NEW i \in 1 .. n + 1 PROVE g[i] = Behind(g[i - 1], b[i])
    <3>1. CASE i = n + 1
      BY <3>1, <2>2
    <3>2. CASE i # n + 1
      <4>1. i \in 1 .. n /\ i - 1 \in 0 .. n /\ i - 1 # n + 1
        BY <3>2, <2>2
      <4> QED
        BY <4>1, <2>1, <2>2
    <3> QED
      BY <3>1, <3>2
  <2>6. Loop(g, n + 1)
    BY <2>4, <2>5
  <2> QED
    BY <2>2, <2>6
<1>5. L \in P
  <2>1. P \in SUBSET (0 .. L)
    OBVIOUS
  <2>2. \A n \in 0 .. L - 1 : n \in P => n + 1 \in P
    BY <1>4
  <2> HIDE DEF P
  <2>3. P = 0 .. L
    BY <1>1, <1>3, <2>1, <2>2, CountUpTo
  <2> QED
    BY <2>3, <1>1
<1>6. PICK f : Loop(f, L)
  BY <1>5
<1>7. f = Body(f)
  <2>1. \A n \in 0 .. L : f[n] = Body(f)[n]
    BY <1>6, <1>1
  <2> QED
    BY <2>1, <1>6
<1> DEFINE done == CHOOSE g : g = Body(g)
<1>8. done = Body(done)
  BY <1>7
<1>9. Settle(last, b) = done[L]
  BY DEF Settle, Start, L
<1> HIDE DEF done
<1>10. done[L] \in SettledReplays
  <2> DEFINE R == {n \in 0 .. L : done[n] \in SettledReplays}
  <2>1. \A n \in 0 .. L :
           done[n] = IF n = 0 THEN Start ELSE Behind(done[n - 1], b[n])
    BY <1>8
  <2>2. 0 \in R
    BY <2>1, <1>1, <1>2
  <2>3. ASSUME NEW n \in 0 .. L - 1, n \in R PROVE n + 1 \in R
    <3>1. n + 1 \in 1 .. L /\ n + 1 \in 0 .. L /\ (n + 1) - 1 = n /\ n + 1 # 0
      BY <1>1
    <3>2. done[n + 1] = Behind(done[n], b[n + 1])
      BY <2>1, <3>1
    <3>3. done[n] \in SettledReplays
      BY <2>3
    <3>4. done[n + 1] \in SettledReplays
      BY <3>1, <3>2, <3>3, <1>1, BehindType
    <3> QED
      BY <3>1, <3>4
  <2>4. R \in SUBSET (0 .. L) /\ \A n \in 0 .. L - 1 : n \in R => n + 1 \in R
    BY <2>3
  <2> HIDE DEF R
  <2>5. R = 0 .. L
    BY <1>1, <2>2, <2>4, CountUpTo
  <2> QED
    BY <2>5, <1>1 DEF R
<1> QED
  BY <1>9, <1>10

-----------------------------------------------------------------------------
(* The type invariant, and the frames it speaks of. *)

(* EventLog::events_after returns records of the log. *)
LEMMA RecordsAfterType ==
    ASSUME LogType, NEW c \in Cursors
    PROVE  RecordsAfter(log, c) \in Seq(Records)
<1> DEFINE n == IF c < Len(log) THEN Len(log) - c ELSE 0
<1>1. MaxRecords \in Nat /\ Len(log) \in Nat /\ Len(log) <= Len(before)
      /\ Len(before) \in Nat /\ Len(before) <= MaxRecords /\ c \in Nat
  BY TailAssumption DEF LogType, Cursors
<1>2. n \in Nat
  BY <1>1
<1>3. ASSUME NEW i \in 1 .. n PROVE Record(log, c + i) \in Records
  <2>1. c + i \in 1 .. Len(log)
    BY <1>1
  <2>2. log[c + i] \in 1 .. Len(before)
    BY <2>1 DEF LogType
  <2> QED
    BY <2>1, <2>2, <1>1 DEF Record, Records
<1>4. RecordsAfter(log, c) = [i \in 1 .. n |-> Record(log, c + i)]
  BY DEF RecordsAfter
<1> HIDE DEF n
<1> QED
  BY <1>2, <1>3, <1>4

(* A frame put on the wire. *)
LEMMA FrameSent ==
    ASSUME wire \in Seq(Pages \cup SentMessages),
           \A i \in 1 .. Len(wire) : WellAnswered(wire[i], sub.attempt),
           NEW f \in Pages \cup SentMessages, WellAnswered(f, sub.attempt),
           wire' = Append(wire, f), UNCHANGED sub
    PROVE  /\ wire' \in Seq(Pages \cup SentMessages)
           /\ \A i \in 1 .. Len(wire') : WellAnswered(wire'[i], sub'.attempt)
<1>1. /\ wire' \in Seq(Pages \cup SentMessages)
      /\ Len(wire') = Len(wire) + 1 /\ Len(wire) \in Nat
      /\ \A i \in 1 .. Len(wire') :
            wire'[i] = IF i = Len(wire) + 1 THEN f ELSE wire[i]
  BY AppendProperties
<1> QED
  BY <1>1

(* What was answered stays answered as later replays begin. *)
LEMMA AnsweredLater ==
    ASSUME NEW f \in Pages \cup SentMessages, NEW a \in Nat, NEW b \in Nat, a <= b,
           WellAnswered(f, a)
    PROVE  WellAnswered(f, b)
<1>1. CASE f \in Pages
  BY <1>1 DEF Pages, Requests, WellAnswered
<1>2. CASE f \in SentMessages
  BY <1>2 DEF SentMessages, Messages, WellAnswered
<1> QED
  BY <1>1, <1>2

(* A frame the client takes. *)
LEMMA FrameTaken ==
    ASSUME wire \in Seq(Pages \cup SentMessages), NEW a \in Nat, NEW b \in Nat, a <= b,
           \A i \in 1 .. Len(wire) : WellAnswered(wire[i], a),
           NextFrame
    PROVE  /\ wire' \in Seq(Pages \cup SentMessages)
           /\ \A i \in 1 .. Len(wire') : WellAnswered(wire'[i], b)
           /\ Head(wire) \in Pages \cup SentMessages
           /\ WellAnswered(Head(wire), a)
<1>1. wire # <<>> /\ wire' = Tail(wire)
  BY DEF NextFrame
<1>2. /\ wire' \in Seq(Pages \cup SentMessages)
      /\ Len(wire') = Len(wire) - 1 /\ Len(wire) \in Nat \ {0}
      /\ \A i \in 1 .. Len(wire') : wire'[i] = wire[i + 1]
      /\ Head(wire) = wire[1] /\ Head(wire) \in Pages \cup SentMessages
  BY <1>1, HeadTailProperties
<1>3. \A i \in 1 .. Len(wire) : wire[i] \in Pages \cup SentMessages
  OBVIOUS
<1>4. ASSUME NEW i \in 1 .. Len(wire') PROVE WellAnswered(wire'[i], b)
  <2>1. i + 1 \in 1 .. Len(wire)
    BY <1>2
  <2> QED
    BY <1>2, <1>3, <2>1, AnsweredLater
<1> QED
  BY <1>2, <1>4


-----------------------------------------------------------------------------
(* Each step keeps the type invariant. *)

LEMMA InitType ==
    Init => TypeInv
<1> SUFFICES ASSUME Init PROVE TypeInv
  OBVIOUS
<1>0. MaxRecords \in Nat \ {0}
  BY TailAssumption
<1>1. LogType
  BY <1>0 DEF Init, LogType, Cursors
<1>2. DaemonType
  BY <1>0 DEF Init, DaemonType, Cursors
<1>3. AskedType
  BY DEF Init, AskedType, Requests
<1>4. ClientType
  BY <1>0 DEF Init, ClientType, Subscriptions, NoSubscription, Waiters, Jobs, NoJob,
              Cursors, Tasks
<1>5. ViewType
  BY <1>0 DEF Init, ViewType, Views, NoView, Cursors
<1>6. BoundsType
  BY TailAssumption DEF Init, BoundsType
<1> QED
  BY <1>1, <1>2, <1>3, <1>4, <1>5, <1>6 DEF TypeInv

LEMMA AppendRecordType ==
    ASSUME TypeInv, AppendRecord
    PROVE  TypeInv'
<1> DEFINE n == Len(before)
<1>1. /\ n \in Nat /\ n + 1 <= MaxRecords /\ MaxRecords \in Nat
      /\ Len(log) \in Nat \ {0} /\ Len(log) <= n
  BY TailAssumption DEF TypeInv, LogType, AppendRecord
<1>2. Last(log) \in 1 .. n
  BY <1>1 DEF TypeInv, LogType, Last
<1>3. /\ before' \in Seq(Cursors) /\ Len(before') = n + 1
      /\ \A i \in 1 .. n : before'[i] = before[i]
      /\ before'[n + 1] = Last(log)
  <2>1. Last(log) \in Cursors /\ before \in Seq(Cursors)
        /\ before' = Append(before, Last(log))
    BY <1>1, <1>2 DEF TypeInv, LogType, AppendRecord, Cursors
  <2> QED
    BY <2>1, AppendProperties
<1>4. /\ log' \in Seq(1 .. n + 1) /\ Len(log') = Len(log) + 1
  <2>1. log \in Seq(1 .. n + 1)
    BY <1>1 DEF TypeInv, LogType
  <2>2. log' = Append(log, n + 1) /\ n + 1 \in 1 .. n + 1
    BY <1>1 DEF AppendRecord
  <2> QED
    BY <2>1, <2>2, AppendProperties
<1>5. \A i \in 1 .. Len(before') : before'[i] < i
  <2> SUFFICES ASSUME NEW i \in 1 .. n + 1 PROVE before'[i] < i
    BY <1>3
  <2>1. CASE i = n + 1
    BY <2>1, <1>1, <1>2, <1>3
  <2>2. CASE i # n + 1
    <3>1. i \in 1 .. n
      BY <2>2, <1>1
    <3> QED
      BY <3>1, <1>3 DEF TypeInv, LogType
  <2> QED
    BY <2>1, <2>2
<1>6. LogType'
  <2>1. published' = published /\ published \in 0 .. Len(log)
    BY DEF TypeInv, LogType, AppendRecord
  <2> QED
    BY <1>1, <1>3, <1>4, <1>5, <2>1 DEF LogType
<1>7. DaemonType' /\ AskedType' /\ ClientType' /\ ViewType' /\ BoundsType'
  BY DEF TypeInv, AppendRecord, DaemonType, AskedType, ClientType, ViewType, BoundsType,
         clientVars, viewVars, boundVars
<1> QED
  BY <1>6, <1>7 DEF TypeInv

(* A message the tail takes. *)
LEMMA SendType ==
    ASSUME DaemonType, NEW message \in SentMessages, Send(message)
    PROVE  feed' \in Seq([tail: Nat, message: SentMessages])
<1>1. [tail |-> tail.attempt, message |-> message] \in [tail: Nat, message: SentMessages]
  BY DEF DaemonType
<1>2. feed \in Seq([tail: Nat, message: SentMessages])
  BY DEF DaemonType
<1>3. feed' = Append(feed, [tail |-> tail.attempt, message |-> message])
  BY DEF Send
<1> QED
  BY <1>1, <1>2, <1>3, AppendProperties

LEMMA PublishStoredType ==
    ASSUME TypeInv, PublishStored
    PROVE  TypeInv'
<1> DEFINE n == published + 1
<1>1. /\ published \in Nat /\ n \in 1 .. Len(log) /\ published' = n
      /\ MaxRecords \in Nat /\ Len(log) \in Nat /\ Len(log) <= Len(before)
      /\ Len(before) \in Nat /\ Len(before) <= MaxRecords
  BY TailAssumption DEF TypeInv, LogType, PublishStored
<1>2. LogType'
  BY <1>1 DEF TypeInv, LogType, PublishStored
<1>3. Event(Record(log, n)) \in SentMessages
  <2>1. log[n] \in 1 .. Len(before)
    BY <1>1 DEF TypeInv, LogType
  <2> QED
    BY <1>1, <2>1 DEF SentMessages, Messages, Event, Record
<1>4. Gap(published) \in SentMessages
  BY <1>1 DEF SentMessages, Messages, Gap
<1>5. DaemonType /\ tail \in [on: BOOLEAN, after: Cursors, attempt: Nat]
  BY DEF TypeInv, DaemonType
<1>6. /\ feed' \in Seq([tail: Nat, message: SentMessages])
      /\ tail' \in [on: BOOLEAN, after: Cursors, attempt: Nat]
  <2>1. CASE ~tail.on \/ n <= tail.after
    BY <2>1, <1>5 DEF DaemonType, PublishStored
  <2>2. CASE ~(~tail.on \/ n <= tail.after) /\ Room > 1
    <3>1. Send(Event(Record(log, n))) /\ UNCHANGED tail
      BY <2>2 DEF PublishStored
    <3> QED
      BY <3>1, <1>3, <1>5, SendType
  <2>3. CASE ~(~tail.on \/ n <= tail.after) /\ ~(Room > 1)
    <3>1. Send(Gap(published)) /\ tail' = [tail EXCEPT !.on = FALSE]
      BY <2>3 DEF PublishStored
    <3> QED
      BY <3>1, <1>4, <1>5, SendType
  <2> QED
    BY <2>1, <2>2, <2>3
<1>7. DaemonType'
  BY <1>6 DEF TypeInv, DaemonType, PublishStored
<1>8. AskedType' /\ ClientType' /\ ViewType' /\ BoundsType'
  BY DEF TypeInv, PublishStored, AskedType, ClientType, ViewType, BoundsType,
         clientVars, viewVars, boundVars
<1> QED
  BY <1>2, <1>7, <1>8 DEF TypeInv

LEMMA RevertType ==
    ASSUME TypeInv, NEW c \in 1 .. Len(log), Revert(c)
    PROVE  TypeInv'
<1>1. /\ c \in Nat \ {0} /\ c < Len(log) /\ published' = c
      /\ MaxRecords \in Nat /\ Len(log) \in Nat /\ Len(log) <= Len(before)
      /\ Len(before) \in Nat /\ Len(before) <= MaxRecords
  BY TailAssumption DEF TypeInv, LogType, Revert
<1>2. log' \in Seq(1 .. Len(before)) /\ Len(log') = c
  <2>1. \A i \in 1 .. c : log[i] \in 1 .. Len(before)
    BY <1>1 DEF TypeInv, LogType
  <2>2. log' = SubSeq(log, 1, c)
    BY DEF Revert
  <2> QED
    BY <1>1, <2>1, <2>2, SubSeqProperties
<1>3. LogType'
  BY <1>1, <1>2 DEF TypeInv, LogType, Revert
<1>4. Rewound(c) \in SentMessages
  BY <1>1 DEF SentMessages, Messages, Rewound
<1>5. DaemonType /\ tail \in [on: BOOLEAN, after: Cursors, attempt: Nat]
  BY DEF TypeInv, DaemonType
<1>6. /\ feed' \in Seq([tail: Nat, message: SentMessages])
      /\ tail' \in [on: BOOLEAN, after: Cursors, attempt: Nat]
  <2>1. CASE ~tail.on
    BY <2>1, <1>5 DEF DaemonType, Revert
  <2>2. CASE tail.on
    <3>1. /\ Send(Rewound(c))
          /\ tail' = [tail EXCEPT !.after = IF c < @ THEN c ELSE @,
                                  !.on = Room > 1]
      BY <2>2 DEF Revert
    <3>2. c \in Cursors
      BY <1>1 DEF Cursors
    <3>3. tail' \in [on: BOOLEAN, after: Cursors, attempt: Nat]
      <4>1. CASE Room > 1
        <5>1. (Room > 1) = TRUE
          BY <4>1
        <5>2. tail' = [tail EXCEPT !.after = IF c < @ THEN c ELSE @, !.on = TRUE]
          BY <3>1, <5>1
        <5> QED
          BY <5>2, <3>2, <1>5
      <4>2. CASE ~(Room > 1)
        <5>1. (Room > 1) = FALSE
          BY <4>2
        <5>2. tail' = [tail EXCEPT !.after = IF c < @ THEN c ELSE @, !.on = FALSE]
          BY <3>1, <5>1
        <5> QED
          BY <5>2, <3>2, <1>5
      <4> QED
        BY <4>1, <4>2
    <3> QED
      BY <3>1, <3>3, <1>4, <1>5, SendType
  <2> QED
    BY <2>1, <2>2
<1>7. DaemonType'
  BY <1>6 DEF TypeInv, DaemonType, Revert
<1>8. BoundsType'
  BY TailAssumption DEF TypeInv, Revert, BoundsType
<1>9. AskedType' /\ ClientType' /\ ViewType'
  BY DEF TypeInv, Revert, AskedType, ClientType, ViewType, clientVars, viewVars
<1> QED
  BY <1>3, <1>7, <1>8, <1>9 DEF TypeInv

(* What the client's helpers return. *)
LEMMA AbortedType ==
    ASSUME NEW s \in Subscriptions
    PROVE  /\ Aborted(s) \in Subscriptions
           /\ Aborted(s).attempt = s.attempt
           /\ Aborted(s).generation = s.generation
           /\ Aborted(s).fetching = FALSE
<1>1. <<>> \in Seq(Records)
  OBVIOUS
<1>2. Aborted(s) \in Subscriptions
  BY <1>1 DEF Aborted, Subscriptions
<1>3. /\ Aborted(s).attempt = s.attempt
      /\ Aborted(s).generation = s.generation
      /\ Aborted(s).fetching = FALSE
  BY DEF Aborted, Subscriptions
<1> QED
  BY <1>2, <1>3

LEMMA AskedKeeps ==
    ASSUME NEW s \in Subscriptions, NEW full \in BOOLEAN
    PROVE  /\ Asked(s, full) \in Subscriptions
           /\ Asked(s, full).attempt = s.attempt
           /\ Asked(s, full).generation = s.generation
           /\ Asked(s, full).fetching = s.fetching
<1>1. PICK a \in {"catchUp", "full"} : Asked(s, full) = [s EXCEPT !.asked = a]
  BY DEF Asked
<1> QED
  BY <1>1 DEF Subscriptions

LEMMA ScheduledType ==
    ASSUME NEW r \in Jobs, NEW full \in BOOLEAN
    PROVE  Scheduled(r, full) \in Jobs
<1>1. CASE r.pc = "idle"
  BY <1>1 DEF Scheduled, Jobs
<1>2. CASE r.pc # "idle"
  <2>1. (r.followFull \/ full) \in BOOLEAN
    OBVIOUS
  <2>2. Scheduled(r, full) =
           [r EXCEPT !.follow = TRUE, !.followFull = r.followFull \/ full]
    BY <1>2 DEF Scheduled
  <2> QED
    BY <2>1, <2>2 DEF Jobs
<1> QED
  BY <1>1, <1>2

LEMMA NextJobType ==
    ASSUME NEW r \in Jobs
    PROVE  NextJob(r) \in Jobs
BY DEF NextJob, NoJob, Jobs

(* A step that begins no replay leaves what was asked and answered as it was. *)
LEMMA AskedStays ==
    ASSUME AskedType, requests' = requests, wire' = wire, sub'.attempt = sub.attempt
    PROVE  AskedType'
BY DEF AskedType

(* The answer to a request. *)
LEMMA AnswerType ==
    ASSUME TypeInv, NEW q \in requests, NEW records \in Seq(Records),
           NEW outcome \in {"more", "final", "stale", "error"},
           outcome = "more" => records # <<>>,
           Answer(q, outcome, records), UNCHANGED sub
    PROVE  wire' \in Seq(Pages \cup SentMessages) /\ AskedType'
<1> DEFINE f == [kind |-> "page", request |-> q, outcome |-> outcome,
                 records |-> records]
<1>1. q \in Requests /\ q.attempt <= sub.attempt
  BY DEF TypeInv, AskedType
<1>2. f \in Pages \cup SentMessages /\ WellAnswered(f, sub.attempt)
  BY <1>1 DEF Pages, WellAnswered
<1>3. wire' = Append(wire, f) /\ requests' = requests \ {q}
  BY DEF Answer
<1> HIDE DEF f
<1>4. /\ wire' \in Seq(Pages \cup SentMessages)
      /\ \A i \in 1 .. Len(wire') : WellAnswered(wire'[i], sub'.attempt)
  BY <1>2, <1>3, FrameSent DEF TypeInv, DaemonType, AskedType
<1> QED
  BY <1>3, <1>4 DEF TypeInv, AskedType

LEMMA SubscribeEventsType ==
    ASSUME TypeInv, NEW q \in requests, SubscribeEvents(q)
    PROVE  TypeInv'
<1> DEFINE records == RecordsAfter(log, q.cursor)
           k == PageLimit(q)
<1>1. q \in Requests /\ q.cursor \in Cursors /\ q.attempt \in Nat
  BY DEF TypeInv, AskedType, Requests
<1>2. records \in Seq(Records) /\ Len(records) \in Nat
  <2>1. records \in Seq(Records)
    BY <1>1, RecordsAfterType DEF TypeInv
  <2> QED
    BY <2>1
<1>3. k \in Nat \ {0}
  BY TailAssumption DEF PageLimit, TypeInv, LogType
<1>4. Len(log) \in Cursors
  BY TailAssumption DEF TypeInv, LogType, Cursors
<1>5. UNCHANGED sub
  BY DEF SubscribeEvents, clientVars
<1> HIDE DEF records, k
<1>6. /\ wire' \in Seq(Pages \cup SentMessages) /\ AskedType'
      /\ tail' \in [on: BOOLEAN, after: Cursors, attempt: Nat]
  <2>0. tail \in [on: BOOLEAN, after: Cursors, attempt: Nat]
    BY DEF TypeInv, DaemonType
  <2>1. CASE Answer(q, "stale", <<>>) /\ UNCHANGED tail
    <3>1. <<>> \in Seq(Records)
      OBVIOUS
    <3> QED
      BY <2>0, <2>1, <3>1, <1>5, AnswerType
  <2>2. CASE /\ Len(records) > k
             /\ Answer(q, "more", SubSeq(records, 1, k)) /\ UNCHANGED tail
    <3>1. \A i \in 1 .. k : records[i] \in Records
      BY <1>2, <1>3, <2>2
    <3>2. SubSeq(records, 1, k) \in Seq(Records) /\ Len(SubSeq(records, 1, k)) = k
      BY <3>1, <1>3, SubSeqProperties
    <3>3. SubSeq(records, 1, k) # <<>>
      BY <3>2, <1>3
    <3> QED
      BY <2>0, <2>2, <3>2, <3>3, <1>5, AnswerType
  <2>3. CASE /\ Answer(q, "final", records)
             /\ tail' = [on |-> TRUE, after |-> Len(log), attempt |-> q.attempt]
    <3>1. wire' \in Seq(Pages \cup SentMessages) /\ AskedType'
      BY <2>3, <1>2, <1>5, AnswerType
    <3> QED
      BY <2>3, <3>1, <1>1, <1>4
  <2> QED
    BY <2>1, <2>2, <2>3 DEF SubscribeEvents, records, k
<1>7. DaemonType'
  BY <1>6 DEF TypeInv, DaemonType, SubscribeEvents
<1>8. LogType' /\ ClientType' /\ ViewType' /\ BoundsType'
  BY DEF TypeInv, SubscribeEvents, LogType, ClientType, ViewType, BoundsType,
         clientVars, viewVars, boundVars
<1> QED
  BY <1>6, <1>7, <1>8 DEF TypeInv

LEMMA RefuseSubscribeType ==
    ASSUME TypeInv, NEW q \in requests, RefuseSubscribe(q)
    PROVE  TypeInv'
<1>1. UNCHANGED sub /\ Answer(q, "error", <<>>) /\ <<>> \in Seq(Records)
  BY DEF RefuseSubscribe, clientVars
<1>2. wire' \in Seq(Pages \cup SentMessages) /\ AskedType'
  BY <1>1, AnswerType
<1>3. DaemonType'
  BY <1>2 DEF TypeInv, DaemonType, RefuseSubscribe
<1>4. BoundsType'
  BY TailAssumption DEF TypeInv, BoundsType, RefuseSubscribe, Fault
<1>5. LogType' /\ ClientType' /\ ViewType'
  BY DEF TypeInv, RefuseSubscribe, LogType, ClientType, ViewType, clientVars, viewVars
<1> QED
  BY <1>2, <1>3, <1>4, <1>5 DEF TypeInv

LEMMA ForwardType ==
    ASSUME TypeInv, ForwardSessionTail
    PROVE  TypeInv'
<1> DEFINE f == Head(feed).message
<1>1. /\ feed # <<>> /\ feed \in Seq([tail: Nat, message: SentMessages])
      /\ feed' = Tail(feed) /\ wire' = Append(wire, f) /\ UNCHANGED sub
  BY DEF TypeInv, DaemonType, ForwardSessionTail, clientVars
<1>2. /\ Head(feed) \in [tail: Nat, message: SentMessages]
      /\ feed' \in Seq([tail: Nat, message: SentMessages])
  BY <1>1, HeadTailProperties
<1>3. f \in Pages \cup SentMessages /\ WellAnswered(f, sub.attempt)
  BY <1>2 DEF SentMessages, Messages, WellAnswered
<1> HIDE DEF f
<1>4. /\ wire' \in Seq(Pages \cup SentMessages)
      /\ \A i \in 1 .. Len(wire') : WellAnswered(wire'[i], sub'.attempt)
  BY <1>1, <1>3, FrameSent DEF TypeInv, DaemonType, AskedType
<1>5. DaemonType' /\ AskedType'
  BY <1>1, <1>2, <1>4 DEF TypeInv, DaemonType, AskedType, ForwardSessionTail
<1>6. LogType' /\ ClientType' /\ ViewType' /\ BoundsType'
  BY DEF TypeInv, ForwardSessionTail, LogType, ClientType, ViewType, BoundsType,
         clientVars, viewVars, boundVars
<1> QED
  BY <1>5, <1>6 DEF TypeInv

(* request_replay_with_timeout begins a replay, with a number of its own. *)
LEMMA PreparedType ==
    ASSUME ClientType, NEW rebuild \in BOOLEAN, NEW recovering \in BOOLEAN
    PROVE  LET s == Prepared(rebuild, recovering)
           IN  /\ s \in Subscriptions
               /\ s.attempt = sub.attempt + 1 /\ s.attempt \in Nat \ {0}
               /\ s.fetching = TRUE
<1> DEFINE cursor == IF rebuild THEN 0 ELSE sub.cursor
           stamp == IF rebuild THEN 0 ELSE sub.stamp
           generation == IF rebuild /\ recovering THEN sub.generation + 1
                         ELSE sub.generation
<1>1. sub \in Subscriptions /\ 0 \in Cursors /\ <<>> \in Seq(Records)
  BY TailAssumption DEF ClientType, Cursors
<1>2. cursor \in Cursors /\ stamp \in Cursors
  BY <1>1 DEF Subscriptions
<1>3. generation \in Nat
  BY <1>1 DEF Subscriptions
<1>4. sub.attempt \in Nat /\ sub.attempt + 1 \in Nat \ {0}
  BY <1>1 DEF Subscriptions
<1>5. Prepared(rebuild, recovering) =
         [sub EXCEPT !.backCursor = sub.cursor, !.backStamp = sub.stamp,
                     !.cursor = cursor, !.stamp = stamp,
                     !.generation = generation,
                     !.attempt = sub.attempt + 1, !.fetching = TRUE, !.pages = <<>>]
  BY <1>1 DEF Prepared, Subscriptions
<1> HIDE DEF cursor, stamp, generation
<1>6. Prepared(rebuild, recovering) \in Subscriptions
  BY <1>1, <1>2, <1>3, <1>4, <1>5 DEF Subscriptions
<1>7. /\ Prepared(rebuild, recovering).attempt = sub.attempt + 1
      /\ Prepared(rebuild, recovering).fetching = TRUE
  BY <1>1, <1>5 DEF Subscriptions
<1> QED
  BY <1>4, <1>6, <1>7

LEMMA StartReplayType ==
    ASSUME TypeInv, NEW t \in Tasks, NEW rebuild \in BOOLEAN,
           StartReplay(t, rebuild), wire' = wire
    PROVE  /\ sub' \in Subscriptions /\ AskedType'
           /\ waiter' \in [Tasks -> Waiters]
<1> DEFINE s == Prepared(rebuild, t = "worker")
           q == [attempt |-> s.attempt, generation |-> s.generation,
                 rebuild |-> rebuild, cursor |-> s.cursor, stamp |-> s.stamp]
<1>0. (t = "worker") \in BOOLEAN
  OBVIOUS
<1>1. /\ s \in Subscriptions /\ s.attempt = sub.attempt + 1
      /\ s.attempt \in Nat \ {0}
  BY <1>0, PreparedType DEF TypeInv
<1>2. sub' = s /\ requests' = requests \cup {q}
  BY DEF StartReplay
<1>3. waiter' = [waiter EXCEPT ![t] = [pc |-> "wait", attempt |-> s.attempt]]
  BY DEF StartReplay
<1> HIDE DEF s
<1>4. q \in Requests /\ q.attempt = s.attempt
  BY <1>1 DEF Requests, Subscriptions
<1> HIDE DEF q
<1>5. waiter' \in [Tasks -> Waiters]
  BY <1>1, <1>3 DEF TypeInv, ClientType, Waiters
<1>6. sub.attempt \in Nat /\ sub'.attempt = sub.attempt + 1
  BY <1>1, <1>2 DEF TypeInv, ClientType, Subscriptions
<1>7. requests' \subseteq Requests
  BY <1>2, <1>4 DEF TypeInv, AskedType
<1>8. ASSUME NEW r \in requests' PROVE r.attempt <= sub'.attempt
  <2>1. CASE r \in requests
    <3>1. r.attempt \in Nat /\ r.attempt <= sub.attempt
      BY <2>1 DEF TypeInv, AskedType, Requests
    <3> QED
      BY <3>1, <1>6
  <2>2. CASE r = q
    BY <2>2, <1>1, <1>4, <1>6
  <2> QED
    BY <2>1, <2>2, <1>2
<1>9. ASSUME NEW i \in 1 .. Len(wire') PROVE WellAnswered(wire'[i], sub'.attempt)
  <2>1. wire[i] \in Pages \cup SentMessages /\ WellAnswered(wire[i], sub.attempt)
    BY DEF TypeInv, DaemonType, AskedType
  <2>2. sub'.attempt \in Nat /\ sub.attempt <= sub'.attempt
    BY <1>6
  <2> QED
    BY <1>6, <2>1, <2>2, AnsweredLater
<1> QED
  BY <1>1, <1>2, <1>5, <1>7, <1>8, <1>9 DEF AskedType

LEMMA SubscribeFromScratchType ==
    ASSUME TypeInv, SubscribeFromScratch
    PROVE  TypeInv'
<1>1. UNCHANGED <<log, before, published, tail, feed, wire, conn, recovery,
                  inbox, view, boundVars>> /\ opens' = FALSE
  BY DEF SubscribeFromScratch
<1>2. /\ sub' \in Subscriptions /\ AskedType' /\ waiter' \in [Tasks -> Waiters]
  <2>1. CASE StartReplay("caller", TRUE)
    BY <1>1, <2>1, StartReplayType DEF Tasks
  <2>2. CASE UNCHANGED <<sub, waiter, requests>>
    BY <1>1, <2>2 DEF TypeInv, AskedType, ClientType
  <2> QED
    BY <2>1, <2>2 DEF SubscribeFromScratch
<1>3. LogType' /\ DaemonType' /\ ViewType' /\ BoundsType'
  BY <1>1 DEF TypeInv, LogType, DaemonType, ViewType, BoundsType, boundVars
<1>4. ClientType'
  BY <1>1, <1>2 DEF TypeInv, ClientType
<1> QED
  BY <1>2, <1>3, <1>4 DEF TypeInv

LEMMA RecoverAllType ==
    ASSUME TypeInv, RecoverAll
    PROVE  TypeInv'
<1>1. UNCHANGED <<log, before, published, tail, feed, wire, conn, viewVars,
                  boundVars>>
  BY DEF RecoverAll
<1>2. recovery \in Jobs /\ recovery.full \in BOOLEAN /\ sub \in Subscriptions
  BY DEF TypeInv, ClientType, Jobs
<1>3. /\ sub' \in Subscriptions /\ AskedType' /\ waiter' \in [Tasks -> Waiters]
      /\ recovery' \in Jobs
  <2>1. CASE /\ StartReplay("worker", recovery.full)
             /\ recovery' = [recovery EXCEPT !.pc = "busy"]
    <3>1. recovery' \in Jobs
      BY <1>2, <2>1 DEF Jobs
    <3> QED
      BY <1>1, <1>2, <2>1, <3>1, StartReplayType DEF Tasks
  <2>2. CASE /\ sub' = Asked(sub, recovery.full)
             /\ recovery' = NextJob(recovery)
             /\ UNCHANGED <<requests, waiter>>
    <3>1. sub' \in Subscriptions /\ sub'.attempt = sub.attempt
      BY <1>2, <2>2, AskedKeeps
    <3>2. AskedType'
      BY <1>1, <2>2, <3>1, AskedStays DEF TypeInv
    <3> QED
      BY <1>2, <2>2, <3>1, <3>2, NextJobType DEF TypeInv, ClientType
  <2> QED
    BY <2>1, <2>2 DEF RecoverAll
<1>4. LogType' /\ DaemonType' /\ ViewType' /\ BoundsType'
  BY <1>1 DEF TypeInv, LogType, DaemonType, ViewType, BoundsType, boundVars, viewVars
<1>5. ClientType'
  BY <1>1, <1>3 DEF TypeInv, ClientType
<1> QED
  BY <1>3, <1>4, <1>5 DEF TypeInv

LEMMA ReplayTimesOutType ==
    ASSUME TypeInv, NEW t \in Tasks, ReplayTimesOut(t)
    PROVE  TypeInv'
<1>1. waiter' \in [Tasks -> Waiters]
  BY DEF TypeInv, ClientType, Waiters, ReplayTimesOut
<1>2. ClientType'
  BY <1>1 DEF TypeInv, ClientType, ReplayTimesOut
<1>3. BoundsType'
  BY TailAssumption DEF TypeInv, BoundsType, ReplayTimesOut, Fault
<1>4. LogType' /\ DaemonType' /\ AskedType' /\ ViewType'
  BY DEF TypeInv, ReplayTimesOut, LogType, DaemonType, AskedType, ViewType,
         daemonVars, viewVars
<1> QED
  BY <1>2, <1>3, <1>4 DEF TypeInv

LEMMA SubscribeEndsType ==
    ASSUME TypeInv, SubscribeEnds
    PROVE  TypeInv'
<1>1. UNCHANGED <<daemonVars, wire, conn, viewVars, boundVars>>
  BY DEF SubscribeEnds
<1>2. waiter' \in [Tasks -> Waiters]
  BY DEF TypeInv, ClientType, Waiters, SubscribeEnds, Tasks
<1>3. sub \in Subscriptions /\ recovery \in Jobs
  BY DEF TypeInv, ClientType
<1>4. sub' \in Subscriptions /\ sub'.attempt = sub.attempt /\ recovery' \in Jobs
  <2>1. CASE UNCHANGED <<sub, recovery>>
    BY <1>3, <2>1
  <2>2. CASE sub' = Aborted(sub) /\ recovery' = Scheduled(recovery, TRUE)
    BY <1>3, <2>2, AbortedType, ScheduledType
  <2> QED
    BY <2>1, <2>2 DEF SubscribeEnds
<1>5. AskedType'
  BY <1>1, <1>4, AskedStays DEF TypeInv, daemonVars
<1>6. ClientType'
  BY <1>1, <1>2, <1>4 DEF TypeInv, ClientType
<1>7. LogType' /\ DaemonType' /\ ViewType' /\ BoundsType'
  BY <1>1 DEF TypeInv, LogType, DaemonType, ViewType, BoundsType,
              daemonVars, viewVars, boundVars
<1> QED
  BY <1>5, <1>6, <1>7 DEF TypeInv

LEMMA TryEndsType ==
    ASSUME TypeInv, TryEnds
    PROVE  TypeInv'
<1> DEFINE givesUp == recovery.tries + 1 = Attempts
<1>1. UNCHANGED <<daemonVars, wire, conn, view, opens, boundVars>>
  BY DEF TryEnds
<1>2. waiter' \in [Tasks -> Waiters]
  BY DEF TypeInv, ClientType, Waiters, TryEnds, Tasks
<1>3. sub \in Subscriptions /\ recovery \in Jobs
      /\ inbox \in Seq(LiveMessages \cup Replays \cup {RecoveryFailed})
  BY DEF TypeInv, ClientType, ViewType
<1>4. /\ sub' \in Subscriptions /\ sub'.attempt = sub.attempt /\ recovery' \in Jobs
      /\ inbox' \in Seq(LiveMessages \cup Replays \cup {RecoveryFailed})
  <2>1. CASE recovery' = NextJob(recovery) /\ UNCHANGED <<sub, inbox>>
    BY <1>3, <2>1, NextJobType
  <2>2. CASE /\ sub' = Aborted(sub)
             /\ recovery' = IF givesUp THEN NextJob(recovery)
                            ELSE [recovery EXCEPT !.pc = "run", !.tries = @ + 1]
             /\ inbox' = IF givesUp THEN Append(inbox, RecoveryFailed) ELSE inbox
    <3>1. sub' \in Subscriptions /\ sub'.attempt = sub.attempt
      BY <1>3, <2>2, AbortedType
    <3>2. [recovery EXCEPT !.pc = "run", !.tries = @ + 1] \in Jobs
      <4>1. recovery.tries + 1 \in Nat
        BY <1>3 DEF Jobs
      <4>2. \A n \in Nat : [recovery EXCEPT !.pc = "run", !.tries = n] \in Jobs
        BY <1>3 DEF Jobs
      <4> QED
        BY <4>1, <4>2
    <3>3. recovery' \in Jobs
      BY <1>3, <2>2, <3>2, NextJobType
    <3>4. Append(inbox, RecoveryFailed) \in
             Seq(LiveMessages \cup Replays \cup {RecoveryFailed})
      <4>1. RecoveryFailed \in LiveMessages \cup Replays \cup {RecoveryFailed}
        OBVIOUS
      <4> QED
        BY <1>3, <4>1, AppendProperties
    <3>5. inbox' \in Seq(LiveMessages \cup Replays \cup {RecoveryFailed})
      BY <1>3, <2>2, <3>4
    <3> QED
      BY <3>1, <3>3, <3>5
  <2> QED
    BY <2>1, <2>2 DEF TryEnds, RecoveryFailed
<1>5. AskedType'
  BY <1>1, <1>4, AskedStays DEF TypeInv, daemonVars
<1>6. ClientType'
  BY <1>1, <1>2, <1>4 DEF TypeInv, ClientType
<1>7. LogType' /\ DaemonType' /\ ViewType' /\ BoundsType'
  BY <1>1, <1>4 DEF TypeInv, LogType, DaemonType, ViewType, BoundsType,
                    daemonVars, boundVars
<1> QED
  BY <1>5, <1>6, <1>7 DEF TypeInv

(* The connection task hands a result to whoever waits for it. *)
LEMMA RespondType ==
    ASSUME waiter \in [Tasks -> Waiters], NEW q, NEW result \in {"ok", "failed"},
           Respond(q, result)
    PROVE  waiter' \in [Tasks -> Waiters]
BY DEF Respond, Waiters

(* A page the connection task takes off the wire. *)
LEMMA PageTaken ==
    ASSUME TypeInv, NextFrame, Head(wire).kind = "page"
    PROVE  /\ Head(wire) \in Pages
           /\ Head(wire).request \in Requests
           /\ Head(wire).request.attempt <= sub.attempt
           /\ Head(wire).records \in Seq(Records)
           /\ Head(wire).outcome = "more" => Head(wire).records # <<>>
<1>1. sub.attempt \in Nat
  BY DEF TypeInv, ClientType, Subscriptions
<1>2. Head(wire) \in Pages \cup SentMessages /\ WellAnswered(Head(wire), sub.attempt)
  <2>1. sub.attempt <= sub.attempt
    BY <1>1
  <2>2. /\ wire \in Seq(Pages \cup SentMessages)
        /\ \A i \in 1 .. Len(wire) : WellAnswered(wire[i], sub.attempt)
    BY DEF TypeInv, DaemonType, AskedType
  <2> QED
    BY <1>1, <2>1, <2>2, FrameTaken
<1>3. Head(wire) \in Pages
  BY <1>2 DEF SentMessages, Messages
<1> QED
  BY <1>2, <1>3 DEF Pages, WellAnswered

LEMMA HandlePageType ==
    ASSUME TypeInv, HandlePage
    PROVE  TypeInv'
<1> DEFINE page == Head(wire)
           q == page.request
<1>1. /\ NextFrame /\ page.kind = "page"
      /\ UNCHANGED <<log, before, published, tail, feed, viewVars, boundVars>>
  BY DEF HandlePage
<1>2. /\ page \in Pages /\ q \in Requests /\ q.attempt <= sub.attempt
      /\ page.records \in Seq(Records)
      /\ page.outcome = "more" => page.records # <<>>
  BY <1>1, PageTaken
<1>3. /\ sub \in Subscriptions /\ recovery \in Jobs /\ waiter \in [Tasks -> Waiters]
      /\ sub.attempt \in Nat /\ sub.pages \in Seq(Records) /\ <<>> \in Seq(Records)
  <2>1. sub \in Subscriptions /\ recovery \in Jobs /\ waiter \in [Tasks -> Waiters]
    BY DEF TypeInv, ClientType
  <2> QED
    BY <2>1 DEF Subscriptions
<1>4. /\ wire' \in Seq(Pages \cup SentMessages)
      /\ \A i \in 1 .. Len(wire') : WellAnswered(wire'[i], sub.attempt)
  <2>1. sub.attempt \in Nat /\ sub.attempt <= sub.attempt
    BY <1>3
  <2>2. /\ wire \in Seq(Pages \cup SentMessages)
        /\ \A i \in 1 .. Len(wire) : WellAnswered(wire[i], sub.attempt)
    BY DEF TypeInv, DaemonType, AskedType
  <2> QED
    BY <1>1, <2>1, <2>2, FrameTaken
<1> HIDE DEF page
<1>5. /\ sub' \in Subscriptions /\ sub'.attempt = sub.attempt
      /\ recovery' \in Jobs /\ waiter' \in [Tasks -> Waiters]
      /\ requests' \subseteq Requests
      /\ \A r \in requests' : r.attempt <= sub.attempt
      /\ conn' = NoReplay \/ conn' \in [busy: {TRUE}, request: Requests,
                                        records: Seq(Records)]
  <2>0. /\ requests \subseteq Requests /\ \A r \in requests : r.attempt <= sub.attempt
        /\ conn = NoReplay \/ conn \in [busy: {TRUE}, request: Requests,
                                        records: Seq(Records)]
    BY DEF TypeInv, AskedType, ClientType
  <2>1. CASE Respond(q, "failed") /\ UNCHANGED <<sub, conn, recovery, requests>>
    BY <2>0, <2>1, <1>3, RespondType
  <2>2. CASE /\ Respond(q, "ok")
             /\ sub' = IF IsCurrent(q) THEN Aborted(sub) ELSE sub
             /\ recovery' = Scheduled(recovery, TRUE)
             /\ UNCHANGED <<conn, requests>>
    <3>1. sub' \in Subscriptions /\ sub'.attempt = sub.attempt
      BY <2>2, <1>3, AbortedType
    <3>2. recovery' \in Jobs /\ waiter' \in [Tasks -> Waiters]
      BY <2>2, <1>3, ScheduledType, RespondType
    <3> QED
      BY <2>0, <2>2, <3>1, <3>2
  <2>3. CASE /\ page.outcome = "more"
             /\ sub' = [sub EXCEPT !.pages = @ \o page.records]
             /\ requests' =
                   IF AwaitedBy(q)
                   THEN requests \cup
                       {[q EXCEPT !.cursor = Last(page.records).seq, !.stamp = 0]}
                   ELSE requests
             /\ UNCHANGED <<conn, waiter, recovery>>
    <3>1. sub.pages \o page.records \in Seq(Records)
      BY <1>2, <1>3, ConcatProperties
    <3>2. sub' \in Subscriptions /\ sub'.attempt = sub.attempt
      BY <2>3, <3>1, <1>3 DEF Subscriptions
    <3>3. Last(page.records).seq \in Cursors /\ 0 \in Cursors
      <4>1. Len(page.records) \in 1 .. Len(page.records)
        BY <1>2, <2>3
      <4>2. Last(page.records) \in Records
        BY <4>1, <1>2 DEF Last
      <4> QED
        BY <4>2, TailAssumption DEF Records, Cursors
    <3> DEFINE r == [q EXCEPT !.cursor = Last(page.records).seq, !.stamp = 0]
    <3>4. r \in Requests /\ r.attempt = q.attempt
      BY <3>3, <1>2 DEF Requests
    <3> HIDE DEF r
    <3>5. requests' \subseteq requests \cup {r}
      BY <2>3 DEF r
    <3> QED
      BY <2>0, <2>3, <3>2, <3>4, <3>5, <1>2, <1>3
  <2>4. CASE /\ Respond(q, "ok")
             /\ conn' = [busy |-> TRUE, request |-> q,
                         records |-> (IF IsCurrent(q) THEN sub.pages ELSE <<>>)
                                     \o page.records]
             /\ sub' = IF IsCurrent(q) THEN [sub EXCEPT !.pages = <<>>] ELSE sub
             /\ UNCHANGED <<recovery, requests>>
    <3>1. sub' \in Subscriptions /\ sub'.attempt = sub.attempt
      BY <2>4, <1>3 DEF Subscriptions
    <3>2. (IF IsCurrent(q) THEN sub.pages ELSE <<>>) \o page.records \in Seq(Records)
      <4>1. (IF IsCurrent(q) THEN sub.pages ELSE <<>>) \in Seq(Records)
        BY <1>3
      <4> QED
        BY <4>1, <1>2, ConcatProperties
    <3>3. conn' \in [busy: {TRUE}, request: Requests, records: Seq(Records)]
      BY <2>4, <3>2, <1>2
    <3> QED
      BY <2>0, <2>4, <3>1, <3>3, <1>3, RespondType
  <2> QED
    BY <2>1, <2>2, <2>3, <2>4 DEF HandlePage, page
<1>6. AskedType'
  BY <1>4, <1>5 DEF AskedType
<1>7. ClientType'
  BY <1>5 DEF ClientType
<1>8. LogType' /\ DaemonType' /\ ViewType' /\ BoundsType'
  BY <1>1, <1>4 DEF TypeInv, LogType, DaemonType, ViewType, BoundsType,
                    viewVars, boundVars
<1> QED
  BY <1>6, <1>7, <1>8 DEF TypeInv

LEMMA DeliverReplayType ==
    ASSUME TypeInv, DeliverReplay
    PROVE  TypeInv'
<1> DEFINE q == conn.request
           last == IF conn.records = <<>> THEN [seq |-> sub.cursor, id |-> sub.stamp]
                   ELSE Last(conn.records)
           settled == Settle(last, sub.buffered)
           Deliveries == LiveMessages \cup Replays \cup {RecoveryFailed}
           replay == [kind |-> "replay", generation |-> q.generation,
                      rebuild |-> q.rebuild, records |-> conn.records,
                      final |-> last.seq]
<1>1. /\ conn.busy /\ conn' = NoReplay
      /\ UNCHANGED <<daemonVars, wire, waiter, view, opens, boundVars>>
  BY DEF DeliverReplay
<1>2. conn \in [busy: {TRUE}, request: Requests, records: Seq(Records)]
  <2>1. NoReplay.busy = FALSE
    BY DEF NoReplay
  <2> QED
    BY <1>1, <2>1 DEF TypeInv, ClientType
<1>3. q \in Requests /\ conn.records \in Seq(Records)
  BY <1>2
<1>4. /\ sub \in Subscriptions /\ recovery \in Jobs /\ inbox \in Seq(Deliveries)
      /\ sub.cursor \in Cursors /\ sub.stamp \in Cursors
      /\ sub.buffered \in Seq(LiveMessages)
      /\ <<>> \in Seq(LiveMessages)
  BY DEF TypeInv, ClientType, ViewType, Subscriptions
<1>5. last.seq \in Cursors /\ last.id \in Cursors
  <2>1. CASE conn.records = <<>>
    BY <2>1, <1>4
  <2>2. CASE conn.records # <<>>
    <3>1. Len(conn.records) \in 1 .. Len(conn.records)
      BY <1>3, <2>2
    <3>2. Last(conn.records) \in Records
      BY <3>1, <1>3 DEF Last
    <3> QED
      BY <2>2, <3>2, TailAssumption DEF Records, Cursors
  <2> QED
    BY <2>1, <2>2
<1> HIDE DEF last
<1>6. settled \in SettledReplays
  BY <1>4, <1>5, SettleType
<1> HIDE DEF settled
<1>7. replay \in Replays
  BY <1>3, <1>5 DEF Replays, Requests
<1> HIDE DEF replay
<1>8. /\ sub' \in Subscriptions /\ sub'.attempt = sub.attempt
      /\ recovery' \in Jobs /\ inbox' \in Seq(Deliveries)
  <2>1. CASE ~IsCurrent(q)
    BY <2>1, <1>4 DEF DeliverReplay
  <2>2. CASE IsCurrent(q)
    <3>1. sub' = [sub EXCEPT !.cursor = settled.cursor, !.stamp = settled.stamp,
                             !.fetching = FALSE, !.buffered = <<>>,
                             !.asked = "none"]
      BY <2>2 DEF DeliverReplay, settled, last
    <3>2. sub' \in Subscriptions /\ sub'.attempt = sub.attempt
      <4>1. settled.cursor \in Cursors /\ settled.stamp \in Cursors
        BY <1>6 DEF SettledReplays
      <4>2. sub' \in Subscriptions
        BY <3>1, <4>1, <1>4 DEF Subscriptions
      <4> QED
        BY <3>1, <4>2, <1>4 DEF Subscriptions
    <3>3. inbox' = inbox \o <<replay>> \o settled.kept
      BY <2>2 DEF DeliverReplay, settled, last, replay
    <3>4. inbox' \in Seq(Deliveries)
      <4>1. <<replay>> \in Seq(Deliveries)
        BY <1>7
      <4>2. settled.kept \in Seq(Deliveries)
        <5>1. settled.kept \in Seq(LiveMessages)
          BY <1>6 DEF SettledReplays
        <5> QED
          BY <5>1
      <4>3. inbox \o <<replay>> \in Seq(Deliveries)
        BY <4>1, <1>4, ConcatProperties
      <4> QED
        BY <3>3, <4>2, <4>3, ConcatProperties
    <3>5. recovery' \in Jobs
      <4>1. \/ recovery' = Scheduled(recovery, sub.asked = "full")
            \/ recovery' = Scheduled(recovery, FALSE)
            \/ recovery' = recovery
        BY <2>2 DEF DeliverReplay
      <4>2. (sub.asked = "full") \in BOOLEAN
        OBVIOUS
      <4> QED
        BY <4>1, <4>2, <1>4, ScheduledType
    <3> QED
      BY <3>2, <3>4, <3>5
  <2> QED
    BY <2>1, <2>2
<1>9. AskedType'
  BY <1>1, <1>8, AskedStays DEF TypeInv, daemonVars
<1>10. ClientType'
  BY <1>1, <1>8 DEF TypeInv, ClientType
<1>11. LogType' /\ DaemonType' /\ ViewType' /\ BoundsType'
  BY <1>1, <1>8 DEF TypeInv, LogType, DaemonType, ViewType, BoundsType,
                    daemonVars, boundVars
<1> QED
  BY <1>9, <1>10, <1>11 DEF TypeInv

(* route_live moves the cursor, or buffers the message, and begins nothing. *)
LEMMA BufferedType ==
    ASSUME NEW s \in Subscriptions, NEW m \in LiveMessages
    PROVE  /\ Buffered(s, m) \in Subscriptions
           /\ Buffered(s, m).attempt = s.attempt
           /\ Buffered(s, m).generation = s.generation
           /\ Buffered(s, m).fetching = s.fetching
<1> DEFINE t == [s EXCEPT !.buffered = Append(@, m)]
<1>1. Append(s.buffered, m) \in Seq(LiveMessages)
  <2>1. s.buffered \in Seq(LiveMessages)
    BY DEF Subscriptions
  <2> QED
    BY <2>1, AppendProperties
<1>2. /\ t \in Subscriptions /\ t.attempt = s.attempt
      /\ t.generation = s.generation /\ t.fetching = s.fetching
  BY <1>1 DEF Subscriptions
<1> HIDE DEF t
<1>3. Buffered(s, m) \in {t, Asked(t, FALSE), Asked(t, TRUE)}
  BY DEF Buffered, t
<1>4. CASE Buffered(s, m) = t
  BY <1>2, <1>4
<1>5. CASE Buffered(s, m) = Asked(t, FALSE)
  BY <1>2, <1>5, AskedKeeps
<1>6. CASE Buffered(s, m) = Asked(t, TRUE)
  BY <1>2, <1>6, AskedKeeps
<1> QED
  BY <1>3, <1>4, <1>5, <1>6

LEMMA AdvancedType ==
    ASSUME NEW s \in Subscriptions, NEW m \in LiveMessages
    PROVE  /\ Advanced(s, m) \in Subscriptions
           /\ Advanced(s, m).attempt = s.attempt
           /\ Advanced(s, m).generation = s.generation
           /\ Advanced(s, m).fetching = s.fetching
<1>1. /\ m.seq \in Cursors /\ m.id \in Cursors /\ 0 \in Cursors
      /\ s.cursor \in Cursors /\ s.stamp \in Cursors
  BY TailAssumption DEF LiveMessages, Subscriptions, Cursors
<1>2. Advanced(s, m) = s \/ \E c, st \in Cursors :
         Advanced(s, m) = [s EXCEPT !.cursor = c, !.stamp = st]
  <2>1. CASE Continues(m, s.cursor)
    <3>1. Advanced(s, m) = [s EXCEPT !.cursor = m.seq, !.stamp = m.id]
      BY <2>1 DEF Advanced, Continues
    <3> QED
      BY <1>1, <3>1
  <2>2. CASE m.kind = "gap"
    <3> DEFINE st == IF m.seq # s.cursor THEN 0 ELSE s.stamp
    <3>1. st \in Cursors
      BY <1>1
    <3>2. Advanced(s, m) = [s EXCEPT !.cursor = m.seq, !.stamp = st]
      BY <2>2 DEF Advanced, Continues, Subscriptions
    <3> HIDE DEF st
    <3> QED
      BY <1>1, <3>1, <3>2
  <2>3. CASE m.kind = "rewound" /\ m.seq < s.cursor
    <3>1. Advanced(s, m) = [s EXCEPT !.cursor = m.seq, !.stamp = 0]
      BY <2>3 DEF Advanced, Continues
    <3> QED
      BY <1>1, <3>1
  <2>4. CASE /\ ~Continues(m, s.cursor) /\ m.kind # "gap"
             /\ ~(m.kind = "rewound" /\ m.seq < s.cursor)
    BY <2>4 DEF Advanced
  <2> QED
    BY <2>1, <2>2, <2>3, <2>4
<1>3. CASE Advanced(s, m) = s
  BY <1>3
<1>4. CASE Advanced(s, m) # s
  <2>1. PICK c \in Cursors, st \in Cursors :
           Advanced(s, m) = [s EXCEPT !.cursor = c, !.stamp = st]
    BY <1>2, <1>4
  <2> QED
    BY <2>1 DEF Subscriptions
<1> QED
  BY <1>3, <1>4

LEMMA RouteLiveType ==
    ASSUME TypeInv, RouteLive
    PROVE  TypeInv'
<1> DEFINE m == Live(Head(wire), sub.generation)
           Deliveries == LiveMessages \cup Replays \cup {RecoveryFailed}
<1>1. /\ NextFrame /\ Head(wire).kind # "page"
      /\ UNCHANGED <<daemonVars, conn, waiter, view, opens, boundVars>>
  BY DEF RouteLive
<1>2. /\ sub \in Subscriptions /\ recovery \in Jobs /\ inbox \in Seq(Deliveries)
      /\ sub.attempt \in Nat /\ sub.generation \in Nat
      /\ sub.attempt <= sub.attempt
  <2>1. sub \in Subscriptions /\ recovery \in Jobs /\ inbox \in Seq(Deliveries)
    BY DEF TypeInv, ClientType, ViewType
  <2> QED
    BY <2>1 DEF Subscriptions
<1>3. /\ wire' \in Seq(Pages \cup SentMessages)
      /\ \A i \in 1 .. Len(wire') : WellAnswered(wire'[i], sub.attempt)
      /\ Head(wire) \in Pages \cup SentMessages
  <2>1. /\ wire \in Seq(Pages \cup SentMessages)
        /\ \A i \in 1 .. Len(wire) : WellAnswered(wire[i], sub.attempt)
    BY DEF TypeInv, DaemonType, AskedType
  <2> QED
    BY <1>1, <1>2, <2>1, FrameTaken
<1>4. Head(wire) \in SentMessages
  BY <1>1, <1>3 DEF Pages
<1>5. m \in LiveMessages
  BY <1>2, <1>4 DEF LiveMessages, SentMessages, Messages, Live, Cursors
<1> HIDE DEF m
<1>6. /\ sub' \in Subscriptions /\ sub'.attempt = sub.attempt
      /\ recovery' \in Jobs /\ inbox' \in Seq(Deliveries)
  <2>1. CASE sub.fetching
    <3>1. sub' = Buffered(sub, m) /\ UNCHANGED <<inbox, recovery>>
      BY <2>1 DEF RouteLive, m
    <3> QED
      BY <3>1, <1>2, <1>5, BufferedType
  <2>2. CASE ~sub.fetching
    <3>1. /\ sub' = Advanced(sub, m) /\ inbox' = Append(inbox, m)
          /\ \/ recovery' = Scheduled(recovery, m.kind = "rewound")
             \/ recovery' = recovery
      BY <2>2 DEF RouteLive, m
    <3>2. sub' \in Subscriptions /\ sub'.attempt = sub.attempt
      BY <3>1, <1>2, <1>5, AdvancedType
    <3>3. inbox' \in Seq(Deliveries)
      <4>1. m \in Deliveries
        BY <1>5
      <4> HIDE DEF Deliveries
      <4> QED
        BY <3>1, <4>1, <1>2, AppendProperties
    <3>4. recovery' \in Jobs
      <4>1. (m.kind = "rewound") \in BOOLEAN
        OBVIOUS
      <4> QED
        BY <3>1, <4>1, <1>2, ScheduledType
    <3> QED
      BY <3>2, <3>3, <3>4
  <2> QED
    BY <2>1, <2>2
<1>7. AskedType'
  BY <1>1, <1>3, <1>6 DEF TypeInv, AskedType, daemonVars
<1>8. ClientType'
  BY <1>1, <1>6 DEF TypeInv, ClientType
<1>9. LogType' /\ DaemonType' /\ ViewType' /\ BoundsType'
  BY <1>1, <1>3, <1>6 DEF TypeInv, LogType, DaemonType, ViewType, BoundsType,
                          daemonVars, boundVars
<1> QED
  BY <1>7, <1>8, <1>9 DEF TypeInv

LEMMA ApplyReplayType ==
    ASSUME view \in Views, recovery \in Jobs, faults \in 0 .. MaxFaults,
           NEW d \in Replays, ApplyReplay(d)
    PROVE  view' \in Views /\ recovery' \in Jobs /\ faults' \in 0 .. MaxFaults
<1>0. recovery' = recovery \/ recovery' = Scheduled(recovery, TRUE)
  BY DEF ApplyReplay
<1>1. recovery' \in Jobs
  BY <1>0, ScheduledType
<1>2. faults' \in 0 .. MaxFaults
  <2>1. faults' = faults \/ (faults < MaxFaults /\ faults' = faults + 1)
    BY DEF ApplyReplay, Fault
  <2> QED
    BY <2>1, TailAssumption
<1>3. ASSUME NEW i \in DOMAIN d.records PROVE d.records[i] \in Records
  BY DEF Replays
<1>4. Rebuilt(d) \in Views
  BY <1>3 DEF Rebuilt, Views, Replays
<1>5. CaughtUp(d) \in Views
  <2>1. Fresh(d) \subseteq Records
    BY <1>3 DEF Fresh
  <2>2. d.final \in Cursors
    BY DEF Replays
  <2> QED
    BY <2>1, <2>2 DEF CaughtUp, Views
<1>6. ASSUME NEW a \in BOOLEAN PROVE [view EXCEPT !.quarantined = TRUE, !.awaiting = a] \in Views
  BY DEF Views
<1>7. [view EXCEPT !.quarantined = TRUE] \in Views
  BY DEF Views
<1>8. \/ view' = Rebuilt(d) \/ view' = CaughtUp(d) \/ view' = view
      \/ view' = [view EXCEPT !.quarantined = TRUE]
      \/ view' = [view EXCEPT !.quarantined = TRUE, !.awaiting = FALSE]
      \/ view' = [view EXCEPT !.quarantined = TRUE, !.awaiting = view.awaiting]
  BY DEF ApplyReplay
<1>9. view.awaiting \in BOOLEAN
  BY DEF Views
<1> QED
  BY <1>1, <1>2, <1>4, <1>5, <1>6, <1>7, <1>8, <1>9

LEMMA ApplyEventType ==
    ASSUME view \in Views, NEW d \in LiveMessages, d.kind = "event", ApplyEvent(d)
    PROVE  view' \in Views
<1>1. [seq |-> d.seq, id |-> d.id] \in Records /\ d.seq \in Cursors
  BY TailAssumption DEF LiveMessages, Records, Cursors
<1> DEFINE shown == view.shown \cup {[seq |-> d.seq, id |-> d.id]}
<1>2. shown \subseteq Records
  BY <1>1 DEF Views
<1>3. \/ view' = view
      \/ view' = [view EXCEPT !.known = TRUE]
      \/ view' = [view EXCEPT !.known = TRUE, !.last = d.seq, !.shown = shown]
  BY DEF ApplyEvent
<1> HIDE DEF shown
<1> QED
  BY <1>1, <1>2, <1>3 DEF Views

LEMMA ApplyDeliveryType ==
    ASSUME TypeInv, ApplyDelivery
    PROVE  TypeInv'
<1> DEFINE d == Head(inbox)
           Deliveries == LiveMessages \cup Replays \cup {RecoveryFailed}
<1>1. /\ inbox # <<>> /\ inbox' = Tail(inbox)
      /\ UNCHANGED <<daemonVars, wire, sub, conn, waiter, reverts>>
  BY DEF ApplyDelivery
<1>2. /\ inbox \in Seq(Deliveries) /\ view \in Views /\ opens \in BOOLEAN
      /\ recovery \in Jobs /\ faults \in 0 .. MaxFaults
  BY DEF TypeInv, ClientType, ViewType, BoundsType
<1>3. d \in Deliveries /\ inbox' \in Seq(Deliveries)
  <2> HIDE DEF Deliveries
  <2> QED
    BY <1>1, <1>2, HeadTailProperties
<1>4. /\ view' \in Views /\ opens' \in BOOLEAN
      /\ recovery' \in Jobs /\ faults' \in 0 .. MaxFaults
  <2>1. CASE d.kind = "replay" /\ ApplyReplay(d) /\ UNCHANGED opens
    <3>1. d \in Replays
      BY <1>3, <2>1 DEF LiveMessages, RecoveryFailed
    <3> QED
      BY <1>2, <2>1, <3>1, ApplyReplayType
  <2>2. CASE d.kind = "event" /\ ApplyEvent(d) /\ UNCHANGED opens
    <3>1. d \in LiveMessages
      BY <1>3, <2>2 DEF Replays, RecoveryFailed
    <3>2. view' \in Views
      BY <1>2, <2>2, <3>1, ApplyEventType
    <3>3. UNCHANGED <<recovery, faults>>
      BY <2>2 DEF ApplyEvent
    <3> QED
      BY <1>2, <2>2, <3>2, <3>3
  <2>3. CASE UNCHANGED <<view, opens, recovery, faults>>
    BY <1>2, <2>3
  <2>4. CASE /\ view' = [view EXCEPT !.awaiting = @ \/ view.known]
             /\ UNCHANGED <<opens, recovery, faults>>
    <3>1. (view.awaiting \/ view.known) \in BOOLEAN
      OBVIOUS
    <3>2. \A a \in BOOLEAN : [view EXCEPT !.awaiting = a] \in Views
      BY <1>2 DEF Views
    <3>3. view' = [view EXCEPT !.awaiting = view.awaiting \/ view.known]
      BY <2>4
    <3> QED
      BY <1>2, <2>4, <3>1, <3>2, <3>3
  <2>5. CASE opens' = TRUE /\ UNCHANGED <<view, recovery, faults>>
    BY <1>2, <2>5
  <2> QED
    BY <2>1, <2>2, <2>3, <2>4, <2>5 DEF ApplyDelivery
<1>5. LogType' /\ DaemonType' /\ AskedType'
  BY <1>1 DEF TypeInv, LogType, DaemonType, AskedType, daemonVars
<1>6. ClientType' /\ ViewType' /\ BoundsType'
  BY <1>1, <1>3, <1>4 DEF TypeInv, ClientType, ViewType, BoundsType
<1> QED
  BY <1>5, <1>6 DEF TypeInv

-----------------------------------------------------------------------------

LEMMA TypeInvImplies ==
    TypeInv => TypeOK
<1> SUFFICES ASSUME TypeInv PROVE TypeOK
  OBVIOUS
<1>0. MaxRecords \in Nat \ {0}
  BY TailAssumption
<1>1. log \in Seq(1 .. MaxRecords) /\ before \in Seq(0 .. MaxRecords)
  <2>1. /\ log \in Seq(1 .. Len(before)) /\ Len(before) \in Nat
        /\ Len(before) <= MaxRecords
    BY DEF TypeInv, LogType
  <2>2. log \in Seq(1 .. MaxRecords)
    BY <1>0, <2>1
  <2> QED
    BY <2>2 DEF TypeInv, LogType, Cursors
<1>2. (\A i \in DOMAIN before : before[i] < i) /\ published \in 0 .. Len(log)
  BY DEF TypeInv, LogType
<1>3. tail.on \in BOOLEAN /\ tail.after \in 0 .. MaxRecords
  BY DEF TypeInv, DaemonType, Cursors
<1>4. \A i \in DOMAIN feed : feed[i].message \in Messages
  <2>1. feed \in Seq([tail: Nat, message: SentMessages])
    BY DEF TypeInv, DaemonType
  <2>2. \A i \in DOMAIN feed : feed[i] \in [tail: Nat, message: SentMessages]
    <3>1. DOMAIN feed = 1 .. Len(feed)
      BY <2>1
    <3> QED
      BY <2>1, <3>1, ElementOfSeq
  <2> QED
    BY <2>2 DEF SentMessages
<1>5. \A q \in requests : q.attempt \in 1 .. sub.attempt
  <2>1. sub.attempt \in Nat
    BY DEF TypeInv, ClientType, Subscriptions
  <2>2. ASSUME NEW q \in requests PROVE q.attempt \in Nat \ {0} /\ q.attempt <= sub.attempt
    BY DEF TypeInv, AskedType, Requests
  <2> QED
    BY <2>1, <2>2
<1>6. /\ sub.cursor \in 0 .. MaxRecords /\ sub.stamp \in 0 .. MaxRecords
      /\ sub.asked \in {"none", "catchUp", "full"}
  BY DEF TypeInv, ClientType, Subscriptions, Cursors
<1>7. /\ \A t \in Tasks : waiter[t].pc \in {"idle", "wait", "ok", "failed"}
      /\ recovery.pc \in {"idle", "run", "busy"}
  BY DEF TypeInv, ClientType, Waiters, Jobs
<1>8. /\ view.shown \subseteq Records /\ view.last \in 0 .. MaxRecords
      /\ opens \in BOOLEAN
  BY DEF TypeInv, ViewType, Views, Cursors
<1>9. reverts \in 0 .. MaxReverts /\ faults \in 0 .. MaxFaults
  BY DEF TypeInv, BoundsType
<1> QED
  BY <1>1, <1>2, <1>3, <1>4, <1>5, <1>6, <1>7, <1>8, <1>9 DEF TypeOK

LEMMA TypeInvStep ==
    TypeInv /\ [Next]_vars => TypeInv'
<1> SUFFICES ASSUME TypeInv, [Next]_vars PROVE TypeInv'
  OBVIOUS
<1>1. CASE AppendRecord
  BY <1>1, AppendRecordType
<1>2. CASE \E c \in 1 .. Len(log) : Revert(c)
  BY <1>2, RevertType
<1>3. CASE \E q \in requests : RefuseSubscribe(q)
  BY <1>3, RefuseSubscribeType
<1>4. CASE \E t \in Tasks : ReplayTimesOut(t)
  BY <1>4, ReplayTimesOutType
<1>5. CASE PublishStored
  BY <1>5, PublishStoredType
<1>6. CASE \E q \in requests : SubscribeEvents(q)
  BY <1>6, SubscribeEventsType
<1>7. CASE ForwardSessionTail
  BY <1>7, ForwardType
<1>8. CASE SubscribeFromScratch
  BY <1>8, SubscribeFromScratchType
<1>9. CASE RecoverAll
  BY <1>9, RecoverAllType
<1>10. CASE SubscribeEnds
  BY <1>10, SubscribeEndsType
<1>11. CASE TryEnds
  BY <1>11, TryEndsType
<1>12. CASE HandlePage
  BY <1>12, HandlePageType
<1>13. CASE DeliverReplay
  BY <1>13, DeliverReplayType
<1>14. CASE RouteLive
  BY <1>14, RouteLiveType
<1>15. CASE ApplyDelivery
  BY <1>15, ApplyDeliveryType
<1>16. CASE UNCHANGED vars
  BY <1>16 DEF vars, daemonVars, clientVars, viewVars, boundVars, TypeInv, LogType,
               DaemonType, AskedType, ClientType, ViewType, BoundsType
<1> QED
  BY <1>1, <1>2, <1>3, <1>4, <1>5, <1>6, <1>7, <1>8, <1>9, <1>10, <1>11, <1>12,
     <1>13, <1>14, <1>15, <1>16 DEF Next, Works

(* The daemon's tails, the client's subscription and its view stay well
   formed: in particular the cursor finish_ready_replay leaves after any
   buffered messages names a record, and no request is of a replay that was
   not begun. *)
THEOREM TailTypeCorrect == Spec => []TypeOK
<1>1. Spec => []TypeInv
  BY InitType, TypeInvStep, PTL DEF Spec
<1> QED
  BY <1>1, TypeInvImplies, PTL

-----------------------------------------------------------------------------
(* A session marked as fetching.  A replay is ended by the task that awaits
   its answer, or by the connection task that delivers it, and each checks
   that the answer is of the current attempt and generation.  That no answer
   of the current attempt is taken for an old one needs to know that all that
   was asked under it has its generation. *)

Named(q) == q.attempt = sub.attempt => q.generation = sub.generation

NamedInv ==
    /\ \A q \in requests : Named(q)
    /\ \A i \in 1 .. Len(wire) : wire[i].kind = "page" => Named(wire[i].request)

FetchInv == TypeInv /\ NamedInv /\ FetchIsAwaited

(* What a step that begins no replay does to the frames on the wire. *)
LEMMA NamedAfter ==
    ASSUME TypeInv, NamedInv,
           sub'.attempt = sub.attempt, sub'.generation = sub.generation,
           \A q \in requests' : Named(q),
           \/ wire' = wire
           \/ NextFrame
           \/ \E f : /\ wire' = Append(wire, f) /\ f \in Pages \cup SentMessages
                     /\ f.kind = "page" => Named(f.request)
    PROVE  NamedInv'
<1>1. \A q \in requests' : q.attempt = sub'.attempt => q.generation = sub'.generation
  BY DEF Named
<1>2. ASSUME NEW i \in 1 .. Len(wire'), wire'[i].kind = "page"
      PROVE  Named(wire'[i].request)
  <2>0. wire \in Seq(Pages \cup SentMessages)
    BY DEF TypeInv, DaemonType
  <2>1. CASE wire' = wire
    BY <2>1, <1>2 DEF NamedInv
  <2>2. CASE NextFrame
    <3>1. wire # <<>> /\ wire' = Tail(wire)
      BY <2>2 DEF NextFrame
    <3>2. /\ Len(wire') = Len(wire) - 1 /\ Len(wire) \in Nat
          /\ \A j \in 1 .. Len(wire') : wire'[j] = wire[j + 1]
      BY <2>0, <3>1, HeadTailProperties
    <3>3. i + 1 \in 1 .. Len(wire) /\ wire'[i] = wire[i + 1]
      BY <3>2
    <3> QED
      BY <3>3, <1>2 DEF NamedInv
  <2>3. CASE \E f : /\ wire' = Append(wire, f) /\ f \in Pages \cup SentMessages
                    /\ f.kind = "page" => Named(f.request)
    <3>1. PICK f : /\ wire' = Append(wire, f) /\ f \in Pages \cup SentMessages
                   /\ f.kind = "page" => Named(f.request)
      BY <2>3
    <3>2. /\ Len(wire') = Len(wire) + 1 /\ Len(wire) \in Nat
          /\ \A j \in 1 .. Len(wire) : wire'[j] = wire[j]
          /\ wire'[Len(wire) + 1] = f
      BY <2>0, <3>1, AppendProperties
    <3>3. CASE i = Len(wire) + 1
      BY <3>1, <3>2, <3>3, <1>2
    <3>4. CASE i # Len(wire) + 1
      <4>1. i \in 1 .. Len(wire) /\ wire'[i] = wire[i]
        BY <3>2, <3>4
      <4> QED
        BY <4>1, <1>2 DEF NamedInv
    <3> QED
      BY <3>3, <3>4
  <2> QED
    BY <2>1, <2>2, <2>3
<1>3. \A i \in 1 .. Len(wire') : wire'[i].kind = "page" =>
         (wire'[i].request.attempt = sub'.attempt =>
             wire'[i].request.generation = sub'.generation)
  BY <1>2 DEF Named
<1> QED
  BY <1>1, <1>3 DEF NamedInv, Named

(* A step that leaves the subscription's attempt, the waiting tasks and the
   connection task alone. *)
LEMMA FetchUndisturbed ==
    ASSUME FetchIsAwaited, UNCHANGED <<waiter, conn>>,
           sub'.attempt = sub.attempt, sub'.generation = sub.generation,
           sub'.fetching => sub.fetching
    PROVE  FetchIsAwaited'
BY DEF FetchIsAwaited, IsCurrent

(* A replay that begins is awaited by the task that began it. *)
LEMMA StartFetches ==
    ASSUME FetchInv, NEW t \in Tasks, NEW rebuild \in BOOLEAN,
           StartReplay(t, rebuild), wire' = wire
    PROVE  NamedInv' /\ FetchIsAwaited'
<1> DEFINE s == Prepared(rebuild, t = "worker")
           q == [attempt |-> s.attempt, generation |-> s.generation,
                 rebuild |-> rebuild, cursor |-> s.cursor, stamp |-> s.stamp]
<1>0. (t = "worker") \in BOOLEAN /\ TypeInv
  BY DEF FetchInv
<1>1. s.attempt = sub.attempt + 1 /\ s.attempt \in Nat
  BY <1>0, PreparedType DEF TypeInv
<1>2. sub' = s /\ requests' = requests \cup {q}
      /\ waiter' = [waiter EXCEPT ![t] = [pc |-> "wait", attempt |-> s.attempt]]
  BY DEF StartReplay
<1> HIDE DEF s
<1>3. sub.attempt \in Nat
  BY <1>0 DEF TypeInv, ClientType, Subscriptions
<1>4. ASSUME NEW r \in requests' PROVE r.attempt = sub'.attempt => r.generation = sub'.generation
  <2>1. CASE r = q
    BY <2>1, <1>2
  <2>2. CASE r \in requests
    <3>1. r.attempt \in Nat /\ r.attempt <= sub.attempt
      BY <2>2, <1>0 DEF TypeInv, AskedType, Requests
    <3> QED
      BY <3>1, <1>1, <1>2, <1>3
  <2> QED
    BY <2>1, <2>2, <1>2
<1>5. ASSUME NEW i \in 1 .. Len(wire'), wire'[i].kind = "page"
      PROVE  wire'[i].request.attempt # sub'.attempt
  <2>1. wire[i] \in Pages \cup SentMessages /\ WellAnswered(wire[i], sub.attempt)
    BY <1>0 DEF TypeInv, DaemonType, AskedType
  <2>2. wire[i] \in Pages
    BY <2>1, <1>5 DEF SentMessages, Messages
  <2>3. wire[i].request.attempt \in Nat /\ wire[i].request.attempt <= sub.attempt
    BY <2>1, <2>2, <1>5 DEF Pages, Requests, WellAnswered
  <2> QED
    BY <2>3, <1>1, <1>2, <1>3
<1>6. NamedInv'
  BY <1>4, <1>5 DEF NamedInv, Named
<1>7. waiter'[t].pc = "wait" /\ waiter'[t].attempt = sub'.attempt
  BY <1>0, <1>2 DEF TypeInv, ClientType
<1> QED
  BY <1>6, <1>7 DEF FetchIsAwaited

(* The connection task answers the task that waits only when it has also
   ended the replay, or is about to deliver it. *)
LEMMA HandlePageFetches ==
    ASSUME FetchInv, HandlePage
    PROVE  NamedInv' /\ FetchIsAwaited'
<1> DEFINE page == Head(wire)
           q == page.request
<1>0. TypeInv /\ NamedInv /\ FetchIsAwaited
  BY DEF FetchInv
<1>1. NextFrame /\ page.kind = "page" /\ ~conn.busy
  BY DEF HandlePage, NextFrame
<1>2. q \in Requests /\ Named(q)
  <2>1. wire # <<>> /\ wire \in Seq(Pages \cup SentMessages)
    BY <1>0, <1>1 DEF TypeInv, DaemonType, NextFrame
  <2>2. 1 \in 1 .. Len(wire) /\ page = wire[1]
    BY <2>1
  <2>3. Named(q)
    BY <2>2, <1>0, <1>1 DEF NamedInv
  <2> QED
    BY <2>3, <1>0, <1>1, PageTaken
<1>3. sub \in Subscriptions /\ waiter \in [Tasks -> Waiters]
  BY <1>0 DEF TypeInv, ClientType
<1> HIDE DEF page
<1>4. /\ sub'.attempt = sub.attempt /\ sub'.generation = sub.generation
      /\ (sub'.fetching => sub.fetching)
      /\ \A r \in requests' : Named(r)
      /\ FetchIsAwaited'
  <2>0. \A r \in requests : Named(r)
    BY <1>0 DEF NamedInv
  <2>1. CASE Respond(q, "failed") /\ UNCHANGED <<sub, conn, recovery, requests>>
    <3>1. ASSUME NEW t \in Tasks, waiter[t].pc \in {"wait", "failed"}
          PROVE  waiter'[t].pc \in {"wait", "failed"}
                 /\ waiter'[t].attempt = waiter[t].attempt
      BY <2>1, <3>1, <1>3 DEF Respond, Waiters
    <3>2. FetchIsAwaited'
      BY <2>1, <3>1, <1>0 DEF FetchIsAwaited, IsCurrent
    <3> QED
      BY <2>0, <2>1, <3>2
  <2>2. CASE /\ Respond(q, "ok")
             /\ sub' = IF IsCurrent(q) THEN Aborted(sub) ELSE sub
             /\ UNCHANGED <<conn, requests>>
    <3>1. CASE IsCurrent(q)
      <4>1. /\ sub'.attempt = sub.attempt /\ sub'.generation = sub.generation
            /\ sub'.fetching = FALSE
        BY <2>2, <3>1, <1>3, AbortedType
      <4> QED
        BY <2>0, <2>2, <4>1 DEF FetchIsAwaited
    <3>2. CASE ~IsCurrent(q)
      <4>1. sub' = sub
        BY <2>2, <3>2
      <4>2. ASSUME sub.fetching PROVE FetchIsAwaited'
        <5>1. sub.attempt # q.attempt
          BY <4>2, <3>2, <1>2 DEF IsCurrent, Named
        <5>2. PICK t \in Tasks : /\ waiter[t].pc \in {"wait", "failed"}
                                 /\ waiter[t].attempt = sub.attempt
          BY <4>2, <1>0, <1>1 DEF FetchIsAwaited
        <5>3. waiter'[t] = waiter[t]
          BY <2>2, <5>1, <5>2 DEF Respond
        <5> QED
          BY <4>1, <5>2, <5>3 DEF FetchIsAwaited
      <4> QED
        BY <2>0, <2>2, <4>1, <4>2 DEF FetchIsAwaited
    <3> QED
      BY <3>1, <3>2
  <2>3. CASE /\ sub' = [sub EXCEPT !.pages = @ \o page.records]
             /\ requests' =
                   IF AwaitedBy(q)
                   THEN requests \cup
                       {[q EXCEPT !.cursor = Last(page.records).seq, !.stamp = 0]}
                   ELSE requests
             /\ UNCHANGED <<conn, waiter, recovery>>
    <3>1. /\ sub'.attempt = sub.attempt /\ sub'.generation = sub.generation
          /\ sub'.fetching = sub.fetching
      BY <2>3, <1>3 DEF Subscriptions
    <3> DEFINE r == [q EXCEPT !.cursor = Last(page.records).seq, !.stamp = 0]
    <3>2. r.attempt = q.attempt /\ r.generation = q.generation
      BY <1>2 DEF Requests
    <3> HIDE DEF r
    <3>3. Named(r)
      BY <3>2, <1>2 DEF Named
    <3>4. requests' \subseteq requests \cup {r}
      BY <2>3 DEF r
    <3>5. FetchIsAwaited'
      BY <2>3, <3>1, <1>0, FetchUndisturbed
    <3> QED
      BY <2>0, <3>1, <3>3, <3>4, <3>5
  <2>4. CASE /\ Respond(q, "ok")
             /\ conn' = [busy |-> TRUE, request |-> q,
                         records |-> (IF IsCurrent(q) THEN sub.pages ELSE <<>>)
                                     \o page.records]
             /\ sub' = IF IsCurrent(q) THEN [sub EXCEPT !.pages = <<>>] ELSE sub
             /\ UNCHANGED <<recovery, requests>>
    <3>1. /\ sub'.attempt = sub.attempt /\ sub'.generation = sub.generation
          /\ sub'.fetching = sub.fetching
      BY <2>4, <1>3 DEF Subscriptions
    <3>2. CASE IsCurrent(q)
      <4>1. conn'.busy /\ conn'.request = q
        BY <2>4
      <4>2. FetchIsAwaited'
        BY <3>1, <3>2, <4>1 DEF FetchIsAwaited, IsCurrent
      <4> QED
        BY <2>0, <2>4, <3>1, <4>2
    <3>3. CASE ~IsCurrent(q)
      <4>1. ASSUME sub.fetching PROVE FetchIsAwaited'
        <5>1. sub.attempt # q.attempt
          BY <4>1, <3>3, <1>2 DEF IsCurrent, Named
        <5>2. PICK t \in Tasks : /\ waiter[t].pc \in {"wait", "failed"}
                                 /\ waiter[t].attempt = sub.attempt
          BY <4>1, <1>0, <1>1 DEF FetchIsAwaited
        <5>3. waiter'[t] = waiter[t]
          BY <2>4, <5>1, <5>2 DEF Respond
        <5> QED
          BY <3>1, <5>2, <5>3 DEF FetchIsAwaited
      <4> QED
        BY <2>0, <2>4, <3>1, <4>1 DEF FetchIsAwaited
    <3> QED
      BY <3>2, <3>3
  <2> QED
    BY <2>1, <2>2, <2>3, <2>4 DEF HandlePage, page
<1>5. NamedInv'
  BY <1>0, <1>1, <1>4, NamedAfter
<1> QED
  BY <1>4, <1>5

LEMMA FetchStep ==
    FetchInv /\ [Next]_vars => NamedInv' /\ FetchIsAwaited'
<1> SUFFICES ASSUME FetchInv, [Next]_vars PROVE NamedInv' /\ FetchIsAwaited'
  OBVIOUS
<1>0. TypeInv /\ NamedInv /\ FetchIsAwaited /\ \A q \in requests : Named(q)
  BY DEF FetchInv, NamedInv
<1>a. /\ sub \in Subscriptions /\ recovery.full \in BOOLEAN
      /\ waiter \in [Tasks -> Waiters]
  BY <1>0 DEF TypeInv, ClientType, Jobs
<1>1. CASE AppendRecord \/ PublishStored \/ (\E c \in 1 .. Len(log) : Revert(c))
           \/ UNCHANGED vars \/ ApplyDelivery
  <2>1. UNCHANGED <<sub, waiter, conn, requests, wire>>
    BY <1>1 DEF AppendRecord, PublishStored, Revert, ApplyDelivery, vars, daemonVars,
                clientVars
  <2>2. NamedInv'
    BY <2>1, <1>0, NamedAfter
  <2> QED
    BY <2>1, <2>2, <1>0, FetchUndisturbed
<1>2. CASE \E q \in requests : RefuseSubscribe(q) \/ SubscribeEvents(q)
  <2>1. PICK q \in requests : RefuseSubscribe(q) \/ SubscribeEvents(q)
    BY <1>2
  <2>2. UNCHANGED <<sub, waiter, conn>>
    BY <2>1 DEF RefuseSubscribe, SubscribeEvents, clientVars
  <2>3. PICK f : /\ wire' = Append(wire, f) /\ requests' = requests \ {q}
                 /\ f.kind = "page" /\ f.request = q
    <3>1. PICK outcome, records : Answer(q, outcome, records)
      BY <2>1 DEF RefuseSubscribe, SubscribeEvents
    <3> QED
      BY <3>1 DEF Answer
  <2>4. f \in Pages \cup SentMessages
    <3>1. TypeInv'
      BY <1>0, <2>1, RefuseSubscribeType, SubscribeEventsType
    <3>2. wire' \in Seq(Pages \cup SentMessages) /\ Len(wire) \in Nat
          /\ Len(wire') = Len(wire) + 1 /\ wire'[Len(wire) + 1] = f
      BY <3>1, <1>0, <2>3 DEF TypeInv, DaemonType
    <3> QED
      BY <3>2
  <2>5. NamedInv'
    BY <2>2, <2>3, <2>4, <1>0, NamedAfter
  <2> QED
    BY <2>2, <2>5, <1>0, FetchUndisturbed
<1>3. CASE ForwardSessionTail
  <2>1. UNCHANGED <<sub, waiter, conn, requests>>
        /\ wire' = Append(wire, Head(feed).message)
    BY <1>3 DEF ForwardSessionTail, clientVars
  <2>2. Head(feed).message \in SentMessages
    <3>1. feed # <<>> /\ feed \in Seq([tail: Nat, message: SentMessages])
      BY <1>0, <1>3 DEF TypeInv, DaemonType, ForwardSessionTail
    <3>2. Head(feed) \in [tail: Nat, message: SentMessages]
      BY <3>1, HeadTailProperties
    <3> QED
      BY <3>2
  <2>3. Head(feed).message.kind # "page"
    BY <2>2 DEF SentMessages, Messages
  <2>4. NamedInv'
    BY <2>1, <2>2, <2>3, <1>0, NamedAfter
  <2> QED
    BY <2>1, <2>4, <1>0, FetchUndisturbed
<1>4. CASE \E t \in Tasks : ReplayTimesOut(t)
  <2>1. PICK t \in Tasks : ReplayTimesOut(t)
    BY <1>4
  <2>2. UNCHANGED <<sub, conn, requests, wire>>
        /\ waiter' = [waiter EXCEPT ![t].pc = "failed"]
    BY <2>1 DEF ReplayTimesOut, daemonVars
  <2>3. ASSUME NEW u \in Tasks, waiter[u].pc \in {"wait", "failed"}
        PROVE  waiter'[u].pc \in {"wait", "failed"}
               /\ waiter'[u].attempt = waiter[u].attempt
    BY <2>2, <2>3, <1>a DEF Waiters
  <2>4. FetchIsAwaited'
    BY <2>2, <2>3, <1>0 DEF FetchIsAwaited, IsCurrent
  <2>5. NamedInv'
    BY <2>2, <1>0, NamedAfter
  <2> QED
    BY <2>4, <2>5
<1>5. CASE SubscribeFromScratch
  <2>1. wire' = wire /\ conn' = conn
    BY <1>5 DEF SubscribeFromScratch
  <2>2. CASE StartReplay("caller", TRUE)
    BY <2>1, <2>2, StartFetches DEF Tasks
  <2>3. CASE UNCHANGED <<sub, waiter, requests>>
    BY <2>1, <2>3, <1>0, NamedAfter, FetchUndisturbed
  <2> QED
    BY <2>2, <2>3, <1>5 DEF SubscribeFromScratch
<1>6. CASE RecoverAll
  <2>1. wire' = wire /\ conn' = conn
    BY <1>6 DEF RecoverAll
  <2>2. CASE StartReplay("worker", recovery.full)
    BY <2>1, <2>2, <1>a, StartFetches DEF Tasks
  <2>3. CASE sub' = Asked(sub, recovery.full) /\ UNCHANGED <<requests, waiter>>
    <3>1. /\ sub'.attempt = sub.attempt /\ sub'.generation = sub.generation
          /\ sub'.fetching = sub.fetching
      BY <2>3, <1>a, AskedKeeps
    <3>2. NamedInv'
      BY <2>1, <2>3, <3>1, <1>0, NamedAfter
    <3> QED
      BY <2>1, <2>3, <3>1, <3>2, <1>0, FetchUndisturbed
  <2> QED
    BY <2>2, <2>3, <1>6 DEF RecoverAll
<1>7. CASE SubscribeEnds \/ TryEnds
  <2>1. UNCHANGED <<wire, conn, requests>>
    BY <1>7 DEF SubscribeEnds, TryEnds, daemonVars
  <2>2. PICK t \in Tasks : /\ waiter' = [waiter EXCEPT ![t].pc = "idle"]
                           /\ \/ waiter[t].pc = "ok" /\ sub' = sub
                              \/ sub' = Aborted(sub)
    BY <1>7 DEF SubscribeEnds, TryEnds, Tasks
  <2>3. CASE sub' = Aborted(sub)
    <3>1. /\ sub'.attempt = sub.attempt /\ sub'.generation = sub.generation
          /\ sub'.fetching = FALSE
      BY <2>3, <1>a, AbortedType
    <3>2. NamedInv'
      BY <2>1, <3>1, <1>0, NamedAfter
    <3> QED
      BY <3>1, <3>2 DEF FetchIsAwaited
  <2>4. CASE waiter[t].pc = "ok" /\ sub' = sub
    <3>1. ASSUME NEW u \in Tasks, waiter[u].pc \in {"wait", "failed"}
          PROVE  waiter'[u] = waiter[u]
      BY <2>2, <2>4, <3>1, <1>a DEF Waiters
    <3>2. NamedInv'
      BY <2>1, <2>4, <1>0, NamedAfter
    <3> QED
      BY <2>1, <2>4, <3>1, <3>2, <1>0 DEF FetchIsAwaited, IsCurrent
  <2> QED
    BY <2>2, <2>3, <2>4
<1>8. CASE HandlePage
  BY <1>8, HandlePageFetches
<1>9. CASE DeliverReplay
  <2>1. UNCHANGED <<wire, requests, waiter>> /\ conn.busy
    BY <1>9 DEF DeliverReplay, daemonVars
  <2>2. CASE ~IsCurrent(conn.request)
    <3>1. sub' = sub
      BY <1>9, <2>2 DEF DeliverReplay
    <3>2. NamedInv'
      BY <2>1, <3>1, <1>0, NamedAfter
    <3> QED
      BY <2>1, <2>2, <3>1, <3>2, <1>0 DEF FetchIsAwaited
  <2>3. CASE IsCurrent(conn.request)
    <3>1. \E c, st : sub' = [sub EXCEPT !.cursor = c, !.stamp = st,
                                        !.fetching = FALSE, !.buffered = <<>>,
                                        !.asked = "none"]
      BY <1>9, <2>3 DEF DeliverReplay
    <3>2. /\ sub'.attempt = sub.attempt /\ sub'.generation = sub.generation
          /\ sub'.fetching = FALSE
      BY <3>1, <1>a DEF Subscriptions
    <3>3. NamedInv'
      BY <2>1, <3>2, <1>0, NamedAfter
    <3> QED
      BY <3>2, <3>3 DEF FetchIsAwaited
  <2> QED
    BY <2>2, <2>3
<1>10. CASE RouteLive
  <2>1. UNCHANGED <<requests, waiter, conn>> /\ NextFrame /\ Head(wire).kind # "page"
    BY <1>10 DEF RouteLive, daemonVars
  <2> DEFINE m == Live(Head(wire), sub.generation)
  <2>2. m \in LiveMessages
    <3>1. wire # <<>> /\ wire \in Seq(Pages \cup SentMessages)
      BY <1>0, <2>1 DEF TypeInv, DaemonType, NextFrame
    <3>2. Head(wire) \in Pages \cup SentMessages
      BY <3>1, HeadTailProperties
    <3>3. Head(wire) \in SentMessages /\ sub.generation \in Nat
      BY <2>1, <3>2, <1>a DEF Pages, Subscriptions
    <3> QED
      BY <3>3 DEF LiveMessages, SentMessages, Messages, Live, Cursors
  <2>3. sub' = Buffered(sub, m) \/ sub' = Advanced(sub, m)
    BY <1>10 DEF RouteLive
  <2> HIDE DEF m
  <2>4. /\ sub'.attempt = sub.attempt /\ sub'.generation = sub.generation
        /\ sub'.fetching = sub.fetching
    BY <2>2, <2>3, <1>a, BufferedType, AdvancedType
  <2>5. NamedInv'
    BY <2>1, <2>4, <1>0, NamedAfter
  <2> QED
    BY <2>1, <2>4, <2>5, <1>0, FetchUndisturbed
<1> QED
  BY <1>1, <1>2, <1>3, <1>4, <1>5, <1>6, <1>7, <1>8, <1>9, <1>10 DEF Next, Works

(* A session marked as fetching has a task that waits for the replay, or will
   end it as failed, or the connection task is about to deliver it: whatever
   is refused, times out or comes late, no session is left "marked as fetching"
   to "refuse every later replay" (subscribe_events_at). *)
THEOREM FetchesAreAwaited == Spec => []FetchIsAwaited
<1>1. Init => FetchInv
  <2>1. Init => NamedInv
    BY DEF Init, NamedInv
  <2>2. Init => FetchIsAwaited
    BY DEF Init, FetchIsAwaited, NoSubscription
  <2> QED
    BY <2>1, <2>2, InitType DEF FetchInv
<1>2. FetchInv /\ [Next]_vars => FetchInv'
  BY FetchStep, TypeInvStep DEF FetchInv
<1>3. FetchInv => FetchIsAwaited
  BY DEF FetchInv
<1> QED
  BY <1>1, <1>2, <1>3, PTL DEF Spec

=============================================================================
