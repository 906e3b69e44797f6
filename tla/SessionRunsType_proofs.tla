----------------------- MODULE SessionRunsType_proofs -----------------------
(***************************************************************************)
(* The types of a session's runs, for any number of clients, messages,     *)
(* runs and faults, and with them the facts the other proofs about         *)
(* SessionRuns rest on: what a step may do to a run, a submission and the  *)
(* queue.  TypeOK is not inductive: the run that a start has committed     *)
(* must be one the log knows.                                              *)
(***************************************************************************)
EXTENDS SessionRuns, SequenceTheorems, TLAPS

Committed == {"insert", "setup", "failing", "launch"}
HoldsARun == hold.pc \in Committed => hold.run \in Runs
TypeInv == TypeOK /\ HoldsARun

-----------------------------------------------------------------------------
(* Operators. *)

(* A sequence with one element replaced is a sequence as long. *)
LEMMA SeqExcept ==
    ASSUME NEW S, NEW s \in Seq(S), NEW i, NEW x, i \in DOMAIN s => x \in S
    PROVE  /\ [s EXCEPT ![i] = x] \in Seq(S)
           /\ DOMAIN [s EXCEPT ![i] = x] = DOMAIN s
           /\ Len([s EXCEPT ![i] = x]) = Len(s)
           /\ \A j \in DOMAIN s :
                 [s EXCEPT ![i] = x][j] = IF j = i THEN x ELSE s[j]
<1> DEFINE t == [s EXCEPT ![i] = x]
<1>1. s \in [1 .. Len(s) -> S] /\ Len(s) \in Nat /\ DOMAIN s = 1 .. Len(s)
  OBVIOUS
<1>2. t \in [1 .. Len(s) -> S]
  BY <1>1
<1>3. t \in Seq(S) /\ DOMAIN t = 1 .. Len(s) /\ Len(t) = Len(s)
  BY <1>1, <1>2
<1>4. QED
  BY <1>1, <1>3

(* What leaves the queue leaves the rest of it (QueuedInputs::apply_payload). *)
LEMMA WithoutType ==
    ASSUME NEW S, NEW q \in Seq(S), NEW c
    PROVE  /\ Without(q, c) \in Seq(S)
           /\ \A k \in DOMAIN Without(q, c) :
                 \E j \in DOMAIN q : Without(q, c)[k] = q[j]
<1> DEFINE i == CHOOSE j \in DOMAIN q : q[j] = c
           a == SubSeq(q, 1, i - 1)
           b == SubSeq(q, i + 1, Len(q))
<1>1. CASE ~ \E j \in DOMAIN q : q[j] = c
  BY <1>1 DEF Without
<1>2. CASE \E j \in DOMAIN q : q[j] = c
  <2>1. Without(q, c) = a \o b
    BY <1>2 DEF Without
  <2>2. i \in 1 .. Len(q) /\ Len(q) \in Nat
    BY <1>2
  <2> HIDE DEF i
  <2>3. a \in Seq(S) /\ Len(a) = i - 1 /\ \A k \in 1 .. i - 1 : a[k] = q[k]
    BY <2>2
  <2>4. /\ b \in Seq(S) /\ Len(b) = Len(q) - i
        /\ \A k \in 1 .. Len(q) - i : b[k] = q[i + k]
    BY <2>2
  <2> HIDE DEF a, b
  <2>5. a \o b \in Seq(S) /\ DOMAIN (a \o b) = 1 .. Len(a) + Len(b)
    BY <2>3, <2>4
  <2>6. ASSUME NEW k \in DOMAIN (a \o b)
        PROVE  \E j \in DOMAIN q : (a \o b)[k] = q[j]
    <3>1. CASE k <= Len(a)
      <4>1. (a \o b)[k] = a[k] /\ k \in 1 .. i - 1 /\ k \in DOMAIN q
        BY <2>2, <2>3, <2>4, <2>5, <3>1
      <4>2. QED
        BY <4>1, <2>3
    <3>2. CASE k > Len(a)
      <4>1. k \in Nat /\ Len(a) \in Nat /\ Len(b) \in Nat /\ k <= Len(a) + Len(b)
        BY <2>3, <2>4, <2>5
      <4>2. k - Len(a) \in 1 .. Len(q) - i /\ i + (k - Len(a)) \in DOMAIN q
        BY <4>1, <2>2, <2>3, <2>4, <3>2
      <4>3. (a \o b)[k] = b[k - Len(a)]
        BY <4>1, <2>3, <2>4, <3>2, ConcatProperties
      <4>4. QED
        BY <4>2, <4>3, <2>4
    <3>3. QED
      BY <2>3, <2>5, <3>1, <3>2
  <2>7. QED
    BY <2>1, <2>5, <2>6
<1>3. QED
  BY <1>1, <1>2

(* The reconciliation changes the mood and the flags within their types. *)
LEMMA ReconcileType ==
    ASSUME NEW m \in Moods, NEW w \in Wakes, Reconcile(m, w)
    PROVE  mood' \in Moods /\ wake' \in Wakes
<1>1. [FreeMood EXCEPT !.held = TRUE] \in Moods
  BY DEF FreeMood, Moods
<1>2. Woken(w) \in Wakes
  BY DEF Woken, Wakes
<1>3. QED
  BY <1>1, <1>2 DEF Reconcile

(* The mood after a run's end (after_runs). *)
LEMMA MoodAfterType ==
    ASSUME mood \in Moods, NEW r, NEW outcome
    PROVE  MoodAfter(r, outcome) \in Moods
<1>1. CASE outcome = "failed"
  <2>1. MoodAfter(r, outcome) = [mood EXCEPT !.failures = @ + 1, !.stopped = FALSE]
    BY <1>1, Zenon DEF MoodAfter
  <2>2. mood.failures + 1 \in Nat
    BY DEF Moods
  <2>3. \A n \in Nat : [mood EXCEPT !.failures = n, !.stopped = FALSE] \in Moods
    BY DEF Moods
  <2>4. QED
    BY <2>1, <2>2, <2>3
<1>2. CASE outcome = "cancelled" /\ runs[r].byUser
  BY <1>2 DEF MoodAfter, Moods, FreeMood
<1>3. CASE outcome # "failed" /\ ~(outcome = "cancelled" /\ runs[r].byUser)
  BY <1>3 DEF MoodAfter, Moods, FreeMood
<1>4. QED
  BY <1>1, <1>2, <1>3

(* The submissions of ended runs are given back. *)
LEMMA GivenBackType ==
    ASSUME client \in [Clients -> Submissions], NEW rs
    PROVE  GivenBack(rs) \in [Clients -> Submissions]
  BY DEF GivenBack, Submissions

(* A run's record keeps its type when its task moves on or the run ends. *)
LEMMA RunFields ==
    ASSUME NEW x \in RunRecords, NEW a \in RunSteps,
           NEW h \in Clients \cup {NoOne}, NEW b \in BOOLEAN, NEW u \in BOOLEAN,
           NEW v \in BOOLEAN
    PROVE  /\ [x EXCEPT !.at = a] \in RunRecords
           /\ [x EXCEPT !.tripped = b] \in RunRecords
           /\ [x EXCEPT !.byUser = u] \in RunRecords
           /\ [x EXCEPT !.usedTools = v] \in RunRecords
           /\ [x EXCEPT !.head = h] \in RunRecords
<1>1. [x EXCEPT !.at = a] \in RunRecords
  BY DEF RunRecords
<1>2. [x EXCEPT !.tripped = b] \in RunRecords
  BY DEF RunRecords
<1>3. [x EXCEPT !.byUser = u] \in RunRecords
  BY DEF RunRecords
<1>4. [x EXCEPT !.usedTools = v] \in RunRecords
  BY DEF RunRecords
<1>5. [x EXCEPT !.head = h] \in RunRecords
  BY DEF RunRecords
<1>6. QED
  BY <1>1, <1>2, <1>3, <1>4, <1>5

-----------------------------------------------------------------------------
(* What a step does to the runs of the session. *)

(* One run changes: its outcome, where its task is and the input it asks to
   be started. *)
RunBecomes(r, outcome, pc, head) ==
    /\ runs' \in Seq(RunRecords) /\ Runs' = Runs
    /\ \A j \in Runs : j # r => runs'[j] = runs[j]
    /\ runs'[r].from = runs[r].from /\ runs'[r].status = outcome
    /\ runs'[r].at = pc /\ runs'[r].head = head

(* One run is added. *)
RunAdded(from) ==
    /\ runs' \in Seq(RunRecords) /\ Runs' = Runs \cup {Len(runs) + 1}
    /\ Len(runs) + 1 \notin Runs
    /\ \A j \in Runs : runs'[j] = runs[j]
    /\ runs'[Len(runs) + 1] = NewRun(from)

(* A run's record replaced by another of its type. *)
LEMMA RunReplaced ==
    ASSUME TypeOK, NEW r \in Runs, NEW x \in RunRecords, x.from = runs[r].from,
           runs' = [runs EXCEPT ![r] = x]
    PROVE  RunBecomes(r, x.status, x.at, x.head)
<1>1. runs \in Seq(RunRecords)
  BY DEF TypeOK
<1>2. QED
  BY <1>1, SeqExcept DEF RunBecomes, Runs

(* The task of a run moves on. *)
LEMMA GoesOn ==
    ASSUME TypeOK, NEW r \in Runs, NEW pc \in RunSteps, Goes(r, pc)
    PROVE  RunBecomes(r, runs[r].status, pc, runs[r].head)
<1> DEFINE x == [runs[r] EXCEPT !.at = pc]
<1>1. runs[r] \in RunRecords
  BY DEF TypeOK, Runs
<1>2. x \in RunRecords
  BY <1>1, RunFields
<1>3. x.from = runs[r].from /\ x.status = runs[r].status /\ x.at = pc
      /\ x.head = runs[r].head
  BY <1>1 DEF RunRecords
<1>4. runs' = [runs EXCEPT ![r] = x]
  BY DEF Goes
<1>5. QED
  BY <1>2, <1>3, <1>4, RunReplaced

(* The end of a run, as the folds read it, and where its task goes. *)
LEMMA FinishedIs ==
    ASSUME TypeOK, NEW r \in Runs, NEW pc \in RunSteps,
           NEW o \in {"completed", "failed", "cancelled", "interrupted"},
           runs' = [Finished(r, o) EXCEPT ![r].at = pc]
    PROVE  RunBecomes(r, o, pc, runs[r].head)
<1> DEFINE x == [runs[r] EXCEPT !.status = o, !.ends = runs[r].ends + 1, !.at = pc]
<1>1. runs[r] \in RunRecords /\ runs \in Seq(RunRecords)
  BY DEF TypeOK, Runs
<1>2. runs[r].ends + 1 \in Nat
  BY <1>1 DEF RunRecords
<1>3. x \in RunRecords
  <2>1. ASSUME NEW n \in Nat
        PROVE  [runs[r] EXCEPT !.status = o, !.ends = n] \in RunRecords
    BY <1>1 DEF RunRecords
  <2>2. QED
    BY <2>1, <1>2, RunFields
<1>4. x.from = runs[r].from /\ x.status = o /\ x.at = pc /\ x.head = runs[r].head
  BY <1>1 DEF RunRecords
<1>5. runs' = [runs EXCEPT ![r] = x]
  <2>1. Finished(r, o) = [runs EXCEPT ![r] = [runs[r] EXCEPT !.status = o,
                                                   !.ends = runs[r].ends + 1]]
    BY <1>1 DEF Finished
  <2>2. QED
    BY <2>1, <1>1
<1>6. QED
  BY <1>3, <1>4, <1>5, RunReplaced

(* The task of a run moves on and takes up an input, or lets it go. *)
LEMMA HeadChanges ==
    ASSUME TypeOK, NEW r \in Runs, NEW pc \in RunSteps,
           NEW h \in Clients \cup {NoOne},
           runs' = [runs EXCEPT ![r].at = pc, ![r].head = h]
    PROVE  RunBecomes(r, runs[r].status, pc, h)
<1> DEFINE x == [runs[r] EXCEPT !.at = pc, !.head = h]
<1>1. runs[r] \in RunRecords /\ runs \in Seq(RunRecords)
  BY DEF TypeOK, Runs
<1>2. x \in RunRecords
  BY <1>1, RunFields
<1>3. x.from = runs[r].from /\ x.status = runs[r].status /\ x.at = pc /\ x.head = h
  BY <1>1 DEF RunRecords
<1>4. runs' = [runs EXCEPT ![r] = x]
  BY <1>1
<1>5. QED
  BY <1>2, <1>3, <1>4, RunReplaced

(* A run's last call for its tools. *)
LEMMA ToolsUsed ==
    ASSUME TypeOK, NEW r \in Runs, NEW pc \in RunSteps, NEW v \in BOOLEAN,
           runs' = [runs EXCEPT ![r].at = pc, ![r].usedTools = v]
    PROVE  RunBecomes(r, runs[r].status, pc, runs[r].head)
<1> DEFINE x == [runs[r] EXCEPT !.at = pc, !.usedTools = v]
<1>1. runs[r] \in RunRecords /\ runs \in Seq(RunRecords)
  BY DEF TypeOK, Runs
<1>2. x \in RunRecords
  BY <1>1, RunFields
<1>3. x.from = runs[r].from /\ x.status = runs[r].status /\ x.at = pc
      /\ x.head = runs[r].head
  BY <1>1 DEF RunRecords
<1>4. runs' = [runs EXCEPT ![r] = x]
  BY <1>1
<1>5. QED
  BY <1>2, <1>3, <1>4, RunReplaced

(* The task of a run ends: its ActiveRun is dropped. *)
LEMMA TaskEnds ==
    ASSUME TypeOK, NEW r \in Runs,
           runs' = [runs EXCEPT ![r].at = "drain", ![r].tripped = FALSE,
                                ![r].byUser = FALSE, ![r].usedTools = FALSE]
    PROVE  RunBecomes(r, runs[r].status, "drain", runs[r].head)
<1> DEFINE x == [runs[r] EXCEPT !.at = "drain", !.tripped = FALSE,
                                !.byUser = FALSE, !.usedTools = FALSE]
<1>1. runs[r] \in RunRecords /\ runs \in Seq(RunRecords) /\ "drain" \in RunSteps
  BY DEF TypeOK, Runs, RunSteps
<1>2. x \in RunRecords
  BY <1>1, RunFields
<1>3. x.from = runs[r].from /\ x.status = runs[r].status /\ x.at = "drain"
      /\ x.head = runs[r].head
  BY <1>1 DEF RunRecords
<1>4. runs' = [runs EXCEPT ![r] = x]
  BY <1>1
<1>5. QED
  BY <1>2, <1>3, <1>4, RunReplaced, ZenonT(40)

(* cancel_run trips the cancellation of a run and leaves the log alone. *)
LEMMA CancelTrips ==
    ASSUME TypeOK, NEW r \in Runs, Cancel(r)
    PROVE  RunBecomes(r, runs[r].status, runs[r].at, runs[r].head)
<1> DEFINE x == [runs[r] EXCEPT !.tripped = TRUE, !.byUser = TRUE]
<1>1. runs[r] \in RunRecords /\ runs \in Seq(RunRecords)
  BY DEF TypeOK, Runs
<1>2. x \in RunRecords
  <2>1. runs[r].at \in RunSteps /\ runs[r].head \in Clients \cup {NoOne}
    BY <1>1 DEF RunRecords
  <2>2. [runs[r] EXCEPT !.tripped = TRUE] \in RunRecords
    BY <1>1, <2>1, RunFields
  <2>3. QED
    BY <2>1, <2>2, RunFields
<1>3. x.from = runs[r].from /\ x.status = runs[r].status /\ x.at = runs[r].at
      /\ x.head = runs[r].head
  BY <1>1 DEF RunRecords
<1>4. runs' = [runs EXCEPT ![r] = x]
  BY <1>1 DEF Cancel
<1>5. QED
  BY <1>2, <1>3, <1>4, RunReplaced

(* cancel_run_durably ends a run and leaves its task where it is. *)
LEMMA StopEnds ==
    ASSUME TypeOK, NEW r \in Runs, Stop(r)
    PROVE  RunBecomes(r, "cancelled", runs[r].at, runs[r].head)
<1> DEFINE b == (r \in active) \/ runs[r].tripped
           y == [runs[r] EXCEPT !.status = "cancelled", !.ends = runs[r].ends + 1]
           x == [y EXCEPT !.tripped = b]
<1>1. runs[r] \in RunRecords /\ runs \in Seq(RunRecords)
  BY DEF TypeOK, Runs
<1>2. runs[r].ends + 1 \in Nat /\ b \in BOOLEAN /\ runs[r].at \in RunSteps
      /\ runs[r].head \in Clients \cup {NoOne}
  BY <1>1 DEF RunRecords
<1>3. y \in RunRecords /\ y.tripped = runs[r].tripped
  <2>1. ASSUME NEW n \in Nat
        PROVE  LET z == [runs[r] EXCEPT !.status = "cancelled", !.ends = n]
               IN z \in RunRecords /\ z.tripped = runs[r].tripped
    BY <1>1 DEF RunRecords
  <2>2. QED
    BY <2>1, <1>2
<1>4. runs' = [runs EXCEPT ![r] = x]
  <2>1. Finished(r, "cancelled") = [runs EXCEPT ![r] = y]
    BY <1>1 DEF Finished
  <2>2. runs' = [Finished(r, "cancelled") EXCEPT
                    ![r].tripped = (r \in active) \/ @]
    BY DEF Stop
  <2> HIDE DEF y
  <2>3. QED
    BY <2>1, <2>2, <1>1, <1>3
<1>5. x \in RunRecords
  BY <1>2, <1>3, RunFields
<1>6. x.from = runs[r].from /\ x.status = "cancelled" /\ x.at = runs[r].at
      /\ x.head = runs[r].head
  BY <1>1 DEF RunRecords
<1>7. QED
  BY <1>4, <1>5, <1>6, RunReplaced

(* The log's RunStarted adds a run. *)
LEMMA AppendAdds ==
    ASSUME TypeOK, NEW from \in Clients \cup {NoOne},
           runs' = Append(runs, NewRun(from))
    PROVE  RunAdded(from)
<1>1. runs \in Seq(RunRecords) /\ Len(runs) \in Nat
  BY DEF TypeOK
<1>2. NewRun(from) \in RunRecords
  BY DEF NewRun, RunRecords, RunSteps
<1>3. /\ runs' \in Seq(RunRecords) /\ Len(runs') = Len(runs) + 1
      /\ runs'[Len(runs) + 1] = NewRun(from)
      /\ \A j \in 1 .. Len(runs) : runs'[j] = runs[j]
  BY <1>1, <1>2, AppendProperties
<1>4. QED
  BY <1>1, <1>3 DEF RunAdded, Runs

(* The answer to a start command moves the task that sent it, if one did. *)
LEMMA AnswerMoves ==
    ASSUME TypeOK, NEW cmd \in Commands, NEW result \in Results,
           runs' = TaskAnswered(cmd, result)
    PROVE  \/ runs' = runs
           \/ /\ cmd.by \in Runs
              /\ \E pc \in {"dropHead", "void", "done"}, h \in {NoOne, runs[cmd.by].head} :
                    RunBecomes(cmd.by, runs[cmd.by].status, pc, h)
<1> DEFINE r == cmd.by
           pc == CASE result = "handled" -> "dropHead"
                   [] result = "error" -> "void"
                   [] OTHER -> "done"
           h == IF result = "handled" THEN runs[r].head ELSE NoOne
<1>1. CASE r = 0
  BY <1>1 DEF TaskAnswered
<1>2. CASE r # 0 /\ r \notin Runs
  <2>1. runs \in Seq(RunRecords)
    BY DEF TypeOK
  <2>2. QED
    BY <1>2, <2>1 DEF TaskAnswered, Runs
<1>3. CASE r # 0 /\ r \in Runs
  <2>1. runs[r] \in RunRecords /\ runs \in Seq(RunRecords)
    BY <1>3 DEF TypeOK, Runs
  <2>2. pc \in {"dropHead", "void", "done"} /\ h \in {NoOne, runs[r].head}
    OBVIOUS
  <2>3. pc \in RunSteps /\ h \in Clients \cup {NoOne}
    BY <2>1, <2>2 DEF RunRecords, RunSteps
  <2>4. runs' = [runs EXCEPT ![r].at = pc, ![r].head = h]
    BY <1>3, <2>1 DEF TaskAnswered
  <2> HIDE DEF pc, h
  <2>5. RunBecomes(r, runs[r].status, pc, h)
    BY <1>3, <2>3, <2>4, HeadChanges
  <2>6. QED
    BY <1>3, <2>2, <2>5
<1>4. QED
  BY <1>1, <1>2, <1>3

(* A crash ends every task and leaves the log. *)
LEMMA CrashRuns ==
    ASSUME TypeOK, Crash
    PROVE  /\ runs' \in Seq(RunRecords) /\ Runs' = Runs
           /\ \A r \in Runs : /\ runs'[r].from = runs[r].from
                              /\ runs'[r].status = runs[r].status
                              /\ runs'[r].at = "done" /\ runs'[r].head = NoOne
<1> DEFINE x(r) == [runs[r] EXCEPT !.at = "done", !.tripped = FALSE,
                        !.byUser = FALSE, !.usedTools = FALSE, !.head = NoOne]
<1>1. ASSUME NEW r \in Runs
      PROVE  /\ x(r) \in RunRecords /\ x(r).from = runs[r].from
             /\ x(r).status = runs[r].status /\ x(r).at = "done" /\ x(r).head = NoOne
  <2>1. runs[r] \in RunRecords /\ "done" \in RunSteps
    BY DEF TypeOK, Runs, RunSteps
  <2>2. x(r) \in RunRecords
    BY <2>1, RunFields
  <2>3. QED
    BY <2>1, <2>2 DEF RunRecords
<1>2. runs' = [r \in Runs |-> x(r)]
  BY DEF Crash
<1>3. Runs = 1 .. Len(runs) /\ Len(runs) \in Nat
  BY DEF TypeOK, Runs
<1> HIDE DEF x
<1>4. runs' \in Seq(RunRecords) /\ DOMAIN runs' = Runs
  BY <1>1, <1>2, <1>3
<1>5. QED
  BY <1>1, <1>2, <1>4 DEF Runs

(* The adoption of a session ends the runs its log leaves open
   (reconcile_session_with). *)
LEMMA CloseRunsRuns ==
    ASSUME TypeOK, CloseRuns
    PROVE  /\ runs' \in Seq(RunRecords) /\ Runs' = Runs
           /\ \A r \in Runs : /\ runs'[r].from = runs[r].from
                              /\ runs'[r].status = IF r \in RunningRuns
                                      THEN "interrupted" ELSE runs[r].status
                              /\ runs'[r].at = runs[r].at
                              /\ runs'[r].head = runs[r].head
<1> DEFINE x(r) == [runs[r] EXCEPT !.status = "interrupted",
                                   !.ends = runs[r].ends + 1]
<1>1. ASSUME NEW r \in Runs
      PROVE  /\ x(r) \in RunRecords /\ x(r).from = runs[r].from
             /\ x(r).status = "interrupted" /\ x(r).at = runs[r].at
             /\ x(r).head = runs[r].head /\ Finished(r, "interrupted")[r] = x(r)
  <2>1. runs[r] \in RunRecords /\ runs \in Seq(RunRecords)
    BY DEF TypeOK, Runs
  <2>2. runs[r].ends + 1 \in Nat
    BY <2>1 DEF RunRecords
  <2>3. ASSUME NEW n \in Nat
        PROVE  LET z == [runs[r] EXCEPT !.status = "interrupted", !.ends = n]
               IN /\ z \in RunRecords /\ z.from = runs[r].from
                  /\ z.status = "interrupted" /\ z.at = runs[r].at
                  /\ z.head = runs[r].head
    BY <2>1 DEF RunRecords
  <2>4. Finished(r, "interrupted")[r] = x(r)
    BY <2>1 DEF Finished, Runs
  <2>5. QED
    BY <2>2, <2>3, <2>4
<1>2. runs' = [r \in Runs |-> IF r \in RunningRuns THEN Finished(r, "interrupted")[r]
                              ELSE runs[r]]
  BY DEF CloseRuns
<1>3. Runs = 1 .. Len(runs) /\ Len(runs) \in Nat /\ \A r \in Runs : runs[r] \in RunRecords
  BY DEF TypeOK, Runs
<1> HIDE DEF x
<1>4. runs' \in Seq(RunRecords) /\ DOMAIN runs' = Runs
  BY <1>1, <1>2, <1>3
<1>5. QED
  BY <1>1, <1>2, <1>4 DEF Runs

(* A session opened again is drained in the place of a task that is over. *)
LEMMA ResumeRuns ==
    ASSUME TypeOK, Resume
    PROVE  \/ runs' = runs
           \/ \E r \in Runs : /\ runs[r].at = "done"
                              /\ RunBecomes(r, runs[r].status, "drain", runs[r].head)
<1> DEFINE over == {r \in Runs : runs[r].at = "done"}
           r == CHOOSE j \in over : TRUE
<1>1. CASE over = {}
  BY <1>1 DEF Resume
<1>2. CASE over # {}
  <2>1. r \in Runs /\ runs[r].at = "done"
    BY <1>2
  <2>2. runs' = [runs EXCEPT ![r].at = "drain"]
    BY <1>2 DEF Resume
  <2> HIDE DEF r
  <2>3. Goes(r, "drain") /\ "drain" \in RunSteps
    BY <2>2 DEF Goes, RunSteps
  <2>4. QED
    BY <2>1, <2>3, GoesOn
<1>3. QED
  BY <1>1, <1>2

-----------------------------------------------------------------------------
(* What a step does to the submissions and the messages. *)

(* A submission moves on. *)
LEMMA ClientMoves ==
    ASSUME TypeOK, NEW c \in Clients, NEW n \in Nat,
           NEW pc \in {"idle", "submit", "deliver", "ask", "await", "pending", "done"}
    PROVE  /\ [client EXCEPT ![c].pc = pc] \in [Clients -> Submissions]
           /\ [client EXCEPT ![c].pc = pc, ![c].run = n] \in [Clients -> Submissions]
<1>1. client \in [Clients -> Submissions] /\ client[c] \in Submissions
  BY DEF TypeOK
<1>2. [client[c] EXCEPT !.pc = pc] \in Submissions
  BY <1>1 DEF Submissions
<1>3. [client[c] EXCEPT !.pc = pc, !.run = n] \in Submissions
  BY <1>1 DEF Submissions
<1>4. QED
  BY <1>1, <1>2, <1>3

(* The answer to a client's start is within the submission's tries. *)
LEMMA ClientAnsweredType ==
    ASSUME TypeOK, NEW cmd \in Commands, NEW result
    PROVE  ClientAnswered(cmd, result) \in [Clients -> Submissions]
<1> DEFINE c == cmd.input
           again == /\ result = "running" /\ client[c].way # "start"
                    /\ client[c].tries + 1 < SubmitAttempts
           pc == IF again THEN "submit" ELSE "done"
           tries == IF again THEN client[c].tries + 1 ELSE client[c].tries
<1>1. client \in [Clients -> Submissions]
  BY DEF TypeOK
<1>2. CASE cmd.by # 0
  BY <1>1, <1>2 DEF ClientAnswered
<1>3. CASE cmd.by = 0 /\ c \notin Clients
  <2>1. ClientAnswered(cmd, result) = client
    BY <1>1, <1>3 DEF ClientAnswered
  <2>2. QED
    BY <1>1, <2>1
<1>4. CASE cmd.by = 0 /\ c \in Clients
  <2>1. ClientAnswered(cmd, result) = [client EXCEPT ![c].pc = pc, ![c].tries = tries]
    <3>1. client[c] \in Submissions
      BY <1>1, <1>4
    <3>2. [client EXCEPT ![c].pc = pc][c].tries = client[c].tries
      BY <1>1, <1>4, <3>1 DEF Submissions
    <3>3. ClientAnswered(cmd, result) =
             [client EXCEPT ![c].pc = pc,
                            ![c].tries = IF again THEN @ + 1 ELSE @]
      BY <1>4, Zenon DEF ClientAnswered
    <3> HIDE DEF pc, again
    <3>4. QED
      BY <3>2, <3>3
  <2>2. client[c].tries \in 0 .. SubmitAttempts - 1 /\ SubmitAttempts \in Nat
    BY <1>1, <1>4, RunsAssumption DEF Submissions
  <2>3. tries \in 0 .. SubmitAttempts - 1 /\ pc \in {"submit", "done"}
    BY <2>2
  <2> HIDE DEF pc, tries, c
  <2>4. [client[c] EXCEPT !.pc = pc, !.tries = tries] \in Submissions
    BY <1>1, <1>4, <2>3 DEF Submissions
  <2>5. QED
    BY <1>1, <1>4, <2>1, <2>4
<1>5. QED
  BY <1>2, <1>3, <1>4

(* The clients whose inputs a turn takes. *)
LEMMA SubmittedType ==
    ASSUME TypeOK, NEW r, Submitted(r)
    PROVE  /\ client' \in [Clients -> Submissions]
           /\ given' \in [Clients -> SUBSET {"run", "steered", "recalled"}]
<1>1. \A c \in Clients : [client[c] EXCEPT !.pc = "done"] \in Submissions
  BY DEF TypeOK, Submissions
<1>2. client' \in [Clients -> Submissions]
  BY <1>1 DEF TypeOK, Submitted
<1>3. QED
  BY <1>2 DEF TypeOK, Submitted

(* A message admitted to a run. *)
LEMMA AdmittedType ==
    ASSUME TypeOK, NEW ms, NEW r \in Nat
    PROVE  Admitted(ms, r) \in [Mail -> Messages]
<1>1. \A m \in Mail : [mail[m] EXCEPT !.run = r] \in Messages
  BY DEF TypeOK, Messages
<1>2. QED
  BY <1>1 DEF TypeOK, Admitted

(* A message's claims are runs. *)
LEMMA MessageFields ==
    ASSUME NEW x \in Messages, NEW r \in Nat
    PROVE  /\ [x EXCEPT !.claims = x.claims \cup {r}] \in Messages
           /\ [x EXCEPT !.claims = x.claims \ {r}] \in Messages
           /\ [x EXCEPT !.claims = {}] \in Messages
           /\ [x EXCEPT !.st = "consumed", !.claims = x.claims \ {r}] \in Messages
           /\ [x EXCEPT !.st = "discarded"] \in Messages
           /\ \A mode \in {"steer", "queue"} :
                 [x EXCEPT !.st = "pending", !.mode = mode] \in Messages
<1>1. x.claims \cup {r} \in SUBSET Nat /\ x.claims \ {r} \in SUBSET Nat
  BY DEF Messages
<1>2. \A cs \in SUBSET Nat : /\ [x EXCEPT !.claims = cs] \in Messages
                            /\ [x EXCEPT !.st = "consumed", !.claims = cs] \in Messages
  BY DEF Messages
<1>3. [x EXCEPT !.st = "discarded"] \in Messages
  BY DEF Messages
<1>4. \A mode \in {"steer", "queue"} :
         [x EXCEPT !.st = "pending", !.mode = mode] \in Messages
  BY DEF Messages
<1>5. QED
  BY <1>1, <1>2, <1>3, <1>4

-----------------------------------------------------------------------------
(* Types. *)

(* Fault counts within its bound. *)
LEMMA FaultType ==
    ASSUME TypeOK, NEW f, Fault(f)
    PROVE  faults' \in 0 .. MaxFaults
  BY RunsAssumption DEF TypeOK, Fault

(* The commands clients and ended runs send. *)
LEMMA AskedType ==
    ASSUME TypeOK, NEW cmd \in Asked
    PROVE  /\ cmd \in Commands
           /\ \/ cmd.by = 0 /\ cmd.input \in Clients /\ client[cmd.input].pc = "ask"
              \/ cmd.by \in Runs /\ runs[cmd.by].at = "ask"
                 /\ cmd.input = runs[cmd.by].head
<1>1. CASE \E c \in Clients : cmd = [input |-> c, by |-> 0] /\ client[c].pc = "ask"
  BY <1>1 DEF Commands
<1>2. CASE \E r \in Runs : cmd = [input |-> runs[r].head, by |-> r]
                           /\ runs[r].at = "ask"
  <2>1. PICK r \in Runs : cmd = [input |-> runs[r].head, by |-> r]
                          /\ runs[r].at = "ask"
    BY <1>2
  <2>2. runs[r] \in RunRecords /\ r \in Nat
    BY DEF TypeOK, Runs
  <2>3. QED
    BY <2>1, <2>2 DEF Commands, RunRecords
<1>3. QED
  BY <1>1, <1>2 DEF Asked

(* The command of a start is handled. *)
LEMMA TakenType ==
    ASSUME TypeOK, NEW cmd \in Asked, Taken(cmd)
    PROVE  /\ runs' \in Seq(RunRecords) /\ Runs' = Runs
           /\ client' \in [Clients -> Submissions]
<1>1. CASE cmd.by = 0
  <2>1. client' = [client EXCEPT ![cmd.input].pc = "await"] /\ runs' = runs
    BY <1>1 DEF Taken
  <2>2. cmd.input \in Clients
    BY <1>1, AskedType DEF TypeOK, Runs
  <2>3. client' \in [Clients -> Submissions]
    BY <2>1, <2>2, ClientMoves
  <2>4. QED
    BY <2>1, <2>3 DEF TypeOK, Runs
<1>2. CASE cmd.by # 0
  <2>1. cmd.by \in Runs /\ Goes(cmd.by, "await") /\ client' = client
    BY <1>2, AskedType DEF Taken, Goes
  <2>2. RunBecomes(cmd.by, runs[cmd.by].status, "await", runs[cmd.by].head)
    BY <2>1, GoesOn DEF RunSteps
  <2>3. QED
    BY <2>1, <2>2 DEF RunBecomes, TypeOK
<1>3. QED
  BY <1>1, <1>2

(* An answer keeps the types. *)
LEMMA AnsweredType ==
    ASSUME TypeOK, NEW cmd \in Commands, NEW result \in Results, Answered(cmd, result)
    PROVE  /\ runs' \in Seq(RunRecords) /\ Runs' = Runs
           /\ client' \in [Clients -> Submissions]
<1>1. runs' \in Seq(RunRecords) /\ Runs' = Runs
  BY AnswerMoves DEF Answered, RunBecomes, TypeOK, Runs
<1>2. QED
  BY <1>1, ClientAnsweredType DEF Answered

(* handle_actor_command of Start. *)
LEMMA HandleStartType ==
    ASSUME TypeInv, NEW cmd \in Asked, HandleStart(cmd)
    PROVE  TypeInv'
<1> USE DEF TypeInv, HoldsARun, Committed
<1>1. cmd \in Commands
  BY AskedType
<1>2. Start(cmd) \in Holds /\ Start(cmd).pc = "read"
  BY <1>1 DEF Start, NoHold, NoCommand, Holds, Results, Commands
<1>3. wake' \in Wakes
  <2>1. wake' = [wake EXCEPT !.preempted = wake.preempted \/ wake.starting]
    BY DEF HandleStart
  <2>2. QED
    BY <2>1 DEF TypeOK, Wakes
<1>4. /\ runs' \in Seq(RunRecords) /\ Runs' = Runs
      /\ client' \in [Clients -> Submissions]
  BY <1>1, TakenType, AnsweredType DEF HandleStart, Results
<1>5. hold' \in Holds /\ deferred' \in Commands
      /\ HoldsARun'
  BY <1>1, <1>2, <1>4 DEF HandleStart, TypeOK
<1>6. UNCHANGED <<status, queue, mood, mail, active, home, given, faults>>
  BY DEF HandleStart
<1>7. QED
  BY <1>3, <1>4, <1>5, <1>6 DEF TypeOK

(* A start that gives up goes to its release. *)
LEMMA GiveUpType ==
    ASSUME TypeOK, NEW result \in Results, GiveUp(result)
    PROVE  hold' \in Holds /\ hold'.pc = "release"
<1>1. hold \in Holds
  BY DEF TypeOK
<1>2. [hold EXCEPT !.pc = "release", !.result = result] \in Holds
      /\ [hold EXCEPT !.pc = "release", !.result = result].pc = "release"
  BY <1>1 DEF Holds
<1>3. QED
  BY <1>2 DEF GiveUp

(* The projection is read and the start prepared. *)
LEMMA PrepareType ==
    ASSUME TypeInv, ReadSession \/ PrepareStart
    PROVE  TypeInv'
<1> USE DEF TypeInv, HoldsARun, Committed
<1>1. hold \in Holds
  BY DEF TypeOK
<1>2. hold' \in Holds /\ hold'.pc \notin Committed
  <2>1. CASE ReadSession
    <3> DEFINE seen == IF hold.kind = "start" /\ HasRun(hold.command.input) THEN "known"
                         ELSE IF status = "running" THEN "running" ELSE "idle"
    <3>1. hold' = [hold EXCEPT !.pc = "prepare", !.seen = seen]
      BY <2>1 DEF ReadSession
    <3>2. seen \in {"idle", "running", "known"}
      OBVIOUS
    <3> HIDE DEF seen
    <3>3. [hold EXCEPT !.pc = "prepare", !.seen = seen] \in Holds
          /\ [hold EXCEPT !.pc = "prepare", !.seen = seen].pc = "prepare"
      BY <1>1, <3>2 DEF Holds
    <3>4. QED
      BY <3>1, <3>3
  <2>2. CASE PrepareStart
    <3>1. CASE hold' = [hold EXCEPT !.pc = "commit"]
      BY <1>1, <3>1 DEF Holds
    <3>2. CASE \E result \in Results : GiveUp(result)
      BY <3>2, GiveUpType
    <3>3. QED
      BY <2>2, <3>1, <3>2 DEF PrepareStart, Results
  <2>3. QED
    BY <2>1, <2>2
<1>3. faults' \in 0 .. MaxFaults
  BY FaultType DEF ReadSession, PrepareStart, TypeOK
<1>4. UNCHANGED <<logVars, active, home, deferred, wake, clientVars>>
  BY DEF ReadSession, PrepareStart
<1>5. QED
  BY <1>2, <1>3, <1>4 DEF TypeOK, logVars, clientVars, Runs

(* The run is committed to the log. *)
LEMMA CommitType ==
    ASSUME TypeInv, CommitStart \/ CommitWake
    PROVE  TypeInv'
<1> USE DEF TypeInv, HoldsARun, Committed
<1>1. /\ hold \in Holds /\ hold.command.input \in Clients \cup {NoOne}
      /\ Len(runs) + 1 \in Nat
  BY DEF TypeOK, Holds, Commands
<1>2. Inserting => hold' \in Holds /\ hold'.run = Len(runs) + 1
  <2>1. [hold EXCEPT !.pc = "insert", !.run = Len(runs) + 1] \in Holds
        /\ [hold EXCEPT !.pc = "insert", !.run = Len(runs) + 1].run = Len(runs) + 1
    BY <1>1 DEF Holds
  <2>2. QED
    BY <2>1 DEF Inserting
<1>3. CASE CommitStart
  <2>1. RunAdded(hold.command.input)
    BY <1>1, <1>3, AppendAdds DEF CommitStart
  <2>2. queue' \in Seq(Clients)
    BY <1>3, WithoutType DEF CommitStart, TypeOK
  <2>3. given' \in [Clients -> SUBSET {"run", "steered", "recalled"}]
    BY <1>3 DEF CommitStart, TypeOK
  <2>4. /\ status' = "running" /\ Inserting
        /\ UNCHANGED <<mood, mail, active, home, deferred, wake, client, faults>>
    BY <1>3 DEF CommitStart
  <2>5. QED
    BY <1>2, <2>1, <2>2, <2>3, <2>4 DEF TypeOK, RunAdded
<1>4. CASE CommitWake
  <2>1. UNCHANGED <<queue, mood, active, home, deferred, wake, clientVars, faults>>
    BY <1>4 DEF CommitWake
  <2>2. CASE GiveUp("error") /\ UNCHANGED <<runs, status, mail>>
    <3>1. hold' \in Holds /\ hold'.pc = "release"
      BY <2>2, GiveUpType DEF Results
    <3>2. QED
      BY <2>1, <2>2, <3>1 DEF TypeOK, Runs, clientVars
  <2>3. CASE /\ runs' = Append(runs, NewRun(NoOne)) /\ status' = "running"
             /\ mail' = Admitted({m \in Mail : Waiting(m)}, Len(runs) + 1)
             /\ Inserting
    <3>1. RunAdded(NoOne)
      BY <2>3, AppendAdds
    <3>2. mail' \in [Mail -> Messages]
      BY <1>1, <2>3, AdmittedType
    <3>3. QED
      BY <1>2, <2>1, <2>3, <3>1, <3>2 DEF TypeOK, RunAdded, clientVars
  <2>4. QED
    BY <1>4, <2>2, <2>3 DEF CommitWake
<1>5. QED
  BY <1>3, <1>4

(* The run is registered, set up and launched. *)
LEMMA LaunchType ==
    ASSUME TypeInv, InsertActive \/ SetUpRun \/ FailSetUp \/ LaunchRun
    PROVE  TypeInv'
<1> USE DEF TypeInv, HoldsARun, Committed
<1> DEFINE r == hold.run
<1>1. hold \in Holds /\ mood \in Moods /\ r \in Runs
  BY DEF TypeOK, InsertActive, SetUpRun, FailSetUp, LaunchRun, Starting
<1>2. ASSUME NEW pc \in Committed
      PROVE  LET h == [hold EXCEPT !.pc = pc] IN h \in Holds /\ h.run = hold.run
  BY <1>1 DEF Holds
<1>3. FreeMood \in Moods
  BY DEF FreeMood, Moods
<1>4. CASE InsertActive
  <2>1. hold' \in Holds /\ hold'.run \in Runs /\ active' \subseteq Runs
    BY <1>1, <1>2, <1>4 DEF InsertActive, TypeOK
  <2>2. UNCHANGED <<logVars, deferred, wake, home, clientVars, faults>>
    BY <1>4 DEF InsertActive
  <2>3. QED
    BY <2>1, <2>2 DEF TypeOK, logVars, clientVars, Runs
<1>5. CASE SetUpRun
  <2>1. UNCHANGED <<runs, status, queue, mail, deferred, wake, home, clientVars>>
    BY <1>5 DEF SetUpRun
  <2>2. hold' \in Holds /\ hold'.run \in Runs
    BY <1>1, <1>2, <1>5 DEF SetUpRun
  <2>3. active' \subseteq Runs /\ mood' \in Moods /\ faults' \in 0 .. MaxFaults
    BY <1>1, <1>3, <1>5, FaultType DEF SetUpRun, TypeOK
  <2>4. QED
    BY <2>1, <2>2, <2>3 DEF TypeOK, clientVars, Runs
<1>6. CASE FailSetUp
  <2>1. UNCHANGED <<mail, active, deferred, wake, home, given, faults>>
    BY <1>6 DEF FailSetUp
  <2>2. RunBecomes(r, "failed", "done", runs[r].head)
    BY <1>1, <1>6, FinishedIs DEF FailSetUp, RunSteps
  <2>3. hold' \in Holds /\ hold'.pc = "release"
    BY <1>6, GiveUpType DEF FailSetUp, Results
  <2>4. /\ client' \in [Clients -> Submissions] /\ mood' \in Moods
        /\ queue' \in Seq(Clients) /\ status' = "failed"
    BY <1>6, GivenBackType, MoodAfterType DEF FailSetUp, TypeOK, QueueAfter
  <2>5. QED
    BY <2>1, <2>2, <2>3, <2>4 DEF TypeOK, RunBecomes
<1>7. CASE LaunchRun
  <2>1. /\ UNCHANGED <<status, queue, mood, mail, deferred, wake, home, clientVars,
                       faults>>
        /\ active' \subseteq active /\ GiveUp("ok")
    BY <1>7 DEF LaunchRun
  <2>2. Goes(r, "done") \/ Goes(r, "top")
    BY <1>7 DEF LaunchRun, Goes
  <2>3. runs' \in Seq(RunRecords) /\ Runs' = Runs
    BY <1>1, <2>2, GoesOn DEF RunBecomes, RunSteps
  <2>4. hold' \in Holds /\ hold'.pc = "release"
    BY <2>1, GiveUpType DEF Results
  <2>5. QED
    BY <2>1, <2>3, <2>4 DEF TypeOK, clientVars
<1>8. QED
  BY <1>4, <1>5, <1>6, <1>7

(* The flags of the wake a release ends. *)
LEMMA ReleasedWake ==
    ASSUME wake \in Wakes
    PROVE  /\ [wake EXCEPT !.starting = FALSE] \in Wakes
           /\ [wake EXCEPT !.starting = FALSE, !.task = "clearing",
                           !.ok = hold.result = "ok"] \in Wakes
           /\ [wake EXCEPT !.scheduled = FALSE, !.task = "none"] \in Wakes
           /\ [wake EXCEPT !.starting = TRUE, !.preempted = FALSE,
                           !.task = "starting"] \in Wakes
<1>1. /\ [wake EXCEPT !.starting = FALSE] \in Wakes
      /\ [wake EXCEPT !.scheduled = FALSE, !.task = "none"] \in Wakes
  BY DEF Wakes
<1>2. \A b \in BOOLEAN : [wake EXCEPT !.starting = FALSE, !.task = "clearing",
                                      !.ok = b] \in Wakes
  BY DEF Wakes
<1>3. [wake EXCEPT !.starting = TRUE, !.preempted = FALSE,
                   !.task = "starting"] \in Wakes
  BY DEF Wakes
<1>4. QED
  BY <1>1, <1>2, <1>3

(* The reservation is released. *)
LEMMA ReleaseType ==
    ASSUME TypeInv, Release
    PROVE  TypeInv'
<1> USE DEF TypeInv, HoldsARun, Committed
<1> DEFINE w == IF hold.kind = "wake"
                THEN [wake EXCEPT !.starting = FALSE, !.task = "clearing",
                                  !.ok = hold.result = "ok"]
                ELSE [wake EXCEPT !.starting = FALSE]
<1>1. Reconcile(mood, w) /\ w \in Wakes
  BY ReleasedWake DEF Release, TypeOK
<1>2. mood' \in Moods /\ wake' \in Wakes
  <2> HIDE DEF w
  <2>1. QED
    BY <1>1, ReconcileType DEF TypeOK
<1>3. NoHold \in Holds /\ Start(deferred) \in Holds
      /\ NoHold.pc = "none" /\ Start(deferred).pc = "read" /\ NoCommand \in Commands
  BY DEF TypeOK, NoHold, Start, Holds, NoCommand, Commands, Results
<1>4. hold.command \in Commands /\ hold.result \in Results
  BY DEF TypeOK, Holds
<1>5. /\ runs' \in Seq(RunRecords) /\ Runs' = Runs
      /\ client' \in [Clients -> Submissions]
  <2>1. CASE Answered(hold.command, hold.result)
    BY <1>4, <2>1, AnsweredType
  <2>2. CASE UNCHANGED <<client, runs>>
    BY <2>2 DEF TypeOK, Runs
  <2>3. QED
    BY <2>1, <2>2 DEF Release
<1>6. /\ UNCHANGED <<status, queue, mail, active, home, given, faults>>
      /\ deferred' = NoCommand /\ hold' \in {NoHold, Start(deferred)}
  BY DEF Release
<1>7. QED
  BY <1>2, <1>3, <1>5, <1>6 DEF TypeOK

(* A compaction, and the wake's task. *)
LEMMA WakeType ==
    ASSUME TypeInv, Compact \/ BeginWake \/ ClearWake
    PROVE  TypeInv'
<1> USE DEF TypeInv, HoldsARun, Committed
<1>1. NoWake \in Wakes
  BY DEF NoWake, Wakes
<1>2. CASE Compact
  <2>1. hold' \in Holds /\ hold'.pc = "release"
    BY <1>2 DEF Compact, NoHold, Holds, NoCommand, Commands, Results
  <2>2. QED
    <3>1. faults' \in 0 .. MaxFaults
      BY <1>2, FaultType DEF Compact
    <3>2. UNCHANGED <<logVars, active, home, deferred, wake, clientVars>>
      BY <1>2 DEF Compact
    <3>3. QED
      BY <2>1, <3>1, <3>2 DEF TypeOK, logVars, clientVars, Runs
<1>3. CASE BeginWake
  <2>1. hold' \in Holds /\ (hold' = hold \/ hold'.pc = "read")
    <3> DEFINE h == [NoHold EXCEPT !.kind = "wake", !.pc = "read"]
    <3>1. h \in Holds /\ h.pc = "read"
      BY DEF NoHold, Holds, NoCommand, Commands, Results
    <3>2. hold' = hold \/ hold' = h
      BY <1>3 DEF BeginWake
    <3> HIDE DEF h
    <3>3. QED
      BY <3>1, <3>2 DEF TypeOK
  <2>2. mood' \in Moods /\ wake' \in Wakes
    BY <1>3, ReconcileType, ReleasedWake DEF BeginWake, TypeOK
  <2>3. UNCHANGED <<runs, status, queue, mail, active, home, deferred, clientVars, faults>>
    BY <1>3 DEF BeginWake
  <2>4. QED
    BY <2>1, <2>2, <2>3 DEF TypeOK, clientVars, Runs
<1>4. CASE ClearWake
  <2>1. mood' \in Moods /\ wake' \in Wakes
    BY <1>1, <1>4, ReconcileType DEF ClearWake, TypeOK
  <2>2. UNCHANGED <<runs, status, queue, mail, active, home, hold, deferred,
                    clientVars, faults>>
    BY <1>4 DEF ClearWake
  <2>3. QED
    BY <2>1, <2>2 DEF TypeOK, clientVars, Runs
<1>5. QED
  BY <1>2, <1>3, <1>4

(* RunFinished of a run keeps the types. *)
LEMMA FinishType ==
    ASSUME TypeOK, NEW r \in Runs,
           NEW o \in {"completed", "failed", "cancelled"}, Finish(r, o)
    PROVE  /\ RunBecomes(r, o, "ended", runs[r].head)
           /\ status' = o /\ queue' \in Seq(Clients)
           /\ client' = GivenBack({r}) /\ client' \in [Clients -> Submissions]
<1>1. RunBecomes(r, o, "ended", runs[r].head)
  BY FinishedIs DEF Finish, RunSteps
<1>2. queue' \in Seq(Clients)
  BY DEF Finish, QueueAfter, TypeOK
<1>3. QED
  BY <1>1, <1>2, GivenBackType DEF Finish, TypeOK

(* A run about to end loses its entry. *)
LEMMA LeavesType ==
    ASSUME TypeOK, NEW r \in Runs, NEW pc \in {"failing", "cancelling"},
           Leaves(r, pc)
    PROVE  /\ RunBecomes(r, runs[r].status, pc, runs[r].head)
           /\ active' = active \ {r}
           /\ UNCHANGED <<status, queue, mood, mail, home, hold, deferred, wake,
                          client, given>>
  BY GoesOn DEF Leaves, RunSteps, clientVars

(* The steps that end a run: one that failed, and one that was cancelled, at
   most once in the log. *)
LEMMA EndCancelledType ==
    ASSUME TypeOK, NEW r \in Runs, EndCancelled(r)
    PROVE  /\ RunBecomes(r, IF runs[r].status = "running" THEN "cancelled"
                            ELSE runs[r].status, "ended", runs[r].head)
           /\ status' \in {status, "cancelled"} /\ queue' \in Seq(Clients)
           /\ client' \in [Clients -> Submissions] /\ mood' \in Moods
           /\ UNCHANGED <<mail, active, home, hold, deferred, wake, given, faults>>
<1>1. UNCHANGED <<mail, active, home, hold, deferred, wake, given, faults>>
  BY DEF EndCancelled, engineVars
<1>2. CASE runs[r].status = "running"
  <2>1. Finish(r, "cancelled") /\ mood' = MoodAfter(r, "cancelled")
    BY <1>2 DEF EndCancelled
  <2>2. QED
    BY <1>1, <1>2, <2>1, FinishType, MoodAfterType DEF TypeOK
<1>3. CASE runs[r].status # "running"
  <2>1. Goes(r, "ended") /\ UNCHANGED <<status, queue, client, mood>>
    BY <1>3 DEF EndCancelled
  <2>2. QED
    BY <1>1, <1>3, <2>1, GoesOn DEF RunSteps, TypeOK
<1>4. QED
  BY <1>2, <1>3

LEMMA EndsType ==
    ASSUME TypeInv, NEW r \in Runs, EndFailed(r) \/ EndCancelled(r)
    PROVE  TypeInv'
<1> USE DEF TypeInv, HoldsARun
<1>1. CASE EndCancelled(r)
  BY <1>1, EndCancelledType DEF RunBecomes, TypeOK
<1>2. CASE EndFailed(r)
  <2>1. mood' \in Moods /\ wake' \in Wakes
    BY <1>2, ReconcileType, MoodAfterType DEF EndFailed, TypeOK
  <2>2. Finish(r, "failed")
        /\ UNCHANGED <<mail, active, home, hold, deferred, given, faults>>
    BY <1>2 DEF EndFailed
  <2>3. QED
    BY <2>1, <2>2, FinishType DEF TypeOK, RunBecomes
<1>3. QED
  BY <1>1, <1>2

(* The steps of a run's task that end it when its cancellation was tripped. *)
LEMMA TrippedType ==
    ASSUME TypeInv, NEW r \in Runs, Top(r) \/ AfterTurn(r) \/ CancelledInTools(r)
    PROVE  TypeInv'
<1> USE DEF TypeInv, HoldsARun
<1>1. CASE Leaves(r, "cancelling") /\ UNCHANGED faults
  BY <1>1, LeavesType DEF RunBecomes, TypeOK
<1>2. CASE /\ \E pc \in RunSteps : RunBecomes(r, runs[r].status, pc, runs[r].head)
           /\ UNCHANGED <<status, queue, mood, mail, engineVars, clientVars, faults>>
  BY <1>2 DEF RunBecomes, TypeOK, engineVars, clientVars
<1>3. CASE Top(r) /\ ~runs[r].tripped
  BY <1>2, <1>3, GoesOn DEF Top, RunSteps
<1>4. CASE AfterTurn(r) /\ ~runs[r].tripped
  BY <1>2, <1>4, GoesOn, ToolsUsed DEF AfterTurn, RunSteps
<1>5. QED
  BY <1>1, <1>3, <1>4 DEF Top, AfterTurn, CancelledInTools

(* The actor claims a request's messages. *)
LEMMA PromptType ==
    ASSUME TypeInv, NEW r \in Runs, HandlePrompt(r)
    PROVE  TypeInv'
<1> USE DEF TypeInv, HoldsARun
<1> DEFINE p == Admitted(Steering(r), r)
<1>1. r \in Nat
  BY DEF TypeOK, Runs
<1>2. p \in [Mail -> Messages]
  BY <1>1, AdmittedType
<1>3. mail' = [m \in Mail |-> IF p[m].st = "pending" /\ p[m].run = r
                              THEN [p[m] EXCEPT !.claims = p[m].claims \cup {r}] ELSE p[m]]
  BY DEF HandlePrompt
<1> HIDE DEF p
<1>4. mail' \in [Mail -> Messages]
  BY <1>1, <1>2, <1>3, MessageFields
<1>5. RunBecomes(r, runs[r].status, "turn", runs[r].head)
  BY GoesOn DEF HandlePrompt, RunSteps
<1>6. mood' \in Moods /\ wake' \in Wakes
  BY ReconcileType DEF HandlePrompt, TypeOK
<1>7. UNCHANGED <<status, queue, active, home, hold, deferred, clientVars, faults>>
  BY DEF HandlePrompt
<1>8. QED
  BY <1>4, <1>5, <1>6, <1>7 DEF TypeOK, RunBecomes, clientVars

(* A turn is committed, cancelled or fails. *)
LEMMA TurnType ==
    ASSUME TypeInv, NEW r \in Runs, Turn(r)
    PROVE  TypeInv'
<1> USE DEF TypeInv, HoldsARun
<1>1. CASE Leaves(r, "cancelling") /\ UNCHANGED faults
  BY <1>1, LeavesType DEF RunBecomes, TypeOK
<1>2. CASE /\ mail' = [m \in Mail |-> IF r \in mail[m].claims
                                      THEN [mail[m] EXCEPT !.st = "consumed",
                                                           !.claims = @ \ {r}]
                                      ELSE mail[m]]
           /\ Goes(r, "committed")
           /\ UNCHANGED <<status, queue, active, home, hold, deferred, clientVars, faults>>
           /\ Reconcile(mood, wake)
  <2>1. r \in Nat
    BY DEF TypeOK, Runs
  <2>2. \A m \in Mail : [mail[m] EXCEPT !.st = "consumed",
                                        !.claims = mail[m].claims \ {r}] \in Messages
    BY <2>1, MessageFields DEF TypeOK
  <2>3. mail' \in [Mail -> Messages]
    <3>1. ASSUME NEW m \in Mail PROVE mail'[m] \in Messages
      <4>1. mail[m] \in Messages
        BY DEF TypeOK
      <4>2. [mail[m] EXCEPT !.st = "consumed", !.claims = @ \ {r}] =
               [mail[m] EXCEPT !.st = "consumed", !.claims = mail[m].claims \ {r}]
        BY <4>1 DEF Messages
      <4>3. QED
        BY <1>2, <2>2, <4>1, <4>2
    <3>2. QED
      BY <1>2, <3>1
  <2>4. RunBecomes(r, runs[r].status, "committed", runs[r].head)
    BY <1>2, GoesOn DEF RunSteps
  <2>5. mood' \in Moods /\ wake' \in Wakes
    BY <1>2, ReconcileType DEF TypeOK
  <2>6. QED
    BY <1>2, <2>3, <2>4, <2>5, ZenonT(40) DEF TypeOK, RunBecomes, clientVars
<1>3. CASE Fault("fail") /\ Leaves(r, "failing")
  BY <1>3, LeavesType, FaultType DEF RunBecomes, TypeOK
<1>4. QED
  BY <1>1, <1>2, <1>3 DEF Turn

(* PromotePendingOrComplete. *)
LEMMA CompleteType ==
    ASSUME TypeInv, NEW r \in Runs, HandleComplete(r)
    PROVE  TypeInv'
<1> USE DEF TypeInv, HoldsARun
<1>1. r \in Nat
  BY DEF TypeOK, Runs
<1>2. mail' \in [Mail -> Messages]
  BY <1>1, AdmittedType DEF HandleComplete
<1>3. UNCHANGED <<home, hold, deferred, faults>>
  BY DEF HandleComplete
<1>4. CASE /\ Submitted(r) /\ Goes(r, "top")
           /\ UNCHANGED <<status, queue, active>>
           /\ Reconcile(IF SteeredInto(r) # {} THEN FreeMood ELSE mood, wake)
  <2>1. (IF SteeredInto(r) # {} THEN FreeMood ELSE mood) \in Moods
    BY DEF TypeOK, FreeMood, Moods
  <2>2. mood' \in Moods /\ wake' \in Wakes
    BY <1>4, <2>1, ReconcileType DEF TypeOK
  <2>3. RunBecomes(r, runs[r].status, "top", runs[r].head)
    BY <1>4, GoesOn DEF RunSteps
  <2>4. QED
    BY <1>2, <1>3, <1>4, <2>2, <2>3, SubmittedType DEF TypeOK, RunBecomes
<1>5. CASE /\ active' = active \ {r} /\ Finish(r, "completed")
           /\ UNCHANGED given
           /\ Reconcile(MoodAfter(r, "completed"), wake)
  <2>1. mood' \in Moods /\ wake' \in Wakes
    BY <1>5, ReconcileType, MoodAfterType DEF TypeOK
  <2>2. QED
    BY <1>2, <1>3, <1>5, <2>1, FinishType DEF TypeOK, RunBecomes
<1>6. QED
  BY <1>4, <1>5 DEF HandleComplete

(* A run's task after its loop. *)
LEMMA AfterLoopType ==
    ASSUME TypeInv, NEW r \in Runs, RunTaskEnds(r) \/ Drain(r) \/ AfterRefusal(r)
    PROVE  TypeInv'
<1> USE DEF TypeInv, HoldsARun
<1>1. CASE RunTaskEnds(r)
  <2>1. RunBecomes(r, runs[r].status, "drain", runs[r].head)
    BY <1>1, TaskEnds DEF RunTaskEnds
  <2>2. mood' \in Moods /\ wake' \in Wakes
    BY <1>1, ReconcileType DEF RunTaskEnds, TypeOK
  <2>3. UNCHANGED <<status, queue, mail, home, hold, deferred, clientVars, faults>>
        /\ active' = active \ {r}
    BY <1>1 DEF RunTaskEnds
  <2>4. QED
    BY <2>1, <2>2, <2>3 DEF TypeOK, RunBecomes, clientVars
<1>2. CASE Drain(r)
  <2>1. UNCHANGED <<status, queue, mood, mail, engineVars, clientVars, faults>>
    BY <1>2 DEF Drain
  <2>2. runs' \in Seq(RunRecords) /\ Runs' = Runs
    <3>1. CASE Goes(r, "done")
      BY <3>1, GoesOn DEF RunSteps, RunBecomes
    <3>2. CASE queue # <<>>
               /\ runs' = [runs EXCEPT ![r].at = "ask", ![r].head = Head(queue)]
      <4>1. Head(queue) \in Clients \cup {NoOne} /\ "ask" \in RunSteps
        BY <3>2 DEF TypeOK, RunSteps
      <4>2. QED
        BY <3>2, <4>1, HeadChanges DEF RunBecomes
    <3>3. QED
      BY <1>2, <3>1, <3>2 DEF Drain
  <2>3. QED
    BY <2>1, <2>2 DEF TypeOK, engineVars, clientVars
<1>3. CASE AfterRefusal(r)
  <2>1. UNCHANGED <<status, mood, mail, engineVars, clientVars, faults>>
    BY <1>3 DEF AfterRefusal
  <2>2. queue' \in Seq(Clients)
    <3>1. queue' = Without(queue, runs[r].head) \/ queue' = <<>>
      BY <1>3, Zenon DEF AfterRefusal
    <3>2. Without(queue, runs[r].head) \in Seq(Clients)
      BY WithoutType DEF TypeOK
    <3>3. <<>> \in Seq(Clients)
      OBVIOUS
    <3>4. QED
      BY <3>1, <3>2, <3>3, Zenon
  <2>3. RunBecomes(r, runs[r].status, "drain", NoOne)
    BY <1>3, HeadChanges DEF AfterRefusal, RunSteps
  <2>4. QED
    BY <2>1, <2>2, <2>3 DEF TypeOK, RunBecomes, engineVars, clientVars
<1>4. QED
  BY <1>1, <1>2, <1>3

(* What others do to a run. *)
LEMMA FromOutsideType ==
    ASSUME TypeInv, NEW r \in Runs, ReleaseClaims(r) \/ Cancel(r) \/ Stop(r)
    PROVE  TypeInv'
<1> USE DEF TypeInv, HoldsARun
<1>1. CASE ReleaseClaims(r)
  <2>1. r \in Nat
    BY DEF TypeOK, Runs
  <2>2. mail' \in [Mail -> Messages]
    <3>1. \A m \in Mail : [mail[m] EXCEPT !.claims = mail[m].claims \ {r}] \in Messages
      BY <2>1, MessageFields DEF TypeOK
    <3>2. QED
      BY <1>1, <3>1 DEF ReleaseClaims
  <2>3. mood' \in Moods /\ wake' \in Wakes
    BY <1>1, ReconcileType DEF ReleaseClaims, TypeOK
  <2>4. UNCHANGED <<runs, status, queue, active, home, hold, deferred, clientVars, faults>>
    BY <1>1 DEF ReleaseClaims
  <2>5. QED
    BY <2>2, <2>3, <2>4 DEF TypeOK, clientVars, Runs
<1>2. CASE Cancel(r)
  <2>1. mood' \in Moods /\ wake' \in Wakes
    BY <1>2, ReconcileType DEF Cancel, TypeOK
  <2>2. faults' \in 0 .. MaxFaults
    BY <1>2, FaultType DEF Cancel
  <2>3. UNCHANGED <<status, queue, mail, active, home, hold, deferred, clientVars>>
    BY <1>2 DEF Cancel
  <2>4. QED
    BY <1>2, <2>1, <2>2, <2>3, CancelTrips DEF TypeOK, clientVars, RunBecomes
<1>3. CASE Stop(r)
  <2>1. mood' \in Moods /\ client' \in [Clients -> Submissions]
    BY <1>3, MoodAfterType, GivenBackType DEF Stop, TypeOK
  <2>2. faults' \in 0 .. MaxFaults
    BY <1>3, FaultType DEF Stop
  <2>3. queue' \in Seq(Clients) /\ status' = "cancelled"
        /\ UNCHANGED <<mail, engineVars, given>>
    BY <1>3 DEF Stop, QueueAfter
  <2>4. QED
    BY <1>3, <2>1, <2>2, <2>3, StopEnds DEF TypeOK, engineVars, RunBecomes
<1>4. QED
  BY <1>1, <1>2, <1>3

(* The steps of a client. *)
LEMMA ClientType ==
    ASSUME TypeInv, NEW c \in Clients, ClientStep(c) \/ Recall(c)
    PROVE  TypeInv'
<1> USE DEF TypeInv, HoldsARun
<1>1. client \in [Clients -> Submissions] /\ 0 \in Nat
  BY SMTT(40) DEF TypeOK
<1>2. ASSUME NEW pc \in {"ask", "done"}, SetClient(c, pc)
      PROVE  client' \in [Clients -> Submissions]
  BY <1>1, <1>2, ClientMoves DEF SetClient
<1>3. CASE Route(c)
  <2>1. UNCHANGED <<logVars, engineVars, given, faults>>
    BY <1>3 DEF Route
  <2>2. CASE \E r \in RunningRuns :
                client' = [client EXCEPT ![c].pc = "deliver", ![c].run = r]
    <3>1. \A r \in RunningRuns : r \in Nat
      BY DEF RunningRuns, Runs, TypeOK
    <3>2. PICK r \in RunningRuns :
                 client' = [client EXCEPT ![c].pc = "deliver", ![c].run = r]
      BY <2>2
    <3>3. client' \in [Clients -> Submissions]
      BY <3>1, <3>2, ClientMoves
    <3>4. QED
      BY <2>1, <3>3 DEF TypeOK, logVars, engineVars, Runs
  <2>3. CASE SetClient(c, "ask")
    BY <1>2, <2>1, <2>3 DEF TypeOK, logVars, engineVars, Runs
  <2>4. QED
    BY <1>3, <2>2, <2>3 DEF Route
<1>4. CASE Steer(c)
  <2>1. UNCHANGED <<runs, status, queue, mail, active, home, hold, deferred, given>>
    BY <1>4 DEF Steer
  <2>2. mood' \in Moods /\ wake' \in Wakes
    BY <1>4, ReconcileType DEF Steer, TypeOK
  <2>3. client' \in [Clients -> Submissions]
    <3>1. [client EXCEPT ![c].pc = "pending"] \in [Clients -> Submissions]
      BY <1>1, ClientMoves
    <3>2. QED
      BY <1>2, <1>4, <3>1, SMTT(40) DEF Steer
  <2>4. faults' \in 0 .. MaxFaults
    BY <1>4, FaultType DEF Steer, TypeOK
  <2>5. QED
    BY <2>1, <2>2, <2>3, <2>4 DEF TypeOK, Runs
<1>5. CASE QueueInput(c)
  <2>1. UNCHANGED <<runs, status, mail, active, home, hold, deferred, given, faults>>
    BY <1>5 DEF QueueInput
  <2>2. mood' \in Moods /\ wake' \in Wakes
    BY <1>5, ReconcileType DEF QueueInput, TypeOK
  <2>3. client' \in [Clients -> Submissions]
    BY <1>2, <1>5 DEF QueueInput
  <2>4. queue' \in Seq(Clients)
    BY <1>5, AppendProperties DEF QueueInput, TypeOK
  <2>5. QED
    BY <2>1, <2>2, <2>3, <2>4 DEF TypeOK, Runs
<1>6. CASE Recall(c)
  <2>1. UNCHANGED <<runs, status, mail, active, home, hold, deferred>>
    BY <1>6 DEF Recall
  <2>2. mood' \in Moods /\ wake' \in Wakes
    BY <1>6, ReconcileType DEF Recall, TypeOK
  <2>3. client' \in [Clients -> Submissions]
    <3>1. [client EXCEPT ![c].pc = "done"] \in [Clients -> Submissions]
      BY <1>1, ClientMoves
    <3>2. QED
      BY <1>1, <1>6, <3>1, SMTT(40) DEF Recall
  <2>4. queue' \in Seq(Clients)
    BY <1>6, WithoutType DEF Recall, TypeOK
  <2>5. given' \in [Clients -> SUBSET {"run", "steered", "recalled"}]
    BY <1>6 DEF Recall, TypeOK
  <2>6. faults' \in 0 .. MaxFaults
    BY <1>6, FaultType DEF Recall
  <2>7. QED
    BY <2>1, <2>2, <2>3, <2>4, <2>5, <2>6 DEF TypeOK, Runs
<1>7. QED
  BY <1>3, <1>4, <1>5, <1>6 DEF ClientStep

(* A client's submission, a resumed session and the producers' calls. *)
LEMMA CallType ==
    ASSUME TypeInv, \/ \E c \in Clients, way \in Ways : Submit(c, way)
                    \/ \E m \in Mail, mode \in Modes : Accept(m, mode)
                    \/ \E m \in Mail : Discard(m)
                    \/ ResumeHeld
    PROVE  TypeInv'
<1> USE DEF TypeInv, HoldsARun
<1>1. ASSUME NEW c \in Clients, NEW way \in Ways, Submit(c, way) PROVE TypeInv'
  <2>1. UNCHANGED <<logVars, engineVars, given, faults>>
    BY <1>1 DEF Submit
  <2>2. way \in {"steer", "queue", "start"}
    BY RunsAssumption
  <2>3. client' \in [Clients -> Submissions]
    <3> DEFINE pc == IF way = "start" THEN "ask" ELSE "submit"
    <3>1. client' = [client EXCEPT ![c].way = way, ![c].pc = pc]
      BY <1>1 DEF Submit
    <3>2. pc \in {"idle", "submit", "deliver", "ask", "await", "pending", "done"}
      OBVIOUS
    <3> HIDE DEF pc
    <3>3. [client[c] EXCEPT !.way = way, !.pc = pc] \in Submissions
      BY <2>2, <3>2 DEF TypeOK, Submissions
    <3>4. QED
      BY <3>1, <3>3 DEF TypeOK
  <2>4. QED
    BY <2>1, <2>3 DEF TypeOK, logVars, engineVars, Runs
<1>2. ASSUME NEW m \in Mail, NEW mode \in Modes, Accept(m, mode) PROVE TypeInv'
  <2>1. UNCHANGED <<runs, status, queue, active, home, hold, deferred, clientVars, faults>>
    BY <1>2 DEF Accept
  <2>2. mood' \in Moods /\ wake' \in Wakes
    BY <1>2, ReconcileType DEF Accept, TypeOK
  <2>3. mode \in {"steer", "queue"}
    BY RunsAssumption
  <2>4. mail' \in [Mail -> Messages]
    <3>1. [mail[m] EXCEPT !.st = "pending", !.mode = mode] \in Messages
      BY <2>3 DEF TypeOK, Messages
    <3>2. QED
      BY <1>2, <3>1 DEF Accept, TypeOK
  <2>5. QED
    BY <2>1, <2>2, <2>4 DEF TypeOK, clientVars, Runs
<1>3. ASSUME NEW m \in Mail, Discard(m) PROVE TypeInv'
  <2>1. UNCHANGED <<runs, status, queue, active, home, hold, deferred, clientVars>>
    BY <1>3 DEF Discard
  <2>2. mood' \in Moods /\ wake' \in Wakes
    BY <1>3, ReconcileType DEF Discard, TypeOK
  <2>3. mail' \in [Mail -> Messages]
    <3>1. [mail[m] EXCEPT !.st = "discarded"] \in Messages
      BY DEF TypeOK, Messages
    <3>2. QED
      BY <1>3, <3>1 DEF Discard, TypeOK
  <2>4. faults' \in 0 .. MaxFaults
    BY <1>3, FaultType DEF Discard
  <2>5. QED
    BY <2>1, <2>2, <2>3, <2>4 DEF TypeOK, clientVars, Runs
<1>4. CASE ResumeHeld
  <2>1. UNCHANGED <<runs, status, queue, mail, active, home, hold, deferred,
                    clientVars, faults>>
    BY <1>4 DEF ResumeHeld
  <2>2. FreeMood \in Moods
    BY DEF FreeMood, Moods
  <2>3. mood' \in Moods /\ wake' \in Wakes
    BY <1>4, <2>2, ReconcileType DEF ResumeHeld, TypeOK
  <2>4. QED
    BY <2>1, <2>3 DEF TypeOK, clientVars, Runs
<1>5. QED
  BY <1>1, <1>2, <1>3, <1>4

(* A crash of the daemon and the adoption after it. *)
LEMMA RestartType ==
    ASSUME TypeInv, Crash \/ Adopt \/ CloseRuns \/ Resume
    PROVE  TypeInv'
<1> USE DEF TypeInv, HoldsARun, Committed
<1>1. NoHold \in Holds /\ NoHold.pc = "none" /\ NoCommand \in Commands /\ NoWake \in Wakes
  BY DEF NoHold, Holds, NoCommand, Commands, Results, NoWake, Wakes
<1>2. CASE Crash
  <2>1. client' \in [Clients -> Submissions]
    <3>1. \A c \in Clients : [client[c] EXCEPT !.pc = "done", !.run = 0] \in Submissions
      BY DEF TypeOK, Submissions
    <3>2. QED
      BY <1>2, <3>1 DEF Crash, TypeOK
  <2>2. faults' \in 0 .. MaxFaults
    BY <1>2, FaultType DEF Crash
  <2>3. /\ UNCHANGED <<status, queue, mood, mail, given>> /\ home' = "lost"
        /\ active' = {} /\ hold' = NoHold /\ deferred' = NoCommand /\ wake' = NoWake
    BY <1>2 DEF Crash
  <2>4. QED
    BY <1>1, <1>2, <2>1, <2>2, <2>3, CrashRuns DEF TypeOK
<1>3. CASE Adopt
  <2>1. mail' \in [Mail -> Messages]
    <3>1. \A m \in Mail : [mail[m] EXCEPT !.claims = {}] \in Messages
      BY DEF TypeOK, Messages
    <3>2. QED
      BY <1>3, <3>1 DEF Adopt
  <2>2. UNCHANGED <<runs, status, queue, mood, active, hold, deferred, wake,
                    clientVars, faults>> /\ home' = "adopting"
    BY <1>3 DEF Adopt
  <2>3. QED
    BY <2>1, <2>2 DEF TypeOK, clientVars, Runs
<1>4. CASE CloseRuns
  <2>1. UNCHANGED <<mood, mail, active, hold, deferred, wake, given, faults>>
        /\ home' = "adopted"
    BY <1>4 DEF CloseRuns
  <2>2. client' \in [Clients -> Submissions]
    BY <1>4, GivenBackType DEF CloseRuns, TypeOK
  <2>3. queue' \in Seq(Clients) /\ status' \in {status, "interrupted"}
    BY <1>4 DEF CloseRuns, QueueAfter, TypeOK
  <2>4. QED
    BY <1>4, <2>1, <2>2, <2>3, CloseRunsRuns DEF TypeOK
<1>5. CASE Resume
  <2>1. UNCHANGED <<status, queue, mail, active, hold, deferred, clientVars, faults>>
        /\ home' = "owned"
    BY <1>5 DEF Resume
  <2>2. mood' \in Moods /\ wake' \in Wakes
    BY <1>5, ReconcileType DEF Resume, TypeOK
  <2>3. runs' \in Seq(RunRecords) /\ Runs' = Runs
    BY <1>5, ResumeRuns DEF RunBecomes, TypeOK, Runs
  <2>4. QED
    BY <2>1, <2>2, <2>3 DEF TypeOK, clientVars
<1>6. QED
  BY <1>2, <1>3, <1>4, <1>5

(* Every step keeps the types. *)
LEMMA NextType ==
    ASSUME TypeInv, [Next]_vars
    PROVE  TypeInv'
<1>1. CASE UNCHANGED vars
  BY <1>1 DEF TypeInv, TypeOK, HoldsARun, vars, logVars, engineVars, clientVars, Runs
<1>2. CASE \E cmd \in Asked : HandleStart(cmd)
  BY <1>2, HandleStartType
<1>3. CASE StartTask
  BY <1>3, PrepareType, CommitType, LaunchType, ReleaseType DEF StartTask
<1>4. CASE WakeTask \/ Compact
  BY <1>4, WakeType DEF WakeTask
<1>5. CASE Crash \/ Reopen
  BY <1>5, RestartType DEF Reopen
<1>6. CASE \E r \in Runs : RunTask(r)
  BY <1>6, TrippedType, PromptType, TurnType, CompleteType, EndsType, AfterLoopType
     DEF RunTask
<1>7. CASE \E r \in Runs : ReleaseClaims(r) \/ Cancel(r) \/ Stop(r)
  BY <1>7, FromOutsideType
<1>8. CASE \E c \in Clients : ClientStep(c) \/ Recall(c)
  BY <1>8, ClientType
<1>9. CASE \/ \E c \in Clients, way \in Ways : Submit(c, way)
           \/ \E m \in Mail, mode \in Modes : Accept(m, mode)
           \/ \E m \in Mail : Discard(m)
           \/ ResumeHeld
  BY <1>9, CallType
<1>10. QED
  BY <1>1, <1>2, <1>3, <1>4, <1>5, <1>6, <1>7, <1>8, <1>9 DEF Next

(* The types hold at the start. *)
LEMMA InitType == Init => TypeInv
<1> SUFFICES ASSUME Init PROVE TypeInv
  OBVIOUS
<1>1. NoHold \in Holds /\ NoHold.pc = "none" /\ NoCommand \in Commands
  BY DEF NoHold, Holds, NoCommand, Commands, Results
<1>2. NoWake \in Wakes /\ FreeMood \in Moods
  BY DEF NoWake, Wakes, FreeMood, Moods
<1>3. runs \in Seq(RunRecords) /\ queue \in Seq(Clients) /\ active \subseteq Runs
  BY DEF Init
<1>4. mail \in [Mail -> Messages]
  BY DEF Init, Messages
<1>5. client \in [Clients -> Submissions]
  BY RunsAssumption DEF Init, Submissions
<1>6. given \in [Clients -> SUBSET {"run", "steered", "recalled"}]
      /\ faults \in 0 .. MaxFaults
  BY RunsAssumption DEF Init
<1>7. QED
  BY <1>1, <1>2, <1>3, <1>4, <1>5, <1>6 DEF Init, TypeInv, TypeOK, HoldsARun, Committed

(* Every reachable state of a session's runs has its type, and the run a start
   works on is one the log knows, for any clients, messages, faults, bounds
   and number of runs and restarts. *)
THEOREM RunsTypeCorrect == Spec => []TypeOK
<1>1. TypeInv /\ [Next]_vars => TypeInv'
  BY NextType
<1>2. Spec => []TypeInv
  BY InitType, <1>1, PTL DEF Spec
<1>3. TypeInv => TypeOK
  BY DEF TypeInv
<1>4. QED
  BY <1>2, <1>3, PTL

=============================================================================
