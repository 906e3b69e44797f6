---------------------------- MODULE SessionRuns ----------------------------
(***************************************************************************)
(* The runs of one session of the engine (crates/engine/src/runtime): what *)
(* starts a run, steers it, waits for it and ends it.  The session's actor *)
(* takes one command at a time (messaging/mailbox.rs); a run start and a   *)
(* compaction leave the actor but hold the session's reservation; a run    *)
(* has a task of its own (model_loop.rs), clients submit inputs (submit.rs, *)
(* runs.rs) and producer messages wake an idle session (producers.rs,      *)
(* claims.rs).                                                             *)
(*                                                                         *)
(* An input is named by the client that submits it.  An actor command is   *)
(* one step.  The daemon may die between any two and another adopt the     *)
(* session (recovery.rs).  Goals, cron, revert and ACP agents are left     *)
(* out; a producer message is one of the engine's own reports, so a held   *)
(* session does not refuse it.                                             *)
(***************************************************************************)
EXTENDS Naturals, Sequences, FiniteSets

CONSTANTS
    Clients,          \* one input each
    Mail,             \* producer messages
    NoOne,
    Ways,             \* how clients submit: "steer", "queue" or "start"
    Modes,            \* delivery modes of messages: "steer" or "queue"
    SubmitAttempts,   \* SUBMIT_ATTEMPTS
    StandardRetries,  \* [model_retry] standard_retries
    Faults,           \* what may happen besides, see below
    MaxFaults         \* how often

(* "handled": a plugin takes an input; "fail": a run or its start fails;
   "cancel": a client cancels a run; "stop": the engine ends a run from
   outside its task; "recall": a client takes an input back; "discard": a
   producer takes a message back; "compact": a manual compaction; "resume":
   a client resumes a held session; "crash": the daemon dies. *)
AllFaults == {"handled", "fail", "cancel", "stop", "recall", "discard",
              "compact", "resume", "crash"}

ASSUME RunsAssumption ==
    /\ NoOne \notin Clients
    /\ Ways \subseteq {"steer", "queue", "start"}
    /\ Modes \subseteq {"steer", "queue"}
    /\ SubmitAttempts \in Nat \ {0} /\ StandardRetries \in Nat
    /\ Faults \subseteq AllFaults /\ MaxFaults \in Nat

VARIABLES
    \* What the log says (SessionProjection and its folds)
    runs,      \* the session's runs, in order
    status,    \* SessionProjection::status
    queue,     \* QueuedInputs
    mood,      \* what after_runs reads: failures, a stop, a hold
    mail,      \* GoalProducerProjection::messages
    \* What the engine keeps in memory
    active,    \* sessions.active: the runs with an entry
    hold,      \* compaction.in_progress and the task that holds it
    deferred,  \* the start command compaction.deferred keeps
    wake,      \* the producers' wake flags and the wake's task
    home,      \* whether a daemon has the session, and who adopted it
    \* Clients
    client,    \* where each submission is
    given,     \* what became of each input
    \* Bounds
    faults

logVars == <<runs, status, queue, mood, mail>>
engineVars == <<active, hold, deferred, wake, home>>
clientVars == <<client, given>>
vars == <<logVars, engineVars, clientVars, faults>>

NoCommand == [input |-> NoOne, by |-> 0]
NoHold == [kind |-> "none", pc |-> "none", command |-> NoCommand, run |-> 0,
           seen |-> "idle", result |-> "ok"]
NoWake == [scheduled |-> FALSE, starting |-> FALSE, preempted |-> FALSE,
           task |-> "none", ok |-> FALSE]
FreeMood == [failures |-> 0, stopped |-> FALSE, held |-> FALSE]

Init ==
    /\ runs = <<>> /\ status = "idle" /\ queue = <<>> /\ mood = FreeMood
    /\ mail = [m \in Mail |-> [st |-> "none", mode |-> "queue", run |-> 0,
                               claims |-> {}]]
    /\ active = {} /\ hold = NoHold /\ deferred = NoCommand /\ wake = NoWake
    /\ home = "owned"
    /\ client = [c \in Clients |-> [pc |-> "idle", way |-> "start", run |-> 0,
                                    tries |-> 0]]
    /\ given = [c \in Clients |-> {}]
    /\ faults = 0

Runs == DOMAIN runs
Results == {"ok", "running", "handled", "error"}
Commands == [input: Clients \cup {NoOne}, by: Nat]

RunSteps ==
    {"none", "top", "prompt", "turn", "committed", "tools", "complete",
     "failing", "cancelling", "ended", "drain", "ask", "await", "dropHead",
     "void", "done"}
RunRecords ==
    [from: Clients \cup {NoOne},
     status: {"running", "completed", "failed", "cancelled", "interrupted"},
     ends: Nat, tripped: BOOLEAN, byUser: BOOLEAN,
     at: RunSteps, usedTools: BOOLEAN, head: Clients \cup {NoOne}]
Messages ==
    [st: {"none", "pending", "consumed", "discarded"},
     mode: {"steer", "queue"}, run: Nat, claims: SUBSET Nat]
Holds ==
    [kind: {"none", "start", "wake", "compact"},
     pc: {"none", "read", "prepare", "commit", "insert", "setup", "failing",
          "launch", "release"},
     command: Commands, run: Nat, seen: {"idle", "running", "known"},
     result: Results]
Moods == [failures: Nat, stopped: BOOLEAN, held: BOOLEAN]
Wakes ==
    [scheduled: BOOLEAN, starting: BOOLEAN, preempted: BOOLEAN,
     task: {"none", "scheduled", "starting", "clearing"}, ok: BOOLEAN]
Submissions ==
    [pc: {"idle", "submit", "deliver", "ask", "await", "pending", "done"},
     way: {"steer", "queue", "start"}, run: Nat, tries: 0 .. SubmitAttempts - 1]

(* Every variable has its type. *)
TypeOK ==
    /\ runs \in Seq(RunRecords)
    /\ status \in {"idle", "running", "completed", "failed", "cancelled",
                   "interrupted"}
    /\ queue \in Seq(Clients) /\ mood \in Moods
    /\ mail \in [Mail -> Messages]
    /\ active \subseteq Runs /\ hold \in Holds /\ deferred \in Commands
    /\ wake \in Wakes /\ home \in {"owned", "lost", "adopting", "adopted"}
    /\ client \in [Clients -> Submissions]
    /\ given \in [Clients -> SUBSET {"run", "steered", "recalled"}]
    /\ faults \in 0 .. MaxFaults

Fault(f) == f \in Faults /\ faults < MaxFaults /\ faults' = faults + 1

(* A daemon has adopted the session and its actor takes commands. *)
Up == home \in {"owned", "adopted"}

-----------------------------------------------------------------------------
(* What the folds of the log say. *)

RunningRuns == {r \in Runs : runs[r].status = "running"}
Waiting(m) == mail[m].st = "pending"

(* RunFinished, as the folds read it: of the run and of the session. *)
Finished(r, outcome) ==
    [runs EXCEPT ![r].status = outcome, ![r].ends = @ + 1]
(* QueuedInputs::apply_payload: only a completed run keeps the queue. *)
QueueAfter(outcome) == IF outcome = "completed" THEN queue ELSE <<>>
(* An entry leaves the queue: no two entries have one client_run_id, so what
   retain drops is one entry. *)
Without(q, c) ==
    LET i == CHOOSE j \in DOMAIN q : q[j] = c
    IN IF \E j \in DOMAIN q : q[j] = c
       THEN SubSeq(q, 1, i - 1) \o SubSeq(q, i + 1, Len(q)) ELSE q
(* pending_inputs: a run's end clears what it did not take. *)
GivenBack(rs) ==
    [c \in Clients |-> IF client[c].pc = "pending" /\ client[c].run \in rs
                       THEN [client[c] EXCEPT !.pc = "done"] ELSE client[c]]
(* after_runs, which reads the log backwards. *)
MoodAfter(r, outcome) ==
    CASE outcome = "failed" ->
             [mood EXCEPT !.failures = @ + 1, !.stopped = FALSE]
      [] outcome = "cancelled" /\ runs[r].byUser ->
             [FreeMood EXCEPT !.stopped = TRUE]
      [] OTHER -> FreeMood

-----------------------------------------------------------------------------
(* reconcile_producers_direct, after a command that left the mood m and the
   flags w: an idle session with messages waiting is woken, unless its runs
   were stopped or failed too often, which holds it. *)

Busy == active' # {} \/ status' = "running" \/ hold' # NoHold
(* could_wake: a message waits, or its producer is still registered. *)
CouldWake == \E m \in Mail : mail'[m].st \in {"none", "pending"}
MustHold(m) == (m.stopped /\ CouldWake) \/ m.failures > StandardRetries
MayWake(m) == ~m.held /\ ~m.stopped /\ m.failures <= StandardRetries

Woken(w) == [w EXCEPT !.scheduled = TRUE, !.task = "scheduled"]

Reconcile(m, w) ==
    /\ mood' = IF ~Busy /\ ~m.held /\ MustHold(m)
               THEN [FreeMood EXCEPT !.held = TRUE] ELSE m
    /\ wake' = IF /\ ~Busy /\ MayWake(m) /\ ~w.scheduled
                  /\ \E x \in Mail : mail'[x].st = "pending"
               THEN Woken(w) ELSE w

-----------------------------------------------------------------------------
(* Answers to a start command, which a client or the task of an ended run
   sent. *)

(* Mutant: a submission is tried once more than it may be. *)
MutantClientAnswered(cmd, result) ==
    LET c == cmd.input
        again == /\ result = "running" /\ client[c].way # "start"
                 /\ client[c].tries < SubmitAttempts
    IN IF cmd.by # 0 THEN client
       ELSE [client EXCEPT ![c].pc = IF again THEN "submit" ELSE "done",
                           ![c].tries = IF again THEN @ + 1 ELSE @]

(* submit_input tries again when a run started first; run.start does not. *)
ClientAnswered(cmd, result) ==
    LET c == cmd.input
        again == /\ result = "running" /\ client[c].way # "start"
                 /\ client[c].tries + 1 < SubmitAttempts
    IN IF cmd.by # 0 THEN client
       ELSE [client EXCEPT ![c].pc = IF again THEN "submit" ELSE "done",
                           ![c].tries = IF again THEN @ + 1 ELSE @]

(* drain_queued_input goes on after an input nothing could start. *)
TaskAnswered(cmd, result) ==
    IF cmd.by = 0 THEN runs
    ELSE [runs EXCEPT ![cmd.by].at = CASE result = "handled" -> "dropHead"
                                       [] result = "error" -> "void"
                                       [] OTHER -> "done",
                      ![cmd.by].head = IF result = "handled" THEN @ ELSE NoOne]

Answered(cmd, result) ==
    client' = ClientAnswered(cmd, result) /\ runs' = TaskAnswered(cmd, result)

(* The commands whose sender waits for the actor to take them. *)
Asked ==
    {[input |-> c, by |-> 0] : c \in {d \in Clients : client[d].pc = "ask"}}
    \cup {[input |-> runs[r].head, by |-> r] :
              r \in {s \in Runs : runs[s].at = "ask"}}
Taken(cmd) ==
    IF cmd.by = 0
    THEN client' = [client EXCEPT ![cmd.input].pc = "await"] /\ UNCHANGED runs
    ELSE runs' = [runs EXCEPT ![cmd.by].at = "await"] /\ UNCHANGED client

Start(cmd) == [NoHold EXCEPT !.kind = "start", !.pc = "read", !.command = cmd]

(* handle_actor_command of Start: it preempts a starting wake; a held session
   keeps one start for later and refuses the others. *)
HandleStart(cmd) ==
    /\ cmd \in Asked
    /\ wake' = [wake EXCEPT !.preempted = @ \/ wake.starting]
    /\ \/ /\ hold = NoHold
          /\ hold' = Start(cmd) /\ Taken(cmd) /\ UNCHANGED deferred
       \/ /\ hold # NoHold /\ deferred = NoCommand
          /\ deferred' = cmd /\ Taken(cmd) /\ UNCHANGED hold
       \/ /\ hold # NoHold /\ deferred # NoCommand
          /\ Answered(cmd, "running") /\ UNCHANGED <<hold, deferred>>
    /\ UNCHANGED <<status, queue, mood, mail, active, home, given, faults>>

-----------------------------------------------------------------------------
(* start_run_direct, in a task that holds the session's reservation: for an
   input or for the producers' wake. *)

Starting(pc) == hold.kind \in {"start", "wake"} /\ hold.pc = pc
GiveUp(result) == hold' = [hold EXCEPT !.pc = "release", !.result = result]

HasRun(input) == \E r \in Runs : runs[r].from = input
(* Mutant: the run an earlier start gave this input is not looked for. *)
MutantReadSession ==
    /\ Starting("read")
    /\ hold' = [hold EXCEPT !.pc = "prepare",
                            !.seen = IF status = "running" THEN "running" ELSE "idle"]
    /\ UNCHANGED <<logVars, active, home, deferred, wake, clientVars, faults>>

(* The projection is read once, before what suspends the start. *)
ReadSession ==
    /\ Starting("read")
    /\ hold' = [hold EXCEPT !.pc = "prepare",
           !.seen = IF hold.kind = "start" /\ HasRun(hold.command.input) THEN "known"
                    ELSE IF status = "running" THEN "running" ELSE "idle"]
    /\ UNCHANGED <<logVars, active, home, deferred, wake, clientVars, faults>>

(* Mutant: what the projection said of the session is not looked at. *)
MutantPrepareStart ==
    /\ Starting("prepare") /\ hold.seen # "known"
    /\ hold' = [hold EXCEPT !.pc = "commit"]
    /\ UNCHANGED <<logVars, active, home, deferred, wake, clientVars, faults>>

(* intercept_user_input, the look for a run of the same client_run_id, the
   check of the session's status and what else may refuse the start. *)
PrepareStart ==
    /\ Starting("prepare")
    /\ \/ hold.kind = "start" /\ Fault("handled") /\ GiveUp("handled")
       \/ Fault("fail") /\ GiveUp("error")
       \/ hold.seen = "known" /\ GiveUp("ok") /\ UNCHANGED faults
       \/ hold.seen = "running" /\ GiveUp("running") /\ UNCHANGED faults
       \/ /\ hold.seen = "idle" /\ hold' = [hold EXCEPT !.pc = "commit"]
          /\ UNCHANGED faults
    /\ UNCHANGED <<logVars, active, home, deferred, wake, clientVars>>

NewRun(from) ==
    [from |-> from, status |-> "running", ends |-> 0, tripped |-> FALSE,
     byUser |-> FALSE, at |-> "none", usedTools |-> FALSE, head |-> NoOne]
Inserting == hold' = [hold EXCEPT !.pc = "insert", !.run = Len(runs) + 1]

(* The run's RunStarted, which takes its input off the queue. *)
CommitStart ==
    LET input == hold.command.input IN
    /\ Starting("commit") /\ hold.kind = "start"
    /\ runs' = Append(runs, NewRun(input)) /\ status' = "running"
    /\ queue' = Without(queue, input)
    /\ given' = [given EXCEPT ![input] = @ \cup {"run"}]
    /\ Inserting
    /\ UNCHANGED <<mood, mail, active, home, deferred, wake, client, faults>>

(* GoalProducerFold: a message admitted to a run that has not ended is not
   admitted again, nor is any to a run that ended. *)
Admissible(m) ==
    /\ Waiting(m)
    /\ mail[m].run = 0 \/ runs[mail[m].run].ends > 0
Admitted(ms, r) ==
    [m \in Mail |-> IF m \in ms /\ Admissible(m)
                    THEN [mail[m] EXCEPT !.run = r] ELSE mail[m]]

(* commit_producer_start: a start command that came meanwhile goes first. *)
CommitWake ==
    LET waiting == {m \in Mail : Waiting(m)}
        refused == wake.preempted \/ waiting = {}
    IN
    /\ Starting("commit") /\ hold.kind = "wake"
    /\ \/ /\ refused /\ GiveUp("error") /\ UNCHANGED <<runs, status, mail>>
       \/ /\ ~refused
          /\ runs' = Append(runs, NewRun(NoOne)) /\ status' = "running"
          /\ mail' = Admitted(waiting, Len(runs) + 1)
          /\ Inserting
    /\ UNCHANGED <<queue, mood, active, home, deferred, wake, clientVars, faults>>

InsertActive ==
    /\ Starting("insert")
    /\ active' = active \cup {hold.run}
    /\ hold' = [hold EXCEPT !.pc = "setup"]
    /\ UNCHANGED <<logVars, deferred, wake, home, clientVars, faults>>

(* The records before the run's first request, its input's last: the user
   acted, so failures count anew and a hold is over.  When one cannot be
   recorded the run is to end there, and its entry goes first. *)
SetUpRun ==
    /\ Starting("setup")
    /\ \/ /\ mood' = IF hold.kind = "start" THEN FreeMood ELSE mood
          /\ hold' = [hold EXCEPT !.pc = "launch"]
          /\ UNCHANGED <<active, faults>>
       \/ /\ Fault("fail") /\ active' = active \ {hold.run}
          /\ hold' = [hold EXCEPT !.pc = "failing"]
          /\ UNCHANGED mood
    /\ UNCHANGED <<runs, status, queue, mail, deferred, wake, home, clientVars>>

(* terminalize_run_setup_failure: its end follows. *)
FailSetUp ==
    LET r == hold.run IN
    /\ Starting("failing") /\ GiveUp("error")
    /\ runs' = [Finished(r, "failed") EXCEPT ![r].at = "done"]
    /\ status' = "failed" /\ queue' = QueueAfter("failed")
    /\ client' = GivenBack({r}) /\ mood' = MoodAfter(r, "failed")
    /\ UNCHANGED <<mail, active, deferred, wake, home, given, faults>>

(* The run's task is spawned, unless the run was ended meanwhile. *)
LaunchRun ==
    LET r == hold.run
        ended == runs[r].status = "cancelled"
    IN
    /\ Starting("launch") /\ GiveUp("ok")
    /\ active' = IF ended THEN active \ {r} ELSE active
    /\ runs' = [runs EXCEPT ![r].at = IF ended THEN "done" ELSE "top"]
    /\ UNCHANGED <<status, queue, mood, mail, deferred, wake, home, clientVars, faults>>

(* Mutant: the release of the reservation does not look at the producers. *)
MutantRelease ==
    /\ hold.pc = "release"
    /\ hold' = IF deferred = NoCommand THEN NoHold ELSE Start(deferred)
    /\ deferred' = NoCommand
    /\ IF hold.kind = "start" THEN Answered(hold.command, hold.result)
       ELSE UNCHANGED <<client, runs>>
    /\ UNCHANGED <<status, queue, mood, mail, active, home, given, faults>>
    /\ wake' = IF hold.kind = "wake"
               THEN [wake EXCEPT !.starting = FALSE, !.task = "clearing",
                                 !.ok = hold.result = "ok"]
               ELSE [wake EXCEPT !.starting = FALSE]

(* Mutant: the start kept for later is forgotten. *)
MutantReleaseForgets ==
    /\ hold.pc = "release"
    /\ hold' = NoHold /\ deferred' = NoCommand
    /\ IF hold.kind = "start" THEN Answered(hold.command, hold.result)
       ELSE UNCHANGED <<client, runs>>
    /\ UNCHANGED <<status, queue, mail, active, home, given, faults>>
    /\ Reconcile(mood, IF hold.kind = "wake"
                       THEN [wake EXCEPT !.starting = FALSE, !.task = "clearing",
                                         !.ok = hold.result = "ok"]
                       ELSE [wake EXCEPT !.starting = FALSE])

(* finish_compaction: the reservation is released and the start kept for
   later handled at once, then the first start is answered. *)
Release ==
    /\ hold.pc = "release"
    /\ hold' = IF deferred = NoCommand THEN NoHold ELSE Start(deferred)
    /\ deferred' = NoCommand
    /\ IF hold.kind = "start" THEN Answered(hold.command, hold.result)
       ELSE UNCHANGED <<client, runs>>
    /\ UNCHANGED <<status, queue, mail, active, home, given, faults>>
    /\ Reconcile(mood, IF hold.kind = "wake"
                       THEN [wake EXCEPT !.starting = FALSE, !.task = "clearing",
                                         !.ok = hold.result = "ok"]
                       ELSE [wake EXCEPT !.starting = FALSE])

(* A compaction by hand takes the reservation too. *)
Compact ==
    /\ Up /\ hold = NoHold /\ Fault("compact")
    /\ hold' = [NoHold EXCEPT !.kind = "compact", !.pc = "release"]
    /\ UNCHANGED <<logVars, active, home, deferred, wake, clientVars>>

-----------------------------------------------------------------------------
(* The wake's task. *)

(* begin_producer_wake.  It asks whether the session is free, not whether it
   is held. *)
BeginWake ==
    /\ wake.task = "scheduled"
    /\ UNCHANGED <<runs, status, queue, mail, active, home, deferred, clientVars, faults>>
    /\ IF status = "running" \/ active # {} \/ hold # NoHold
       THEN /\ UNCHANGED hold
            /\ Reconcile(mood, [wake EXCEPT !.scheduled = FALSE, !.task = "none"])
       ELSE /\ hold' = [NoHold EXCEPT !.kind = "wake", !.pc = "read"]
            /\ Reconcile(mood, [wake EXCEPT !.starting = TRUE, !.preempted = FALSE,
                                            !.task = "starting"])

(* The wake's last call: a wake that failed and was not preempted looks for
   no further messages. *)
ClearWake ==
    /\ wake.task = "clearing"
    /\ UNCHANGED <<runs, status, queue, mail, active, home, hold, deferred,
                   clientVars, faults>>
    /\ IF wake.ok \/ wake.preempted THEN Reconcile(mood, NoWake)
       ELSE wake' = NoWake /\ UNCHANGED mood

-----------------------------------------------------------------------------
(* The task of a run: run_loop and what follows it. *)

Goes(r, pc) == runs' = [runs EXCEPT ![r].at = pc]
(* RunFinished of a run, which the folds of the session read. *)
Finish(r, outcome) ==
    /\ runs' = [Finished(r, outcome) EXCEPT ![r].at = "ended"]
    /\ status' = outcome /\ queue' = QueueAfter(outcome)
    /\ client' = GivenBack({r})

(* release_active_run: a run about to end loses its entry first, so whoever
   sees it end finds the session idle.  Until its end is appended, by the next
   step of its task, the log says it is running. *)
Leaves(r, pc) ==
    /\ active' = active \ {r} /\ Goes(r, pc)
    /\ UNCHANGED <<status, queue, mood, mail, home, hold, deferred, wake, clientVars>>

(* append_run_end, through the actor: the task does not look whether the run
   was ended meanwhile. *)
EndFailed(r) ==
    /\ runs[r].at = "failing" /\ Finish(r, "failed")
    /\ UNCHANGED <<mail, active, home, hold, deferred, given, faults>>
    /\ Reconcile(MoodAfter(r, "failed"), wake)

(* commit_run_cancelled_once, in the run's task and not on the actor. *)
EndCancelled(r) ==
    /\ runs[r].at = "cancelling"
    /\ IF runs[r].status = "running"
       THEN Finish(r, "cancelled") /\ mood' = MoodAfter(r, "cancelled")
       ELSE Goes(r, "ended") /\ UNCHANGED <<status, queue, client, mood>>
    /\ UNCHANGED <<mail, engineVars, given, faults>>

(* The top of the loop. *)
Top(r) ==
    /\ runs[r].at = "top" /\ UNCHANGED faults
    /\ IF runs[r].tripped THEN Leaves(r, "cancelling")
       ELSE /\ Goes(r, "prompt")
            /\ UNCHANGED <<status, queue, mood, mail, engineVars, clientVars>>

(* The actor handles a run's PromotePendingInputs and PromotePendingOrComplete
   when nothing holds the session; one that came before a start is handled
   before it. *)
Handled(r) == r \in active /\ (hold = NoHold \/ Starting("read"))

(* promote_producer_inputs_direct: the messages that steer a running run. *)
Steering(r) ==
    {m \in Mail : /\ runs[r].status = "running" /\ Admissible(m)
                  /\ mail[m].mode = "steer" /\ mail[m].run # r}

(* PromotePendingInputs: the messages the request will hold are claimed. *)
HandlePrompt(r) ==
    LET promoted == Admitted(Steering(r), r) IN
    /\ runs[r].at = "prompt" /\ Handled(r)
    /\ mail' = [m \in Mail |->
                  IF promoted[m].st = "pending" /\ promoted[m].run = r
                  THEN [promoted[m] EXCEPT !.claims = @ \cup {r}] ELSE promoted[m]]
    /\ Goes(r, "turn")
    /\ UNCHANGED <<status, queue, active, home, hold, deferred, clientVars, faults>>
    /\ Reconcile(mood, wake)

(* stream_attempt: a committed turn consumes the messages of its request, even
   one discarded since; a turn that fails ends the run. *)
Turn(r) ==
    /\ runs[r].at = "turn"
    /\ \/ /\ mail' = [m \in Mail |-> IF r \in mail[m].claims
                                     THEN [mail[m] EXCEPT !.st = "consumed",
                                                          !.claims = @ \ {r}]
                                     ELSE mail[m]]
          /\ Goes(r, "committed")
          /\ UNCHANGED <<status, queue, active, home, hold, deferred, clientVars, faults>>
          /\ Reconcile(mood, wake)
       \/ runs[r].tripped /\ Leaves(r, "cancelling") /\ UNCHANGED faults
       \/ ~runs[r].tripped /\ Fault("fail") /\ Leaves(r, "failing")

(* The claim of a turn that was not committed is dropped and released by a
   task of its own. *)
ReleaseClaims(r) ==
    /\ Up /\ runs[r].at # "turn" /\ \E m \in Mail : r \in mail[m].claims
    /\ mail' = [m \in Mail |-> [mail[m] EXCEPT !.claims = @ \ {r}]]
    /\ UNCHANGED <<runs, status, queue, active, home, hold, deferred, clientVars, faults>>
    /\ Reconcile(mood, wake)

(* After a turn: its tools run (once in a run, here), or it was the last. *)
AfterTurn(r) ==
    /\ runs[r].at = "committed" /\ UNCHANGED faults
    /\ IF runs[r].tripped THEN Leaves(r, "cancelling")
       ELSE /\ \/ Goes(r, "complete")
               \/ /\ ~runs[r].usedTools
                  /\ runs' = [runs EXCEPT ![r].at = "tools", ![r].usedTools = TRUE]
            /\ UNCHANGED <<status, queue, mood, mail, engineVars, clientVars>>

(* The cancellation is looked at after the tools, not after the last turn. *)
CancelledInTools(r) ==
    /\ runs[r].at = "tools" /\ runs[r].tripped
    /\ Leaves(r, "cancelling") /\ UNCHANGED faults

SteeredInto(r) == {c \in Clients : client[c].pc = "pending" /\ client[c].run = r}
(* The pending inputs of a run become inputs of its next turn. *)
Submitted(r) ==
    /\ client' = [c \in Clients |-> IF c \in SteeredInto(r)
                                    THEN [client[c] EXCEPT !.pc = "done"] ELSE client[c]]
    /\ given' = [c \in Clients |-> IF c \in SteeredInto(r)
                                   THEN given[c] \cup {"steered"} ELSE given[c]]

(* Mutant: what came during the last turn is not looked for. *)
MutantHandleComplete(r) ==
    /\ runs[r].at \in {"complete", "tools"} /\ Handled(r)
    /\ UNCHANGED <<home, hold, deferred, faults>>
    /\ IF runs[r].at = "complete"
       THEN /\ active' = active \ {r} /\ Finish(r, "completed")
            /\ UNCHANGED <<mail, given>>
            /\ Reconcile(MoodAfter(r, "completed"), wake)
       ELSE /\ mail' = Admitted(Steering(r), r) /\ Submitted(r) /\ Goes(r, "top")
            /\ UNCHANGED <<status, queue, active>>
            /\ Reconcile(mood, wake)

(* PromotePendingOrComplete: a run completes only when nothing waits for it.
   Neither its cancellation nor its end is looked at here. *)
HandleComplete(r) ==
    LET promoted == Steering(r) # {} \/ SteeredInto(r) # {} IN
    /\ runs[r].at \in {"complete", "tools"} /\ Handled(r)
    /\ mail' = Admitted(Steering(r), r)
    /\ UNCHANGED <<home, hold, deferred, faults>>
    /\ IF promoted \/ runs[r].at = "tools"
       THEN /\ Submitted(r) /\ Goes(r, "top")
            /\ UNCHANGED <<status, queue, active>>
            /\ Reconcile(IF SteeredInto(r) # {} THEN FreeMood ELSE mood, wake)
       ELSE /\ active' = active \ {r} /\ Finish(r, "completed")
            /\ UNCHANGED given
            /\ Reconcile(MoodAfter(r, "completed"), wake)

(* run_loop returned: the ActiveRun is dropped. *)
RunTaskEnds(r) ==
    /\ runs[r].at = "ended"
    /\ active' = active \ {r}
    /\ runs' = [runs EXCEPT ![r].at = "drain", ![r].tripped = FALSE,
                            ![r].byUser = FALSE, ![r].usedTools = FALSE]
    /\ UNCHANGED <<status, queue, mail, home, hold, deferred, clientVars, faults>>
    /\ Reconcile(mood, wake)

(* drain_queued_input, in the run's task: the queue's head is read, and asked
   to be started. *)
Drain(r) ==
    /\ runs[r].at = "drain"
    /\ IF status = "running" \/ queue = <<>> THEN Goes(r, "done")
       ELSE runs' = [runs EXCEPT ![r].at = "ask", ![r].head = Head(queue)]
    /\ UNCHANGED <<status, queue, mood, mail, engineVars, clientVars, faults>>

(* A plugin took the head: it leaves the queue.  Nothing could start it: the
   queue is given back. *)
AfterRefusal(r) ==
    /\ \/ /\ runs[r].at = "dropHead"
          /\ queue' = Without(queue, runs[r].head)
       \/ runs[r].at = "void" /\ queue' = <<>>
    /\ runs' = [runs EXCEPT ![r].at = "drain", ![r].head = NoOne]
    /\ UNCHANGED <<status, mood, mail, engineVars, clientVars, faults>>

RunTask(r) ==
    \/ Top(r) \/ HandlePrompt(r) \/ Turn(r) \/ AfterTurn(r) \/ CancelledInTools(r)
    \/ HandleComplete(r) \/ EndFailed(r) \/ EndCancelled(r) \/ RunTaskEnds(r)
    \/ Drain(r) \/ AfterRefusal(r)

-----------------------------------------------------------------------------
(* Clients: session.submit_input, run.start, session.recall_input, run.cancel
   and session.held.resume. *)

SetClient(c, pc) == client' = [client EXCEPT ![c].pc = pc, ![c].run = 0]

Submit(c, way) ==
    /\ Up /\ client[c].pc = "idle" /\ way \in Ways
    /\ client' = [client EXCEPT ![c].way = way,
                      ![c].pc = IF way = "start" THEN "ask" ELSE "submit"]
    /\ UNCHANGED <<logVars, engineVars, given, faults>>

(* submit_input: it waits for the reservation, and asks for a start unless a
   run is running. *)
Route(c) ==
    /\ client[c].pc = "submit" /\ hold = NoHold
    /\ \/ /\ RunningRuns = {} /\ SetClient(c, "ask")
       \/ \E r \in RunningRuns :
             client' = [client EXCEPT ![c].pc = "deliver", ![c].run = r]
    /\ UNCHANGED <<logVars, engineVars, given, faults>>

Delivering(c, way) == client[c].pc = "deliver" /\ client[c].way = way

(* steer: a run that ended meanwhile makes the input a start. *)
Steer(c) ==
    LET r == client[c].run
        taken == r \in active /\ runs[r].status = "running"
    IN
    /\ Delivering(c, "steer")
    /\ \/ /\ taken /\ client' = [client EXCEPT ![c].pc = "pending"]
          /\ UNCHANGED faults
       \/ ~taken /\ SetClient(c, "ask") /\ UNCHANGED faults
       \/ Fault("handled") /\ SetClient(c, "done")
    /\ UNCHANGED <<runs, status, queue, mail, active, home, hold, deferred, given>>
    /\ Reconcile(mood, wake)

(* queue_input *)
QueueInput(c) ==
    /\ Delivering(c, "queue")
    /\ \/ /\ RunningRuns # {} /\ queue' = Append(queue, c) /\ SetClient(c, "done")
       \/ RunningRuns = {} /\ SetClient(c, "ask") /\ UNCHANGED queue
    /\ UNCHANGED <<runs, status, mail, active, home, hold, deferred, given, faults>>
    /\ Reconcile(mood, wake)

ClientStep(c) == Route(c) \/ Steer(c) \/ QueueInput(c)

Queued(c) == c \in {queue[i] : i \in DOMAIN queue}

(* recall_input: a client takes back an input that waits for a run. *)
Recall(c) ==
    /\ Up /\ Fault("recall")
    /\ \/ /\ client[c].pc = "pending" /\ runs[client[c].run].status = "running"
          /\ client' = [client EXCEPT ![c].pc = "done"] /\ UNCHANGED queue
       \/ /\ Queued(c) /\ queue' = Without(queue, c)
          /\ UNCHANGED client
    /\ given' = [given EXCEPT ![c] = @ \cup {"recalled"}]
    /\ UNCHANGED <<runs, status, mail, active, home, hold, deferred>>
    /\ Reconcile(mood, wake)

(* cancel_run *)
Cancel(r) ==
    /\ r \in active /\ Fault("cancel")
    /\ runs' = [runs EXCEPT ![r].tripped = TRUE, ![r].byUser = TRUE]
    /\ UNCHANGED <<status, queue, mail, active, home, hold, deferred, clientVars>>
    /\ Reconcile(mood, wake)

(* resume_held_session *)
ResumeHeld ==
    /\ Up /\ mood.held /\ "resume" \in Faults
    /\ UNCHANGED <<runs, status, queue, mail, active, home, hold, deferred, clientVars, faults>>
    /\ Reconcile(FreeMood, wake)

(* cancel_run_durably, by another task of the engine: the run keeps its entry
   and its task. *)
Stop(r) ==
    /\ Up /\ runs[r].status = "running" /\ Fault("stop")
    /\ runs' = [Finished(r, "cancelled") EXCEPT
                    ![r].tripped = (r \in active) \/ @]
    /\ status' = "cancelled" /\ queue' = QueueAfter("cancelled")
    /\ client' = GivenBack({r}) /\ mood' = MoodAfter(r, "cancelled")
    /\ UNCHANGED <<mail, engineVars, given>>

-----------------------------------------------------------------------------
(* Producers. *)

(* accept_producer_direct *)
Accept(m, mode) ==
    /\ Up /\ mail[m].st = "none" /\ mode \in Modes
    /\ mail' = [mail EXCEPT ![m].st = "pending", ![m].mode = mode]
    /\ UNCHANGED <<runs, status, queue, active, home, hold, deferred, clientVars, faults>>
    /\ Reconcile(mood, wake)

(* Mutant: a message a request holds can be taken back. *)
MutantDiscard(m) ==
    /\ Up /\ Waiting(m) /\ Fault("discard")
    /\ mail' = [mail EXCEPT ![m].st = "discarded"]
    /\ UNCHANGED <<runs, status, queue, active, home, hold, deferred, clientVars>>
    /\ Reconcile(mood, wake)

(* discard_producer_message_direct *)
Discard(m) ==
    /\ Up /\ Waiting(m) /\ mail[m].claims = {} /\ Fault("discard")
    /\ mail' = [mail EXCEPT ![m].st = "discarded"]
    /\ UNCHANGED <<runs, status, queue, active, home, hold, deferred, clientVars>>
    /\ Reconcile(mood, wake)

-----------------------------------------------------------------------------
(* A restart of the daemon.  What the engine kept in memory is gone, and so
   are its tasks and the calls of its clients; the log stays. *)

Crash ==
    /\ home # "lost" /\ Fault("crash") /\ home' = "lost"
    /\ runs' = [r \in Runs |-> [runs[r] EXCEPT !.at = "done", !.tripped = FALSE,
                    !.byUser = FALSE, !.usedTools = FALSE, !.head = NoOne]]
    /\ active' = {} /\ hold' = NoHold /\ deferred' = NoCommand /\ wake' = NoWake
    /\ client' = [c \in Clients |->
                     IF client[c].pc \in {"submit", "deliver", "ask", "await"}
                     THEN [client[c] EXCEPT !.pc = "done", !.run = 0] ELSE client[c]]
    /\ UNCHANGED <<status, queue, mood, mail, given>>

(* ensure_session_owned: the first command adopts the session, and what its
   log leaves open is closed before the actor takes the command: the claims
   of producer messages first, then the runs (reconcile_session_with).  A
   daemon that dies between the two leaves the rest to the next. *)
Adopt ==
    /\ home = "lost" /\ home' = "adopting"
    /\ mail' = [m \in Mail |-> [mail[m] EXCEPT !.claims = {}]]
    /\ UNCHANGED <<runs, status, queue, mood, active, hold, deferred, wake,
                   clientVars, faults>>

(* Mutant: the runs the log leaves open are not closed. *)
MutantCloseRuns ==
    /\ home = "adopting" /\ home' = "adopted"
    /\ UNCHANGED <<logVars, active, hold, deferred, wake, clientVars, faults>>

CloseRuns ==
    LET open == RunningRuns IN
    /\ home = "adopting" /\ home' = "adopted"
    /\ runs' = [r \in Runs |-> IF r \in open THEN Finished(r, "interrupted")[r]
                               ELSE runs[r]]
    /\ status' = IF open = {} THEN status ELSE "interrupted"
    /\ queue' = IF open = {} THEN queue ELSE QueueAfter("interrupted")
    /\ client' = GivenBack(open)
    /\ UNCHANGED <<mood, mail, active, hold, deferred, wake, given, faults>>

(* Mutant: the queue is left to the end of the session's next run. *)
MutantResume ==
    /\ home = "adopted" /\ hold = NoHold /\ home' = "owned"
    /\ UNCHANGED <<runs, status, queue, mail, active, hold, deferred, clientVars,
                   faults>>
    /\ Reconcile(mood, wake)

(* resume, of the client that opens the session again: the actor looks for
   messages, and the queue is drained by the request's own task, which stands
   in the place of a run's that is over. *)
Resume ==
    LET over == {r \in Runs : runs[r].at = "done"} IN
    /\ home = "adopted" /\ hold = NoHold /\ home' = "owned"
    /\ runs' = IF over = {} THEN runs
               ELSE [runs EXCEPT ![CHOOSE r \in over : TRUE].at = "drain"]
    /\ UNCHANGED <<status, queue, mail, active, hold, deferred, clientVars, faults>>
    /\ Reconcile(mood, wake)

Reopen == Adopt \/ CloseRuns \/ Resume

-----------------------------------------------------------------------------
StartTask == ReadSession \/ PrepareStart \/ CommitStart \/ CommitWake
             \/ InsertActive \/ SetUpRun \/ FailSetUp \/ LaunchRun \/ Release
WakeTask == BeginWake \/ ClearWake

Next ==
    \/ \E cmd \in Asked : HandleStart(cmd)
    \/ StartTask \/ WakeTask \/ Compact \/ ResumeHeld \/ Crash \/ Reopen
    \/ \E r \in Runs : RunTask(r) \/ ReleaseClaims(r) \/ Cancel(r) \/ Stop(r)
    \/ \E c \in Clients : ClientStep(c) \/ Recall(c)
    \/ \E c \in Clients, way \in Ways : Submit(c, way)
    \/ \E m \in Mail, mode \in Modes : Accept(m, mode)
    \/ \E m \in Mail : Discard(m)

Spec == Init /\ [][Next]_vars

(* Tasks and the actor go on, and a session is opened again after a restart;
   inputs, messages and faults need not come. *)
Fairness ==
    /\ WF_vars(\E cmd \in Asked : HandleStart(cmd))
    /\ WF_vars(StartTask) /\ WF_vars(WakeTask) /\ WF_vars(Reopen)
    /\ WF_vars(\E r \in Runs : RunTask(r))
    /\ WF_vars(\E r \in Runs : ReleaseClaims(r))
    /\ \A c \in Clients : WF_vars(ClientStep(c))

FairSpec == Spec /\ Fairness

-----------------------------------------------------------------------------
(* Properties *)

Driven(r) ==
    runs[r].at \in {"top", "prompt", "turn", "committed", "tools", "complete",
                    "failing", "cancelling"}

(* A session has one run at a time: the client's start, the start of a queued
   input and the producers' wake look at a projection that is older than
   their RunStarted, and only the reservation keeps them apart
   (mailbox.rs reserve_compaction, model_loop.rs start_run_direct). *)
OneRunAtWork == Cardinality(RunningRuns \cup {r \in Runs : Driven(r)}) <= 1

(* A run the log says is running has a task or a start that will end it: a
   session without one refuses every later start and wakes for no message.
   Its entry says less: it is gone before the end is in the log.  A start that
   fails after RunStarted must end its run, and so must the daemon that adopts
   the session after a restart (release_active_run,
   terminalize_run_setup_failure, reconcile_session_with). *)
RunningIsDriven ==
    Up => \A r \in RunningRuns :
              Driven(r) \/ (hold.run = r /\ hold.pc # "release")

(* An input steered into a run that completed was taken by a turn of the run
   or given back to the client who recalled it: none arrives between the last
   look at the inputs and the completion (promote_pending_or_complete_direct). *)
CompletedTookItsInput ==
    \A c \in Clients :
        (client[c].pc = "done" /\ client[c].run # 0
            /\ runs[client[c].run].status = "completed")
        => given[c] \cap {"steered", "recalled"} # {}

(* A message its producer took back is never consumed: no turn is committed
   that read it.  What a request still holds cannot be discarded; the claims of
   a request that came to nothing are dropped, and its messages may be
   discarded although they were sent (discard_producer_message_direct,
   ClaimedPrompt::drop, the fold of ModelTurnCommitted). *)
DiscardedStaysUnread ==
    [][\A m \in Mail : mail[m].st = "discarded" => mail'[m].st = "discarded"]_vars

(* No input is taken twice, by a run of its own and as a steer of another or
   by two runs, and none steered that was recalled: retries of a submission
   and the drains of two ended runs may ask for the same start (submit_input,
   drain_queued_input, start_run_direct's look for its client_run_id). *)
TakenOnce ==
    \A c \in Clients :
        /\ "steered" \in given[c] => given[c] = {"steered"}
        /\ Cardinality({r \in Runs : runs[r].from = c}) <= 1

(* While a session is held nothing starts a run on its own
   (begin_producer_wake against after_runs). *)
HeldStartsNothing ==
    [][mood.held /\ Len(runs') > Len(runs) => runs'[Len(runs')].from # NoOne]_vars

(* A queued input leaves the queue: started, recalled or given back
   (drain_queued_input). *)
QueueMoves == \A c \in Clients : Queued(c) ~> ~Queued(c)

(* An accepted message is read by the model, taken back or waits in a held
   session (reconcile_producers_direct, begin_producer_wake). *)
MailIsTaken ==
    \A m \in Mail : Waiting(m) ~> (~Waiting(m) \/ mood.held)

(* Every submission is answered, and an input admitted to a run is taken or
   given back (release_compaction_direct, submit_input). *)
InputIsSettled ==
    \A c \in Clients : client[c].pc # "idle" ~> client[c].pc = "done"

=============================================================================
