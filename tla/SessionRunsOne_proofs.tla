------------------------ MODULE SessionRunsOne_proofs ------------------------
(***************************************************************************)
(* What becomes of a session's runs, for any number of clients, messages,  *)
(* runs and restarts: a run the log says is running has a task or a start  *)
(* that will end it (RunningHasADriver); a daemon that is down has nothing *)
(* at work (NothingRunsWhileDown); and, where no run is ended from outside *)
(* its task, one run is at work at a time (OneRunAtATime).                 *)
(***************************************************************************)
EXTENDS SessionRunsType_proofs, FiniteSetTheorems

(* Where the task of a run is while it works on the run, and once it left it. *)
AtWork == {"top", "prompt", "turn", "committed", "tools", "complete", "failing",
           "cancelling"}
Left == {"ended", "drain", "ask", "await", "dropHead", "void"}

(* A run that is running has a task at work, or the start that committed it. *)
RunningHasATask ==
    Up => \A r \in RunningRuns :
              Driven(r) \/ (hold.run = r /\ hold.pc \in Committed)
(* The task of a run leaves its loop after the log says that the run ended. *)
LeftIsOver == \A r \in Runs : runs[r].at \in Left => runs[r].status # "running"
(* So a run whose task asks for a start is over. *)
Over(cmd) == cmd.by # 0 => cmd.by \in Runs /\ runs[cmd.by].status # "running"
DrivenInv == /\ RunningHasATask /\ LeftIsOver
             /\ Over(hold.command) /\ Over(deferred)

(* The step keeps what the reservation's task works on, and asks for nothing
   new on behalf of a run that is not over. *)
StartGoesOn ==
    hold.pc \in Committed => hold'.pc \in Committed /\ hold'.run = hold.run
CommandsStay == Over(hold'.command) /\ Over(deferred')

LEMMA HoldStays ==
    ASSUME DrivenInv, UNCHANGED <<hold, deferred>>
    PROVE  StartGoesOn /\ CommandsStay
  BY DEF DrivenInv, StartGoesOn, CommandsStay

(* The log is unchanged. *)
LEMMA DrivenUnchanged ==
    ASSUME DrivenInv, runs' = runs, home' = home, StartGoesOn, CommandsStay
    PROVE  DrivenInv'
  BY DEF DrivenInv, RunningHasATask, LeftIsOver, Over, StartGoesOn, CommandsStay,
         RunningRuns, Runs, Driven, Up

(* One run changes: a task that works on it may leave it only when it is not
   running. *)
LEMMA DrivenRunStep ==
    ASSUME DrivenInv, NEW r \in Runs, NEW o, NEW pc, NEW h,
           RunBecomes(r, o, pc, h), home' = home, CommandsStay,
           StartGoesOn \/ hold.run = r,
           o = "running" =>
               /\ runs[r].status = "running"
               /\ pc \in AtWork \/ (runs[r].at \notin AtWork /\ StartGoesOn),
           pc \in Left => o # "running"
    PROVE  DrivenInv'
<1>1. \A j \in Runs : j # r => runs'[j] = runs[j]
  BY DEF RunBecomes
<1>2. Runs' = Runs /\ runs'[r].status = o /\ runs'[r].at = pc
  BY DEF RunBecomes
<1>3. RunningHasATask'
  <2> SUFFICES ASSUME Up, NEW j \in Runs, runs'[j].status = "running"
               PROVE  \/ runs'[j].at \in AtWork
                      \/ hold'.run = j /\ hold'.pc \in Committed
    BY <1>2 DEF RunningHasATask, RunningRuns, Up, Driven, AtWork
  <2>1. j \in RunningRuns
    BY <1>1, <1>2 DEF RunningRuns
  <2>2. runs[j].at \in AtWork \/ (hold.run = j /\ hold.pc \in Committed)
    BY <2>1 DEF DrivenInv, RunningHasATask, Driven, AtWork
  <2>3. CASE j # r
    BY <1>1, <2>2, <2>3 DEF StartGoesOn
  <2>4. CASE j = r
    BY <1>2, <2>2, <2>4 DEF StartGoesOn
  <2>5. QED
    BY <2>3, <2>4
<1>4. LeftIsOver'
  BY <1>1, <1>2 DEF DrivenInv, LeftIsOver
<1>5. \A cmd : Over(cmd) /\ cmd.by # 0
              => cmd.by \in Runs' /\ runs'[cmd.by].status # "running"
  BY <1>1, <1>2 DEF Over
<1>6. Over(hold.command)' /\ Over(deferred)'
  BY <1>5 DEF Over, CommandsStay
<1>7. QED
  BY <1>3, <1>4, <1>6 DEF DrivenInv

(* A start command is handled or answered. *)
LEMMA DrivenStart ==
    ASSUME TypeInv, DrivenInv, NEW cmd \in Asked, HandleStart(cmd)
    PROVE  DrivenInv'
<1>1. cmd \in Commands
  BY AskedType DEF TypeInv
<1>2. cmd.by = 0 \/ (cmd.by \in Runs /\ runs[cmd.by].at = "ask")
  BY AskedType DEF TypeInv
<1>3. Over(cmd) /\ (cmd.by \in Runs /\ cmd.by # 0 => runs[cmd.by].status # "running")
  BY <1>2 DEF DrivenInv, LeftIsOver, Left, Over
<1>4. home' = home /\ StartGoesOn /\ CommandsStay
  <2>1. hold' = hold \/ (hold.pc = "none" /\ hold'.command = cmd)
    <3>1. NoHold.pc = "none" /\ Start(cmd).command = cmd
      BY DEF Start, NoHold
    <3>2. hold' = hold \/ (hold = NoHold /\ hold' = Start(cmd))
      BY DEF HandleStart
    <3>3. QED
      BY <3>1, <3>2
  <2>2. deferred' \in {deferred, cmd} /\ home' = home
    BY DEF HandleStart
  <2>3. QED
    BY <1>3, <2>1, <2>2 DEF DrivenInv, StartGoesOn, CommandsStay, Committed
<1>5. ASSUME cmd.by \in Runs, NEW pc, NEW h, cmd.by # 0,
             RunBecomes(cmd.by, runs[cmd.by].status, pc, h)
      PROVE  DrivenInv'
  BY <1>3, <1>4, <1>5, DrivenRunStep
<1>6. CASE Taken(cmd)
  <2>1. CASE cmd.by = 0
    BY <1>4, <1>6, <2>1, DrivenUnchanged DEF Taken
  <2>2. CASE cmd.by # 0
    <3>1. cmd.by \in Runs /\ Goes(cmd.by, "await")
      BY <1>2, <1>6, <2>2 DEF Taken, Goes
    <3>2. RunBecomes(cmd.by, runs[cmd.by].status, "await", runs[cmd.by].head)
      BY <3>1, GoesOn DEF RunSteps, TypeInv
    <3>3. QED
      BY <1>5, <2>2, <3>1, <3>2
  <2>3. QED
    BY <2>1, <2>2
<1>7. CASE Answered(cmd, "running")
  <2>1. runs' = TaskAnswered(cmd, "running") /\ "running" \in Results
    BY <1>7 DEF Answered, Results
  <2>2. \/ runs' = runs
        \/ /\ cmd.by \in Runs
           /\ \E pc \in {"dropHead", "void", "done"}, h \in {NoOne, runs[cmd.by].head} :
                 RunBecomes(cmd.by, runs[cmd.by].status, pc, h)
    BY <1>1, <2>1, AnswerMoves DEF TypeInv
  <2>3. 0 \notin Runs
    BY DEF TypeInv, TypeOK, Runs
  <2>4. QED
    BY <1>4, <1>5, <2>2, <2>3, DrivenUnchanged
<1>8. QED
  BY <1>6, <1>7 DEF HandleStart

(* The task that holds the reservation. *)
LEMMA DrivenReservation ==
    ASSUME TypeInv, DrivenInv, StartTask
    PROVE  DrivenInv'
<1> USE DEF TypeInv
<1>1. hold \in Holds
  BY DEF TypeOK
<1>2. ASSUME hold'.command = hold.command, deferred' = deferred
      PROVE  CommandsStay
  BY <1>2 DEF DrivenInv, CommandsStay
<1>3. ASSUME NEW result, GiveUp(result)
      PROVE  hold'.command = hold.command
  BY <1>1, <1>3 DEF GiveUp, Holds
<1>4. CASE ReadSession
  <2>1. hold'.command = hold.command
    BY <1>1, <1>4 DEF ReadSession, Holds
  <2>2. /\ runs' = runs /\ home' = home /\ deferred' = deferred
        /\ hold.pc \notin Committed
    BY <1>4 DEF ReadSession, Starting, logVars, Committed
  <2>3. QED
    BY <1>2, <2>1, <2>2, DrivenUnchanged DEF StartGoesOn
<1>5. CASE PrepareStart
  <2>1. hold'.command = hold.command
    BY <1>1, <1>3, <1>5 DEF PrepareStart, Holds
  <2>2. /\ runs' = runs /\ home' = home /\ deferred' = deferred
        /\ hold.pc \notin Committed
    BY <1>5 DEF PrepareStart, Starting, logVars, Committed
  <2>3. QED
    BY <1>2, <2>1, <2>2, DrivenUnchanged DEF StartGoesOn
<1>6. ASSUME NEW from \in Clients \cup {NoOne}, RunAdded(from), Inserting,
             deferred' = deferred, home' = home, Starting("commit")
      PROVE  DrivenInv'
  <2>1. hold'.run = Len(runs) + 1 /\ hold'.pc \in Committed
        /\ hold'.command = hold.command
    BY <1>1, <1>6 DEF Inserting, Holds, Committed
  <2>2. /\ Runs' = Runs \cup {Len(runs) + 1} /\ \A j \in Runs : runs'[j] = runs[j]
        /\ runs'[Len(runs) + 1].at = "none"
    BY <1>6 DEF RunAdded, NewRun
  <2>3. hold.pc \notin Committed
    BY <1>6 DEF Starting, Committed
  <2>4. RunningHasATask'
    BY <1>6, <2>1, <2>2, <2>3 DEF DrivenInv, RunningHasATask, RunningRuns, Driven, Up
  <2>5. LeftIsOver'
    BY <2>2 DEF DrivenInv, LeftIsOver, Left
  <2>6. Over(hold.command)' /\ Over(deferred)'
    BY <1>6, <2>1, <2>2 DEF DrivenInv, Over
  <2>7. QED
    BY <2>4, <2>5, <2>6 DEF DrivenInv
<1>7. CASE CommitStart
  <2>1. hold.command.input \in Clients \cup {NoOne}
    BY <1>1 DEF Holds, Commands
  <2>2. RunAdded(hold.command.input)
    BY <1>7, <2>1, AppendAdds DEF CommitStart
  <2>3. QED
    BY <1>6, <1>7, <2>1, <2>2 DEF CommitStart
<1>8. CASE CommitWake
  <2>1. CASE runs' = runs /\ GiveUp("error")
    <3>1. home' = home /\ deferred' = deferred /\ hold.pc \notin Committed
      BY <1>8 DEF CommitWake, Starting, Committed
    <3>2. QED
      BY <1>2, <1>3, <2>1, <3>1, DrivenUnchanged DEF StartGoesOn
  <2>2. CASE runs' = Append(runs, NewRun(NoOne)) /\ Inserting
    BY <1>6, <1>8, <2>2, AppendAdds DEF CommitWake
  <2>3. QED
    BY <1>8, <2>1, <2>2 DEF CommitWake
<1>9. CASE InsertActive \/ SetUpRun
  <2>1. runs' = runs /\ home' = home /\ deferred' = deferred
    BY <1>9 DEF InsertActive, SetUpRun, logVars
  <2>2. \E pc \in Committed : hold' = [hold EXCEPT !.pc = pc]
    BY <1>9 DEF InsertActive, SetUpRun, Committed
  <2>3. hold'.pc \in Committed /\ hold'.run = hold.run /\ hold'.command = hold.command
    BY <1>1, <2>2 DEF Holds
  <2>4. QED
    BY <1>2, <2>1, <2>3, DrivenUnchanged DEF StartGoesOn
<1>10. CASE FailSetUp
  <2> DEFINE r == hold.run
  <2>1. r \in Runs /\ home' = home /\ deferred' = deferred /\ GiveUp("error")
    BY <1>10 DEF HoldsARun, Committed, FailSetUp, Starting
  <2>2. RunBecomes(r, "failed", "done", runs[r].head)
    BY <1>10, <2>1, FinishedIs DEF FailSetUp, RunSteps
  <2>3. QED
    BY <1>2, <1>3, <2>1, <2>2, DrivenRunStep
<1>11. CASE LaunchRun
  <2> DEFINE r == hold.run
             ended == runs[r].status = "cancelled"
             pc == IF ended THEN "done" ELSE "top"
  <2>1. r \in Runs /\ home' = home /\ deferred' = deferred /\ GiveUp("ok")
    BY <1>11 DEF HoldsARun, Committed, LaunchRun, Starting
  <2>2. Goes(r, pc)
    BY <1>11 DEF LaunchRun, Goes
  <2>3. RunBecomes(r, runs[r].status, pc, runs[r].head)
    BY <2>1, <2>2, GoesOn DEF RunSteps
  <2>4. pc \notin Left /\ (runs[r].status = "running" => pc \in AtWork)
    BY DEF Left, AtWork
  <2>5. QED
    BY <1>2, <1>3, <2>1, <2>3, <2>4, DrivenRunStep
<1>12. CASE Release
  <2>1. home' = home /\ hold.pc \notin Committed
    BY <1>12 DEF Release, Committed
  <2>2. StartGoesOn /\ CommandsStay
    <3>1. deferred' = NoCommand /\ hold'.command \in {NoCommand, deferred}
      BY <1>12 DEF Release, Start, NoHold
    <3>2. Over(NoCommand)
      BY DEF Over, NoCommand
    <3>3. QED
      BY <2>1, <3>1, <3>2 DEF DrivenInv, StartGoesOn, CommandsStay
  <2>3. CASE runs' = runs
    BY <2>1, <2>2, <2>3, DrivenUnchanged
  <2>4. CASE runs' = TaskAnswered(hold.command, hold.result)
    <3>1. hold.command \in Commands /\ hold.result \in Results
      BY <1>1 DEF Holds
    <3>2. \/ runs' = runs
          \/ /\ hold.command.by \in Runs
             /\ \E pc \in {"dropHead", "void", "done"},
                   h \in {NoOne, runs[hold.command.by].head} :
                   RunBecomes(hold.command.by, runs[hold.command.by].status, pc, h)
      BY <2>4, <3>1, AnswerMoves
    <3>3. hold.command.by \in Runs => runs[hold.command.by].status # "running"
      BY DEF DrivenInv, Over, TypeOK, Runs
    <3>4. QED
      BY <2>1, <2>2, <2>3, <3>2, <3>3, DrivenRunStep
  <2>5. QED
    BY <1>12, <2>3, <2>4 DEF Release, Answered
<1>13. QED
  BY <1>4, <1>5, <1>7, <1>8, <1>9, <1>10, <1>11, <1>12 DEF StartTask

(* A run's task: it leaves the run only with the end of the run. *)
LEMMA DrivenTask ==
    ASSUME TypeInv, DrivenInv, NEW r \in Runs, RunTask(r)
    PROVE  DrivenInv'
<1> USE DEF TypeInv
<1>1. UNCHANGED <<hold, deferred, home>>
  BY DEF RunTask, Top, HandlePrompt, Turn, AfterTurn, CancelledInTools, Leaves,
         HandleComplete, EndFailed, EndCancelled, RunTaskEnds, Drain, AfterRefusal,
         engineVars
<1>2. StartGoesOn /\ CommandsStay
  BY <1>1, HoldStays
<1>3. ASSUME NEW pc \in AtWork, NEW h, RunBecomes(r, runs[r].status, pc, h)
      PROVE  DrivenInv'
  <2>1. pc \notin Left
    BY <1>3 DEF AtWork, Left
  <2>2. QED
    BY <1>1, <1>2, <1>3, <2>1, DrivenRunStep
<1>4. ASSUME NEW o \in {"completed", "failed", "cancelled"}, Finish(r, o)
      PROVE  DrivenInv'
  <2>1. RunBecomes(r, o, "ended", runs[r].head) /\ o # "running"
    BY <1>4, FinishType
  <2>2. QED
    BY <1>1, <1>2, <2>1, DrivenRunStep
<1>5. ASSUME runs[r].at \in Left, NEW pc, NEW h, RunBecomes(r, runs[r].status, pc, h)
      PROVE  DrivenInv'
  <2>1. runs[r].status # "running"
    BY <1>5 DEF DrivenInv, LeftIsOver
  <2>2. QED
    BY <1>1, <1>2, <1>5, <2>1, DrivenRunStep
<1>6. ASSUME NEW pc \in {"failing", "cancelling"}, Leaves(r, pc)
      PROVE  DrivenInv'
  BY <1>3, <1>6, LeavesType DEF AtWork
<1>7. ASSUME NEW pc \in AtWork, Goes(r, pc)
      PROVE  DrivenInv'
  <2>1. pc \in RunSteps
    BY DEF AtWork, RunSteps
  <2>2. QED
    BY <1>3, <1>7, <2>1, GoesOn
<1>8. CASE Top(r) \/ CancelledInTools(r)
  BY <1>6, <1>7, <1>8 DEF Top, CancelledInTools, AtWork
<1>9. CASE AfterTurn(r)
  <2>1. CASE runs' = [runs EXCEPT ![r].at = "tools", ![r].usedTools = TRUE]
    BY <1>3, <2>1, ToolsUsed DEF RunSteps, AtWork
  <2>2. QED
    BY <1>6, <1>7, <1>9, <2>1 DEF AfterTurn, AtWork
<1>10. CASE HandlePrompt(r) \/ Turn(r)
  BY <1>6, <1>7, <1>10 DEF HandlePrompt, Turn, AtWork
<1>11. CASE HandleComplete(r)
  BY <1>4, <1>7, <1>11 DEF HandleComplete, AtWork
<1>12. CASE EndFailed(r)
  BY <1>4, <1>12 DEF EndFailed
<1>13. CASE EndCancelled(r)
  <2>1. PICK o : RunBecomes(r, o, "ended", runs[r].head) /\ o # "running"
    BY <1>13, EndCancelledType
  <2>2. QED
    BY <1>1, <1>2, <2>1, DrivenRunStep
<1>14. CASE RunTaskEnds(r)
  BY <1>5, <1>14, TaskEnds DEF RunTaskEnds, Left
<1>15. CASE Drain(r)
  <2>1. runs[r].at \in Left
    BY <1>15 DEF Drain, Left
  <2>2. CASE Goes(r, "done")
    BY <1>5, <2>1, <2>2, GoesOn DEF RunSteps
  <2>3. CASE queue # <<>>
             /\ runs' = [runs EXCEPT ![r].at = "ask", ![r].head = Head(queue)]
    <3>1. Head(queue) \in Clients \cup {NoOne}
      BY <2>3 DEF TypeOK
    <3>2. QED
      BY <1>5, <2>1, <2>3, <3>1, HeadChanges DEF RunSteps
  <2>4. QED
    BY <1>15, <2>2, <2>3 DEF Drain
<1>16. CASE AfterRefusal(r)
  <2>1. RunBecomes(r, runs[r].status, "drain", NoOne)
    BY <1>16, HeadChanges DEF AfterRefusal, RunSteps
  <2>2. QED
    BY <1>5, <1>16, <2>1 DEF AfterRefusal, Left
<1>17. QED
  BY <1>8, <1>9, <1>10, <1>11, <1>12, <1>13, <1>14, <1>15, <1>16 DEF RunTask

(* Every step keeps the running runs driven. *)
LEMMA DrivenNext ==
    ASSUME TypeInv, DrivenInv, [Next]_vars
    PROVE  DrivenInv'
<1> USE DEF TypeInv
<1>1. CASE UNCHANGED vars
  BY <1>1, HoldStays, DrivenUnchanged DEF vars, logVars, engineVars
<1>2. CASE \E cmd \in Asked : HandleStart(cmd)
  BY <1>2, DrivenStart
<1>3. CASE StartTask
  BY <1>3, DrivenReservation
<1>4. CASE WakeTask \/ Compact \/ ResumeHeld
  <2>1. hold' = hold \/ (hold.pc = "none" /\ hold'.command = NoCommand)
    <3>1. /\ NoHold.pc = "none"
          /\ [NoHold EXCEPT !.kind = "compact", !.pc = "release"].command = NoCommand
          /\ [NoHold EXCEPT !.kind = "wake", !.pc = "read"].command = NoCommand
      BY DEF NoHold
    <3>2. \/ hold' = hold
          \/ /\ hold = NoHold
             /\ hold' \in {[NoHold EXCEPT !.kind = "compact", !.pc = "release"],
                          [NoHold EXCEPT !.kind = "wake", !.pc = "read"]}
      BY <1>4 DEF WakeTask, BeginWake, ClearWake, Compact, ResumeHeld
    <3>3. QED
      BY <3>1, <3>2
  <2>2. runs' = runs /\ deferred' = deferred /\ home' = home
    BY <1>4 DEF WakeTask, BeginWake, ClearWake, Compact, ResumeHeld, logVars
  <2>3. Over(NoCommand)
    BY DEF Over, NoCommand
  <2>4. StartGoesOn /\ CommandsStay
    BY <2>1, <2>2, <2>3 DEF DrivenInv, StartGoesOn, CommandsStay, Committed
  <2>5. QED
    BY <2>2, <2>4, DrivenUnchanged
<1>5. CASE Crash
  <2>1. /\ home' = "lost" /\ Runs' = Runs /\ \A r \in Runs : runs'[r].at = "done"
        /\ hold'.command.by = 0 /\ deferred'.by = 0
    BY <1>5, CrashRuns DEF Crash, NoHold, NoCommand
  <2>2. QED
    BY <2>1 DEF DrivenInv, RunningHasATask, LeftIsOver, Left, Over, Up
<1>6. CASE Adopt
  BY <1>6 DEF Adopt, DrivenInv, RunningHasATask, LeftIsOver, Over, Up, Runs
<1>7. CASE CloseRuns
  <2>1. /\ Runs' = Runs
        /\ \A r \in Runs : /\ runs'[r].status = IF r \in RunningRuns
                                    THEN "interrupted" ELSE runs[r].status
                           /\ runs'[r].at = runs[r].at
    BY <1>7, CloseRunsRuns
  <2>2. \A r \in Runs : runs'[r].status # "running"
    BY <2>1 DEF RunningRuns
  <2>3. hold' = hold /\ deferred' = deferred
    BY <1>7 DEF CloseRuns
  <2>4. QED
    BY <2>1, <2>2, <2>3 DEF DrivenInv, RunningHasATask, LeftIsOver, Over, RunningRuns
<1>8. CASE Resume
  <2>1. /\ Up /\ Up' /\ hold' = hold /\ deferred' = deferred
        /\ hold.pc \notin Committed
    BY <1>8 DEF Resume, Up, NoHold, Committed
  <2>2. \/ runs' = runs
        \/ \E r \in Runs : /\ runs[r].at = "done"
                           /\ RunBecomes(r, runs[r].status, "drain", runs[r].head)
    BY <1>8, ResumeRuns
  <2>3. CASE runs' = runs
    BY <2>1, <2>3 DEF DrivenInv, RunningHasATask, LeftIsOver, Over, RunningRuns,
       Runs, Driven
  <2>4. ASSUME NEW r \in Runs, runs[r].at = "done",
               RunBecomes(r, runs[r].status, "drain", runs[r].head)
        PROVE  DrivenInv'
    <3>1. runs[r].status # "running"
      BY <2>1, <2>4 DEF DrivenInv, RunningHasATask, RunningRuns, Driven
    <3>2. /\ Runs' = Runs /\ \A j \in Runs : runs'[j].status = runs[j].status
          /\ \A j \in Runs : j # r => runs'[j] = runs[j]
      BY <2>4 DEF RunBecomes
    <3>3. RunningHasATask'
      BY <2>1, <3>1, <3>2 DEF DrivenInv, RunningHasATask, RunningRuns, Driven
    <3>4. LeftIsOver' /\ Over(hold.command)' /\ Over(deferred)'
      BY <2>1, <3>1, <3>2 DEF DrivenInv, LeftIsOver, Over
    <3>5. QED
      BY <3>3, <3>4 DEF DrivenInv
  <2>5. QED
    BY <2>2, <2>3, <2>4
<1>9. CASE \E r \in Runs : RunTask(r)
  BY <1>9, DrivenTask
<1>10. CASE \E r \in Runs : ReleaseClaims(r)
  BY <1>10, HoldStays, DrivenUnchanged DEF ReleaseClaims
<1>11. ASSUME NEW r \in Runs, Cancel(r) PROVE DrivenInv'
  <2>1. UNCHANGED <<home, hold, deferred>>
    BY <1>11 DEF Cancel
  <2>2. RunBecomes(r, runs[r].status, runs[r].at, runs[r].head)
    BY <1>11, CancelTrips
  <2>3. runs[r].at \in Left => runs[r].status # "running"
    BY DEF DrivenInv, LeftIsOver
  <2>4. QED
    BY <2>1, <2>2, <2>3, HoldStays, DrivenRunStep
<1>12. ASSUME NEW r \in Runs, Stop(r) PROVE DrivenInv'
  <2>1. UNCHANGED <<home, hold, deferred>>
    BY <1>12 DEF Stop, engineVars
  <2>2. QED
    BY <1>12, <2>1, StopEnds, HoldStays, DrivenRunStep
<1>13. CASE \E c \in Clients : ClientStep(c) \/ Recall(c)
  BY <1>13, HoldStays, DrivenUnchanged
     DEF ClientStep, Route, Steer, QueueInput, Recall, logVars, engineVars
<1>14. CASE \/ \E c \in Clients, way \in Ways : Submit(c, way)
            \/ \E m \in Mail, mode \in Modes : Accept(m, mode)
            \/ \E m \in Mail : Discard(m)
  BY <1>14, HoldStays, DrivenUnchanged DEF Submit, Accept, Discard, logVars, engineVars
<1>15. QED
  BY <1>1, <1>2, <1>3, <1>4, <1>5, <1>6, <1>7, <1>8, <1>9, <1>10, <1>11, <1>12,
     <1>13, <1>14 DEF Next, Reopen

(* While a daemon has the session, a run the log says is running has a task
   that works on it or a start that will give it one, whatever fails, is
   cancelled or stopped, and after any number of restarts: no session is left
   refusing every start for a run that nothing will end. *)
THEOREM RunningHasADriver == Spec => []RunningIsDriven
<1>1. Init => DrivenInv
  BY DEF Init, DrivenInv, RunningHasATask, LeftIsOver, Over, RunningRuns, Runs,
         NoHold, NoCommand
<1>2. TypeInv /\ DrivenInv /\ [Next]_vars => TypeInv' /\ DrivenInv'
  BY NextType, DrivenNext
<1>3. DrivenInv => RunningIsDriven
  BY DEF DrivenInv, RunningHasATask, RunningIsDriven, Committed
<1>4. QED
  BY <1>1, <1>2, <1>3, InitType, PTL DEF Spec

-----------------------------------------------------------------------------
(* Between a crash and the end of the adoption. *)

(* While no daemon has the session nothing works on it: its tasks, calls and
   reservation died with the daemon. *)
DownIsQuiet ==
    ~Up => /\ hold = NoHold /\ wake = NoWake /\ active = {}
           /\ \A r \in Runs : runs[r].at = "done"
           /\ \A c \in Clients : client[c].pc \in {"idle", "pending", "done"}

(* What a session that no daemon has can do. *)
LEMMA DownSteps ==
    ASSUME DownIsQuiet, ~Up, Next
    PROVE  Crash \/ Adopt \/ CloseRuns
<1>1. /\ hold.pc = "none" /\ wake.task = "none" /\ active = {}
      /\ \A r \in Runs : runs[r].at = "done"
      /\ \A c \in Clients : client[c].pc \in {"idle", "pending", "done"}
  BY DEF DownIsQuiet, NoHold, NoWake
<1>2. Asked = {}
  BY <1>1 DEF Asked
<1>3. ~StartTask
  BY <1>1 DEF StartTask, ReadSession, PrepareStart, CommitStart, CommitWake,
              InsertActive, SetUpRun, FailSetUp, LaunchRun, Release, Starting
<1>4. ~(WakeTask \/ Compact \/ ResumeHeld)
  BY <1>1 DEF WakeTask, BeginWake, ClearWake, Compact, ResumeHeld
<1>5. ASSUME NEW r \in Runs
      PROVE  ~(RunTask(r) \/ ReleaseClaims(r) \/ Cancel(r) \/ Stop(r))
  <2>1. runs[r].at = "done" /\ r \notin active
    BY <1>1
  <2>2. ~(Top(r) \/ HandlePrompt(r) \/ Turn(r) \/ AfterTurn(r) \/ CancelledInTools(r))
    BY <2>1 DEF Top, HandlePrompt, Turn, AfterTurn, CancelledInTools
  <2>3. ~(\/ HandleComplete(r) \/ EndFailed(r) \/ EndCancelled(r)
          \/ RunTaskEnds(r) \/ Drain(r) \/ AfterRefusal(r))
    BY <2>1 DEF HandleComplete, EndFailed, EndCancelled, RunTaskEnds, Drain, AfterRefusal
  <2>4. ~(ReleaseClaims(r) \/ Cancel(r) \/ Stop(r))
    BY <2>1 DEF ReleaseClaims, Cancel, Stop
  <2>5. QED
    BY <2>2, <2>3, <2>4 DEF RunTask
<1>6. ASSUME NEW c \in Clients PROVE ~(ClientStep(c) \/ Recall(c))
  BY <1>1 DEF ClientStep, Route, Steer, QueueInput, Recall, Delivering
<1>7. /\ \A c \in Clients, way \in Ways : ~Submit(c, way)
      /\ \A m \in Mail, mode \in Modes : ~Accept(m, mode)
      /\ \A m \in Mail : ~Discard(m)
  BY DEF Submit, Accept, Discard
<1>8. ~Resume
  BY DEF Resume, Up
<1>9. QED
  BY <1>2, <1>3, <1>4, <1>5, <1>6, <1>7, <1>8 DEF Next, Reopen

(* Only a crash takes the session from its daemon. *)
LEMMA HomeSteps ==
    ASSUME Next, Up, ~Up'
    PROVE  Crash
<1>1. SUFFICES ASSUME ~Crash PROVE FALSE
  OBVIOUS
<1>2. CASE home' = home
  BY <1>2 DEF Up
<1>3. CASE \E cmd \in Asked : HandleStart(cmd)
  BY <1>2, <1>3 DEF HandleStart
<1>4. CASE StartTask
  BY <1>2, <1>4 DEF StartTask, ReadSession, PrepareStart, CommitStart, CommitWake,
              InsertActive, SetUpRun, FailSetUp, LaunchRun, Release
<1>5. CASE WakeTask \/ Compact \/ ResumeHeld
  BY <1>2, <1>5 DEF WakeTask, BeginWake, ClearWake, Compact, ResumeHeld
<1>6. ASSUME NEW r \in Runs, RunTask(r) PROVE FALSE
  BY <1>2, <1>6 DEF RunTask, Top, HandlePrompt, Turn, AfterTurn, CancelledInTools,
        HandleComplete, RunTaskEnds, Drain, AfterRefusal, EndFailed, EndCancelled,
        Leaves, engineVars
<1>7. ASSUME NEW r \in Runs, ReleaseClaims(r) \/ Cancel(r) \/ Stop(r) PROVE FALSE
  BY <1>2, <1>7 DEF ReleaseClaims, Cancel, Stop, engineVars
<1>8. ASSUME NEW c \in Clients, ClientStep(c) \/ Recall(c) PROVE FALSE
  BY <1>2, <1>8 DEF ClientStep, Route, Steer, QueueInput, Recall, engineVars
<1>9. CASE \/ \E c \in Clients, way \in Ways : Submit(c, way)
           \/ \E m \in Mail, mode \in Modes : Accept(m, mode)
           \/ \E m \in Mail : Discard(m)
  BY <1>2, <1>9 DEF Submit, Accept, Discard, engineVars
<1>10. CASE Reopen
  BY <1>10 DEF Reopen, Adopt, CloseRuns, Resume, Up
<1>11. QED
  BY <1>1, <1>3, <1>4, <1>5, <1>6, <1>7, <1>8, <1>9, <1>10 DEF Next

(* A crash ends everything that works on the session. *)
LEMMA CrashQuiets ==
    ASSUME TypeInv, Crash
    PROVE  DownIsQuiet'
<1>1. \A r \in Runs' : runs'[r].at = "done"
  BY CrashRuns DEF TypeInv
<1>2. ASSUME NEW c \in Clients
      PROVE  client'[c].pc \in {"idle", "pending", "done"}
  <2>1. client[c] \in Submissions
    BY DEF TypeInv, TypeOK
  <2>2. client'[c] = IF client[c].pc \in {"submit", "deliver", "ask", "await"}
                     THEN [client[c] EXCEPT !.pc = "done", !.run = 0] ELSE client[c]
    BY DEF Crash
  <2>3. QED
    BY <2>1, <2>2 DEF Submissions
<1>3. hold' = NoHold /\ wake' = NoWake /\ active' = {}
  BY DEF Crash
<1>4. QED
  BY <1>1, <1>2, <1>3 DEF DownIsQuiet

(* Every step keeps a session that no daemon has quiet. *)
LEMMA QuietNext ==
    ASSUME TypeInv, DownIsQuiet, [Next]_vars
    PROVE  DownIsQuiet'
<1>1. CASE UNCHANGED vars
  BY <1>1 DEF DownIsQuiet, Up, vars, logVars, engineVars, clientVars, Runs
<1>2. CASE Next /\ Up
  BY <1>2, HomeSteps, CrashQuiets DEF DownIsQuiet
<1>3. CASE Next /\ ~Up
  <2>1. Crash \/ Adopt \/ CloseRuns
    BY <1>3, DownSteps
  <2>2. CASE Adopt
    BY <1>3, <2>2 DEF DownIsQuiet, Adopt, Runs, clientVars
  <2>3. CASE CloseRuns
    BY <2>3 DEF DownIsQuiet, CloseRuns, Up
  <2>4. QED
    BY <2>1, <2>2, <2>3, CrashQuiets
<1>4. QED
  BY <1>1, <1>2, <1>3

(* A daemon that dies takes everything that worked on the session with it, and
   nothing works on it again before its open runs are closed. *)
THEOREM NothingRunsWhileDown == Spec => []DownIsQuiet
<1>1. Init => DownIsQuiet
  BY DEF Init, DownIsQuiet, Up
<1>2. TypeInv /\ DownIsQuiet /\ [Next]_vars => TypeInv' /\ DownIsQuiet'
  BY NextType, QuietNext
<1>3. QED
  BY <1>1, <1>2, InitType, PTL DEF Spec

-----------------------------------------------------------------------------
(* One run at a time. *)

(* The log says of at most one run that it is running. *)
OneRunning == \A r, s \in RunningRuns : r = s
(* The session's status tells when none is. *)
StatusTells == status # "running" => RunningRuns = {}
(* A start that found the session idle is right when it commits its run. *)
StartFindsNone ==
    hold.pc = "commit" \/ (hold.pc = "prepare" /\ hold.seen = "idle")
        => RunningRuns = {}
(* A run whose task is at work is running. *)
DrivenIsRunning == \A r \in Runs : Driven(r) => runs[r].status = "running"
(* The run a start committed is running and has no task yet. *)
HeldRunIsNew ==
    hold.pc \in Committed =>
        runs[hold.run].status = "running" /\ runs[hold.run].at = "none"
OneInv == /\ OneRunning /\ StatusTells /\ StartFindsNone
          /\ DrivenIsRunning /\ HeldRunIsNew

(* The reservation is free or its holder has looked at nothing yet. *)
Looking == {"commit", "prepare"} \cup Committed

(* The log and the projection are unchanged. *)
LEMMA OneUnchanged ==
    ASSUME OneInv, runs' = runs, status' = status,
           hold' = hold \/ hold'.pc \notin Looking
    PROVE  OneInv'
  BY DEF OneInv, OneRunning, StatusTells, StartFindsNone, DrivenIsRunning,
         HeldRunIsNew, RunningRuns, Runs, Driven, Looking

(* The task of one run moves on and the log is unchanged. *)
LEMMA OneMoves ==
    ASSUME OneInv, NEW r \in Runs, NEW pc, NEW h,
           RunBecomes(r, runs[r].status, pc, h), status' = status,
           pc \in AtWork => runs[r].status = "running",
           \/ hold'.pc \notin Looking
           \/ hold' = hold /\ (hold.pc \in Committed /\ hold.run = r => pc = "none"),
           hold.pc \in Committed => hold.run \in Runs
    PROVE  OneInv'
<1>1. Runs' = Runs /\ \A j \in Runs : j # r => runs'[j] = runs[j]
  BY DEF RunBecomes
<1>2. runs'[r].status = runs[r].status /\ runs'[r].at = pc
  BY DEF RunBecomes
<1>3. RunningRuns' = RunningRuns
  BY <1>1, <1>2 DEF RunningRuns
<1>4. OneRunning' /\ StatusTells'
  BY <1>3 DEF OneInv, OneRunning, StatusTells
<1>5. StartFindsNone'
  BY <1>3 DEF OneInv, StartFindsNone, Looking
<1>6. DrivenIsRunning'
  BY <1>1, <1>2 DEF OneInv, DrivenIsRunning, Driven, AtWork
<1>7. HeldRunIsNew'
  <2>1. CASE hold'.pc \notin Looking
    BY <2>1 DEF HeldRunIsNew, Looking
  <2>2. CASE hold' = hold /\ (hold.pc \in Committed /\ hold.run = r => pc = "none")
    BY <1>1, <1>2, <2>2 DEF OneInv, HeldRunIsNew
  <2>3. QED
    BY <2>1, <2>2
<1>8. QED
  BY <1>4, <1>5, <1>6, <1>7 DEF OneInv

(* The running run ends: after it none is running. *)
LEMMA OneEnds ==
    ASSUME OneInv, NEW r \in Runs, NEW o, NEW pc, NEW h, runs[r].status = "running",
           RunBecomes(r, o, pc, h), o # "running", pc \notin AtWork,
           \/ hold'.pc \notin Looking
           \/ hold' = hold /\ (hold.pc \in Committed => hold.run \in Runs)
              /\ runs[r].at # "none"
    PROVE  OneInv' /\ RunningRuns' = {}
<1>1. Runs' = Runs /\ \A j \in Runs : j # r => runs'[j] = runs[j]
  BY DEF RunBecomes
<1>2. runs'[r].status = o /\ runs'[r].at = pc
  BY DEF RunBecomes
<1>3. \A j \in Runs : runs[j].status = "running" => j = r
  BY DEF OneInv, OneRunning, RunningRuns
<1>4. RunningRuns' = {}
  BY <1>1, <1>2, <1>3 DEF RunningRuns
<1>5. DrivenIsRunning'
  BY <1>1, <1>2 DEF OneInv, DrivenIsRunning, Driven, AtWork
<1>6. HeldRunIsNew'
  <2>1. hold'.pc \notin Committed
    BY <1>3 DEF OneInv, HeldRunIsNew, Looking
  <2>2. QED
    BY <2>1 DEF HeldRunIsNew
<1>7. QED
  BY <1>4, <1>5, <1>6 DEF OneInv, OneRunning, StatusTells, StartFindsNone

(* A start command is handled or answered. *)
LEMMA OneStart ==
    ASSUME TypeInv, OneInv, NEW cmd \in Asked, HandleStart(cmd)
    PROVE  OneInv'
<1>1. cmd \in Commands
  BY AskedType DEF TypeInv
<1>2. status' = status /\ (hold' = hold \/ hold'.pc \notin Looking)
  BY DEF HandleStart, Start, NoHold, Looking, Committed
<1>3. CASE runs' = runs
  BY <1>2, <1>3, OneUnchanged
<1>4. ASSUME cmd.by \in Runs, NEW pc \in {"await", "dropHead", "void", "done"}, NEW h,
             RunBecomes(cmd.by, runs[cmd.by].status, pc, h), runs[cmd.by].at = "ask"
      PROVE  OneInv'
  <2>1. hold.pc \in Committed => hold.run # cmd.by /\ hold.run \in Runs
    BY <1>4 DEF OneInv, HeldRunIsNew, TypeInv, HoldsARun
  <2>2. pc \notin AtWork
    BY DEF AtWork
  <2>3. QED
    BY <1>2, <1>4, <2>1, <2>2, OneMoves
<1>5. CASE Taken(cmd)
  <2>1. CASE cmd.by = 0
    BY <1>3, <1>5, <2>1 DEF Taken
  <2>2. CASE cmd.by # 0
    <3>1. cmd.by \in Runs /\ Goes(cmd.by, "await") /\ runs[cmd.by].at = "ask"
      BY <1>5, <2>2, AskedType DEF Taken, Goes, TypeInv
    <3>2. RunBecomes(cmd.by, runs[cmd.by].status, "await", runs[cmd.by].head)
      BY <3>1, GoesOn DEF RunSteps, TypeInv
    <3>3. QED
      BY <1>4, <3>1, <3>2
  <2>3. QED
    BY <2>1, <2>2
<1>6. CASE Answered(cmd, "running")
  <2>1. runs' = TaskAnswered(cmd, "running") /\ "running" \in Results
    BY <1>6 DEF Answered, Results
  <2>2. \/ runs' = runs
        \/ /\ cmd.by \in Runs
           /\ \E pc \in {"dropHead", "void", "done"}, h \in {NoOne, runs[cmd.by].head} :
                 RunBecomes(cmd.by, runs[cmd.by].status, pc, h)
    BY <1>1, <2>1, AnswerMoves DEF TypeInv
  <2>3. cmd.by \in Runs => runs[cmd.by].at = "ask"
    BY AskedType DEF TypeInv, TypeOK, Runs
  <2>4. QED
    BY <1>3, <1>4, <2>2, <2>3
<1>7. QED
  BY <1>5, <1>6 DEF HandleStart

(* The task that holds the reservation: what it read of the session stays true
   until it commits its run. *)
LEMMA OneReservation ==
    ASSUME TypeInv, OneInv, StartTask
    PROVE  OneInv'
<1> USE DEF TypeInv
<1>1. hold \in Holds
  BY DEF TypeOK
<1>2. ASSUME NEW result, GiveUp(result) PROVE hold'.pc = "release"
  BY <1>1, <1>2 DEF GiveUp, Holds
<1>3. CASE ReadSession
  <2>1. runs' = runs /\ status' = status
    BY <1>3 DEF ReadSession, logVars
  <2>2. hold'.pc = "prepare" /\ (hold'.seen = "idle" => status # "running")
    <3> DEFINE seen == IF hold.kind = "start" /\ HasRun(hold.command.input) THEN "known"
                         ELSE IF status = "running" THEN "running" ELSE "idle"
    <3>1. hold' = [hold EXCEPT !.pc = "prepare", !.seen = seen]
      BY <1>3 DEF ReadSession
    <3>2. seen = "idle" => status # "running"
      OBVIOUS
    <3> HIDE DEF seen
    <3>3. hold'.pc = "prepare" /\ hold'.seen = seen
      BY <1>1, <3>1 DEF Holds
    <3>4. QED
      BY <3>2, <3>3
  <2>3. QED
    BY <2>1, <2>2 DEF OneInv, OneRunning, StatusTells, StartFindsNone,
       DrivenIsRunning, HeldRunIsNew, RunningRuns, Runs, Driven, Committed
<1>4. CASE PrepareStart
  <2>1. runs' = runs /\ status' = status
    BY <1>4 DEF PrepareStart, logVars
  <2>2. CASE \E result \in Results : GiveUp(result)
    BY <1>2, <2>1, <2>2, OneUnchanged DEF Looking, Committed
  <2>3. CASE hold.seen = "idle" /\ hold' = [hold EXCEPT !.pc = "commit"]
    <3>1. hold'.pc = "commit" /\ hold.pc = "prepare"
      BY <1>1, <1>4, <2>3 DEF PrepareStart, Starting, Holds
    <3>2. QED
      BY <2>1, <2>3, <3>1 DEF OneInv, OneRunning, StatusTells, StartFindsNone,
         DrivenIsRunning, HeldRunIsNew, RunningRuns, Runs, Driven, Committed
  <2>4. QED
    BY <1>4, <2>2, <2>3 DEF PrepareStart, Results
<1>5. ASSUME NEW from, RunAdded(from), Inserting, status' = "running", Starting("commit")
      PROVE  OneInv'
  <2>1. RunningRuns = {}
    BY <1>5 DEF OneInv, StartFindsNone, Starting
  <2>2. hold'.run = Len(runs) + 1 /\ hold'.pc = "insert"
    BY <1>1, <1>5 DEF Inserting, Holds
  <2>3. /\ Runs' = Runs \cup {Len(runs) + 1} /\ \A j \in Runs : runs'[j] = runs[j]
        /\ runs'[Len(runs) + 1].status = "running" /\ runs'[Len(runs) + 1].at = "none"
    BY <1>5 DEF RunAdded, NewRun
  <2>4. RunningRuns' = {Len(runs) + 1}
    BY <2>1, <2>3 DEF RunningRuns
  <2>5. DrivenIsRunning'
    BY <2>3 DEF OneInv, DrivenIsRunning, Driven
  <2>6. QED
    BY <1>5, <2>2, <2>3, <2>4, <2>5
       DEF OneInv, OneRunning, StatusTells, StartFindsNone, HeldRunIsNew
<1>6. CASE CommitStart
  <2>1. hold.command.input \in Clients \cup {NoOne}
    BY <1>1 DEF Holds, Commands
  <2>2. RunAdded(hold.command.input)
    BY <1>6, <2>1, AppendAdds DEF CommitStart
  <2>3. QED
    BY <1>5, <1>6, <2>2 DEF CommitStart
<1>7. CASE CommitWake
  <2>1. CASE GiveUp("error") /\ runs' = runs /\ status' = status
    BY <1>2, <2>1, OneUnchanged DEF Looking, Committed
  <2>2. CASE runs' = Append(runs, NewRun(NoOne)) /\ Inserting /\ status' = "running"
    BY <1>5, <1>7, <2>2, AppendAdds DEF CommitWake
  <2>3. QED
    BY <1>7, <2>1, <2>2 DEF CommitWake
<1>8. ASSUME runs' = runs, status' = status, hold.pc \in Committed,
             NEW pc \in Committed, hold' = [hold EXCEPT !.pc = pc]
      PROVE  OneInv'
  <2>1. hold'.pc = pc /\ hold'.run = hold.run
    BY <1>1, <1>8 DEF Holds
  <2>2. QED
    BY <1>8, <2>1 DEF OneInv, OneRunning, StatusTells, StartFindsNone,
         DrivenIsRunning, HeldRunIsNew, RunningRuns, Runs, Driven, Committed
<1>9. CASE InsertActive
  BY <1>8, <1>9 DEF InsertActive, logVars, Committed, Starting
<1>10. CASE SetUpRun
  <2>1. hold.pc \in Committed /\ UNCHANGED <<runs, status>>
    BY <1>10 DEF Committed, SetUpRun, Starting
  <2>2. \E pc \in Committed : hold' = [hold EXCEPT !.pc = pc]
    BY <1>10 DEF Committed, SetUpRun
  <2>3. QED
    BY <1>8, <2>1, <2>2
<1>11. CASE FailSetUp
  <2> DEFINE r == hold.run
  <2>1. r \in Runs /\ hold.pc \in Committed /\ runs[r].status = "running"
    BY <1>11 DEF HoldsARun, Committed, FailSetUp, Starting, OneInv, HeldRunIsNew
  <2>2. RunBecomes(r, "failed", "done", runs[r].head)
    BY <1>11, <2>1, FinishedIs DEF FailSetUp, RunSteps
  <2>3. hold'.pc \notin Looking /\ "done" \notin AtWork
    BY <1>2, <1>11 DEF FailSetUp, Looking, Committed, AtWork
  <2>4. QED
    BY <2>1, <2>2, <2>3, OneEnds
<1>12. CASE LaunchRun
  <2> DEFINE r == hold.run
  <2>1. r \in Runs /\ hold.pc \in Committed /\ runs[r].status = "running"
    BY <1>12 DEF HoldsARun, Committed, LaunchRun, Starting, OneInv, HeldRunIsNew
  <2>2. Goes(r, "top") /\ GiveUp("ok") /\ status' = status
    BY <1>12, <2>1 DEF LaunchRun, Goes
  <2>3. RunBecomes(r, runs[r].status, "top", runs[r].head)
    BY <2>1, <2>2, GoesOn DEF RunSteps
  <2>4. hold'.pc \notin Looking
    BY <1>2, <2>2 DEF Looking, Committed
  <2>5. QED
    BY <2>1, <2>2, <2>3, <2>4, OneMoves
<1>13. CASE Release
  <2>1. status' = status /\ hold'.pc \notin Looking
    BY <1>13 DEF Release, NoHold, Start, Looking, Committed
  <2>2. CASE runs' = runs
    BY <2>1, <2>2, OneUnchanged
  <2>3. CASE runs' = TaskAnswered(hold.command, hold.result)
    <3>1. hold.command \in Commands /\ hold.result \in Results
      BY <1>1 DEF Holds
    <3>2. \/ runs' = runs
          \/ /\ hold.command.by \in Runs
             /\ \E pc \in {"dropHead", "void", "done"},
                   h \in {NoOne, runs[hold.command.by].head} :
                   RunBecomes(hold.command.by, runs[hold.command.by].status, pc, h)
      BY <2>3, <3>1, AnswerMoves
    <3>3. hold.pc \notin Committed
      BY <1>13 DEF Release, Committed
    <3>4. \A pc \in {"dropHead", "void", "done"} : pc \notin AtWork
      BY DEF AtWork
    <3>5. QED
      BY <2>1, <2>2, <3>2, <3>3, <3>4, OneMoves
  <2>4. QED
    BY <1>13, <2>2, <2>3 DEF Release, Answered
<1>14. QED
  BY <1>3, <1>4, <1>6, <1>7, <1>9, <1>10, <1>11, <1>12, <1>13 DEF StartTask

(* A run's task. *)
LEMMA OneTask ==
    ASSUME TypeInv, OneInv, NEW r \in Runs, RunTask(r)
    PROVE  OneInv'
<1> USE DEF TypeInv
<1>1. runs[r].at # "none"
  BY DEF RunTask, Top, HandlePrompt, Turn, AfterTurn, CancelledInTools,
         HandleComplete, EndFailed, EndCancelled, RunTaskEnds, Drain, AfterRefusal
<1>2. hold.pc \in Committed => hold.run # r /\ hold.run \in Runs
  BY <1>1 DEF OneInv, HeldRunIsNew, HoldsARun
<1>3. runs[r].at \in AtWork => runs[r].status = "running"
  BY DEF OneInv, DrivenIsRunning, Driven, AtWork
<1>4. ASSUME NEW pc, NEW h, RunBecomes(r, runs[r].status, pc, h),
             pc \in AtWork => runs[r].at \in AtWork, status' = status, hold' = hold
      PROVE  OneInv'
  BY <1>2, <1>3, <1>4, OneMoves
<1>5. ASSUME runs[r].at \in AtWork, NEW o \in {"completed", "failed", "cancelled"},
             RunBecomes(r, o, "ended", runs[r].head), hold' = hold
      PROVE  OneInv'
  <2>1. "ended" \notin AtWork
    BY DEF AtWork
  <2>2. QED
    BY <1>1, <1>2, <1>3, <1>5, <2>1, OneEnds
<1>6. ASSUME NEW pc \in {"failing", "cancelling"}, Leaves(r, pc), runs[r].at \in AtWork
      PROVE  OneInv'
  BY <1>4, <1>6, LeavesType
<1>7. CASE Top(r)
  <2>1. runs[r].at \in AtWork
    BY <1>7 DEF Top, AtWork
  <2>2. CASE Goes(r, "prompt") /\ UNCHANGED <<status, hold>>
    BY <1>4, <2>1, <2>2, GoesOn DEF RunSteps
  <2>3. QED
    BY <1>6, <1>7, <2>1, <2>2 DEF Top, engineVars
<1>8. CASE AfterTurn(r)
  <2>1. runs[r].at \in AtWork
    BY <1>8 DEF AfterTurn, AtWork
  <2>2. CASE Goes(r, "complete") /\ UNCHANGED <<status, hold>>
    BY <1>4, <2>1, <2>2, GoesOn DEF RunSteps
  <2>3. CASE /\ runs' = [runs EXCEPT ![r].at = "tools", ![r].usedTools = TRUE]
             /\ UNCHANGED <<status, hold>>
    BY <1>4, <2>1, <2>3, ToolsUsed DEF RunSteps
  <2>4. QED
    BY <1>6, <1>8, <2>1, <2>2, <2>3 DEF AfterTurn, engineVars
<1>9. CASE CancelledInTools(r)
  BY <1>6, <1>9 DEF CancelledInTools, AtWork
<1>10. CASE HandlePrompt(r)
  <2>1. runs[r].at \in AtWork /\ Goes(r, "turn") /\ UNCHANGED <<status, hold>>
    BY <1>10 DEF HandlePrompt, AtWork
  <2>2. QED
    BY <1>4, <2>1, GoesOn DEF RunSteps
<1>11. CASE Turn(r)
  <2>1. runs[r].at \in AtWork
    BY <1>11 DEF Turn, AtWork
  <2>2. CASE Goes(r, "committed") /\ UNCHANGED <<status, hold>>
    BY <1>4, <2>1, <2>2, GoesOn DEF RunSteps
  <2>3. QED
    BY <1>6, <1>11, <2>1, <2>2 DEF Turn
<1>12. CASE HandleComplete(r)
  <2>1. runs[r].at \in AtWork
    BY <1>12 DEF HandleComplete, AtWork
  <2>2. CASE Goes(r, "top") /\ UNCHANGED <<status, hold>>
    BY <1>4, <2>1, <2>2, GoesOn DEF RunSteps
  <2>3. CASE Finish(r, "completed") /\ hold' = hold
    BY <1>5, <2>1, <2>3, FinishType
  <2>4. QED
    BY <1>12, <2>2, <2>3 DEF HandleComplete
<1>13. CASE RunTaskEnds(r) \/ Drain(r) \/ AfterRefusal(r)
  <2>1. UNCHANGED <<status, hold>>
    BY <1>13 DEF RunTaskEnds, Drain, AfterRefusal, engineVars
  <2>2. "drain" \notin AtWork /\ "done" \notin AtWork /\ "ask" \notin AtWork
    BY DEF AtWork
  <2>3. CASE RunTaskEnds(r)
    BY <1>4, <2>1, <2>2, <2>3, TaskEnds DEF RunTaskEnds
  <2>4. CASE Goes(r, "done")
    BY <1>4, <2>1, <2>2, <2>4, GoesOn DEF RunSteps
  <2>5. CASE queue # <<>>
             /\ runs' = [runs EXCEPT ![r].at = "ask", ![r].head = Head(queue)]
    <3>1. Head(queue) \in Clients \cup {NoOne}
      BY <2>5 DEF TypeOK
    <3>2. QED
      BY <1>4, <2>1, <2>2, <2>5, <3>1, HeadChanges DEF RunSteps
  <2>6. CASE AfterRefusal(r)
    <3>1. RunBecomes(r, runs[r].status, "drain", NoOne)
      BY <2>6, HeadChanges DEF AfterRefusal, RunSteps
    <3>2. QED
      BY <1>4, <2>1, <2>2, <3>1
  <2>7. QED
    BY <1>13, <2>3, <2>4, <2>5, <2>6 DEF Drain
<1>14. CASE EndFailed(r)
  <2>1. runs[r].at \in AtWork /\ Finish(r, "failed") /\ hold' = hold
    BY <1>14 DEF EndFailed, AtWork
  <2>2. QED
    BY <1>5, <2>1, FinishType
<1>15. CASE EndCancelled(r)
  <2>1. runs[r].at \in AtWork
    BY <1>15 DEF EndCancelled, AtWork
  <2>2. RunBecomes(r, "cancelled", "ended", runs[r].head) /\ hold' = hold
    BY <1>3, <1>15, <2>1, EndCancelledType
  <2>3. QED
    BY <1>5, <2>1, <2>2
<1>16. QED
  BY <1>7, <1>8, <1>9, <1>10, <1>11, <1>12, <1>13, <1>14, <1>15 DEF RunTask

(* Every step but a stop from outside keeps the runs apart. *)
LEMMA OneNext ==
    ASSUME "stop" \notin Faults, TypeInv, DownIsQuiet, OneInv, [Next]_vars
    PROVE  OneInv'
<1> USE DEF TypeInv
<1>1. CASE UNCHANGED vars
  BY <1>1, OneUnchanged DEF vars, logVars, engineVars
<1>2. CASE \E cmd \in Asked : HandleStart(cmd)
  BY <1>2, OneStart
<1>3. CASE StartTask
  BY <1>3, OneReservation
<1>4. CASE WakeTask \/ Compact \/ ResumeHeld
  <2>1. runs' = runs /\ status' = status
    BY <1>4 DEF WakeTask, BeginWake, ClearWake, Compact, ResumeHeld, logVars
  <2>2. hold' = hold \/ hold'.pc \notin Looking
    BY <1>4 DEF WakeTask, BeginWake, ClearWake, Compact, ResumeHeld, NoHold,
                Looking, Committed
  <2>3. QED
    BY <2>1, <2>2, OneUnchanged
<1>5. CASE Crash
  <2>1. /\ Runs' = Runs /\ hold'.pc = "none" /\ status' = status
        /\ \A r \in Runs : runs'[r].status = runs[r].status /\ runs'[r].at = "done"
    BY <1>5, CrashRuns DEF Crash, NoHold
  <2>2. RunningRuns' = RunningRuns
    BY <2>1 DEF RunningRuns
  <2>3. QED
    BY <2>1, <2>2 DEF OneInv, OneRunning, StatusTells, StartFindsNone,
       DrivenIsRunning, HeldRunIsNew, Driven, Committed
<1>6. CASE Adopt
  BY <1>6, OneUnchanged DEF Adopt
<1>7. CASE CloseRuns
  <2>1. hold.pc = "none" /\ hold' = hold /\ \A r \in Runs : runs[r].at = "done"
    BY <1>7 DEF CloseRuns, DownIsQuiet, Up, NoHold
  <2>2. /\ Runs' = Runs
        /\ \A r \in Runs : /\ runs'[r].status = IF r \in RunningRuns
                                    THEN "interrupted" ELSE runs[r].status
                           /\ runs'[r].at = runs[r].at
    BY <1>7, CloseRunsRuns
  <2>3. RunningRuns' = {}
    BY <2>2 DEF RunningRuns
  <2>4. QED
    BY <2>1, <2>2, <2>3 DEF OneInv, OneRunning, StatusTells, StartFindsNone,
       DrivenIsRunning, HeldRunIsNew, Driven, Committed
<1>8. CASE Resume
  <2>1. status' = status /\ hold' = hold /\ hold.pc = "none"
    BY <1>8 DEF Resume, NoHold
  <2>2. "drain" \notin AtWork /\ hold.pc \notin Committed
    BY <2>1 DEF AtWork, Committed
  <2>3. QED
    BY <1>8, <2>1, <2>2, ResumeRuns, OneUnchanged, OneMoves
<1>9. CASE \E r \in Runs : RunTask(r)
  BY <1>9, OneTask
<1>10. CASE \E r \in Runs : ReleaseClaims(r)
  BY <1>10, OneUnchanged DEF ReleaseClaims
<1>11. ASSUME NEW r \in Runs, Cancel(r) PROVE OneInv'
  <2>1. status' = status /\ hold' = hold
    BY <1>11 DEF Cancel
  <2>2. RunBecomes(r, runs[r].status, runs[r].at, runs[r].head)
    BY <1>11, CancelTrips
  <2>3. runs[r].at \in AtWork => runs[r].status = "running"
    BY DEF OneInv, DrivenIsRunning, Driven, AtWork
  <2>4. hold.pc \in Committed =>
            hold.run \in Runs /\ (hold.run = r => runs[r].at = "none")
    BY DEF OneInv, HeldRunIsNew, HoldsARun
  <2>5. QED
    BY <2>1, <2>2, <2>3, <2>4, OneMoves
<1>12. ASSUME NEW r \in Runs PROVE ~Stop(r)
  BY DEF Stop, Fault
<1>13. CASE \E c \in Clients : ClientStep(c) \/ Recall(c)
  BY <1>13, OneUnchanged
     DEF ClientStep, Route, Steer, QueueInput, Recall, logVars, engineVars
<1>14. CASE \/ \E c \in Clients, way \in Ways : Submit(c, way)
            \/ \E m \in Mail, mode \in Modes : Accept(m, mode)
            \/ \E m \in Mail : Discard(m)
  BY <1>14, OneUnchanged DEF Submit, Accept, Discard, logVars, engineVars
<1>15. QED
  BY <1>1, <1>2, <1>3, <1>4, <1>5, <1>6, <1>7, <1>8, <1>9, <1>10, <1>11, <1>12,
     <1>13, <1>14 DEF Next, Reopen

(* The invariant is one of the specification. *)
LEMMA OneInvariance ==
    ASSUME "stop" \notin Faults
    PROVE  Spec => [](TypeInv /\ DownIsQuiet /\ OneInv)
<1>1. Init => DownIsQuiet /\ OneInv
  BY DEF Init, DownIsQuiet, Up, OneInv, OneRunning, StatusTells, StartFindsNone,
     DrivenIsRunning, HeldRunIsNew, RunningRuns, Runs, NoHold, Committed
<1>2. /\ TypeInv /\ DownIsQuiet /\ OneInv /\ [Next]_vars
      => (TypeInv /\ DownIsQuiet /\ OneInv)'
  BY NextType, QuietNext, OneNext
<1>3. QED
  BY <1>1, <1>2, InitType, PTL DEF Spec

(* Where no run is ended from outside its task, a session has one run at work
   at a time: no interleaving of clients' starts, queued inputs, producers'
   wakes, failures, cancellations and restarts commits a second run beside
   one that is running or still driven. *)
THEOREM OneRunAtATime ==
    ASSUME "stop" \notin Faults
    PROVE  Spec => []OneRunAtWork
<1>1. ASSUME OneInv PROVE OneRunAtWork
  <2> DEFINE W == RunningRuns \cup {r \in Runs : Driven(r)}
  <2>1. \A r, s \in W : r = s
    BY <1>1 DEF OneInv, OneRunning, DrivenIsRunning, RunningRuns
  <2>2. CASE W = {}
    BY <2>2, FS_EmptySet DEF OneRunAtWork
  <2>3. CASE W # {}
    <3>1. PICK r : r \in W
      BY <2>3
    <3>2. W = {r}
      BY <2>1, <3>1
    <3>3. Cardinality({r}) = 1
      BY FS_Singleton
    <3>4. QED
      BY <3>2, <3>3 DEF OneRunAtWork
  <2>4. QED
    BY <2>2, <2>3
<1>2. QED
  BY <1>1, OneInvariance, PTL

=============================================================================
