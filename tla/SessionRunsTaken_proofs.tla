----------------------- MODULE SessionRunsTaken_proofs -----------------------
(***************************************************************************)
(* No input is taken twice, for any number of clients, runs, retries and   *)
(* restarts; and, where no run is ended from outside its task, a completed *)
(* run took every input steered into it.  The invariant follows an input   *)
(* through the places that may name it: the queue, the head an ended run   *)
(* asks to be started, the command that holds the session, the command     *)
(* kept for later, and the runs of the log.  Last, a message its producer  *)
(* took back is never consumed.                                            *)
(***************************************************************************)
EXTENDS SessionRunsOne_proofs

(* A queued input, and the head an ended run asks for, were answered to their
   client. *)
QueuedIsDone == \A c \in Clients : Queued(c) => client[c].pc = "done"
HeadIsDone ==
    \A r \in Runs : runs[r].head \in Clients => client[runs[r].head].pc = "done"
(* The sender of a command the actor took waits for its answer. *)
CommandFits(cmd) ==
    cmd.input \in Clients =>
        client[cmd.input].pc = IF cmd.by = 0 THEN "await" ELSE "done"
CommandsFit == CommandFits(hold.command) /\ CommandFits(deferred)
CommandsDiffer ==
    hold.command = deferred => deferred.input \notin Clients \/ deferred.by # 0
(* A client that waits and whose input has its run is about to be told. *)
ToldStarted ==
    hold.pc \in Committed \/ (hold.pc = "release" /\ hold.result \in {"ok", "error"})
StartedIsTold ==
    \A c \in Clients : HasRun(c) =>
        \/ client[c].pc = "done"
        \/ /\ client[c].pc = "await" /\ ToldStarted
           /\ hold.command.input = c /\ hold.command.by = 0
(* Nothing names the input. *)
Unnamed(c) ==
    /\ ~Queued(c) /\ ~HasRun(c) /\ hold.command.input # c /\ deferred.input # c
    /\ \A r \in Runs : runs[r].head # c
GivenIsTrue ==
    \A c \in Clients :
        /\ "run" \in given[c] => HasRun(c)
        /\ given[c] \ {"run"} # {} => client[c].pc = "done"
        /\ "steered" \in given[c] => given[c] = {"steered"} /\ Unnamed(c)
(* An input has one run, which its start looks for before it commits one. *)
OneRunEach ==
    \A r, s \in Runs :
        runs[r].from = runs[s].from /\ runs[r].from \in Clients => r = s
LooksFirst ==
    hold.kind = "start" /\ (hold.pc = "commit" \/ (hold.pc = "prepare" /\ hold.seen # "known"))
        => ~HasRun(hold.command.input)
(* The commands of starts name an input. *)
CommandsName ==
    /\ hold.kind = "start" <=> hold.command.input \in Clients
    /\ deferred # NoCommand => deferred.input \in Clients
    /\ \A r \in Runs : runs[r].at = "ask" => runs[r].head \in Clients

TakenInv ==
    /\ QueuedIsDone /\ HeadIsDone /\ CommandsFit /\ CommandsDiffer /\ StartedIsTold
    /\ GivenIsTrue /\ OneRunEach /\ LooksFirst /\ CommandsName

-----------------------------------------------------------------------------
(* Steps that name no input anew. *)

RunsNameLess ==
    /\ Runs' = Runs
    /\ \A r \in Runs :
          /\ runs'[r].from = runs[r].from
          /\ runs'[r].head = runs[r].head \/ runs'[r].head = NoOne
          /\ runs'[r].at = "ask" => runs[r].at = "ask" /\ runs'[r].head = runs[r].head
ClientsStay ==
    \A c \in Clients : \/ client'[c].pc = client[c].pc
                       \/ client[c].pc \notin {"await", "done"} /\ client'[c].pc # "await"
QueueShrinks == \A c \in Clients : Queued(c)' => Queued(c)
(* The command that holds the session stays, and its answer with it. *)
SameCommand ==
    /\ hold'.kind = hold.kind /\ hold'.command = hold.command
    /\ ToldStarted => ToldStarted'

(* An input's client learns that a turn took the input, or takes it back. *)
GivenMore ==
    \A c \in Clients :
        \/ given'[c] = given[c]
        \/ /\ given'[c] = given[c] \cup {"recalled"} /\ "steered" \notin given[c]
           /\ client'[c].pc = "done"
        \/ /\ given[c] = {} /\ given'[c] = {"steered"} /\ Unnamed(c)
           /\ client'[c].pc = "done"

(* Such a step keeps the invariant. *)
LEMMA TakenGives ==
    ASSUME TakenInv, RunsNameLess, ClientsStay, QueueShrinks, SameCommand,
           LooksFirst', deferred' = deferred, GivenMore
    PROVE  TakenInv'
<1>1. NoOne \notin Clients
  BY RunsAssumption
<1>2. \A c \in Clients : HasRun(c)' <=> HasRun(c)
  BY DEF RunsNameLess, HasRun
<1>3. \A c \in Clients : client[c].pc \in {"await", "done"} => client'[c].pc = client[c].pc
  BY DEF ClientsStay
<1>4. QueuedIsDone'
  BY <1>3 DEF TakenInv, QueuedIsDone, QueueShrinks
<1>5. HeadIsDone'
  BY <1>1, <1>3 DEF TakenInv, HeadIsDone, RunsNameLess
<1>6. CommandsFit' /\ CommandsDiffer'
  BY <1>3 DEF TakenInv, CommandsFit, CommandFits, CommandsDiffer, SameCommand
<1>7. StartedIsTold'
  BY <1>2, <1>3 DEF TakenInv, StartedIsTold, SameCommand
<1>8. \A c \in Clients : Unnamed(c) => Unnamed(c)'
  BY <1>1, <1>2 DEF Unnamed, QueueShrinks, RunsNameLess, SameCommand
<1>9. GivenIsTrue'
  <2> SUFFICES ASSUME NEW c \in Clients
               PROVE  /\ "run" \in given'[c] => HasRun(c)'
                      /\ given'[c] \ {"run"} # {} => client'[c].pc = "done"
                      /\ "steered" \in given'[c] => given'[c] = {"steered"} /\ Unnamed(c)'
    BY DEF GivenIsTrue
  <2>1. CASE given'[c] = given[c]
    BY <1>2, <1>3, <1>8, <2>1 DEF TakenInv, GivenIsTrue
  <2>2. CASE given'[c] # given[c]
    BY <1>2, <1>8, <2>2 DEF TakenInv, GivenIsTrue, GivenMore
  <2>3. QED
    BY <2>1, <2>2
<1>10. OneRunEach' /\ CommandsName'
  BY DEF TakenInv, OneRunEach, CommandsName, RunsNameLess, SameCommand
<1>11. QED
  BY <1>4, <1>5, <1>6, <1>7, <1>9, <1>10 DEF TakenInv

(* And so does one that tells no client more. *)
LEMMA TakenStep ==
    ASSUME TakenInv, RunsNameLess, ClientsStay, QueueShrinks, SameCommand,
           LooksFirst', deferred' = deferred, given' = given
    PROVE  TakenInv'
  BY TakenGives DEF GivenMore

(* A step that leaves the reservation and the runs' origins alone. *)
LEMMA TakenIdleGives ==
    ASSUME TakenInv, RunsNameLess, ClientsStay, QueueShrinks, hold' = hold,
           deferred' = deferred, GivenMore
    PROVE  TakenInv'
<1>1. SameCommand
  BY DEF SameCommand, ToldStarted
<1>2. \A c \in Clients : HasRun(c)' <=> HasRun(c)
  BY DEF RunsNameLess, HasRun
<1>3. LooksFirst'
  BY <1>2 DEF TakenInv, LooksFirst, CommandsName
<1>4. QED
  BY <1>1, <1>3, TakenGives

(* And tells no client more. *)
LEMMA TakenIdle ==
    ASSUME TakenInv, RunsNameLess, ClientsStay, QueueShrinks, hold' = hold,
           deferred' = deferred, given' = given
    PROVE  TakenInv'
  BY TakenIdleGives DEF GivenMore

(* One run changes and lets its input go, at most. *)
LEMMA LessByOne ==
    ASSUME NEW r \in Runs, NEW o, NEW pc, NEW h, RunBecomes(r, o, pc, h),
           h = runs[r].head \/ h = NoOne,
           pc = "ask" => runs[r].at = "ask" /\ h = runs[r].head
    PROVE  RunsNameLess
  BY DEF RunBecomes, RunsNameLess

(* A log that did not change. *)
LEMMA LessBySame ==
    ASSUME runs' = runs
    PROVE  RunsNameLess
  BY DEF RunsNameLess, Runs

(* The queue did not change, is given back or loses an entry. *)
LEMMA QueueLess ==
    ASSUME TypeOK, NEW c, queue' = queue \/ queue' = <<>> \/ queue' = Without(queue, c)
    PROVE  QueueShrinks
<1>1. CASE queue' = queue \/ queue' = <<>>
  BY <1>1 DEF QueueShrinks, Queued
<1>2. CASE queue' = Without(queue, c)
  <2>1. queue \in Seq(Clients)
    BY DEF TypeOK
  <2>2. \A k \in DOMAIN queue' : \E j \in DOMAIN queue : queue'[k] = queue[j]
    BY <1>2, <2>1, WithoutType
  <2>3. QED
    BY <2>2 DEF QueueShrinks, Queued
<1>3. QED
  BY <1>1, <1>2

(* The inputs of ended runs are given back: only pending ones move. *)
LEMMA GivenBackStay ==
    ASSUME TypeOK, NEW rs, client' = GivenBack(rs)
    PROVE  ClientsStay
<1>1. ASSUME NEW c \in Clients
      PROVE  \/ client'[c] = client[c]
             \/ client[c].pc = "pending" /\ client'[c].pc = "done"
  <2>1. client[c] \in Submissions
    BY DEF TypeOK
  <2>2. [client[c] EXCEPT !.pc = "done"].pc = "done"
    BY <2>1 DEF Submissions
  <2>3. QED
    BY <2>2 DEF GivenBack
<1>2. QED
  BY <1>1 DEF ClientsStay

(* An input that is neither answered nor waited for is named nowhere. *)
LEMMA OpenIsUnnamed ==
    ASSUME TakenInv, NEW c \in Clients, client[c].pc \notin {"await", "done"}
    PROVE  Unnamed(c) /\ given[c] = {}
<1>1. ~Queued(c) /\ ~HasRun(c)
  BY DEF TakenInv, QueuedIsDone, StartedIsTold
<1>2. hold.command.input # c /\ deferred.input # c
  BY DEF TakenInv, CommandsFit, CommandFits
<1>3. \A r \in Runs : runs[r].head # c
  BY DEF TakenInv, HeadIsDone
<1>4. given[c] = {}
  BY <1>1 DEF TakenInv, GivenIsTrue
<1>5. QED
  BY <1>1, <1>2, <1>3, <1>4 DEF Unnamed

-----------------------------------------------------------------------------
(* The start commands. *)

(* The fields of a free reservation and of one a start takes. *)
LEMMA ReservationFields ==
    /\ NoHold.command = NoCommand /\ NoHold.kind = "none" /\ NoHold.pc = "none"
    /\ \A cmd : /\ Start(cmd).command = cmd /\ Start(cmd).kind = "start"
                /\ Start(cmd).pc = "read"
  BY DEF NoHold, Start

(* The actor takes a client's start: the reservation's holder and the command
   kept for later name the input from here on. *)
LEMMA TakenFromClient ==
    ASSUME TypeInv, TakenInv, NEW c \in Clients, NEW cmd, client[c].pc = "ask",
           cmd = [input |-> c, by |-> 0],
           client' = [client EXCEPT ![c].pc = "await"], runs' = runs,
           queue' = queue, given' = given,
           \/ hold = NoHold /\ hold' = Start(cmd) /\ deferred' = deferred
           \/ hold # NoHold /\ deferred = NoCommand /\ deferred' = cmd /\ hold' = hold
    PROVE  TakenInv'
<1> USE DEF TypeInv
<1>1. Unnamed(c) /\ given[c] = {}
  BY OpenIsUnnamed
<1>2. client'[c].pc = "await" /\ \A d \in Clients : d # c => client'[d] = client[d]
  BY DEF TypeOK, Submissions
<1>3. /\ hold.command \in Commands /\ deferred \in Commands
      /\ cmd.input = c /\ cmd.by = 0 /\ NoCommand.input = NoOne /\ NoOne \notin Clients
  BY RunsAssumption DEF TypeOK, Holds, NoCommand
<1>4. \/ /\ hold.command = NoCommand /\ hold.kind = "none" /\ hold.pc = "none"
         /\ hold'.command = cmd /\ hold'.kind = "start" /\ hold'.pc = "read"
         /\ deferred' = deferred
      \/ hold' = hold /\ deferred = NoCommand /\ deferred' = cmd
  BY ReservationFields
<1>5. /\ Runs' = Runs /\ \A d \in Clients : (HasRun(d)' <=> HasRun(d))
      /\ \A d \in Clients : (Queued(d)' <=> Queued(d))
  BY DEF Runs, HasRun, Queued
<1>6. QueuedIsDone'
  BY <1>1, <1>2, <1>5 DEF TakenInv, QueuedIsDone, Unnamed
<1>7. HeadIsDone'
  BY <1>1, <1>2, <1>5 DEF TakenInv, HeadIsDone, Unnamed
<1>8. CommandsFit' /\ CommandsDiffer'
  BY <1>1, <1>2, <1>3, <1>4
     DEF TakenInv, CommandsFit, CommandFits, CommandsDiffer, Unnamed
<1>9. StartedIsTold'
  <2> SUFFICES ASSUME NEW d \in Clients, HasRun(d)
               PROVE  \/ client'[d].pc = "done"
                      \/ /\ client'[d].pc = "await" /\ ToldStarted'
                         /\ hold'.command.input = d /\ hold'.command.by = 0
    BY <1>5 DEF StartedIsTold
  <2>1. d # c
    BY <1>1 DEF Unnamed
  <2>2. client[d].pc = "done" \/ (hold.command.input = d /\ client[d].pc = "await"
                                  /\ ToldStarted /\ hold.command.by = 0)
    BY DEF TakenInv, StartedIsTold
  <2>3. QED
    BY <1>2, <1>3, <1>4, <2>1, <2>2 DEF ToldStarted
<1>10. GivenIsTrue'
  <2>1. ASSUME NEW d \in Clients, d # c, Unnamed(d) PROVE Unnamed(d)'
    BY <1>3, <1>4, <1>5, <2>1 DEF Unnamed
  <2>2. QED
    BY <1>1, <1>2, <1>5, <2>1 DEF TakenInv, GivenIsTrue
<1>11. OneRunEach' /\ LooksFirst'
  BY <1>4, <1>5 DEF TakenInv, OneRunEach, LooksFirst, HasRun
<1>12. CommandsName'
  BY <1>3, <1>4, <1>5 DEF TakenInv, CommandsName
<1>13. QED
  BY <1>6, <1>7, <1>8, <1>9, <1>10, <1>11, <1>12 DEF TakenInv

(* The actor takes the start an ended run asks for. *)
LEMMA TakenFromTask ==
    ASSUME TypeInv, TakenInv, NEW t \in Runs, NEW cmd, runs[t].at = "ask",
           cmd = [input |-> runs[t].head, by |-> t],
           Goes(t, "await"), client' = client, queue' = queue, given' = given,
           \/ hold = NoHold /\ hold' = Start(cmd) /\ deferred' = deferred
           \/ hold # NoHold /\ deferred = NoCommand /\ deferred' = cmd /\ hold' = hold
    PROVE  TakenInv'
<1> USE DEF TypeInv
<1> DEFINE c == runs[t].head
<1>1. c \in Clients /\ client[c].pc = "done" /\ t # 0
  BY DEF TakenInv, CommandsName, HeadIsDone, TypeOK, Runs
<1>2. /\ Runs' = Runs
      /\ \A r \in Runs : /\ runs'[r].from = runs[r].from
                         /\ runs'[r].head = runs[r].head
                         /\ runs'[r].at = "ask" => runs[r].at = "ask"
  <2>1. RunBecomes(t, runs[t].status, "await", runs[t].head)
    BY GoesOn DEF RunSteps
  <2>2. QED
    BY <2>1 DEF RunBecomes
<1>3. /\ hold.command \in Commands /\ deferred \in Commands
      /\ cmd.input = c /\ cmd.by = t /\ NoCommand.input = NoOne /\ NoOne \notin Clients
  BY RunsAssumption DEF TypeOK, Holds, NoCommand
<1>4. \/ /\ hold.command = NoCommand /\ hold.kind = "none" /\ hold.pc = "none"
         /\ hold'.command = cmd /\ hold'.kind = "start" /\ hold'.pc = "read"
         /\ deferred' = deferred
      \/ hold' = hold /\ deferred = NoCommand /\ deferred' = cmd
  BY ReservationFields
<1> HIDE DEF c
<1>5. /\ \A d \in Clients : (HasRun(d)' <=> HasRun(d))
      /\ \A d \in Clients : (Queued(d)' <=> Queued(d))
  BY <1>2 DEF HasRun, Queued
<1>6. QueuedIsDone' /\ HeadIsDone'
  BY <1>2, <1>5 DEF TakenInv, QueuedIsDone, HeadIsDone
<1>7. CommandsFit' /\ CommandsDiffer'
  BY <1>1, <1>3, <1>4 DEF TakenInv, CommandsFit, CommandFits, CommandsDiffer
<1>8. StartedIsTold'
  BY <1>3, <1>4, <1>5 DEF TakenInv, StartedIsTold, ToldStarted
<1>9. GivenIsTrue'
  <2>1. ~Unnamed(c)
    BY DEF Unnamed, c
  <2>2. ASSUME NEW d \in Clients, Unnamed(d) PROVE Unnamed(d)'
    BY <1>2, <1>3, <1>4, <1>5, <2>1, <2>2 DEF Unnamed
  <2>3. QED
    BY <1>5, <2>2 DEF TakenInv, GivenIsTrue
<1>10. OneRunEach'
  BY <1>2 DEF TakenInv, OneRunEach
<1>11. LooksFirst'
  BY <1>4, <1>5 DEF TakenInv, LooksFirst, CommandsName
<1>12. CommandsName'
  BY <1>1, <1>2, <1>3, <1>4 DEF TakenInv, CommandsName
<1>13. QED
  BY <1>6, <1>7, <1>8, <1>9, <1>10, <1>11, <1>12 DEF TakenInv

(* A client's answer: one that was told its session is busy tries again, any
   other is done. *)
LEMMA AnswerTells ==
    ASSUME TypeOK, NEW cmd \in Commands, NEW result, client' = ClientAnswered(cmd, result)
    PROVE  /\ \A d \in Clients : d # cmd.input \/ cmd.by # 0 => client'[d] = client[d]
           /\ cmd.by = 0 /\ cmd.input \in Clients =>
                \/ client'[cmd.input].pc = "done"
                \/ client'[cmd.input].pc = "submit" /\ result = "running"
           /\ cmd.by = 0 /\ cmd.input \in Clients =>
                client'[cmd.input].run = client[cmd.input].run
<1> DEFINE c == cmd.input
           again == /\ result = "running" /\ client[c].way # "start"
                    /\ client[c].tries + 1 < SubmitAttempts
           pc == IF again THEN "submit" ELSE "done"
<1>1. client \in [Clients -> Submissions]
  BY DEF TypeOK
<1>2. CASE cmd.by # 0
  BY <1>2 DEF ClientAnswered
<1>3. CASE cmd.by = 0
  <2>1. client' = [client EXCEPT ![c].pc = pc,
                                 ![c].tries = IF again THEN @ + 1 ELSE @]
    BY <1>3, Zenon DEF ClientAnswered
  <2>2. pc = "done" \/ (pc = "submit" /\ result = "running")
    OBVIOUS
  <2> HIDE DEF pc, again, c
  <2>3. \A d \in Clients : d # c => client'[d] = client[d]
    BY <1>1, <2>1
  <2>4. c \in Clients => client'[c].pc = pc /\ client'[c].run = client[c].run
    BY <1>1, <2>1 DEF Submissions
  <2>5. QED
    BY <1>3, <2>2, <2>3, <2>4 DEF c
<1>4. QED
  BY <1>2, <1>3

(* handle_actor_command of Start. *)
LEMMA TakenStart ==
    ASSUME TypeInv, TakenInv, NEW cmd \in Asked, HandleStart(cmd)
    PROVE  TakenInv'
<1> USE DEF TypeInv
<1>1. UNCHANGED <<queue, given>>
  BY DEF HandleStart
<1>2. CASE \E c \in Clients : cmd = [input |-> c, by |-> 0] /\ client[c].pc = "ask"
  <2>1. PICK c \in Clients : cmd = [input |-> c, by |-> 0] /\ client[c].pc = "ask"
    BY <1>2
  <2>2. cmd.input = c /\ cmd.by = 0 /\ cmd \in Commands
    BY <2>1 DEF Commands
  <2>3. CASE Taken(cmd) /\ (\/ hold = NoHold /\ hold' = Start(cmd) /\ deferred' = deferred
                            \/ /\ hold # NoHold /\ deferred = NoCommand
                               /\ deferred' = cmd /\ hold' = hold)
    <3>1. client' = [client EXCEPT ![c].pc = "await"] /\ runs' = runs
      BY <2>2, <2>3 DEF Taken
    <3>2. QED
      BY <1>1, <2>1, <2>3, <3>1, TakenFromClient
  <2>4. CASE Answered(cmd, "running") /\ UNCHANGED <<hold, deferred>>
    <3>1. runs' = runs /\ client' = ClientAnswered(cmd, "running")
      BY <2>2, <2>4 DEF Answered, TaskAnswered
    <3>2. ClientsStay
      BY <2>1, <2>2, <3>1, AnswerTells DEF ClientsStay
    <3>3. QueueShrinks
      BY <1>1, QueueLess
    <3>4. QED
      BY <1>1, <2>4, <3>1, <3>2, <3>3, LessBySame, TakenIdle
  <2>5. QED
    BY <2>3, <2>4 DEF HandleStart
<1>3. CASE \E t \in Runs : cmd = [input |-> runs[t].head, by |-> t] /\ runs[t].at = "ask"
  <2>1. PICK t \in Runs : cmd = [input |-> runs[t].head, by |-> t] /\ runs[t].at = "ask"
    BY <1>3
  <2>2. cmd.input = runs[t].head /\ cmd.by = t /\ t # 0 /\ cmd \in Commands
    BY <2>1, AskedType DEF TypeOK, Runs
  <2>3. CASE Taken(cmd) /\ (\/ hold = NoHold /\ hold' = Start(cmd) /\ deferred' = deferred
                            \/ /\ hold # NoHold /\ deferred = NoCommand
                               /\ deferred' = cmd /\ hold' = hold)
    <3>1. Goes(t, "await") /\ client' = client
      BY <2>2, <2>3 DEF Taken, Goes
    <3>2. QED
      BY <1>1, <2>1, <2>3, <3>1, TakenFromTask
  <2>4. CASE Answered(cmd, "running") /\ UNCHANGED <<hold, deferred>>
    <3>1. runs' = TaskAnswered(cmd, "running") /\ client' = client /\ "running" \in Results
      BY <2>2, <2>4 DEF Answered, ClientAnswered, Results
    <3>2. RunsNameLess
      BY <2>2, <3>1, AnswerMoves, LessByOne, LessBySame
    <3>3. QueueShrinks /\ ClientsStay
      BY <1>1, <3>1, QueueLess DEF ClientsStay
    <3>4. QED
      BY <1>1, <2>4, <3>2, <3>3, TakenIdle
  <2>5. QED
    BY <2>3, <2>4 DEF HandleStart
<1>4. QED
  BY <1>2, <1>3 DEF Asked

(* The reservation is released: the command that was kept for later takes it,
   and the sender of the one before is answered. *)
LEMMA TakenRelease ==
    ASSUME TypeInv, TakenInv, Release
    PROVE  TakenInv'
<1> USE DEF TypeInv
<1> DEFINE c == hold.command.input
<1>1. /\ hold.command \in Commands /\ hold.result \in Results /\ deferred \in Commands
      /\ NoCommand.input = NoOne /\ NoOne \notin Clients
  BY RunsAssumption DEF TypeOK, Holds, NoCommand
<1>2. /\ hold'.command = deferred /\ hold'.pc \in {"none", "read"}
      /\ hold'.kind = "start" <=> deferred # NoCommand
      /\ deferred' = NoCommand /\ UNCHANGED <<queue, given>>
  BY ReservationFields DEF Release
<1>3. RunsNameLess
  BY <1>1, AnswerMoves, LessByOne, LessBySame DEF Release, Answered
<1>4. \A d \in Clients :
         \/ client'[d] = client[d]
         \/ /\ d = c /\ hold.command.by = 0 /\ client[d].pc = "await"
            /\ \/ client'[d].pc = "done"
               \/ client'[d].pc = "submit" /\ hold.result = "running"
  <2>1. CASE hold.kind = "start"
    <3>1. client' = ClientAnswered(hold.command, hold.result)
      BY <2>1 DEF Release, Answered
    <3>2. hold.command.by = 0 /\ c \in Clients => client[c].pc = "await"
      BY DEF TakenInv, CommandsFit, CommandFits
    <3>3. QED
      BY <1>1, <3>1, <3>2, AnswerTells
  <2>2. CASE hold.kind # "start"
    BY <2>2 DEF Release
  <2>3. QED
    BY <2>1, <2>2
<1>5. /\ Runs' = Runs /\ \A d \in Clients : (HasRun(d)' <=> HasRun(d))
      /\ \A d \in Clients : (Queued(d)' <=> Queued(d))
  BY <1>2, <1>3 DEF RunsNameLess, HasRun, Queued
<1>6. \A d \in Clients : client[d].pc = "done" => client'[d].pc = "done"
  BY <1>4
<1>7. QueuedIsDone' /\ HeadIsDone'
  BY <1>1, <1>3, <1>5, <1>6 DEF TakenInv, QueuedIsDone, HeadIsDone, RunsNameLess
<1>8. CommandsFit'
  <2> SUFFICES ASSUME deferred.input \in Clients
               PROVE  client'[deferred.input].pc
                         = IF deferred.by = 0 THEN "await" ELSE "done"
    BY <1>1, <1>2 DEF CommandsFit, CommandFits
  <2> DEFINE d == deferred.input
  <2>1. client[d].pc = IF deferred.by = 0 THEN "await" ELSE "done"
    BY DEF TakenInv, CommandsFit, CommandFits
  <2>2. ASSUME d = c, hold.command.by = 0, client[d].pc = "await" PROVE FALSE
    <3>1. deferred.by = 0
      BY <2>1, <2>2
    <3>2. hold.command = deferred
      BY <1>1, <2>2, <3>1 DEF Commands
    <3>3. QED
      BY <3>1, <3>2 DEF TakenInv, CommandsDiffer
  <2>3. QED
    BY <1>4, <2>1, <2>2
<1>9. CommandsDiffer'
  BY <1>1, <1>2 DEF CommandsDiffer
<1>10. StartedIsTold'
  <2> SUFFICES ASSUME NEW d \in Clients, HasRun(d) PROVE client'[d].pc = "done"
    BY <1>5 DEF StartedIsTold
  <2>1. client[d].pc = "done" \/ (d = c /\ ToldStarted /\ hold.command.by = 0
                                  /\ client[d].pc = "await")
    BY DEF TakenInv, StartedIsTold
  <2>2. hold.pc = "release"
    BY DEF Release
  <2>3. CASE d = c /\ ToldStarted /\ hold.command.by = 0 /\ client[d].pc = "await"
    <3>1. hold.kind = "start"
      BY <2>3 DEF TakenInv, CommandsName
    <3>2. client' = ClientAnswered(hold.command, hold.result)
      BY <3>1 DEF Release, Answered
    <3>3. hold.result # "running"
      BY <2>2, <2>3 DEF ToldStarted, Committed
    <3>4. QED
      BY <1>1, <2>3, <3>2, <3>3, AnswerTells
  <2>4. QED
    BY <1>6, <2>1, <2>3
<1>11. GivenIsTrue'
  <2>1. ASSUME NEW d \in Clients, Unnamed(d) PROVE Unnamed(d)'
    BY <1>1, <1>2, <1>3, <1>5, <2>1 DEF Unnamed, RunsNameLess
  <2>2. QED
    BY <1>2, <1>5, <1>6, <2>1 DEF TakenInv, GivenIsTrue
<1>12. OneRunEach'
  BY <1>3 DEF TakenInv, OneRunEach, RunsNameLess
<1>13. LooksFirst'
  BY <1>2 DEF LooksFirst
<1>14. CommandsName'
  BY <1>1, <1>2, <1>3 DEF TakenInv, CommandsName, RunsNameLess
<1>15. QED
  BY <1>7, <1>8, <1>9, <1>10, <1>11, <1>12, <1>13, <1>14 DEF TakenInv

(* The holder of the reservation moves on without answering. *)
LEMMA TakenHolds ==
    ASSUME TypeInv, TakenInv, \/ ReadSession \/ PrepareStart \/ InsertActive
                              \/ SetUpRun \/ FailSetUp \/ LaunchRun
    PROVE  TakenInv'
<1> USE DEF TypeInv
<1>1. hold \in Holds
  BY DEF TypeOK
<1>2. deferred' = deferred /\ given' = given
  BY DEF ReadSession, PrepareStart, InsertActive, SetUpRun, FailSetUp, LaunchRun,
         clientVars
<1>3. ASSUME NEW result, GiveUp(result)
      PROVE  /\ hold'.kind = hold.kind /\ hold'.command = hold.command
             /\ hold'.pc = "release" /\ hold'.result = result
  BY <1>1, <1>3 DEF GiveUp, Holds
<1>4. CASE ReadSession \/ PrepareStart
  <2>1. runs' = runs /\ client' = client /\ queue' = queue
    BY <1>4 DEF ReadSession, PrepareStart, logVars, clientVars
  <2>2. RunsNameLess /\ ClientsStay /\ QueueShrinks
    BY <2>1, LessBySame, QueueLess DEF ClientsStay
  <2>3. ~ToldStarted
    BY <1>4 DEF ToldStarted, ReadSession, PrepareStart, Starting, Committed
  <2>4. hold'.kind = hold.kind /\ hold'.command = hold.command /\ LooksFirst'
    <3>1. \A c : HasRun(c)' <=> HasRun(c)
      BY <2>1 DEF HasRun, Runs
    <3>2. CASE ReadSession
      <4> DEFINE known == hold.kind = "start" /\ HasRun(hold.command.input)
                 seen == IF known THEN "known"
                         ELSE IF status = "running" THEN "running" ELSE "idle"
      <4>1. hold' = [hold EXCEPT !.pc = "prepare", !.seen = seen]
        BY <3>2 DEF ReadSession
      <4>2. seen # "known" => ~known
        <5> HIDE DEF known
        <5>1. QED
          OBVIOUS
      <4> HIDE DEF seen
      <4>3. /\ hold'.pc = "prepare" /\ hold'.seen = seen /\ hold'.kind = hold.kind
            /\ hold'.command = hold.command
        BY <1>1, <4>1 DEF Holds
      <4>4. QED
        BY <3>1, <4>2, <4>3 DEF LooksFirst
    <3>3. CASE \E result \in Results : GiveUp(result)
      BY <1>3, <3>3 DEF LooksFirst
    <3>4. CASE /\ Starting("prepare") /\ hold.seen = "idle"
               /\ hold' = [hold EXCEPT !.pc = "commit"]
      <4>1. hold'.pc = "commit" /\ hold'.kind = hold.kind /\ hold'.command = hold.command
        BY <1>1, <3>4 DEF Holds
      <4>2. QED
        BY <3>1, <3>4, <4>1 DEF TakenInv, LooksFirst, Starting
    <3>5. QED
      BY <1>4, <3>2, <3>3, <3>4 DEF PrepareStart, Results
  <2>5. QED
    BY <1>2, <2>2, <2>3, <2>4, TakenStep DEF SameCommand
<1>5. ASSUME NEW pc \in Committed, hold' = [hold EXCEPT !.pc = pc], runs' = runs,
             client' = client, queue' = queue
      PROVE  TakenInv'
  <2>1. hold'.pc = pc /\ hold'.kind = hold.kind /\ hold'.command = hold.command
    BY <1>1, <1>5 DEF Holds
  <2>2. SameCommand /\ LooksFirst'
    BY <2>1 DEF SameCommand, LooksFirst, ToldStarted, Committed
  <2>3. RunsNameLess /\ ClientsStay /\ QueueShrinks
    BY <1>5, LessBySame, QueueLess DEF ClientsStay
  <2>4. QED
    BY <1>2, <2>2, <2>3, TakenStep
<1>6. ASSUME NEW result \in {"ok", "error"}, GiveUp(result), RunsNameLess,
             ClientsStay, QueueShrinks
      PROVE  TakenInv'
  <2>1. SameCommand /\ LooksFirst'
    BY <1>3, <1>6 DEF SameCommand, LooksFirst, ToldStarted
  <2>2. QED
    BY <1>2, <1>6, <2>1, TakenStep
<1>7. CASE InsertActive
  BY <1>5, <1>7 DEF InsertActive, logVars, clientVars, Committed
<1>8. CASE SetUpRun \/ FailSetUp
  <2> DEFINE r == hold.run
  <2>1. CASE SetUpRun
    BY <1>5, <2>1 DEF SetUpRun, clientVars, Committed
  <2>2. CASE FailSetUp
    <3>1. r \in Runs
      BY <2>2 DEF HoldsARun, Committed, FailSetUp, Starting
    <3>2. RunBecomes(r, "failed", "done", runs[r].head)
      BY <2>2, <3>1, FinishedIs DEF FailSetUp, RunSteps
    <3>3. RunsNameLess
      BY <3>1, <3>2, LessByOne
    <3>4. ClientsStay /\ QueueShrinks
      BY <2>2, GivenBackStay, QueueLess DEF FailSetUp, QueueAfter
    <3>5. QED
      BY <1>6, <2>2, <3>3, <3>4 DEF FailSetUp
  <2>3. QED
    BY <1>8, <2>1, <2>2
<1>9. CASE LaunchRun
  <2> DEFINE r == hold.run
  <2>1. r \in Runs
    BY <1>9 DEF HoldsARun, Committed, LaunchRun, Starting
  <2>2. /\ Goes(r, "done") \/ Goes(r, "top")
        /\ GiveUp("ok") /\ client' = client /\ queue' = queue
    BY <1>9 DEF LaunchRun, Goes, clientVars
  <2>3. RunsNameLess
    BY <2>1, <2>2, GoesOn, LessByOne DEF RunSteps
  <2>4. ClientsStay /\ QueueShrinks
    BY <2>2, QueueLess DEF ClientsStay
  <2>5. QED
    BY <1>6, <2>2, <2>3, <2>4
<1>10. QED
  BY <1>4, <1>7, <1>8, <1>9

(* The run of an input is committed: the start has found that it has none. *)
LEMMA TakenCommit ==
    ASSUME TypeInv, TakenInv, CommitStart
    PROVE  TakenInv'
<1> USE DEF TypeInv
<1> DEFINE c == hold.command.input
<1>1. hold \in Holds /\ c \in Clients /\ ~HasRun(c)
  BY DEF TypeOK, CommitStart, Starting, TakenInv, CommandsName, LooksFirst
<1>2. RunAdded(c)
  BY <1>1, AppendAdds DEF CommitStart
<1>3. /\ hold'.pc = "insert" /\ hold'.kind = hold.kind /\ hold'.command = hold.command
      /\ deferred' = deferred /\ client' = client
  BY <1>1 DEF CommitStart, Inserting, Holds
<1>4. given' = [given EXCEPT ![c] = @ \cup {"run"}] /\ ~ToldStarted
  BY DEF CommitStart, ToldStarted, Starting, Committed
<1>5. QueueShrinks
  BY QueueLess DEF CommitStart
<1> HIDE DEF c
<1>6. /\ Runs' = Runs \cup {Len(runs) + 1} /\ \A j \in Runs : runs'[j] = runs[j]
      /\ Len(runs) + 1 \notin Runs
      /\ runs'[Len(runs) + 1].from = c /\ runs'[Len(runs) + 1].head = NoOne
      /\ runs'[Len(runs) + 1].at = "none"
  BY <1>2 DEF RunAdded, NewRun
<1>7. /\ NoOne \notin Clients
      /\ \A d \in Clients : HasRun(d)' <=> (HasRun(d) \/ d = c)
  BY <1>6, RunsAssumption DEF HasRun
<1>8. QueuedIsDone' /\ HeadIsDone'
  BY <1>3, <1>5, <1>6, <1>7 DEF TakenInv, QueuedIsDone, HeadIsDone, QueueShrinks
<1>9. CommandsFit' /\ CommandsDiffer'
  BY <1>3 DEF TakenInv, CommandsFit, CommandFits, CommandsDiffer
<1>10. StartedIsTold'
  <2>1. client[c].pc = "done" \/ (client[c].pc = "await" /\ hold.command.by = 0)
    BY <1>1 DEF TakenInv, CommandsFit, CommandFits, c
  <2>2. \A d \in Clients : HasRun(d) => client[d].pc = "done"
    BY <1>4 DEF TakenInv, StartedIsTold
  <2>3. QED
    BY <1>3, <1>7, <2>1, <2>2 DEF StartedIsTold, ToldStarted, Committed, c
<1>11. GivenIsTrue'
  <2>1. /\ \A d \in Clients : d # c => given'[d] = given[d]
        /\ given'[c] = given[c] \cup {"run"}
    BY <1>1, <1>4 DEF TypeOK
  <2>2. ASSUME NEW d \in Clients, Unnamed(d) PROVE Unnamed(d)' /\ d # c
    BY <1>3, <1>5, <1>6, <1>7, <2>2 DEF Unnamed, QueueShrinks, c
  <2>3. ASSUME NEW d \in Clients
        PROVE  /\ "run" \in given'[d] => HasRun(d)'
               /\ given'[d] \ {"run"} # {} => client'[d].pc = "done"
               /\ "steered" \in given'[d] => given'[d] = {"steered"} /\ Unnamed(d)'
    <3>1. CASE d # c
      BY <1>3, <1>7, <2>1, <2>2, <3>1 DEF TakenInv, GivenIsTrue
    <3>2. CASE d = c
      <4>1. "steered" \notin given[c]
        BY <1>1, <2>2 DEF TakenInv, GivenIsTrue
      <4>2. given'[c] \ {"run"} = given[c] \ {"run"}
        BY <2>1
      <4>3. QED
        BY <1>1, <1>3, <1>7, <2>1, <3>2, <4>1, <4>2 DEF TakenInv, GivenIsTrue
    <3>3. QED
      BY <3>1, <3>2
  <2>4. QED
    BY <2>3 DEF GivenIsTrue
<1>12. OneRunEach'
  BY <1>1, <1>6 DEF TakenInv, OneRunEach, HasRun
<1>13. LooksFirst'
  BY <1>3 DEF LooksFirst
<1>14. CommandsName'
  BY <1>3, <1>6 DEF TakenInv, CommandsName
<1>15. QED
  BY <1>8, <1>9, <1>10, <1>11, <1>12, <1>13, <1>14 DEF TakenInv

(* The run of the producers' wake is no input's. *)
LEMMA TakenWake ==
    ASSUME TypeInv, TakenInv, CommitWake
    PROVE  TakenInv'
<1> USE DEF TypeInv
<1>1. /\ hold \in Holds /\ hold.kind = "wake" /\ ~ToldStarted
      /\ UNCHANGED <<queue, client, given, deferred>>
  BY DEF TypeOK, CommitWake, Starting, clientVars, ToldStarted, Committed
<1>2. QueueShrinks /\ ClientsStay
  BY <1>1, QueueLess DEF ClientsStay
<1>3. CASE GiveUp("error") /\ runs' = runs
  <2>1. hold'.kind = hold.kind /\ hold'.command = hold.command
    BY <1>1, <1>3 DEF GiveUp, Holds
  <2>2. SameCommand /\ LooksFirst'
    BY <1>1, <2>1 DEF SameCommand, LooksFirst
  <2>3. QED
    BY <1>1, <1>2, <1>3, <2>2, LessBySame, TakenStep
<1>4. CASE runs' = Append(runs, NewRun(NoOne)) /\ Inserting
  <2>1. /\ hold'.pc = "insert" /\ hold'.kind = hold.kind /\ hold'.command = hold.command
    BY <1>1, <1>4 DEF Inserting, Holds
  <2>2. RunAdded(NoOne)
    BY <1>4, AppendAdds
  <2>3. /\ Runs' = Runs \cup {Len(runs) + 1} /\ \A j \in Runs : runs'[j] = runs[j]
        /\ runs'[Len(runs) + 1].from = NoOne /\ runs'[Len(runs) + 1].head = NoOne
        /\ runs'[Len(runs) + 1].at = "none"
    BY <2>2 DEF RunAdded, NewRun
  <2>4. NoOne \notin Clients /\ \A d \in Clients : HasRun(d)' <=> HasRun(d)
    BY <2>3, RunsAssumption DEF HasRun
  <2>5. QueuedIsDone' /\ HeadIsDone' /\ CommandsFit' /\ CommandsDiffer'
    BY <1>1, <1>2, <2>1, <2>3, <2>4 DEF TakenInv, QueuedIsDone, HeadIsDone,
       QueueShrinks, CommandsFit, CommandFits, CommandsDiffer
  <2>6. StartedIsTold'
    BY <1>1, <2>4 DEF TakenInv, StartedIsTold
  <2>7. GivenIsTrue'
    <3>1. ASSUME NEW d \in Clients, Unnamed(d) PROVE Unnamed(d)'
      BY <1>1, <1>2, <2>1, <2>3, <2>4, <3>1 DEF Unnamed, QueueShrinks
    <3>2. QED
      BY <1>1, <2>4, <3>1 DEF TakenInv, GivenIsTrue
  <2>8. OneRunEach' /\ LooksFirst' /\ CommandsName'
    BY <1>1, <2>1, <2>3, <2>4
       DEF TakenInv, OneRunEach, LooksFirst, CommandsName
  <2>9. QED
    BY <2>5, <2>6, <2>7, <2>8 DEF TakenInv
<1>5. QED
  BY <1>3, <1>4 DEF CommitWake

-----------------------------------------------------------------------------
(* The tasks of runs. *)

(* The inputs steered into a run become inputs of its next turn. *)
LEMMA TakenSteers ==
    ASSUME TypeInv, TakenInv, NEW r \in Runs, Submitted(r), Goes(r, "top"),
           UNCHANGED <<queue, hold, deferred>>
    PROVE  TakenInv'
<1> USE DEF TypeInv
<1>1. ASSUME NEW c \in Clients
      PROVE  /\ c \notin SteeredInto(r) => client'[c] = client[c] /\ given'[c] = given[c]
             /\ c \in SteeredInto(r) =>
                   /\ client[c].pc = "pending" /\ client'[c].pc = "done"
                   /\ given'[c] = given[c] \cup {"steered"}
  <2>1. client[c] \in Submissions
    BY DEF TypeOK
  <2>2. [client[c] EXCEPT !.pc = "done"].pc = "done"
    BY <2>1 DEF Submissions
  <2>3. QED
    BY <2>2 DEF Submitted, SteeredInto
<1>2. ClientsStay
  BY <1>1 DEF ClientsStay
<1>3. GivenMore
  <2>1. ASSUME NEW c \in SteeredInto(r)
        PROVE  Unnamed(c) /\ given[c] = {} /\ given'[c] = {"steered"}
    <3>1. c \in Clients /\ client[c].pc = "pending"
      BY DEF SteeredInto
    <3>2. QED
      BY <1>1, <3>1, OpenIsUnnamed
  <2>2. QED
    BY <1>1, <2>1 DEF GivenMore
<1>4. RunsNameLess
  BY GoesOn, LessByOne DEF RunSteps
<1>5. QED
  BY <1>2, <1>3, <1>4, QueueLess, TakenIdleGives

(* The queue's head is asked to be started: its client was answered when it
   was queued. *)
LEMMA TakenDrain ==
    ASSUME TakenInv, NEW r \in Runs, NEW c \in Clients, Queued(c),
           RunBecomes(r, runs[r].status, "ask", c),
           UNCHANGED <<queue, hold, deferred, clientVars>>
    PROVE  TakenInv'
<1>1. /\ Runs' = Runs /\ \A j \in Runs : j # r => runs'[j] = runs[j]
      /\ runs'[r].from = runs[r].from /\ runs'[r].head = c
  BY DEF RunBecomes
<1>2. /\ client' = client /\ given' = given
      /\ \A d \in Clients : HasRun(d)' <=> HasRun(d)
      /\ \A d \in Clients : Queued(d)' <=> Queued(d)
  BY <1>1 DEF HasRun, Queued, clientVars
<1>3. client[c].pc = "done" /\ ~Unnamed(c)
  BY DEF TakenInv, QueuedIsDone, Unnamed
<1>4. QueuedIsDone' /\ HeadIsDone'
  BY <1>1, <1>2, <1>3 DEF TakenInv, QueuedIsDone, HeadIsDone
<1>5. CommandsFit' /\ CommandsDiffer' /\ StartedIsTold'
  BY <1>2 DEF TakenInv, CommandsFit, CommandFits, CommandsDiffer, StartedIsTold,
     ToldStarted
<1>6. GivenIsTrue'
  <2>1. ASSUME NEW d \in Clients, Unnamed(d) PROVE Unnamed(d)'
    BY <1>1, <1>2, <1>3, <2>1 DEF Unnamed
  <2>2. QED
    BY <1>2, <2>1 DEF TakenInv, GivenIsTrue
<1>7. OneRunEach'
  <2>1. \A j \in Runs : runs'[j].from = runs[j].from
    BY <1>1
  <2>2. QED
    BY <1>1, <2>1 DEF TakenInv, OneRunEach
<1>8. LooksFirst'
  BY <1>2 DEF TakenInv, LooksFirst, CommandsName
<1>9. CommandsName'
  BY <1>1 DEF TakenInv, CommandsName
<1>10. QED
  BY <1>4, <1>5, <1>6, <1>7, <1>8, <1>9 DEF TakenInv

(* The other steps of a run's task name no input. *)
LEMMA TakenTask ==
    ASSUME TypeInv, TakenInv, NEW r \in Runs, RunTask(r)
    PROVE  TakenInv'
<1> USE DEF TypeInv
<1>1. ASSUME NEW o, NEW pc \in RunSteps \ {"ask"}, NEW h \in {NoOne, runs[r].head},
             RunBecomes(r, o, pc, h), ClientsStay, QueueShrinks,
             UNCHANGED <<hold, deferred, given>>
      PROVE  TakenInv'
  BY <1>1, LessByOne, TakenIdle
<1>2. ASSUME client' = client, queue' = queue
      PROVE  ClientsStay /\ QueueShrinks
  BY <1>2, QueueLess DEF ClientsStay
<1>3. ASSUME NEW pc \in RunSteps \ {"ask"}, Goes(r, pc),
             UNCHANGED <<client, queue, hold, deferred, given>>
      PROVE  TakenInv'
  BY <1>1, <1>2, <1>3, GoesOn
<1>4. ASSUME NEW o \in {"completed", "failed", "cancelled"}, Finish(r, o),
             UNCHANGED <<hold, deferred, given>>
      PROVE  TakenInv'
  <2>1. RunBecomes(r, o, "ended", runs[r].head)
    BY <1>4, FinishType
  <2>2. ClientsStay /\ QueueShrinks
    BY <1>4, GivenBackStay, QueueLess DEF Finish, QueueAfter
  <2>3. QED
    BY <1>1, <1>4, <2>1, <2>2 DEF RunSteps
<1>5. CASE EndFailed(r) \/ EndCancelled(r)
  <2>1. UNCHANGED <<hold, deferred, given>>
    BY <1>5 DEF EndFailed, EndCancelled, engineVars
  <2>2. CASE Finish(r, "failed") \/ Finish(r, "cancelled")
    BY <1>4, <2>1, <2>2
  <2>3. CASE Goes(r, "ended") /\ UNCHANGED <<queue, client>>
    BY <1>3, <2>1, <2>3 DEF RunSteps
  <2>4. QED
    BY <1>5, <2>2, <2>3 DEF EndFailed, EndCancelled
<1>6. CASE Top(r) \/ AfterTurn(r) \/ CancelledInTools(r)
  <2>1. CASE /\ \E pc \in {"prompt", "complete", "cancelling"} : Goes(r, pc)
             /\ UNCHANGED <<client, queue, hold, deferred, given>>
    BY <1>3, <2>1 DEF RunSteps
  <2>2. CASE /\ runs' = [runs EXCEPT ![r].at = "tools", ![r].usedTools = TRUE]
             /\ UNCHANGED <<client, queue, hold, deferred, given>>
    BY <1>1, <1>2, <2>2, ToolsUsed DEF RunSteps
  <2>3. QED
    BY <1>6, <2>1, <2>2
       DEF Top, AfterTurn, CancelledInTools, Leaves, engineVars, clientVars
<1>7. CASE HandlePrompt(r)
  BY <1>3, <1>7 DEF HandlePrompt, RunSteps, clientVars
<1>8. CASE Turn(r)
  <2>1. /\ \E pc \in {"committed", "cancelling", "failing"} : Goes(r, pc)
        /\ UNCHANGED <<client, queue, hold, deferred, given>>
    BY <1>8 DEF Turn, Leaves, clientVars
  <2>2. QED
    BY <1>3, <2>1 DEF RunSteps
<1>9. CASE HandleComplete(r)
  <2>1. CASE Submitted(r) /\ Goes(r, "top") /\ UNCHANGED <<queue, hold, deferred>>
    BY <2>1, TakenSteers
  <2>2. CASE Finish(r, "completed") /\ UNCHANGED <<hold, deferred, given>>
    BY <1>4, <2>2
  <2>3. QED
    BY <1>9, <2>1, <2>2 DEF HandleComplete
<1>10. CASE RunTaskEnds(r)
  BY <1>1, <1>2, <1>10, TaskEnds DEF RunTaskEnds, RunSteps, clientVars
<1>11. CASE Drain(r)
  <2>1. CASE Goes(r, "done") /\ UNCHANGED <<client, queue, hold, deferred, given>>
    BY <1>3, <2>1 DEF RunSteps
  <2>2. CASE /\ queue # <<>>
             /\ runs' = [runs EXCEPT ![r].at = "ask", ![r].head = Head(queue)]
             /\ UNCHANGED <<queue, hold, deferred, clientVars>>
    <3>1. queue \in Seq(Clients)
      BY DEF TypeOK
    <3>2. Head(queue) \in Clients /\ Head(queue) = queue[1] /\ 1 \in DOMAIN queue
      BY <2>2, <3>1
    <3>3. Queued(Head(queue))
      BY <3>2 DEF Queued
    <3>4. RunBecomes(r, runs[r].status, "ask", Head(queue))
      BY <2>2, <3>2, HeadChanges DEF RunSteps
    <3>5. QED
      BY <2>2, <3>2, <3>3, <3>4, TakenDrain
  <2>3. QED
    BY <1>11, <2>1, <2>2 DEF Drain, engineVars, clientVars
<1>12. CASE AfterRefusal(r)
  <2>1. RunBecomes(r, runs[r].status, "drain", NoOne)
    BY <1>12, HeadChanges DEF AfterRefusal, RunSteps
  <2>2. UNCHANGED <<hold, deferred, client, given>> /\ ClientsStay
    BY <1>12 DEF AfterRefusal, engineVars, clientVars, ClientsStay
  <2>3. QueueShrinks
    BY <1>12, QueueLess DEF AfterRefusal
  <2>4. QED
    BY <1>1, <2>1, <2>2, <2>3 DEF RunSteps
<1>13. QED
  BY <1>5, <1>6, <1>7, <1>8, <1>9, <1>10, <1>11, <1>12 DEF RunTask

-----------------------------------------------------------------------------
(* The clients. *)

(* A client whose input waits for no answer moves on. *)
LEMMA OneClientMoves ==
    ASSUME TypeOK, NEW c \in Clients, client[c].pc \notin {"await", "done"},
           NEW pc \in {"submit", "deliver", "ask", "pending", "done"}, NEW n \in Nat,
           \/ client' = [client EXCEPT ![c].pc = pc]
           \/ client' = [client EXCEPT ![c].pc = pc, ![c].run = n]
    PROVE  ClientsStay /\ client'[c].pc = pc
<1>1. client \in [Clients -> Submissions]
  BY DEF TypeOK
<1>2. client'[c].pc = pc /\ \A d \in Clients : d # c => client'[d] = client[d]
  BY <1>1 DEF Submissions
<1>3. QED
  BY <1>2 DEF ClientsStay

(* session.submit_input and run.start, up to the actor's answer. *)
LEMMA TakenSubmit ==
    ASSUME TypeInv, TakenInv, NEW c \in Clients,
           (\E way \in Ways : Submit(c, way)) \/ Route(c) \/ Steer(c)
    PROVE  TakenInv'
<1> USE DEF TypeInv
<1>1. UNCHANGED <<runs, queue, hold, deferred, given>>
  BY DEF Submit, Route, Steer, logVars, engineVars
<1>2. client[c].pc \in {"idle", "submit", "deliver"}
  BY DEF Submit, Route, Steer, Delivering
<1>3. ClientsStay
  <2>1. CASE \E way \in Ways : Submit(c, way)
    <3>1. PICK way \in Ways : Submit(c, way)
      BY <2>1
    <3> DEFINE pc == IF way = "start" THEN "ask" ELSE "submit"
    <3>2. client' = [client EXCEPT ![c].way = way, ![c].pc = pc] /\ pc \in {"ask", "submit"}
      BY <3>1 DEF Submit
    <3> HIDE DEF pc
    <3>3. client'[c].pc = pc /\ \A d \in Clients : d # c => client'[d] = client[d]
      BY <3>2 DEF TypeOK, Submissions
    <3>4. QED
      BY <1>2, <3>2, <3>3 DEF ClientsStay
  <2>2. CASE Route(c)
    <3>1. \A r \in RunningRuns : r \in Nat
      BY DEF RunningRuns, Runs, TypeOK
    <3>2. QED
      BY <1>2, <2>2, <3>1, OneClientMoves DEF Route, SetClient
  <2>3. CASE Steer(c)
    BY <1>2, <2>3, OneClientMoves DEF Steer, SetClient
  <2>4. QED
    BY <2>1, <2>2, <2>3
<1>4. QED
  BY <1>1, <1>3, LessBySame, QueueLess, TakenIdle

(* queue_input: the input is queued and its client told so at once. *)
LEMMA TakenQueue ==
    ASSUME TypeInv, TakenInv, NEW c \in Clients, QueueInput(c)
    PROVE  TakenInv'
<1> USE DEF TypeInv
<1>1. UNCHANGED <<runs, hold, deferred, given>> /\ client[c].pc = "deliver"
  BY DEF QueueInput, Delivering
<1>2. CASE SetClient(c, "ask") /\ queue' = queue
  <2>1. ClientsStay
    BY <1>1, <1>2, OneClientMoves DEF SetClient
  <2>2. QED
    BY <1>1, <1>2, <2>1, LessBySame, QueueLess, TakenIdle
<1>3. CASE queue' = Append(queue, c) /\ SetClient(c, "done")
  <2>1. ClientsStay /\ client'[c].pc = "done"
    BY <1>1, <1>3, OneClientMoves DEF SetClient
  <2>2. \A d \in Clients : Queued(d)' => Queued(d) \/ d = c
    <3>1. queue \in Seq(Clients)
      BY DEF TypeOK
    <3>2. \A k \in DOMAIN queue' : queue'[k] = c \/ (k \in DOMAIN queue /\ queue'[k] = queue[k])
      BY <1>3, <3>1
    <3>3. QED
      BY <3>2 DEF Queued
  <2>3. Unnamed(c) /\ given[c] = {}
    BY <1>1, OpenIsUnnamed
  <2>4. /\ \A d \in Clients : client[d].pc \in {"await", "done"} => client'[d].pc = client[d].pc
        /\ Runs' = Runs /\ \A d \in Clients : HasRun(d)' <=> HasRun(d)
    BY <1>1, <2>1 DEF ClientsStay, Runs, HasRun
  <2>5. QueuedIsDone' /\ HeadIsDone'
    BY <1>1, <2>1, <2>2, <2>4 DEF TakenInv, QueuedIsDone, HeadIsDone
  <2>6. CommandsFit' /\ CommandsDiffer' /\ StartedIsTold'
    BY <1>1, <2>4 DEF TakenInv, CommandsFit, CommandFits, CommandsDiffer,
       StartedIsTold, ToldStarted
  <2>7. GivenIsTrue'
    <3>1. ASSUME NEW d \in Clients, Unnamed(d), d # c PROVE Unnamed(d)'
      BY <1>1, <2>2, <2>4, <3>1 DEF Unnamed
    <3>2. QED
      BY <1>1, <2>3, <2>4, <3>1 DEF TakenInv, GivenIsTrue
  <2>8. OneRunEach' /\ CommandsName'
    BY <1>1, <2>4 DEF TakenInv, OneRunEach, CommandsName
  <2>9. LooksFirst'
    BY <1>1, <2>4 DEF TakenInv, LooksFirst, CommandsName
  <2>10. QED
    BY <2>5, <2>6, <2>7, <2>8, <2>9 DEF TakenInv
<1>4. QED
  BY <1>2, <1>3 DEF QueueInput

(* recall_input: a steered input is one that waits no longer. *)
LEMMA TakenRecall ==
    ASSUME TypeInv, TakenInv, NEW c \in Clients, Recall(c)
    PROVE  TakenInv'
<1> USE DEF TypeInv
<1>1. /\ UNCHANGED <<runs, hold, deferred>>
      /\ given' = [given EXCEPT ![c] = @ \cup {"recalled"}]
  BY DEF Recall
<1>2. /\ given'[c] = given[c] \cup {"recalled"}
      /\ \A d \in Clients : d # c => given'[d] = given[d]
  BY <1>1 DEF TypeOK
<1>3. CASE /\ client[c].pc = "pending"
           /\ client' = [client EXCEPT ![c].pc = "done"] /\ queue' = queue
  <2>1. ClientsStay /\ client'[c].pc = "done"
    BY <1>3, OneClientMoves
  <2>2. "steered" \notin given[c]
    BY <1>3, OpenIsUnnamed
  <2>3. GivenMore
    BY <1>2, <2>1, <2>2 DEF GivenMore
  <2>4. QED
    BY <1>1, <1>3, <2>1, <2>3, LessBySame, QueueLess, TakenIdleGives
<1>4. CASE Queued(c) /\ queue' = Without(queue, c) /\ client' = client
  <2>1. client[c].pc = "done" /\ "steered" \notin given[c]
    BY <1>4 DEF TakenInv, QueuedIsDone, GivenIsTrue, Unnamed
  <2>2. GivenMore /\ ClientsStay
    BY <1>2, <1>4, <2>1 DEF GivenMore, ClientsStay
  <2>3. QED
    BY <1>1, <1>4, <2>2, LessBySame, QueueLess, TakenIdleGives
<1>5. QED
  BY <1>3, <1>4 DEF Recall

-----------------------------------------------------------------------------
(* The daemon. *)

(* A crash: the calls end, and with them the commands; the log and the queue
   keep what they name. *)
LEMMA TakenCrash ==
    ASSUME TypeInv, TakenInv, Crash
    PROVE  TakenInv'
<1> USE DEF TypeInv
<1>1. /\ Runs' = Runs
      /\ \A r \in Runs : /\ runs'[r].from = runs[r].from
                         /\ runs'[r].at = "done" /\ runs'[r].head = NoOne
  BY CrashRuns
<1>2. /\ hold'.command = NoCommand /\ hold'.kind = "none" /\ hold'.pc = "none"
      /\ deferred' = NoCommand /\ given' = given /\ queue' = queue
  BY ReservationFields DEF Crash
<1>3. NoCommand.input = NoOne /\ NoOne \notin Clients
  BY RunsAssumption DEF NoCommand
<1>4. ASSUME NEW c \in Clients
      PROVE  client[c].pc \in {"await", "done"} => client'[c].pc = "done"
  <2>1. client[c] \in Submissions
    BY DEF TypeOK
  <2>2. client'[c] = IF client[c].pc \in {"submit", "deliver", "ask", "await"}
                     THEN [client[c] EXCEPT !.pc = "done", !.run = 0] ELSE client[c]
    BY DEF Crash
  <2>3. QED
    BY <2>1, <2>2 DEF Submissions
<1>5. /\ \A c \in Clients : HasRun(c)' <=> HasRun(c)
      /\ \A c \in Clients : Queued(c)' <=> Queued(c)
  BY <1>1, <1>2 DEF HasRun, Queued
<1>6. QueuedIsDone' /\ HeadIsDone'
  BY <1>1, <1>3, <1>4, <1>5 DEF TakenInv, QueuedIsDone, HeadIsDone
<1>7. CommandsFit' /\ CommandsDiffer'
  BY <1>2, <1>3 DEF CommandsFit, CommandFits, CommandsDiffer
<1>8. StartedIsTold'
  BY <1>4, <1>5 DEF TakenInv, StartedIsTold
<1>9. GivenIsTrue'
  <2>1. ASSUME NEW d \in Clients, Unnamed(d) PROVE Unnamed(d)'
    BY <1>1, <1>2, <1>3, <1>5, <2>1 DEF Unnamed
  <2>2. QED
    BY <1>2, <1>4, <1>5, <2>1 DEF TakenInv, GivenIsTrue
<1>10. OneRunEach' /\ LooksFirst' /\ CommandsName'
  BY <1>1, <1>2, <1>3 DEF TakenInv, OneRunEach, LooksFirst, CommandsName
<1>11. QED
  BY <1>6, <1>7, <1>8, <1>9, <1>10 DEF TakenInv

(* A free reservation is taken for a wake or a compaction, which has no
   command. *)
LEMMA TakenReserves ==
    ASSUME TakenInv, hold = NoHold, hold'.command = NoCommand,
           hold'.kind \in {"wake", "compact"},
           UNCHANGED <<runs, client, queue, deferred, given>>
    PROVE  TakenInv'
<1>1. /\ hold.command = NoCommand /\ hold.kind = "none" /\ hold.pc = "none"
      /\ NoCommand.input = NoOne /\ NoOne \notin Clients
  BY ReservationFields, RunsAssumption DEF NoCommand
<1>2. /\ Runs' = Runs /\ \A c \in Clients : HasRun(c)' <=> HasRun(c)
      /\ \A c \in Clients : Queued(c)' <=> Queued(c)
  BY DEF Runs, HasRun, Queued
<1>3. ~ToldStarted
  BY <1>1 DEF ToldStarted, Committed
<1>4. QueuedIsDone' /\ HeadIsDone' /\ CommandsFit' /\ CommandsDiffer'
  BY <1>1, <1>2 DEF TakenInv, QueuedIsDone, HeadIsDone, CommandsFit, CommandFits,
     CommandsDiffer
<1>5. StartedIsTold'
  BY <1>2, <1>3 DEF TakenInv, StartedIsTold
<1>6. GivenIsTrue'
  <2>1. ASSUME NEW d \in Clients, Unnamed(d) PROVE Unnamed(d)'
    BY <1>1, <1>2, <2>1 DEF Unnamed
  <2>2. QED
    BY <1>2, <2>1 DEF TakenInv, GivenIsTrue
<1>7. OneRunEach' /\ LooksFirst' /\ CommandsName'
  BY <1>1, <1>2 DEF TakenInv, OneRunEach, LooksFirst, CommandsName
<1>8. QED
  BY <1>4, <1>5, <1>6, <1>7 DEF TakenInv

(* Every step keeps the invariant. *)
LEMMA TakenNext ==
    ASSUME TypeInv, TakenInv, [Next]_vars
    PROVE  TakenInv'
<1> USE DEF TypeInv
<1>1. ASSUME UNCHANGED <<runs, client, queue, hold, deferred, given>>
      PROVE  TakenInv'
  BY <1>1, LessBySame, QueueLess, TakenIdle DEF ClientsStay
<1>2. ASSUME RunsNameLess, UNCHANGED <<client, queue, hold, deferred, given>>
      PROVE  TakenInv'
  BY <1>2, QueueLess, TakenIdle DEF ClientsStay
<1>3. CASE UNCHANGED vars
  BY <1>1, <1>3 DEF vars, logVars, engineVars, clientVars
<1>4. CASE (\E cmd \in Asked : HandleStart(cmd)) \/ StartTask
  BY <1>4, TakenStart, TakenHolds, TakenCommit, TakenWake, TakenRelease DEF StartTask
<1>5. CASE WakeTask \/ Compact \/ ResumeHeld
  <2>1. UNCHANGED <<runs, client, queue, deferred, given>>
    BY <1>5 DEF WakeTask, BeginWake, ClearWake, Compact, ResumeHeld, logVars, clientVars
  <2>2. \/ hold' = hold
        \/ /\ hold = NoHold
           /\ \E kind \in {"wake", "compact"}, pc \in {"read", "release"} :
                 hold' = [NoHold EXCEPT !.kind = kind, !.pc = pc]
    BY <1>5 DEF WakeTask, BeginWake, ClearWake, Compact, ResumeHeld
  <2>3. CASE hold' = hold
    BY <1>1, <2>1, <2>3
  <2>4. ASSUME hold = NoHold, NEW kind \in {"wake", "compact"}, NEW pc,
               hold' = [NoHold EXCEPT !.kind = kind, !.pc = pc]
        PROVE  TakenInv'
    <3>1. hold'.kind = kind /\ hold'.command = NoCommand
      BY <2>4 DEF NoHold
    <3>2. QED
      BY <2>1, <2>4, <3>1, TakenReserves
  <2>5. QED
    BY <2>2, <2>3, <2>4
<1>6. CASE Crash
  BY <1>6, TakenCrash
<1>7. CASE Adopt
  BY <1>1, <1>7 DEF Adopt, clientVars
<1>8. CASE CloseRuns
  <2>1. RunsNameLess
    BY <1>8, CloseRunsRuns DEF RunsNameLess
  <2>2. ClientsStay /\ QueueShrinks
    BY <1>8, GivenBackStay, QueueLess DEF CloseRuns, QueueAfter
  <2>3. UNCHANGED <<hold, deferred, given>>
    BY <1>8 DEF CloseRuns
  <2>4. QED
    BY <2>1, <2>2, <2>3, TakenIdle
<1>9. CASE Resume
  <2>1. UNCHANGED <<client, queue, hold, deferred, given>>
    BY <1>9 DEF Resume, clientVars
  <2>2. RunsNameLess
    BY <1>9, ResumeRuns, LessByOne, LessBySame
  <2>3. QED
    BY <1>2, <2>1, <2>2
<1>10. CASE \E r \in Runs : RunTask(r)
  BY <1>10, TakenTask
<1>11. ASSUME NEW r \in Runs, ReleaseClaims(r) \/ Cancel(r) PROVE TakenInv'
  <2>1. UNCHANGED <<client, queue, hold, deferred, given>>
    BY <1>11 DEF ReleaseClaims, Cancel, clientVars
  <2>2. CASE ReleaseClaims(r)
    BY <1>1, <2>1, <2>2 DEF ReleaseClaims
  <2>3. CASE Cancel(r)
    BY <1>2, <2>1, <2>3, CancelTrips, LessByOne
  <2>4. QED
    BY <1>11, <2>2, <2>3
<1>12. ASSUME NEW r \in Runs, Stop(r) PROVE TakenInv'
  <2>1. RunsNameLess
    BY <1>12, StopEnds, LessByOne
  <2>2. ClientsStay /\ QueueShrinks
    BY <1>12, GivenBackStay, QueueLess DEF Stop, QueueAfter
  <2>3. UNCHANGED <<hold, deferred, given>>
    BY <1>12 DEF Stop, engineVars
  <2>4. QED
    BY <2>1, <2>2, <2>3, TakenIdle
<1>13. CASE \/ \E c \in Clients : ClientStep(c) \/ Recall(c)
            \/ \E c \in Clients, way \in Ways : Submit(c, way)
  BY <1>13, TakenSubmit, TakenQueue, TakenRecall DEF ClientStep
<1>14. CASE \/ \E m \in Mail, mode \in Modes : Accept(m, mode)
            \/ \E m \in Mail : Discard(m)
  BY <1>1, <1>14 DEF Accept, Discard, clientVars
<1>15. QED
  BY <1>3, <1>4, <1>5, <1>6, <1>7, <1>8, <1>9, <1>10, <1>11, <1>12, <1>13, <1>14
     DEF Next, Reopen

(* A new session names no input. *)
LEMMA TakenInit ==
    ASSUME Init
    PROVE  TakenInv
<1>1. /\ Runs = {} /\ \A c \in Clients : ~Queued(c) /\ ~HasRun(c) /\ given[c] = {}
  BY DEF Init, Runs, Queued, HasRun
<1>2. /\ hold.command = NoCommand /\ hold.kind = "none" /\ deferred = NoCommand
      /\ NoCommand.input \notin Clients
  BY ReservationFields, RunsAssumption DEF Init, NoCommand
<1>3. QED
  BY <1>1, <1>2 DEF TakenInv, QueuedIsDone, HeadIsDone, CommandsFit, CommandFits,
     CommandsDiffer, StartedIsTold, GivenIsTrue, OneRunEach, LooksFirst, CommandsName

(* No input is taken twice: not by two runs of its own, not by a run and as a
   steer of another, and none steered that its client took back.  It holds
   whatever fails, stops or crashes: a retried submission, the drains of two
   ended runs and the drain after a restart may ask for the same start, and
   start_run_direct's look for the input's run turns all but one away. *)
THEOREM InputTakenOnce == Spec => []TakenOnce
<1>1. ASSUME TakenInv PROVE TakenOnce
  <2> SUFFICES ASSUME NEW c \in Clients
               PROVE  /\ "steered" \in given[c] => given[c] = {"steered"}
                      /\ Cardinality({r \in Runs : runs[r].from = c}) <= 1
    BY DEF TakenOnce
  <2> DEFINE S == {r \in Runs : runs[r].from = c}
  <2>1. "steered" \in given[c] => given[c] = {"steered"}
    BY <1>1 DEF TakenInv, GivenIsTrue
  <2>2. \A r, s \in S : r = s
    BY <1>1 DEF TakenInv, OneRunEach
  <2> HIDE DEF S
  <2>3. CASE S = {}
    <3>1. Cardinality(S) = 0
      BY <2>3, FS_EmptySet
    <3>2. QED
      BY <2>1, <3>1 DEF S
  <2>4. CASE S # {}
    <3>1. PICK r \in S : TRUE
      BY <2>4
    <3>2. S = {r}
      BY <2>2, <3>1
    <3>3. Cardinality(S) = 1
      BY <3>2, FS_Singleton
    <3>4. QED
      BY <2>1, <3>3 DEF S
  <2>5. QED
    BY <2>3, <2>4
<1>2. TypeInv /\ TakenInv /\ [Next]_vars => TypeInv' /\ TakenInv'
  BY NextType, TakenNext
<1>3. QED
  BY <1>1, <1>2, InitType, TakenInit, PTL DEF Spec

-----------------------------------------------------------------------------
(* What a completed run took. *)

(* A submission names a run while it is delivered, waits in the run, or after
   it left it: taken by a turn, recalled, or given back when the run ended
   otherwise than completed. *)
Settled(c) ==
    /\ client[c].pc \in {"idle", "submit", "ask", "await"} => client[c].run = 0
    /\ client[c].pc = "pending" => client[c].run \in RunningRuns
    /\ client[c].pc = "done" /\ client[c].run # 0
          /\ given[c] \cap {"steered", "recalled"} = {}
       => /\ client[c].run \in Runs
          /\ runs[client[c].run].status \notin {"running", "completed"}
SettledInv == \A c \in Clients : Settled(c)

(* The log's runs stay as they are, or one is added. *)
OutcomesStay ==
    \A r \in Runs : r \in Runs' /\ runs'[r].status = runs[r].status

(* A step that ends no run and moves at most one client. *)
LEMMA SettledMove ==
    ASSUME SettledInv, OutcomesStay, NEW c,
           \A d \in Clients : d # c => client'[d] = client[d] /\ given'[d] = given[d],
           c \in Clients => Settled(c)'
    PROVE  SettledInv'
<1>1. RunningRuns \subseteq RunningRuns'
  BY DEF OutcomesStay, RunningRuns
<1>2. ASSUME NEW d \in Clients, d # c PROVE Settled(d)'
  BY <1>1, <1>2 DEF SettledInv, Settled, OutcomesStay
<1>3. QED
  BY <1>2 DEF SettledInv

(* A step that ends no run and moves no client. *)
LEMMA SettledSame ==
    ASSUME SettledInv, OutcomesStay, client' = client, given' = given
    PROVE  SettledInv'
<1>1. NoOne \notin Clients
  BY RunsAssumption
<1>2. QED
  BY <1>1, SettledMove

(* How the runs' records change when none ends. *)
LEMMA OutcomesKept ==
    /\ runs' = runs => OutcomesStay
    /\ \A r \in Runs : \A pc, h : RunBecomes(r, runs[r].status, pc, h) => OutcomesStay
    /\ \A from : RunAdded(from) => OutcomesStay
  BY DEF OutcomesStay, Runs, RunBecomes, RunAdded

(* Runs end, and what was steered into them is given back: a run that
   completes has nothing waiting. *)
LEMMA SettledEnds ==
    ASSUME TypeOK, SettledInv, NEW rs \in SUBSET Runs, Runs' = Runs,
           client' = GivenBack(rs), given' = given,
           \A r \in Runs \ rs : runs'[r].status = runs[r].status,
           \A r \in rs : /\ runs[r].status = "running" /\ runs'[r].status # "running"
                         /\ runs'[r].status = "completed" => SteeredInto(r) = {}
    PROVE  SettledInv'
<1> SUFFICES ASSUME NEW c \in Clients PROVE Settled(c)'
  BY DEF SettledInv
<1>1. client[c] \in Submissions
  BY DEF TypeOK
<1>2. CASE client[c].pc = "pending" /\ client[c].run \in rs
  <2>1. client'[c].pc = "done" /\ client'[c].run = client[c].run
    BY <1>1, <1>2 DEF GivenBack, Submissions
  <2>2. c \in SteeredInto(client[c].run)
    BY <1>2 DEF SteeredInto
  <2>3. QED
    BY <1>2, <2>1, <2>2 DEF Settled
<1>3. CASE ~(client[c].pc = "pending" /\ client[c].run \in rs)
  <2>1. client'[c] = client[c]
    BY <1>3 DEF GivenBack
  <2>2. Settled(c)
    BY DEF SettledInv
  <2>3. \A r \in Runs : runs[r].status # "running" => runs'[r].status = runs[r].status
    OBVIOUS
  <2>4. client[c].pc = "pending" => client[c].run \in RunningRuns'
    BY <1>3, <2>2 DEF Settled, RunningRuns
  <2>5. QED
    BY <2>1, <2>2, <2>3, <2>4 DEF Settled
<1>4. QED
  BY <1>2, <1>3

(* One run ends. *)
LEMMA SettledEnd ==
    ASSUME TypeOK, SettledInv, NEW r \in Runs, NEW o, NEW pc, NEW h,
           RunBecomes(r, o, pc, h), runs[r].status = "running", o # "running",
           o = "completed" => SteeredInto(r) = {}, client' = GivenBack({r}), given' = given
    PROVE  SettledInv'
<1>1. /\ Runs' = Runs /\ runs'[r].status = o
      /\ \A j \in Runs \ {r} : runs'[j].status = runs[j].status
  BY DEF RunBecomes
<1>2. QED
  BY <1>1, SettledEnds

(* A client is answered; it waited, and its submission named no run. *)
LEMMA SettledAnswer ==
    ASSUME TypeOK, SettledInv, NEW cmd \in Commands, NEW result \in Results,
           Answered(cmd, result), given' = given,
           cmd.by = 0 /\ cmd.input \in Clients =>
               client[cmd.input].pc \in {"ask", "await"}
    PROVE  SettledInv'
<1>1. OutcomesStay
  BY AnswerMoves, OutcomesKept DEF Answered
<1>2. CASE cmd.by = 0 /\ cmd.input \in Clients
  <2> DEFINE c == cmd.input
  <2>1. /\ client'[c].pc \in {"done", "submit"} /\ client'[c].run = client[c].run
        /\ \A d \in Clients : d # c => client'[d] = client[d]
    BY <1>2, AnswerTells DEF Answered
  <2>2. client[c].run = 0
    BY <1>2 DEF SettledInv, Settled
  <2>3. Settled(c)'
    BY <2>1, <2>2 DEF Settled
  <2>4. QED
    BY <1>1, <2>1, <2>3, SettledMove
<1>3. CASE ~(cmd.by = 0 /\ cmd.input \in Clients)
  <2>1. \A d \in Clients : client'[d] = client[d]
    BY <1>3, AnswerTells DEF Answered
  <2>2. NoOne \notin Clients
    BY RunsAssumption
  <2>3. QED
    BY <1>1, <2>1, <2>2, SettledMove
<1>4. QED
  BY <1>2, <1>3

(* The start commands and the task that holds the reservation. *)
LEMMA SettledStart ==
    ASSUME TypeInv, OneInv, TakenInv, SettledInv,
           (\E cmd \in Asked : HandleStart(cmd)) \/ StartTask
    PROVE  SettledInv'
<1> USE DEF TypeInv
<1>1. hold \in Holds
  BY DEF TypeOK
<1>2. ASSUME NEW cmd \in Asked, HandleStart(cmd) PROVE SettledInv'
  <2>1. /\ given' = given /\ cmd \in Commands
        /\ \/ cmd.by = 0 /\ cmd.input \in Clients /\ client[cmd.input].pc = "ask"
           \/ cmd.by \in Runs
    BY <1>2, AskedType DEF HandleStart
  <2>2. 0 \notin Runs
    BY DEF TypeOK, Runs
  <2>3. CASE Answered(cmd, "running")
    BY <2>1, <2>2, <2>3, SettledAnswer DEF Results
  <2>4. CASE Taken(cmd) /\ cmd.by = 0
    <3> DEFINE c == cmd.input
    <3>1. client' = [client EXCEPT ![c].pc = "await"] /\ runs' = runs
      BY <2>4 DEF Taken
    <3>2. c \in Clients /\ client[c].pc = "ask"
      BY <2>1, <2>2, <2>4
    <3>3. /\ client'[c].pc = "await" /\ client'[c].run = client[c].run
          /\ \A d \in Clients : d # c => client'[d] = client[d]
      BY <3>1, <3>2 DEF TypeOK, Submissions
    <3>4. client[c].run = 0
      BY <3>2 DEF SettledInv, Settled
    <3>5. Settled(c)'
      BY <3>3, <3>4 DEF Settled
    <3>6. QED
      BY <2>1, <3>1, <3>3, <3>5, OutcomesKept, SettledMove
  <2>5. CASE Taken(cmd) /\ cmd.by # 0
    <3>1. Goes(cmd.by, "await") /\ client' = client
      BY <2>5 DEF Taken, Goes
    <3>2. OutcomesStay
      BY <2>1, <2>5, <3>1, GoesOn, OutcomesKept DEF RunSteps
    <3>3. QED
      BY <2>1, <3>1, <3>2, SettledSame
  <2>6. QED
    BY <1>2, <2>3, <2>4, <2>5 DEF HandleStart
<1>3. CASE ReadSession \/ PrepareStart \/ InsertActive
  BY <1>3, OutcomesKept, SettledSame
     DEF ReadSession, PrepareStart, InsertActive, logVars, clientVars
<1>4. CASE CommitStart
  <2>1. PICK c \in Clients : c = hold.command.input /\ client[c].pc \in {"await", "done"}
    BY <1>4 DEF CommitStart, TakenInv, CommandsName, CommandsFit, CommandFits
  <2>2. OutcomesStay
    BY <1>4, <2>1, AppendAdds, OutcomesKept DEF CommitStart
  <2>3. /\ client' = client /\ given'[c] = given[c] \cup {"run"}
        /\ \A d \in Clients : d # c => given'[d] = given[d]
    BY <1>4, <2>1 DEF CommitStart, TypeOK
  <2>4. Settled(c)'
    <3>1. given'[c] \cap {"steered", "recalled"} = given[c] \cap {"steered", "recalled"}
      BY <2>3
    <3>2. Settled(c)
      BY <2>1 DEF SettledInv
    <3>3. QED
      BY <2>1, <2>2, <2>3, <3>1, <3>2 DEF Settled, OutcomesStay
  <2>5. QED
    BY <2>2, <2>3, <2>4, SettledMove
<1>5. CASE CommitWake
  <2>1. OutcomesStay
    BY <1>5, AppendAdds, OutcomesKept DEF CommitWake
  <2>2. QED
    BY <1>5, <2>1, SettledSame DEF CommitWake, clientVars
<1>6. CASE SetUpRun \/ FailSetUp
  <2> DEFINE r == hold.run
  <2>1. CASE SetUpRun
    BY <2>1, OutcomesKept, SettledSame DEF SetUpRun, clientVars
  <2>2. CASE FailSetUp
    <3>1. r \in Runs /\ runs[r].status = "running"
      BY <2>2 DEF HoldsARun, Committed, FailSetUp, Starting, OneInv, HeldRunIsNew
    <3>2. RunBecomes(r, "failed", "done", runs[r].head)
      BY <2>2, <3>1, FinishedIs DEF FailSetUp, RunSteps
    <3>3. QED
      BY <2>2, <3>1, <3>2, SettledEnd DEF FailSetUp
  <2>3. QED
    BY <1>6, <2>1, <2>2
<1>7. CASE LaunchRun
  <2> DEFINE r == hold.run
  <2>1. r \in Runs /\ UNCHANGED <<client, given>>
    BY <1>7 DEF HoldsARun, Committed, LaunchRun, Starting, clientVars
  <2>2. Goes(r, "done") \/ Goes(r, "top")
    BY <1>7 DEF LaunchRun, Goes
  <2>3. OutcomesStay
    BY <2>1, <2>2, GoesOn, OutcomesKept DEF RunSteps
  <2>4. QED
    BY <2>1, <2>3, SettledSame
<1>8. CASE Release
  <2>1. given' = given
    BY <1>8 DEF Release
  <2>2. CASE hold.kind = "start"
    <3>1. Answered(hold.command, hold.result)
      BY <1>8, <2>2 DEF Release
    <3>2. hold.command \in Commands /\ hold.result \in Results
      BY <1>1 DEF Holds
    <3>3. hold.command.by = 0 /\ hold.command.input \in Clients =>
              client[hold.command.input].pc = "await"
      BY DEF TakenInv, CommandsFit, CommandFits
    <3>4. QED
      BY <2>1, <3>1, <3>2, <3>3, SettledAnswer
  <2>3. CASE hold.kind # "start"
    BY <1>8, <2>1, <2>3, OutcomesKept, SettledSame DEF Release
  <2>4. QED
    BY <2>2, <2>3
<1>9. QED
  BY <1>2, <1>3, <1>4, <1>5, <1>6, <1>7, <1>8 DEF StartTask

(* The tasks of runs: only a running run ends, and one completes when nothing
   waits for it. *)
LEMMA SettledTask ==
    ASSUME TypeInv, OneInv, SettledInv, NEW r \in Runs, RunTask(r)
    PROVE  SettledInv'
<1> USE DEF TypeInv
<1>1. runs[r].at \in AtWork => runs[r].status = "running"
  BY DEF OneInv, DrivenIsRunning, Driven, AtWork
<1>2. ASSUME NEW pc, NEW h, RunBecomes(r, runs[r].status, pc, h), UNCHANGED <<client, given>>
      PROVE  SettledInv'
  BY <1>2, OutcomesKept, SettledSame
<1>3. ASSUME NEW pc \in RunSteps, Goes(r, pc), UNCHANGED <<client, given>>
      PROVE  SettledInv'
  BY <1>2, <1>3, GoesOn
<1>4. ASSUME NEW o \in {"completed", "failed", "cancelled"}, Finish(r, o), given' = given,
             runs[r].status = "running", o = "completed" => SteeredInto(r) = {}
      PROVE  SettledInv'
  BY <1>4, FinishType, SettledEnd
<1>5. CASE EndFailed(r) \/ EndCancelled(r)
  <2>1. given' = given /\ runs[r].status = "running"
    BY <1>1, <1>5 DEF EndFailed, EndCancelled, AtWork
  <2>2. Finish(r, "failed") \/ Finish(r, "cancelled")
    BY <1>5, <2>1 DEF EndFailed, EndCancelled
  <2>3. QED
    BY <1>4, <2>1, <2>2
<1>6. CASE Top(r) \/ AfterTurn(r) \/ CancelledInTools(r)
  <2>1. CASE /\ \E pc \in {"prompt", "complete", "cancelling"} : Goes(r, pc)
             /\ UNCHANGED <<client, given>>
    BY <1>3, <2>1 DEF RunSteps
  <2>2. CASE /\ runs' = [runs EXCEPT ![r].at = "tools", ![r].usedTools = TRUE]
             /\ UNCHANGED <<client, given>>
    BY <1>2, <2>2, ToolsUsed DEF RunSteps
  <2>3. QED
    BY <1>6, <2>1, <2>2 DEF Top, AfterTurn, CancelledInTools, Leaves, clientVars
<1>7. CASE HandlePrompt(r)
  BY <1>3, <1>7 DEF HandlePrompt, RunSteps, clientVars
<1>8. CASE Turn(r)
  <2>1. /\ \E pc \in {"committed", "cancelling", "failing"} : Goes(r, pc)
        /\ UNCHANGED <<client, given>>
    BY <1>8 DEF Turn, Leaves, clientVars
  <2>2. QED
    BY <1>3, <2>1 DEF RunSteps
<1>9. CASE HandleComplete(r)
  <2>1. CASE Submitted(r) /\ Goes(r, "top")
    <3>1. OutcomesStay
      BY <2>1, GoesOn, OutcomesKept DEF RunSteps
    <3>2. RunningRuns \subseteq RunningRuns'
      BY <3>1 DEF OutcomesStay, RunningRuns
    <3>3. ASSUME NEW c \in Clients PROVE Settled(c)'
      <4>1. client[c] \in Submissions /\ Settled(c)
        BY DEF TypeOK, SettledInv
      <4>2. CASE c \in SteeredInto(r)
        <5>1. client'[c] = [client[c] EXCEPT !.pc = "done"]
              /\ given'[c] = given[c] \cup {"steered"}
          BY <2>1, <4>2 DEF Submitted
        <5>2. client'[c].pc = "done"
          BY <4>1, <5>1 DEF Submissions
        <5>3. given'[c] \cap {"steered", "recalled"} # {}
          BY <5>1
        <5>4. QED
          BY <5>2, <5>3 DEF Settled
      <4>3. CASE c \notin SteeredInto(r)
        <5>1. client'[c] = client[c] /\ given'[c] = given[c]
          BY <2>1, <4>3 DEF Submitted
        <5>2. QED
          BY <3>1, <3>2, <4>1, <5>1 DEF Settled, OutcomesStay
      <4>4. QED
        BY <4>2, <4>3
    <3>4. QED
      BY <3>3 DEF SettledInv
  <2>2. CASE Finish(r, "completed") /\ given' = given /\ SteeredInto(r) = {}
    BY <1>1, <1>4, <1>9, <2>2 DEF HandleComplete, AtWork
  <2>3. QED
    BY <1>9, <2>1, <2>2 DEF HandleComplete
<1>10. CASE RunTaskEnds(r)
  BY <1>2, <1>10, TaskEnds DEF RunTaskEnds, clientVars
<1>11. CASE Drain(r)
  <2>1. CASE Goes(r, "done") /\ UNCHANGED <<client, given>>
    BY <1>3, <2>1 DEF RunSteps
  <2>2. CASE /\ queue # <<>> /\ UNCHANGED <<client, given>>
             /\ runs' = [runs EXCEPT ![r].at = "ask", ![r].head = Head(queue)]
    <3>1. Head(queue) \in Clients \cup {NoOne}
      BY <2>2 DEF TypeOK
    <3>2. QED
      BY <1>2, <2>2, <3>1, HeadChanges DEF RunSteps
  <2>3. QED
    BY <1>11, <2>1, <2>2 DEF Drain, clientVars
<1>12. CASE AfterRefusal(r)
  <2>1. RunBecomes(r, runs[r].status, "drain", NoOne) /\ UNCHANGED <<client, given>>
    BY <1>12, HeadChanges DEF AfterRefusal, RunSteps, clientVars
  <2>2. QED
    BY <1>2, <2>1
<1>13. QED
  BY <1>5, <1>6, <1>7, <1>8, <1>9, <1>10, <1>11, <1>12 DEF RunTask

(* The clients' own steps. *)
LEMMA SettledClient ==
    ASSUME TypeInv, TakenInv, SettledInv, NEW c \in Clients,
           (\E way \in Ways : Submit(c, way)) \/ ClientStep(c) \/ Recall(c)
    PROVE  SettledInv'
<1> USE DEF TypeInv
<1>1. runs' = runs /\ client \in [Clients -> Submissions]
  BY DEF Submit, ClientStep, Route, Steer, QueueInput, Recall, logVars, TypeOK
<1>2. OutcomesStay /\ RunningRuns' = RunningRuns
  BY <1>1, OutcomesKept DEF RunningRuns, Runs
<1>3. \A d \in Clients : d # c => client'[d] = client[d] /\ given'[d] = given[d]
  <2>1. \A d \in Clients : d # c => client'[d] = client[d]
    BY <1>1 DEF Submit, ClientStep, Route, Steer, QueueInput, Recall, SetClient
  <2>2. \A d \in Clients : d # c => given'[d] = given[d]
    BY DEF Submit, ClientStep, Route, Steer, QueueInput, Recall, TypeOK
  <2>3. QED
    BY <2>1, <2>2
<1>4. ASSUME NEW pc, SetClient(c, pc), pc # "pending" PROVE Settled(c)'
  <2>1. client'[c].pc = pc /\ client'[c].run = 0
    BY <1>1, <1>4 DEF SetClient, Submissions
  <2>2. QED
    BY <1>4, <2>1 DEF Settled
<1>5. Settled(c)'
  <2>1. CASE \E way \in Ways : Submit(c, way)
    <3>1. PICK way \in Ways : Submit(c, way)
      BY <2>1
    <3> DEFINE pc == IF way = "start" THEN "ask" ELSE "submit"
    <3>2. client' = [client EXCEPT ![c].way = way, ![c].pc = pc] /\ pc \in {"ask", "submit"}
      BY <3>1 DEF Submit
    <3> HIDE DEF pc
    <3>3. client'[c].pc = pc /\ client'[c].run = client[c].run
      BY <1>1, <3>2 DEF Submissions
    <3>4. client[c].pc = "idle"
      BY <3>1 DEF Submit
    <3>5. QED
      BY <3>2, <3>3, <3>4 DEF SettledInv, Settled
  <2>2. CASE Route(c)
    <3>1. ASSUME NEW r, client' = [client EXCEPT ![c].pc = "deliver", ![c].run = r]
          PROVE  client'[c].pc = "deliver"
      BY <1>1, <3>1 DEF Submissions
    <3>2. QED
      BY <1>4, <2>2, <3>1 DEF Route, Settled
  <2>3. CASE Steer(c)
    <3>1. CASE /\ client[c].run \in active /\ runs[client[c].run].status = "running"
               /\ client' = [client EXCEPT ![c].pc = "pending"]
      <4>1. client'[c].pc = "pending" /\ client'[c].run = client[c].run
        BY <1>1, <3>1 DEF Submissions
      <4>2. client[c].run \in RunningRuns
        BY <3>1 DEF RunningRuns, TypeOK
      <4>3. QED
        BY <1>2, <4>1, <4>2 DEF Settled
    <3>2. QED
      BY <1>4, <2>3, <3>1 DEF Steer
  <2>4. CASE QueueInput(c)
    BY <1>4, <2>4 DEF QueueInput
  <2>5. CASE Recall(c)
    <3>1. given'[c] = given[c] \cup {"recalled"}
      BY <2>5 DEF Recall, TypeOK
    <3>2. client'[c].pc = "done"
      <4>1. Queued(c) => client[c].pc = "done"
        BY DEF TakenInv, QueuedIsDone
      <4>2. QED
        BY <1>1, <2>5, <4>1 DEF Recall, Submissions
    <3>3. QED
      BY <3>1, <3>2 DEF Settled
  <2>6. QED
    BY <2>1, <2>2, <2>3, <2>4, <2>5 DEF ClientStep
<1>6. QED
  BY <1>2, <1>3, <1>5, SettledMove

(* Every step but a stop from outside keeps the submissions settled. *)
LEMMA SettledNext ==
    ASSUME "stop" \notin Faults, TypeInv, OneInv, TakenInv, SettledInv, [Next]_vars
    PROVE  SettledInv'
<1> USE DEF TypeInv
<1>1. CASE UNCHANGED vars
  BY <1>1, OutcomesKept, SettledSame DEF vars, logVars, clientVars
<1>2. CASE (\E cmd \in Asked : HandleStart(cmd)) \/ StartTask
  BY <1>2, SettledStart
<1>3. CASE WakeTask \/ Compact \/ ResumeHeld \/ Adopt
  <2>1. UNCHANGED <<runs, client, given>>
    BY <1>3 DEF WakeTask, BeginWake, ClearWake, Compact, ResumeHeld, Adopt, logVars,
       clientVars
  <2>2. QED
    BY <2>1, OutcomesKept, SettledSame
<1>4. CASE Crash
  <2>1. OutcomesStay /\ Runs' = Runs /\ given' = given
    BY <1>4, CrashRuns DEF Crash, OutcomesStay
  <2>2. RunningRuns \subseteq RunningRuns'
    BY <2>1 DEF OutcomesStay, RunningRuns
  <2>3. ASSUME NEW c \in Clients PROVE Settled(c)'
    <3>1. client[c] \in Submissions /\ Settled(c)
      BY DEF TypeOK, SettledInv
    <3>2. CASE client[c].pc \in {"submit", "deliver", "ask", "await"}
      <4>1. client'[c] = [client[c] EXCEPT !.pc = "done", !.run = 0]
        BY <1>4, <3>2 DEF Crash
      <4>2. client'[c].pc = "done" /\ client'[c].run = 0
        BY <3>1, <4>1 DEF Submissions
      <4>3. QED
        BY <4>2 DEF Settled
    <3>3. CASE client[c].pc \notin {"submit", "deliver", "ask", "await"}
      <4>1. client'[c] = client[c]
        BY <1>4, <3>3 DEF Crash
      <4>2. QED
        BY <2>1, <2>2, <3>1, <4>1 DEF Settled, OutcomesStay
    <3>4. QED
      BY <3>2, <3>3
  <2>4. QED
    BY <2>3 DEF SettledInv
<1>5. CASE CloseRuns
  <2>1. /\ Runs' = Runs
        /\ \A r \in Runs : runs'[r].status = IF r \in RunningRuns
                                  THEN "interrupted" ELSE runs[r].status
    BY <1>5, CloseRunsRuns
  <2>2. /\ RunningRuns \in SUBSET Runs
        /\ \A r \in RunningRuns : runs[r].status = "running" /\ runs'[r].status = "interrupted"
        /\ \A r \in Runs \ RunningRuns : runs'[r].status = runs[r].status
    BY <2>1 DEF RunningRuns
  <2>3. client' = GivenBack(RunningRuns) /\ given' = given
    BY <1>5 DEF CloseRuns
  <2>4. QED
    BY <2>1, <2>2, <2>3, SettledEnds
<1>6. CASE Resume
  <2>1. OutcomesStay
    BY <1>6, ResumeRuns, OutcomesKept
  <2>2. QED
    BY <1>6, <2>1, SettledSame DEF Resume, clientVars
<1>7. CASE \E r \in Runs : RunTask(r)
  BY <1>7, SettledTask
<1>8. ASSUME NEW r \in Runs, ReleaseClaims(r) \/ Cancel(r) PROVE SettledInv'
  <2>1. UNCHANGED <<client, given>>
    BY <1>8 DEF ReleaseClaims, Cancel, clientVars
  <2>2. OutcomesStay
    BY <1>8, CancelTrips, OutcomesKept DEF ReleaseClaims
  <2>3. QED
    BY <2>1, <2>2, SettledSame
<1>9. ASSUME NEW r \in Runs PROVE ~Stop(r)
  BY DEF Stop, Fault
<1>10. CASE \/ \E c \in Clients : ClientStep(c) \/ Recall(c)
            \/ \E c \in Clients, way \in Ways : Submit(c, way)
  BY <1>10, SettledClient
<1>11. CASE \/ \E m \in Mail, mode \in Modes : Accept(m, mode)
            \/ \E m \in Mail : Discard(m)
  BY <1>11, OutcomesKept, SettledSame DEF Accept, Discard, clientVars
<1>12. QED
  BY <1>1, <1>2, <1>3, <1>4, <1>5, <1>6, <1>7, <1>8, <1>9, <1>10, <1>11
     DEF Next, Reopen

(* An input steered into a run that completed was taken by one of its turns
   or recalled: promote_pending_or_complete_direct looks for inputs and
   completes the run in one command of the actor.  It asks that no run is
   ended from outside its task: a run that was keeps its task, which completes
   it a second time after its inputs were given back. *)
THEOREM CompletedTookItsInputs ==
    ASSUME "stop" \notin Faults
    PROVE  Spec => []CompletedTookItsInput
<1>1. ASSUME Init PROVE SettledInv
  <2>1. \A c \in Clients : client[c].pc = "idle" /\ client[c].run = 0
    BY <1>1 DEF Init
  <2>2. QED
    BY <2>1 DEF SettledInv, Settled
<1>2. /\ TypeInv /\ OneInv /\ TakenInv /\ SettledInv /\ [Next]_vars
      => TakenInv' /\ SettledInv'
  BY TakenNext, SettledNext
<1>3. SettledInv => CompletedTookItsInput
  BY DEF SettledInv, Settled, CompletedTookItsInput
<1>4. QED
  BY <1>1, <1>2, <1>3, TakenInit, OneInvariance, PTL DEF Spec


-----------------------------------------------------------------------------
(* A message its producer took back is never consumed by a turn.  The action
   property is not inductive: a turn consumes whatever its request claimed, so
   it needs that nothing claimed is discarded, which the discard's look at the
   claims and the claim's look at the discards keep together. *)

(* The record of a message. *)
IsMessage(x) ==
    x = [st |-> x.st, mode |-> x.mode, run |-> x.run, claims |-> x.claims]

MailShape ==
    /\ mail = [m \in Mail |-> mail[m]]
    /\ \A m \in Mail : IsMessage(mail[m])
DiscardedIsUnclaimed ==
    \A m \in Mail : mail[m].st = "discarded" => mail[m].claims = {}
MailInv == MailShape /\ DiscardedIsUnclaimed

StaysDiscarded ==
    \A m \in Mail : mail[m].st = "discarded" => mail'[m].st = "discarded"

(* What a step must do to every message (the fold of one event). *)
MessageKept(m) ==
    /\ IsMessage(mail'[m])
    /\ mail'[m].st = "discarded" => mail'[m].claims = {}
    /\ mail[m].st = "discarded" => mail'[m].st = "discarded"

(* The invariant of the producers' projection holds message by message. *)
LEMMA MessagesKept ==
    ASSUME MailInv, mail' = [m \in Mail |-> mail'[m]],
           \A m \in Mail : MessageKept(m)
    PROVE  MailInv' /\ StaysDiscarded
  BY DEF MailInv, MailShape, DiscardedIsUnclaimed, StaysDiscarded, MessageKept

(* A step that leaves the messages alone keeps the invariant. *)
LEMMA UnchangedKeepsInv ==
    ASSUME MailInv, mail' = mail
    PROVE  MailInv' /\ StaysDiscarded
  BY DEF MailInv, MailShape, DiscardedIsUnclaimed, StaysDiscarded, IsMessage

(* An admission to a run (GoalProducerFold of ProducerMessageAdmitted) changes
   the run of a message and nothing else of it. *)
LEMMA AdmittedKeepsMail ==
    ASSUME MailInv, NEW ms, NEW r, NEW m \in Mail
    PROVE  /\ IsMessage(Admitted(ms, r)[m])
           /\ Admitted(ms, r)[m].st = mail[m].st
           /\ Admitted(ms, r)[m].claims = mail[m].claims
<1>1. Admitted(ms, r)[m] = mail[m] \/ Admitted(ms, r)[m] = [mail[m] EXCEPT !.run = r]
  BY DEF Admitted
<1>2. IsMessage(mail[m])
  BY DEF MailInv, MailShape
<1>3. [mail[m] EXCEPT !.run = r] = [st |-> mail[m].st, mode |-> mail[m].mode,
                                    run |-> r, claims |-> mail[m].claims]
  BY <1>2 DEF IsMessage
<1>4. QED
  BY <1>1, <1>2, <1>3 DEF IsMessage

(* A step that only admits messages keeps the invariant (commit_producer_start,
   promote_producer_inputs_direct). *)
LEMMA AdmissionKeepsInv ==
    ASSUME MailInv, NEW ms, NEW r, mail' = Admitted(ms, r)
    PROVE  MailInv' /\ StaysDiscarded
<1>1. mail' = [m \in Mail |-> mail'[m]]
  BY DEF Admitted
<1>2. ASSUME NEW m \in Mail PROVE MessageKept(m)
  BY AdmittedKeepsMail DEF MessageKept, MailInv, DiscardedIsUnclaimed
<1>3. QED
  BY <1>1, <1>2, MessagesKept

(* The claim of a request (claim_producer_snapshot_direct) takes no message
   that was discarded. *)
LEMMA PromptKeepsInv ==
    ASSUME MailInv, NEW r, HandlePrompt(r)
    PROVE  MailInv' /\ StaysDiscarded
<1> DEFINE p == Admitted(Steering(r), r)
<1>1. mail' = [m \in Mail |-> IF p[m].st = "pending" /\ p[m].run = r
                              THEN [p[m] EXCEPT !.claims = @ \cup {r}] ELSE p[m]]
  BY DEF HandlePrompt
<1>2. \A m \in Mail : /\ IsMessage(p[m])
                      /\ p[m].st = mail[m].st /\ p[m].claims = mail[m].claims
  BY AdmittedKeepsMail
<1> HIDE DEF p
<1>3. mail' = [m \in Mail |-> mail'[m]]
  BY <1>1
<1>4. ASSUME NEW m \in Mail PROVE MessageKept(m)
  <2>1. CASE p[m].st = "pending" /\ p[m].run = r
    <3>1. mail'[m] = [st |-> p[m].st, mode |-> p[m].mode, run |-> p[m].run,
                      claims |-> p[m].claims \cup {r}]
      <4>1. mail'[m] = [p[m] EXCEPT !.claims = p[m].claims \cup {r}]
        BY <1>1, <2>1
      <4>2. p[m] = [st |-> p[m].st, mode |-> p[m].mode, run |-> p[m].run,
                    claims |-> p[m].claims]
        BY <1>2 DEF IsMessage
      <4>3. QED
        BY <4>1, <4>2
    <3>2. IsMessage(mail'[m]) /\ mail'[m].st = "pending"
      BY <3>1, <2>1 DEF IsMessage
    <3>3. QED
      BY <3>2, <2>1, <1>2 DEF MessageKept
  <2>2. CASE ~(p[m].st = "pending" /\ p[m].run = r)
    BY <1>1, <1>2, <2>2 DEF MessageKept, MailInv, DiscardedIsUnclaimed
  <2>3. QED
    BY <2>1, <2>2
<1>5. QED
  BY <1>3, <1>4, MessagesKept

(* A turn (stream_attempt) consumes the messages it claimed, none of which is
   discarded. *)
LEMMA TurnKeepsInv ==
    ASSUME MailInv, NEW r, Turn(r)
    PROVE  MailInv' /\ StaysDiscarded
<1>1. CASE mail' = mail
  BY <1>1, UnchangedKeepsInv
<1>2. CASE mail' = [m \in Mail |-> IF r \in mail[m].claims
                                   THEN [mail[m] EXCEPT !.st = "consumed",
                                                        !.claims = @ \ {r}]
                                   ELSE mail[m]]
  <2>1. mail' = [m \in Mail |-> mail'[m]]
    BY <1>2
  <2>2. ASSUME NEW m \in Mail PROVE MessageKept(m)
    <3>1. IsMessage(mail[m])
      BY DEF MailInv, MailShape
    <3>2. CASE r \in mail[m].claims
      <4>1. mail'[m] = [st |-> "consumed", mode |-> mail[m].mode,
                        run |-> mail[m].run, claims |-> mail[m].claims \ {r}]
        BY <1>2, <3>1, <3>2 DEF IsMessage
      <4>2. mail[m].st # "discarded"
        BY <3>2 DEF MailInv, DiscardedIsUnclaimed
      <4>3. QED
        BY <4>1, <4>2 DEF MessageKept, IsMessage
    <3>3. CASE r \notin mail[m].claims
      BY <1>2, <3>1, <3>3 DEF MessageKept, MailInv, DiscardedIsUnclaimed
    <3>4. QED
      BY <3>2, <3>3
  <2>3. QED
    BY <2>1, <2>2, MessagesKept
<1>3. QED
  BY <1>1, <1>2 DEF Turn, Leaves

(* The late release of a dropped claim (claims.rs) only takes claims away. *)
LEMMA ReleaseClaimsKeepsInv ==
    ASSUME MailInv, NEW r, ReleaseClaims(r)
    PROVE  MailInv' /\ StaysDiscarded
<1>1. mail' = [m \in Mail |-> [mail[m] EXCEPT !.claims = @ \ {r}]]
  BY DEF ReleaseClaims
<1>2. mail' = [m \in Mail |-> mail'[m]]
  BY <1>1
<1>3. ASSUME NEW m \in Mail PROVE MessageKept(m)
  <2>1. IsMessage(mail[m])
    BY DEF MailInv, MailShape
  <2>2. mail'[m] = [st |-> mail[m].st, mode |-> mail[m].mode,
                    run |-> mail[m].run, claims |-> mail[m].claims \ {r}]
    BY <1>1, <2>1 DEF IsMessage
  <2>3. QED
    BY <2>2 DEF MessageKept, MailInv, DiscardedIsUnclaimed, IsMessage
<1>4. QED
  BY <1>2, <1>3, MessagesKept

(* The adoption of a session after a restart (release_recovered_producer_claims)
   takes every claim away. *)
LEMMA AdoptKeepsInv ==
    ASSUME MailInv, Adopt
    PROVE  MailInv' /\ StaysDiscarded
<1>1. mail' = [m \in Mail |-> [mail[m] EXCEPT !.claims = {}]]
  BY DEF Adopt
<1>2. mail' = [m \in Mail |-> mail'[m]]
  BY <1>1
<1>3. ASSUME NEW m \in Mail PROVE MessageKept(m)
  <2>1. IsMessage(mail[m])
    BY DEF MailInv, MailShape
  <2>2. mail'[m] = [st |-> mail[m].st, mode |-> mail[m].mode,
                    run |-> mail[m].run, claims |-> {}]
    BY <1>1, <2>1 DEF IsMessage
  <2>3. QED
    BY <2>2 DEF MessageKept, IsMessage
<1>4. QED
  BY <1>2, <1>3, MessagesKept

(* A producer's discard of a message (discard_producer_message_direct). *)
LEMMA DiscardKeepsInv ==
    ASSUME MailInv, NEW d \in Mail, Discard(d)
    PROVE  MailInv' /\ StaysDiscarded
<1>1. mail' = [mail EXCEPT ![d].st = "discarded"] /\ mail[d].claims = {}
  BY DEF Discard
<1>2. mail' = [m \in Mail |-> mail'[m]]
  BY <1>1 DEF MailInv, MailShape
<1>3. ASSUME NEW m \in Mail PROVE MessageKept(m)
  <2>1. IsMessage(mail[m])
    BY DEF MailInv, MailShape
  <2>2. mail'[m] = IF m = d THEN [mail[m] EXCEPT !.st = "discarded"] ELSE mail[m]
    BY <1>1 DEF MailInv, MailShape
  <2>3. CASE m = d
    <3>1. mail'[m] = [st |-> "discarded", mode |-> mail[m].mode,
                      run |-> mail[m].run, claims |-> {}]
      BY <1>1, <2>1, <2>2, <2>3 DEF IsMessage
    <3>2. QED
      BY <3>1 DEF MessageKept, IsMessage
  <2>4. CASE m # d
    BY <2>1, <2>2, <2>4 DEF MessageKept, MailInv, DiscardedIsUnclaimed
  <2>5. QED
    BY <2>3, <2>4
<1>4. QED
  BY <1>2, <1>3, MessagesKept

(* A producer's message (accept_producer_direct) is a new one. *)
LEMMA AcceptKeepsInv ==
    ASSUME MailInv, NEW d \in Mail, NEW mode, Accept(d, mode)
    PROVE  MailInv' /\ StaysDiscarded
<1>1. /\ mail' = [mail EXCEPT ![d].st = "pending", ![d].mode = mode]
      /\ mail[d].st = "none"
  BY DEF Accept
<1>2. mail' = [m \in Mail |-> mail'[m]]
  BY <1>1 DEF MailInv, MailShape
<1>3. ASSUME NEW m \in Mail PROVE MessageKept(m)
  <2>1. IsMessage(mail[m])
    BY DEF MailInv, MailShape
  <2>2. mail'[m] = IF m = d THEN [mail[m] EXCEPT !.st = "pending", !.mode = mode]
                   ELSE mail[m]
    BY <1>1 DEF MailInv, MailShape
  <2>3. CASE m = d
    <3>1. mail'[m] = [st |-> "pending", mode |-> mode,
                      run |-> mail[m].run, claims |-> mail[m].claims]
      BY <2>1, <2>2, <2>3 DEF IsMessage
    <3>2. mail[m].st # "discarded"
      BY <1>1, <2>3
    <3>3. IsMessage(mail'[m]) /\ mail'[m].st = "pending"
      BY <3>1 DEF IsMessage
    <3>4. QED
      BY <3>2, <3>3 DEF MessageKept
  <2>4. CASE m # d
    BY <2>1, <2>2, <2>4 DEF MessageKept, MailInv, DiscardedIsUnclaimed
  <2>5. QED
    BY <2>3, <2>4
<1>4. QED
  BY <1>2, <1>3, MessagesKept

(* The task that holds the reservation touches messages only where a wake's
   run is committed. *)
LEMMA StartTaskKeepsInv ==
    ASSUME MailInv, StartTask
    PROVE  MailInv' /\ StaysDiscarded
<1>1. CASE CommitWake
  <2>1. CASE mail' = mail
    BY <2>1, UnchangedKeepsInv
  <2>2. CASE mail' = Admitted({m \in Mail : Waiting(m)}, Len(runs) + 1)
    BY <2>2, AdmissionKeepsInv
  <2>3. QED
    BY <1>1, <2>1, <2>2 DEF CommitWake
<1>2. CASE ReadSession \/ PrepareStart \/ CommitStart \/ InsertActive
  BY <1>2, UnchangedKeepsInv
     DEF ReadSession, PrepareStart, CommitStart, InsertActive, logVars
<1>3. CASE SetUpRun \/ FailSetUp \/ LaunchRun \/ Release
  BY <1>3, UnchangedKeepsInv DEF SetUpRun, FailSetUp, LaunchRun, Release
<1>4. QED
  BY <1>1, <1>2, <1>3 DEF StartTask

(* Every step of a run's task. *)
LEMMA RunTaskKeepsInv ==
    ASSUME MailInv, NEW r, RunTask(r)
    PROVE  MailInv' /\ StaysDiscarded
<1>1. CASE Top(r) \/ AfterTurn(r) \/ CancelledInTools(r)
  BY <1>1, UnchangedKeepsInv DEF Top, AfterTurn, CancelledInTools, Leaves
<1>2. CASE HandlePrompt(r)
  BY <1>2, PromptKeepsInv
<1>3. CASE Turn(r)
  BY <1>3, TurnKeepsInv
<1>4. CASE HandleComplete(r)
  <2>1. mail' = Admitted(Steering(r), r)
    BY <1>4 DEF HandleComplete
  <2>2. QED
    BY <2>1, AdmissionKeepsInv
<1>5. CASE EndFailed(r) \/ EndCancelled(r) \/ RunTaskEnds(r) \/ Drain(r)
           \/ AfterRefusal(r)
  BY <1>5, UnchangedKeepsInv
     DEF EndFailed, EndCancelled, RunTaskEnds, Drain, AfterRefusal
<1>6. QED
  BY <1>1, <1>2, <1>3, <1>4, <1>5 DEF RunTask

(* Every step keeps the invariant, and every discarded message discarded. *)
LEMMA NextKeepsInv ==
    ASSUME MailInv, [Next]_vars
    PROVE  MailInv' /\ StaysDiscarded
<1>1. CASE UNCHANGED vars
  BY <1>1, UnchangedKeepsInv DEF vars, logVars
<1>2. CASE \E cmd \in Asked : HandleStart(cmd)
  BY <1>2, UnchangedKeepsInv DEF HandleStart
<1>3. CASE StartTask
  BY <1>3, StartTaskKeepsInv
<1>4. CASE WakeTask \/ Compact \/ ResumeHeld
  BY <1>4, UnchangedKeepsInv
     DEF WakeTask, BeginWake, ClearWake, Compact, ResumeHeld, logVars
<1>5. CASE \E r \in Runs : RunTask(r) \/ ReleaseClaims(r)
  BY <1>5, RunTaskKeepsInv, ReleaseClaimsKeepsInv
<1>6. CASE \E r \in Runs : Cancel(r) \/ Stop(r)
  BY <1>6, UnchangedKeepsInv DEF Cancel, Stop
<1>7. CASE \E c \in Clients : ClientStep(c) \/ Recall(c)
  BY <1>7, UnchangedKeepsInv
     DEF ClientStep, Route, Steer, QueueInput, Recall, logVars
<1>8. CASE \E c \in Clients, way \in Ways : Submit(c, way)
  BY <1>8, UnchangedKeepsInv DEF Submit, logVars
<1>9. CASE \E m \in Mail, mode \in Modes : Accept(m, mode)
  BY <1>9, AcceptKeepsInv
<1>10. CASE \E m \in Mail : Discard(m)
  BY <1>10, DiscardKeepsInv
<1>11. CASE Adopt
  BY <1>11, AdoptKeepsInv
<1>12. CASE Crash \/ CloseRuns \/ Resume
  BY <1>12, UnchangedKeepsInv DEF Crash, CloseRuns, Resume
<1>13. QED
  BY <1>1, <1>2, <1>3, <1>4, <1>5, <1>6, <1>7, <1>8, <1>9, <1>10, <1>11, <1>12
     DEF Next, Reopen

(* What a request of the model holds was not taken back by its producer. *)
THEOREM ClaimedIsNotDiscarded == Spec => []MailInv
<1>1. Init => MailInv
  BY DEF Init, MailInv, MailShape, DiscardedIsUnclaimed, IsMessage
<1>2. MailInv /\ [Next]_vars => MailInv'
  BY NextKeepsInv
<1>3. QED
  BY <1>1, <1>2, PTL DEF Spec

(* A message its producer took back stays so: no turn consumes it, whatever
   the order of claims, discards, releases and commits. *)
THEOREM DiscardIsFinal == Spec => DiscardedStaysUnread
<1>1. MailInv /\ [Next]_vars =>
        [\A m \in Mail : mail[m].st = "discarded" => mail'[m].st = "discarded"]_vars
  BY NextKeepsInv DEF StaysDiscarded
<1>2. QED
  BY <1>1, ClaimedIsNotDiscarded, PTL DEF Spec, DiscardedStaysUnread

=============================================================================
