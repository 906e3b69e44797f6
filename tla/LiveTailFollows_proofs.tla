------------------------ MODULE LiveTailFollows_proofs ------------------------
(***************************************************************************)
(* A view follows its session, for any number of records, any capacity of  *)
(* a tail, any page size and any number of tries: while the session is not *)
(* reverted and nothing but refused subscribes goes wrong, the view shows  *)
(* an initial part of the log, and once nothing is on its way all of it.   *)
(*                                                                         *)
(* The invariant says where the session stands (Mode): which task replays, *)
(* what it asked for, what the answer on the wire holds, and that the wire *)
(* and the tail's queue continue it record by record; and that what the    *)
(* view is still to apply continues what it shows (ViewInv).               *)
(***************************************************************************)
EXTENDS LiveTail_proofs

(* The session was not reverted, and nothing but refused subscribes went
   wrong. *)
Undisturbed == reverts = 0 /\ (faults = 0 \/ Faults \subseteq {"refuse"})

-----------------------------------------------------------------------------
(* The invariant: the log and the subscription. *)

(* The record at a position of a log that was never cut. *)
Nth(n) == [seq |-> n, id |-> n]
(* Records in order, behind position c. *)
Follow(records, c) == \A k \in 1 .. Len(records) : records[k] = Nth(c + k)

StraightLog ==
    /\ Len(log) = Len(before)
    /\ \A i \in 1 .. Len(log) : log[i] = i /\ before[i] = i - 1

(* Both cursors name a record of the log, with its stamp or without one; no
   message ever waits behind a replay. *)
SubInv ==
    /\ sub.buffered = <<>> /\ sub.asked = "none"
    /\ sub.cursor <= Len(log) /\ sub.stamp \in {0, sub.cursor}
    /\ sub.backCursor <= Len(log) /\ sub.backStamp \in {0, sub.backCursor}

-----------------------------------------------------------------------------
(* The invariant: what the tail sent after record b. *)

(* The wire and then the feed hold the records after b, one by one; behind
   them there may be the gap that ends a tail. *)
OnWire(b) ==
    \A i \in 1 .. Len(wire) : wire[i].kind # "page" =>
        \/ wire[i] = Event(Nth(b + i)) /\ b + i <= Len(log)
        \/ wire[i] = Gap(b + i - 1) /\ i = Len(wire) /\ feed = <<>> /\ ~tail.on
InFeed(b) ==
    \A i \in 1 .. Len(feed) :
        \/ /\ feed[i].message = Event(Nth(b + Len(wire) + i))
           /\ b + Len(wire) + i <= Len(log)
        \/ /\ feed[i].message = Gap(b + Len(wire) + i - 1)
           /\ i = Len(feed) /\ ~tail.on
(* The tail sends on from the last of these records, or the gap is there. *)
TailGoesOn(b) ==
    b + Len(wire) + Len(feed) =
        IF published < tail.after THEN tail.after ELSE published
EndsWithGap ==
    \/ feed # <<>> /\ feed[Len(feed)].message.kind = "gap"
    \/ feed = <<>> /\ wire # <<>> /\ wire[Len(wire)].kind = "gap"
Streams(b) ==
    /\ OnWire(b) /\ InFeed(b) /\ tail.after <= Len(log)
    /\ tail.on => TailGoesOn(b)
    /\ ~tail.on => EndsWithGap

-----------------------------------------------------------------------------
(* The invariant: where the replays stand. *)

(* No request, answer or live message is on its way, and no tail adds one. *)
Down == requests = {} /\ wire = <<>> /\ feed = <<>> /\ ~tail.on /\ ~conn.busy

(* The two tasks that replay: neither is at it, or one is. *)
CallerFree == waiter["caller"].pc \in {"idle", "ok"}
WorkerFree == recovery = NoJob /\ waiter["worker"].pc = "idle"
Alone == recovery.pc = "busy" /\ ~recovery.follow /\ ~recovery.followFull
WorkerDone == Alone /\ waiter["worker"].pc = "ok"
ByCaller(pc) ==
    waiter["caller"] = [pc |-> pc, attempt |-> sub.attempt] /\ WorkerFree
ByWorker(pc) ==
    waiter["worker"] = [pc |-> pc, attempt |-> sub.attempt] /\ CallerFree /\ Alone
(* The replay under way starts from nothing. *)
FromNothing == waiter["caller"].pc \in {"wait", "failed"} \/ recovery.full

(* The recovery gave up, and the view is still to hear of it. *)
GaveUp == inbox # <<>> /\ inbox[Len(inbox)].kind = "recoveryFailed"
Served == ~opens /\ ~GaveUp

(* The session is about to be subscribed from scratch. *)
Opening ==
    /\ Down /\ ~sub.fetching /\ CallerFree /\ WorkerFree
    /\ opens \/ GaveUp
    /\ ~(opens /\ GaveUp)

(* A task replays: from nothing, or from what was delivered. *)
Fetching(pc) ==
    /\ Served /\ sub.fetching /\ ~conn.busy
    /\ ByCaller(pc) \/ ByWorker(pc)
    /\ FromNothing => sub.cursor = 0
    /\ ~FromNothing => sub.cursor = sub.backCursor /\ sub.cursor > 0
    /\ Follow(sub.pages, sub.cursor)
Asks(q) ==
    /\ q.attempt = sub.attempt /\ q.generation = sub.generation
    /\ q.rebuild <=> FromNothing
    /\ q.cursor = sub.cursor + Len(sub.pages) /\ q.cursor <= Len(log)
    /\ q.stamp \in {0, q.cursor}
Asking ==
    /\ Fetching("wait")
    /\ \E q \in Requests : Asks(q) /\ requests = {q}
    /\ wire = <<>> /\ feed = <<>> /\ ~tail.on

(* The last record on or before a page. *)
Tip(p) == p.request.cursor + Len(p.records)
IsAnswer(p) ==
    /\ p.outcome # "stale" /\ Asks(p.request)
    /\ Follow(p.records, p.request.cursor) /\ Tip(p) <= Len(log)
    /\ p.outcome = "final" => Tip(p) > 0 /\ Streams(Tip(p) - 1)
    /\ p.outcome # "final" => Len(wire) = 1 /\ feed = <<>> /\ ~tail.on
Answered ==
    /\ Fetching("wait") /\ requests = {} /\ wire # <<>>
    /\ \E p \in Pages : wire[1] = p /\ IsAnswer(p)
    /\ \A i \in 2 .. Len(wire) : wire[i].kind # "page"
Failed == Fetching("failed") /\ Down

(* The replay is about to be delivered, or was, and a tail follows it. *)
Settling ==
    /\ Served /\ requests = {} /\ CallerFree /\ (WorkerFree \/ WorkerDone)
    /\ \A i \in 1 .. Len(wire) : wire[i].kind # "page"
Delivering ==
    /\ Settling /\ sub.fetching /\ conn.busy
    /\ conn.request.attempt = sub.attempt
    /\ conn.request.generation = sub.generation
    /\ conn.request.rebuild => sub.cursor = 0
    /\ ~conn.request.rebuild => sub.cursor = sub.backCursor
    /\ Follow(conn.records, sub.cursor)
    /\ \E b \in Cursors \ {0} :
           b = sub.cursor + Len(conn.records) /\ b <= Len(log) /\ Streams(b)
Following ==
    /\ Settling /\ ~sub.fetching /\ ~conn.busy
    /\ \E b \in Cursors \ {0} : b = sub.cursor /\ Streams(b)
(* The tail ended with a gap, or a try failed: the worker is to replay. *)
Recovering ==
    /\ Served /\ Down /\ ~sub.fetching /\ CallerFree /\ ~recovery.followFull
    /\ \/ /\ recovery.pc = "run" /\ ~recovery.follow
          /\ waiter["worker"].pc = "idle"
          /\ recovery.full \/ sub.cursor > 0
       \/ /\ recovery.pc = "busy" /\ recovery.follow
          /\ waiter["worker"].pc = "ok" /\ sub.cursor > 0

Mode ==
    \/ Opening \/ Asking \/ Answered \/ Failed
    \/ Delivering \/ Following \/ Recovering

-----------------------------------------------------------------------------
(* The invariant: the view, and what it is still to apply. *)

(* The next replay of the view is a rebuild. *)
Rebuilding ==
    \/ opens \/ GaveUp
    \/ waiter["caller"].pc \in {"wait", "failed"}
    \/ /\ recovery.pc # "idle" /\ recovery.full
       /\ waiter["worker"].pc # "ok"
    \/ conn.busy /\ conn.request.rebuild

(* What the view has come to once it has applied the first n deliveries. *)
LevelAt(n) ==
    IF n = 0 THEN view.last
    ELSE IF inbox[n].kind = "replay" THEN inbox[n].final ELSE inbox[n].seq
GenerationAt(n) == IF n = 0 THEN view.generation ELSE inbox[n].generation
KnownAt(n) == n = 0 => view.known

(* A delivery goes on from what the view has come to before it. *)
GoesOn(i) ==
    inbox[i].generation = GenerationAt(i - 1) /\ KnownAt(i - 1)
RebuildFits(d) ==
    /\ d.kind = "replay" /\ d.rebuild
    /\ d.final = Len(d.records) /\ Follow(d.records, 0)
CatchUpFits(d, l) ==
    /\ d.kind = "replay" /\ ~d.rebuild
    /\ d.final = l + Len(d.records) /\ Follow(d.records, l)
EventFits(d, l) == d.kind = "event" /\ d.seq = l + 1 /\ d.id = d.seq
GapFits(d, l) == d.kind = "gap" /\ d.seq = l
Fits(i) ==
    \/ inbox[i].kind = "recoveryFailed" /\ i = Len(inbox)
    \/ RebuildFits(inbox[i]) /\ LevelAt(i) <= Len(log)
    \/ /\ GoesOn(i) /\ LevelAt(i) <= Len(log)
       /\ \/ CatchUpFits(inbox[i], LevelAt(i - 1))
          \/ EventFits(inbox[i], LevelAt(i - 1))
          \/ GapFits(inbox[i], LevelAt(i - 1))

(* How far the client delivered. *)
Delivered == IF sub.fetching THEN sub.backCursor ELSE sub.cursor
(* All the deliveries that reach the view bring it there. *)
Pending == IF GaveUp THEN Len(inbox) - 1 ELSE Len(inbox)
ComesTo(n) ==
    /\ LevelAt(n) = Delivered
    /\ ~Rebuilding => GenerationAt(n) = sub.generation /\ KnownAt(n)

Shows == view.shown = {Nth(k) : k \in 1 .. view.last} /\ view.last <= Len(log)
ViewInv ==
    /\ Shows /\ ~view.quarantined /\ ~view.awaiting
    /\ \A i \in 1 .. Len(inbox) : Fits(i)
    /\ \E n \in Nat : n = Pending /\ ComesTo(n)

FollowInv == StraightLog /\ SubInv /\ Mode /\ ViewInv

-----------------------------------------------------------------------------
(* The types of what the daemon holds and sends, before and after a step. *)
LEMMA DaemonTypes ==
    ASSUME TypeInv
    PROVE  /\ Len(log) \in Nat /\ Len(log) <= MaxRecords /\ published \in Nat
           /\ tail \in [on: BOOLEAN, after: Cursors, attempt: Nat] /\ tail.after \in Nat
           /\ feed \in Seq([tail: Nat, message: SentMessages]) /\ Len(feed) \in Nat
           /\ wire \in Seq(Pages \cup SentMessages) /\ Len(wire) \in Nat
<1>1. LogType /\ DaemonType
  BY DEF TypeInv
<1>2. Len(log) \in Nat /\ Len(log) <= MaxRecords /\ published \in Nat
  <2>1. Len(before) \in Nat /\ Len(before) <= MaxRecords
    BY <1>1 DEF LogType
  <2>2. Len(log) \in 1 .. Len(before) /\ published \in 0 .. Len(log)
    BY <1>1 DEF LogType
  <2> QED
    BY <2>1, <2>2, TailAssumption
<1>3. tail \in [on: BOOLEAN, after: Cursors, attempt: Nat]
  BY <1>1 DEF DaemonType
<1>4. tail.after \in Nat
  BY <1>3 DEF Cursors
<1>5. feed \in Seq([tail: Nat, message: SentMessages])
  BY <1>1 DEF DaemonType
<1>6. wire \in Seq(Pages \cup SentMessages)
  BY <1>1 DEF DaemonType
<1>7. Len(feed) \in Nat /\ Len(wire) \in Nat
  BY <1>5, <1>6
<1> QED
  BY <1>2, <1>3, <1>4, <1>5, <1>6, <1>7

LEMMA DaemonTypesNext ==
    ASSUME TypeInv'
    PROVE  /\ Len(log') \in Nat
           /\ feed' \in Seq([tail: Nat, message: SentMessages]) /\ Len(feed') \in Nat
           /\ wire' \in Seq(Pages \cup SentMessages) /\ Len(wire') \in Nat
<1>1. LogType' /\ DaemonType'
  BY DEF TypeInv
<1>2. Len(log') \in Nat
  BY <1>1 DEF LogType
<1>3. feed' \in Seq([tail: Nat, message: SentMessages])
  BY <1>1 DEF DaemonType
<1>4. wire' \in Seq(Pages \cup SentMessages)
  BY <1>1 DEF DaemonType
<1>5. Len(feed') \in Nat /\ Len(wire') \in Nat
  BY <1>3, <1>4
<1> QED
  BY <1>2, <1>3, <1>4, <1>5

(* A sequence is empty if its length is 0. *)
LEMMA NonEmpty ==
    ASSUME NEW S, NEW s \in Seq(S)
    PROVE  (s # <<>>) <=> (Len(s) # 0)
OBVIOUS

LEMMA RequestCursor ==
    ASSUME NEW q \in Requests
    PROVE  q.cursor \in Nat
BY DEF Requests, Cursors

LEMMA LastTaken ==
    ASSUME NEW S, NEW s \in Seq(S), Len(s) = 1
    PROVE  Tail(s) = <<>>
<1>0. s # <<>>
  BY NonEmpty
<1>1. Tail(s) \in Seq(S) /\ Len(Tail(s)) = 0
  BY <1>0, HeadTailProperties
<1> QED
  BY <1>1, NonEmpty

(* Sequence t is s without its first element. *)
IsTail(t, s) ==
    /\ Len(s) \in Nat \ {0} /\ Len(t) = Len(s) - 1
    /\ \A i \in 1 .. Len(t) : t[i] = s[i + 1]

LEMMA TailIsTail ==
    ASSUME NEW S, NEW s \in Seq(S), s # <<>>
    PROVE  IsTail(Tail(s), s) /\ Head(s) = s[1]
<1>1. Len(s) \in Nat \ {0} /\ Len(Tail(s)) = Len(s) - 1 /\ Head(s) = s[1]
  OBVIOUS
<1>2. \A i \in 1 .. Len(Tail(s)) : Tail(s)[i] = s[i + 1]
  OBVIOUS
<1> QED
  BY <1>1, <1>2 DEF IsTail

(* What one fact about the state says of where the session stands. *)

LEMMA WhoReplays ==
    ASSUME Mode
    PROVE  /\ requests # {} => Asking
           /\ conn.busy => Delivering
           /\ opens \/ GaveUp => Opening
           /\ recovery.pc = "run" => Recovering
           /\ waiter["caller"].pc = "failed" => Failed
           /\ waiter["worker"].pc = "failed" => Failed
<1>1. CASE Opening
  BY <1>1 DEF Opening, Down, CallerFree, WorkerFree, NoJob
<1>2. CASE Asking
  BY <1>2 DEF Asking, Fetching, Served, ByCaller, ByWorker, CallerFree, WorkerFree, NoJob,
              Alone
<1>3. CASE Answered
  BY <1>3 DEF Answered, Fetching, Served, ByCaller, ByWorker, CallerFree, WorkerFree,
              NoJob, Alone
<1>4. CASE Failed
  BY <1>4 DEF Failed, Fetching, Served, ByCaller, ByWorker, CallerFree, WorkerFree, NoJob,
              Alone, Down
<1>5. CASE Delivering
  BY <1>5 DEF Delivering, Settling, Served, CallerFree, WorkerFree, WorkerDone, NoJob, Alone
<1>6. CASE Following
  BY <1>6 DEF Following, Settling, Served, CallerFree, WorkerFree, WorkerDone, NoJob, Alone
<1>7. CASE Recovering
  BY <1>7 DEF Recovering, Down, Served, CallerFree
<1> QED
  BY <1>1, <1>2, <1>3, <1>4, <1>5, <1>6, <1>7 DEF Mode

LEMMA WhatIsNext ==
    ASSUME Mode, wire # <<>>, ~conn.busy
    PROVE  /\ wire[1].kind = "page" => Answered
           /\ wire[1].kind # "page" => Following
<1>1. CASE Answered
  BY <1>1 DEF Answered, Pages
<1>2. CASE Following
  <2>1. wire[1].kind # "page"
    BY <1>2 DEF Following, Settling
  <2> QED
    BY <2>1, <1>2
<1>3. ~Opening /\ ~Asking /\ ~Failed /\ ~Delivering /\ ~Recovering
  BY DEF Opening, Asking, Failed, Delivering, Recovering, Down
<1> QED
  BY <1>1, <1>2, <1>3 DEF Mode

(* The tail is on, or has sent something that is not read, only behind the
   answer that registered it. *)
LEMMA WhoStreams ==
    ASSUME Mode, tail.on \/ feed # <<>>
    PROVE  \/ Answered /\ wire[1].outcome = "final"
           \/ Delivering \/ Following
<1>1. CASE Answered
  <2>1. PICK p \in Pages : wire[1] = p /\ IsAnswer(p)
    BY <1>1 DEF Answered
  <2> QED
    BY <1>1, <2>1 DEF IsAnswer
<1>2. ~Opening /\ ~Asking /\ ~Failed /\ ~Recovering
  BY DEF Opening, Asking, Failed, Recovering, Down
<1> QED
  BY <1>1, <1>2 DEF Mode

-----------------------------------------------------------------------------
(* The view, as deliveries are added and applied. *)

(* A step that neither delivers to the view nor applies a delivery. *)
LEMMA ViewKept ==
    ASSUME TypeInv, TypeInv', ViewInv, UNCHANGED <<inbox, view>>,
           Len(log) <= Len(log'), Delivered' = Delivered,
           ~Rebuilding' => ~Rebuilding /\ sub'.generation = sub.generation
    PROVE  ViewInv'
<1>1. Len(log) \in Nat /\ Len(log') \in Nat /\ view.last \in Nat
  <2>1. view.last \in Nat
    BY DEF TypeInv, ViewType, Views, Cursors
  <2> QED
    BY <2>1, DaemonTypes, DaemonTypesNext
<1>2. (Shows /\ ~view.quarantined /\ ~view.awaiting)'
  BY <1>1 DEF ViewInv, Shows
<1>3. ASSUME NEW i \in 1 .. Len(inbox) PROVE Fits(i)'
  <2>1. Fits(i)
    BY DEF ViewInv
  <2>2. GoesOn(i)' <=> GoesOn(i)
    BY DEF GoesOn, GenerationAt, KnownAt
  <2>3. LevelAt(i)' = LevelAt(i) /\ LevelAt(i - 1)' = LevelAt(i - 1)
    BY DEF LevelAt
  <2>4. inbox'[i] = inbox[i] /\ Len(inbox') = Len(inbox)
    OBVIOUS
  <2>5. CASE inbox[i].kind = "recoveryFailed" /\ i = Len(inbox)
    BY <2>4, <2>5 DEF Fits
  <2>6. CASE ~(inbox[i].kind = "recoveryFailed" /\ i = Len(inbox))
    <3>1. LevelAt(i) <= Len(log) => LevelAt(i) <= Len(log')
      <4>1. LevelAt(i) \in Nat
        <5>1. inbox[i] \in LiveMessages \cup Replays \cup {RecoveryFailed} /\ i # 0
          BY DEF TypeInv, ViewType
        <5>2. inbox[i].kind # "recoveryFailed"
          BY <2>1, <2>6 DEF Fits, RebuildFits, CatchUpFits, EventFits, GapFits
        <5>3. inbox[i] \in LiveMessages \cup Replays
          BY <5>1, <5>2 DEF RecoveryFailed
        <5> QED
          BY <5>1, <5>3 DEF LevelAt, LiveMessages, Replays, Cursors
      <4> QED
        BY <4>1, <1>1
    <3> QED
      BY <2>1, <2>2, <2>3, <2>4, <2>6, <3>1 DEF Fits
  <2> QED
    BY <2>5, <2>6
<1>4. PICK n \in Nat : n = Pending /\ ComesTo(n)
  BY DEF ViewInv
<1>5. n = Pending'
  BY <1>4 DEF Pending, GaveUp
<1>6. ComesTo(n)'
  BY <1>4 DEF ComesTo, LevelAt, GenerationAt, KnownAt
<1> QED
  BY <1>2, <1>3, <1>5, <1>6 DEF ViewInv

(* A delivery that fits behind the others. *)
LEMMA ViewDelivered ==
    ASSUME TypeInv, TypeInv', ViewInv, UNCHANGED <<view, log>>, ~GaveUp,
           NEW d, inbox' = Append(inbox, d), NEW m \in Nat, m = Len(inbox) + 1,
           Fits(m)',
           \/ d.kind = "recoveryFailed" /\ Delivered' = Delivered /\ Rebuilding'
           \/ d.kind # "recoveryFailed" /\ ComesTo(m)'
    PROVE  ViewInv'
<1>0. inbox \in Seq(LiveMessages \cup Replays \cup {RecoveryFailed})
      /\ inbox' \in Seq(LiveMessages \cup Replays \cup {RecoveryFailed})
  BY DEF TypeInv, ViewType
<1>1. /\ Len(inbox) \in Nat /\ Len(inbox') = m /\ inbox'[m] = d /\ inbox' # <<>>
      /\ \A i \in 1 .. Len(inbox) : inbox'[i] = inbox[i]
  BY <1>0
<1>2. (Shows /\ ~view.quarantined /\ ~view.awaiting)'
  BY DEF ViewInv, Shows
<1>3. ASSUME NEW i \in 0 .. Len(inbox)
      PROVE  /\ LevelAt(i)' = LevelAt(i) /\ GenerationAt(i)' = GenerationAt(i)
             /\ KnownAt(i)' <=> KnownAt(i)
  <2>1. i # 0 => inbox'[i] = inbox[i]
    BY <1>1
  <2> QED
    BY <2>1 DEF LevelAt, GenerationAt, KnownAt
<1>4. ASSUME NEW i \in 1 .. Len(inbox') PROVE Fits(i)'
  <2>1. CASE i = m
    BY <2>1
  <2>2. CASE i # m
    <3>1. i \in 1 .. Len(inbox) /\ i \in 0 .. Len(inbox) /\ i - 1 \in 0 .. Len(inbox)
      BY <2>2, <1>1
    <3>2. Fits(i)
      BY <3>1 DEF ViewInv
    <3>3. ~(inbox[i].kind = "recoveryFailed" /\ i = Len(inbox))
      BY <3>1 DEF GaveUp
    <3>4. GoesOn(i)' <=> GoesOn(i)
      BY <3>1, <1>1, <1>3 DEF GoesOn
    <3>5. LevelAt(i)' = LevelAt(i) /\ LevelAt(i - 1)' = LevelAt(i - 1) /\ inbox'[i] = inbox[i]
      BY <3>1, <1>1, <1>3
    <3> QED
      BY <3>2, <3>3, <3>4, <3>5 DEF Fits
  <2> QED
    BY <2>1, <2>2
<1>5. PICK n \in Nat : n = Pending /\ ComesTo(n)
  BY DEF ViewInv
<1>6. n = Len(inbox)
  BY <1>5 DEF Pending
<1>7. CASE d.kind = "recoveryFailed" /\ Delivered' = Delivered /\ Rebuilding'
  <2>1. n = Pending'
    <3>1. GaveUp'
      BY <1>1, <1>7 DEF GaveUp
    <3> QED
      BY <3>1, <1>1, <1>6 DEF Pending
  <2>2. ComesTo(n)'
    BY <1>3, <1>5, <1>6, <1>7, <1>1 DEF ComesTo
  <2> QED
    BY <1>2, <1>4, <2>1, <2>2 DEF ViewInv
<1>8. CASE d.kind # "recoveryFailed" /\ ComesTo(m)'
  <2>1. m = Pending'
    <3>1. ~GaveUp'
      BY <1>1, <1>8 DEF GaveUp
    <3> QED
      BY <3>1, <1>1 DEF Pending
  <2> QED
    BY <1>2, <1>4, <2>1, <1>8 DEF ViewInv
<1> QED
  BY <1>7, <1>8

(* The view applies a delivery. *)
LEMMA ViewApplied ==
    ASSUME TypeInv, TypeInv', ViewInv, IsTail(inbox', inbox),
           UNCHANGED <<log, sub, waiter, recovery, conn, opens>>,
           inbox[1].kind # "recoveryFailed",
           view'.last = LevelAt(1), view'.generation = GenerationAt(1), view'.known,
           view'.shown = {Nth(k) : k \in 1 .. view'.last},
           ~view'.quarantined, ~view'.awaiting
    PROVE  ViewInv' /\ (GaveUp' <=> GaveUp)
<1>0. inbox \in Seq(LiveMessages \cup Replays \cup {RecoveryFailed})
      /\ inbox' \in Seq(LiveMessages \cup Replays \cup {RecoveryFailed})
  BY DEF TypeInv, ViewType
<1>1. /\ Len(inbox) \in Nat \ {0} /\ Len(inbox') = Len(inbox) - 1
      /\ \A i \in 1 .. Len(inbox') : inbox'[i] = inbox[i + 1]
  BY DEF IsTail
<1>a. inbox # <<>>
  BY <1>0, <1>1, NonEmpty, Zenon
<1>2. (Shows /\ ~view.quarantined /\ ~view.awaiting)'
  <2>1. Fits(1)
    BY <1>1 DEF ViewInv
  <2>2. LevelAt(1) <= Len(log)
    BY <2>1 DEF Fits
  <2> QED
    BY <2>2 DEF Shows
<1>3. ASSUME NEW i \in 0 .. Len(inbox')
      PROVE  /\ LevelAt(i)' = LevelAt(i + 1) /\ GenerationAt(i)' = GenerationAt(i + 1)
             /\ KnownAt(i)' /\ KnownAt(i + 1)
  <2>1. i # 0 => inbox'[i] = inbox[i + 1]
    BY <1>1
  <2>2. i + 1 # 0 /\ i \in Nat
    OBVIOUS
  <2>3. CASE i = 0
    BY <2>3 DEF LevelAt, GenerationAt, KnownAt
  <2>4. CASE i # 0
    BY <2>1, <2>2, <2>4 DEF LevelAt, GenerationAt, KnownAt
  <2> QED
    BY <2>3, <2>4
<1>4. ASSUME NEW i \in 1 .. Len(inbox') PROVE Fits(i)'
  <2>1. i + 1 \in 1 .. Len(inbox) /\ i \in 0 .. Len(inbox') /\ i - 1 \in 0 .. Len(inbox')
        /\ (i - 1) + 1 = i /\ (i + 1) - 1 = i /\ i \in Nat
    BY <1>1
  <2>2. Fits(i + 1)
    BY <2>1 DEF ViewInv
  <2>3. /\ LevelAt(i)' = LevelAt(i + 1) /\ LevelAt(i - 1)' = LevelAt((i + 1) - 1)
        /\ inbox'[i] = inbox[i + 1]
    BY <2>1, <1>1, <1>3
  <2>4. GoesOn(i + 1) => GoesOn(i)'
    BY <2>1, <1>1, <1>3 DEF GoesOn
  <2>5. i + 1 = Len(inbox) => i = Len(inbox')
    BY <2>1, <1>1
  <2>6. UNCHANGED log
    OBVIOUS
  <2> QED
    BY <2>2, <2>3, <2>4, <2>5, <2>6 DEF Fits
<1>5. GaveUp' <=> GaveUp
  <2>1. CASE Len(inbox) = 1
    <3>1. inbox' = <<>>
      BY <2>1, <1>0, <1>1
    <3> QED
      BY <3>1, <2>1, <1>a DEF GaveUp
  <2>2. CASE Len(inbox) # 1
    <3>0. Len(inbox') \in 1 .. Len(inbox') /\ Len(inbox') # 0
      BY <2>2, <1>1
    <3>1. Len(inbox') \in 1 .. Len(inbox') /\ inbox' # <<>>
      BY <3>0, <1>0, NonEmpty, Zenon
    <3>2. inbox'[Len(inbox')] = inbox[Len(inbox)]
      BY <3>1, <1>1
    <3> QED
      BY <3>1, <3>2, <1>a DEF GaveUp
  <2> QED
    BY <2>1, <2>2
<1>6. PICK n \in Nat : n = Pending /\ ComesTo(n)
  BY DEF ViewInv
<1>7. n \in Nat \ {0} /\ n - 1 = Pending'
  <2>1. CASE GaveUp
    <3>1. Len(inbox) # 1
      BY <2>1 DEF GaveUp
    <3> QED
      BY <3>1, <2>1, <1>1, <1>5, <1>6 DEF Pending
  <2>2. CASE ~GaveUp
    BY <2>2, <1>1, <1>5, <1>6 DEF Pending
  <2> QED
    BY <2>1, <2>2
<1>8. PICK k \in Nat : k = n - 1 /\ k + 1 = n
  BY <1>7
<1>9. k \in 0 .. Len(inbox')
  BY <1>1, <1>6, <1>8 DEF Pending
<1>10. /\ LevelAt(k)' = LevelAt(n) /\ GenerationAt(k)' = GenerationAt(n)
       /\ KnownAt(k)'
  BY <1>3, <1>8, <1>9
<1>11. Delivered' = Delivered /\ (Rebuilding' <=> Rebuilding) /\ sub' = sub
  BY <1>5 DEF Delivered, Rebuilding
<1>12. ComesTo(k)'
  BY <1>6, <1>10, <1>11 DEF ComesTo
<1>13. ViewInv'
  BY <1>2, <1>4, <1>7, <1>8, <1>12 DEF ViewInv
<1> QED
  BY <1>5, <1>13

-----------------------------------------------------------------------------
(* Steps that leave the session where it stands. *)

LEMMA StreamsKept ==
    ASSUME TypeInv, TypeInv', NEW b \in Nat, Streams(b), Len(log) <= Len(log'),
           UNCHANGED <<published, tail, feed, wire>>
    PROVE  Streams(b)'
<1>1. /\ Len(log) \in Nat /\ Len(log') \in Nat /\ Len(wire) \in Nat /\ Len(feed) \in Nat
      /\ tail.after \in Nat
  BY DaemonTypes, DaemonTypesNext
<1>2. OnWire(b)'
  <2>1. \A i \in 1 .. Len(wire) : b + i <= Len(log) => b + i <= Len(log')
    BY <1>1
  <2> QED
    BY <2>1 DEF Streams, OnWire
<1>3. InFeed(b)'
  <2>1. \A i \in 1 .. Len(feed) :
           b + Len(wire) + i <= Len(log) => b + Len(wire) + i <= Len(log')
    BY <1>1
  <2> QED
    BY <2>1 DEF Streams, InFeed
<1>4. (tail.after <= Len(log))'
  BY <1>1 DEF Streams
<1>5. (tail.on => TailGoesOn(b))' /\ (~tail.on => EndsWithGap)'
  BY DEF Streams, TailGoesOn, EndsWithGap
<1> QED
  BY <1>2, <1>3, <1>4, <1>5 DEF Streams

(* At most the subscribe call, which has its answer, ends. *)
CallerKept ==
    /\ waiter'["worker"] = waiter["worker"]
    /\ \/ waiter'["caller"] = waiter["caller"]
       \/ waiter["caller"].pc = "ok" /\ waiter'["caller"].pc = "idle"

LEMMA FetchingKept ==
    ASSUME NEW pc \in {"wait", "failed"}, Fetching(pc), CallerKept,
           UNCHANGED <<sub, conn, recovery, opens>>, GaveUp' <=> GaveUp
    PROVE  Fetching(pc)'
BY DEF Fetching, Served, ByCaller, ByWorker, CallerFree, WorkerFree, Alone, FromNothing,
       CallerKept

LEMMA AsksKept ==
    ASSUME TypeInv, TypeInv', NEW q \in Requests, Asks(q), Len(log) <= Len(log'),
           UNCHANGED <<sub, recovery>>, CallerKept
    PROVE  Asks(q)'
<1>1. Len(log) \in Nat /\ Len(log') \in Nat /\ q.cursor \in Nat
  <2>1. q.cursor \in Nat
    BY RequestCursor, Zenon
  <2> QED
    BY <2>1, DaemonTypes, DaemonTypesNext
<1> QED
  BY <1>1 DEF Asks, FromNothing, CallerKept

LEMMA SettlingKept ==
    ASSUME Settling, UNCHANGED <<wire, requests, recovery, opens>>, CallerKept,
           GaveUp' <=> GaveUp
    PROVE  Settling'
BY DEF Settling, Served, CallerFree, WorkerFree, WorkerDone, Alone, CallerKept

LEMMA ModeKept ==
    ASSUME TypeInv, TypeInv', Mode, Len(log) <= Len(log'),
           UNCHANGED <<tail, feed, requests, wire, sub, conn, recovery, opens>>, CallerKept,
           GaveUp' <=> GaveUp, \A b \in Nat : Streams(b) => Streams(b)'
    PROVE  Mode'
<1>0. Len(log) \in Nat /\ Len(log') \in Nat
  BY DaemonTypes, DaemonTypesNext
<1>1. CASE Opening
  <2>1. Opening'
    BY <1>1 DEF Opening, Down, CallerFree, WorkerFree, CallerKept
  <2> QED
    BY <2>1 DEF Mode
<1>2. CASE Asking
  <2>1. PICK q \in Requests : Asks(q) /\ requests = {q}
    BY <1>2 DEF Asking
  <2>2. Fetching("wait")' /\ Asks(q)'
    BY <1>2, <2>1, FetchingKept, AsksKept DEF Asking
  <2>3. Asking'
    BY <1>2, <2>1, <2>2 DEF Asking
  <2> QED
    BY <2>3 DEF Mode
<1>3. CASE Answered
  <2>1. PICK p \in Pages : wire[1] = p /\ IsAnswer(p)
    BY <1>3 DEF Answered
  <2>2. p.request \in Requests /\ Tip(p) \in Nat
    BY DEF Pages, Requests, Tip, Cursors
  <2>3. Fetching("wait")' /\ Asks(p.request)'
    BY <1>3, <2>1, <2>2, FetchingKept, AsksKept DEF Answered, IsAnswer
  <2>4. p.outcome = "final" => Tip(p) > 0 /\ Streams(Tip(p) - 1)'
    <3> SUFFICES ASSUME p.outcome = "final" PROVE Tip(p) > 0 /\ Streams(Tip(p) - 1)'
      OBVIOUS
    <3>1. Tip(p) > 0 /\ Streams(Tip(p) - 1)
      BY <2>1 DEF IsAnswer
    <3>2. Tip(p) - 1 \in Nat
      BY <2>2, <3>1
    <3> QED
      BY <3>1, <3>2
  <2>5. Tip(p) <= Len(log')
    BY <2>1, <2>2, <1>0 DEF IsAnswer
  <2>6. IsAnswer(p)'
    BY <2>1, <2>3, <2>4, <2>5 DEF IsAnswer
  <2>7. Answered'
    BY <1>3, <2>1, <2>3, <2>6 DEF Answered
  <2> QED
    BY <2>7 DEF Mode
<1>4. CASE Failed
  <2>1. Fetching("failed")' /\ Down'
    BY <1>4, FetchingKept DEF Failed, Down
  <2> QED
    BY <2>1 DEF Mode, Failed
<1>5. CASE Delivering
  <2>1. PICK b \in Cursors \ {0} :
           b = sub.cursor + Len(conn.records) /\ b <= Len(log) /\ Streams(b)
    BY <1>5 DEF Delivering
  <2>2. b \in Nat
    BY DEF Cursors
  <2>3. Streams(b)' /\ b <= Len(log')
    BY <1>0, <2>1, <2>2
  <2>4. Settling'
    BY <1>5, SettlingKept DEF Delivering
  <2>5. Delivering'
    BY <1>5, <2>1, <2>3, <2>4 DEF Delivering
  <2> QED
    BY <2>5 DEF Mode
<1>6. CASE Following
  <2>1. PICK b \in Cursors \ {0} : b = sub.cursor /\ Streams(b)
    BY <1>6 DEF Following
  <2>2. b \in Nat
    BY DEF Cursors
  <2>3. Streams(b)'
    BY <2>1, <2>2
  <2>4. Settling'
    BY <1>6, SettlingKept DEF Following
  <2>5. Following'
    BY <1>6, <2>1, <2>3, <2>4 DEF Following
  <2> QED
    BY <2>5 DEF Mode
<1>7. CASE Recovering
  <2>1. Recovering'
    BY <1>7 DEF Recovering, Served, Down, CallerFree, CallerKept
  <2> QED
    BY <2>1 DEF Mode
<1> QED
  BY <1>1, <1>2, <1>3, <1>4, <1>5, <1>6, <1>7 DEF Mode

-----------------------------------------------------------------------------
(* The daemon's steps. *)

LEMMA AppendRecordFollows ==
    ASSUME TypeInv, TypeInv', FollowInv, AppendRecord
    PROVE  FollowInv'
<1>0. /\ Len(log) \in Nat \ {0} /\ log \in Seq(1 .. Len(before)) /\ before \in Seq(Cursors)
      /\ sub \in Subscriptions
  BY DEF TypeInv, LogType, ClientType
<1>1. /\ Len(before) = Len(log)
      /\ \A i \in 1 .. Len(log) : log[i] = i /\ before[i] = i - 1
  BY DEF FollowInv, StraightLog
<1>2. PICK n \in Nat \ {0} : n = Len(log)
  BY <1>0
<1>3. log' = Append(log, n + 1) /\ before' = Append(before, n)
  <2>1. Last(log) = n
    BY <1>0, <1>1, <1>2 DEF Last
  <2> QED
    BY <1>1, <1>2, <2>1 DEF AppendRecord
<1>4. /\ Len(log') = n + 1 /\ log'[n + 1] = n + 1
      /\ \A i \in 1 .. n : log'[i] = log[i]
  BY <1>0, <1>2, <1>3
<1>5. /\ Len(before') = n + 1 /\ before'[n + 1] = n
      /\ \A i \in 1 .. n : before'[i] = before[i]
  BY <1>0, <1>1, <1>2, <1>3
<1>6. StraightLog'
  <2>1. ASSUME NEW i \in 1 .. n + 1 PROVE log'[i] = i /\ before'[i] = i - 1
    <3>1. CASE i = n + 1
      BY <3>1, <1>2, <1>4, <1>5
    <3>2. CASE i # n + 1
      <4>1. i \in 1 .. n
        BY <3>2, <1>2
      <4> QED
        BY <4>1, <1>1, <1>2, <1>4, <1>5
    <3> QED
      BY <3>1, <3>2
  <2> QED
    BY <2>1, <1>4, <1>5 DEF StraightLog
<1>7. Len(log) <= Len(log')
  BY <1>2, <1>4
<1>8. UNCHANGED <<published, tail, feed, requests, wire, sub, conn, waiter, recovery, opens,
                  inbox, view>>
  BY DEF AppendRecord, clientVars, viewVars
<1>9. SubInv'
  <2>1. sub.cursor \in Nat /\ sub.backCursor \in Nat
    BY <1>0 DEF Subscriptions, Cursors
  <2> QED
    BY <2>1, <1>2, <1>4, <1>8 DEF FollowInv, SubInv
<1>10. Mode'
  <2>1. GaveUp' <=> GaveUp
    BY <1>8 DEF GaveUp
  <2>2. \A b \in Nat : Streams(b) => Streams(b)'
    BY <1>7, <1>8, StreamsKept
  <2> QED
    BY <2>1, <2>2, <1>7, <1>8, ModeKept DEF FollowInv, CallerKept
<1>11. ViewInv'
  <2>1. Delivered' = Delivered /\ (Rebuilding' <=> Rebuilding)
    BY <1>8 DEF Delivered, Rebuilding, GaveUp
  <2> QED
    BY <2>1, <1>7, <1>8, ViewKept DEF FollowInv
<1> QED
  BY <1>6, <1>9, <1>10, <1>11 DEF FollowInv

(* Steps of the daemon that leave the log and the client alone. *)
LEMMA DaemonSteps ==
    ASSUME TypeInv, TypeInv', FollowInv, Mode',
           UNCHANGED <<log, before, sub, conn, waiter, recovery, inbox, view, opens>>
    PROVE  FollowInv'
<1>1. StraightLog' /\ SubInv'
  BY DEF FollowInv, StraightLog, SubInv
<1>2. Len(log) <= Len(log')
  BY DEF TypeInv, LogType
<1>3. Delivered' = Delivered /\ (Rebuilding' <=> Rebuilding)
  BY DEF Delivered, Rebuilding, GaveUp
<1>4. ViewInv'
  BY <1>2, <1>3, ViewKept DEF FollowInv
<1> QED
  BY <1>1, <1>4 DEF FollowInv

(* What the tail sends continues what it sent before. *)
LEMMA StreamGrows ==
    ASSUME TypeInv, TypeInv', StraightLog, PublishStored, NEW b \in Nat, Streams(b)
    PROVE  Streams(b)'
<1>0. /\ Len(log) \in Nat /\ published \in Nat /\ tail.after \in Nat
      /\ Len(wire) \in Nat /\ Len(feed) \in Nat
      /\ feed \in Seq([tail: Nat, message: SentMessages])
      /\ feed' \in Seq([tail: Nat, message: SentMessages])
      /\ tail \in [on: BOOLEAN, after: Cursors, attempt: Nat]
  BY DaemonTypes, DaemonTypesNext
<1>1. PICK n \in Nat : n = published + 1
  BY <1>0
<1>2. published' = n /\ n <= Len(log) /\ UNCHANGED <<log, wire>>
  BY <1>0, <1>1 DEF PublishStored
<1>3. CASE ~tail.on
  <2>1. UNCHANGED <<tail, feed>>
    BY <1>3 DEF PublishStored
  <2> QED
    BY <1>2, <1>3, <2>1 DEF Streams, OnWire, InFeed, EndsWithGap
<1>4. CASE tail.on /\ n <= tail.after
  <2>1. UNCHANGED <<tail, feed>>
    BY <1>1, <1>4 DEF PublishStored
  <2>2. TailGoesOn(b)'
    BY <1>0, <1>1, <1>2, <1>4, <2>1 DEF Streams, TailGoesOn
  <2> QED
    BY <1>2, <1>4, <2>1, <2>2 DEF Streams, OnWire, InFeed
<1>5. CASE tail.on /\ ~(n <= tail.after)
  <2>1. b + Len(wire) + Len(feed) = published
    BY <1>0, <1>1, <1>5 DEF Streams, TailGoesOn
  <2>2. PICK m \in SentMessages, on \in BOOLEAN :
           /\ feed' = Append(feed, [tail |-> tail.attempt, message |-> m])
           /\ tail' = [tail EXCEPT !.on = on]
           /\ (m = Event(Nth(n)) /\ on) \/ (m = Gap(n - 1) /\ ~on)
    <3>1. Event(Nth(n)) \in SentMessages /\ Gap(n - 1) \in SentMessages
      <4>1. n \in 1 .. MaxRecords /\ MaxRecords \in Nat
        BY <1>1, <1>2, DaemonTypes, TailAssumption
      <4> QED
        BY <4>1 DEF SentMessages, Messages, Event, Gap, Nth
    <3>2. CASE Room > 1
      <4>1. Record(log, n) = Nth(n)
        BY <1>0, <1>1, <1>2 DEF StraightLog, Record, Nth
      <4>2. Send(Event(Record(log, n))) /\ UNCHANGED tail
        BY <1>1, <1>5, <3>2 DEF PublishStored
      <4>3. tail' = [tail EXCEPT !.on = TRUE]
        BY <4>2, <1>0, <1>5
      <4>4. feed' = Append(feed, [tail |-> tail.attempt, message |-> Event(Nth(n))])
        BY <4>1, <4>2 DEF Send
      <4> QED
        BY <4>3, <4>4, <3>1
    <3>3. CASE ~(Room > 1)
      <4>1. Send(Gap(published)) /\ tail' = [tail EXCEPT !.on = FALSE]
        BY <1>1, <1>5, <3>3 DEF PublishStored
      <4>2. published = n - 1
        BY <1>0, <1>1
      <4> QED
        BY <4>1, <4>2, <3>1 DEF Send
    <3> QED
      BY <3>2, <3>3
  <2>3. /\ Len(feed') = Len(feed) + 1 /\ feed' # <<>>
        /\ feed'[Len(feed) + 1].message = m
        /\ \A i \in 1 .. Len(feed) : feed'[i] = feed[i]
    <3>1. Len(feed') = Len(feed) + 1 /\ feed' # <<>>
      BY <1>0, <2>2
    <3>2. feed'[Len(feed) + 1].message = m
      BY <1>0, <2>2
    <3>3. \A i \in 1 .. Len(feed) : feed'[i] = feed[i]
      BY <1>0, <2>2
    <3> QED
      BY <3>1, <3>2, <3>3
  <2>4. tail'.on = on /\ tail'.after = tail.after
    BY <1>0, <2>2
  <2>5. OnWire(b)'
    BY <1>2, <1>5 DEF Streams, OnWire
  <2>6. InFeed(b)'
    <3> SUFFICES ASSUME NEW i \in 1 .. Len(feed')
                 PROVE  \/ /\ feed'[i].message = Event(Nth(b + Len(wire) + i))
                           /\ b + Len(wire) + i <= Len(log)
                        \/ /\ feed'[i].message = Gap(b + Len(wire) + i - 1)
                           /\ i = Len(feed') /\ ~tail'.on
      BY <1>2 DEF InFeed
    <3>1. CASE i = Len(feed) + 1
      <4>0. Len(wire) \in Nat /\ Len(feed) \in Nat /\ i = Len(feed) + 1
        BY <1>0, <3>1
      <4>1. b + Len(wire) + i = n
        BY <4>0, <2>1, <1>1
      <4> QED
        BY <3>1, <4>1, <2>2, <2>3, <2>4, <1>2
    <3>2. CASE i # Len(feed) + 1
      <4>1. i \in 1 .. Len(feed)
        BY <3>2, <2>3, <1>0
      <4> QED
        BY <4>1, <2>3, <1>5 DEF Streams, InFeed
    <3> QED
      BY <3>1, <3>2
  <2>7. (tail.after <= Len(log))'
    BY <2>4, <1>2 DEF Streams
  <2>8. TailGoesOn(b)'
    <3>1. ~(published' < tail'.after)
      BY <2>4, <1>0, <1>1, <1>2, <1>5
    <3>2. /\ Len(wire') = Len(wire) /\ published' = published + 1
          /\ Len(feed') = Len(feed) + 1
      BY <1>1, <1>2, <2>3
    <3>3. Len(wire) \in Nat /\ Len(feed) \in Nat /\ published \in Nat
      BY <1>0
    <3>4. b + Len(wire') + Len(feed') = published'
      BY <2>1, <3>2, <3>3
    <3> QED
      BY <3>1, <3>4 DEF TailGoesOn
  <2>9. (~tail.on => EndsWithGap)'
    <3> SUFFICES ASSUME ~tail'.on PROVE EndsWithGap'
      OBVIOUS
    <3>1. m.kind = "gap"
      BY <2>2, <2>4 DEF Gap
    <3>2. feed'[Len(feed')].message = m
      BY <2>3
    <3> QED
      BY <3>1, <3>2, <2>3 DEF EndsWithGap
  <2> QED
    BY <2>5, <2>6, <2>7, <2>8, <2>9 DEF Streams
<1> QED
  BY <1>3, <1>4, <1>5

(* A step of the tail, while it is on or holds a message. *)
LEMMA TailSteps ==
    ASSUME TypeInv, TypeInv', FollowInv, tail.on \/ feed # <<>>,
           UNCHANGED <<log, before, requests, sub, conn, waiter, recovery, inbox, view,
                       opens>>,
           wire # <<>> => wire' # <<>> /\ wire'[1] = wire[1],
           Len(wire) <= Len(wire'),
           \A i \in 1 .. Len(wire') :
               wire'[i].kind = "page" => i <= Len(wire) /\ wire'[i] = wire[i],
           \A b \in Nat : Streams(b) => Streams(b)'
    PROVE  FollowInv'
<1>0. GaveUp' <=> GaveUp
  BY DEF GaveUp
<1>1. CASE Answered /\ wire[1].outcome = "final"
  <2>1. PICK p \in Pages : wire[1] = p /\ IsAnswer(p)
    BY <1>1 DEF Answered
  <2>2. p.request \in Requests /\ Tip(p) \in Nat /\ Tip(p) > 0 /\ Streams(Tip(p) - 1)
        /\ p.outcome = "final"
    <3>1. p.request \in Requests /\ p.records \in Seq(Records)
      BY DEF Pages
    <3>2. p.outcome = "final"
      BY <1>1, <2>1
    <3>3. Tip(p) \in Nat
      BY <3>1, RequestCursor DEF Tip
    <3> QED
      BY <2>1, <3>1, <3>2, <3>3 DEF IsAnswer
  <2>3. Len(log) <= Len(log')
    BY DEF TypeInv, LogType
  <2>4. Fetching("wait")' /\ Asks(p.request)'
    BY <1>0, <1>1, <2>1, <2>2, <2>3, FetchingKept, AsksKept
        DEF Answered, IsAnswer, CallerKept
  <2>5. Streams(Tip(p) - 1)'
    BY <2>2
  <2>6. IsAnswer(p)'
    BY <2>1, <2>2, <2>4, <2>5 DEF IsAnswer
  <2>7. \A i \in 2 .. Len(wire') : wire'[i].kind # "page"
    <3> SUFFICES ASSUME NEW i \in 2 .. Len(wire'), wire'[i].kind = "page" PROVE FALSE
      OBVIOUS
    <3>1. i \in 2 .. Len(wire) /\ wire[i].kind = "page"
      BY DEF TypeInv, DaemonType
    <3> QED
      BY <3>1, <1>1 DEF Answered
  <2>8. wire' # <<>> /\ wire'[1] = p
    BY <1>1, <2>1 DEF Answered
  <2>9. Answered'
    BY <1>1, <2>4, <2>6, <2>7, <2>8 DEF Answered
  <2> QED
    BY <2>9, DaemonSteps DEF Mode
<1>2. ASSUME Settling PROVE Settling'
  <2>1. \A i \in 1 .. Len(wire') : wire'[i].kind # "page"
    <3> SUFFICES ASSUME NEW i \in 1 .. Len(wire'), wire'[i].kind = "page" PROVE FALSE
      OBVIOUS
    <3>1. i \in 1 .. Len(wire) /\ wire[i].kind = "page"
      BY DEF TypeInv, DaemonType
    <3> QED
      BY <3>1, <1>2 DEF Settling
  <2> QED
    BY <1>0, <1>2, <2>1
        DEF Settling, Served, CallerFree, WorkerFree, WorkerDone, Alone
<1>3. CASE Delivering
  <2>1. PICK b \in Cursors \ {0} :
           b = sub.cursor + Len(conn.records) /\ b <= Len(log) /\ Streams(b)
    BY <1>3 DEF Delivering
  <2>2. b \in Nat /\ Settling
    BY <1>3 DEF Cursors, Delivering
  <2>3. Streams(b)' /\ Settling'
    BY <2>1, <2>2, <1>2
  <2>4. Delivering'
    BY <1>3, <2>1, <2>3 DEF Delivering
  <2> QED
    BY <2>4, DaemonSteps DEF Mode
<1>4. CASE Following
  <2>1. PICK b \in Cursors \ {0} : b = sub.cursor /\ Streams(b)
    BY <1>4 DEF Following
  <2>2. b \in Nat /\ Settling
    BY <1>4 DEF Cursors, Following
  <2>3. Streams(b)' /\ Settling'
    BY <2>1, <2>2, <1>2
  <2>4. Following'
    BY <1>4, <2>1, <2>3 DEF Following
  <2> QED
    BY <2>4, DaemonSteps DEF Mode
<1> QED
  BY <1>1, <1>3, <1>4, WhoStreams DEF FollowInv

LEMMA PublishStoredFollows ==
    ASSUME TypeInv, TypeInv', FollowInv, PublishStored
    PROVE  FollowInv'
<1>1. UNCHANGED <<log, before, requests, wire, sub, conn, waiter, recovery, inbox, view,
                  opens>>
  BY DEF PublishStored, clientVars, viewVars
<1>2. \A b \in Nat : Streams(b) => Streams(b)'
  BY StreamGrows DEF FollowInv
<1>3. Len(log) <= Len(log') /\ Len(wire) <= Len(wire') /\ Len(wire) \in Nat
  BY <1>1 DEF TypeInv, LogType, DaemonType
<1>4. CASE tail.on
  BY <1>1, <1>2, <1>3, <1>4, TailSteps
<1>5. CASE ~tail.on
  <2>1. UNCHANGED <<tail, feed>>
    BY <1>5 DEF PublishStored
  <2>2. Mode'
    BY <1>1, <1>2, <1>3, <2>1, ModeKept DEF FollowInv, GaveUp, CallerKept
  <2> QED
    BY <1>1, <2>2, DaemonSteps
<1> QED
  BY <1>4, <1>5

(* The forwarder moves the first message of the feed behind the wire. *)
LEMMA StreamMoves ==
    ASSUME TypeInv, TypeInv', ForwardSessionTail, NEW b \in Nat, Streams(b)
    PROVE  Streams(b)'
<1>0. /\ Len(log) \in Nat /\ Len(wire) \in Nat /\ Len(feed) \in Nat
      /\ feed \in Seq([tail: Nat, message: SentMessages]) /\ feed # <<>>
      /\ wire \in Seq(Pages \cup SentMessages)
      /\ wire' \in Seq(Pages \cup SentMessages)
      /\ UNCHANGED <<log, published, tail>>
  <2>1. feed # <<>> /\ UNCHANGED <<log, published, tail>>
    BY DEF ForwardSessionTail
  <2> QED
    BY <2>1, DaemonTypes, DaemonTypesNext
<1>1. /\ Len(wire') = Len(wire) + 1 /\ wire'[Len(wire) + 1] = feed[1].message
      /\ \A i \in 1 .. Len(wire) : wire'[i] = wire[i]
      /\ wire' # <<>>
  <2>1. wire' = Append(wire, feed[1].message) /\ Len(wire) \in Nat
    BY <1>0 DEF ForwardSessionTail
  <2>2. Len(wire') = Len(wire) + 1 /\ wire'[Len(wire) + 1] = feed[1].message
    BY <1>0, <2>1
  <2>3. \A i \in 1 .. Len(wire) : wire'[i] = wire[i]
    BY <1>0, <2>1
  <2>4. wire' # <<>>
    BY <1>0, <2>2
  <2> QED
    BY <2>2, <2>3, <2>4
<1>2. /\ Len(feed) \in Nat \ {0} /\ Len(feed') = Len(feed) - 1
      /\ \A i \in 1 .. Len(feed') : feed'[i] = feed[i + 1]
      /\ feed' = <<>> <=> Len(feed) = 1
  <2>1. /\ Len(feed) \in Nat \ {0} /\ Len(feed') = Len(feed) - 1
        /\ \A i \in 1 .. Len(feed') : feed'[i] = feed[i + 1]
    BY <1>0 DEF ForwardSessionTail
  <2>2. feed' \in Seq([tail: Nat, message: SentMessages])
    BY DEF TypeInv, DaemonType
  <2>3. (feed' # <<>>) <=> (Len(feed') # 0)
    BY <2>2, NonEmpty, Zenon
  <2> QED
    BY <2>1, <2>3
<1>3. OnWire(b)'
  <2> SUFFICES ASSUME NEW i \in 1 .. Len(wire'), wire'[i].kind # "page"
               PROVE  \/ wire'[i] = Event(Nth(b + i)) /\ b + i <= Len(log)
                      \/ /\ wire'[i] = Gap(b + i - 1) /\ i = Len(wire')
                         /\ feed' = <<>> /\ ~tail.on
    BY <1>0 DEF OnWire
  <2>1. CASE i = Len(wire) + 1
    <3>1. b + Len(wire) + 1 = b + i /\ 1 \in 1 .. Len(feed)
      BY <2>1, <1>0, <1>2
    <3>2. \/ /\ feed[1].message = Event(Nth(b + Len(wire) + 1))
             /\ b + Len(wire) + 1 <= Len(log)
          \/ /\ feed[1].message = Gap(b + Len(wire) + 1 - 1)
             /\ 1 = Len(feed) /\ ~tail.on
      BY <3>1 DEF Streams, InFeed
    <3> QED
      BY <3>1, <3>2, <2>1, <1>1, <1>2
  <2>2. CASE i # Len(wire) + 1
    <3>1. i \in 1 .. Len(wire) /\ wire'[i] = wire[i]
      BY <2>2, <1>0, <1>1
    <3> QED
      BY <3>1, <1>0 DEF Streams, OnWire
  <2> QED
    BY <2>1, <2>2
<1>4. InFeed(b)'
  <2> SUFFICES ASSUME NEW i \in 1 .. Len(feed')
               PROVE  \/ /\ feed'[i].message = Event(Nth(b + Len(wire') + i))
                         /\ b + Len(wire') + i <= Len(log)
                      \/ /\ feed'[i].message = Gap(b + Len(wire') + i - 1)
                         /\ i = Len(feed') /\ ~tail.on
    BY <1>0 DEF InFeed
  <2>1. i + 1 \in 1 .. Len(feed) /\ b + Len(wire) + (i + 1) = b + Len(wire') + i
        /\ (i + 1 = Len(feed) => i = Len(feed'))
    BY <1>0, <1>1, <1>2
  <2>2. PICK k \in Nat : k = b + Len(wire) + (i + 1)
    BY <1>0
  <2>3. \/ feed[i + 1].message = Event(Nth(k)) /\ k <= Len(log)
        \/ feed[i + 1].message = Gap(k - 1) /\ i + 1 = Len(feed) /\ ~tail.on
    BY <2>1, <2>2 DEF Streams, InFeed
  <2>4. k = b + Len(wire') + i /\ feed'[i] = feed[i + 1]
    BY <2>1, <2>2, <1>2
  <2> QED
    BY <2>1, <2>3, <2>4
<1>5. (tail.after <= Len(log))'
  BY <1>0 DEF Streams
<1>6. (tail.on => TailGoesOn(b))'
  <2>1. b + Len(wire') + Len(feed') = b + Len(wire) + Len(feed)
    BY <1>0, <1>1, <1>2
  <2> QED
    BY <2>1, <1>0 DEF Streams, TailGoesOn
<1>7. (~tail.on => EndsWithGap)'
  <2> SUFFICES ASSUME ~tail.on PROVE EndsWithGap'
    BY <1>0
  <2>1. feed[Len(feed)].message.kind = "gap"
    BY <1>0 DEF Streams, EndsWithGap
  <2>2. CASE Len(feed) = 1
    BY <2>1, <2>2, <1>1, <1>2 DEF EndsWithGap
  <2>3. CASE Len(feed) # 1
    <3>1. Len(feed') \in 1 .. Len(feed') /\ Len(feed') + 1 = Len(feed)
      BY <2>3, <1>2
    <3>2. feed'[Len(feed')] = feed[Len(feed)]
      BY <3>1, <1>2
    <3> QED
      BY <3>2, <2>1, <2>3, <1>2 DEF EndsWithGap
  <2> QED
    BY <2>2, <2>3
<1> QED
  BY <1>3, <1>4, <1>5, <1>6, <1>7 DEF Streams

LEMMA ForwardFollows ==
    ASSUME TypeInv, TypeInv', FollowInv, ForwardSessionTail
    PROVE  FollowInv'
<1>0. /\ feed \in Seq([tail: Nat, message: SentMessages]) /\ feed # <<>>
      /\ wire \in Seq(Pages \cup SentMessages) /\ Len(wire) \in Nat
      /\ wire' = Append(wire, feed[1].message)
      /\ UNCHANGED <<log, before, requests, sub, conn, waiter, recovery, inbox, view, opens>>
  <2>1. feed \in Seq([tail: Nat, message: SentMessages]) /\ feed # <<>>
    BY DaemonTypes DEF ForwardSessionTail
  <2>2. Head(feed) = feed[1]
    BY <2>1
  <2>3. wire' = Append(wire, feed[1].message)
    BY <2>2 DEF ForwardSessionTail
  <2>4. UNCHANGED <<log, before, requests, sub, conn, waiter, recovery, inbox, view, opens>>
    BY DEF ForwardSessionTail, clientVars, viewVars
  <2> QED
    BY <2>1, <2>3, <2>4, DaemonTypes
<1>1. feed[1].message \in SentMessages
  <2>1. 1 \in 1 .. Len(feed)
    BY <1>0
  <2>2. feed[1] \in [tail: Nat, message: SentMessages]
    BY <1>0, <2>1, ElementOfSeq
  <2> QED
    BY <2>2
<1>2. feed[1].message.kind # "page"
  BY <1>1 DEF SentMessages, Messages
<1>3. /\ Len(wire') = Len(wire) + 1 /\ wire'[Len(wire) + 1] = feed[1].message
      /\ \A i \in 1 .. Len(wire) : wire'[i] = wire[i]
      /\ wire' # <<>>
  BY <1>0, <1>1
<1>4. wire # <<>> => wire'[1] = wire[1]
  BY <1>0, <1>3
<1>5. \A i \in 1 .. Len(wire') :
         wire'[i].kind = "page" => i <= Len(wire) /\ wire'[i] = wire[i]
  BY <1>0, <1>2, <1>3
<1>6. \A b \in Nat : Streams(b) => Streams(b)'
  BY StreamMoves
<1>7. Len(wire) <= Len(wire')
  BY <1>0, <1>3
<1> QED
  BY <1>0, <1>3, <1>4, <1>5, <1>6, <1>7, TailSteps

(* EventLog::events_after on a log that was never cut. *)
LEMMA RecordsAfterFollow ==
    ASSUME TypeInv, StraightLog, NEW c \in Nat, c <= Len(log)
    PROVE  /\ Len(RecordsAfter(log, c)) = Len(log) - c
           /\ Follow(RecordsAfter(log, c), c)
<1>0. Len(log) \in Nat /\ Len(log) - c \in Nat
  BY DEF TypeInv, LogType
<1>1. RecordsAfter(log, c) = [i \in 1 .. Len(log) - c |-> Record(log, c + i)]
  <2>1. (IF c < Len(log) THEN Len(log) - c ELSE 0) = Len(log) - c
    BY <1>0
  <2> QED
    BY <2>1 DEF RecordsAfter
<1>2. Len(RecordsAfter(log, c)) = Len(log) - c
  BY <1>0, <1>1
<1>3. ASSUME NEW k \in 1 .. Len(log) - c PROVE RecordsAfter(log, c)[k] = Nth(c + k)
  <2>1. c + k \in 1 .. Len(log)
    BY <1>0
  <2>2. log[c + k] = c + k
    BY <2>1 DEF StraightLog
  <2> QED
    BY <1>1, <2>2 DEF Record, Nth
<1> QED
  BY <1>2, <1>3 DEF Follow

(* The daemon answers the one request there is. *)
LEMMA AnswerFollows ==
    ASSUME TypeInv, TypeInv', FollowInv, NEW q \in requests,
           NEW outcome \in {"more", "final", "error"}, NEW records \in Seq(Records),
           Answer(q, outcome, records),
           Follow(records, q.cursor), q.cursor + Len(records) <= Len(log),
           UNCHANGED <<log, before, published, feed, sub, conn, waiter, recovery, inbox,
                       view, opens>>,
           \/ outcome # "final" /\ UNCHANGED tail
           \/ /\ outcome = "final" /\ q.cursor + Len(records) = Len(log)
              /\ tail' = [on |-> TRUE, after |-> Len(log), attempt |-> q.attempt]
    PROVE  FollowInv'
<1>0. /\ Len(log) \in Nat \ {0} /\ published \in Nat /\ published <= Len(log)
      /\ Len(records) \in Nat /\ wire = <<>> => Len(wire) = 0
  BY DEF TypeInv, LogType
<1>1. Asking
  BY WhoReplays DEF FollowInv
<1>2. Asks(q) /\ requests = {q} /\ q \in Requests
  BY <1>1 DEF Asking
<1>3. PICK p \in Pages : p = [kind |-> "page", request |-> q, outcome |-> outcome,
                              records |-> records]
  BY <1>2 DEF Pages
<1>4. wire = <<>> /\ feed = <<>> /\ ~tail.on /\ Fetching("wait")
  BY <1>1 DEF Asking
<1>5. requests' = {} /\ wire' = <<p>>
  BY <1>2, <1>3, <1>4 DEF Answer
<1>6. Len(wire') = 1 /\ wire' # <<>> /\ wire'[1] = p
  BY <1>5
<1>7. Fetching("wait")' /\ Asks(q)'
  <2>1. Len(log) <= Len(log') /\ (GaveUp' <=> GaveUp)
    BY <1>0 DEF GaveUp
  <2> QED
    BY <2>1, <1>2, <1>4, FetchingKept, AsksKept DEF CallerKept
<1>8. p.request = q /\ p.outcome = outcome /\ p.records = records /\ p.kind = "page"
  BY <1>3
<1>9. PICK t \in Nat : t = Tip(p) /\ t = q.cursor + Len(records)
  BY <1>0, <1>2, <1>8 DEF Tip, Requests, Cursors
<1>10. outcome = "final" => t > 0 /\ Streams(t - 1)'
  <2> SUFFICES ASSUME outcome = "final" PROVE t > 0 /\ Streams(t - 1)'
    OBVIOUS
  <2>1. /\ t = Len(log) /\ tail'.on /\ tail'.after = Len(log) /\ Len(log') = Len(log)
        /\ published' = published /\ feed' = <<>> /\ Len(feed') = 0
    BY <1>4, <1>9
  <2>2. OnWire(t - 1)'
    BY <1>6, <1>8 DEF OnWire
  <2>3. InFeed(t - 1)'
    BY <2>1 DEF InFeed
  <2>4. TailGoesOn(t - 1)'
    <3>1. (t - 1) + 1 + 0 = Len(log)
      BY <1>0, <2>1
    <3>2. (IF published' < tail'.after THEN tail'.after ELSE published') = Len(log)
      BY <1>0, <2>1
    <3> QED
      BY <1>6, <2>1, <3>1, <3>2 DEF TailGoesOn
  <2>5. (tail.after <= Len(log))'
    BY <1>0, <2>1
  <2> QED
    BY <1>0, <2>1, <2>2, <2>3, <2>4, <2>5 DEF Streams
<1>11. IsAnswer(p)'
  <2>1. p.outcome # "stale" /\ Asks(p.request)' /\ Follow(p.records, p.request.cursor)
        /\ Tip(p) <= Len(log')
    BY <1>7, <1>8, <1>9
  <2>2. p.outcome = "final" => Tip(p) > 0 /\ Streams(Tip(p) - 1)'
    BY <1>8, <1>9, <1>10
  <2>3. p.outcome # "final" => Len(wire') = 1 /\ feed' = <<>> /\ ~tail'.on
    BY <1>4, <1>6, <1>8
  <2> QED
    BY <2>1, <2>2, <2>3 DEF IsAnswer
<1>12. Answered'
  <2>1. \A i \in 2 .. Len(wire') : wire'[i].kind # "page"
    BY <1>6
  <2> QED
    BY <1>5, <1>6, <1>7, <1>11, <2>1 DEF Answered
<1> QED
  BY <1>12, DaemonSteps DEF Mode

LEMMA SubscribeEventsFollows ==
    ASSUME TypeInv, TypeInv', FollowInv, NEW q \in requests, SubscribeEvents(q)
    PROVE  FollowInv'
<1>0. Len(log) \in Nat \ {0} /\ PageEvents \in Nat
  BY TailAssumption DEF TypeInv, LogType
<1>1. Asks(q) /\ q \in Requests
  <2>1. Asking
    BY WhoReplays DEF FollowInv
  <2> QED
    BY <2>1 DEF Asking
<1>2. q.cursor \in Nat /\ q.cursor \in Cursors /\ q.cursor <= Len(log)
  BY <1>1 DEF Asks, Requests, Cursors
<1>3. ~CursorIsStale(q)
  BY <1>0, <1>1, <1>2 DEF CursorIsStale, Asks, FollowInv, StraightLog
<1>4. PICK r \in Seq(Records) : r = RecordsAfter(log, q.cursor)
  BY <1>2, RecordsAfterType DEF TypeInv
<1>5. Len(r) = Len(log) - q.cursor /\ Follow(r, q.cursor)
  BY <1>2, <1>4, RecordsAfterFollow DEF FollowInv
<1>6. UNCHANGED <<log, before, published, feed, sub, conn, waiter, recovery, inbox, view,
                  opens>>
  BY DEF SubscribeEvents, clientVars, viewVars
<1>7. CASE Len(r) > PageLimit(q)
  <2>1. PICK n \in Nat : n = PageLimit(q)
    BY <1>0 DEF PageLimit
  <2>2. n <= Len(r) /\ q.cursor + n <= Len(log)
    BY <1>0, <1>2, <1>5, <1>7, <2>1
  <2>3. PICK s \in Seq(Records) : s = SubSeq(r, 1, n)
    <3>1. 1 \in Int /\ n \in Int /\ \A i \in 1 .. n : r[i] \in Records
      <4>1. \A i \in 1 .. n : i \in 1 .. Len(r)
        BY <2>2
      <4> QED
        BY <4>1
    <3>2. SubSeq(r, 1, n) \in Seq(Records)
      BY <3>1, SubSeqProperties
    <3> QED
      BY <3>2
  <2>4. Len(s) = n /\ \A k \in 1 .. n : s[k] = r[k]
    BY <2>2, <2>3
  <2>5. Follow(s, q.cursor)
    <3>1. \A k \in 1 .. n : k \in 1 .. Len(r)
      BY <2>2
    <3> QED
      BY <3>1, <1>5, <2>4 DEF Follow
  <2>6. Answer(q, "more", s) /\ UNCHANGED tail
    BY <1>3, <1>4, <1>7, <2>1, <2>3 DEF SubscribeEvents
  <2>7. q.cursor + Len(s) <= Len(log)
    BY <2>2, <2>4
  <2> QED
    BY <2>5, <2>6, <2>7, <1>6, AnswerFollows
<1>8. CASE ~(Len(r) > PageLimit(q))
  <2>1. /\ Answer(q, "final", r)
        /\ tail' = [on |-> TRUE, after |-> Len(log), attempt |-> q.attempt]
    BY <1>0, <1>3, <1>4, <1>8 DEF SubscribeEvents
  <2>2. q.cursor + Len(r) = Len(log) /\ q.cursor + Len(r) <= Len(log)
    BY <1>0, <1>2, <1>5
  <2> QED
    BY <2>1, <2>2, <1>5, <1>6, AnswerFollows
<1> QED
  BY <1>7, <1>8

LEMMA RefuseSubscribeFollows ==
    ASSUME TypeInv, TypeInv', FollowInv, NEW q \in requests, RefuseSubscribe(q)
    PROVE  FollowInv'
<1>1. q \in Requests /\ q.cursor \in Nat /\ q.cursor <= Len(log)
  <2>1. Asking
    BY WhoReplays DEF FollowInv
  <2> QED
    BY <2>1 DEF Asking, Asks, Requests, Cursors
<1>2. /\ <<>> \in Seq(Records) /\ Len(<<>>) = 0 /\ Follow(<<>>, q.cursor)
      /\ q.cursor + Len(<<>>) <= Len(log)
  BY <1>1 DEF Follow
<1>3. /\ UNCHANGED <<log, before, published, tail, feed, sub, conn, waiter, recovery, inbox,
                     view, opens>>
      /\ Answer(q, "error", <<>>)
  BY DEF RefuseSubscribe, clientVars, viewVars
<1> QED
  BY <1>2, <1>3, AnswerFollows

-----------------------------------------------------------------------------
(* The client's steps: a replay begins and ends. *)

(* The subscription a replay begins with, and what it asks for. *)
LEMMA StartAsks ==
    ASSUME TypeInv, FollowInv, NEW t \in Tasks, NEW rebuild \in BOOLEAN,
           StartReplay(t, rebuild), requests = {}, UNCHANGED log
    PROVE  /\ SubInv'
           /\ sub'.fetching /\ sub'.pages = <<>> /\ sub'.backCursor = sub.cursor
           /\ sub'.cursor = IF rebuild THEN 0 ELSE sub.cursor
           /\ ~rebuild => sub'.generation = sub.generation
           /\ t = "caller" => sub'.generation = sub.generation
           /\ waiter' = [waiter EXCEPT ![t] = [pc |-> "wait", attempt |-> sub'.attempt]]
           /\ \E q \in Requests :
                 /\ requests' = {q}
                 /\ q.attempt = sub'.attempt /\ q.generation = sub'.generation
                 /\ q.rebuild <=> rebuild
                 /\ q.cursor = sub'.cursor /\ q.cursor <= Len(log)
                 /\ q.stamp \in {0, q.cursor}
<1>0. /\ sub \in Subscriptions /\ Len(log) \in Nat /\ 0 \in Cursors
      /\ (t = "worker") \in BOOLEAN
  BY TailAssumption DEF TypeInv, ClientType, LogType, Cursors
<1>1. sub' = Prepared(rebuild, t = "worker")
  BY DEF StartReplay
<1>2. /\ sub'.buffered = sub.buffered /\ sub'.asked = sub.asked
      /\ sub'.fetching = TRUE /\ sub'.pages = <<>>
      /\ sub'.backCursor = sub.cursor /\ sub'.backStamp = sub.stamp
      /\ sub'.cursor = (IF rebuild THEN 0 ELSE sub.cursor)
      /\ sub'.stamp = (IF rebuild THEN 0 ELSE sub.stamp)
      /\ sub'.attempt = sub.attempt + 1
  BY <1>0, <1>1 DEF Prepared, Subscriptions
<1>3. /\ ~rebuild => sub'.generation = sub.generation
      /\ t = "caller" => sub'.generation = sub.generation
      /\ sub'.generation \in Nat
  BY <1>0, <1>1 DEF Prepared, Subscriptions
<1>4. SubInv'
  <2>1. sub.cursor <= Len(log) /\ sub.stamp \in {0, sub.cursor} /\ sub.cursor \in Nat
        /\ sub.buffered = <<>> /\ sub.asked = "none"
    BY <1>0 DEF FollowInv, SubInv, Subscriptions, Cursors
  <2>2. sub'.cursor <= Len(log) /\ sub'.stamp \in {0, sub'.cursor}
    BY <1>0, <1>2, <2>1
  <2> QED
    BY <1>2, <2>1, <2>2 DEF SubInv
<1>5. waiter' = [waiter EXCEPT ![t] = [pc |-> "wait", attempt |-> sub'.attempt]]
  BY <1>1 DEF StartReplay
<1>6. PICK q : q = [attempt |-> sub'.attempt, generation |-> sub'.generation,
                    rebuild |-> rebuild, cursor |-> sub'.cursor, stamp |-> sub'.stamp]
  OBVIOUS
<1>7. requests' = {q}
  BY <1>1, <1>6 DEF StartReplay
<1>8. q \in Requests
  <2>1. sub'.attempt \in Nat \ {0} /\ sub'.cursor \in Cursors /\ sub'.stamp \in Cursors
    BY <1>0, <1>2 DEF Subscriptions
  <2> QED
    BY <2>1, <1>3, <1>6 DEF Requests
<1>9. /\ q.attempt = sub'.attempt /\ q.generation = sub'.generation
      /\ q.rebuild = rebuild /\ q.cursor = sub'.cursor /\ q.stamp = sub'.stamp
  BY <1>6
<1>10. q.cursor <= Len(log) /\ q.stamp \in {0, q.cursor}
  BY <1>4, <1>9 DEF SubInv
<1> QED
  BY <1>2, <1>3, <1>4, <1>5, <1>7, <1>8, <1>9, <1>10

LEMMA StartFollows ==
    ASSUME TypeInv, TypeInv', FollowInv, NEW t \in Tasks, NEW rebuild \in BOOLEAN,
           StartReplay(t, rebuild), Down, ~sub.fetching, CallerFree, Served',
           UNCHANGED <<log, before, tail, feed, wire, conn, inbox, view>>,
           \/ t = "caller" /\ rebuild /\ WorkerFree /\ UNCHANGED recovery
           \/ /\ t = "worker" /\ Alone' /\ recovery'.full = recovery.full
              /\ recovery.full = rebuild
              /\ ~rebuild => sub.cursor > 0 /\ ~Rebuilding
    PROVE  FollowInv'
<1>0. waiter \in [Tasks -> Waiters] /\ Len(log) \in Nat /\ Len(log) <= Len(log')
  BY DEF TypeInv, ClientType, LogType
<1>1. requests = {} /\ wire = <<>> /\ feed = <<>> /\ ~tail.on /\ ~conn.busy
  BY DEF Down
<1>2. /\ SubInv'
      /\ sub'.fetching /\ sub'.pages = <<>> /\ sub'.backCursor = sub.cursor
      /\ sub'.cursor = IF rebuild THEN 0 ELSE sub.cursor
      /\ ~rebuild => sub'.generation = sub.generation
      /\ t = "caller" => sub'.generation = sub.generation
      /\ waiter' = [waiter EXCEPT ![t] = [pc |-> "wait", attempt |-> sub'.attempt]]
  BY <1>1, StartAsks
<1>3. PICK q \in Requests :
         /\ requests' = {q}
         /\ q.attempt = sub'.attempt /\ q.generation = sub'.generation
         /\ q.rebuild <=> rebuild
         /\ q.cursor = sub'.cursor /\ q.cursor <= Len(log)
         /\ q.stamp \in {0, q.cursor}
  BY <1>1, StartAsks
<1>4. (FromNothing' <=> rebuild) /\ (ByCaller("wait")' \/ ByWorker("wait")')
      /\ (Rebuilding' <=> rebuild)
  <2>1. CASE t = "caller"
    <3>1. waiter'["caller"] = [pc |-> "wait", attempt |-> sub'.attempt]
          /\ waiter'["worker"] = waiter["worker"]
      BY <1>0, <1>2, <2>1 DEF Tasks
    <3> QED
      BY <3>1, <2>1 DEF FromNothing, ByCaller, WorkerFree, Rebuilding
  <2>2. CASE t = "worker"
    <3>1. waiter'["worker"] = [pc |-> "wait", attempt |-> sub'.attempt]
          /\ waiter'["caller"] = waiter["caller"]
      BY <1>0, <1>2, <2>2 DEF Tasks
    <3>2. waiter'["caller"].pc \notin {"wait", "failed"} /\ ~conn'.busy
      BY <1>1, <3>1 DEF CallerFree
    <3> QED
      BY <3>1, <3>2, <2>2
          DEF FromNothing, ByWorker, CallerFree, Alone, Rebuilding, Served
  <2> QED
    BY <2>1, <2>2 DEF Tasks
<1>5. Fetching("wait")'
  <2>1. Follow(sub'.pages, sub'.cursor)
    BY <1>2 DEF Follow
  <2>2. /\ FromNothing' => sub'.cursor = 0
        /\ ~FromNothing' => sub'.cursor = sub'.backCursor /\ sub'.cursor > 0
    BY <1>2, <1>4
  <2> QED
    BY <1>1, <1>2, <1>4, <2>1, <2>2 DEF Fetching
<1>6. Asking'
  <2>1. q.cursor = sub'.cursor + Len(sub'.pages)
    BY <1>2, <1>3 DEF Requests, Cursors
  <2>2. Asks(q)'
    BY <1>3, <1>4, <2>1 DEF Asks
  <2> QED
    BY <1>1, <1>3, <1>5, <2>2 DEF Asking
<1>7. ViewInv'
  <2>1. Delivered' = Delivered
    BY <1>2 DEF Delivered
  <2>2. ~Rebuilding' => ~Rebuilding /\ sub'.generation = sub.generation
    BY <1>2, <1>4
  <2> QED
    BY <1>0, <2>1, <2>2, ViewKept DEF FollowInv
<1>8. StraightLog'
  BY DEF FollowInv, StraightLog
<1> QED
  BY <1>2, <1>6, <1>7, <1>8 DEF FollowInv, Mode

LEMMA SubscribeFromScratchFollows ==
    ASSUME TypeInv, TypeInv', FollowInv, SubscribeFromScratch
    PROVE  FollowInv'
<1>1. opens /\ ~opens'
      /\ UNCHANGED <<log, before, tail, feed, wire, conn, inbox, view, recovery>>
  BY DEF SubscribeFromScratch
<1>2. Opening
  BY <1>1, WhoReplays DEF FollowInv
<1>3. Down /\ ~sub.fetching /\ CallerFree /\ WorkerFree /\ ~GaveUp
  BY <1>1, <1>2 DEF Opening
<1>4. StartReplay("caller", TRUE)
  BY <1>3 DEF SubscribeFromScratch
<1>5. Served'
  BY <1>1, <1>3 DEF Served, GaveUp
<1>6. "caller" \in Tasks
  BY DEF Tasks
<1> QED
  BY <1>1, <1>3, <1>4, <1>5, <1>6, StartFollows

LEMMA RecoverAllFollows ==
    ASSUME TypeInv, TypeInv', FollowInv, RecoverAll
    PROVE  FollowInv'
<1>0. recovery \in Jobs
  BY DEF TypeInv, ClientType
<1>1. recovery.pc = "run"
      /\ UNCHANGED <<log, before, tail, feed, wire, conn, inbox, view, opens>>
  BY DEF RecoverAll, viewVars
<1>2. Recovering
  BY <1>1, WhoReplays DEF FollowInv
<1>3. /\ Down /\ ~sub.fetching /\ CallerFree /\ Served /\ ~recovery.followFull
      /\ ~recovery.follow /\ (recovery.full \/ sub.cursor > 0)
  BY <1>1, <1>2 DEF Recovering
<1>4. StartReplay("worker", recovery.full) /\ recovery' = [recovery EXCEPT !.pc = "busy"]
  BY <1>3 DEF RecoverAll
<1>5. Alone' /\ recovery'.full = recovery.full
  BY <1>0, <1>3, <1>4 DEF Alone, Jobs
<1>6. Served'
  BY <1>1, <1>3 DEF Served, GaveUp
<1>7. ~recovery.full => sub.cursor > 0 /\ ~Rebuilding
  BY <1>3 DEF Rebuilding, Served, CallerFree, Down
<1>8. "worker" \in Tasks /\ recovery.full \in BOOLEAN
  BY <1>0 DEF Tasks, Jobs
<1> QED
  BY <1>1, <1>3, <1>4, <1>5, <1>6, <1>7, <1>8, StartFollows

LEMMA SubscribeEndsFollows ==
    ASSUME TypeInv, TypeInv', FollowInv, SubscribeEnds
    PROVE  FollowInv'
<1>0. /\ waiter \in [Tasks -> Waiters] /\ sub \in Subscriptions /\ recovery \in Jobs
      /\ Len(log) <= Len(log')
      /\ UNCHANGED <<log, before, published, tail, feed, requests, wire, conn, inbox, view,
                     opens>>
  BY DEF TypeInv, ClientType, LogType, SubscribeEnds, daemonVars, viewVars
<1>1. waiter'["caller"].pc = "idle" /\ waiter'["worker"] = waiter["worker"]
  BY <1>0 DEF SubscribeEnds, Tasks, Waiters
<1>2. (GaveUp' <=> GaveUp) /\ StraightLog'
  BY <1>0 DEF GaveUp, FollowInv, StraightLog
<1>3. CASE waiter["caller"].pc = "ok"
  <2>1. UNCHANGED <<sub, recovery>> /\ CallerKept
    BY <1>1, <1>3 DEF SubscribeEnds, CallerKept
  <2>2. SubInv'
    BY <1>0, <2>1 DEF FollowInv, SubInv
  <2>3. Mode'
    <3>1. \A b \in Nat : Streams(b) => Streams(b)'
      BY <1>0, StreamsKept
    <3> QED
      BY <1>0, <1>2, <2>1, <3>1, ModeKept DEF FollowInv
  <2>4. ViewInv'
    <3>1. Delivered' = Delivered /\ (Rebuilding' <=> Rebuilding)
      BY <1>0, <1>1, <1>2, <1>3, <2>1 DEF Delivered, Rebuilding
    <3> QED
      BY <1>0, <2>1, <3>1, ViewKept DEF FollowInv
  <2> QED
    BY <1>2, <2>2, <2>3, <2>4 DEF FollowInv
<1>4. CASE waiter["caller"].pc = "failed"
  <2>1. sub' = Aborted(sub) /\ recovery' = Scheduled(recovery, TRUE)
    BY <1>4 DEF SubscribeEnds
  <2>2. Failed
    BY <1>4, WhoReplays DEF FollowInv
  <2>3. Down /\ Served /\ sub.fetching /\ WorkerFree
    BY <1>4, <2>2 DEF Failed, Fetching, ByCaller, ByWorker, CallerFree
  <2>4. /\ recovery'.pc = "run" /\ recovery'.full /\ ~recovery'.follow
        /\ ~recovery'.followFull
    BY <2>1, <2>3 DEF WorkerFree, NoJob, Scheduled
  <2>5. /\ sub'.cursor = sub.backCursor /\ sub'.stamp = sub.backStamp
        /\ sub'.backCursor = sub.backCursor /\ sub'.backStamp = sub.backStamp
        /\ ~sub'.fetching /\ sub'.buffered = sub.buffered /\ sub'.asked = sub.asked
    BY <1>0, <2>1 DEF Aborted, Subscriptions
  <2>6. SubInv'
    BY <1>0, <2>5 DEF FollowInv, SubInv
  <2>7. Recovering'
    BY <1>0, <1>1, <1>2, <2>3, <2>4, <2>5
        DEF Recovering, Down, Served, CallerFree, WorkerFree
  <2>8. ViewInv'
    <3>1. Delivered' = Delivered
      BY <2>3, <2>5 DEF Delivered
    <3>2. Rebuilding'
      BY <1>1, <2>3, <2>4 DEF Rebuilding, WorkerFree
    <3> QED
      BY <1>0, <3>1, <3>2, ViewKept DEF FollowInv
  <2> QED
    BY <1>2, <2>6, <2>7, <2>8 DEF FollowInv, Mode
<1> QED
  BY <1>3, <1>4 DEF SubscribeEnds

(* The worker's job is done. *)
LEMMA JobDone ==
    ASSUME TypeInv, TypeInv', FollowInv, recovery.pc = "busy", waiter["worker"].pc = "ok",
           recovery' = NextJob(recovery),
           waiter'["worker"].pc = "idle", waiter'["caller"] = waiter["caller"],
           UNCHANGED <<log, before, published, tail, feed, requests, wire, sub, conn, inbox,
                       view, opens>>
    PROVE  FollowInv'
<1>0. recovery \in Jobs /\ Len(log) <= Len(log')
  BY DEF TypeInv, ClientType, LogType
<1>1. StraightLog' /\ SubInv' /\ (GaveUp' <=> GaveUp)
  BY DEF FollowInv, StraightLog, SubInv, GaveUp
<1>2. Delivering \/ Following \/ Recovering
  BY DEF FollowInv, Mode, Opening, Asking, Answered, Failed, Fetching, ByCaller, ByWorker,
         WorkerFree
<1>3. ASSUME Settling PROVE Settling'
  <2>1. WorkerDone
    BY <1>3 DEF Settling, WorkerFree, NoJob
  <2>2. recovery' = NoJob
    BY <2>1 DEF WorkerDone, Alone, NextJob
  <2> QED
    BY <1>1, <1>3, <2>2 DEF Settling, Served, CallerFree, WorkerFree
<1>4. Mode'
  <2>1. CASE Delivering
    <3>1. PICK b \in Cursors \ {0} :
             b = sub.cursor + Len(conn.records) /\ b <= Len(log) /\ Streams(b)
      BY <2>1 DEF Delivering
    <3>2. Streams(b)'
      BY <1>0, <3>1, StreamsKept DEF Cursors
    <3>3. Settling'
      BY <1>3, <2>1 DEF Delivering
    <3>4. Delivering'
      BY <2>1, <3>1, <3>2, <3>3 DEF Delivering
    <3> QED
      BY <3>4 DEF Mode
  <2>2. CASE Following
    <3>1. PICK b \in Cursors \ {0} : b = sub.cursor /\ Streams(b)
      BY <2>2 DEF Following
    <3>2. Streams(b)'
      BY <1>0, <3>1, StreamsKept DEF Cursors
    <3>3. Settling'
      BY <1>3, <2>2 DEF Following
    <3>4. Following'
      BY <2>2, <3>1, <3>2, <3>3 DEF Following
    <3> QED
      BY <3>4 DEF Mode
  <2>3. CASE Recovering
    <3>1. recovery.follow /\ ~recovery.followFull /\ sub.cursor > 0
      BY <2>3 DEF Recovering
    <3>2. recovery'.pc = "run" /\ ~recovery'.follow /\ ~recovery'.followFull
      BY <3>1 DEF NextJob, NoJob
    <3>3. Recovering'
      BY <1>1, <2>3, <3>1, <3>2 DEF Recovering, Served, Down, CallerFree
    <3> QED
      BY <3>3 DEF Mode
  <2> QED
    BY <1>2, <2>1, <2>2, <2>3
<1>5. ViewInv'
  <2>1. Delivered' = Delivered
    BY DEF Delivered
  <2>2. Rebuilding => Rebuilding'
    BY <1>1 DEF Rebuilding
  <2> QED
    BY <1>0, <2>1, <2>2, ViewKept DEF FollowInv
<1> QED
  BY <1>1, <1>4, <1>5 DEF FollowInv

LEMMA TryEndsFollows ==
    ASSUME TypeInv, TypeInv', FollowInv, TryEnds
    PROVE  FollowInv'
<1>0. /\ waiter \in [Tasks -> Waiters] /\ sub \in Subscriptions /\ recovery \in Jobs
      /\ Len(log) <= Len(log')
      /\ UNCHANGED <<log, before, published, tail, feed, requests, wire, conn, view, opens>>
  BY DEF TypeInv, ClientType, LogType, TryEnds, daemonVars
<1>1. waiter'["worker"].pc = "idle" /\ waiter'["caller"] = waiter["caller"]
  BY <1>0 DEF TryEnds, Tasks, Waiters
<1>2. CASE waiter["worker"].pc = "ok"
  <2>1. recovery.pc = "busy" /\ recovery' = NextJob(recovery) /\ UNCHANGED <<sub, inbox>>
    BY <1>2 DEF TryEnds
  <2> QED
    BY <1>0, <1>1, <1>2, <2>1, JobDone
<1>3. CASE waiter["worker"].pc = "failed"
  <2>1. sub' = Aborted(sub)
    BY <1>3 DEF TryEnds
  <2>2. Failed
    BY <1>3, WhoReplays DEF FollowInv
  <2>3. /\ Down /\ Served /\ sub.fetching /\ CallerFree /\ Alone
        /\ ~recovery.full => sub.backCursor > 0
    BY <1>3, <2>2 DEF Failed, Fetching, ByCaller, ByWorker, WorkerFree, FromNothing, CallerFree
  <2>4. /\ sub'.cursor = sub.backCursor /\ sub'.stamp = sub.backStamp
        /\ sub'.backCursor = sub.backCursor /\ sub'.backStamp = sub.backStamp
        /\ ~sub'.fetching /\ sub'.buffered = sub.buffered /\ sub'.asked = sub.asked
        /\ sub'.generation = sub.generation
    BY <1>0, <2>1 DEF Aborted, Subscriptions
  <2>5. SubInv' /\ StraightLog'
    BY <1>0, <2>4 DEF FollowInv, SubInv, StraightLog
  <2>6. Delivered' = Delivered
    BY <2>3, <2>4 DEF Delivered
  <2>7. CASE recovery.tries + 1 # Attempts
    <3>1. inbox' = inbox /\ recovery' = [recovery EXCEPT !.pc = "run", !.tries = @ + 1]
      BY <1>3, <2>7 DEF TryEnds
    <3>2. /\ recovery'.pc = "run" /\ recovery'.full = recovery.full
          /\ ~recovery'.follow /\ ~recovery'.followFull
      BY <1>0, <2>3, <3>1 DEF Jobs, Alone
    <3>3. GaveUp' <=> GaveUp
      BY <3>1 DEF GaveUp
    <3>4. Recovering'
      BY <1>0, <1>1, <2>3, <2>4, <3>2, <3>3 DEF Recovering, Served, Down, CallerFree
    <3>5. Rebuilding => Rebuilding'
      BY <1>0, <1>1, <2>3, <3>2, <3>3 DEF Rebuilding
    <3>6. ViewInv'
      BY <1>0, <2>4, <2>6, <3>1, <3>5, ViewKept DEF FollowInv
    <3> QED
      BY <2>5, <3>4, <3>6 DEF FollowInv, Mode
  <2>8. CASE recovery.tries + 1 = Attempts
    <3>1. inbox' = Append(inbox, [kind |-> "recoveryFailed"]) /\ recovery' = NextJob(recovery)
      BY <1>3, <2>8 DEF TryEnds
    <3>2. recovery' = NoJob
      BY <2>3, <3>1 DEF NextJob, Alone
    <3>3. PICK m \in Nat : m = Len(inbox) + 1
      BY DEF TypeInv, ViewType
    <3>4. Len(inbox') = m /\ inbox'[m] = [kind |-> "recoveryFailed"] /\ inbox' # <<>>
      BY <3>1, <3>3 DEF TypeInv, ViewType
    <3>5. GaveUp'
      BY <3>4 DEF GaveUp
    <3>6. Opening'
      BY <1>0, <1>1, <2>3, <2>4, <3>2, <3>5
          DEF Opening, Served, Down, CallerFree, WorkerFree
    <3>7. ViewInv'
      <4>1. Fits(m)'
        BY <3>4 DEF Fits
      <4>2. ~GaveUp /\ Rebuilding'
        BY <2>3, <3>5 DEF Served, Rebuilding
      <4> QED
        BY <1>0, <2>6, <3>1, <3>3, <4>1, <4>2, ViewDelivered DEF FollowInv
    <3> QED
      BY <2>5, <3>6, <3>7 DEF FollowInv, Mode
  <2> QED
    BY <2>7, <2>8
<1> QED
  BY <1>2, <1>3 DEF TryEnds

-----------------------------------------------------------------------------
(* The client's steps: frames and deliveries. *)

(* The client takes a frame that does not end the stream. *)
LEMMA StreamTaken ==
    ASSUME TypeInv, TypeInv', NEW b \in Nat, Streams(b), IsTail(wire', wire),
           wire[1].kind # "gap", UNCHANGED <<log, published, tail, feed>>
    PROVE  Streams(b + 1)'
<1>0. /\ Len(feed) \in Nat
      /\ wire \in Seq(Pages \cup SentMessages)
      /\ wire' \in Seq(Pages \cup SentMessages)
  BY DaemonTypes, DaemonTypesNext
<1>1. /\ Len(wire) \in Nat \ {0} /\ Len(wire') = Len(wire) - 1
      /\ \A i \in 1 .. Len(wire') : wire'[i] = wire[i + 1]
  BY DEF IsTail
<1>2. OnWire(b + 1)'
  <2> SUFFICES ASSUME NEW i \in 1 .. Len(wire'), wire'[i].kind # "page"
               PROVE  \/ wire'[i] = Event(Nth(b + 1 + i)) /\ b + 1 + i <= Len(log)
                      \/ /\ wire'[i] = Gap(b + 1 + i - 1) /\ i = Len(wire')
                         /\ feed = <<>> /\ ~tail.on
    BY DEF OnWire
  <2>0. PICK k \in Nat : k = b + (i + 1)
    OBVIOUS
  <2>1. k = b + 1 + i /\ i + 1 \in 1 .. Len(wire) /\ (i + 1 = Len(wire) => i = Len(wire'))
    BY <1>1, <2>0
  <2>2. wire'[i] = wire[i + 1]
    BY <1>1
  <2>3. PICK j \in 1 .. Len(wire) : j = i + 1 /\ k = b + j
    BY <2>0, <2>1
  <2>4. \/ wire[j] = Event(Nth(b + j)) /\ b + j <= Len(log)
        \/ wire[j] = Gap(b + j - 1) /\ j = Len(wire) /\ feed = <<>> /\ ~tail.on
    BY <2>2, <2>3 DEF Streams, OnWire
  <2>5. \/ wire'[i] = Event(Nth(k)) /\ k <= Len(log)
        \/ wire'[i] = Gap(k - 1) /\ i = Len(wire') /\ feed = <<>> /\ ~tail.on
    BY <2>1, <2>2, <2>3, <2>4
  <2> QED
    BY <2>1, <2>5
<1>3. PICK k \in Nat : k = b + Len(wire) /\ k = b + 1 + Len(wire')
  BY <1>1
<1>4. InFeed(b + 1)'
  <2>1. \A i \in 1 .. Len(feed) :
           \/ feed[i].message = Event(Nth(k + i)) /\ k + i <= Len(log)
           \/ feed[i].message = Gap(k + i - 1) /\ i = Len(feed) /\ ~tail.on
    BY <1>3 DEF Streams, InFeed
  <2> QED
    BY <1>3, <2>1 DEF InFeed
<1>5. (tail.after <= Len(log))'
  BY DEF Streams
<1>6. (tail.on => TailGoesOn(b + 1))'
  <2>1. tail.on => k + Len(feed) = IF published < tail.after THEN tail.after ELSE published
    BY <1>3 DEF Streams, TailGoesOn
  <2> QED
    BY <1>3, <2>1 DEF TailGoesOn
<1>7. (~tail.on => EndsWithGap)'
  <2> SUFFICES ASSUME ~tail.on PROVE EndsWithGap'
    OBVIOUS
  <2>1. EndsWithGap
    BY DEF Streams
  <2>2. CASE feed # <<>>
    BY <2>1, <2>2 DEF EndsWithGap
  <2>3. CASE feed = <<>>
    <3>1. wire[Len(wire)].kind = "gap"
      BY <2>1, <2>3 DEF EndsWithGap
    <3>2. Len(wire') \in 1 .. Len(wire') /\ Len(wire') + 1 = Len(wire) /\ Len(wire') # 0
      BY <1>1, <3>1
    <3>3. wire' # <<>>
      BY <1>0, <3>2, NonEmpty, Zenon
    <3>4. wire'[Len(wire')] = wire[Len(wire)]
      BY <1>1, <3>2
    <3> QED
      BY <2>3, <3>1, <3>3, <3>4 DEF EndsWithGap
  <2> QED
    BY <2>2, <2>3
<1> QED
  BY <1>2, <1>4, <1>5, <1>6, <1>7 DEF Streams

(* The answer reaches the task that replays. *)
LEMMA RespondReaches ==
    ASSUME TypeInv, Fetching("wait"), NEW q \in Requests, q.attempt = sub.attempt,
           NEW result \in {"ok", "failed"}, Respond(q, result)
    PROVE  \/ /\ ByCaller("wait") /\ waiter'["worker"] = waiter["worker"]
              /\ waiter'["caller"] = [pc |-> result, attempt |-> sub.attempt]
           \/ /\ ByWorker("wait") /\ waiter'["caller"] = waiter["caller"]
              /\ waiter'["worker"] = [pc |-> result, attempt |-> sub.attempt]
<1>0. /\ waiter \in [Tasks -> Waiters]
      /\ \A t \in Tasks : waiter'[t] = IF waiter[t] = [pc |-> "wait", attempt |-> sub.attempt]
                                       THEN [waiter[t] EXCEPT !.pc = result] ELSE waiter[t]
  BY DEF TypeInv, ClientType, Respond
<1>1. "caller" \in Tasks /\ "worker" \in Tasks
  BY DEF Tasks
<1>2. [[pc |-> "wait", attempt |-> sub.attempt] EXCEPT !.pc = result] =
         [pc |-> result, attempt |-> sub.attempt]
  OBVIOUS
<1>3. CASE ByCaller("wait")
  <2>1. waiter["caller"] = [pc |-> "wait", attempt |-> sub.attempt]
        /\ waiter["worker"].pc = "idle"
    BY <1>3 DEF ByCaller, WorkerFree
  <2>2. waiter["worker"] # [pc |-> "wait", attempt |-> sub.attempt]
    BY <2>1
  <2> QED
    BY <1>0, <1>1, <1>2, <1>3, <2>1, <2>2
<1>4. CASE ByWorker("wait")
  <2>1. waiter["worker"] = [pc |-> "wait", attempt |-> sub.attempt]
        /\ waiter["caller"].pc # "wait"
    BY <1>4 DEF ByWorker, CallerFree
  <2>2. waiter["caller"] # [pc |-> "wait", attempt |-> sub.attempt]
    BY <2>1
  <2> QED
    BY <1>0, <1>1, <1>2, <1>4, <2>1, <2>2
<1> QED
  BY <1>3, <1>4 DEF Fetching

(* Records that follow each other. *)
LEMMA FollowOn ==
    ASSUME NEW r \in Seq(Records), NEW s \in Seq(Records), NEW c \in Nat,
           Follow(r, c), Follow(s, c + Len(r))
    PROVE  /\ r \o s \in Seq(Records) /\ Len(r \o s) = Len(r) + Len(s)
           /\ Follow(r \o s, c)
<1>0. /\ \A k \in 1 .. Len(r) : r[k] = Nth(c + k)
      /\ \A k \in 1 .. Len(s) : s[k] = Nth(c + Len(r) + k)
  BY DEF Follow
<1>1. /\ r \o s \in Seq(Records) /\ Len(r \o s) = Len(r) + Len(s)
      /\ Len(r) \in Nat /\ Len(s) \in Nat
      /\ \A k \in 1 .. Len(r) + Len(s) :
            (r \o s)[k] = IF k <= Len(r) THEN r[k] ELSE s[k - Len(r)]
  BY ConcatProperties
<1>2. ASSUME NEW k \in 1 .. Len(r) + Len(s) PROVE (r \o s)[k] = Nth(c + k)
  <2>1. CASE k <= Len(r)
    <3>1. k \in 1 .. Len(r)
      BY <2>1, <1>1
    <3>2. (r \o s)[k] = r[k]
      BY <2>1, <1>1
    <3> QED
      BY <3>1, <3>2, <1>0
  <2>2. CASE ~(k <= Len(r))
    <3>1. PICK j \in Nat : j = k - Len(r) /\ j \in 1 .. Len(s) /\ c + Len(r) + j = c + k
      BY <2>2, <1>1
    <3>2. (r \o s)[k] = s[j]
      BY <2>2, <3>1, <1>1
    <3> QED
      BY <3>1, <3>2, <1>0
  <2> QED
    BY <2>1, <2>2
<1> QED
  BY <1>1, <1>2 DEF Follow

(* The last of some records. *)
LEMMA FollowLast ==
    ASSUME NEW r \in Seq(Records), r # <<>>, NEW c \in Nat, Follow(r, c)
    PROVE  Last(r) = Nth(c + Len(r)) /\ Last(r).seq = c + Len(r) /\ Last(r).id = c + Len(r)
<1>1. Len(r) \in 1 .. Len(r)
  OBVIOUS
<1>2. Last(r) = Nth(c + Len(r))
  BY <1>1 DEF Follow, Last
<1> QED
  BY <1>2 DEF Nth

(* What the answer on the wire says of the step that takes it. *)
LEMMA PageIsCurrent ==
    ASSUME TypeInv, FollowInv, HandlePage
    PROVE  /\ Answered /\ Head(wire) \in Pages /\ Head(wire) = wire[1]
           /\ IsAnswer(Head(wire)) /\ Fetching("wait") /\ requests = {} /\ ~conn.busy
           /\ IsCurrent(Head(wire).request) /\ AwaitedBy(Head(wire).request)
           /\ wire # <<>> /\ wire' = Tail(wire) /\ Len(log) <= Len(log')
<1>0. /\ wire # <<>> /\ ~conn.busy /\ wire' = Tail(wire) /\ Head(wire).kind = "page"
      /\ Len(log) <= Len(log')
  <2>1. UNCHANGED log
    BY DEF HandlePage
  <2>2. wire # <<>> /\ ~conn.busy /\ wire' = Tail(wire) /\ Head(wire).kind = "page"
    BY DEF HandlePage, NextFrame
  <2> QED
    BY <2>1, <2>2, DaemonTypes
<1>1. Head(wire) = wire[1]
  BY <1>0
<1>2. Answered
  BY <1>0, <1>1, WhatIsNext DEF FollowInv
<1>3. PICK p \in Pages : wire[1] = p /\ IsAnswer(p)
  BY <1>2 DEF Answered
<1>4. Head(wire) \in Pages /\ IsAnswer(Head(wire)) /\ Fetching("wait") /\ requests = {}
  <2>1. IsAnswer(wire[1])
    BY <1>3
  <2> QED
    BY <1>1, <1>2, <1>3, <2>1 DEF Answered
<1>5. /\ p.request.attempt = sub.attempt /\ p.request.generation = sub.generation
      /\ sub.fetching
  BY <1>3, <1>4 DEF IsAnswer, Asks, Fetching
<1>6. IsCurrent(Head(wire).request)
  BY <1>1, <1>3, <1>5 DEF IsCurrent
<1>7. AwaitedBy(Head(wire).request)
  <2>1. \/ waiter["caller"] = [pc |-> "wait", attempt |-> sub.attempt]
        \/ waiter["worker"] = [pc |-> "wait", attempt |-> sub.attempt]
    BY <1>4 DEF Fetching, ByCaller, ByWorker
  <2> QED
    BY <1>1, <1>3, <1>5, <2>1 DEF AwaitedBy, Tasks
<1> QED
  BY <1>0, <1>1, <1>2, <1>4, <1>6, <1>7

(* The daemon refused the subscribe. *)
LEMMA ErrorFollows ==
    ASSUME TypeInv, TypeInv', FollowInv, HandlePage, Head(wire).outcome = "error"
    PROVE  FollowInv'
<1>0. /\ Answered /\ Fetching("wait") /\ requests = {} /\ ~conn.busy
      /\ wire # <<>> /\ wire' = Tail(wire) /\ Len(log) <= Len(log')
  BY PageIsCurrent
<1>1. PICK p \in Pages : p = Head(wire) /\ IsAnswer(p)
  BY PageIsCurrent
<1>2. PICK q \in Requests : q = p.request /\ q.attempt = sub.attempt
  BY <1>1 DEF Pages, IsAnswer, Asks
<1>3. /\ Respond(q, "failed")
      /\ UNCHANGED <<log, before, published, tail, feed, requests, sub, conn, recovery,
                     inbox, view, opens>>
  BY <1>1, <1>2 DEF HandlePage, viewVars
<1>4. wire' = <<>> /\ feed = <<>> /\ ~tail.on
  <2>1. Len(wire) = 1 /\ feed = <<>> /\ ~tail.on
    BY <1>1 DEF IsAnswer
  <2> QED
    BY <1>0, <2>1, DaemonTypes, LastTaken
<1>5. \/ /\ ByCaller("wait") /\ waiter'["worker"] = waiter["worker"]
         /\ waiter'["caller"] = [pc |-> "failed", attempt |-> sub.attempt]
      \/ /\ ByWorker("wait") /\ waiter'["caller"] = waiter["caller"]
         /\ waiter'["worker"] = [pc |-> "failed", attempt |-> sub.attempt]
  BY <1>0, <1>2, <1>3, RespondReaches
<1>6. GaveUp' <=> GaveUp
  BY <1>3 DEF GaveUp
<1>7. (ByCaller("failed")' \/ ByWorker("failed")') /\ (FromNothing' <=> FromNothing)
      /\ (Rebuilding => Rebuilding')
  <2>1. CASE ByCaller("wait") /\ waiter'["worker"] = waiter["worker"]
             /\ waiter'["caller"] = [pc |-> "failed", attempt |-> sub.attempt]
    BY <1>3, <2>1 DEF ByCaller, WorkerFree, FromNothing, Rebuilding
  <2>2. CASE ByWorker("wait") /\ waiter'["caller"] = waiter["caller"]
             /\ waiter'["worker"] = [pc |-> "failed", attempt |-> sub.attempt]
    BY <1>3, <1>6, <2>2 DEF ByWorker, Alone, CallerFree, FromNothing, Rebuilding
  <2> QED
    BY <1>5, <2>1, <2>2
<1>8. Failed'
  <2>1. Fetching("failed")'
    BY <1>0, <1>3, <1>6, <1>7 DEF Fetching, Served
  <2> QED
    BY <1>0, <1>3, <1>4, <2>1 DEF Failed, Down
<1>9. StraightLog' /\ SubInv'
  BY <1>3 DEF FollowInv, StraightLog, SubInv
<1>10. ViewInv'
  <2>1. Delivered' = Delivered
    BY <1>3 DEF Delivered
  <2> QED
    BY <1>0, <1>3, <1>7, <2>1, ViewKept DEF FollowInv
<1> QED
  BY <1>8, <1>9, <1>10 DEF FollowInv, Mode

(* The client keeps a page and asks for the next. *)
LEMMA MoreFollows ==
    ASSUME TypeInv, TypeInv', FollowInv, HandlePage, Head(wire).outcome = "more"
    PROVE  FollowInv'
<1>0. /\ Answered /\ Fetching("wait") /\ requests = {} /\ ~conn.busy
      /\ wire # <<>> /\ wire' = Tail(wire) /\ Len(log) <= Len(log')
      /\ sub \in Subscriptions
  BY PageIsCurrent DEF TypeInv, ClientType
<1>1. PICK p \in Pages : /\ p = Head(wire) /\ IsAnswer(p) /\ p = wire[1]
                         /\ p.records # <<>> /\ p.records \in Seq(Records)
  <2>1. Head(wire) \in Pages /\ IsAnswer(Head(wire)) /\ Head(wire) = wire[1]
    BY PageIsCurrent
  <2>2. WellAnswered(wire[1], sub.attempt)
    BY <1>0 DEF TypeInv, AskedType, DaemonType
  <2>3. wire[1].records # <<>>
    BY <2>1, <2>2 DEF WellAnswered, Pages
  <2> QED
    BY <2>1, <2>3 DEF Pages
<1>2. PICK q \in Requests : q = p.request /\ Asks(q)
  BY <1>1 DEF Pages, IsAnswer
<1>3. /\ Follow(p.records, q.cursor) /\ q.cursor + Len(p.records) <= Len(log)
      /\ wire' = <<>> /\ feed = <<>> /\ ~tail.on
  <2>1. Len(wire) = 1 /\ feed = <<>> /\ ~tail.on
    BY <1>1 DEF IsAnswer
  <2>2. wire' = <<>>
    BY <1>0, <2>1, DaemonTypes, LastTaken
  <2>3. Follow(p.records, q.cursor) /\ q.cursor + Len(p.records) <= Len(log)
    BY <1>1, <1>2 DEF IsAnswer, Tip
  <2> QED
    BY <2>1, <2>2, <2>3
<1>4. IsCurrent(q) /\ AwaitedBy(q)
  BY <1>1, <1>2, PageIsCurrent
<1>5. PICK s \in Requests : s = [q EXCEPT !.cursor = q.cursor + Len(p.records), !.stamp = 0]
  <2>1. q.cursor + Len(p.records) \in Cursors /\ 0 \in Cursors
    <3>1. /\ Len(log) \in Nat /\ Len(log) <= MaxRecords /\ MaxRecords \in Nat
          /\ q.cursor \in Nat /\ Len(p.records) \in Nat
      <4>1. Len(log) \in Nat /\ Len(log) <= MaxRecords /\ MaxRecords \in Nat
        BY DaemonTypes, TailAssumption, Zenon
      <4>2. q.cursor \in Nat
        BY RequestCursor
      <4> QED
        BY <1>1, <4>1, <4>2
    <3> QED
      BY <1>3, <3>1 DEF Cursors
  <2> QED
    BY <2>1 DEF Requests
<1>6. Last(p.records).seq = q.cursor + Len(p.records)
  <2>1. q.cursor \in Nat
    BY RequestCursor
  <2> QED
    BY <1>1, <1>3, <2>1, FollowLast, Zenon
<1>7. /\ sub' = [sub EXCEPT !.pages = @ \o p.records]
      /\ requests' = {s}
      /\ UNCHANGED <<log, before, published, tail, feed, conn, waiter, recovery, inbox, view,
                     opens>>
  BY <1>0, <1>1, <1>2, <1>4, <1>5, <1>6 DEF HandlePage, viewVars
<1>8. /\ sub'.pages = sub.pages \o p.records /\ sub'.cursor = sub.cursor
      /\ sub'.attempt = sub.attempt /\ sub'.generation = sub.generation
      /\ sub'.fetching = sub.fetching /\ sub'.stamp = sub.stamp
      /\ sub'.backCursor = sub.backCursor /\ sub'.backStamp = sub.backStamp
      /\ sub'.buffered = sub.buffered /\ sub'.asked = sub.asked
  BY <1>0, <1>7 DEF Subscriptions
<1>9. /\ s.attempt = q.attempt /\ s.generation = q.generation /\ s.rebuild = q.rebuild
      /\ s.cursor = q.cursor + Len(p.records) /\ s.stamp = 0
  BY <1>5 DEF Requests
<1>10. /\ sub.pages \in Seq(Records) /\ sub.cursor \in Nat /\ Follow(sub.pages, sub.cursor)
       /\ q.cursor = sub.cursor + Len(sub.pages)
  BY <1>0, <1>2 DEF Subscriptions, Cursors, Fetching, Asks
<1>11. Follow(sub'.pages, sub'.cursor) /\ Len(sub'.pages) = Len(sub.pages) + Len(p.records)
  <2>1. Follow(p.records, sub.cursor + Len(sub.pages))
    BY <1>3, <1>10
  <2>2. /\ Follow(sub.pages \o p.records, sub.cursor)
        /\ Len(sub.pages \o p.records) = Len(sub.pages) + Len(p.records)
    BY <1>1, <1>10, <2>1, FollowOn
  <2> QED
    BY <1>8, <2>2
<1>12. (FromNothing' <=> FromNothing) /\ (GaveUp' <=> GaveUp)
  BY <1>7 DEF FromNothing, GaveUp
<1>13. Fetching("wait")'
  BY <1>0, <1>7, <1>8, <1>11, <1>12
      DEF Fetching, Served, ByCaller, ByWorker, WorkerFree, CallerFree, Alone
<1>14. Asks(s)'
  <2>1. s.cursor = sub'.cursor + Len(sub'.pages) /\ s.cursor <= Len(log')
    <3>1. PICK a \in Nat, l \in Nat, n \in Nat :
             a = sub.cursor /\ l = Len(sub.pages) /\ n = Len(p.records)
      BY <1>1, <1>10
    <3>2. s.cursor = (a + l) + n /\ sub'.cursor = a /\ Len(sub'.pages) = l + n
      BY <1>8, <1>9, <1>10, <1>11, <3>1
    <3>3. s.cursor = sub'.cursor + Len(sub'.pages)
      BY <3>2
    <3> QED
      BY <1>3, <1>7, <1>9, <3>3
  <2> QED
    BY <1>2, <1>8, <1>9, <1>12, <2>1 DEF Asks
<1>15. Asking'
  BY <1>3, <1>7, <1>13, <1>14 DEF Asking
<1>16. StraightLog' /\ SubInv'
  BY <1>7, <1>8 DEF FollowInv, StraightLog, SubInv
<1>17. ViewInv'
  <2>1. Delivered' = Delivered /\ (Rebuilding' <=> Rebuilding)
    BY <1>7, <1>8 DEF Delivered, Rebuilding, GaveUp
  <2> QED
    BY <1>0, <1>7, <1>8, <2>1, ViewKept DEF FollowInv
<1> QED
  BY <1>15, <1>16, <1>17 DEF FollowInv, Mode

(* The replay has its last page. *)
LEMMA FinalFollows ==
    ASSUME TypeInv, TypeInv', FollowInv, HandlePage, Head(wire).outcome = "final"
    PROVE  FollowInv'
<1>0. /\ Answered /\ Fetching("wait") /\ requests = {} /\ ~conn.busy
      /\ wire # <<>> /\ wire' = Tail(wire) /\ Len(log) <= Len(log')
      /\ sub \in Subscriptions /\ wire \in Seq(Pages \cup SentMessages)
  BY PageIsCurrent DEF TypeInv, ClientType, DaemonType
<1>1. PICK p \in Pages : /\ p = Head(wire) /\ IsAnswer(p) /\ p = wire[1]
                         /\ p.records \in Seq(Records) /\ p.kind = "page"
  BY PageIsCurrent DEF Pages
<1>2. PICK q \in Requests : q = p.request /\ Asks(q)
  BY <1>1 DEF Pages, IsAnswer
<1>3. IsCurrent(q)
  BY <1>1, <1>2, PageIsCurrent, Zenon
<1>4. /\ Respond(q, "ok")
      /\ conn' = [busy |-> TRUE, request |-> q, records |-> sub.pages \o p.records]
      /\ sub' = [sub EXCEPT !.pages = <<>>]
      /\ UNCHANGED <<log, before, published, tail, feed, recovery, requests, inbox, view,
                     opens>>
  BY <1>1, <1>2, <1>3 DEF HandlePage, viewVars
<1>5. /\ sub'.cursor = sub.cursor
      /\ sub'.attempt = sub.attempt /\ sub'.generation = sub.generation
      /\ sub'.fetching = sub.fetching /\ sub'.stamp = sub.stamp
      /\ sub'.backCursor = sub.backCursor /\ sub'.backStamp = sub.backStamp
      /\ sub'.buffered = sub.buffered /\ sub'.asked = sub.asked
  BY <1>0, <1>4 DEF Subscriptions
<1>6. /\ sub.pages \in Seq(Records) /\ sub.cursor \in Nat /\ Follow(sub.pages, sub.cursor)
      /\ q.cursor = sub.cursor + Len(sub.pages) /\ Follow(p.records, q.cursor)
      /\ Len(sub.pages) \in Nat /\ Len(p.records) \in Nat
  <2>1. sub.pages \in Seq(Records) /\ sub.cursor \in Nat
    BY <1>0 DEF Subscriptions, Cursors
  <2>2. Follow(sub.pages, sub.cursor)
    BY <1>0 DEF Fetching
  <2>3. q.cursor = sub.cursor + Len(sub.pages)
    BY <1>2 DEF Asks
  <2>4. Follow(p.records, q.cursor)
    BY <1>1, <1>2 DEF IsAnswer
  <2>5. Len(sub.pages) \in Nat /\ Len(p.records) \in Nat
    BY <1>1, <2>1
  <2> QED
    BY <2>1, <2>2, <2>3, <2>4, <2>5
<1>7. /\ Follow(sub.pages \o p.records, sub.cursor)
      /\ Len(sub.pages \o p.records) = Len(sub.pages) + Len(p.records)
  BY <1>1, <1>6, FollowOn
<1>8. /\ conn'.busy /\ conn'.request = q /\ Follow(conn'.records, sub'.cursor)
      /\ Len(conn'.records) = Len(sub.pages) + Len(p.records)
  BY <1>4, <1>5, <1>7
<1>9. PICK b \in Nat : b + 1 = Tip(p) /\ Streams(b) /\ b + 1 <= Len(log)
  <2>1. Tip(p) \in Nat /\ Tip(p) > 0 /\ Streams(Tip(p) - 1) /\ Tip(p) <= Len(log)
    <3>1. Tip(p) > 0 /\ Streams(Tip(p) - 1) /\ Tip(p) <= Len(log)
      BY <1>1 DEF IsAnswer
    <3>2. q.cursor \in Nat /\ Len(p.records) \in Nat
      BY <1>6 DEF Requests, Cursors
    <3>3. Tip(p) = q.cursor + Len(p.records)
      BY <1>2 DEF Tip
    <3> QED
      BY <3>1, <3>2, <3>3
  <2>2. Tip(p) - 1 \in Nat /\ (Tip(p) - 1) + 1 = Tip(p)
    BY <2>1
  <2> QED
    BY <2>1, <2>2
<1>10. Streams(b + 1)'
  <2>1. IsTail(wire', wire)
    BY <1>0, TailIsTail
  <2> QED
    BY <1>1, <1>4, <1>9, <2>1, StreamTaken
<1>11. b + 1 = sub'.cursor + Len(conn'.records) /\ b + 1 \in Cursors \ {0}
  <2>1. b + 1 = q.cursor + Len(p.records)
    BY <1>2, <1>9 DEF Tip
  <2>2. b + 1 \in Cursors
    BY <1>9, TailAssumption DEF TypeInv, LogType, Cursors
  <2>3. PICK a \in Nat, l \in Nat, n \in Nat :
           a = sub.cursor /\ l = Len(sub.pages) /\ n = Len(p.records)
    BY <1>6
  <2>4. b + 1 = (a + l) + n /\ sub'.cursor = a /\ Len(conn'.records) = l + n
    BY <1>5, <1>6, <1>8, <2>1, <2>3
  <2>5. b + 1 = sub'.cursor + Len(conn'.records) /\ b + 1 # 0
    BY <2>4
  <2> QED
    BY <2>2, <2>5
<1>12. \/ /\ ByCaller("wait") /\ waiter'["worker"] = waiter["worker"]
          /\ waiter'["caller"] = [pc |-> "ok", attempt |-> sub.attempt]
       \/ /\ ByWorker("wait") /\ waiter'["caller"] = waiter["caller"]
          /\ waiter'["worker"] = [pc |-> "ok", attempt |-> sub.attempt]
  BY <1>0, <1>2, <1>4, RespondReaches DEF Asks
<1>13. GaveUp' <=> GaveUp
  BY <1>4 DEF GaveUp
<1>14. CallerFree' /\ (WorkerFree' \/ WorkerDone')
  <2>1. CASE ByCaller("wait") /\ waiter'["worker"] = waiter["worker"]
             /\ waiter'["caller"] = [pc |-> "ok", attempt |-> sub.attempt]
    BY <1>4, <2>1 DEF ByCaller, WorkerFree, CallerFree
  <2>2. CASE ByWorker("wait") /\ waiter'["caller"] = waiter["caller"]
             /\ waiter'["worker"] = [pc |-> "ok", attempt |-> sub.attempt]
    BY <1>4, <2>2 DEF ByWorker, CallerFree, Alone, WorkerDone
  <2> QED
    BY <1>12, <2>1, <2>2
<1>15. Rebuilding => Rebuilding'
  <2>1. q.rebuild <=> FromNothing
    BY <1>2 DEF Asks
  <2>2. Rebuilding => FromNothing
    BY <1>0 DEF Rebuilding, FromNothing, Fetching, Served
  <2> QED
    BY <1>8, <2>1, <2>2 DEF Rebuilding
<1>16. Settling'
  <2>1. \A i \in 1 .. Len(wire') : wire'[i].kind # "page"
    <3>1. /\ Len(wire) \in Nat \ {0} /\ Len(wire') = Len(wire) - 1
          /\ \A i \in 1 .. Len(wire') : wire'[i] = wire[i + 1]
      BY <1>0
    <3>2. \A i \in 1 .. Len(wire') : i + 1 \in 2 .. Len(wire)
      BY <3>1
    <3> QED
      BY <1>0, <3>1, <3>2 DEF Answered
  <2> QED
    BY <1>0, <1>4, <1>13, <1>14, <2>1 DEF Settling, Fetching, Served
<1>17. Delivering'
  <2>1. /\ conn'.request.rebuild => sub'.cursor = 0
        /\ ~conn'.request.rebuild => sub'.cursor = sub'.backCursor
        /\ conn'.request.attempt = sub'.attempt
        /\ conn'.request.generation = sub'.generation /\ sub'.fetching
    BY <1>0, <1>2, <1>5, <1>8 DEF Asks, Fetching
  <2>2. b + 1 <= Len(log')
    BY <1>4, <1>9
  <2> QED
    BY <1>8, <1>10, <1>11, <1>16, <2>1, <2>2 DEF Delivering
<1>18. StraightLog' /\ SubInv'
  BY <1>4, <1>5 DEF FollowInv, StraightLog, SubInv
<1>19. ViewInv'
  <2>1. Delivered' = Delivered
    BY <1>5 DEF Delivered
  <2> QED
    BY <1>0, <1>4, <1>5, <1>15, <2>1, ViewKept DEF FollowInv
<1> QED
  BY <1>17, <1>18, <1>19 DEF FollowInv, Mode

LEMMA HandlePageFollows ==
    ASSUME TypeInv, TypeInv', FollowInv, HandlePage
    PROVE  FollowInv'
<1>1. Head(wire) \in Pages /\ Head(wire).outcome # "stale"
  BY PageIsCurrent DEF IsAnswer
<1>2. Head(wire).outcome \in {"more", "final", "error"}
  BY <1>1 DEF Pages
<1> QED
  BY <1>2, ErrorFollows, MoreFollows, FinalFollows

(* Nothing was buffered behind the replay. *)
LEMMA SettleEmpty ==
    ASSUME NEW last
    PROVE  Settle(last, <<>>) = [cursor |-> last.seq, stamp |-> last.id, gap |-> FALSE,
                                 kept |-> <<>>]
<1> DEFINE Start == [cursor |-> last.seq, stamp |-> last.id, gap |-> FALSE, kept |-> <<>>]
           b == <<>>
           Body(f) == [n \in 0 .. Len(b) |->
                          IF n = 0 THEN Start ELSE Behind(f[n - 1], b[n])]
           f0 == [n \in 0 .. 0 |-> Start]
<1>1. Len(b) = 0
  OBVIOUS
<1>2. f0 = Body(f0)
  BY <1>1
<1> DEFINE done == CHOOSE g : g = Body(g)
<1>3. done = Body(done)
  BY <1>2
<1>4. Settle(last, b) = done[Len(b)]
  BY DEF Settle
<1> HIDE DEF done
<1>5. done[0] = Start
  BY <1>1, <1>3
<1> QED
  BY <1>1, <1>4, <1>5

LEMMA DeliverReplayFollows ==
    ASSUME TypeInv, TypeInv', FollowInv, DeliverReplay
    PROVE  FollowInv'
<1>0. /\ conn.busy /\ sub \in Subscriptions /\ Len(log) <= Len(log')
      /\ UNCHANGED <<log, before, published, tail, feed, requests, wire, waiter, view, opens>>
  BY DEF DeliverReplay, TypeInv, ClientType, LogType, daemonVars
<1>1. Delivering
  BY <1>0, WhoReplays DEF FollowInv
<1>2. PICK b \in Cursors \ {0} :
         b = sub.cursor + Len(conn.records) /\ b <= Len(log) /\ Streams(b)
  BY <1>1 DEF Delivering
<1>3. /\ conn.request \in Requests /\ conn.records \in Seq(Records) /\ sub.cursor \in Nat
      /\ b \in Nat /\ sub.stamp \in {0, sub.cursor}
      /\ sub.buffered = <<>> /\ sub.asked = "none"
  <2>1. conn # NoReplay
    BY <1>0 DEF NoReplay
  <2>2. conn \in [busy: {TRUE}, request: Requests, records: Seq(Records)]
    BY <2>1 DEF TypeInv, ClientType
  <2>3. sub.cursor \in Nat /\ b \in Nat
    BY <1>0 DEF Subscriptions, Cursors
  <2> QED
    BY <2>2, <2>3 DEF FollowInv, SubInv
<1>4. IsCurrent(conn.request)
  BY <1>1 DEF Delivering, IsCurrent
<1>5. PICK last : /\ last = IF conn.records = <<>>
                            THEN [seq |-> sub.cursor, id |-> sub.stamp]
                            ELSE Last(conn.records)
                  /\ last.seq = b /\ last.id \in {0, b}
  <2>1. CASE conn.records = <<>>
    <3>1. b = sub.cursor
      <4>1. Len(conn.records) = 0 /\ sub.cursor \in Nat
        BY <1>3, <2>1
      <4> QED
        BY <1>2, <4>1
    <3>2. PICK r : r = [seq |-> sub.cursor, id |-> sub.stamp]
      OBVIOUS
    <3>3. r.seq = b /\ r.id = sub.stamp
      BY <3>1, <3>2
    <3>4. r.id \in {0, b}
      BY <1>3, <3>1, <3>3
    <3> QED
      BY <2>1, <3>2, <3>3, <3>4
  <2>2. CASE conn.records # <<>>
    <3>1. Last(conn.records).seq = b /\ Last(conn.records).id = b
      BY <1>1, <1>2, <1>3, <2>2, FollowLast DEF Delivering
    <3> QED
      BY <2>2, <3>1
  <2> QED
    BY <2>1, <2>2
<1>6. PICK d : d = [kind |-> "replay", generation |-> conn.request.generation,
                    rebuild |-> conn.request.rebuild, records |-> conn.records,
                    final |-> last.seq]
  OBVIOUS
<1>7. /\ conn' = NoReplay /\ recovery' = recovery
      /\ sub' = [sub EXCEPT !.cursor = b, !.stamp = last.id, !.fetching = FALSE,
                            !.buffered = <<>>, !.asked = "none"]
      /\ inbox' = inbox \o <<d>> \o <<>>
  <2>1. Settle(last, sub.buffered) =
           [cursor |-> last.seq, stamp |-> last.id, gap |-> FALSE, kept |-> <<>>]
    BY <1>3, SettleEmpty
  <2>2. /\ Settle(last, sub.buffered).cursor = b /\ Settle(last, sub.buffered).stamp = last.id
        /\ Settle(last, sub.buffered).gap = FALSE
        /\ Settle(last, sub.buffered).kept = <<>>
    BY <2>1, <1>5
  <2> QED
    BY <1>3, <1>4, <1>5, <1>6, <2>2 DEF DeliverReplay
<1>8. /\ sub'.cursor = b /\ sub'.stamp = last.id /\ sub'.fetching = FALSE
      /\ sub'.buffered = <<>> /\ sub'.asked = "none"
      /\ sub'.backCursor = sub.backCursor /\ sub'.backStamp = sub.backStamp
      /\ sub'.generation = sub.generation
  BY <1>0, <1>7 DEF Subscriptions
<1>9. inbox' = Append(inbox, d)
  <2>1. inbox \in Seq(LiveMessages \cup Replays \cup {RecoveryFailed})
    BY DEF TypeInv, ViewType
  <2>2. d \in Replays
    BY <1>3, <1>5, <1>6, <1>2 DEF Requests, Replays
  <2>3. inbox \o <<d>> = Append(inbox, d) /\ Append(inbox, d) \o <<>> = Append(inbox, d)
    BY <2>1, <2>2
  <2> QED
    BY <1>7, <2>3
<1>10. SubInv' /\ StraightLog'
  BY <1>0, <1>2, <1>5, <1>8 DEF FollowInv, SubInv, StraightLog
<1>11. ~GaveUp
  BY <1>1 DEF Delivering, Settling, Served
<1>12. PICK m \in Nat : m = Len(inbox) + 1
  BY DEF TypeInv, ViewType
<1>13. Len(inbox') = m /\ inbox'[m] = d /\ m # 0 /\ m - 1 = Len(inbox)
       /\ (m - 1 # 0 => inbox'[m - 1] = inbox[m - 1])
  BY <1>9, <1>12 DEF TypeInv, ViewType
<1>14. GaveUp' <=> FALSE
  BY <1>6, <1>13 DEF GaveUp
<1>15. Following'
  <2>1. Streams(b)'
    BY <1>0, <1>2, <1>3, StreamsKept
  <2>2. Settling'
    BY <1>0, <1>1, <1>7, <1>14
        DEF Delivering, Settling, Served, CallerFree, WorkerFree, WorkerDone, Alone
  <2> QED
    BY <1>2, <1>7, <1>8, <2>1, <2>2 DEF Following, NoReplay
<1>16. ComesTo(m)'
  BY <1>1, <1>5, <1>6, <1>8, <1>13
      DEF ComesTo, LevelAt, GenerationAt, KnownAt, Delivered, Delivering
<1>17. Fits(m)'
  <2>1. LevelAt(m)' = b /\ LevelAt(m)' <= Len(log')
    BY <1>0, <1>2, <1>5, <1>6, <1>13 DEF LevelAt
  <2>2. CASE conn.request.rebuild
    <3>1. sub.cursor = 0 /\ Follow(conn.records, 0)
      BY <1>1, <2>2 DEF Delivering
    <3>2. d.final = Len(d.records)
      BY <1>2, <1>3, <1>5, <1>6, <3>1
    <3>3. RebuildFits(inbox'[m])
      BY <1>6, <1>13, <2>2, <3>1, <3>2 DEF RebuildFits
    <3> QED
      BY <2>1, <3>3 DEF Fits
  <2>3. CASE ~conn.request.rebuild
    <3>1. ~Rebuilding
      BY <1>1, <2>3 DEF Rebuilding, Delivering, Settling, Served, CallerFree, WorkerFree,
                        WorkerDone, NoJob
    <3>2. PICK n \in Nat : n = Pending /\ ComesTo(n)
      BY DEF FollowInv, ViewInv
    <3>3. n = m - 1
      BY <1>11, <1>13, <3>2 DEF Pending
    <3>4. LevelAt(n) = sub.backCursor /\ GenerationAt(n) = sub.generation /\ KnownAt(n)
      BY <1>1, <3>1, <3>2 DEF ComesTo, Delivered, Delivering
    <3>5. LevelAt(n)' = LevelAt(n) /\ GenerationAt(n)' = GenerationAt(n)
          /\ (KnownAt(n)' <=> KnownAt(n))
      BY <1>0, <1>13, <3>3 DEF LevelAt, GenerationAt, KnownAt
    <3>6. sub.cursor = sub.backCursor /\ Follow(conn.records, sub.cursor)
          /\ conn.request.generation = sub.generation
      BY <1>1, <2>3 DEF Delivering
    <3>7. GoesOn(m)'
      BY <1>6, <1>13, <3>3, <3>4, <3>5, <3>6 DEF GoesOn
    <3>8. CatchUpFits(inbox'[m], LevelAt(n)')
      BY <1>2, <1>5, <1>6, <1>13, <2>3, <3>4, <3>5, <3>6 DEF CatchUpFits
    <3> QED
      BY <2>1, <3>3, <3>7, <3>8 DEF Fits
  <2> QED
    BY <2>2, <2>3
<1>18. ViewInv'
  <2>1. d.kind # "recoveryFailed"
    BY <1>6
  <2> QED
    BY <1>0, <1>9, <1>11, <1>12, <1>16, <1>17, <2>1, ViewDelivered DEF FollowInv
<1> QED
  BY <1>10, <1>15, <1>18 DEF FollowInv, Mode

(* A live message behind what was delivered. *)
LEMMA LiveFits ==
    ASSUME TypeInv, TypeInv', FollowInv, Following, NEW d, inbox' = Append(inbox, d),
           UNCHANGED <<log, view>>, ~sub'.fetching, sub'.generation = sub.generation,
           d.generation = sub.generation, d.seq = sub'.cursor, sub'.cursor <= Len(log),
           \/ EventFits(d, sub.cursor)
           \/ GapFits(d, sub.cursor)
    PROVE  ViewInv' /\ ~GaveUp'
<1>1. ~GaveUp /\ ~Rebuilding
  BY DEF Following, Settling, Served, Rebuilding, CallerFree, WorkerFree, WorkerDone, NoJob
<1>2. PICK m \in Nat : m = Len(inbox) + 1
  BY DEF TypeInv, ViewType
<1>3. /\ Len(inbox') = m /\ inbox'[m] = d /\ m # 0 /\ m - 1 = Len(inbox)
      /\ (m - 1 # 0 => inbox'[m - 1] = inbox[m - 1])
  BY <1>2 DEF TypeInv, ViewType
<1>4. d.kind \in {"event", "gap"}
  BY DEF EventFits, GapFits
<1>5. PICK n \in Nat : n = Pending /\ ComesTo(n)
  BY DEF FollowInv, ViewInv
<1>6. n = m - 1
  BY <1>1, <1>3, <1>5 DEF Pending
<1>7. LevelAt(n) = sub.cursor /\ GenerationAt(n) = sub.generation /\ KnownAt(n)
  BY <1>1, <1>5 DEF ComesTo, Delivered, Following
<1>8. LevelAt(n)' = LevelAt(n) /\ GenerationAt(n)' = GenerationAt(n)
      /\ (KnownAt(n)' <=> KnownAt(n))
  BY <1>3, <1>6 DEF LevelAt, GenerationAt, KnownAt
<1>9. LevelAt(m)' = sub'.cursor /\ GenerationAt(m)' = sub.generation /\ KnownAt(m)'
  BY <1>3, <1>4 DEF LevelAt, GenerationAt, KnownAt
<1>10. Fits(m)'
  <2>1. GoesOn(m)'
    BY <1>3, <1>6, <1>7, <1>8 DEF GoesOn
  <2>2. LevelAt(m)' <= Len(log')
    BY <1>9
  <2>3. EventFits(inbox'[m], LevelAt(n)') \/ GapFits(inbox'[m], LevelAt(n)')
    BY <1>3, <1>7, <1>8
  <2> QED
    BY <1>6, <2>1, <2>2, <2>3 DEF Fits
<1>11. ComesTo(m)'
  BY <1>9 DEF ComesTo, Delivered
<1>12. d.kind # "recoveryFailed"
  BY <1>4
<1>13. ViewInv'
  BY <1>1, <1>2, <1>10, <1>11, <1>12, ViewDelivered DEF FollowInv
<1>14. ~GaveUp'
  BY <1>3, <1>12 DEF GaveUp
<1> QED
  BY <1>13, <1>14

LEMMA RouteLiveFollows ==
    ASSUME TypeInv, TypeInv', FollowInv, RouteLive
    PROVE  FollowInv'
<1>0. /\ wire # <<>> /\ ~conn.busy /\ wire' = Tail(wire) /\ Head(wire) = wire[1]
      /\ wire[1].kind # "page" /\ sub \in Subscriptions /\ recovery \in Jobs
      /\ wire \in Seq(Pages \cup SentMessages)
      /\ UNCHANGED <<log, before, published, tail, feed, requests, conn, waiter, view, opens>>
  BY DEF RouteLive, NextFrame, TypeInv, ClientType, DaemonType, daemonVars
<1>1. Following
  BY <1>0, WhatIsNext DEF FollowInv
<1>2. PICK b \in Nat : b \in Cursors /\ b = sub.cursor /\ Streams(b) /\ b > 0
  BY <1>1 DEF Following, Cursors
<1>3. ~sub.fetching /\ StraightLog' /\ Served
  BY <1>0, <1>1 DEF Following, FollowInv, StraightLog, Settling
<1>4. PICK d : d = Live(wire[1], sub.generation)
  OBVIOUS
<1>5. /\ sub' = Advanced(sub, d) /\ inbox' = Append(inbox, d)
      /\ recovery' = IF Recovers(sub, d) THEN Scheduled(recovery, d.kind = "rewound")
                     ELSE recovery
  BY <1>0, <1>3, <1>4 DEF RouteLive
<1>6. d.kind = wire[1].kind /\ d.seq = wire[1].seq /\ d.id = wire[1].id
      /\ d.generation = sub.generation
  BY <1>4 DEF Live
<1>7. \/ wire[1] = Event(Nth(b + 1)) /\ b + 1 <= Len(log)
      \/ wire[1] = Gap(b + 1 - 1) /\ 1 = Len(wire) /\ feed = <<>> /\ ~tail.on
  <2>1. 1 \in 1 .. Len(wire)
    BY <1>0
  <2> QED
    BY <1>0, <1>2, <2>1 DEF Streams, OnWire
<1>8. CASE wire[1] = Event(Nth(b + 1)) /\ b + 1 <= Len(log)
  <2>1. d.kind = "event" /\ d.seq = b + 1 /\ d.id = b + 1
    BY <1>6, <1>8 DEF Event, Nth
  <2>2. sub' = [sub EXCEPT !.cursor = b + 1, !.stamp = b + 1]
    <3>1. Continues(d, sub.cursor)
      BY <1>2, <2>1 DEF Continues
    <3> QED
      BY <1>5, <2>1, <3>1 DEF Advanced, Continues
  <2>3. recovery' = recovery
    <3>1. ~Recovers(sub, d)
      BY <1>2, <2>1 DEF Recovers
    <3> QED
      BY <1>5, <3>1
  <2>4. /\ sub'.cursor = b + 1 /\ sub'.stamp = b + 1 /\ sub'.fetching = sub.fetching
        /\ sub'.buffered = sub.buffered /\ sub'.asked = sub.asked
        /\ sub'.backCursor = sub.backCursor /\ sub'.backStamp = sub.backStamp
        /\ sub'.generation = sub.generation
    BY <1>0, <2>2 DEF Subscriptions
  <2>5. SubInv'
    BY <1>0, <1>8, <2>4 DEF FollowInv, SubInv
  <2>6. ViewInv' /\ ~GaveUp'
    <3>1. EventFits(d, sub.cursor)
      BY <1>2, <2>1 DEF EventFits
    <3> QED
      BY <1>0, <1>1, <1>3, <1>5, <1>6, <1>8, <2>1, <2>4, <3>1, LiveFits
  <2>7. Following'
    <3>1. Streams(b + 1)'
      <4>1. wire[1].kind # "gap"
        BY <1>8 DEF Event
      <4>2. IsTail(wire', wire)
        BY <1>0, TailIsTail
      <4> QED
        BY <1>0, <1>2, <4>1, <4>2, StreamTaken
    <3>2. \A i \in 1 .. Len(wire') : wire'[i].kind # "page"
      <4>1. /\ Len(wire) \in Nat \ {0} /\ Len(wire') = Len(wire) - 1
            /\ \A i \in 1 .. Len(wire') : wire'[i] = wire[i + 1]
        BY <1>0
      <4>2. \A i \in 1 .. Len(wire') : i + 1 \in 1 .. Len(wire)
        BY <4>1
      <4> QED
        BY <1>1, <4>1, <4>2 DEF Following, Settling
    <3>3. Settling'
      BY <1>0, <1>1, <2>3, <2>6, <3>2
          DEF Following, Settling, Served, CallerFree, WorkerFree, WorkerDone, Alone
    <3>4. b + 1 \in Cursors \ {0}
      <4>1. Len(log) \in Nat /\ Len(log) <= MaxRecords /\ MaxRecords \in Nat
        BY DaemonTypes, TailAssumption, Zenon
      <4> QED
        BY <1>2, <1>8, <4>1 DEF Cursors
    <3> QED
      BY <1>0, <1>3, <2>4, <3>1, <3>3, <3>4 DEF Following
  <2> QED
    BY <1>3, <2>5, <2>6, <2>7 DEF FollowInv, Mode
<1>9. CASE wire[1] = Gap(b + 1 - 1) /\ 1 = Len(wire) /\ feed = <<>> /\ ~tail.on
  <2>1. d.kind = "gap" /\ d.seq = b
    <3>1. b + 1 - 1 = b
      BY <1>2
    <3> QED
      BY <1>6, <1>9, <3>1 DEF Gap
  <2>2. sub' = [sub EXCEPT !.cursor = b, !.stamp = IF b # sub.cursor THEN 0 ELSE sub.stamp]
    BY <1>0, <1>5, <2>1 DEF Advanced, Continues, Subscriptions
  <2>3. sub' = sub
    BY <1>0, <1>2, <2>2 DEF Subscriptions
  <2>4. recovery' = Scheduled(recovery, FALSE)
    <3>1. Recovers(sub, d) /\ (d.kind = "rewound") = FALSE
      BY <2>1 DEF Recovers
    <3> QED
      BY <1>5, <3>1
  <2>5. SubInv'
    BY <1>0, <2>3 DEF FollowInv, SubInv
  <2>6. ViewInv' /\ ~GaveUp'
    <3>1. GapFits(d, sub.cursor) /\ sub.cursor <= Len(log)
      BY <1>2, <2>1 DEF GapFits, FollowInv, SubInv
    <3> QED
      BY <1>0, <1>1, <1>2, <1>3, <1>5, <1>6, <2>1, <2>3, <3>1, LiveFits
  <2>7. wire' = <<>>
    BY <1>0, <1>9
  <2>8. Served' /\ Down' /\ CallerFree'
    BY <1>0, <1>1, <1>3, <1>9, <2>6, <2>7 DEF Following, Settling, Served, Down, CallerFree
  <2>9. Recovering'
    <3>1. CASE WorkerFree
      <4>1. recovery'.pc = "run" /\ ~recovery'.follow /\ ~recovery'.followFull
        BY <2>4, <3>1 DEF WorkerFree, NoJob, Scheduled
      <4> QED
        BY <1>0, <1>2, <1>3, <2>3, <2>8, <3>1, <4>1 DEF Recovering, WorkerFree
    <3>2. CASE WorkerDone
      <4>1. recovery.pc = "busy" /\ ~recovery.followFull
        BY <3>2 DEF WorkerDone, Alone
      <4>2. recovery' = [recovery EXCEPT !.follow = TRUE, !.followFull = FALSE]
        <5>1. (recovery.followFull \/ FALSE) = FALSE
          BY <4>1
        <5> QED
          BY <2>4, <4>1, <5>1 DEF Scheduled
      <4>3. recovery'.pc = "busy" /\ recovery'.follow /\ ~recovery'.followFull
        BY <1>0, <4>1, <4>2 DEF Jobs
      <4> QED
        BY <1>0, <1>2, <1>3, <2>3, <2>8, <3>2, <4>3 DEF Recovering, WorkerDone
    <3> QED
      BY <1>1, <3>1, <3>2 DEF Following, Settling
  <2> QED
    BY <1>3, <2>5, <2>6, <2>9 DEF FollowInv, Mode
<1> QED
  BY <1>7, <1>8, <1>9

-----------------------------------------------------------------------------
(* The view's steps. *)

(* The first delivery is one the view can apply: after it the view shows what
   the delivery comes to, and no replay is asked for. *)
LEMMA DeliveryApplies ==
    ASSUME TypeInv, TypeInv', FollowInv, Undisturbed', ApplyDelivery,
           inbox[1].kind # "recoveryFailed"
    PROVE  /\ UNCHANGED <<recovery, opens>>
           /\ view'.last = LevelAt(1) /\ view'.generation = GenerationAt(1) /\ view'.known
           /\ view'.shown = {Nth(k) : k \in 1 .. view'.last}
           /\ ~view'.quarantined /\ ~view'.awaiting
<1>0. /\ inbox # <<>> /\ view \in Views /\ view.last \in Nat /\ faults \in Nat
      /\ inbox \in Seq(LiveMessages \cup Replays \cup {RecoveryFailed})
  BY TailAssumption DEF ApplyDelivery, TypeInv, ViewType, BoundsType, Views, Cursors
<1>1. PICK d : d = inbox[1] /\ d = Head(inbox)
               /\ d \in LiveMessages \cup Replays \cup {RecoveryFailed}
  <2>1. 1 \in 1 .. Len(inbox)
    BY <1>0
  <2>2. inbox[1] \in LiveMessages \cup Replays \cup {RecoveryFailed}
    BY <1>0, <2>1, ElementOfSeq
  <2> QED
    BY <1>0, <2>2
<1>2. /\ view.shown = {Nth(k) : k \in 1 .. view.last}
      /\ ~view.quarantined /\ ~view.awaiting
  BY DEF FollowInv, ViewInv, Shows
<1>3. Fits(1)
  <2>1. 1 \in 1 .. Len(inbox)
    BY <1>0
  <2> QED
    BY <2>1 DEF FollowInv, ViewInv
<1>4. PICK l \in Nat : l = view.last /\ l = LevelAt(1 - 1) /\ l = LevelAt(0)
  BY <1>0 DEF LevelAt
<1>5. ~Fault("slow")
  <2> SUFFICES ASSUME Fault("slow") PROVE FALSE
    OBVIOUS
  <2>1. "slow" \in Faults /\ faults' = faults + 1
    BY DEF Fault
  <2>2. faults' # 0
    BY <1>0, <2>1
  <2>3. Faults \subseteq {"refuse"}
    BY <2>2 DEF Undisturbed
  <2> QED
    BY <2>1, <2>3
<1>6. LevelAt(1) = (IF d.kind = "replay" THEN d.final ELSE d.seq)
      /\ GenerationAt(1) = d.generation
  BY <1>1 DEF LevelAt, GenerationAt
<1>7. CASE RebuildFits(d)
  <2>1. d.kind = "replay" /\ d.rebuild /\ d.final = Len(d.records) /\ Follow(d.records, 0)
        /\ d \in Replays
    BY <1>1, <1>7 DEF RebuildFits, LiveMessages, RecoveryFailed
  <2>2. view' = Rebuilt(d) /\ UNCHANGED <<recovery, opens>>
    BY <1>1, <1>5, <2>1 DEF ApplyDelivery, ApplyReplay
  <2>3. {d.records[i] : i \in DOMAIN d.records} = {Nth(k) : k \in 1 .. d.final}
    <3>1. DOMAIN d.records = 1 .. d.final /\ d.final \in Nat
      BY <2>1 DEF Replays
    <3>2. \A k \in 1 .. d.final : d.records[k] = Nth(k)
      BY <2>1 DEF Follow
    <3> QED
      BY <3>1, <3>2
  <2>4. /\ view'.last = d.final /\ view'.generation = d.generation /\ view'.known
        /\ view'.shown = {d.records[i] : i \in DOMAIN d.records}
        /\ ~view'.quarantined /\ ~view'.awaiting
    BY <2>2 DEF Rebuilt
  <2> QED
    BY <1>6, <2>1, <2>2, <2>3, <2>4
<1>8. CASE GoesOn(1) /\ CatchUpFits(d, l)
  <2>1. d.kind = "replay" /\ ~d.rebuild /\ d.final = l + Len(d.records)
        /\ Follow(d.records, l) /\ d \in Replays
    BY <1>1, <1>8 DEF CatchUpFits, LiveMessages, RecoveryFailed
  <2>2. CanCatchUp(d)
    BY <1>1, <1>2, <1>8 DEF CanCatchUp, GoesOn, GenerationAt, KnownAt
  <2>3. DOMAIN d.records = 1 .. Len(d.records) /\ Len(d.records) \in Nat
    BY <2>1 DEF Replays
  <2>4. \A k \in 1 .. Len(d.records) : d.records[k] = Nth(l + k)
    BY <2>1 DEF Follow
  <2>5. Fresh(d) = {Nth(l + k) : k \in 1 .. Len(d.records)}
    <3>1. \A k \in 1 .. Len(d.records) : Nth(l + k).seq > l
      BY DEF Nth
    <3> QED
      BY <1>4, <2>3, <2>4, <3>1 DEF Fresh
  <2>6. Reaches(d)
    <3>1. CASE Len(d.records) = 0
      <4>1. Fresh(d) = {} /\ view.last = d.final
        BY <1>4, <2>1, <2>5, <3>1
      <4> QED
        BY <4>1 DEF Reaches
    <3>2. CASE Len(d.records) # 0
      <4>1. Len(d.records) \in 1 .. Len(d.records)
        BY <2>3, <3>2
      <4>2. Nth(l + Len(d.records)) \in Fresh(d)
        BY <2>5, <4>1
      <4>3. Nth(l + Len(d.records)).seq = d.final
        BY <2>1 DEF Nth
      <4> QED
        BY <4>2, <4>3 DEF Reaches
    <3> QED
      BY <3>1, <3>2
  <2>7. view' = CaughtUp(d) /\ UNCHANGED <<recovery, opens>>
    BY <1>1, <1>5, <2>1, <2>2, <2>6 DEF ApplyDelivery, ApplyReplay
  <2>8. /\ view'.last = d.final /\ view'.generation = view.generation
        /\ view'.known = view.known /\ view'.shown = view.shown \cup Fresh(d)
        /\ view'.quarantined = FALSE /\ view'.awaiting = view.awaiting
    BY <1>0, <2>7 DEF CaughtUp, Views
  <2>9. view'.shown = {Nth(k) : k \in 1 .. d.final}
    <3>1. ASSUME NEW k \in 1 .. d.final PROVE Nth(k) \in view'.shown
      <4>1. CASE k <= l
        <5>1. k \in 1 .. view.last
          BY <1>4, <2>1, <4>1
        <5> QED
          BY <1>2, <2>8, <5>1
      <4>2. CASE ~(k <= l)
        <5>1. PICK j \in 1 .. Len(d.records) : l + j = k
          <6>1. k - l \in 1 .. Len(d.records) /\ l + (k - l) = k
            BY <2>1, <2>3, <4>2
          <6> QED
            BY <6>1
        <5>2. Nth(l + j) \in Fresh(d)
          BY <2>5, <5>1
        <5> QED
          BY <2>8, <5>1, <5>2
      <4> QED
        BY <4>1, <4>2
    <3>2. ASSUME NEW k \in 1 .. view.last PROVE k \in 1 .. d.final
      BY <1>4, <2>1, <2>3
    <3>3. ASSUME NEW k \in 1 .. Len(d.records) PROVE l + k \in 1 .. d.final
      BY <2>1, <2>3
    <3>4. view.shown \subseteq {Nth(k) : k \in 1 .. d.final}
      BY <1>2, <3>2
    <3>5. Fresh(d) \subseteq {Nth(k) : k \in 1 .. d.final}
      BY <2>5, <3>3
    <3> QED
      BY <2>8, <3>1, <3>4, <3>5
  <2>10. view.known /\ view.generation = d.generation
    BY <2>2 DEF CanCatchUp
  <2> QED
    BY <1>2, <1>6, <2>1, <2>7, <2>8, <2>9, <2>10
<1>9. CASE GoesOn(1) /\ EventFits(d, l)
  <2>1. d.kind = "event" /\ d.seq = l + 1 /\ d.id = l + 1
    BY <1>9 DEF EventFits
  <2>2. view.generation = d.generation /\ view.known
    BY <1>1, <1>9 DEF GoesOn, GenerationAt, KnownAt
  <2>3. /\ UNCHANGED <<recovery, opens>>
        /\ view' = [view EXCEPT !.known = TRUE, !.last = d.seq,
                                !.shown = @ \cup {[seq |-> d.seq, id |-> d.id]}]
    <3>1. ~(d.seq <= view.last)
      BY <1>4, <2>1
    <3> QED
      BY <1>1, <1>2, <2>1, <2>2, <3>1 DEF ApplyDelivery, ApplyEvent
  <2>4. /\ view'.last = d.seq /\ view'.generation = view.generation
        /\ view'.known = TRUE /\ view'.shown = view.shown \cup {[seq |-> d.seq, id |-> d.id]}
        /\ view'.quarantined = view.quarantined /\ view'.awaiting = view.awaiting
    BY <1>0, <2>3 DEF Views
  <2>5. view'.shown = {Nth(k) : k \in 1 .. l + 1}
    <3>1. [seq |-> d.seq, id |-> d.id] = Nth(l + 1)
      BY <2>1 DEF Nth
    <3>2. 1 .. l + 1 = (1 .. l) \cup {l + 1}
      OBVIOUS
    <3> QED
      BY <1>2, <1>4, <2>4, <3>1, <3>2
  <2> QED
    BY <1>2, <1>6, <2>1, <2>2, <2>3, <2>4, <2>5
<1>10. CASE GoesOn(1) /\ GapFits(d, l)
  <2>1. d.kind = "gap" /\ d.seq = l
    BY <1>10 DEF GapFits
  <2>2. UNCHANGED <<view, recovery, opens>>
    BY <1>1, <2>1 DEF ApplyDelivery
  <2>3. view.generation = d.generation /\ view.known
    BY <1>1, <1>10 DEF GoesOn, GenerationAt, KnownAt
  <2> QED
    BY <1>2, <1>4, <1>6, <2>1, <2>2, <2>3
<1> QED
  BY <1>1, <1>3, <1>4, <1>7, <1>8, <1>9, <1>10 DEF Fits

LEMMA ApplyDeliveryFollows ==
    ASSUME TypeInv, TypeInv', FollowInv, Undisturbed', ApplyDelivery
    PROVE  FollowInv'
<1>0. /\ inbox # <<>> /\ inbox' = Tail(inbox) /\ Len(log) <= Len(log')
      /\ UNCHANGED <<log, before, published, tail, feed, requests, wire, sub, conn, waiter>>
      /\ inbox \in Seq(LiveMessages \cup Replays \cup {RecoveryFailed})
  BY DEF ApplyDelivery, daemonVars, TypeInv, LogType, ViewType
<1>1. StraightLog' /\ SubInv'
  BY <1>0 DEF FollowInv, StraightLog, SubInv
<1>2. CASE inbox[1].kind = "recoveryFailed"
  <2>1. Len(inbox) = 1
    <3>1. 1 \in 1 .. Len(inbox)
      BY <1>0
    <3>2. Fits(1)
      BY <3>1 DEF FollowInv, ViewInv
    <3> QED
      BY <1>2, <3>2 DEF Fits, RebuildFits, CatchUpFits, EventFits, GapFits
  <2>2. GaveUp
    BY <1>0, <1>2, <2>1 DEF GaveUp
  <2>3. Opening
    BY <2>2, WhoReplays DEF FollowInv
  <2>4. inbox' = <<>> /\ Len(inbox') = 0
    BY <1>0, <2>1
  <2>5. opens' /\ UNCHANGED <<view, recovery>>
    BY <1>0, <1>2 DEF ApplyDelivery
  <2>6. ~GaveUp'
    BY <2>4 DEF GaveUp
  <2>7. Opening'
    BY <1>0, <2>3, <2>5, <2>6 DEF Opening, Down, CallerFree, WorkerFree
  <2>8. ViewInv'
    <3>1. (Shows /\ ~view.quarantined /\ ~view.awaiting)'
      BY <1>0, <2>5 DEF FollowInv, ViewInv, Shows
    <3>2. PICK n \in Nat : n = Pending /\ ComesTo(n)
      BY DEF FollowInv, ViewInv
    <3>3. n = 0 /\ n = Pending'
      BY <2>1, <2>2, <2>4, <2>6, <3>2 DEF Pending
    <3>4. ComesTo(n)'
      BY <1>0, <2>5, <3>2, <3>3 DEF ComesTo, LevelAt, Delivered, Rebuilding
    <3>5. \A i \in 1 .. Len(inbox') : Fits(i)'
      BY <2>4
    <3> QED
      BY <3>1, <3>3, <3>4, <3>5 DEF ViewInv
  <2> QED
    BY <1>1, <2>7, <2>8 DEF FollowInv, Mode
<1>3. CASE inbox[1].kind # "recoveryFailed"
  <2>1. /\ UNCHANGED <<recovery, opens>>
        /\ view'.last = LevelAt(1) /\ view'.generation = GenerationAt(1) /\ view'.known
        /\ view'.shown = {Nth(k) : k \in 1 .. view'.last}
        /\ ~view'.quarantined /\ ~view'.awaiting
    BY <1>3, DeliveryApplies
  <2>2. ViewInv' /\ (GaveUp' <=> GaveUp)
    <3>1. IsTail(inbox', inbox)
      BY <1>0, TailIsTail
    <3> QED
      BY <1>0, <1>3, <2>1, <3>1, ViewApplied DEF FollowInv
  <2>3. Mode'
    <3>1. \A b \in Nat : Streams(b) => Streams(b)'
      BY <1>0, StreamsKept
    <3> QED
      BY <1>0, <2>1, <2>2, <3>1, ModeKept DEF FollowInv, CallerKept
  <2> QED
    BY <1>1, <2>2, <2>3 DEF FollowInv
<1> QED
  BY <1>2, <1>3

-----------------------------------------------------------------------------
(* The invariant holds. *)

LEMMA InitFollows ==
    ASSUME TypeInv, Init
    PROVE  FollowInv
<1>1. StraightLog /\ SubInv
  BY DEF Init, StraightLog, SubInv, NoSubscription
<1>2. ~GaveUp
  BY DEF Init, GaveUp
<1>3. Opening
  BY <1>2 DEF Init, Opening, Down, CallerFree, WorkerFree, NoSubscription, NoReplay, Tasks
<1>4. ViewInv
  <2>1. Shows /\ ~view.quarantined /\ ~view.awaiting
    BY DEF Init, NoView, Shows
  <2>2. \A i \in 1 .. Len(inbox) : Fits(i)
    BY DEF Init
  <2>3. 0 = Pending
    BY <1>2 DEF Init, Pending
  <2>4. ComesTo(0)
    BY DEF Init, ComesTo, LevelAt, Delivered, Rebuilding, NoView, NoSubscription
  <2> QED
    BY <2>1, <2>2, <2>3, <2>4 DEF ViewInv
<1> QED
  BY <1>1, <1>3, <1>4 DEF FollowInv, Mode

(* What disturbed a session is not forgotten. *)
LEMMA UndisturbedBefore ==
    ASSUME TypeInv, Undisturbed', [Next]_vars
    PROVE  Undisturbed
<1>0. reverts \in Nat /\ faults \in Nat
  BY TailAssumption DEF TypeInv, BoundsType
<1>1. reverts' \in {reverts, reverts + 1} /\ faults' \in {faults, faults + 1}
  <2>1. CASE UNCHANGED vars
    <3>1. UNCHANGED <<reverts, faults>>
      BY <2>1, Zenon DEF vars, boundVars
    <3> QED
      BY <3>1, Zenon
  <2>2. CASE AppendRecord \/ PublishStored \/ ForwardSessionTail \/ SubscribeFromScratch
             \/ RecoverAll \/ SubscribeEnds \/ TryEnds \/ HandlePage \/ DeliverReplay
             \/ RouteLive
    BY <2>2, Zenon DEF AppendRecord, PublishStored, ForwardSessionTail, SubscribeFromScratch,
                RecoverAll, SubscribeEnds, TryEnds, HandlePage, DeliverReplay, RouteLive,
                boundVars
  <2>3. CASE \E q \in requests : SubscribeEvents(q) \/ RefuseSubscribe(q)
    BY <2>3 DEF SubscribeEvents, RefuseSubscribe, Fault, boundVars
  <2>4. CASE \E c \in 1 .. Len(log) : Revert(c)
    BY <2>4 DEF Revert
  <2>5. CASE \E t \in Tasks : ReplayTimesOut(t)
    BY <2>5 DEF ReplayTimesOut, Fault
  <2>6. CASE ApplyDelivery
    BY <2>6 DEF ApplyDelivery, ApplyReplay, ApplyEvent, Fault
  <2> QED
    BY <2>1, <2>2, <2>3, <2>4, <2>5, <2>6 DEF Next, Works
<1> QED
  BY <1>0, <1>1 DEF Undisturbed

LEMMA FollowStep ==
    ASSUME TypeInv, TypeInv', FollowInv, Undisturbed', [Next]_vars
    PROVE  FollowInv'
<1>1. CASE UNCHANGED vars
  <2>1. /\ UNCHANGED <<log, before, published, tail, feed, requests, wire, sub, conn, waiter,
                       recovery, inbox, view, opens>>
        /\ Len(log) <= Len(log')
    BY <1>1 DEF vars, daemonVars, clientVars, viewVars, TypeInv, LogType
  <2>2. \A b \in Nat : Streams(b) => Streams(b)'
    BY <2>1, StreamsKept
  <2>3. Mode'
    BY <2>1, <2>2, ModeKept DEF FollowInv, GaveUp, CallerKept
  <2> QED
    BY <2>1, <2>3, DaemonSteps
<1>2. CASE \E c \in 1 .. Len(log) : Revert(c)
  <2>1. reverts' = reverts + 1 /\ reverts \in Nat
    BY <1>2, TailAssumption DEF Revert, TypeInv, BoundsType
  <2> QED
    BY <2>1 DEF Undisturbed
<1>3. CASE \E t \in Tasks : ReplayTimesOut(t)
  <2>1. "timeout" \in Faults /\ faults' = faults + 1 /\ faults \in Nat
    BY <1>3, TailAssumption DEF ReplayTimesOut, Fault, TypeInv, BoundsType
  <2>2. faults' # 0
    BY <2>1
  <2>3. Faults \subseteq {"refuse"}
    BY <2>2 DEF Undisturbed
  <2> QED
    BY <2>1, <2>3
<1> QED
  BY <1>1, <1>2, <1>3, AppendRecordFollows, PublishStoredFollows, SubscribeEventsFollows,
     RefuseSubscribeFollows, ForwardFollows, SubscribeFromScratchFollows, RecoverAllFollows,
     SubscribeEndsFollows, TryEndsFollows, HandlePageFollows, DeliverReplayFollows,
     RouteLiveFollows, ApplyDeliveryFollows DEF Next, Works

-----------------------------------------------------------------------------
(* What it says of the view. *)

(* Nothing is on its way, so a tail follows the view's last record, which is
   the log's. *)
LEMMA QuietIsCurrent ==
    ASSUME TypeInv, FollowInv, Quiet
    PROVE  view.shown = Branch(log)
<1>0. Len(log) \in Nat /\ published = Len(log) /\ tail.after \in Nat /\ sub.cursor \in Nat
      /\ log \in Seq(1 .. Len(before))
  BY DEF TypeInv, LogType, DaemonType, ClientType, Subscriptions, Cursors, Quiet
<1>1. ~Opening /\ ~Asking /\ ~Answered /\ ~Failed /\ ~Delivering /\ ~Recovering
  BY DEF Quiet, Opening, GaveUp, Asking, Answered, Failed, Fetching, ByCaller, ByWorker,
         Delivering, Recovering, Tasks
<1>2. Following
  BY <1>1 DEF FollowInv, Mode
<1>3. PICK b \in Nat : b = sub.cursor /\ Streams(b)
  BY <1>2 DEF Following, Cursors
<1>4. wire = <<>> /\ feed = <<>> /\ inbox = <<>> /\ Len(wire) = 0 /\ Len(feed) = 0
      /\ Len(inbox) = 0
  BY DEF Quiet
<1>5. tail.on
  BY <1>3, <1>4 DEF Streams, EndsWithGap
<1>6. b = Len(log)
  <2>1. b + 0 + 0 = (IF published < tail.after THEN tail.after ELSE published)
        /\ tail.after <= Len(log)
    BY <1>3, <1>4, <1>5 DEF Streams, TailGoesOn
  <2> QED
    BY <1>0, <2>1
<1>7. view.last = sub.cursor
  <2>1. PICK n \in Nat : n = Pending /\ ComesTo(n)
    BY DEF FollowInv, ViewInv
  <2>2. n = 0
    BY <1>4, <2>1 DEF Pending, GaveUp
  <2> QED
    BY <1>2, <2>1, <2>2 DEF ComesTo, LevelAt, Delivered, Following
<1>8. view.shown = {Nth(k) : k \in 1 .. Len(log)}
  BY <1>3, <1>6, <1>7 DEF FollowInv, ViewInv, Shows
<1>9. DOMAIN log = 1 .. Len(log) /\ \A i \in 1 .. Len(log) : Record(log, i) = Nth(i)
  <2>1. DOMAIN log = 1 .. Len(log)
    BY DEF TypeInv, LogType
  <2>2. \A i \in 1 .. Len(log) : log[i] = i
    BY DEF FollowInv, StraightLog
  <2> QED
    BY <2>1, <2>2 DEF Record, Nth
<1> QED
  BY <1>8, <1>9 DEF Branch

LEMMA ShownIsStraight ==
    ASSUME TypeInv, FollowInv
    PROVE  ShownIsABranch
<1>0. view.last \in Nat /\ Len(log) \in Nat
  BY DEF TypeInv, ViewType, Views, LogType, Cursors
<1>1. view.shown = {Nth(k) : k \in 1 .. view.last} /\ view.last <= Len(log)
  BY DEF FollowInv, ViewInv, Shows
<1>2. ASSUME NEW k \in 1 .. view.last, Nth(k).seq > 1
      PROVE  [seq |-> Nth(k).seq - 1, id |-> before[Nth(k).id]] \in view.shown
  <2>1. Nth(k).seq = k /\ Nth(k).id = k /\ k > 1
    BY <1>2 DEF Nth
  <2>2. k \in 1 .. Len(log) /\ k - 1 \in 1 .. view.last
    BY <1>0, <1>1, <2>1
  <2>3. before[k] = k - 1
    BY <2>2 DEF FollowInv, StraightLog
  <2>4. [seq |-> k - 1, id |-> before[k]] = Nth(k - 1)
    BY <2>3 DEF Nth
  <2> QED
    BY <1>1, <2>1, <2>2, <2>4
<1> QED
  BY <1>1, <1>2 DEF ShownIsABranch

LEMMA Follows ==
    Spec => [](TypeInv /\ (Undisturbed => FollowInv))
<1>1. Init => TypeInv /\ (Undisturbed => FollowInv)
  BY InitType, InitFollows
<1>2. TypeInv /\ (Undisturbed => FollowInv) /\ [Next]_vars
        => (TypeInv /\ (Undisturbed => FollowInv))'
  <2> SUFFICES ASSUME TypeInv, Undisturbed => FollowInv, [Next]_vars
               PROVE  TypeInv' /\ (Undisturbed' => FollowInv')
    OBVIOUS
  <2>1. TypeInv'
    BY TypeInvStep
  <2>2. ASSUME Undisturbed' PROVE FollowInv'
    BY <2>1, <2>2, UndisturbedBefore, FollowStep
  <2> QED
    BY <2>1, <2>2
<1> QED
  BY <1>1, <1>2, PTL DEF Spec

(* Once nothing is on its way the view shows the log, no more and no less
   (SettledIsCurrent): as long as the session is not reverted and only
   subscribes are refused, no gap, no page boundary, no failed try and no
   recovery that gave up leaves the view behind or the session without a
   tail. *)
THEOREM ViewSettles == Spec => [](Undisturbed => SettledIsCurrent)
<1>1. TypeInv /\ (Undisturbed => FollowInv) => (Undisturbed => SettledIsCurrent)
  BY QuietIsCurrent DEF SettledIsCurrent
<1> QED
  BY <1>1, Follows, PTL

(* The view shows the log from its start, without a hole (ShownIsABranch), as
   long as the session is not reverted and only subscribes are refused: it is
   never broken, so it needs no rebuild (BrokenViewIsRebuilt). *)
THEOREM ViewIsUnbroken ==
    Spec => [](Undisturbed => ShownIsABranch /\ BrokenViewIsRebuilt)
<1>1. TypeInv /\ (Undisturbed => FollowInv)
        => (Undisturbed => ShownIsABranch /\ BrokenViewIsRebuilt)
  BY ShownIsStraight DEF BrokenViewIsRebuilt
<1> QED
  BY <1>1, Follows, PTL

=============================================================================
