------------------------------ MODULE LiveTail ------------------------------
(***************************************************************************)
(* How a client's view of a session follows the session's log: the store's *)
(* live tails (engine_store/src/session/mod.rs and publication.rs), the    *)
(* connection's forwarder (protocol_transport/src/server.rs), the protocol *)
(* client's subscription and recovery worker (protocol_transport/src/      *)
(* client.rs) and the view (client_state/src/lib.rs).                      *)
(*                                                                         *)
(* One session, one connection, a view that reads the whole history.  A    *)
(* record is a pair of its sequence number and its id, which stands for    *)
(* the record and its timestamp: a revert frees sequence numbers for reuse *)
(* and no id.  Live-only output is left out.                               *)
(***************************************************************************)
EXTENDS Naturals, Sequences, SequencesExt

CONSTANTS
    MaxRecords,  \* records appended, over all branches
    MaxReverts,  \* reverts of the session
    Capacity,    \* notifications a tail holds (PERSISTED_SUBSCRIBER_QUEUE_CAPACITY)
    PageEvents,  \* records on a replay page (REPLAY_PAGE_EVENTS)
    Newest,      \* HistoryReading: newest first, as the TUI and the web page read
    Attempts,    \* replays the worker tries (RECOVERY_ATTEMPTS)
    Faults,      \* what may go wrong, see below
    MaxFaults    \* how often

(* "refuse": the daemon fails a subscribe; "timeout": the client stops
   waiting for an answer (REPLAY_RESPONSE_TIMEOUT); "slow": the view gives up
   a replay it is still staging (REPLAY_END_TIMEOUT). *)
AllFaults == {"refuse", "timeout", "slow"}

ASSUME TailAssumption ==
    /\ MaxRecords \in Nat \ {0} /\ MaxReverts \in Nat
    /\ Capacity \in Nat \ {0, 1} /\ PageEvents \in Nat \ {0}
    /\ Newest \in BOOLEAN
    /\ Attempts \in Nat \ {0} /\ MaxFaults \in Nat
    /\ Faults \subseteq AllFaults

VARIABLES
    \* The daemon
    log,        \* the ids of the session's records, in order
    before,     \* the id each record was appended after, by id
    published,  \* how many of the log's records the tails were sent
    tail,       \* this connection's tail (Tail)
    feed,       \* what its tails hold, the replaced tails' messages first
    requests,   \* subscribes the daemon has not answered
    wire,       \* frames on their way to the client
    \* The protocol client
    sub,        \* Subscription
    conn,       \* the replay the connection task is about to deliver
    waiter,     \* the subscribe call and the recovery worker, awaiting a replay
    recovery,   \* RecoveryQueue and the worker's job
    inbox,      \* ClientDelivery stream to the view
    view,       \* the session in ClientState
    opens,      \* the client is about to subscribe the session from scratch
    \* Bounds
    reverts, faults

daemonVars == <<log, before, published, tail, feed, requests>>
clientVars == <<sub, conn, waiter, recovery>>
viewVars == <<inbox, view, opens>>
boundVars == <<reverts, faults>>
vars == <<daemonVars, wire, clientVars, viewVars, boundVars>>

Tasks == {"caller", "worker"}

Record(s, i) == [seq |-> i, id |-> s[i]]
(* EventLog::events_after. *)
RecordsAfter(s, c) ==
    [i \in 1 .. (IF c < Len(s) THEN Len(s) - c ELSE 0) |-> Record(s, c + i)]

Event(r) == [kind |-> "event", seq |-> r.seq, id |-> r.id]
Gap(n) == [kind |-> "gap", seq |-> n, id |-> 0]
Rewound(n) == [kind |-> "rewound", seq |-> n, id |-> 0]

NoSubscription ==
    [cursor |-> 0, stamp |-> 0, backCursor |-> 0, backStamp |-> 0,
     generation |-> 0, attempt |-> 0, fetching |-> FALSE,
     buffered |-> <<>>, asked |-> "none", pages |-> <<>>]
NoReplay == [busy |-> FALSE]
NoJob == [pc |-> "idle", full |-> FALSE, tries |-> 0,
          follow |-> FALSE, followFull |-> FALSE]
NoView == [known |-> FALSE, shown |-> {}, last |-> 0, generation |-> 0,
           awaiting |-> FALSE, quarantined |-> FALSE]

(* A session with its first record; the view is about to subscribe. *)
Init ==
    /\ log = <<1>> /\ before = <<0>> /\ published = 1
    /\ tail = [on |-> FALSE, after |-> 0, attempt |-> 0]
    /\ feed = <<>> /\ requests = {} /\ wire = <<>>
    /\ sub = NoSubscription /\ conn = NoReplay
    /\ waiter = [t \in Tasks |-> [pc |-> "idle", attempt |-> 0]]
    /\ recovery = NoJob
    /\ inbox = <<>> /\ view = NoView /\ opens = TRUE
    /\ reverts = 0 /\ faults = 0

Records == [seq: 1 .. MaxRecords, id: 1 .. MaxRecords]
Messages == [kind: {"event", "gap", "rewound"}, seq: 0 .. MaxRecords,
             id: 0 .. MaxRecords]

(* Every variable has its type; a record was appended after an older one. *)
TypeOK ==
    /\ log \in Seq(1 .. MaxRecords)
    /\ before \in Seq(0 .. MaxRecords)
    /\ \A i \in DOMAIN before : before[i] < i
    /\ published \in 0 .. Len(log)
    /\ tail.on \in BOOLEAN /\ tail.after \in 0 .. MaxRecords
    /\ \A i \in DOMAIN feed : feed[i].message \in Messages
    /\ \A q \in requests : q.attempt \in 1 .. sub.attempt
    /\ sub.cursor \in 0 .. MaxRecords /\ sub.stamp \in 0 .. MaxRecords
    /\ sub.asked \in {"none", "catchUp", "full"}
    /\ \A t \in Tasks : waiter[t].pc \in {"idle", "wait", "ok", "failed"}
    /\ recovery.pc \in {"idle", "run", "busy"}
    /\ view.shown \subseteq Records /\ view.last \in 0 .. MaxRecords
    /\ opens \in BOOLEAN
    /\ reverts \in 0 .. MaxReverts /\ faults \in 0 .. MaxFaults

Fault(f) == f \in Faults /\ faults < MaxFaults /\ faults' = faults + 1

-----------------------------------------------------------------------------
(* The store: records are appended under the session's slot and published in
   order, a commit point once it is synced. *)

AppendRecord ==
    /\ Len(before) < MaxRecords
    /\ log' = Append(log, Len(before) + 1)
    /\ before' = Append(before, Last(log))
    /\ UNCHANGED <<published, tail, feed, requests, wire, clientVars, viewVars,
                   boundVars>>

(* Sender::capacity of the current tail's channel. *)
Room == Capacity - Len(SelectSeq(feed, LAMBDA f: f.tail = tail.attempt))

(* The tail's channel takes one more message. *)
Send(message) == feed' = Append(feed, [tail |-> tail.attempt, message |-> message])

(* Mutant: a tail that got a gap goes on. *)
MutantTailGoesOn ==
    LET n == published + 1 IN
    /\ published < Len(log)
    /\ published' = n
    /\ IF ~tail.on \/ n <= tail.after \/ Room = 0 THEN UNCHANGED feed
       ELSE IF Room > 1 THEN Send(Event(Record(log, n)))
       ELSE Send(Gap(published))
    /\ UNCHANGED <<log, before, tail, requests, wire, clientVars, viewVars,
                   boundVars>>

(* publish_stored_event: a record the tail's page held is skipped; the last
   slot is for a gap, and a tail that got one is dropped. *)
PublishStored ==
    LET n == published + 1 IN
    /\ published < Len(log)
    /\ published' = n
    /\ IF ~tail.on \/ n <= tail.after
       THEN UNCHANGED <<tail, feed>>
       ELSE IF Room > 1
       THEN Send(Event(Record(log, n))) /\ UNCHANGED tail
       ELSE Send(Gap(published)) /\ tail' = [tail EXCEPT !.on = FALSE]
    /\ UNCHANGED <<log, before, requests, wire, clientVars, viewVars,
                   boundVars>>

(* Mutant: what was published is not moved back with the log. *)
MutantRevertKeepsPublished(c) ==
    /\ reverts < MaxReverts /\ reverts' = reverts + 1
    /\ published = Len(log) /\ c < Len(log)
    /\ log' = SubSeq(log, 1, c)
    /\ UNCHANGED <<before, published, tail, feed, requests, wire, clientVars,
                   viewVars, faults>>

(* truncate and publish_rewound: the log is cut after record c.  A session is
   reverted only while no append waits for its sync, so nothing is left to
   publish.  The tail is dropped if the notice took its last slot. *)
Revert(c) ==
    /\ reverts < MaxReverts /\ reverts' = reverts + 1
    /\ published = Len(log) /\ c < Len(log)
    /\ log' = SubSeq(log, 1, c) /\ published' = c
    /\ IF tail.on
       THEN /\ Send(Rewound(c))
            /\ tail' = [tail EXCEPT !.after = IF c < @ THEN c ELSE @,
                                    !.on = Room > 1]
       ELSE UNCHANGED <<tail, feed>>
    /\ UNCHANGED <<before, requests, wire, clientVars, viewVars, faults>>

(* cursor_is_stale: the record the reader saw at its cursor is not there. *)
CursorIsStale(q) ==
    /\ q.cursor > 0 /\ q.stamp # 0
    /\ ~(q.cursor <= Len(log) /\ log[q.cursor] = q.stamp)

Answer(q, outcome, records) ==
    /\ requests' = requests \ {q}
    /\ wire' = Append(wire, [kind |-> "page", request |-> q,
                             outcome |-> outcome, records |-> records])

(* The records on the page that answers q.  A client that reads newest first
   asks for no page when it starts from nothing, but for one answer. *)
PageLimit(q) == IF Newest /\ q.cursor = 0 THEN Len(log) ELSE PageEvents

(* subscribe_events: a page of the log; the last one registers the tail under
   the session's slot, in place of the connection's earlier tail. *)
SubscribeEvents(q) ==
    LET records == RecordsAfter(log, q.cursor) IN
    /\ q \in requests
    /\ \/ CursorIsStale(q) /\ Answer(q, "stale", <<>>) /\ UNCHANGED tail
       \/ /\ ~CursorIsStale(q) /\ Len(records) > PageLimit(q)
          /\ Answer(q, "more", SubSeq(records, 1, PageLimit(q)))
          /\ UNCHANGED tail
       \/ /\ ~CursorIsStale(q) /\ Len(records) <= PageLimit(q)
          /\ Answer(q, "final", records)
          /\ tail' = [on |-> TRUE, after |-> Len(log), attempt |-> q.attempt]
    /\ UNCHANGED <<log, before, published, feed, clientVars, viewVars,
                   boundVars>>

RefuseSubscribe(q) ==
    /\ q \in requests /\ Fault("refuse")
    /\ Answer(q, "error", <<>>)
    /\ UNCHANGED <<log, before, published, tail, feed, clientVars, viewVars,
                   reverts>>

(* forward_session_tail: a replaced tail's messages go first; the new tail's
   follow the answer that registered it, which is on the wire by then. *)
ForwardSessionTail ==
    /\ feed # <<>>
    /\ wire' = Append(wire, Head(feed).message)
    /\ feed' = Tail(feed)
    /\ UNCHANGED <<log, before, published, tail, requests, clientVars, viewVars,
                   boundVars>>

-----------------------------------------------------------------------------
(* The client: asking for replays. *)

(* Mutant: a failed replay leaves the session marked as fetching. *)
MutantAbortedFetching(s) ==
    [s EXCEPT !.cursor = s.backCursor, !.stamp = s.backStamp, !.pages = <<>>]

(* Subscription::abort_replay. *)
Aborted(s) ==
    [s EXCEPT !.cursor = s.backCursor, !.stamp = s.backStamp,
              !.fetching = FALSE, !.pages = <<>>]

(* What a replay asked for while one runs adds to what was asked before. *)
Asked(s, full) ==
    [s EXCEPT !.asked = IF full \/ @ = "full" THEN "full" ELSE "catchUp"]

(* Mutant: a job asked for while one runs is forgotten. *)
MutantNotQueued(r, full) ==
    IF r.pc = "idle"
    THEN [r EXCEPT !.pc = "run", !.full = full, !.tries = 0] ELSE r

(* schedule_recovery_queue: one job at a time, later ones coalesce. *)
Scheduled(r, full) ==
    IF r.pc = "idle"
    THEN [r EXCEPT !.pc = "run", !.full = full, !.tries = 0]
    ELSE [r EXCEPT !.follow = TRUE, !.followFull = @ \/ full]

(* Mutant: the worker stops after its job. *)
MutantNoFollowUp(r) == NoJob

(* The worker's next job, if one was queued meanwhile. *)
NextJob(r) ==
    IF r.follow
    THEN [NoJob EXCEPT !.pc = "run", !.full = r.followFull]
    ELSE NoJob

(* prepare_subscription and recover_all: the replay starts from nothing if
   rebuild, and a rebuild the worker asks for is a new generation. *)
Prepared(rebuild, recovering) ==
    [sub EXCEPT
        !.backCursor = sub.cursor, !.backStamp = sub.stamp,
        !.cursor = IF rebuild THEN 0 ELSE @,
        !.stamp = IF rebuild THEN 0 ELSE @,
        !.generation = IF rebuild /\ recovering THEN @ + 1 ELSE @,
        !.attempt = @ + 1, !.fetching = TRUE, !.pages = <<>>]

StartReplay(t, rebuild) ==
    LET s == Prepared(rebuild, t = "worker") IN
    /\ sub' = s
    /\ requests' = requests \cup
           {[attempt |-> s.attempt, generation |-> s.generation,
             rebuild |-> rebuild, cursor |-> s.cursor, stamp |-> s.stamp]}
    /\ waiter' = [waiter EXCEPT ![t] = [pc |-> "wait", attempt |-> s.attempt]]

(* subscribe_events_at from the start of the log; while a replay runs it
   fails with ReplayInProgress. *)
SubscribeFromScratch ==
    /\ opens /\ opens' = FALSE
    /\ \/ /\ ~sub.fetching /\ waiter["caller"].pc = "idle"
          /\ StartReplay("caller", TRUE)
       \/ sub.fetching /\ UNCHANGED <<sub, waiter, requests>>
    /\ UNCHANGED <<log, before, published, tail, feed, wire, conn, recovery,
                   inbox, view, boundVars>>

(* recover_all: one try of the worker's job. *)
RecoverAll ==
    /\ recovery.pc = "run"
    /\ \/ /\ ~sub.fetching /\ StartReplay("worker", recovery.full)
          /\ recovery' = [recovery EXCEPT !.pc = "busy"]
       \/ /\ sub.fetching
          /\ sub' = Asked(sub, recovery.full)
          /\ recovery' = NextJob(recovery)
          /\ UNCHANGED <<requests, waiter>>
    /\ UNCHANGED <<log, before, published, tail, feed, wire, conn, viewVars,
                   boundVars>>

(* request_replay_with_timeout gives up waiting. *)
ReplayTimesOut(t) ==
    /\ waiter[t].pc = "wait" /\ Fault("timeout")
    /\ waiter' = [waiter EXCEPT ![t].pc = "failed"]
    /\ UNCHANGED <<daemonVars, wire, sub, conn, recovery, viewVars, reverts>>

(* The end of the task subscribe_events_at spawned. *)
SubscribeEnds ==
    /\ \/ /\ waiter["caller"].pc = "ok" /\ UNCHANGED <<sub, recovery>>
       \/ /\ waiter["caller"].pc = "failed"
          /\ sub' = Aborted(sub)
          /\ recovery' = Scheduled(recovery, TRUE)
    /\ waiter' = [waiter EXCEPT !["caller"].pc = "idle"]
    /\ UNCHANGED <<daemonVars, wire, conn, viewVars, boundVars>>

(* spawn_recovery_worker, after a try: a failed one is tried again, up to
   Attempts times, then the view is told. *)
TryEnds ==
    LET givesUp == recovery.tries + 1 = Attempts IN
    /\ recovery.pc = "busy"
    /\ \/ /\ waiter["worker"].pc = "ok"
          /\ recovery' = NextJob(recovery)
          /\ UNCHANGED <<sub, inbox>>
       \/ /\ waiter["worker"].pc = "failed"
          /\ sub' = Aborted(sub)
          /\ recovery' = IF givesUp THEN NextJob(recovery)
                         ELSE [recovery EXCEPT !.pc = "run", !.tries = @ + 1]
          /\ inbox' = IF givesUp THEN Append(inbox, [kind |-> "recoveryFailed"])
                      ELSE inbox
    /\ waiter' = [waiter EXCEPT !["worker"].pc = "idle"]
    /\ UNCHANGED <<daemonVars, wire, conn, view, opens, boundVars>>

-----------------------------------------------------------------------------
(* The client: the connection task reads one frame at a time. *)

IsCurrent(q) ==
    /\ sub.fetching
    /\ sub.generation = q.generation /\ sub.attempt = q.attempt

(* The command's result reaches the task that waits for it, if it still does. *)
Respond(q, result) ==
    waiter' = [t \in Tasks |->
                  IF waiter[t] = [pc |-> "wait", attempt |-> q.attempt]
                  THEN [waiter[t] EXCEPT !.pc = result] ELSE waiter[t]]

AwaitedBy(q) ==
    \E t \in Tasks : waiter[t] = [pc |-> "wait", attempt |-> q.attempt]

NextFrame == ~conn.busy /\ wire # <<>> /\ wire' = Tail(wire)

(* handle_frame, the answer to a subscribe.  hold_replay_page keeps a page
   that is not the last and the task asks for the next; any other page ends
   the replay, and its caller hears of it before it is delivered. *)
HandlePage ==
    LET page == Head(wire)
        q == page.request
        holds == page.outcome = "more" /\ IsCurrent(q)
    IN
    /\ NextFrame /\ page.kind = "page"
    /\ \/ /\ page.outcome = "error" /\ Respond(q, "failed")
          /\ UNCHANGED <<sub, conn, recovery, requests>>
       \/ /\ page.outcome = "stale" /\ Respond(q, "ok")
          /\ sub' = IF IsCurrent(q) THEN Aborted(sub) ELSE sub
          /\ recovery' = Scheduled(recovery, TRUE)
          /\ UNCHANGED <<conn, requests>>
       \/ /\ holds
          /\ sub' = [sub EXCEPT !.pages = @ \o page.records]
          /\ requests' =
                IF AwaitedBy(q)
                THEN requests \cup
                    {[q EXCEPT !.cursor = Last(page.records).seq, !.stamp = 0]}
                ELSE requests
          /\ UNCHANGED <<conn, waiter, recovery>>
       \/ /\ page.outcome \in {"more", "final"} /\ ~holds
          /\ Respond(q, "ok")
          /\ conn' = [busy |-> TRUE, request |-> q,
                      records |-> (IF IsCurrent(q) THEN sub.pages ELSE <<>>)
                                  \o page.records]
          /\ sub' = IF IsCurrent(q) THEN [sub EXCEPT !.pages = <<>>] ELSE sub
          /\ UNCHANGED <<recovery, requests>>
    /\ UNCHANGED <<log, before, published, tail, feed, viewVars, boundVars>>

(* Whether finish_ready_replay keeps a buffered message, and the cursor it
   leaves: records the replay holds are dropped. *)
Keeps(message, cursor) == message.kind # "event" \/ message.seq > cursor
Continues(message, cursor) ==
    message.kind = "event" /\ message.seq = cursor + 1

(* One more buffered message: what the replay has delivered so far is its
   cursor, the messages kept behind it, and whether one of them left a hole. *)
Behind(done, m) ==
    IF ~Keeps(m, done.cursor) THEN done
    ELSE [cursor |-> IF Continues(m, done.cursor) THEN m.seq ELSE done.cursor,
          stamp |-> IF Continues(m, done.cursor) THEN m.id ELSE done.stamp,
          gap |-> done.gap \/ ~Continues(m, done.cursor),
          kept |-> Append(done.kept, m)]

(* The buffered messages behind a replay that ended at the record last. *)
Settle(last, buffered) ==
    LET done[n \in 0 .. Len(buffered)] ==
            IF n = 0
            THEN [cursor |-> last.seq, stamp |-> last.id, gap |-> FALSE,
                  kept |-> <<>>]
            ELSE Behind(done[n - 1], buffered[n])
    IN  done[Len(buffered)]

(* begin_replay and finish_ready_replay: the replay and then what arrived
   behind it, unless a newer replay took its place. *)
DeliverReplay ==
    LET q == conn.request
        last == IF conn.records = <<>> THEN [seq |-> sub.cursor, id |-> sub.stamp]
                ELSE Last(conn.records)
        settled == Settle(last, sub.buffered)
    IN
    /\ conn.busy /\ conn' = NoReplay
    /\ IF ~IsCurrent(q)
       THEN UNCHANGED <<sub, recovery, inbox>>
       ELSE /\ sub' = [sub EXCEPT !.cursor = settled.cursor,
                                  !.stamp = settled.stamp,
                                  !.fetching = FALSE, !.buffered = <<>>,
                                  !.asked = "none"]
            /\ inbox' = inbox
                   \o <<[kind |-> "replay", generation |-> q.generation,
                         rebuild |-> q.rebuild, records |-> conn.records,
                         final |-> last.seq]>>
                   \o settled.kept
            /\ recovery' =
                   IF sub.asked # "none" THEN Scheduled(recovery, sub.asked = "full")
                   ELSE IF settled.gap THEN Scheduled(recovery, FALSE)
                   ELSE recovery
    /\ UNCHANGED <<daemonVars, wire, waiter, view, opens, boundVars>>

(* route_live while a replay runs: the message waits behind the replay. *)
Buffered(s, m) ==
    LET t == [s EXCEPT !.buffered = Append(@, m)] IN
    IF m.kind = "gap" THEN Asked(t, FALSE)
    ELSE IF m.kind = "rewound" THEN Asked(t, TRUE)
    ELSE t

(* The cursor after a live message. *)
Advanced(s, m) ==
    CASE Continues(m, s.cursor) -> [s EXCEPT !.cursor = m.seq, !.stamp = m.id]
      [] m.kind = "gap" ->
             [s EXCEPT !.cursor = m.seq,
                       !.stamp = IF m.seq # s.cursor THEN 0 ELSE @]
      [] m.kind = "rewound" /\ m.seq < s.cursor ->
             [s EXCEPT !.cursor = m.seq, !.stamp = 0]
      [] OTHER -> s

(* A live message shows records are missing, or were removed. *)
Recovers(s, m) ==
    \/ m.kind = "event" /\ m.seq > s.cursor + 1
    \/ m.kind \in {"gap", "rewound"}

(* A live message of the subscription's generation. *)
Live(message, generation) ==
    [kind |-> message.kind, seq |-> message.seq, id |-> message.id,
     generation |-> generation]

(* route_live. *)
RouteLive ==
    LET m == Live(Head(wire), sub.generation) IN
    /\ NextFrame /\ Head(wire).kind # "page"
    /\ IF sub.fetching
       THEN /\ sub' = Buffered(sub, m)
            /\ UNCHANGED <<inbox, recovery>>
       ELSE /\ sub' = Advanced(sub, m)
            /\ inbox' = Append(inbox, m)
            /\ recovery' = IF Recovers(sub, m)
                           THEN Scheduled(recovery, m.kind = "rewound")
                           ELSE recovery
    /\ UNCHANGED <<daemonVars, conn, waiter, view, opens, boundVars>>

-----------------------------------------------------------------------------
(* The view: ClientState::apply_delivery. *)

(* A catch-up is staged only onto the generation it continues. *)
CanCatchUp(d) ==
    view.known /\ view.generation = d.generation /\ ~view.awaiting

(* The records a staged catch-up takes: those past what the view holds. *)
Fresh(d) == {r \in {d.records[i] : i \in DOMAIN d.records} : r.seq > view.last}

Rebuilt(d) ==
    [known |-> TRUE, shown |-> {d.records[i] : i \in DOMAIN d.records},
     last |-> d.final, generation |-> d.generation,
     awaiting |-> FALSE, quarantined |-> FALSE]

(* A catch-up ends where its replay did, or it is not valid. *)
CaughtUp(d) ==
    [view EXCEPT !.shown = @ \cup Fresh(d), !.last = d.final, !.quarantined = FALSE]

Reaches(d) ==
    \/ Fresh(d) = {} /\ view.last = d.final
    \/ \E r \in Fresh(d) : r.seq = d.final

(* ReplayStart, ReplayEvent and ReplayEnd, which come in one piece.  After
   one that fails the view asks for a full replay. *)
ApplyReplay(d) ==
    \/ d.rebuild /\ view' = Rebuilt(d) /\ UNCHANGED <<recovery, faults>>
    \/ /\ ~d.rebuild /\ CanCatchUp(d) /\ Reaches(d)
       /\ view' = CaughtUp(d) /\ UNCHANGED <<recovery, faults>>
    \/ /\ ~d.rebuild /\ ~(CanCatchUp(d) /\ Reaches(d))
       /\ view' = IF CanCatchUp(d) THEN view
                  ELSE [view EXCEPT !.quarantined = TRUE]
       /\ recovery' = Scheduled(recovery, TRUE)
       /\ UNCHANGED faults
    \/ /\ d.rebuild \/ CanCatchUp(d)
       /\ Fault("slow")
       /\ view' = [view EXCEPT !.quarantined = TRUE,
                               !.awaiting = IF d.rebuild THEN FALSE ELSE @]
       /\ recovery' = Scheduled(recovery, TRUE)

(* apply_event_for_generation. *)
ApplyEvent(d) ==
    /\ UNCHANGED <<recovery, faults>>
    /\ IF view.quarantined \/ view.awaiting \/ view.generation # d.generation
       THEN UNCHANGED view
       ELSE IF d.seq <= view.last
       THEN view' = [view EXCEPT !.known = TRUE]
       ELSE view' = [view EXCEPT !.known = TRUE, !.last = d.seq,
                        !.shown = @ \cup {[seq |-> d.seq, id |-> d.id]}]

ApplyDelivery ==
    LET d == Head(inbox) IN
    /\ inbox # <<>> /\ inbox' = Tail(inbox)
    /\ \/ d.kind = "replay" /\ ApplyReplay(d) /\ UNCHANGED opens
       \/ d.kind = "event" /\ ApplyEvent(d) /\ UNCHANGED opens
       \/ d.kind = "gap" /\ UNCHANGED <<view, opens, recovery, faults>>
       \/ /\ d.kind = "rewound"  \* rewind_session
          /\ view' = [view EXCEPT !.awaiting = @ \/ view.known]
          /\ UNCHANGED <<opens, recovery, faults>>
       \/ /\ d.kind = "recoveryFailed"  \* Subscriptions::recovery_failed, retry
          /\ opens' = TRUE
          /\ UNCHANGED <<view, recovery, faults>>
    /\ UNCHANGED <<daemonVars, wire, sub, conn, waiter, reverts>>

-----------------------------------------------------------------------------

(* What the daemon, the client and the view do without being asked to. *)
Works ==
    \/ PublishStored
    \/ \E q \in requests : SubscribeEvents(q)
    \/ ForwardSessionTail
    \/ SubscribeFromScratch \/ RecoverAll \/ SubscribeEnds \/ TryEnds
    \/ HandlePage \/ DeliverReplay \/ RouteLive \/ ApplyDelivery

Next ==
    \/ AppendRecord
    \/ \E c \in 1 .. Len(log) : Revert(c)
    \/ \E q \in requests : RefuseSubscribe(q)
    \/ \E t \in Tasks : ReplayTimesOut(t)
    \/ Works

Spec == Init /\ [][Next]_vars

(* The tasks of the daemon and the client run when they can. *)
Fairness ==
    /\ WF_vars(PublishStored)
    /\ WF_vars(\E q \in requests : SubscribeEvents(q))
    /\ WF_vars(ForwardSessionTail)
    /\ WF_vars(SubscribeFromScratch) /\ WF_vars(RecoverAll)
    /\ WF_vars(SubscribeEnds) /\ WF_vars(TryEnds)
    /\ WF_vars(HandlePage) /\ WF_vars(DeliverReplay) /\ WF_vars(RouteLive)
    /\ WF_vars(ApplyDelivery)

FairSpec == Spec /\ Fairness

-----------------------------------------------------------------------------
(* Nothing is on its way from the log to the view. *)
Quiet ==
    /\ published = Len(log)
    /\ requests = {} /\ feed = <<>> /\ wire = <<>> /\ inbox = <<>>
    /\ ~conn.busy /\ recovery.pc = "idle" /\ ~opens
    /\ \A t \in Tasks : waiter[t].pc = "idle"

Branch(s) == {Record(s, i) : i \in DOMAIN s}

(* Once nothing is on its way the view shows the log, no more and no less:
   no gap, revert or failed replay leaves it behind for good, with records the
   log lost, or without a tail. *)
SettledIsCurrent == Quiet => view.shown = Branch(log)

(* The view shows the start of a log the session has had: nothing is skipped
   and the records of two branches are not mixed. *)
ShownIsABranch ==
    \A r \in view.shown :
        r.seq > 1 => [seq |-> r.seq - 1, id |-> before[r.id]] \in view.shown

Holds(s, kind) == \E i \in DOMAIN s : s[i].kind = kind

(* A replay from the start of the log is queued, runs, or is to be asked for:
   the last replay failed for good, or a revert is still to reach the client. *)
RebuildUnderWay ==
    \/ opens \/ Holds(inbox, "recoveryFailed")
    \/ waiter["caller"].pc \in {"wait", "failed"}
    \/ recovery.pc # "idle" /\ (recovery.full \/ recovery.followFull)
    \/ sub.asked = "full"
    \/ conn.busy /\ conn.request.rebuild
    \/ \E i \in DOMAIN inbox : inbox[i].kind = "replay" /\ inbox[i].rebuild
    \/ Holds(inbox, "rewound") \/ Holds(wire, "rewound")
    \/ \E i \in DOMAIN feed : feed[i].message.kind = "rewound"

(* A view with a hole or with records of two branches is rebuilt: a catch-up,
   which adds only past what the view holds, could not mend it. *)
BrokenViewIsRebuilt == ShownIsABranch \/ RebuildUnderWay

(* A session marked as fetching has a task that will end its replay ("the
   session would stay marked as fetching and refuse every later replay"). *)
FetchIsAwaited ==
    sub.fetching =>
        \/ \E t \in Tasks : /\ waiter[t].pc \in {"wait", "failed"}
                            /\ waiter[t].attempt = sub.attempt
        \/ conn.busy /\ IsCurrent(conn.request)

(* Appends and reverts stop in time, and then the view comes to show the log. *)
ViewCatchesUp == <>[](view.shown = Branch(log))
=============================================================================
