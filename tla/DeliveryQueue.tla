---------------------------- MODULE DeliveryQueue ----------------------------
(***************************************************************************)
(* The delivery queue of CAO: the tables delivery_msg, delivery_attempt,   *)
(* delivery_dead and seat_digest (adapters/store/queue.py), the tick that  *)
(* reclaims, claims, wakes and closes (app/delivery/tick.py, wake.py), and *)
(* a seat that lists its messages and acknowledges them from another       *)
(* thread (services/mailbox_service.py).                                   *)
(*                                                                         *)
(* One action is one SQLite transaction, or one call out of the process;   *)
(* everything between two transactions may interleave.  All tables survive *)
(* a crash; the tick's and the seats' local variables do not.              *)
(***************************************************************************)
EXTENDS Integers, Sequences, FiniteSets

CONSTANTS
    Msgs,            \* the ordinary messages that may be sent
    Receivers,       \* mailboxes and terminals that rows are addressed to
    Seats,           \* the receivers that are supervisor seats: they can ack
    ServiceSender,   \* a sender no notice can be addressed to ("", "a:b", "cao-...")
    Drafts,          \* what a sender may ask for: receiver, sender, expire, cancel
    SeatOutcomes,    \* what the seat's wake carrier may answer
    PaneOutcomes,    \* what a worker's injector may answer
    LEASE, BACKOFF, MAX_ATTEMPTS, VETO_CEILING, MAX_LIFETIME,
    CLAIM_LIMIT, LIST_LIMIT,
    LAST_SEND,       \* bound: no ordinary send after this instant
    MAX_TIME,        \* bound: where the clock stops
    MAX_LAG,         \* bound: how far the clock may run ahead of the last tick's stamp
    MAX_FAULTS       \* bound: crashes and store errors in one behaviour

NoTime == -1

Notice(m) == <<"delivery-notice", m>>

Ids == Msgs \cup {Notice(m) : m \in Msgs}

Live == {"ready", "leased"}

TERMINAL_STATES == {"delivered", "superseded", "dead"}

ATTEMPT_BUDGET_OUTCOMES ==
    {"veto_unverified", "pane_absent", "wake_unresolvable", "paste_attempted"}

Outcomes == ATTEMPT_BUDGET_OUTCOMES \cup
    {"delivered", "veto_dialog", "emitted_unverified", "wake_unreachable",
     "submission_uncertain"}

TimeBoundReasons == {"max_lifetime", "veto_ceiling", "expired"}

DeadReasons == TimeBoundReasons \cup {"max_attempts"}

Draft == [receiver : Receivers, sender : Receivers \cup {ServiceSender},
          expire : Nat \cup {NoTime}, cancel : BOOLEAN]

ASSUME ConstantsOK ==
    /\ Seats \subseteq Receivers
    /\ ServiceSender \notin Receivers
    /\ Drafts \subseteq Draft
    /\ SeatOutcomes \subseteq Outcomes
    /\ PaneOutcomes \subseteq Outcomes

(* core/timing.py: I4's chain, and every duration positive; the server does    *)
(* not start otherwise.                                                    *)
check_delivery_orderings ==
    /\ {LEASE, BACKOFF, MAX_ATTEMPTS, VETO_CEILING, MAX_LIFETIME,
        CLAIM_LIMIT, LIST_LIMIT} \subseteq Nat \ {0}
    /\ (LEASE + BACKOFF) * MAX_ATTEMPTS < VETO_CEILING
    /\ VETO_CEILING < MAX_LIFETIME

ASSUME TimingOK == check_delivery_orderings

(* A notice's idempotency key has a prefix of its own, so a notice is no        *)
(* ordinary message (app/delivery/tick.py); the tables are finite.           *)
ASSUME IdsOK ==
    /\ \A m \in Msgs : Notice(m) \notin Msgs
    /\ IsFiniteSet(Msgs)

ASSUME BoundsOK == {LAST_SEND, MAX_TIME, MAX_LAG, MAX_FAULTS} \subseteq Nat

VARIABLES
    now,        \* the clock
    msg,        \* delivery_msg, with delivery_dead's reason as a column
    attempt,    \* the newest delivery_attempt row of each message
    digest,     \* seat_digest: the epochs of each receiver, oldest first
    finding,    \* ids with a DIAG-DELIVERY-TIME-BOUND finding
    stamp,      \* the instant the last tick reclaimed at
    tick,       \* the delivery task's other local variables
    seat,       \* each seat's list and ack calls in progress
    shown,      \* history: the ids some list_messages answer carried
    uncertain,  \* history: the ids an injector handed over without a receipt
    faults      \* how many crashes and errors have happened

table == <<msg, attempt, digest, finding>>
vars == <<now, table, stamp, tick, seat, shown, uncertain, faults>>

NoRow ==
    [state |-> "none", receiver |-> ServiceSender, sender |-> ServiceSender,
     claim |-> 0, lease |-> NoTime, attempts |-> 0, avail |-> 0, deadBy |-> 0,
     held |-> NoTime, expire |-> NoTime, cancel |-> FALSE, notice |-> FALSE,
     sid |-> 0, reason |-> "none"]

NoAttempt == [claim |-> 0, outcome |-> "none"]

TickIdle ==
    [pc |-> "idle", dead |-> {}, todo |-> {}, cur |-> ServiceSender,
     claimed |-> {}, heldThen |-> {}, owed |-> {}, epoch |-> 0,
     outcome |-> "none", record |-> {}, item |-> {}, scan |-> {}]

SeatIdle == [pc |-> "idle", upTo |-> 0, epoch |-> 0, ids |-> {}]

Init ==
    /\ now = 0
    /\ msg = [i \in Ids |-> NoRow]
    /\ attempt = [i \in Ids |-> NoAttempt]
    /\ digest = [r \in Receivers |-> << >>]
    /\ finding = {}
    /\ stamp = 0
    /\ tick = TickIdle
    /\ seat = [r \in Seats |-> SeatIdle]
    /\ shown = {}
    /\ uncertain = {}
    /\ faults = 0

-----------------------------------------------------------------------------
(* The store: adapters/store/queue.py.                                     *)

Rows(states, r) == {i \in Ids : msg[i].state \in states /\ msg[i].receiver = r}

(* compute_dead_by: the deadline is stamped once, at enqueue; a caller's    *)
(* expiry counts only when it is positive.                                 *)
compute_dead_by(expire) ==
    IF expire > 0 /\ expire < MAX_LIFETIME THEN now + expire ELSE now + MAX_LIFETIME

(* enqueue: INSERT ... ON CONFLICT(idempotency_key) DO NOTHING.             *)
enqueue(i, row) ==
    msg' = IF msg[i].state = "none" THEN [msg EXCEPT ![i] = row] ELSE msg

LiveRow(d, sid) ==
    [NoRow EXCEPT !.state = "ready", !.receiver = d.receiver, !.sender = d.sender,
                  !.avail = now, !.deadBy = compute_dead_by(d.expire),
                  !.expire = d.expire, !.cancel = d.cancel, !.sid = sid]

NoticeRow(receiver) ==
    [NoRow EXCEPT !.state = "ready", !.receiver = receiver, !.avail = now,
                  !.deadBy = compute_dead_by(NoTime), !.notice = TRUE]

Claimable(r, t) ==
    {i \in Rows({"ready"}, r) : msg[i].avail <= t /\ msg[i].deadBy > t}

(* The first CLAIM_LIMIT claimable rows in order of available_at; rows that *)
(* share the instant are ordered by an id this model does not order.        *)
IsClaim(S, r, t) ==
    /\ S \subseteq Claimable(r, t)
    /\ Cardinality(S) <= CLAIM_LIMIT
    /\ S # Claimable(r, t) => Cardinality(S) = CLAIM_LIMIT
    /\ \A i \in S, j \in Claimable(r, t) \ S : msg[i].avail <= msg[j].avail

claim(S, t) ==
    msg' = [i \in Ids |->
              IF i \in S
              THEN [msg[i] EXCEPT !.state = "leased", !.claim = @ + 1, !.lease = t + LEASE]
              ELSE msg[i]]

(* _last_outcome_in: the outcome recorded for THIS claim, or none.          *)
LastOutcome(i) ==
    IF attempt[i].claim = msg[i].claim THEN attempt[i].outcome ELSE "none"

spends_attempt(outcome) == outcome = "none" \/ outcome \in ATTEMPT_BUDGET_OUTCOMES

Spent(i) == IF spends_attempt(LastOutcome(i)) THEN 1 ELSE 0

(* Slip: the margin on the wrong side of the deadline.                     *)
QuarantineUntil_Early(row) == row.deadBy - 1

QuarantineUntil(row) == row.deadBy + 1

(* Slip: an uncertain submission is re-offered like any other.              *)
Released_NoQuarantine(i, t) ==
    [msg[i] EXCEPT !.state = "ready", !.claim = @ + 1, !.lease = NoTime, !.avail = t + BACKOFF]

Released(i, t) ==
    IF LastOutcome(i) = "submission_uncertain"
    THEN [msg[i] EXCEPT !.state = "ready", !.claim = @ + 1, !.lease = NoTime,
                        !.avail = QuarantineUntil(msg[i])]
    ELSE [msg[i] EXCEPT !.state = "ready", !.claim = @ + 1, !.lease = NoTime,
                        !.avail = t + BACKOFF,
                        !.attempts = @ + Spent(i)]

LeaseExpired(row, t) == row.state = "leased" /\ row.lease < t

HeldTooLong(row, t) ==
    row.state \in Live /\ row.held # NoTime /\ row.held <= t - VETO_CEILING

(* Slip: the sweep skips only leased rows, so it meets ended ones again.     *)
Exhausted_AnyState(row, t) ==
    row.state \notin {"leased", "none"} /\ (row.attempts >= MAX_ATTEMPTS \/ row.deadBy <= t)

Exhausted(row, t) ==
    row.state = "ready" /\ (row.attempts >= MAX_ATTEMPTS \/ row.deadBy <= t)

(* _dead_reason_for *)
DeadReasonFor(row) ==
    IF row.attempts >= MAX_ATTEMPTS THEN "max_attempts"
    ELSE IF row.expire # NoTime /\ row.expire <= MAX_LIFETIME THEN "expired"
    ELSE "max_lifetime"

(* _kill: the state and the delivery_dead row commit together.              *)
Killed(row, reason) ==
    [row EXCEPT !.state = "dead", !.reason = reason, !.lease = NoTime]

(* Slip: the budget and the deadline are swept before the leases.            *)
Reclaimed_DeadlineFirst(i, t) ==
    IF Exhausted(msg[i], t) THEN Killed(msg[i], DeadReasonFor(msg[i]))
    ELSE LET row == IF LeaseExpired(msg[i], t) THEN Released(i, t) ELSE msg[i]
         IN  IF HeldTooLong(row, t) THEN Killed(row, "veto_ceiling") ELSE row

(* One row through reclaim's three sweeps: lease expiry, dialog ceiling,     *)
(* attempt budget and deadline, in that order.                              *)
Reclaimed(i, t) ==
    LET row == IF LeaseExpired(msg[i], t) THEN Released(i, t) ELSE msg[i]
    IN  IF HeldTooLong(row, t) THEN Killed(row, "veto_ceiling")
        ELSE IF Exhausted(row, t) THEN Killed(row, DeadReasonFor(row))
        ELSE row

Dies(i, t) == msg[i].state \in Live /\ Reclaimed(i, t).state = "dead"

OpenEpochs(r) == {e \in DOMAIN digest[r] : digest[r][e].via = "open"}

(* open_digest: ORDER BY epoch DESC LIMIT 1.                                *)
IsOpenDigest(e, r) == e \in OpenEpochs(r) /\ \A f \in OpenEpochs(r) : f <= e

build_digest(r, ids) ==
    digest' = [digest EXCEPT ![r] = Append(@, [ids |-> ids, via |-> "open", wakes |-> 0])]

extend_digest(r, e, ids) ==
    digest' = IF e \in OpenEpochs(r)
              THEN [digest EXCEPT ![r][e].ids = @ \cup ids]
              ELSE digest

bump_wake_count(r, e) == digest' = [digest EXCEPT ![r][e].wakes = @ + 1]

(* Slip: the update does not ask that the epoch is still open.              *)
close_digest_Late(r, e, via) == digest' = [digest EXCEPT ![r][e].via = via]

close_digest(r, e, via) ==
    digest' = IF e \in OpenEpochs(r) THEN [digest EXCEPT ![r][e].via = via] ELSE digest

all_terminal(ids) == \A i \in ids : msg[i].state \notin Live

pending_for_receiver(r) == {i \in Rows(Live, r) : msg[i].sid > 0}

(* Slip: the cursor is ignored.                                            *)
Settleable_All(r, upTo) == pending_for_receiver(r)

(* settle_through: whatever the row's state and claim, up to the cursor.     *)
Settleable(r, upTo) == {i \in pending_for_receiver(r) : msg[i].sid <= upTo}

Ended(row, state) == [row EXCEPT !.state = state, !.lease = NoTime, !.held = NoTime]

EndRows(S, state) ==
    msg' = [i \in Ids |-> IF i \in S THEN Ended(msg[i], state) ELSE msg[i]]

-----------------------------------------------------------------------------
(* Senders and completions.                                                *)

(* write_through's enqueue.  The integer handle is one above every handle in *)
(* use (next_surrogate_id); the race between reading and using it is the     *)
(* subject of module WriteThrough.                                          *)
Send(m, d) ==
    /\ now <= LAST_SEND
    /\ msg[m].state = "none"
    /\ \E top \in {msg[i].sid : i \in Ids} :
         /\ \A i \in Ids : msg[i].sid <= top
         /\ enqueue(m, LiveRow(d, top + 1))
    /\ UNCHANGED <<now, attempt, digest, finding, stamp, tick, seat, shown, uncertain, faults>>

(* cancel_on_complete, run once on the receiver's completion edge.           *)
Complete(r) ==
    LET flagged == {i \in Rows({"ready"}, r) : msg[i].cancel}
    IN  /\ flagged # {}
        /\ EndRows(flagged, "superseded")
        /\ UNCHANGED <<now, attempt, digest, finding, stamp, tick, seat, shown, uncertain, faults>>

Advance ==
    /\ now < MAX_TIME
    /\ now < stamp + MAX_LAG
    /\ now' = now + 1
    /\ UNCHANGED <<table, stamp, tick, seat, shown, uncertain, faults>>

-----------------------------------------------------------------------------
(* The tick: app/delivery/tick.py, DeliveryTick.run_once.                   *)

ToServe(todo) == [TickIdle EXCEPT !.pc = "serve", !.todo = todo]

(* The clock is read and the store reclaims; the deaths are announced only   *)
(* after this transaction has committed.                                    *)
TickReclaim ==
    /\ tick.pc = "idle"
    /\ stamp' = now
    /\ msg' = [i \in Ids |-> Reclaimed(i, now)]
    /\ tick' = [TickIdle EXCEPT !.pc = "announce", !.dead = {i \in Ids : Dies(i, now)}]
    /\ UNCHANGED <<now, attempt, digest, finding, seat, shown, uncertain, faults>>

NoticeDue(i) == ~ msg[i].notice /\ msg[i].sender # ServiceSender

(* Slip: a death with a notice is taken to need no finding.                 *)
AnnounceDeath_NoticeOnly(i) ==
    /\ tick.pc = "announce"
    /\ i \in tick.dead
    /\ finding' = IF NoticeDue(i) THEN finding ELSE finding \cup {i}
    /\ tick' = IF NoticeDue(i)
               THEN [tick EXCEPT !.pc = "notice", !.dead = @ \ {i}, !.item = {i}]
               ELSE [tick EXCEPT !.dead = @ \ {i}]
    /\ UNCHANGED <<now, msg, attempt, digest, stamp, seat, shown, uncertain, faults>>

(* _announce_death, first half: the finding of a time-bound death.           *)
AnnounceDeath(i) ==
    /\ tick.pc = "announce"
    /\ i \in tick.dead
    /\ finding' = IF msg[i].reason \in TimeBoundReasons THEN finding \cup {i} ELSE finding
    /\ tick' = IF NoticeDue(i)
               THEN [tick EXCEPT !.pc = "notice", !.dead = @ \ {i}, !.item = {i}]
               ELSE [tick EXCEPT !.dead = @ \ {i}]
    /\ UNCHANGED <<now, msg, attempt, digest, stamp, seat, shown, uncertain, faults>>

(* _announce_death, second half: the sender's notice, a row with no integer  *)
(* handle, addressed to the sender of the dead row.                         *)
EnqueueNotice ==
    /\ tick.pc = "notice"
    /\ \E i \in tick.item : enqueue(Notice(i), NoticeRow(msg[i].sender))
    /\ tick' = [tick EXCEPT !.pc = "announce", !.item = {}]
    /\ UNCHANGED <<now, attempt, digest, finding, stamp, seat, shown, uncertain, faults>>

(* ready_receivers, read once per tick.                                     *)
ServeBegin ==
    /\ tick.pc = "announce"
    /\ tick.dead = {}
    /\ tick' = ToServe({r \in Receivers : Rows(Live, r) # {}})
    /\ UNCHANGED <<now, table, stamp, seat, shown, uncertain, faults>>

ClaimFor(r) ==
    /\ tick.pc = "serve"
    /\ r \in tick.todo
    /\ \E S \in SUBSET Claimable(r, stamp) :
         /\ IsClaim(S, r, stamp)
         /\ claim(S, stamp)
         /\ tick' = [tick EXCEPT !.pc = "epoch", !.todo = @ \ {r}, !.cur = r, !.claimed = S,
                                 !.heldThen = {i \in S : msg[i].held # NoTime}]
    /\ UNCHANGED <<now, attempt, digest, finding, stamp, seat, shown, uncertain, faults>>

(* Slip: the epoch is built from ready rows alone.                         *)
undelivered_ids_ReadyOnly(r) == Rows({"ready"}, r)

undelivered_ids(r) == Rows(Live, r)

(* _epoch_for: undelivered_ids, then open_digest, then build or extend; each *)
(* is a transaction of its own.                                             *)
EpochRead ==
    /\ tick.pc = "epoch"
    /\ LET owed == undelivered_ids(tick.cur)
       IN  tick' = IF owed = {} THEN ToServe(tick.todo)
                   ELSE [tick EXCEPT !.pc = "open", !.owed = owed]
    /\ UNCHANGED <<now, table, stamp, seat, shown, uncertain, faults>>

(* Slip: the receiver is woken on every tick of an open epoch.              *)
WithEpoch_EveryTick(e) == [tick EXCEPT !.pc = "deliver", !.epoch = e, !.owed = {}]

(* What follows the epoch: nothing claimed is not a new lease period, so the *)
(* receiver is not woken again.                                             *)
WithEpoch(e) ==
    IF tick.claimed = {} THEN ToServe(tick.todo)
    ELSE [tick EXCEPT !.pc = "deliver", !.epoch = e, !.owed = {}]

(* Slip: a new epoch is opened although one is open.                       *)
EpochBuild_Always ==
    /\ tick.pc = "open"
    /\ build_digest(tick.cur, tick.owed)
    /\ tick' = WithEpoch(Len(digest[tick.cur]) + 1)
    /\ UNCHANGED <<now, msg, attempt, finding, stamp, seat, shown, uncertain, faults>>

EpochBuild ==
    /\ tick.pc = "open"
    /\ OpenEpochs(tick.cur) = {}
    /\ build_digest(tick.cur, tick.owed)
    /\ tick' = WithEpoch(Len(digest[tick.cur]) + 1)
    /\ UNCHANGED <<now, msg, attempt, finding, stamp, seat, shown, uncertain, faults>>

EpochFound ==
    /\ tick.pc = "open"
    /\ \E e \in OpenEpochs(tick.cur) :
         /\ IsOpenDigest(e, tick.cur)
         /\ tick' = [tick EXCEPT !.pc = "extend", !.epoch = e]
    /\ UNCHANGED <<now, table, stamp, seat, shown, uncertain, faults>>

EpochExtend ==
    /\ tick.pc = "extend"
    /\ extend_digest(tick.cur, tick.epoch, tick.owed)
    /\ tick' = WithEpoch(tick.epoch)
    /\ UNCHANGED <<now, msg, attempt, finding, stamp, seat, shown, uncertain, faults>>

(* WakeService.deliver.  The receiver has no live terminal: nothing is       *)
(* emitted and the ordinal does not move.                                   *)
DeliverAbsent ==
    /\ tick.pc = "deliver"
    /\ tick' = [tick EXCEPT !.pc = "record", !.outcome = "pane_absent", !.record = tick.claimed]
    /\ UNCHANGED <<now, table, stamp, seat, shown, uncertain, faults>>

(* The epoch was closed since the tick read it: no carrier runs and nothing  *)
(* is recorded.                                                             *)
DeliverClosed ==
    /\ tick.pc = "deliver"
    /\ tick.epoch \notin OpenEpochs(tick.cur)
    /\ tick' = ToServe(tick.todo)
    /\ UNCHANGED <<now, table, stamp, seat, shown, uncertain, faults>>

(* The ordinal moves, then the one carrier the receiver's role dictates runs. *)
DeliverWake ==
    /\ tick.pc = "deliver"
    /\ tick.epoch \in OpenEpochs(tick.cur)
    /\ bump_wake_count(tick.cur, tick.epoch)
    /\ \E o \in IF tick.cur \in Seats THEN SeatOutcomes ELSE PaneOutcomes :
         /\ tick' = [tick EXCEPT !.pc = "record", !.outcome = o, !.record = tick.claimed]
         /\ uncertain' = IF o = "submission_uncertain" THEN uncertain \cup tick.claimed
                         ELSE uncertain
    /\ UNCHANGED <<now, msg, attempt, finding, stamp, seat, shown, faults>>

AfterRecord(left) ==
    IF left = {} THEN ToServe(tick.todo) ELSE [tick EXCEPT !.pc = "record", !.record = left, !.item = {}]

(* Slip: the hold clock is set and never cleared.                          *)
HoldChanges_SetOnly(i) == tick.outcome = "veto_dialog" /\ i \notin tick.heldThen

HoldChanges(i) == (tick.outcome = "veto_dialog") # (i \in tick.heldThen)

(* _record_attempts, one message: the attempt row is written once per claim. *)
RecordAttempt(i) ==
    /\ tick.pc = "record"
    /\ i \in tick.record
    /\ attempt' = IF attempt[i].claim = msg[i].claim THEN attempt
                  ELSE [attempt EXCEPT ![i] = [claim |-> msg[i].claim, outcome |-> tick.outcome]]
    /\ tick' = IF HoldChanges(i)
               THEN [tick EXCEPT !.pc = "hold", !.record = @ \ {i}, !.item = {i}]
               ELSE AfterRecord(tick.record \ {i})
    /\ UNCHANGED <<now, msg, digest, finding, stamp, seat, shown, uncertain, faults>>

(* mark_dialog_hold: its own statement, and it does not look at the state.   *)
MarkDialogHold ==
    /\ tick.pc = "hold"
    /\ \E i \in tick.item :
         msg' = [msg EXCEPT ![i].held = IF tick.outcome = "veto_dialog" THEN stamp ELSE NoTime]
    /\ tick' = AfterRecord(tick.record)
    /\ UNCHANGED <<now, attempt, digest, finding, stamp, seat, shown, uncertain, faults>>

ServeEnd ==
    /\ tick.pc = "serve"
    /\ tick.todo = {}
    /\ tick' = [TickIdle EXCEPT !.pc = "close",
                  !.scan = {p \in Receivers \X UNION {DOMAIN digest[r] : r \in Receivers} :
                              p[2] \in OpenEpochs(p[1])}]
    /\ UNCHANGED <<now, table, stamp, seat, shown, uncertain, faults>>

(* Slip: only an epoch that was delivered is closed.                       *)
CloseFinished_Delivered(r, e) ==
    /\ tick.pc = "close"
    /\ <<r, e>> \in tick.scan
    /\ IF \A i \in digest[r][e].ids : msg[i].state = "delivered"
       THEN close_digest(r, e, "cancelled")
       ELSE UNCHANGED digest
    /\ tick' = [tick EXCEPT !.scan = @ \ {<<r, e>>}]
    /\ UNCHANGED <<now, msg, attempt, finding, stamp, seat, shown, uncertain, faults>>

(* Slip: an epoch that still has messages stays in the sweep.                *)
CloseFinished_Stuck(r, e) ==
    /\ tick.pc = "close"
    /\ <<r, e>> \in tick.scan
    /\ IF all_terminal(digest[r][e].ids)
       THEN close_digest(r, e, "cancelled") /\ tick' = [tick EXCEPT !.scan = @ \ {<<r, e>>}]
       ELSE UNCHANGED <<digest, tick>>
    /\ UNCHANGED <<now, msg, attempt, finding, stamp, seat, shown, uncertain, faults>>

(* _close_finished_epochs, one open epoch.  Which word closes it depends on  *)
(* a liveness probe the model leaves open.                                  *)
CloseFinished(r, e) ==
    /\ tick.pc = "close"
    /\ <<r, e>> \in tick.scan
    /\ IF all_terminal(digest[r][e].ids)
       THEN \E via \in {"cancelled", "abandoned"} : close_digest(r, e, via)
       ELSE UNCHANGED digest
    /\ tick' = [tick EXCEPT !.scan = @ \ {<<r, e>>}]
    /\ UNCHANGED <<now, msg, attempt, finding, stamp, seat, shown, uncertain, faults>>

TickEnd ==
    /\ tick.pc = "close"
    /\ tick.scan = {}
    /\ tick' = TickIdle
    /\ UNCHANGED <<now, table, stamp, seat, shown, uncertain, faults>>

TickStep ==
    \/ TickReclaim \/ EnqueueNotice \/ ServeBegin \/ EpochRead \/ EpochBuild \/ EpochFound
    \/ EpochExtend \/ DeliverAbsent \/ DeliverClosed \/ DeliverWake \/ MarkDialogHold
    \/ ServeEnd \/ TickEnd
    \/ \E i \in tick.dead : AnnounceDeath(i)
    \/ \E i \in tick.record : RecordAttempt(i)
    \/ \E r \in tick.todo : ClaimFor(r)
    \/ \E p \in tick.scan : CloseFinished(p[1], p[2])

-----------------------------------------------------------------------------
(* A seat draining its mailbox: services/mailbox_service.py.                *)

(* list_messages: the first LIST_LIMIT rows by handle; the seat may then ack  *)
(* up to any handle it was shown.                                           *)
SeatList(r) ==
    /\ seat[r].pc = "idle"
    /\ \E S \in SUBSET pending_for_receiver(r) :
         /\ S # {}
         /\ Cardinality(S) <= LIST_LIMIT
         /\ S # pending_for_receiver(r) => Cardinality(S) = LIST_LIMIT
         /\ \A i \in S, j \in pending_for_receiver(r) \ S : msg[i].sid < msg[j].sid
         /\ shown' = shown \cup S
         /\ \E i \in S : seat' = [seat EXCEPT ![r] = [SeatIdle EXCEPT !.pc = "listed", !.upTo = msg[i].sid]]
    /\ UNCHANGED <<now, table, stamp, tick, uncertain, faults>>

(* _ack_on_queue, first transaction; an ack that settles nothing stops here.  *)
SeatSettle(r) ==
    /\ seat[r].pc = "listed"
    /\ LET S == Settleable(r, seat[r].upTo)
       IN  /\ EndRows(S, "delivered")
           /\ seat' = [seat EXCEPT ![r] = IF S = {} THEN SeatIdle ELSE [@ EXCEPT !.pc = "settled"]]
    /\ UNCHANGED <<now, attempt, digest, finding, stamp, tick, shown, uncertain, faults>>

(* open_digest: the epoch and its ids are a snapshot from here on.           *)
SeatReadDigest(r) ==
    /\ seat[r].pc = "settled"
    /\ \/ /\ OpenEpochs(r) = {}
          /\ seat' = [seat EXCEPT ![r] = SeatIdle]
       \/ \E e \in OpenEpochs(r) :
            /\ IsOpenDigest(e, r)
            /\ seat' = [seat EXCEPT ![r] = [@ EXCEPT !.pc = "read", !.epoch = e, !.ids = digest[r][e].ids]]
    /\ UNCHANGED <<now, table, stamp, tick, shown, uncertain, faults>>

SeatClose(r) ==
    /\ seat[r].pc = "read"
    /\ IF all_terminal(seat[r].ids) THEN close_digest(r, seat[r].epoch, "mcp_ack")
       ELSE UNCHANGED digest
    /\ seat' = [seat EXCEPT ![r] = SeatIdle]
    /\ UNCHANGED <<now, msg, attempt, finding, stamp, tick, shown, uncertain, faults>>

SeatStep(r) == SeatList(r) \/ SeatSettle(r) \/ SeatReadDigest(r) \/ SeatClose(r)

-----------------------------------------------------------------------------
(* Faults: a store call that raises, and the server dying.                  *)

(* run_once swallows an error per receiver while serving, the notice's own    *)
(* error, and otherwise loses the rest of the tick.                          *)
TickFault ==
    /\ faults < MAX_FAULTS
    /\ faults' = faults + 1
    /\ \/ /\ tick.pc = "announce" /\ tick.dead # {}
          /\ tick' = TickIdle
       \/ /\ tick.pc = "notice"
          /\ tick' = [tick EXCEPT !.pc = "announce", !.item = {}]
       \/ /\ tick.pc = "serve"
          /\ \E r \in tick.todo : tick' = [tick EXCEPT !.todo = @ \ {r}]
       \/ /\ tick.pc \in {"epoch", "open", "extend", "deliver", "record", "hold"}
          /\ tick' = ToServe(tick.todo)
       \/ /\ tick.pc = "close" /\ tick.scan # {}
          /\ tick' = TickIdle
    /\ UNCHANGED <<now, table, stamp, seat, shown, uncertain>>

SeatFault(r) ==
    /\ faults < MAX_FAULTS
    /\ faults' = faults + 1
    /\ seat[r].pc \in {"settled", "read"}
    /\ seat' = [seat EXCEPT ![r] = SeatIdle]
    /\ UNCHANGED <<now, table, stamp, tick, shown, uncertain>>

Crash ==
    /\ faults < MAX_FAULTS
    /\ faults' = faults + 1
    /\ tick.pc # "idle" \/ \E r \in Seats : seat[r].pc # "idle"
    /\ tick' = TickIdle
    /\ seat' = [r \in Seats |-> SeatIdle]
    /\ UNCHANGED <<now, table, stamp, shown, uncertain>>

Next ==
    \/ \E m \in Msgs, d \in Drafts : Send(m, d)
    \/ \E r \in Receivers : Complete(r)
    \/ Advance
    \/ TickStep
    \/ \E r \in Seats : SeatStep(r)
    \/ \E r \in Seats : SeatFault(r)
    \/ TickFault
    \/ Crash

Spec == Init /\ [][Next]_vars

(* The tick is one asyncio task whose loop survives every exception, and time *)
(* passes.  Nothing obliges a sender, a seat or a fault to act.              *)
FairSpec == Spec /\ WF_vars(TickStep) /\ WF_vars(Advance)

-----------------------------------------------------------------------------
(* What is checked.                                                        *)

Row ==
    [state : Live \cup TERMINAL_STATES \cup {"none"},
     receiver : Receivers \cup {ServiceSender}, sender : Receivers \cup {ServiceSender},
     claim : Nat, lease : Nat \cup {NoTime}, attempts : Nat, avail : Nat, deadBy : Nat,
     held : Nat \cup {NoTime}, expire : Nat \cup {NoTime}, cancel : BOOLEAN,
     notice : BOOLEAN, sid : Nat, reason : DeadReasons \cup {"none"}]

Epoch == [ids : SUBSET Ids, via : {"open", "mcp_ack", "cancelled", "abandoned"}, wakes : Nat]

TickState ==
    [pc : {"idle", "announce", "notice", "serve", "epoch", "open", "extend", "deliver",
           "record", "hold", "close"},
     dead : SUBSET Ids, todo : SUBSET Receivers, cur : Receivers \cup {ServiceSender},
     claimed : SUBSET Ids, heldThen : SUBSET Ids, owed : SUBSET Ids, epoch : Nat,
     outcome : Outcomes \cup {"none"}, record : SUBSET Ids, item : SUBSET Ids,
     scan : SUBSET (Receivers \X Nat)]

SeatState == [pc : {"idle", "listed", "settled", "read"}, upTo : Nat, epoch : Nat,
              ids : SUBSET Ids]

(* Every table and every local variable keeps its type.                     *)
TypeOK ==
    /\ now \in Nat
    /\ msg \in [Ids -> Row]
    /\ attempt \in [Ids -> [claim : Nat, outcome : Outcomes \cup {"none"}]]
    /\ digest \in [Receivers -> Seq(Epoch)]
    /\ finding \subseteq Ids
    /\ stamp \in Nat
    /\ tick \in TickState
    /\ seat \in [Seats -> SeatState]
    /\ shown \subseteq Ids
    /\ uncertain \subseteq Ids
    /\ faults \in Nat

(* A row outlives its deadline by less than one lease: reclaim kills only    *)
(* ready rows, so a row leased just before dead_by survives it, but claim's   *)
(* dead_by conjunct and the lease length bound by how much.  I4's margin      *)
(* over the legacy stall notice rests on this.                               *)
BoundedLife == \A i \in Ids : msg[i].state \in Live => msg[i].deadBy + LEASE > stamp

(* A message whose recorded outcome is submission_uncertain keeps the claim   *)
(* that recorded it, or waits past its deadline: reclaim's quarantine holds   *)
(* over every later tick, crash and store error.                             *)
QuarantineHolds ==
    \A i \in Ids :
        attempt[i].outcome = "submission_uncertain" =>
            \/ msg[i].state \in TERMINAL_STATES
            \/ msg[i].state = "leased" /\ msg[i].claim = attempt[i].claim
            \/ msg[i].state = "ready" /\ msg[i].avail >= msg[i].deadBy

(* A receiver never has two open epochs, although open_digest and            *)
(* build_digest are separate transactions and a seat closes epochs between    *)
(* them.                                                                     *)
OneOpenEpoch == \A r \in Receivers : \A e, f \in OpenEpochs(r) : e = f

(* The wakes a receiver has had, and the leases its rows have had, each as a    *)
(* set of numbered pairs.  Each claim and each release adds one to claim_id,    *)
(* so a row has seen (claim_id + 1) \div 2 leases.                             *)
Wakes(r) == UNION {{e} \X (1 .. digest[r][e].wakes) : e \in DOMAIN digest[r]}

LeasesOf(row) == (row.claim + 1) \div 2

Leases(r) == UNION {{i} \X (1 .. LeasesOf(msg[i])) : i \in {j \in Ids : msg[j].receiver = r}}

(* I3: a receiver is woken at most once per lease period, whatever the ticks, *)
(* acks, crashes and errors.                                                *)
WakesWithinLeases ==
    \A r \in Receivers : Cardinality(Wakes(r)) <= Cardinality(Leases(r))

(* An ack settles nothing that no list_messages answer showed (settle_through *)
(* settles by cursor, not by the ids the seat read).                         *)
AckSettlesOnlyShown == \A i \in Ids : msg[i].state = "delivered" => i \in shown

(* A consumed epoch is terminal (#568): a late tick neither extends it, wakes *)
(* it, nor overwrites how it was closed.                                     *)
ClosedEpochFrozen ==
    [][\A r \in Receivers : \A e \in DOMAIN digest[r] :
          digest[r][e].via # "open" => digest'[r][e] = digest[r][e]]_vars

(* dead_by is stamped once: no re-offer, hold, settle or death moves it.      *)
DeadlineFixed ==
    [][\A i \in Ids : msg[i].state # "none" => msg'[i].deadBy = msg[i].deadBy]_vars

(* An id handed to a runtime that would not confirm it is never leased, and   *)
(* so never submitted, again.                                                *)
NoResubmission ==
    [][\A i \in uncertain : msg'[i].state = "leased" => msg[i].state = "leased"]_vars

(* The dialog-hold clock of a pending row runs only while its latest outcome  *)
(* is a dialog veto: any other outcome clears it, so the veto ceiling never   *)
(* kills a row that recovered.                                               *)
HoldClockHonest ==
    \A i \in Ids :
        msg[i].state \in Live /\ msg[i].held # NoTime /\ i \notin tick.item
            => attempt[i].outcome = "veto_dialog"

(* Every death the tick has finished with is announced: a time-bound one by a *)
(* finding, and one with an addressable sender by a notice row.              *)
DeathsAnnounced ==
    \A i \in Ids :
        msg[i].state = "dead" /\ i \notin tick.dead \cup tick.item =>
            /\ msg[i].reason \in TimeBoundReasons => i \in finding
            /\ NoticeDue(i) => msg[Notice(i)].state # "none"

(* An open epoch of its receiver lists the message.                          *)
Covered(i) == \E e \in OpenEpochs(msg[i].receiver) : i \in digest[msg[i].receiver][e].ids

(* A worker's pending row that has been leased, and that the tick is not        *)
(* holding, is on an open epoch of the worker.  A seat's need not be: its ack   *)
(* may close the epoch that _epoch_for has found and not yet extended, and the  *)
(* extension of a closed epoch does nothing.                                  *)
LeasedRowsCovered ==
    \A i \in Ids :
        (/\ msg[i].state \in Live /\ msg[i].claim > 0
         /\ i \notin tick.claimed /\ msg[i].receiver \notin Seats) => Covered(i)

(* I6: an open epoch whose messages have all ended does not stay open.        *)
FinishedEpochsClose ==
    \A r \in Receivers :
        (\E e \in OpenEpochs(r) : all_terminal(digest[r][e].ids))
            ~> ~ (\E e \in OpenEpochs(r) : all_terminal(digest[r][e].ids))

(* The queue implements MessageLifecycle: I1.                               *)
status == [i \in Ids |-> IF msg[i].state \in Live THEN "owed" ELSE msg[i].state]

Lifecycle == INSTANCE MessageLifecycle WITH Ids <- Ids, status <- status

(* Every step accepts a message, ends some for good, or leaves every ending.  *)
RefinesLifecycle == Lifecycle!Spec

(* And under the tick's fairness every accepted message ends.                *)
EveryMessageEnds == Lifecycle!EveryMessageEnds

-----------------------------------------------------------------------------
(* The strengthening that the proofs use.                                   *)

(* While a receiver is being served, it is a receiver of the system.          *)
ServesReceiver ==
    tick.pc \in {"epoch", "open", "extend", "deliver", "record", "hold"} => tick.cur \in Receivers

(* A lease was granted before the deadline, so it ends within one lease of it. *)
LeaseNearDeadline ==
    \A i \in Ids : msg[i].state = "leased" => msg[i].lease < msg[i].deadBy + LEASE

(* A row in the tick's claimed snapshot may have ended since, and nothing else: *)
(* no other actor puts it back to ready.                                     *)
SnapshotFenced ==
    \A i \in tick.claimed \cup tick.record : msg[i].state \in {"leased"} \cup TERMINAL_STATES

(* The inductive invariant of the queue, over every crash, error and ack: the  *)
(* life bound, the quarantine, the single open epoch and what they rest on.    *)
SafetyInv ==
    /\ TypeOK
    /\ ServesReceiver
    /\ stamp <= now
    /\ LeaseNearDeadline
    /\ BoundedLife
    /\ SnapshotFenced
    /\ QuarantineHolds
    /\ OneOpenEpoch

(* The rows whose attempt the tick has claimed and not yet recorded.          *)
Unrecorded == IF tick.pc \in {"record", "hold"} THEN tick.record ELSE tick.claimed

(* Each phase of the tick holds only what it works on.                       *)
TickShape ==
    /\ tick.pc \notin {"announce", "notice"} => tick.dead = {}
    /\ tick.pc \notin {"notice", "hold"} => tick.item = {}
    /\ tick.pc \notin {"record", "hold"} => tick.record = {}
    /\ tick.pc \in {"idle", "announce", "notice", "serve", "close"} => tick.claimed = {}
    /\ tick.record \subseteq tick.claimed
    /\ tick.pc = "hold" => tick.item \subseteq tick.claimed \ tick.record
    /\ \A i, j \in tick.item : i = j

(* claim_id: a row without leases has none, a ready row has been released as    *)
(* often as it was claimed, a leased row once less.                           *)
ClaimParity ==
    \A i \in Ids :
        /\ msg[i].state = "none" => msg[i].claim = 0
        /\ msg[i].state = "ready" => msg[i].claim % 2 = 0
        /\ msg[i].state = "leased" => msg[i].claim % 2 = 1
        /\ msg[i].claim > 0 => msg[i].receiver \in Receivers

(* An attempt row is of the current claim or an older one, and of an older one  *)
(* until the tick records the outcome.                                        *)
AttemptFresh ==
    /\ \A i \in Ids : attempt[i].claim <= msg[i].claim
    /\ \A i \in Unrecorded : attempt[i].claim < msg[i].claim

(* What the tick holds besides the tables agrees with them: the receiver of the *)
(* claimed rows, none of which has died, the hold clocks at the claim, and the  *)
(* recorded outcome of the row whose hold clock moves next.                   *)
SnapshotHonest ==
    /\ \A i \in tick.claimed : msg[i].receiver = tick.cur /\ msg[i].state # "dead"
    /\ \A i \in Unrecorded :
          msg[i].state \in Live => (i \in tick.heldThen <=> msg[i].held # NoTime)
    /\ tick.pc = "hold" => \A i \in tick.item : attempt[i].outcome = tick.outcome

(* The tick's own invariant, over every crash, error and ack.                 *)
TickInv == SafetyInv /\ TickShape /\ ClaimParity /\ AttemptFresh /\ SnapshotHonest

(* A seat that has listed may ack only what it was shown: what it was not shown *)
(* has, and every later row gets, a higher handle.                            *)
ListedShown ==
    \A r \in Seats :
        seat[r].pc = "listed" =>
            /\ \E j \in Ids : msg[j].state # "none" /\ seat[r].upTo <= msg[j].sid
            /\ Settleable(r, seat[r].upTo) \subseteq shown

(* A receiver with freshly claimed rows and no wake for them yet has a lease to *)
(* spare.                                                                   *)
SpareLease(r) ==
    IF tick.pc \in {"epoch", "open", "extend", "deliver"} /\ tick.cur = r /\ tick.claimed # {}
    THEN 1 ELSE 0

WakeCredit ==
    /\ tick.pc = "deliver" => tick.claimed # {}
    /\ \A r \in Receivers :
          /\ IsFiniteSet(Wakes(r))
          /\ IsFiniteSet(Leases(r))
          /\ Cardinality(Wakes(r)) + SpareLease(r) <= Cardinality(Leases(r))

(* A worker's claimed rows on their way into an epoch.                        *)
ClaimedCovered ==
    tick.cur \notin Seats =>
        /\ tick.pc \in {"open", "extend"} =>
              \A i \in tick.claimed : msg[i].state \in Live => i \in tick.owed
        /\ tick.pc = "extend" => tick.epoch \in OpenEpochs(tick.cur)
        /\ tick.pc \in {"deliver", "record", "hold"} =>
              \A i \in tick.claimed : msg[i].state \in Live => Covered(i)

(* A notice is flagged as one, the deaths to announce are deaths, and the one   *)
(* whose notice comes next already has its finding.                           *)
DeathsInProgress ==
    /\ \A m \in Msgs : msg[Notice(m)].state # "none" => msg[Notice(m)].notice
    /\ \A i \in tick.dead : msg[i].state = "dead"
    /\ tick.pc = "notice" =>
          \A i \in tick.item :
              /\ msg[i].state = "dead" /\ NoticeDue(i)
              /\ msg[i].reason \in TimeBoundReasons => i \in finding

(* What was handed over without a receipt has ended, has that outcome recorded, *)
(* or is about to.                                                          *)
UncertainTracked ==
    \A i \in uncertain :
        \/ msg[i].state \in TERMINAL_STATES
        \/ attempt[i].outcome = "submission_uncertain"
        \/ i \in tick.record /\ tick.outcome = "submission_uncertain"

(* What holds until the first crash or store error.                          *)
UntilFault == faults = 0 => HoldClockHonest /\ DeathsAnnounced /\ LeasedRowsCovered /\ UncertainTracked
=============================================================================
