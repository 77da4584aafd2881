# A TLA+ development of CAO

CAO (CLI Agent Orchestrator) runs command-line coding agents in terminal panes.
A supervisor agent assigns work to worker agents; workers answer with callbacks;
reviews go through gates that may stop on a question; scripted workflows drive
agents step by step. What makes the system usable is that this survives server
restarts, lost panes and several threads and processes writing to the same tables:
a message is read or reported as dead, a group of callbacks is reported once, a
question is settled once, a step with side effects is not run twice unasked. This
directory models these protocols and checks them, with TLC on small instances and
with TLAPS for all values of the constants. Paths below are relative to
`src/src/cli_agent_orchestrator/`.

## 1. Inventory

### 1.1 The parts that are modelled

| part | state | operations | interacts with | modules |
|---|---|---|---|---|
| queue store, `adapters/store/queue.py` | tables `delivery_msg`, `delivery_attempt`, `delivery_dead`, `seat_digest` | enqueue, claim, reclaim, record_attempt, mark_dialog_hold, settle_through, cancel_on_complete, build/extend/bump/close of a digest epoch | called by the tick (event-loop thread), by sends and acks (worker threads) | `DeliveryQueue` |
| rules, `core/delivery.py`, `core/timing.py` | none | states, outcomes, reasons; `compute_dead_by`, `spends_attempt`, `is_service_sender`; the ordering of the durations | used by all others | `DeliveryQueue` |
| tick, `app/delivery/tick.py` | the local variables of one pass | reclaim, announce deaths, serve each receiver, close finished epochs | store, wake service, finding store | `DeliveryQueue` |
| wake service, `app/delivery/wake.py` | none | `deliver`: absent, closed, or one carrier by role | directory, carriers, digest ordinal | `DeliveryQueue` |
| seat drain, `services/mailbox_service.py` | none of its own | `_list_from_queue`, `_ack_on_queue` | store, from a thread of its own | `DeliveryQueue` |
| send path and adoption, `app/delivery/wiring.py`, `clients/database.py` | legacy inbox rows (PENDING, ADOPTED), the poison set | `create_inbox_message`, `write_through`, the fallback insert, `adopt_orphaned_legacy_rows`, `record_completion` | store, watchdog lock, mailbox lock, tick | `WriteThrough` |
| callback barriers, `clients/database.py` (WPQ7) | barriers, members, HELD inbox rows | attach, re-arm, callback, fire, cancel, escalation, reap, crash, rebind, boot repair | dispatch threads, the barrier daemon, terminal shutdown | `CallbackBarrier` |
| answer gate, questions: `app/gate/questions.py`, `adapters/store/gate.py`, `core/gate.py` | questions, answers, dispatches, ownership claims | record_dispatch, ask, answer, escalate, sweep_expired, mark_answer_consumed, claim_ownership | lanes, seats, notifier | `GateQuestions` |
| answer gate, rounds: `app/gate/service.py`, `adapters/store/gate.py` | runs, rounds, snapshots, reports | open_run, end_run, open_round, freeze, begin, settle, claim | CLI processes | `GateRounds` |
| script workflows, `services/script_runner.py`, `services/workflow_journal.py`, `services/step_replay.py`, `api/main.py` | journal rows of run and steps; records, active drives, handlers in memory | resume, cancel, the drive of the process, run-step with its replay gate | the child process, the event loop, journal threads | `ScriptResume` |

What is hard here:

* Delivery. The tick takes some ten transactions per receiver and the seat three per
  ack, and they interleave; a crash or a store error may fall between any two; the
  lease, the back-off, the dialog ceiling, the caller's expiry and the lifetime race
  each other; a carrier may not know whether its text arrived; two actors close the
  same epoch. On the send path the duplicate window is read in two tables, the integer
  handle is read outside the insert that uses it, and queue and inbox are two
  connections that no transaction covers.
* Barriers. The engine begins a transaction at its first write, so a dispatch, a
  callback, a cancel or the reap of an owner decides on reads that others may overtake.
* Gate. Clocks are read before the lock is waited for; an owner may change under a
  question; a second question may be asked before the first answer is received; a
  command of two transactions may die between them.
* Scripts. A resume has ten awaits at which a cancel, another resume, a late handler
  of the previous drive or the death of the server may fall, and each leaves a journal
  that the next resume must read rightly.

What makes it correct:

* I1: an accepted message ends exactly once, as `delivered`, `superseded` or
  `dead`, and does end.
* I3: a receiver is woken at most once per lease period.
* I4: the deadline is stamped once; a row lives at most one lease past it.
* I6: an epoch closes when its messages have ended, and a closed epoch is final.
* An ack settles only what the seat was shown.
* Text handed over without a receipt is not handed over again.
* A death is announced, by a finding or a notice to the sender.
* A send that was answered is carried, by one row of one table; an adopted row is
  neither lost nor doubled, and one that cannot be adopted holds up no other.
* A barrier sends one combined message, which withdraws what it quotes; a barrier whose members have all answered is closed, and every barrier
  closes in the end.
* A lane that asked always has a release in sight; a question is settled once, by its
  owner or by its expiry; a finished lane is not brought back by its questions.
* A verdict keeps the report it was given with; a reviewed snapshot never changes; a
  run ends once.
* One resume drives a run at a time; a recovery decision serves the resume it was
  given to and no other; a step that may have run is run again only with leave; an
  accepted cancel is not overwritten by a completion.

### 1.2 The other parts

| part | state and operations | hard behaviour | correctness |
|---|---|---|---|
| receiver state kernel, `kernel/receiver_state/` | state per receiver derived from rollouts | late or out-of-order evidence | newer evidence is never overwritten by older |
| worker truth, `app/worker_truth/`, `core/states.py` | event log folded into a state | replays, gaps, sweep racing publish | the projection equals the fold of the log |
| YAML workflows and first runs, `services/workflow_service.py` | run records, journal | submission racing resume | a run is driven once |
| handoff approval, `services/approval_*.py` | pending approvals | approve racing timeout | one resolution |
| status monitor, `services/status_monitor.py` | latched pane status | stale reads | published status follows the latest evidence |
| sessions, terminals, leases | rows and lease files | rebind racing shutdown | one owner at a time |
| legacy inbox and watchdog | inbox rows | being replaced by the queue | read only |
| API, CLI, MCP servers, providers, backends, memory, web UI | transport, panes, documents | input and output | outside the scope of a model |

`PROJECT.json` lists every part with its status and, under `hazards`, what is hard
to test at the line where it bites.

## 2. Plan

1. `MessageLifecycle`, `DeliveryQueue`, `DeliveryQueueProofs`, `DeliveryTickProofs`: the
   queue, the tick and the seat, with faults. **Done.**
2. `WriteThrough`, `WriteThroughProofs`, `SendProofs`: the send path with concurrent senders and the
   adoption of legacy rows with crashes. **Done.**
3. `QuestionLifecycle`, `GateQuestions`, `GateRounds` and their proofs. **Done.**
4. `CallbackBarrier`, `CallbackBarrierProofs`. **Done.**
5. `ScriptResume`, `ScriptResumeProofs`. **Done**, for a run whose first drive is over.
6. The YAML tier and the first run of a workflow, with asynchronous submission.
7. `ReceiverState` and `WorkerTruth`: fold of events against a reference fold.
8. `Approval`, `StatusMonitor`.
9. Retention (pruning reuses epoch numbers), and one composed specification of
   `WriteThrough` and `DeliveryQueue`, which now share `MessageLifecycle` as their
   abstract specification.

Every safety property that a run checks has its theorem. Worth proving next: how far the
properties that hold only until the first fault recover after it, and which epochs a
seat's leased row may be missing from.

## 3. `DeliveryQueue`: how it corresponds to the code

**Variables.** `msg` is `delivery_msg`, with `delivery_dead.reason` as a column (the
two commit together in `_kill`); `attempt` is the newest `delivery_attempt` row per
message; `digest[r]` the epochs of a receiver in order; `finding` the ids with a
time-bound finding. `stamp` is the instant the last tick read; `tick` and `seat`
are the local variables of the delivery task and of each seat's list and ack.
`shown` and `uncertain` are history: what a list answer carried and what an
injector handed over without a receipt. `now` is the clock and `faults` counts
crashes and errors.

**Grain.** One action is one SQLite transaction or one call out of the process. The
tick runs synchronously on the event-loop thread, so ticks never overlap, while
acks and sends run in `asyncio.to_thread` and fall between any two of its
transactions. Only the tick changes `claim_id` and `held_since` of a live row, so
the claimed snapshot is the set of ids and of those already held. The read of the
open digest and the ack's `all_terminal` are folded into the steps that use them
where the value read cannot change meanwhile: an ended row stays ended, so
`all_terminal` on fixed ids is stable.

**Tick.** `TickReclaim` (three sweeps in order: leases, dialog ceiling, budget and
deadline), `AnnounceDeath` and `EnqueueNotice` per death, `ServeBegin`, then per
receiver `ClaimFor`, `EpochRead`, `EpochBuild` or `EpochFound` and `EpochExtend`,
`DeliverAbsent`, `DeliverClosed` or `DeliverWake`, `RecordAttempt` and
`MarkDialogHold` per message; `ServeEnd`, `CloseFinished` per epoch, `TickEnd`.

**Seat.** `SeatList`, `SeatSettle`, `SeatReadDigest`, `SeatClose`. A list starts at
the beginning of the mailbox; a client that passes a cursor of its own beyond rows
it never read can acknowledge them, and `AckSettlesOnlyShown` says nothing of it.

**Others.** `Send` is `write_through`'s enqueue, with its integer handle allocated
atomically (module `WriteThrough` has the race); `Complete` is `cancel_on_complete`.

**Faults.** `TickFault` is a store call that raises: `serve` drops the receiver and
goes on, a failed notice is logged, any other error ends the pass. `SeatFault` is
the ack's `except`. `Crash` loses every local variable and no table.

**Abstractions.** Payloads, wording, kinds and digests of text are dropped. Whether
a terminal is alive, which carrier answers what, and the word that closes an epoch
(`cancelled` or `abandoned`) are nondeterministic. Rows with equal `available_at`
are ordered by id in the code and by choice here. A tick may start at any time.
`claim`'s own `dead_by` conjunct is kept although reclaim at the same instant has
already removed those rows. `build_digest` reads its rows back and asserts; a row
that ends in between is the case `DeliverClosed` covers. The `mode` column has one
value. Left out: `ack` and `settle` by claim and `reparent` (no production caller),
`prune` (not scheduled), read-only queries, and the unverified-streak diagnosis of
the wake service.

## 4. `WriteThrough`: how it corresponds to the code

**Variables.** `queue` and `inbox` are `delivery_msg` and the legacy table, cut down
to what this module needs: key, send, handle, instant, settled or status. `pc` is
where each call of `create_inbox_message` stands, `handle` the surrogate it has read,
`guard` the calls in progress. `adopt` is the adoption pass, `poison` is
`_ADOPTION_POISON_IDS` (in memory, so a crash forgets it). `blind` are the sends
whose inbox lookup failed: the code fails open and drops the content hash, so
neither they nor later repeats are compared. `cursor` and `shown` are the reader's
cursor and what list answers carried.

**A send.** `SendBegin` takes the locks and looks into the inbox, `SendWindow` is
`find_recent_duplicate`, `SendAlloc` is `next_surrogate_id`, `SendEnqueue` the insert
under the key `live-inbox:<surrogate>`; each is a transaction of its own.
`SendRefused` (a conflict or a constraint), `SendBusy` (the write lock) and
`SendFault` lead to `SendFallback`, the legacy insert, whose failure the caller is
told. `Commit` lets the answer be lost after the row is in. The insert is
`ON CONFLICT DO NOTHING` and then a comparison of payload digests: a taken key with
the same payload is answered with the row that holds it.

**Locks.** A send by a terminal holds the watchdog's lock (`callback_insert_guard`)
and a send through `create_logical_inbox_message` its mailbox's authority lock. A send by
an operator or a service to a terminal holds neither. `Draft[s].locks` says which, and `SendsOK`
states what `_f475_should_dedup` implies: only a terminal's callback is compared.

**Adoption.** `AdoptScan` takes the first `ADOPT_LIMIT` pending rows that are not
poisoned; per row, `AdoptEnqueue` under `adopted-inbox:<id>` and then `AdoptRetire`;
`AdoptPoison` for a row without receiver or one that is persistently rejected,
`AdoptBusy` for a transient failure, `AdoptFault` for a failed retire.

**Reader.** `SeatList` and `SeatAck` are one transaction each; `DeliveryQueue` has
the rest of them. Both modules implement `MessageLifecycle`, here over the two tables.

**Abstractions.** A payload is a model value and its hash itself. Adoption reads the
rows when it scans and uses the copy; nothing else changes a pending row here. Inbox
ids are one above the last row. Sends that join a barrier are in `CallbackBarrier`;
supersede keys, park-warm sends, the rewrite of a late callback and the ledger row are
left out.

## 5. `GateQuestions` and `GateRounds`: how they correspond to the code

**`GateQuestions`.** `question` is `round_question`, with its answer and its delivery
intent as columns; `dispatch` the state of `gate_dispatch`; `run` the owner and epoch of
`gate_run`; `claims` the keys of `ownership_transfer`. Each command is one `BEGIN
IMMEDIATE` transaction, hence one action: `RecordDispatch` and `EnsureDispatch`, `Ask`,
`Answer`, `escalate_question`, `sweep_expired`, `mark_answer_consumed`,
`claim_ownership`. The service reads its clock before it waits for the lock, so `Ask`,
`Answer`, the escalation and the sweep work with an instant up to `LOCK_WAIT` old.
`RecordDispatch` upserts whatever state its caller holds, of all six, as the code does:
over a suspension, over a finished lane, and AWAITING_ANSWER where no question was
asked; the history variable `byHand` keeps apart the suspensions that were recorded so.
`answeredBy` is history too, the conversation that called (the column `answered_by` is a
field the caller fills in). A retry with a known client key answers from the row and
changes nothing. The expiry notices go out after the commit, one at a time (`Notify`,
which may fail), and `Crash` loses the rest. `QuestionLifecycle` is the abstract
question: unasked, open, answered or expired, received.

**`GateRounds`.** A command reads its rows and checks them, and then writes in one or two
transactions that repeat the checks and compare `row_version`. Each read (`EndRunRead`,
`OpenRoundRead`, `OpenRoundCount`, `FreezeRead`, `BeginRead`, `SettleRead`) and each
transaction (`open_run`, `transition_run`, `open_round`, `freeze_review_snapshot`,
`set_round_report`, `transition_round`) is an action of one of several callers, since
each CLI call is a process; a caller may die between two of its own (`Crash`). A
refused command ends (`Refused`). `claim_ownership` matters here because it rewrites
the run row under a command's feet. `verdict` is history: the report the call brought
whose write settled the round.

**Not modelled of the gate.** Effects, findings and dispositions, consumer coverage and
`project_round`, which write or read rows of their own; `accept_round`, which writes
nothing; `question_notice_intent`, which nothing reads. No command abandons a round, so
`ABANDONED` is a state no round reaches. Nothing in the package calls
`sweep_expired` or `consume_answer` on a schedule yet, so no liveness is claimed.

## 6. `CallbackBarrier`: how it corresponds to the code

**Variables.** `owner` and `worker` are the terminals (and the mailbox) with their
generations; `barrier`, `member` and `row` the three tables; `digest` and `fires` what
the combined messages quoted and how many went out; `dispatch`, `arrival`, `cancel`
and `reap` what a dispatch, a callback, a cancel and the reap of the owner's terminal have
read before their first write.

**Grain.** The engine is the default pysqlite one: a transaction begins at its first
write, and the reads before it run on their own. So `DispatchRead`, `CallbackRead` and
`CancelRead` are steps, and `DispatchRearm`, `DispatchInsert`, `DispatchCreate`, the
insertion of the callback and the cancel are later ones, which act on what was read.
The reap of the owner is three: `ReapRead` selects the HELD rows and the ancestor,
`ReapReadBarriers` the owned barriers, unless rows that go to the ancestor were flushed
before, which begins the transaction (the session does not flush by itself), and
`OwnerReaped` writes rows and barriers by id, whatever has become of them; `ReapEnds` is
its rollback.
What a transaction calls is part of the action: a callback that completes its barrier
fires it (`fire_open_barrier`), or closes it when its owner is gone
(`close_barrier_owner_gone`). `fire_due_barriers` is one barrier's savepoint of the
daemon's sweep; `insert_barrier_escalation_message`, `mark_barrier_member_gone`,
`delete_terminal_and_warm_intent` (a worker's reap), `crash_detach_terminal`,
`settle_terminal_rebound` and the owner's crash, rebind and boot repair are one transaction
each: a rebind is `BEGIN IMMEDIATE`, the daemon's savepoint opens its transaction, a
worker's reap writes the mailbox row before it reads a member, and the rows a crash reads
ahead are PENDING ones, which no barrier quotes.

**Abstractions.** A deadline is at most a day ahead, so any sweep may find it passed. One
owner; the reads of an escalation are taken with its transaction. Left out: the rebind of a bare owner terminal, supersede keys, alerts and
failure classes, positions, the duplicate window, the truncation of a long digest, and
the obligations and replay queue of released rows.

## 7. `ScriptResume`: how it corresponds to the code

**Variables.** `run` and `step` are the journal's rows. `active` is the run's mark in
`_active_drives`, `registry` whose record `run_registry` holds, `record` the
`ScriptRunRecord` of each resume, and `resume`, `cancel` and `call` the local variables of
`resume_script_run`, `cancel_script_run` and the run-step handlers. `leaked` is history:
the steps whose consent outlived its drive because the revoke failed or the server died.

**Grain.** The server is one event loop, so what lies between two awaits is one step, and
a journal call in a thread is a step of its own. A resume is `Gate1` (reads the row),
`Gate2` (claims the run), `Gate5` (consent left behind), `ReadPriors` and `Apply` (the
two halves of `apply_decisions`), `Register`, `Reopen`, `Spawn`, the script's end
(`ScriptEnds`, `Timeout`), `ReadExit`, `Finalize`, `JournalEnd`, `Return`; `ResumeFails` is
an exception at any of these up to the spawn, the write of the snapshot file after the row
was re-opened included. Every way out runs `Finally`, which revokes what was not
consumed and releases the claim. A cancel is `CancelBegin`, `CancelKill`, `CancelMark`,
`CancelWrite`, or `CancelRemnant` when no record exists. A run-step call is `Admit`,
`Decide` (the replay gate, `decide`), `Begin` (the RUNNING row), `Settle`, or one of its
error arms, `SettleFailed` and `Unsettled`. `Crash` forgets all but the journal.

**Abstractions.** Which decisions a request carries is chosen at gate 2, their first use. A
handler outlives its drive. The generation that fences the calls of a script being
stopped is left out: any call of a live script may be admitted, which only adds
behaviours. The record a `Register` replaces is kept only by a cancel working on it.
Left out: the first run and its asynchronous submission, the YAML tier, the outcome of
plan approval (a refusal is `ResumeFails`), the cancellation of a resume's own task, a
status read that rebuilds a remnant into the registry, eviction of records, the event
log, retention, and the in-memory mirror of the step states.

## 8. Runs

| run | configuration | checks |
|---|---|---|
| `seat_drain` | two callbacks to a seat, list and ack between the tick's transactions | `OneOpenEpoch`, `WakesWithinLeases`, `AckSettlesOnlyShown`, `ClosedEpochFrozen` |
| `worker_delivery` | a steer through every injector outcome, with its notice, no faults | `HoldClockHonest`, `DeathsAnnounced`, `LeasedRowsCovered`, `NoResubmission` |
| `liveness` | a message of any kind and its notice, one crash or error anywhere, fair tick and clock, silent seat allowed | `BoundedLife`, `QuarantineHolds`, `RefinesLifecycle`, `EveryMessageEnds`, `FinishedEpochsClose` |
| `sends` | a callback, its repeat and another, lost write locks, running clock, a seat listing and acking | `RepeatSuppressed`, `LiveAckOnlyListed`, `RefinesLifecycle` (over both tables) |
| `adoption` | three sends (one rejected by the store), two legacy rows (one without receiver), scan window of one, one lost lock, two faults | `AnsweredIsCarried`, `CarriedOnce`, `RetiredIsCarried`, `EveryOrphanAdopted` |
| `gate_questions` | two questions of one lane, states recorded by hand over them, two conversations, one claim, a lagging clock, a crash of a sweep | `SuspensionHasRelease`, `OneOpenQuestion`, `AnsweredByOwner`, `OneAnomaly`, `FinishedStaysFinished`, `ImplementsLifecycle` |
| `gate_rounds` | two callers on one run with one allowed round, two snapshots, two reports | `VerdictHasItsReport`, `RoundsBounded`, `ReviewedRowsKeep`, `RunEndsOnce` |
| `callback_barriers` | two workers, two barriers under one label, one upheaval | `OneCombinedMessage`, `DigestedIsQuoted`, `CompletedIsClosed` |
| `barrier_liveness` | two dispatchers racing to open a barrier, one worker, one upheaval, fair daemon | `OneOpenBarrier`, `EveryBarrierCloses` |
| `script_resume` | one manual step, two fingerprints, two resumes, one handler, one crash | `ClaimHasOneHolder`, `NoStandingConsent`, `ConsentEndsWithDrive`, `CancelIsKept`, `RecordedRunsWithLeave` |

All pass. `sends` has no store error: a failed lookup fails open by design, and a
repeat then gets through. `LiveAckOnlyListed` speaks of the rows that sends put into
the queue; of adopted rows it fails (below). In `adoption` the sends that share no lock
differ in payload or are refused: with equal payloads `AnsweredIsCarried` fails
(`find_lost_send`). Two runs state what a comment says and are violated by what the code
does:

| run | what the repository says | what happens |
|---|---|---|
| `find_lost_send` | the handle is "allocated inside the caller's transaction, which is the single writer" (`queue.py:1018`) | two senders without a common lock read the same handle; the second, with the same text for another receiver, is answered with the first one's row and carried nowhere |
| `find_stranded_callback` | a HELD row "becomes PENDING when its barrier completes, and the tick after that adopts it" (`clients/database.py:11215`) | a callback that read its barrier as OPEN is inserted HELD after the daemon has fired it, and no step releases it |

**Names ending in an underscore and a word** (`claim_FromBackoff`) are slips, in every
module: what a plausible mistake in that operation would be. They are not part of
`Next`. Each property is shown to fail when one of them takes the operation's place.

### 8.1 Differences no run is kept for

Delivery:

* A service row that dies of `max_attempts` gets neither finding nor notice
  (`queue.py:349`: "no row reaches `delivery_dead` silently").
* The tick may extend an epoch between the ack's read and its close, so that the epoch
  is consumed over an owed id (`queue.py:952`). The next tick opens another epoch for it,
  so the message is not lost: `EveryMessageEnds`.
* A seat's ack may close the epoch that the tick has found and not yet extended; the
  extension of a closed epoch does nothing, `_epoch_for` then returns the epoch as it was
  read (`tick.py:366`), and the claimed row stays leased and on no open epoch until the
  next pass (`queue.py:914`: an epoch must not "under-report what the receiver is owed").
  `LeasedRowsCovered` is therefore stated of workers, which do not ack.
* A crash between injection and `record_attempt` loses the outcome, and the id is
  submitted again (`queue_carrier.py:665` says the quarantine holds through any path).
* A send that fell back gets an inbox id below surrogates already listed, is adopted
  under it, and is settled by the ack of a list that did not carry it (`queue.py:1017`).
* `create_inbox_message`, addressed to the terminal of a seat, files the row under the
  seat's mailbox without the mailbox's authority lock (`clients/database.py:10994`), as the
  attention notices of `services/status_monitor.py` do. Beside a logical send of an
  operator, which does not hold the watchdog's lock, one of the two may appear under a
  handle that the seat has been given as its cursor, and be settled unlisted.
* The comment at `core/delivery.py:280` says of an uncertain submission that "the store has
  no per-row quarantine state" and that its row is left "to be re-offered by `reclaim` when
  its lease expires". The code has moved on: `reclaim` (`queue.py:374`) puts such a row off
  to its deadline, and `QuarantineHolds` and `NoResubmission` say that it is not offered
  before that. The properties follow the code; the comment is stale.
* An error between `record_attempt` and `mark_dialog_hold` leaves the hold clock of a
  recovered row running (`tick.py:391`).
* A row leased just before `dead_by` outlives it until its lease expires
  (`core/delivery.py:150`); `BoundedLife` is what holds.
* `expire_after_s = 0` is ignored by the deadline and still reported as `expired`
  (`queue.py:1265`).

Gate:

* The receipt of an answer may wake a dispatch that has another question open
  (`adapters/store/gate.py:917`: it reads as awaiting "for exactly as long as somebody is
  actually waiting").
* `record_dispatch` may write AWAITING_ANSWER where no question was asked
  (`adapters/store/gate.py:311` has no check; `test/app/gate/test_service.py:116` does so).
  Nobody is waiting then, no answer and no expiry releases the dispatch, and an ask made
  over it restores it when it settles: the run reads as awaiting until somebody records
  another state, against the same comment at line 917. `SuspensionHasRelease` is therefore
  stated of the suspensions that an ask made.
* In the same way `record_dispatch` may take a finished lane back to any state;
  `FinishedStaysFinished` says that no question does.
* A claim may lower the epoch of a question that names a higher one than its run
  (`core/gate.py:726`).
* Callers that count together exceed `max_rounds` by the number of callers less one
  (`app/gate/service.py:113`); `RoundsBounded` is what holds.

Barriers:

* A HELD row becomes DIGESTED, not PENDING, when its barrier completes.
* With the queue on, a member that answered through it is quoted as
  `[MISSING: no callback before barrier close]` (`clients/database.py:9821`).
* The reap of an owner's terminal selects its HELD callbacks (`clients/database.py:8060`)
  before its first write and updates them by id without looking at the status. A barrier
  that fires in between has quoted them in its combined message, and the reap then
  releases the same callbacks to the ancestor, or cancels them as never delivered. The
  combined message is addressed to the terminal that is going, so the ancestor may be the
  only reader. `DigestedIsQuoted` admits this for callbacks to a terminal that has gone and
  for nothing else: the exact form, that a quoted callback is DIGESTED, is violated in three
  steps (`ReapRead`, `fire_due_barriers`, `OwnerReaped`).
* A cancel that read OPEN overwrites the state of a barrier that fired meanwhile.
* AWAITING members stay under barriers closed by the owner's reap or rebind, until the
  repair at boot.
* A quota escalation turns ARRIVED into FAILED, and the later callback of a FAILED member
  does not make it ARRIVED; a re-arm that races a callback in flight may fill the member
  of another incarnation.

Scripts:

* A run submitted asynchronously can be resumed before its task starts, and then two
  drives run (`script_runner.py:1275` takes the mark without looking).
* A handler of a cancelled or timed-out drive may still be executing a decided step when
  the next drive decides it (`docs/workflows.md:301`: "exactly ONE attempt").
* A script that survives its server runs its remaining steps unjournaled until a resume.
* A skip on a `running` row whose old result survived replays the old result.
* The row that gate 1 read is stale at gate 3: a run that has just completed may be
  resumed, with its generation used again.
* A snapshot file that cannot be written (`script_runner.py:1481`) leaves the re-opened row
  RUNNING, with a registered record and no drive, until a cancel or another resume.
* A slow cancel writes CANCELLED over a run resumed meanwhile; a cancel of a remnant while
  a resume is before its registration reports success and the run goes on; a cancel
  between registration and spawn does not stop the script.
* The prior state read by `apply_decisions` is stale at its write, so a revoke may restore
  `completed` over a result that failed meanwhile.
* An error of the replay gate's own read settles as failed a step that never ran.
* A decision for a step whose consent leaked has an authorised state as its prior, so
  the revoke never takes it back; the comment at `workflow_journal.py:821` says that no
  shipped path reaches this.

### 8.2 Bounds

The bounds without a counterpart in the code are named as such where they are
declared: `LAST_SEND`, `MAX_TIME`, `MAX_LAG`, `MAX_FAULTS`, `MAX_BUSY`, `MAX_CRASHES`,
`MAX_GEN`, `MAX_CHANGES`, `MAX_CLAIMS`, `MAX_VERSION`.

* Delivery. Durations are the smallest that keep `TimingOK` and make lease, back-off,
  ceiling and lifetime fall at different instants; `MAX_TIME` is past the last possible
  death of a message and, in `liveness`, of its notice. `MAX_LAG` (how late a tick may
  be) is at least a lease, so a lease may expire unseen. Two messages suffice for an
  epoch to be extended, for a page or a claim to be cut short, and for an ack to cover
  one row and not the other; one is enough for what concerns one row's clocks, with its
  notice as the second row. One fault reaches every interruption point.
* Sends. Three sends are an original, its repeat and one in between; two legacy rows with
  a window of one make one stand in front of the other; `MAX_TIME` is past twice the
  window, and two faults interrupt the recovery of the first.
* Gate. Two questions of one lane make a second ask fall between the answer and the
  receipt of the first; of the states that may be recorded one is live, one finished and
  one AWAITING_ANSWER, and no guard tells the others of a kind apart; a window of one instant and a clock that lags by one make an
  answer, an expiry and an escalation meet. Two callers with one allowed round make both
  pass the count; `MAX_VERSION` admits a full life of a round and a repeated settle.
* Barriers. Two barriers under one label let one close and the next open under readers of
  the first; one upheaval at a time is what the code's repair paths answer. A reap counts
  from its read, so within the run it races callbacks, dispatches, cancels and the daemon;
  a second upheaval under a reap (a rebind between its read and its write) is covered by
  the proof.
* Scripts. One step, since steps share no row; two fingerprints make a divergence; two
  resumes are a drive and its successor, or two that race; one handler can outlive the
  first and act in the second; one crash makes one leak. Symmetry on resumes and
  fingerprints is sound: the run checks no liveness and no property names one of them.

Everything proved below holds with none of these bounds.

### 8.3 Fairness

* `WF(TickStep)`: `DeliveryTick._run` (`tick.py:173`) catches every exception and starts
  the next pass, and after a restart the server starts the task again.
* `WF(AdoptStep)`: each pass of the tick runs adoption, and `adopt` catches what it raises.
* `WF(Advance)`: time passes.
* `WF(fire_due_barriers(b))` for each barrier: `callback_barrier_daemon`
  (`api/main.py:310`) loops and catches everything, every barrier is in a savepoint of its
  own, and deadlines are at most a day ahead.

Nothing is assumed of senders, seats, carriers, completions, dispatchers, workers or
owners. `MAX_FAULTS` means that faults stop eventually. No fairness and no liveness is
stated for the gate and for scripts: nothing schedules the gate's sweep, and a script
may run as long as its bound.

Deadlock checking is off: a system whose messages have all ended, whose clock has reached
its bound, whose barriers are closed or whose requests are answered has nothing to do.

## 9. Proofs

Each invariant below is proved for any sets, any number of actors and any bounds, from
the named assumptions on the constants alone.

`DeliveryQueueProofs`, from `ConstantsOK` and `TimingOK`: `TypeCorrect`, `Safety`,
`LifeIsBounded`, `QuarantineIsKept`, `SingleOpenEpoch`; the action properties
`DeadlineNeverMoves` and `ClosedEpochsAreFinal`; and `ImplementsLifecycle`, that
`DeliveryQueue` implements `MessageLifecycle`. The inductive invariant is `SafetyInv`:

* `TypeOK` needs `ServesReceiver` (the receiver being served is one, so its digest
  exists).
* `BoundedLife` is not inductive: after reclaim a row may survive its deadline only
  because it is leased, so the invariant records that a lease ends within one lease
  of the deadline (`LeaseNearDeadline`) and that `stamp <= now`. A new row has a
  deadline after `now` (`FreshDeadline`, from the positivity of the durations), and
  a claim is made before the deadline.
* `QuarantineHolds` needs `SnapshotFenced`: the rows the tick works from are still
  leased under the claim it took, or have ended; otherwise `RecordAttempt` could
  write `submission_uncertain` on a row that is being offered again.
* `OneOpenEpoch` follows because only the tick builds epochs, and only when it sees
  none open; a seat only closes.

The type proof has one step per action (`NextType`); the safety proofs first reduce
`Next` to the actions that write the variables a conjunct speaks of (`RowWriters`,
`ClockWriters`, `AttemptWriters`, `EpochWriters`) and then take one step per writer.
`LifecycleStep` maps each writer of `msg` to `Accept`, `End` or a stutter.

`DeliveryTickProofs`, from the same and `IdsOK` (a notice is no ordinary message, and the
messages are finitely many, without which wakes cannot be counted), is about what the
tick holds between its transactions. `TickKeepsItsBooks` proves `TickInv`: each phase of
the tick holds only what it works on (`TickShape`), claims and releases alternate in
`claim_id` (`ClaimParity`), no attempt is recorded under the claim of a row that waits for
its record (`AttemptFresh`), and the claimed rows, their hold clocks and the outcome in
hand are those of the tables (`SnapshotHonest`). From it:

* `AtMostOneWakePerLease`: `WakesWithinLeases` compares two cardinalities, of the numbered
  wakes and of the numbered leases of a receiver. It is not inductive, since the claim and
  the wake are different transactions: `WakeCredit` says that between them the receiver
  has a lease to spare (`SpareLease`). A wake takes the spare one, a claim that finds
  something brings one, and no fault gives one back. The lemmas count: a larger
  `claim_id` or an appended epoch adds pairs, and everything else leaves the sets alone.
* `AcksSettleOnlyShown`: `ListedShown` adds that whatever a seat was not shown lies above
  its cursor, and that handles of rows to come lie above every handle in use. It holds
  over all faults.
* `HoldClocksAreHonest`, `EveryDeathIsAnnounced`, `LeasedRowsAreCovered` and
  `NeverResubmitted`: these hold until the first error or crash, and the theorems say so
  (`faults = 0 => ...`); 8.1 and the hazards say what a fault does to each. They share one
  induction, `SoundUntilFault` (`UntilFault`), relative to `WorkInProgress`: the deaths in
  hand are deaths, the one whose notice is next has its finding (`DeathsInProgress`), and a
  worker's claimed rows are among the owed ones, then on the open epoch
  (`ClaimedCovered`). `UncertainTracked` says where an unconfirmed outcome is until it is
  recorded; with `QuarantineHolds` it gives the action property `NoResubmission`.

`WriteThroughProofs`, from `SendsOK`: `CarriageTyping`, `Carriage` (the inductive
invariant `CarriageInv`), `NeverCarriedTwice` and `RetiredNeverLost`. `CarriedOnce` is not
inductive: that adoption's insert finds no other row of the same send needs that ids,
keys and sends identify rows (`RowsIdentified`), and that a send's own insert is the
first needs that a call in progress has written nothing (`WritesOnce`).
`RetiredIsCarried` needs that the item up for retirement has been enqueued
(`WritesOnce`) and that an adopted row stems from the inbox row its key names
(`AdoptedStems`). Five actions write a row and have a lemma each; every other step is
`Harmless`.

`SendProofs`, also from `SendsOK`, is about sends that overlap. `SendsAreFenced` proves
`FenceInv`: a send in flight holds its locks and no two share one (`GuardHeld`), a live
key is made of its row's handle (`LiveKeys`), and a handle that was taken and not yet used
may be in use by then, but by no send that shares a lock (`HandlesOwned`). So what a send
read in an earlier transaction is still true of the rows that such sends write
(`Fence`). Each of the three properties then rests on a lock that a pair of sends has in
common, and states it as a hypothesis where the code does not enforce it:

* `AnsweredNeverLost` assumes `TextsFenced`: two sends of one text that the queue may
  accept are one message or share a lock. The code does not see to this for notices of one
  text to two terminals. `find_lost_send` is an instance without it, where the property
  fails; `adoption` is one with it. Given it, faults of every kind are included.
* `AcksOnlyWhatWasListed` assumes `MailboxesFenced`: sends to one mailbox share a lock, as
  those through `create_logical_inbox_message` do, and those of terminals among
  themselves (8.1 has the pair that does not). The invariant
  `ListedInv` says that a handle in hand is above every row its reader has or may get from
  the inbox (`HandlesAhead`), and that the live rows up to a cursor were listed
  (`CursorListed`); all faults are included.
* `RepeatsAreSuppressed` needs no such hypothesis: repeatable sends hold the watchdog's
  lock (`SendsOK`). `WindowClear` keeps, while a send is in flight, what it saw of its
  twins in each table. It holds until the first fault, because a lookup that fails is
  skipped by design, and assumes `LegacyApart`: the rows older than the queue, which the
  model writes at one instant, hold no repeats among themselves.

The constants of both runs satisfy the three hypotheses.

`TablesImplementLifecycle` needs none of them: queue and inbox together implement
`MessageLifecycle`, the specification that the queue implements alone. The mapping
(`progress`) calls a message owed while a queue row of it is unsettled or only the inbox
has it, so a second row, from an adoption repeated after a crash, would make a delivered
message owed again; that there is none is `CarriageInv`. A send's insert into either table
is the abstract `Accept`, an adoption is a stutter, an ack is `End`. The run `sends` checks
it with lost locks and a reader; the proof includes errors and crashes.

`GateQuestionsProofs`, from `GateConstants`: `GateInvariant` (`GateInv`), from it
`QuestionTyping`, `SuspensionsAreReleased`, `SlotIsExclusive`, `OwnerAnswered` and
`AnomalyOnce`; the action property `FinishedDispatches`; and the refinement
`QuestionRefinement`. `GateConstants` leaves `record_dispatch` every state a dispatch
may have. Beyond the properties, `GateInv` holds `Shape`: which columns of a question
hang together. With it a step that ends no outstanding question and opens none keeps
slot and suspension (`QuietStep`), and the ask, the answer, the sweep, the receipt and
the recorded dispatch have a lemma each. That a release never makes a suspension of its
own is why `byHand` and the outstanding questions account for them all: it restores
AWAITING_ANSWER only over AWAITING_ANSWER.

`GateRoundsProofs`, from `RoundConstants`: `RoundInvariant` (`RoundInv`), from it
`RoundTyping`, `VerdictReport`, `VerdictSnapshot`, `RoundNumbering` and `RoundLimit`; and the
action properties `ReviewedRows` and `RunEnding`. The argument is the row version: what a
command knows of its row (`Commands`) is conditional on the version it read being still
the row's, every write raises the version, so a write that finds it equal finds the row
as it was read. `RoundsBounded` needs `Places`: a caller past the count holds a place for
its insert, and at most all callers but one can have counted too low.

`CallbackBarrierProofs`, from `BarrierConstants`: `BarrierInvariant` (`BarrierInv`), from it
`BarrierTyping`, `CombinedOnce`, `DigestExact`, `CompletionCloses` and `OneOpenPerLabel`. The
strengthening says that what was read still exists (`DispatchReadExists`,
`ArrivalReadExists`, `CancelReadExists`, `RowsHaveMembers`: rows are never deleted), that
the rows a reap read were addressed to the terminal it reaps, and are under no OPEN barrier
once that terminal has been replaced (`ReapReadExists`), that no row is addressed to a
generation to come (`NoLaterRow`), which together confine the exception of
`DigestedIsQuoted` to terminals that have gone, that
what an OPEN barrier can quote is HELD (`OpenRowsHeld`, without which firing could quote a
row released already), that no barrier is of a generation to come (`NoLaterBarrier`), and
that a barrier not created has sent nothing (`AbsentUnfired`). Firing is inlined into
three actions and proved once, for whatever tables the transaction has built.

`ScriptResumeProofs`, from `ConstantsOK`: `ResumeInvariant` (`ResumeInv`), from it
`ResumeTypes`, `OneDriver`, `ConsentIsFresh`, `ConsentIsRevoked` and `CancelPrevails`; and the
action property `RecordedStepsNeedLeave`. `ConsentEndsWithDrive` is not inductive:
`ConsentCovered` says that each consent in the journal is leaked or will be taken back by
the one resume that holds the claim, and `GrantsKnown` that the prior state that resume
would restore is no live consent itself. `CancelIsKept` needs to know which codes a drive
that is ending may carry (`EndingCode`) and that a resume that has registered its record
still has it (`Registered`).

Only model-checked: liveness, which with ENABLED is outside the prover's reach
(`EveryMessageEnds`, `FinishedEpochsClose`, `EveryOrphanAdopted`, `EveryBarrierCloses`),
and the two violations of section 8. The type invariants, the inductive invariants,
`DeadlineFixed`, `VerdictHasSnapshot` and `RoundsNumbered` are proved, and no run repeats
them.

## 10. Not modelled

The modules cover the protocols of section 1.1; most of the repository's lines are
providers that read the screens of third-party programs, transport (HTTP, CLI, MCP),
terminal and process control, memory documents and the web interface, which have no
protocol that a model could check. The parts of section 1.2 with a protocol of their own
are in the plan (items 6 to 9). Retention is left out: nothing schedules the queue's
`prune`, and `services/workflow_retention.py`, which deletes whole runs by age and number,
comes with the first run of a workflow (item 6).
