--------------------------- MODULE CallbackBarrier ---------------------------
(***************************************************************************)
(* Callback barriers (clients/database.py, WPQ7): a supervisor dispatches  *)
(* several workers under one label, their callbacks are HELD, and when the *)
(* last member has answered, or the deadline has passed, the barrier fires *)
(* one combined message to its owner.                                      *)
(*                                                                         *)
(* The engine is the default pysqlite one, which begins a transaction at   *)
(* its first write: the reads before that write run on their own.  A       *)
(* dispatch, a callback, a cancel and the reap of the owner are therefore  *)
(* read steps and a write step, with every other process free to commit in *)
(* between.  A write step is one transaction.                              *)
(*                                                                         *)
(* There is one owner, a bare terminal or a supervisor mailbox.            *)
(***************************************************************************)
EXTENDS Integers

CONSTANTS
    Dispatchers,  \* threads that dispatch for the owner (MCP send, API assign)
    Workers,      \* terminals
    Barriers,     \* callback_barrier ids, given out in order
    Labels,
    Keys,         \* member keys
    Callbacks,    \* worker messages to the owner
    None,
    MAX_GEN,      \* bound: generations of the owner and of a worker
    MAX_CHANGES   \* bound: upheavals (a cancel, an escalation, a terminal that
                  \* goes or is rebound) in one behaviour

ASSUME BarrierConstants ==
    /\ Barriers \subseteq Nat
    /\ MAX_GEN \in Nat \ {0}
    /\ MAX_CHANGES \in Nat
    /\ None \notin Workers \cup Barriers \cup Labels \cup Keys \cup Callbacks

VARIABLES
    owner,     \* the owner's kind, generation, and whether it has a terminal
    worker,    \* terminals rows of the workers
    barrier,   \* callback_barrier
    member,    \* callback_barrier_member
    row,       \* the callbacks' inbox rows
    digest,    \* the callbacks whose text the combined message of a barrier has
    fires,     \* combined messages sent by a barrier
    dispatch,  \* what each dispatcher has read
    arrival,   \* what the callback being inserted has read
    cancel,    \* the barrier a cancel has read as OPEN
    reap,      \* what the reap of the owner's terminal has read
    changes    \* upheavals so far

store == <<owner, worker, barrier, member, row, digest, fires>>

vars == <<owner, worker, barrier, member, row, digest, fires, dispatch, arrival,
          cancel, reap, changes>>

BarrierStates == {"ABSENT", "OPEN", "FIRED_COMPLETE", "FIRED_TIMEOUT",
                  "CANCELLED", "DIGESTED_REBIND"}

MemberStates == {"ABSENT", "AWAITING", "ARRIVED", "FAILED", "GONE"}

(* QUEUED is a callback the delivery queue took instead of the inbox, and  *)
(* REPARENTED one that was released to the ancestor of a reaped owner.     *)
RowStates == {"ABSENT", "HELD", "PENDING", "DIGESTED", "CANCELLED", "PARKED",
              "DELIVERY_FAILED", "REPARENTED", "QUEUED"}

NoBarrier == [state |-> "ABSENT", gen |-> 0, label |-> None]

NoMember == [state |-> "ABSENT", terminal |-> None, gen |-> 0]

NoRow == [status |-> "ABSENT", barrier |-> None, key |-> None, to |-> 0]

NoDispatch == [pc |-> "idle", worker |-> None, gen |-> 0, label |-> None,
               barrier |-> None, key |-> None]

NoArrival == [pc |-> "idle", callback |-> None, barrier |-> None, key |-> None,
              awaiting |-> FALSE, to |-> 0]

NoReap == [pc |-> "idle", gen |-> 0, ancestor |-> FALSE, rows |-> {},
           barriers |-> {}]

Init ==
    /\ owner \in [kind : {"terminal", "mailbox"}, gen : {1}, alive : {TRUE}]
    /\ worker = [w \in Workers |-> [alive |-> TRUE, gen |-> 1]]
    /\ barrier = [b \in Barriers |-> NoBarrier]
    /\ member = [b \in Barriers |-> [k \in Keys |-> NoMember]]
    /\ row = [m \in Callbacks |-> NoRow]
    /\ digest = [b \in Barriers |-> {}]
    /\ fires = [b \in Barriers |-> 0]
    /\ dispatch = [d \in Dispatchers |-> NoDispatch]
    /\ arrival = NoArrival
    /\ cancel = None
    /\ reap = NoReap
    /\ changes = 0

Upheaval == changes < MAX_CHANGES /\ changes' = changes + 1

-----------------------------------------------------------------------------
(* Firing.  The operators below take the member and row tables as the      *)
(* transaction has changed them so far, and commit them with the close.    *)

IsOpen(b) == barrier[b].state = "OPEN"

(* Every member has answered or is gone, and there is one. *)
Complete(mem, b) ==
    /\ \E k \in Keys : mem[b][k].state # "ABSENT"
    /\ \A k \in Keys : mem[b][k].state \in {"ABSENT", "ARRIVED", "GONE"}

(* Slip: the close is not a compare and set. *)
Won_Blind(S) == S

(* The barriers of S whose OPEN -> closed compare and set succeeds. *)
Won(S) == {b \in S : IsOpen(b)}

(* The inbox rows whose text the combined message quotes: those of every   *)
(* member, whatever their status.                                          *)
Rendered(mem, rows, b) ==
    {m \in Callbacks : /\ rows[m].barrier = b
                       /\ rows[m].status # "QUEUED"
                       /\ mem[b][rows[m].key].state # "ABSENT"}

(* AWAITING members end as FAILED with their barrier. *)
Terminalized(mem, S) ==
    [b \in Barriers |->
       [k \in Keys |-> IF b \in S /\ mem[b][k].state = "AWAITING"
                       THEN [mem[b][k] EXCEPT !.state = "FAILED"]
                       ELSE mem[b][k]]]

(* HELD rows of the barriers in S take the given status. *)
Settled(rows, S, status) ==
    [m \in Callbacks |-> IF rows[m].status = "HELD" /\ rows[m].barrier \in S
                         THEN [rows[m] EXCEPT !.status = status]
                         ELSE rows[m]]

Closed(S, state) ==
    [b \in Barriers |-> IF b \in S THEN [barrier[b] EXCEPT !.state = state]
                        ELSE barrier[b]]

(* Slip: a barrier whose owner is gone is skipped rather than closed. *)
close_barrier_owner_gone_Skips(S, mem, rows) ==
    /\ member' = mem
    /\ row' = rows
    /\ UNCHANGED <<barrier, digest, fires>>

(* An OPEN barrier whose owner is gone closes without a combined message. *)
close_barrier_owner_gone(S, mem, rows) ==
    /\ barrier' = Closed(Won(S), "CANCELLED")
    /\ member' = Terminalized(mem, Won(S))
    /\ row' = Settled(rows, Won(S), "CANCELLED")
    /\ UNCHANGED <<digest, fires>>

(* Fires the barriers of S that are still OPEN. *)
fire_open_barrier(S, state, mem, rows) ==
    IF owner.alive
    THEN LET failed == Terminalized(mem, Won(S))
         IN  /\ barrier' = Closed(Won(S), state)
             /\ member' = failed
             /\ row' = Settled(rows, Won(S), "DIGESTED")
             /\ digest' = [b \in Barriers |->
                             IF b \in Won(S) THEN Rendered(failed, rows, b)
                             ELSE digest[b]]
             /\ fires' = [b \in Barriers |->
                            IF b \in Won(S) THEN fires[b] + 1 ELSE fires[b]]
    ELSE close_barrier_owner_gone(S, mem, rows)

maybe_fire_completed_barrier(S, mem, rows) ==
    fire_open_barrier({b \in S : Complete(mem, b)}, "FIRED_COMPLETE", mem, rows)

-----------------------------------------------------------------------------
(* Dispatch: _attach_dispatch_barrier_in_db.                               *)

OpenFor(gen, label) ==
    {b \in Barriers : IsOpen(b) /\ barrier[b].gen = gen /\ barrier[b].label = label}

(* A dispatch re-arms a FAILED member or adds a new one.  Without a key it *)
(* takes the FAILED member, if there is one, or a key not in use, so it    *)
(* does what it would have done had it asked for that key; with several    *)
(* FAILED members it is refused.                                           *)
AttachKey(b, key) == member[b][key].state \in {"ABSENT", "FAILED"}

(* The unique binding of the member table: one member per incarnation. *)
BindingFree(b, key, w, gen) ==
    \A k \in Keys \ {key} :
       ~ /\ member[b][k].state # "ABSENT"
         /\ member[b][k].terminal = w
         /\ member[b][k].gen = gen

Armed(w, gen) == [state |-> "AWAITING", terminal |-> w, gen |-> gen]

(* What a dispatcher still has to write. *)
Reading(pc, w, gen, label, b, key) ==
    [pc |-> pc, worker |-> w, gen |-> gen, label |-> label, barrier |-> b,
     key |-> key]

(* The owner, its open barrier, the worker and the members are read. *)
DispatchRead(d) ==
    /\ dispatch[d].pc = "idle"
    /\ owner.alive
    /\ \E w \in Workers, label \in Labels, key \in Keys :
          \/ /\ OpenFor(owner.gen, label) = {}
             /\ dispatch' = [dispatch EXCEPT ![d] =
                   Reading("create", w, owner.gen, label, None, key)]
          \/ /\ worker[w].alive
             /\ \E b \in OpenFor(owner.gen, label) :
                   /\ AttachKey(b, key)
                   /\ dispatch' = [dispatch EXCEPT ![d] =
                         Reading(IF member[b][key].state = "FAILED" THEN "rearm"
                                 ELSE "insert",
                                 w, worker[w].gen, label, b, key)]
    /\ UNCHANGED <<store, arrival, cancel, reap, changes>>

(* A FAILED member is bound to the worker, whatever has become of it since. *)
DispatchRearm(d) ==
    LET c == dispatch[d]
    IN  /\ c.pc = "rearm"
        /\ BindingFree(c.barrier, c.key, c.worker, c.gen)
        /\ member' = [member EXCEPT ![c.barrier][c.key] = Armed(c.worker, c.gen)]
        /\ dispatch' = [dispatch EXCEPT ![d] = NoDispatch]
        /\ UNCHANGED <<owner, worker, barrier, row, digest, fires, arrival,
                       cancel, reap, changes>>

(* A new member, which the unique keys refuse when they are taken by now. *)
DispatchInsert(d) ==
    LET c == dispatch[d]
    IN  /\ c.pc = "insert"
        /\ member[c.barrier][c.key].state = "ABSENT"
        /\ BindingFree(c.barrier, c.key, c.worker, c.gen)
        /\ member' = [member EXCEPT ![c.barrier][c.key] = Armed(c.worker, c.gen)]
        /\ dispatch' = [dispatch EXCEPT ![d] = NoDispatch]
        /\ UNCHANGED <<owner, worker, barrier, row, digest, fires, arrival,
                       cancel, reap, changes>>

NextIds == {b \in Barriers : /\ barrier[b].state = "ABSENT"
                             /\ \A c \in Barriers : c < b => barrier[c].state # "ABSENT"}

(* Slip: the insert does not stop at the unique index of OPEN barriers. *)
BarrierFor_NoIndex(gen, label) == NextIds

(* The OPEN barrier the unique index keeps, or the one just inserted. *)
BarrierFor(gen, label) ==
    IF OpenFor(gen, label) # {} THEN OpenFor(gen, label) ELSE NextIds

(* No OPEN barrier was read: one is inserted unless a rival has done so,   *)
(* and its member is attached in the same transaction.                     *)
DispatchCreate(d) ==
    LET c == dispatch[d]
    IN  /\ c.pc = "create"
        /\ worker[c.worker].alive
        /\ \E b \in BarrierFor(c.gen, c.label) :
              /\ AttachKey(b, c.key)
              /\ BindingFree(b, c.key, c.worker, worker[c.worker].gen)
              /\ barrier' = [barrier EXCEPT ![b] =
                    IF IsOpen(b) THEN barrier[b]
                    ELSE [state |-> "OPEN", gen |-> c.gen, label |-> c.label]]
              /\ member' = [member EXCEPT ![b][c.key] =
                    Armed(c.worker, worker[c.worker].gen)]
        /\ dispatch' = [dispatch EXCEPT ![d] = NoDispatch]
        /\ UNCHANGED <<owner, worker, row, digest, fires, arrival, cancel, reap,
                       changes>>

(* A refused or interrupted dispatch rolls back. *)
DispatchEnds(d) ==
    /\ dispatch[d].pc # "idle"
    /\ dispatch' = [dispatch EXCEPT ![d] = NoDispatch]
    /\ UNCHANGED <<store, arrival, cancel, reap, changes>>

-----------------------------------------------------------------------------
(* Callbacks: _insert_routed_inbox_row for a worker's message.             *)

(* The members that the incarnation of w now running may answer for. *)
MembersOf(w) ==
    {p \in Barriers \X Keys :
        /\ IsOpen(p[1])
        /\ member[p[1]][p[2]].state # "ABSENT"
        /\ member[p[1]][p[2]].terminal = w
        /\ member[p[1]][p[2]].gen = worker[w].gen}

(* The newest open barrier decides. *)
barrier_member_for_callback(w) ==
    {p \in MembersOf(w) : \A q \in MembersOf(w) : q[1] <= p[1]}

(* The worker's row and the barrier it belongs to are read. *)
CallbackRead(m, w) ==
    /\ arrival.pc = "idle"
    /\ row[m].status = "ABSENT"
    /\ worker[w].alive
    /\ owner.alive \/ owner.kind = "mailbox"
    /\ \/ /\ barrier_member_for_callback(w) = {}
          /\ arrival' = [NoArrival EXCEPT !.pc = "plain", !.callback = m,
                                          !.to = owner.gen]
       \/ \E p \in barrier_member_for_callback(w) :
             arrival' = [pc |-> "match", callback |-> m, barrier |-> p[1],
                         key |-> p[2],
                         awaiting |-> member[p[1]][p[2]].state = "AWAITING",
                         to |-> owner.gen]
    /\ UNCHANGED <<store, dispatch, cancel, reap, changes>>

(* The member answers if it was AWAITING when it was read. *)
Arrived(a) ==
    IF a.awaiting
    THEN [member EXCEPT ![a.barrier][a.key].state = "ARRIVED"]
    ELSE member

(* The delivery queue takes the callback in a transaction of its own. *)
CallbackQueue ==
    /\ arrival.pc = "match"
    /\ row' = [row EXCEPT ![arrival.callback] =
                 [status |-> "QUEUED", barrier |-> arrival.barrier,
                  key |-> arrival.key, to |-> arrival.to]]
    /\ arrival' = [arrival EXCEPT !.pc = "queued"]
    /\ UNCHANGED <<owner, worker, barrier, member, digest, fires, dispatch,
                   cancel, reap, changes>>

(* The barrier's part: the row is HELD unless the queue has it, the member *)
(* answers, and the barrier fires if that was the last one.                *)
CallbackMatch ==
    /\ arrival.pc \in {"match", "queued"}
    /\ maybe_fire_completed_barrier({arrival.barrier}, Arrived(arrival),
          IF arrival.pc = "queued" THEN row
          ELSE [row EXCEPT ![arrival.callback] =
                  [status |-> "HELD", barrier |-> arrival.barrier,
                   key |-> arrival.key, to |-> arrival.to]])
    /\ arrival' = NoArrival
    /\ UNCHANGED <<owner, worker, dispatch, cancel, reap, changes>>

(* Any other message, a late callback among them, is owed at once.  One to *)
(* a terminal that has gone meanwhile is refused.                          *)
CallbackPlain ==
    /\ arrival.pc = "plain"
    /\ owner.alive \/ owner.kind = "mailbox"
    /\ \E status \in {"PENDING", "QUEUED"} :
          row' = [row EXCEPT ![arrival.callback] =
                    [status |-> status, barrier |-> None, key |-> None,
                     to |-> arrival.to]]
    /\ arrival' = NoArrival
    /\ UNCHANGED <<owner, worker, barrier, member, digest, fires, dispatch,
                   cancel, reap, changes>>

-----------------------------------------------------------------------------
(* Cancelling, and the daemon.                                             *)

(* The owner selects one of its barriers and finds it OPEN. *)
CancelRead(b) ==
    /\ Upheaval
    /\ cancel = None
    /\ owner.alive
    /\ IsOpen(b)
    /\ barrier[b].gen = owner.gen
    /\ cancel' = b
    /\ UNCHANGED <<store, dispatch, arrival, reap>>

(* Slip: every row of the barrier is released, not just the HELD ones. *)
Released_All(b) ==
    [m \in Callbacks |-> IF row[m].barrier = b /\ row[m].status # "QUEUED"
                         THEN [row[m] EXCEPT !.status = "PENDING"]
                         ELSE row[m]]

Released(b) == Settled(row, {b}, "PENDING")

(* HELD callbacks are released and the barrier is CANCELLED, even if it    *)
(* has fired since it was read.                                            *)
cancel_callback_barrier ==
    /\ cancel # None
    /\ barrier' = Closed({cancel}, "CANCELLED")
    /\ member' = Terminalized(member, {cancel})
    /\ row' = Released(cancel)
    /\ cancel' = None
    /\ UNCHANGED <<owner, worker, digest, fires, dispatch, arrival, reap,
                   changes>>

CancelEnds ==
    /\ cancel # None
    /\ cancel' = None
    /\ UNCHANGED <<store, dispatch, arrival, reap, changes>>

(* One barrier of the daemon's sweep: completion outranks the timeout.  A  *)
(* deadline lies between one second and a day ahead, so the sweep that     *)
(* finds it passed may be any sweep.                                       *)
fire_due_barriers(b) ==
    /\ IsOpen(b)
    /\ fire_open_barrier({b}, IF Complete(member, b) THEN "FIRED_COMPLETE"
                              ELSE "FIRED_TIMEOUT", member, row)
    /\ UNCHANGED <<owner, worker, dispatch, arrival, cancel, reap, changes>>

-----------------------------------------------------------------------------
(* Workers.                                                                *)

(* The watchdog reports a member that is out of quota. *)
insert_barrier_escalation_message(w) ==
    /\ Upheaval
    /\ worker[w].alive
    /\ \E p \in barrier_member_for_callback(w) :
          member' = [member EXCEPT ![p[1]][p[2]].state = "FAILED"]
    /\ UNCHANGED <<owner, worker, barrier, row, digest, fires, dispatch,
                   arrival, cancel, reap>>

(* The members of OPEN barriers that w had not answered for are GONE. *)
MarkedGone(w) ==
    [b \in Barriers |->
       [k \in Keys |->
          IF /\ IsOpen(b)
             /\ member[b][k].terminal = w
             /\ member[b][k].state \in {"AWAITING", "FAILED"}
          THEN [member[b][k] EXCEPT !.state = "GONE"]
          ELSE member[b][k]]]

(* Slip: a member is marked GONE without asking whether it was the last. *)
mark_barrier_member_gone_NoFire(w) ==
    /\ member' = MarkedGone(w)
    /\ UNCHANGED <<barrier, row, digest, fires>>

mark_barrier_member_gone(w) ==
    maybe_fire_completed_barrier(
        {b \in Barriers : MarkedGone(w)[b] # member[b]}, MarkedGone(w), row)

(* A worker terminal is reaped. *)
delete_terminal_and_warm_intent(w) ==
    /\ Upheaval
    /\ worker[w].alive
    /\ mark_barrier_member_gone(w)
    /\ worker' = [worker EXCEPT ![w].alive = FALSE]
    /\ UNCHANGED <<owner, dispatch, arrival, cancel, reap>>

(* A crashed worker loses its row; its memberships stay as they are. *)
crash_detach_terminal(w) ==
    /\ Upheaval
    /\ worker[w].alive
    /\ worker' = [worker EXCEPT ![w].alive = FALSE]
    /\ UNCHANGED <<owner, barrier, member, row, digest, fires, dispatch,
                   arrival, cancel, reap>>

(* A rebound worker is a new incarnation. *)
settle_terminal_rebound(w) ==
    /\ Upheaval
    /\ worker[w].alive
    /\ worker[w].gen < MAX_GEN
    /\ worker' = [worker EXCEPT ![w].gen = @ + 1]
    /\ UNCHANGED <<owner, barrier, member, row, digest, fires, dispatch,
                   arrival, cancel, reap>>

-----------------------------------------------------------------------------
(* The owner.                                                              *)

(* The barriers a bare terminal owns; a mailbox's are not its terminal's. *)
OwnedOpen == {b \in Barriers : IsOpen(b) /\ owner.kind = "terminal"}

(* The owner's terminal is reaped.  Its HELD callbacks, and whether it has *)
(* a surviving ancestor, are read before anything is written.              *)
ReapRead ==
    /\ Upheaval
    /\ reap.pc = "idle"
    /\ owner.alive
    /\ \E ancestor \in BOOLEAN :
          reap' = [pc |-> "rows", gen |-> owner.gen, ancestor |-> ancestor,
                   rows |-> {m \in Callbacks : row[m].status = "HELD"
                                              /\ row[m].to = owner.gen},
                   barriers |-> {}]
    /\ UNCHANGED <<store, dispatch, arrival, cancel>>

(* Rows that go to the ancestor are flushed, which begins the transaction, *)
(* before the barriers are read.                                           *)
ReapFlushes == reap.ancestor /\ reap.rows # {}

(* Without that flush the barriers too are read ahead of the first write. *)
ReapReadBarriers ==
    /\ reap.pc = "rows"
    /\ ~ReapFlushes
    /\ reap' = [reap EXCEPT !.pc = "barriers", !.barriers = OwnedOpen]
    /\ UNCHANGED <<store, dispatch, arrival, cancel, changes>>

(* The callbacks that were read as HELD go to the ancestor, or end without *)
(* one, whatever has become of them since: they are written by id.  So are *)
(* the barriers; only what they still hold is released.                    *)
OwnerReaped ==
    LET closing == IF ReapFlushes THEN OwnedOpen ELSE reap.barriers
        status == IF reap.ancestor THEN "REPARENTED" ELSE "CANCELLED"
    IN  /\ reap.pc = IF ReapFlushes THEN "rows" ELSE "barriers"
        /\ row' = [m \in Callbacks |->
                     IF m \in reap.rows THEN [row[m] EXCEPT !.status = status]
                     ELSE Settled(row, closing, "PENDING")[m]]
        /\ barrier' = Closed(closing, "CANCELLED")
        /\ owner' = [owner EXCEPT !.alive = @ /\ owner.gen # reap.gen]
        /\ reap' = NoReap
        /\ UNCHANGED <<worker, member, digest, fires, dispatch, arrival, cancel,
                       changes>>

(* A reap that fails rolls back. *)
ReapEnds ==
    /\ reap.pc # "idle"
    /\ reap' = NoReap
    /\ UNCHANGED <<store, dispatch, arrival, cancel, changes>>

(* A crashed owner: what it was owed fails, its barriers are left. *)
OwnerDetached ==
    /\ Upheaval
    /\ owner.alive
    /\ owner' = [owner EXCEPT !.alive = FALSE]
    /\ row' = [m \in Callbacks |->
                 IF row[m].status = "PENDING" /\ row[m].to = owner.gen
                 THEN [row[m] EXCEPT !.status = "DELIVERY_FAILED"]
                 ELSE row[m]]
    /\ UNCHANGED <<worker, barrier, member, digest, fires, dispatch, arrival,
                   cancel, reap>>

(* A new terminal takes the mailbox over: the barriers of earlier          *)
(* generations end, and what they held is parked with the rest.            *)
publish_supervisor_incarnation ==
    LET stale == {b \in Barriers : IsOpen(b) /\ barrier[b].gen # owner.gen + 1}
    IN  /\ Upheaval
        /\ owner.kind = "mailbox"
        /\ owner.gen < MAX_GEN
        /\ owner' = [owner EXCEPT !.gen = @ + 1, !.alive = TRUE]
        /\ barrier' = Closed(stale, "DIGESTED_REBIND")
        /\ row' = [m \in Callbacks |->
                     IF \/ row[m].status = "PENDING"
                        \/ row[m].status = "HELD" /\ row[m].barrier \in stale
                     THEN [row[m] EXCEPT !.status = "PARKED"]
                     ELSE row[m]]
        /\ UNCHANGED <<worker, member, digest, fires, dispatch, arrival, cancel,
                       reap>>

(* The server restarts: a callback or a reap in flight is lost with it,    *)
(* and members left AWAITING by a closed barrier, and rows owed to a       *)
(* mailbox without a terminal, are repaired.                               *)
Restart ==
    /\ arrival' = NoArrival
    /\ reap' = NoReap
    /\ member' = Terminalized(member, {b \in Barriers : ~IsOpen(b)})
    /\ row' = [m \in Callbacks |->
                 IF /\ row[m].status = "PENDING"
                    /\ owner.kind = "mailbox"
                    /\ ~(owner.alive /\ row[m].to = owner.gen)
                 THEN [row[m] EXCEPT !.status = "DELIVERY_FAILED"]
                 ELSE row[m]]
    /\ UNCHANGED <<owner, worker, barrier, digest, fires, dispatch, cancel, changes>>

-----------------------------------------------------------------------------
Dispatching(d) ==
    \/ DispatchRead(d)
    \/ DispatchRearm(d)
    \/ DispatchInsert(d)
    \/ DispatchCreate(d)
    \/ DispatchEnds(d)

Calling ==
    \/ \E m \in Callbacks, w \in Workers : CallbackRead(m, w)
    \/ CallbackQueue
    \/ CallbackMatch
    \/ CallbackPlain

Closing(b) ==
    \/ CancelRead(b)
    \/ fire_due_barriers(b)

WorkerChanges(w) ==
    \/ insert_barrier_escalation_message(w)
    \/ delete_terminal_and_warm_intent(w)
    \/ crash_detach_terminal(w)
    \/ settle_terminal_rebound(w)

OwnerChanges ==
    \/ cancel_callback_barrier
    \/ CancelEnds
    \/ ReapRead
    \/ ReapReadBarriers
    \/ OwnerReaped
    \/ ReapEnds
    \/ OwnerDetached
    \/ publish_supervisor_incarnation
    \/ Restart

Next ==
    \/ \E d \in Dispatchers : Dispatching(d)
    \/ Calling
    \/ \E b \in Barriers : Closing(b)
    \/ \E w \in Workers : WorkerChanges(w)
    \/ OwnerChanges

Spec == Init /\ [][Next]_vars

(* callback_barrier_daemon sweeps in a loop that survives every failure,   *)
(* and every deadline passes.                                              *)
Fairness == \A b \in Barriers : WF_vars(fire_due_barriers(b))

FairSpec == Spec /\ Fairness

-----------------------------------------------------------------------------
BarrierRows == [state : BarrierStates, gen : 0..MAX_GEN, label : Labels \cup {None}]

MemberRows == [state : MemberStates, terminal : Workers \cup {None},
               gen : 0..MAX_GEN]

InboxRows == [status : RowStates, barrier : Barriers \cup {None},
              key : Keys \cup {None}, to : 0..MAX_GEN]

DispatchReads == [pc : {"idle", "create", "rearm", "insert"},
                  worker : Workers \cup {None}, gen : 0..MAX_GEN,
                  label : Labels \cup {None}, barrier : Barriers \cup {None},
                  key : Keys \cup {None}]

ArrivalReads == [pc : {"idle", "match", "queued", "plain"},
                 callback : Callbacks \cup {None},
                 barrier : Barriers \cup {None}, key : Keys \cup {None},
                 awaiting : BOOLEAN, to : 0..MAX_GEN]

ReapReads == [pc : {"idle", "rows", "barriers"}, gen : 0..MAX_GEN,
              ancestor : BOOLEAN, rows : SUBSET Callbacks,
              barriers : SUBSET Barriers]

TypeOK ==
    /\ owner \in [kind : {"terminal", "mailbox"}, gen : 1..MAX_GEN, alive : BOOLEAN]
    /\ worker \in [Workers -> [alive : BOOLEAN, gen : 1..MAX_GEN]]
    /\ barrier \in [Barriers -> BarrierRows]
    /\ member \in [Barriers -> [Keys -> MemberRows]]
    /\ row \in [Callbacks -> InboxRows]
    /\ digest \in [Barriers -> SUBSET Callbacks]
    /\ fires \in [Barriers -> Nat]
    /\ dispatch \in [Dispatchers -> DispatchReads]
    /\ arrival \in ArrivalReads
    /\ cancel \in Barriers \cup {None}
    /\ reap \in ReapReads
    /\ changes \in 0..MAX_CHANGES

(* A barrier sends its owner at most one combined message, and one that    *)
(* has fired has sent it, although a callback or a cancel may act on it    *)
(* after reading it as OPEN.                                               *)
OneCombinedMessage ==
    \A b \in Barriers :
       /\ fires[b] <= 1
       /\ IsOpen(b) => fires[b] = 0
       /\ barrier[b].state \in {"FIRED_COMPLETE", "FIRED_TIMEOUT"} => fires[b] = 1

(* The terminal a callback was addressed to has gone. *)
Departed(m) == ~(owner.alive /\ owner.gen = row[m].to)

(* A DIGESTED callback is quoted by its barrier's combined message, and a  *)
(* quoted one is not owed a second time: it is never released to the       *)
(* owner, parked or failed as well.  The one exception is the reap of the  *)
(* terminal it was addressed to, which may reparent or cancel a callback   *)
(* it read as HELD before the barrier fired.                               *)
DigestedIsQuoted ==
    \A m \in Callbacks, b \in Barriers :
       /\ row[m].barrier = b /\ row[m].status = "DIGESTED" => m \in digest[b]
       /\ m \in digest[b] =>
             /\ row[m].barrier = b
             /\ \/ row[m].status = "DIGESTED"
                \/ row[m].status \in {"REPARENTED", "CANCELLED"} /\ Departed(m)

(* No barrier stays OPEN once its last member has answered or gone: the    *)
(* transaction that settled that member also closed the barrier.           *)
CompletedIsClosed ==
    \A b \in Barriers : IsOpen(b) => ~Complete(member, b)

(* An owner generation has one OPEN barrier per label, so the members that *)
(* two dispatchers attach at once meet in the same one.                    *)
OneOpenBarrier ==
    \A b, c \in Barriers :
       /\ IsOpen(b) /\ IsOpen(c)
       /\ barrier[b].gen = barrier[c].gen
       /\ barrier[b].label = barrier[c].label
       => b = c

(* Every barrier is eventually closed, whatever its members and its owner  *)
(* do: the daemon fires it at its deadline, or closes it for a gone owner. *)
EveryBarrierCloses ==
    \A b \in Barriers : IsOpen(b) ~> ~IsOpen(b)

-----------------------------------------------------------------------------
(* What the invariants above rest on.                                      *)

(* What a dispatch, a callback or a cancel has read still exists when it   *)
(* writes: rows of the two barrier tables are never deleted.               *)
DispatchReadExists ==
    \A d \in Dispatchers :
       /\ dispatch[d].pc # "idle" =>
             dispatch[d].worker \in Workers /\ dispatch[d].key \in Keys
       /\ dispatch[d].pc \in {"rearm", "insert"} =>
             /\ dispatch[d].barrier \in Barriers
             /\ barrier[dispatch[d].barrier].state # "ABSENT"
       /\ dispatch[d].pc = "create" => dispatch[d].label \in Labels

ArrivalReadExists ==
    /\ arrival.pc # "idle" => arrival.callback \in Callbacks
    /\ arrival.pc \in {"match", "plain"} => row[arrival.callback].status = "ABSENT"
    /\ arrival.pc \in {"match", "queued"} =>
          /\ arrival.barrier \in Barriers
          /\ arrival.key \in Keys
          /\ barrier[arrival.barrier].state # "ABSENT"
          /\ member[arrival.barrier][arrival.key].state # "ABSENT"

CancelReadExists == cancel # None => barrier[cancel].state # "ABSENT"

(* The rows a reap read were addressed to the terminal it reaps.  If the   *)
(* mailbox has a new one since, their barriers have been closed.           *)
ReapReadExists ==
    /\ \A m \in reap.rows :
          /\ row[m].barrier # None
          /\ row[m].to = reap.gen
          /\ reap.gen # owner.gen => ~IsOpen(row[m].barrier)
    /\ \A b \in reap.barriers : barrier[b].state # "ABSENT"

(* A callback's row names a member of a barrier, or none. *)
RowsHaveMembers ==
    \A m \in Callbacks :
       /\ row[m].status = "ABSENT" => row[m].barrier = None
       /\ row[m].status = "HELD" => row[m].barrier # None
       /\ row[m].barrier # None =>
             /\ row[m].key \in Keys
             /\ barrier[row[m].barrier].state # "ABSENT"
             /\ member[row[m].barrier][row[m].key].state # "ABSENT"

(* What an OPEN barrier can quote is HELD, as long as there is an owner.   *)
OpenRowsHeld ==
    owner.alive =>
       \A m \in Callbacks, b \in Barriers :
          IsOpen(b) /\ row[m].barrier = b => row[m].status \in {"HELD", "QUEUED"}

(* No barrier is of a generation to come, so a rebind closes them all. *)
NoLaterBarrier ==
    /\ \A b \in Barriers : barrier[b].gen <= owner.gen
    /\ \A d \in Dispatchers : dispatch[d].pc = "create" => dispatch[d].gen <= owner.gen

(* No callback was addressed to a generation to come. *)
NoLaterRow ==
    /\ \A m \in Callbacks : row[m].to <= owner.gen
    /\ arrival.to <= owner.gen

(* A barrier that does not exist has sent nothing. *)
AbsentUnfired ==
    \A b \in Barriers : barrier[b].state = "ABSENT" => fires[b] = 0

BarrierInv ==
    /\ TypeOK
    /\ DispatchReadExists
    /\ ArrivalReadExists
    /\ CancelReadExists
    /\ ReapReadExists
    /\ RowsHaveMembers
    /\ OpenRowsHeld
    /\ NoLaterBarrier
    /\ NoLaterRow
    /\ AbsentUnfired
    /\ OneCombinedMessage
    /\ DigestedIsQuoted
    /\ CompletedIsClosed
    /\ OneOpenBarrier

-----------------------------------------------------------------------------
(* A callback is HELD only while its barrier is OPEN: "it becomes PENDING  *)
(* when its barrier completes, and the tick after that adopts it".         *)
HeldWhileOpen ==
    \A m \in Callbacks : row[m].status = "HELD" => IsOpen(row[m].barrier)

=============================================================================
