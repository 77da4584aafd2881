---------------------------- MODULE WriteThrough ----------------------------
(***************************************************************************)
(* The send path of CAO and the adoption of legacy rows.  A send goes to   *)
(* the queue (app/delivery/wiring.py, write_through), or, when the queue   *)
(* cannot take it, to the legacy inbox (clients/database.py,               *)
(* _insert_routed_inbox_row); the tick adopts what is left in the inbox    *)
(* (adopt_orphaned_legacy_rows).  The two tables are written on two        *)
(* connections, so no transaction covers both.                             *)
(*                                                                         *)
(* One action is one SQLite transaction.  Drafts carry no barrier and no   *)
(* supersede key.                                                          *)
(***************************************************************************)
EXTENDS Integers, FiniteSets

CONSTANTS
    Sends,          \* calls of create_inbox_message, and rows older than the queue
    Draft,          \* what each send carries: sender, receiver, payload, locks, dedup
    Legacy,         \* the sends whose inbox rows predate the queue, in order
    NoReceiver,     \* the receiver of a legacy row that names none
    Rejected,       \* the sends whose row violates a constraint of delivery_msg
    Readers,        \* the receivers that list and ack
    WINDOW,         \* DELIVERY_DEDUP_WINDOW_S
    ADOPT_LIMIT,
    MAX_TIME,       \* bound: where the clock stops
    MAX_BUSY,       \* bound: lost races for the write lock
    MAX_FAULTS      \* bound: crashes and other store errors

Predate == {Legacy[n] : n \in DOMAIN Legacy}

SameMessage(s, t) ==
    /\ Draft[s].sender = Draft[t].sender
    /\ Draft[s].receiver = Draft[t].receiver
    /\ Draft[s].payload = Draft[t].payload

(* Eligible for the duplicate window (_f475_should_dedup) means: a terminal    *)
(* that calls its caller back, and a terminal's insert runs under the          *)
(* watchdog's lock.                                                         *)
ASSUME SendsOK ==
    /\ \A s \in Sends : Draft[s].dedup => "watchdog" \in Draft[s].locks
    /\ \A s, t \in Sends : SameMessage(s, t) => Draft[s].dedup = Draft[t].dedup
    /\ \A s \in Sends \ Predate : Draft[s].receiver # NoReceiver
    /\ DOMAIN Legacy \subseteq Nat /\ Predate \subseteq Sends
    /\ \A m, n \in DOMAIN Legacy : Legacy[m] = Legacy[n] => m = n
    /\ {WINDOW, MAX_TIME, MAX_BUSY, MAX_FAULTS} \subseteq Nat
    /\ ADOPT_LIMIT \in Nat \ {0}

VARIABLES
    now,
    queue,      \* delivery_msg: the rows, as far as this module needs them
    inbox,      \* the legacy table
    pc,         \* where each send stands
    handle,     \* the integer a send was given and has not used yet
    guard,      \* the sends in progress, each holding its locks
    adopt,      \* the adoption pass in progress
    poison,     \* _ADOPTION_POISON_IDS, in memory
    blind,      \* the sends that lost their content hash to a failed lookup
    cursor,     \* the handle up to which each reader will ack
    shown,      \* history: the keys of the rows that a list answer carried
    busy,
    faults

tables == <<queue, inbox>>
vars == <<now, tables, pc, handle, guard, adopt, poison, blind, cursor, shown, busy, faults>>

NotAdopting == [pc |-> "idle", todo |-> {}, item |-> 0]

Init ==
    /\ now = 0
    /\ queue = {}
    /\ inbox = {[id |-> n, by |-> Legacy[n], at |-> 0, status |-> "pending"] : n \in DOMAIN Legacy}
    /\ pc = [s \in Sends |-> IF s \in Predate THEN "ok" ELSE "idle"]
    /\ handle = [s \in Sends |-> 0]
    /\ guard = {}
    /\ adopt = NotAdopting
    /\ poison = {}
    /\ blind = {}
    /\ cursor = [r \in Readers |-> 0]
    /\ shown = {}
    /\ busy = 0
    /\ faults = 0

-----------------------------------------------------------------------------
(* The tables.                                                             *)

Recent(row, t) == row.at >= t - WINDOW

(* find_recent_duplicate, on the queue; adoption hashes its rows again.       *)
QueueDuplicates(s) ==
    {q \in queue : /\ Draft[s].dedup /\ s \notin blind
                   /\ q.key[1] = "live" => q.by \notin blind
                   /\ SameMessage(q.by, s) /\ Recent(q, now)}

(* F475's lookup, on the inbox.                                             *)
InboxDuplicates(s) ==
    {b \in inbox : Draft[s].dedup /\ b.by \notin blind /\ SameMessage(b.by, s) /\ Recent(b, now)}

InboxIds == {b.id : b \in inbox}

Handles == {q.handle : q \in queue} \cup InboxIds

(* One above the high-water of a set of handles, which may be empty.          *)
AboveAll(used) == {n \in {1} \cup {u + 1 : u \in used} : \A u \in used : u < n}

(* next_surrogate_id, as a set of one: above the high-water of both tables.   *)
next_surrogate_id == AboveAll(Handles)

QueueRow(key, s, n) == [key |-> key, by |-> s, handle |-> n, at |-> now, settled |-> FALSE]

(* enqueue inserts unless the key is taken; a taken key with another payload  *)
(* is a conflict.                                                           *)
Taken(key) == \E q \in queue : q.key = key

SamePayload(key, s) == \A q \in queue : q.key = key => Draft[q.by].payload = Draft[s].payload

enqueue(key, s, n) ==
    queue' = IF Taken(key) THEN queue ELSE queue \cup {QueueRow(key, s, n)}

(* The inbox's own id: one above its last row.                              *)
InsertInbox(s) ==
    \E n \in AboveAll(InboxIds) :
        inbox' = inbox \cup {[id |-> n, by |-> s, at |-> now, status |-> "pending"]}

-----------------------------------------------------------------------------
(* A send: create_inbox_message.                                           *)

Goto(s, where) == pc' = [pc EXCEPT ![s] = where]

Answer(s) == Goto(s, "ok") /\ guard' = guard \ {s}

(* The row is committed; the rest of the call may still fail and lose the      *)
(* answer.                                                                  *)
Commit(s) ==
    /\ guard' = guard \ {s}
    /\ \/ Goto(s, "ok") /\ UNCHANGED faults
       \/ /\ faults < MAX_FAULTS
          /\ faults' = faults + 1
          /\ Goto(s, "gone")

(* Slip: the insert is not fenced.                                          *)
LocksFree_Unfenced(s) == TRUE

LocksFree(s) == \A t \in guard : Draft[t].locks \cap Draft[s].locks = {}

(* callback_insert_guard, for a sender that is a terminal, the mailbox's       *)
(* authority lock, for a send addressed to a mailbox, and the inbox half of the *)
(* window.                                                                  *)
SendBegin(s) ==
    /\ pc[s] = "idle"
    /\ LocksFree(s)
    /\ IF InboxDuplicates(s) # {}
       THEN Goto(s, "ok") /\ UNCHANGED guard
       ELSE Goto(s, "window") /\ guard' = guard \cup {s}
    /\ UNCHANGED <<now, tables, handle, adopt, poison, blind, cursor, shown, busy, faults>>

(* Slip: the queue's half of the window is not consulted.                    *)
SendWindow_InboxOnly(s) ==
    /\ pc[s] = "window"
    /\ Goto(s, "alloc")
    /\ UNCHANGED <<now, tables, handle, guard, adopt, poison, blind, cursor, shown, busy, faults>>

SendWindow(s) ==
    /\ pc[s] = "window"
    /\ IF QueueDuplicates(s) # {} THEN Answer(s) ELSE Goto(s, "alloc") /\ UNCHANGED guard
    /\ UNCHANGED <<now, tables, handle, adopt, poison, blind, cursor, shown, busy, faults>>

SendAlloc(s) ==
    /\ pc[s] = "alloc"
    /\ \E n \in next_surrogate_id : handle' = [handle EXCEPT ![s] = n]
    /\ Goto(s, "enqueue")
    /\ UNCHANGED <<now, tables, guard, adopt, poison, blind, cursor, shown, busy, faults>>

(* Slip: a taken key is answered whatever it holds.                         *)
SendEnqueue_NoConflict(s) ==
    /\ pc[s] = "enqueue"
    /\ s \notin Rejected
    /\ enqueue(<<"live", handle[s]>>, s, handle[s])
    /\ Commit(s)
    /\ UNCHANGED <<now, inbox, handle, adopt, poison, blind, cursor, shown, busy>>

(* The insert under the key of the handle; a taken key with the same payload  *)
(* answers the row that holds it.                                           *)
SendEnqueue(s) ==
    /\ pc[s] = "enqueue"
    /\ s \notin Rejected
    /\ SamePayload(<<"live", handle[s]>>, s)
    /\ enqueue(<<"live", handle[s]>>, s, handle[s])
    /\ Commit(s)
    /\ UNCHANGED <<now, inbox, handle, adopt, poison, blind, cursor, shown, busy>>

(* IdempotencyConflict or a constraint violation: the caller falls back.     *)
SendRefused(s) ==
    /\ pc[s] = "enqueue"
    /\ s \in Rejected \/ ~ SamePayload(<<"live", handle[s]>>, s)
    /\ Goto(s, "fallback")
    /\ UNCHANGED <<now, tables, handle, guard, adopt, poison, blind, cursor, shown, busy, faults>>

(* Slip: an insert that did commit is taken for a lost lock.                 *)
SendBusy_AfterInsert(s) ==
    /\ pc[s] = "enqueue"
    /\ busy < MAX_BUSY
    /\ busy' = busy + 1
    /\ enqueue(<<"live", handle[s]>>, s, handle[s])
    /\ Goto(s, "fallback")
    /\ UNCHANGED <<now, inbox, handle, guard, adopt, poison, blind, cursor, shown, faults>>

(* The write lock is not free within the busy timeout.                      *)
SendBusy(s) ==
    /\ pc[s] = "enqueue"
    /\ busy < MAX_BUSY
    /\ busy' = busy + 1
    /\ Goto(s, "fallback")
    /\ UNCHANGED <<now, tables, handle, guard, adopt, poison, blind, cursor, shown, faults>>

(* The legacy insert; the send fails if this does, and the caller is told.    *)
SendFallback(s) ==
    /\ pc[s] = "fallback"
    /\ InsertInbox(s)
    /\ Commit(s)
    /\ UNCHANGED <<now, queue, handle, adopt, poison, blind, cursor, shown, busy>>

(* A failed lookup in the inbox fails open: no hash, so no window either.      *)
SendBlind(s) ==
    /\ pc[s] = "idle"
    /\ LocksFree(s)
    /\ Draft[s].dedup
    /\ faults < MAX_FAULTS
    /\ faults' = faults + 1
    /\ blind' = blind \cup {s}
    /\ guard' = guard \cup {s}
    /\ Goto(s, "window")
    /\ UNCHANGED <<now, tables, handle, adopt, poison, cursor, shown, busy>>

SendFault(s) ==
    /\ faults < MAX_FAULTS
    /\ faults' = faults + 1
    /\ \/ /\ pc[s] \in {"window", "alloc"}
          /\ Goto(s, "fallback")
          /\ UNCHANGED guard
       \/ /\ pc[s] = "fallback"
          /\ Goto(s, "failed")
          /\ guard' = guard \ {s}
    /\ UNCHANGED <<now, tables, handle, adopt, poison, blind, cursor, shown, busy>>

SendStep(s) ==
    \/ SendBegin(s) \/ SendWindow(s) \/ SendAlloc(s) \/ SendEnqueue(s)
    \/ SendRefused(s) \/ SendBusy(s) \/ SendFallback(s) \/ SendBlind(s) \/ SendFault(s)

-----------------------------------------------------------------------------
(* Adoption, run by the tick: adopt_orphaned_legacy_rows.                   *)

(* Slip: rows that cannot be adopted keep their place in the window.          *)
Scannable_Poisoned == {b.id : b \in {c \in inbox : c.status = "pending"}}

Scannable == {b.id : b \in {c \in inbox : c.status = "pending" /\ c.id \notin poison}}

AdoptScan ==
    /\ adopt.pc = "idle"
    /\ \E S \in SUBSET Scannable :
         /\ S # {}
         /\ Cardinality(S) <= ADOPT_LIMIT
         /\ S # Scannable => Cardinality(S) = ADOPT_LIMIT
         /\ \A i \in S, j \in Scannable \ S : i < j
         /\ adopt' = [adopt EXCEPT !.pc = "adopt", !.todo = S]
    /\ UNCHANGED <<now, tables, pc, handle, guard, poison, blind, cursor, shown, busy, faults>>

NextAdoptee(b) == b.id \in adopt.todo /\ \A j \in adopt.todo : b.id <= j

Skip(b) == adopt' = [adopt EXCEPT !.todo = @ \ {b.id}]

Unadoptable(b) ==
    \/ Draft[b.by].receiver = NoReceiver
    \/ b.by \in Rejected
    \/ ~ SamePayload(<<"adopted", b.id>>, b.by)

(* Slip: the key is made from a fresh handle, so a second pass inserts again.  *)
AdoptEnqueue_FreshKey(b) ==
    /\ adopt.pc = "adopt"
    /\ NextAdoptee(b)
    /\ ~ Unadoptable(b)
    /\ \E n \in next_surrogate_id : enqueue(<<"adopted", n>>, b.by, n)
    /\ adopt' = [adopt EXCEPT !.pc = "retire", !.item = b.id]
    /\ UNCHANGED <<now, inbox, pc, handle, guard, poison, blind, cursor, shown, busy, faults>>

(* The enqueue comes first, under a key made from the row's id.              *)
AdoptEnqueue(b) ==
    /\ adopt.pc = "adopt"
    /\ NextAdoptee(b)
    /\ ~ Unadoptable(b)
    /\ enqueue(<<"adopted", b.id>>, b.by, b.id)
    /\ adopt' = [adopt EXCEPT !.pc = "retire", !.item = b.id]
    /\ UNCHANGED <<now, inbox, pc, handle, guard, poison, blind, cursor, shown, busy, faults>>

(* No receiver, or PersistentEnqueueRejection.                              *)
AdoptPoison(b) ==
    /\ adopt.pc = "adopt"
    /\ NextAdoptee(b)
    /\ Unadoptable(b)
    /\ poison' = poison \cup {b.id}
    /\ Skip(b)
    /\ UNCHANGED <<now, tables, pc, handle, guard, blind, cursor, shown, busy, faults>>

(* Slip: a failed enqueue is taken for a finished one.                       *)
AdoptBusy_AsDone(b) ==
    /\ adopt.pc = "adopt"
    /\ NextAdoptee(b)
    /\ ~ Unadoptable(b)
    /\ busy < MAX_BUSY
    /\ busy' = busy + 1
    /\ adopt' = [adopt EXCEPT !.pc = "retire", !.item = b.id]
    /\ UNCHANGED <<now, tables, pc, handle, guard, poison, blind, cursor, shown, faults>>

(* A transient failure leaves the row for the next pass.                     *)
AdoptBusy(b) ==
    /\ adopt.pc = "adopt"
    /\ NextAdoptee(b)
    /\ ~ Unadoptable(b)
    /\ busy < MAX_BUSY
    /\ busy' = busy + 1
    /\ Skip(b)
    /\ UNCHANGED <<now, tables, pc, handle, guard, poison, blind, cursor, shown, faults>>

(* Conditional on the status: a row that is no longer pending is left alone.    *)
Retire(b) ==
    inbox' = IF b.status = "pending" THEN (inbox \ {b}) \cup {[b EXCEPT !.status = "adopted"]}
             ELSE inbox

AfterItem == adopt' = [adopt EXCEPT !.pc = "adopt", !.todo = @ \ {adopt.item}, !.item = 0]

AdoptRetire(b) ==
    /\ adopt.pc = "retire"
    /\ b.id = adopt.item
    /\ Retire(b)
    /\ AfterItem
    /\ UNCHANGED <<now, queue, pc, handle, guard, poison, blind, cursor, shown, busy, faults>>

(* The retire fails: the row stays pending and is not poisoned.              *)
AdoptFault ==
    /\ adopt.pc = "retire"
    /\ faults < MAX_FAULTS
    /\ faults' = faults + 1
    /\ AfterItem
    /\ UNCHANGED <<now, tables, pc, handle, guard, poison, blind, cursor, shown, busy>>

AdoptEnd ==
    /\ adopt.pc = "adopt"
    /\ adopt.todo = {}
    /\ adopt' = NotAdopting
    /\ UNCHANGED <<now, tables, pc, handle, guard, poison, blind, cursor, shown, busy, faults>>

AdoptStep ==
    \/ AdoptScan \/ AdoptEnd
    \/ \E b \in inbox : AdoptEnqueue(b) \/ AdoptPoison(b) \/ AdoptRetire(b)

-----------------------------------------------------------------------------
(* A reader's list and ack, one transaction each (module DeliveryQueue has    *)
(* the rest of them).                                                       *)

Owed(r) == {q \in queue : Draft[q.by].receiver = r /\ ~ q.settled}

SeatList(r) ==
    /\ \E q \in Owed(r) : cursor' = [cursor EXCEPT ![r] = q.handle]
    /\ shown' = shown \cup {q.key : q \in Owed(r)}
    /\ UNCHANGED <<now, tables, pc, handle, guard, adopt, poison, blind, busy, faults>>

SeatAck(r) ==
    LET covered == {q \in Owed(r) : q.handle <= cursor[r]}
    IN  /\ covered # {}
        /\ queue' = (queue \ covered) \cup {[q EXCEPT !.settled = TRUE] : q \in covered}
        /\ UNCHANGED <<now, inbox, pc, handle, guard, adopt, poison, blind, cursor, shown, busy, faults>>

-----------------------------------------------------------------------------
Advance ==
    /\ now < MAX_TIME
    /\ now' = now + 1
    /\ UNCHANGED <<tables, pc, handle, guard, adopt, poison, blind, cursor, shown, busy, faults>>

(* The server dies: locks, the poison set and every call in progress go; the   *)
(* callers get no answer.                                                   *)
Crash ==
    /\ faults < MAX_FAULTS
    /\ faults' = faults + 1
    /\ pc' = [s \in Sends |-> IF pc[s] \in {"window", "alloc", "enqueue", "fallback"}
                              THEN "gone" ELSE pc[s]]
    /\ guard' = {}
    /\ adopt' = NotAdopting
    /\ poison' = {}
    /\ UNCHANGED <<now, tables, handle, blind, cursor, shown, busy>>

Next ==
    \/ \E s \in Sends : SendStep(s)
    \/ AdoptStep
    \/ \E b \in inbox : AdoptBusy(b)
    \/ AdoptFault
    \/ \E r \in Readers : SeatList(r) \/ SeatAck(r)
    \/ Advance
    \/ Crash

Spec == Init /\ [][Next]_vars

(* The tick's loop runs adoption on every pass.                             *)
FairSpec == Spec /\ WF_vars(AdoptStep)

-----------------------------------------------------------------------------
(* What is checked.                                                        *)

Key == {"live", "adopted"} \X Nat

TypeOK ==
    /\ now \in Nat
    /\ queue \subseteq [key : Key, by : Sends, handle : Nat, at : Nat, settled : BOOLEAN]
    /\ inbox \subseteq [id : Nat, by : Sends, at : Nat, status : {"pending", "adopted"}]
    /\ pc \in [Sends -> {"idle", "window", "alloc", "enqueue", "fallback", "ok", "failed", "gone"}]
    /\ handle \in [Sends -> Nat]
    /\ guard \subseteq Sends
    /\ adopt \in [pc : {"idle", "adopt", "retire"}, todo : SUBSET Nat, item : Nat]
    /\ poison \subseteq Nat
    /\ blind \subseteq Sends
    /\ cursor \in [Readers -> Nat]
    /\ shown \subseteq Key
    /\ busy \in Nat
    /\ faults \in Nat

(* A send that was answered is carried: some row of the queue or of the inbox  *)
(* holds that sender's payload for that receiver, through lost locks, refused   *)
(* inserts, crashes and adoption.                                            *)
AnsweredIsCarried ==
    \A s \in Sends : pc[s] = "ok" => \E row \in queue \cup inbox : SameMessage(row.by, s)

(* No message is carried twice: one queue row per send, and a live row has no  *)
(* inbox row beside it (no dual write), whatever adoption repeats after a       *)
(* crash or a failed retire.                                                 *)
CarriedOnce ==
    /\ \A p, q \in queue : p.by = q.by => p = q
    /\ \A q \in queue, b \in inbox : q.by = b.by => q.key = <<"adopted", b.id>>

(* A retired inbox row is in the queue: no crash leaves a message that neither  *)
(* table carries.                                                           *)
RetiredIsCarried ==
    \A b \in inbox : b.status = "adopted" => \E q \in queue : q.key = <<"adopted", b.id>> /\ q.by = b.by

(* What the sends wrote; an adopted row is the copy of an inbox row.           *)
Sent == {q \in queue : q.key[1] = "live"} \cup inbox

(* F475: of two identical callbacks inside the window one is suppressed,       *)
(* although the window is looked up in two tables and the insert is a later     *)
(* transaction.                                                             *)
RepeatSuppressed ==
    \A a, b \in Sent :
        a.by # b.by /\ Draft[a.by].dedup /\ SameMessage(a.by, b.by)
            => a.at < b.at - WINDOW \/ b.at < a.at - WINDOW

(* What the next three say is needed to prove the two above: a row's id, its   *)
(* key and its send identify it; ...                                        *)
RowsIdentified ==
    /\ \A b, c \in inbox : b.id = c.id \/ b.by = c.by => b = c
    /\ \A p, q \in queue : p.key = q.key => p = q

(* ... an adopted row stems from the inbox row whose id is in its key; ...      *)
AdoptedStems ==
    \A q \in queue : q.key[1] = "adopted" => \E b \in inbox : q.key = <<"adopted", b.id>> /\ q.by = b.by

(* ... and a send that has not been answered has written nothing, while the      *)
(* adoption pass retires only what it has enqueued.                           *)
WritesOnce ==
    /\ \A s \in Sends : pc[s] \notin {"ok", "gone"} => \A row \in queue \cup inbox : row.by # s
    /\ adopt.pc = "retire" => \E q \in queue : q.key = <<"adopted", adopt.item>>

(* The inductive invariant: no crash, lost lock or repeated adoption loses a     *)
(* retired message or carries one twice.                                     *)
CarriageInv ==
    TypeOK /\ RowsIdentified /\ AdoptedStems /\ WritesOnce /\ CarriedOnce /\ RetiredIsCarried

(* An ack by cursor settles, of the rows that sends put into the queue, only     *)
(* those that some list answer carried: where sends to a mailbox share a lock     *)
(* their handles appear in the order in which they were given out.            *)
LiveAckOnlyListed == \A q \in queue : q.settled /\ q.key[1] = "live" => q.key \in shown

(* An addressable row left in the inbox reaches the queue and is retired,        *)
(* whatever cannot be adopted in front of it.                                *)
EveryOrphanAdopted ==
    \A s \in Sends :
        (\E b \in inbox : b.by = s /\ b.status = "pending" /\ ~ Unadoptable(b))
            ~> (\E b \in inbox : b.by = s /\ b.status = "adopted")

(* What became of a send's message, over both tables: not written, settled in    *)
(* each of its queue rows, or owed; an inbox row counts until the queue has it.  *)
Written(s) == \E row \in queue \cup inbox : row.by = s

Settled(s) ==
    /\ \E q \in queue : q.by = s
    /\ \A q \in queue : q.by = s => q.settled

progress ==
    [s \in Sends \ Predate |->
        IF ~ Written(s) THEN "none" ELSE IF Settled(s) THEN "delivered" ELSE "owed"]

Lifecycle == INSTANCE MessageLifecycle WITH Ids <- Sends \ Predate, status <- progress

(* I1 across the two tables: a message is accepted once, by one of them, and a     *)
(* settled one is owed no more, whatever adoption, fallback and crashes repeat.   *)
RefinesLifecycle == Lifecycle!Spec

-----------------------------------------------------------------------------
(* The strengthening that the proofs use.                                   *)

SharesLock(s, t) == Draft[s].locks \cap Draft[t].locks # {}

(* Of two sends that the queue may accept and that carry one text, either both  *)
(* are one message or a lock keeps them apart.  The code does not see to this:   *)
(* it is what two notices of one text to two receivers lack.                  *)
TextsFenced ==
    \A s, t \in Sends \ (Predate \cup Rejected) :
        Draft[s].payload = Draft[t].payload => SameMessage(s, t) \/ SharesLock(s, t)

(* Sends to one mailbox share a lock, as all those addressed to the mailbox do;  *)
(* one addressed to its terminal need not share one with an operator's.         *)
MailboxesFenced ==
    \A s, t \in Sends \ Predate :
        Draft[s].receiver = Draft[t].receiver /\ Draft[s].receiver \in Readers => SharesLock(s, t)

InFlight(s) == pc[s] \in {"window", "alloc", "enqueue", "fallback"}

(* A send in flight holds its locks, and no two share one.                    *)
GuardHeld ==
    /\ \A s \in Sends : InFlight(s) <=> s \in guard
    /\ \A s, t \in guard : s = t \/ ~ SharesLock(s, t)
    /\ \A s \in Predate : pc[s] = "ok"

(* A live row's key is made of its handle, and a send of the queue wrote it.    *)
LiveKeys ==
    \A q \in queue :
        q.key[1] = "live" => q.key = <<"live", q.handle>> /\ q.by \notin Predate \cup Rejected

(* The handle a send holds may be in use by then, but only by a send that       *)
(* shares no lock with it.                                                  *)
HandlesOwned ==
    \A s \in Sends, q \in queue :
        pc[s] = "enqueue" /\ q.key = <<"live", handle[s]>> => ~ SharesLock(s, q.by)

FenceInv == TypeOK /\ GuardHeld /\ LiveKeys /\ HandlesOwned

(* A send about to enqueue for a reader holds a handle above every row that the  *)
(* reader has or may yet get from the inbox; ...                             *)
HandlesAhead ==
    \A s \in Sends :
        pc[s] = "enqueue" /\ Draft[s].receiver \in Readers =>
            /\ handle[s] > 0
            /\ \A q \in queue : Draft[q.by].receiver = Draft[s].receiver => q.handle < handle[s]
            /\ \A b \in inbox : Draft[b.by].receiver = Draft[s].receiver => b.id < handle[s]

(* ... and every live row up to a reader's cursor was listed.                 *)
CursorListed ==
    \A r \in Readers :
        /\ cursor[r] = 0 \/ \E q \in queue : Draft[q.by].receiver = r /\ q.handle = cursor[r]
        /\ \A q \in queue :
              q.key[1] = "live" /\ Draft[q.by].receiver = r /\ q.handle <= cursor[r] => q.key \in shown

ListedInv == HandlesAhead /\ CursorListed /\ LiveAckOnlyListed

(* A repeatable send that passed the inbox's half of the window, and then the    *)
(* queue's, has no twin there that is recent, for as long as it is in flight.   *)
WindowClear ==
    \A s \in Sends :
        Draft[s].dedup =>
            /\ pc[s] = "window" =>
                  \A b \in inbox : SameMessage(b.by, s) => ~ Recent(b, now)
            /\ pc[s] \in {"alloc", "enqueue", "fallback"} =>
                  \A row \in Sent : SameMessage(row.by, s) => ~ Recent(row, now)

(* The rows older than the queue went through the inbox's window, so no two of   *)
(* them, all written at one instant here, are repeats.                       *)
LegacyApart == \A s, t \in Predate : s # t /\ Draft[s].dedup => ~ SameMessage(s, t)

(* What holds until the first crash or store error.                          *)
RepeatInv == faults = 0 => blind = {} /\ WindowClear /\ RepeatSuppressed
=============================================================================
