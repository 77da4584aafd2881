----------------------------- MODULE SendProofs -----------------------------
(***************************************************************************)
(* Proofs about concurrent sends (module WriteThrough), for any sends,       *)
(* drafts and bounds: what the locks, the handles and the duplicate window    *)
(* give although a send is four transactions on two tables, and that the      *)
(* tables together implement MessageLifecycle.                               *)
(*                                                                         *)
(* The argument is a fence: while a send is in flight no other send that       *)
(* shares a lock with it is, so what it read in one transaction still holds   *)
(* of the rows that such sends write when it comes to its last.               *)
(***************************************************************************)
EXTENDS WriteThroughProofs

(* Every step is a step of one send, a crash, or leaves the sends where they     *)
(* are.                                                                     *)
LEMMA WhoMoves ==
    ASSUME [Next]_vars
    PROVE  (\E s \in Sends : SendStep(s)) \/ Crash \/ UNCHANGED <<pc, handle, guard, blind>>
BY DEF Next, AdoptStep, AdoptScan, AdoptEnd, AdoptEnqueue, AdoptPoison, AdoptRetire, AdoptBusy,
       AdoptFault, SeatList, SeatAck, Advance, vars

(* A step of one send concerns no other, begins only with its locks free, and     *)
(* takes a handle in one place.                                              *)
LEMMA SendEffect ==
    ASSUME TypeOK, NEW t \in Sends, SendStep(t)
    PROVE  /\ \A s \in Sends \ {t} :
                 pc'[s] = pc[s] /\ handle'[s] = handle[s] /\ (s \in guard' <=> s \in guard)
           /\ pc[t] \in {"idle", "window", "alloc", "enqueue", "fallback"}
           /\ (InFlight(t) <=> t \in guard) => (InFlight(t)' <=> t \in guard')
           /\ t \in guard' => t \in guard \/ LocksFree(t)
           /\ pc'[t] = "enqueue" => SendAlloc(t)
           /\ pc'[t] = "ok" => \/ SendBegin(t) /\ InboxDuplicates(t) # {}
                               \/ SendWindow(t) /\ QueueDuplicates(t) # {}
                               \/ SendEnqueue(t) \/ SendFallback(t)
           /\ guard' \subseteq guard \cup {t}
<1> DEFINE Goal ==
           /\ \A s \in Sends \ {t} :
                 pc'[s] = pc[s] /\ handle'[s] = handle[s] /\ (s \in guard' <=> s \in guard)
           /\ pc[t] \in {"idle", "window", "alloc", "enqueue", "fallback"}
           /\ (InFlight(t) <=> t \in guard) => (InFlight(t)' <=> t \in guard')
           /\ t \in guard' => t \in guard \/ LocksFree(t)
           /\ pc'[t] = "enqueue" => SendAlloc(t)
           /\ pc'[t] = "ok" => \/ SendBegin(t) /\ InboxDuplicates(t) # {}
                               \/ SendWindow(t) /\ QueueDuplicates(t) # {}
                               \/ SendEnqueue(t) \/ SendFallback(t)
           /\ guard' \subseteq guard \cup {t}
<1>1. pc \in [Sends -> {"idle", "window", "alloc", "enqueue", "fallback", "ok", "failed", "gone"}]
  BY DEF TypeOK
<1>2. handle \in [Sends -> Nat] /\ guard \subseteq Sends
  BY DEF TypeOK
<1> USE DEF InFlight, Goto, Answer
<1>3. CASE SendBegin(t)
  BY <1>1, <1>3 DEF SendBegin
<1>4. CASE SendWindow(t)
  BY <1>1, <1>4 DEF SendWindow
<1>5. CASE SendAlloc(t)
  BY <1>1, <1>2, <1>5 DEF SendAlloc
<1>6. CASE SendEnqueue(t)
  BY <1>1, <1>6 DEF SendEnqueue, Commit
<1>7. CASE SendRefused(t)
  BY <1>1, <1>7 DEF SendRefused
<1>8. CASE SendBusy(t)
  BY <1>1, <1>8 DEF SendBusy
<1>9. CASE SendFallback(t)
  BY <1>1, <1>9 DEF SendFallback, Commit
<1>10. CASE SendBlind(t)
  BY <1>1, <1>10 DEF SendBlind
<1>11. CASE SendFault(t)
  BY <1>1, <1>11 DEF SendFault
<1> QED
  BY <1>3, <1>4, <1>5, <1>6, <1>7, <1>8, <1>9, <1>10, <1>11 DEF SendStep

(* What a step does to the queue: no row is lost or changes what identifies it,     *)
(* one settles only under an ack, and a new one comes from a send or from an        *)
(* adoption.                                                                *)
LEMMA QueueMoves ==
    ASSUME TypeOK, [Next]_vars
    PROVE  /\ \A p \in queue : \E q \in queue' :
                 q.key = p.key /\ q.by = p.by /\ q.handle = p.handle /\ q.at = p.at
           /\ \A q \in queue' :
                 \/ \E p \in queue :
                       /\ q.key = p.key /\ q.by = p.by /\ q.handle = p.handle /\ q.at = p.at
                       /\ \/ q.settled = p.settled
                          \/ \E r \in Readers : SeatAck(r) /\ p \in Owed(r) /\ p.handle <= cursor[r]
                 \/ \E s \in Sends :
                       SendEnqueue(s) /\ q = QueueRow(<<"live", handle[s]>>, s, handle[s])
                 \/ \E b \in inbox :
                       AdoptEnqueue(b) /\ q = QueueRow(<<"adopted", b.id>>, b.by, b.id)
<1> DEFINE Kept(q, p) == q.key = p.key /\ q.by = p.by /\ q.handle = p.handle /\ q.at = p.at
           Goal ==
           /\ \A p \in queue : \E q \in queue' : Kept(q, p)
           /\ \A q \in queue' :
                 \/ \E p \in queue :
                       /\ Kept(q, p)
                       /\ \/ q.settled = p.settled
                          \/ \E r \in Readers : SeatAck(r) /\ p \in Owed(r) /\ p.handle <= cursor[r]
                 \/ \E s \in Sends :
                       SendEnqueue(s) /\ q = QueueRow(<<"live", handle[s]>>, s, handle[s])
                 \/ \E b \in inbox :
                       AdoptEnqueue(b) /\ q = QueueRow(<<"adopted", b.id>>, b.by, b.id)
<1>1. CASE queue' = queue
  BY <1>1
<1>2. ASSUME NEW s \in Sends, SendEnqueue(s) PROVE Goal
  BY <1>2 DEF SendEnqueue, enqueue
<1>3. ASSUME NEW b \in inbox, AdoptEnqueue(b) PROVE Goal
  BY <1>3 DEF AdoptEnqueue, enqueue
<1>4. ASSUME NEW r \in Readers, SeatAck(r) PROVE Goal
  <2> DEFINE covered == {q \in Owed(r) : q.handle <= cursor[r]}
             Settle(q) == [q EXCEPT !.settled = TRUE]
  <2>1. queue' = (queue \ covered) \cup {Settle(q) : q \in covered}
    BY <1>4 DEF SeatAck
  <2>2. covered \subseteq queue
    BY DEF Owed
  <2>3. \A q \in queue : Kept(Settle(q), q)
    BY DEF TypeOK
  <2> HIDE DEF Settle
  <2>4. \A p \in queue : \E q \in queue' : Kept(q, p)
    BY <2>1, <2>3
  <2>5. ASSUME NEW q \in queue'
        PROVE  \E p \in queue :
                  /\ Kept(q, p)
                  /\ q.settled = p.settled \/ (p \in Owed(r) /\ p.handle <= cursor[r])
    <3>1. CASE q \in queue
      BY <3>1
    <3>2. ASSUME NEW p \in covered, q = Settle(p)
          PROVE  Kept(q, p) /\ p \in queue /\ p \in Owed(r) /\ p.handle <= cursor[r]
      BY <2>2, <2>3, <3>2
    <3> HIDE DEF Kept, covered
    <3> QED
      BY <2>1, <3>1, <3>2
  <2> QED
    BY <1>4, <2>4, <2>5
<1>5. \/ queue' = queue
      \/ \E s \in Sends : SendEnqueue(s)
      \/ \E b \in inbox : AdoptEnqueue(b)
      \/ \E r \in Readers : SeatAck(r)
  BY DEF Next, SendStep, AdoptStep, SendBegin, SendWindow, SendAlloc, SendRefused, SendBusy, SendFallback,
         SendBlind, SendFault, AdoptScan, AdoptEnd, AdoptPoison, AdoptRetire, AdoptBusy, AdoptFault,
         SeatList, Advance, Crash, vars, tables
<1> HIDE DEF Goal
<1>6. Goal
  BY <1>1, <1>2, <1>3, <1>4, <1>5 DEF Goal
<1> QED
  BY <1>6 DEF Goal

(* What a step does to the inbox: no row is lost or changes what identifies it, and    *)
(* a new one comes from a send that falls back.                                *)
LEMMA InboxMoves ==
    ASSUME TypeOK, [Next]_vars
    PROVE  /\ \A b \in inbox : \E c \in inbox' : c.id = b.id /\ c.by = b.by /\ c.at = b.at
           /\ \A c \in inbox' :
                 \/ \E b \in inbox : c.id = b.id /\ c.by = b.by /\ c.at = b.at
                 \/ \E s \in Sends : SendFallback(s) /\ c.by = s /\ c.at = now
<1> DEFINE Goal ==
           /\ \A b \in inbox : \E c \in inbox' : c.id = b.id /\ c.by = b.by /\ c.at = b.at
           /\ \A c \in inbox' :
                 \/ \E b \in inbox : c.id = b.id /\ c.by = b.by /\ c.at = b.at
                 \/ \E s \in Sends : SendFallback(s) /\ c.by = s /\ c.at = now
<1>1. CASE inbox' = inbox
  BY <1>1
<1>2. ASSUME NEW s \in Sends, SendFallback(s) PROVE Goal
  BY <1>2 DEF SendFallback, InsertInbox
<1>3. ASSUME NEW b \in inbox, AdoptRetire(b) PROVE Goal
  <2> DEFINE gone == [b EXCEPT !.status = "adopted"]
  <2>1. gone.id = b.id /\ gone.by = b.by /\ gone.at = b.at
    BY DEF TypeOK
  <2>2. inbox' = inbox \/ inbox' = (inbox \ {b}) \cup {gone}
    BY <1>3 DEF AdoptRetire, Retire
  <2> HIDE DEF gone
  <2> QED
    BY <2>1, <2>2
<1>4. \/ inbox' = inbox
      \/ \E s \in Sends : SendFallback(s)
      \/ \E b \in inbox : AdoptRetire(b)
  BY DEF Next, SendStep, AdoptStep, SendBegin, SendWindow, SendAlloc, SendRefused, SendBusy, SendEnqueue,
         SendBlind, SendFault, AdoptScan, AdoptEnd, AdoptPoison, AdoptEnqueue, AdoptBusy, AdoptFault,
         SeatList, SeatAck, Advance, Crash, vars, tables
<1> QED
  BY <1>1, <1>2, <1>3, <1>4

-----------------------------------------------------------------------------
(* The fence.                                                              *)

(* Every step keeps the locks: a send in flight holds its own, and none are shared.     *)
LEMMA GuardStep ==
    ASSUME TypeOK, GuardHeld, [Next]_vars
    PROVE  GuardHeld'
<1>1. Predate \subseteq Sends
  BY SendsOK
<1>2. ASSUME NEW t \in Sends, SendStep(t) PROVE GuardHeld'
  <2>1. /\ \A s \in Sends \ {t} : pc'[s] = pc[s] /\ (s \in guard' <=> s \in guard)
        /\ pc[t] \in {"idle", "window", "alloc", "enqueue", "fallback"}
        /\ (InFlight(t) <=> t \in guard) => (InFlight(t)' <=> t \in guard')
        /\ t \in guard' => t \in guard \/ LocksFree(t)
        /\ guard' \subseteq guard \cup {t}
    BY <1>2, SendEffect
  <2>2. \A s \in Sends : InFlight(s)' <=> s \in guard'
    BY <2>1 DEF GuardHeld, InFlight
  <2>3. ASSUME NEW s \in guard', NEW u \in guard' PROVE s = u \/ ~ SharesLock(s, u)
    BY <2>1 DEF GuardHeld, LocksFree, SharesLock
  <2>4. \A s \in Predate : pc'[s] = "ok"
    BY <1>1, <2>1 DEF GuardHeld
  <2>5. \A s, u \in guard' : s = u \/ ~ SharesLock(s, u)
    BY <2>3
  <2> QED
    BY <2>2, <2>4, <2>5 DEF GuardHeld, SharesLock
<1>3. CASE Crash
  <2>1. /\ \A s \in Sends : pc'[s] = IF InFlight(s) THEN "gone" ELSE pc[s]
        /\ guard' = {}
    BY <1>3 DEF Crash, InFlight
  <2> QED
    BY <1>1, <2>1 DEF GuardHeld, InFlight
<1>4. CASE UNCHANGED <<pc, handle, guard, blind>>
  BY <1>4 DEF GuardHeld, InFlight, SharesLock
<1> QED
  BY <1>2, <1>3, <1>4, WhoMoves

(* While a send is in flight, no other send that shares a lock with it writes.        *)
LEMMA Fence ==
    ASSUME TypeOK, GuardHeld, NEW s \in Sends, InFlight(s),
           NEW t \in Sends, SendEnqueue(t) \/ SendFallback(t), t # s
    PROVE  ~ SharesLock(s, t)
<1>1. InFlight(t)
  BY DEF InFlight, SendEnqueue, SendFallback
<1> QED
  BY <1>1 DEF GuardHeld

(* A send that is about to enqueue after a step was before it, or has just taken its     *)
(* handle.                                                                  *)
LEMMA AboutToEnqueue ==
    ASSUME TypeOK, [Next]_vars, NEW s \in Sends, pc'[s] = "enqueue"
    PROVE  \/ pc[s] = "enqueue" /\ handle'[s] = handle[s] /\ ~ SendStep(s)
           \/ SendAlloc(s)
<1>1. CASE SendStep(s)
  BY <1>1, SendEffect
<1>2. CASE ~ SendStep(s) /\ \E t \in Sends : SendStep(t)
  BY <1>2, SendEffect
<1>3. CASE Crash
  <2>1. pc'[s] = IF pc[s] \in {"window", "alloc", "enqueue", "fallback"} THEN "gone" ELSE pc[s]
    BY <1>3 DEF Crash
  <2> QED
    BY <2>1
<1>4. CASE ~ SendStep(s) /\ UNCHANGED <<pc, handle, guard, blind>>
  BY <1>4
<1> QED
  BY <1>1, <1>2, <1>3, <1>4, WhoMoves

(* The handle a send takes is above every handle of both tables.                    *)
LEMMA FreshHandle ==
    ASSUME TypeOK, NEW s \in Sends, SendAlloc(s)
    PROVE  /\ handle'[s] \in Nat /\ handle'[s] > 0
           /\ \A q \in queue : q.handle < handle'[s]
           /\ \A b \in inbox : b.id < handle'[s]
           /\ UNCHANGED <<queue, inbox>>
<1>1. Handles \in SUBSET Nat
  BY DEF TypeOK, Handles, InboxIds
<1>2. PICK n \in next_surrogate_id : handle' = [handle EXCEPT ![s] = n]
  BY DEF SendAlloc
<1>3. handle'[s] = n
  BY <1>2 DEF TypeOK
<1>4. n \in Nat /\ \A u \in Handles : u < n
  BY <1>1, <1>2, AboveAllFacts DEF next_surrogate_id
<1>5. n > 0
  BY <1>1, <1>2 DEF next_surrogate_id, AboveAll
<1>6. /\ \A q \in queue : q.handle \in Handles
      /\ \A b \in inbox : b.id \in Handles
  BY DEF Handles, InboxIds
<1> QED
  BY <1>3, <1>4, <1>5, <1>6 DEF SendAlloc, tables

(* Every step keeps the keys of live rows made of their handles.                    *)
LEMMA LiveKeysStep ==
    ASSUME TypeOK, GuardHeld, LiveKeys, [Next]_vars
    PROVE  LiveKeys'
<1> SUFFICES ASSUME NEW q \in queue', q.key[1] = "live"
             PROVE  q.key = <<"live", q.handle>> /\ q.by \notin Predate \cup Rejected
  BY DEF LiveKeys
<1>1. ASSUME NEW p \in queue, q.key = p.key, q.by = p.by, q.handle = p.handle
      PROVE  q.key = <<"live", q.handle>> /\ q.by \notin Predate \cup Rejected
  BY <1>1 DEF LiveKeys
<1>2. ASSUME NEW s \in Sends, SendEnqueue(s), q = QueueRow(<<"live", handle[s]>>, s, handle[s])
      PROVE  q.key = <<"live", q.handle>> /\ q.by \notin Predate \cup Rejected
  <2>1. q.key = <<"live", handle[s]>> /\ q.by = s /\ q.handle = handle[s]
    BY <1>2 DEF QueueRow
  <2>2. s \notin Predate \cup Rejected
    BY <1>2 DEF SendEnqueue, GuardHeld
  <2> QED
    BY <2>1, <2>2
<1>3. ASSUME NEW b \in inbox, q = QueueRow(<<"adopted", b.id>>, b.by, b.id) PROVE FALSE
  <2>1. q.key[1] = "adopted"
    BY <1>3 DEF QueueRow
  <2> QED
    BY <2>1
<1> QED
  BY <1>1, <1>2, <1>3, QueueMoves

(* Every step keeps a handle in hand from every send that shares a lock.             *)
LEMMA HandlesStep ==
    ASSUME FenceInv, [Next]_vars
    PROVE  HandlesOwned'
<1>1. TypeOK /\ TypeOK' /\ GuardHeld /\ LiveKeys
  BY TypeStep DEF FenceInv
<1> SUFFICES ASSUME NEW s \in Sends, NEW q \in queue', pc'[s] = "enqueue", q.key = <<"live", handle'[s]>>
             PROVE  ~ SharesLock(s, q.by)
  BY DEF HandlesOwned, SharesLock
<1>2. CASE SendAlloc(s)
  <2>1. q \in queue /\ q.handle < handle'[s] /\ q.handle \in Nat /\ handle'[s] \in Nat
    BY <1>1, <1>2, FreshHandle DEF TypeOK
  <2>2. q.key[1] = "live" /\ q.key[2] = handle'[s]
    OBVIOUS
  <2>3. q.key = <<"live", q.handle>>
    BY <1>1, <2>1, <2>2 DEF LiveKeys
  <2>4. q.handle = handle'[s]
    BY <2>2, <2>3
  <2> QED
    BY <2>1, <2>4
<1>3. CASE pc[s] = "enqueue" /\ handle'[s] = handle[s] /\ ~ SendStep(s)
  <2>1. ASSUME NEW p \in queue, q.key = p.key, q.by = p.by PROVE ~ SharesLock(s, q.by)
    BY <1>3, <2>1 DEF FenceInv, HandlesOwned
  <2>2. ASSUME NEW t \in Sends, SendEnqueue(t), q = QueueRow(<<"live", handle[t]>>, t, handle[t])
        PROVE  ~ SharesLock(s, q.by)
    <3>1. q.by = t /\ t # s
      BY <1>3, <2>2 DEF QueueRow, SendStep
    <3>2. ~ SharesLock(s, t)
      BY <1>1, <1>3, <2>2, <3>1, Fence DEF InFlight
    <3> QED
      BY <3>1, <3>2
  <2>3. ASSUME NEW b \in inbox, q = QueueRow(<<"adopted", b.id>>, b.by, b.id) PROVE FALSE
    <3>1. q.key[1] = "adopted" /\ q.key[1] = "live"
      BY <2>3 DEF QueueRow
    <3> QED
      BY <3>1
  <2> QED
    BY <1>1, <2>1, <2>2, <2>3, QueueMoves
<1> QED
  BY <1>1, <1>2, <1>3, AboutToEnqueue

(* The fence is inductive.                                                     *)
LEMMA FenceStep == FenceInv /\ [Next]_vars => FenceInv'
BY TypeStep, GuardStep, LiveKeysStep, HandlesStep DEF FenceInv

(* A send in flight holds its locks and no two share one; a handle that a send has       *)
(* taken and not used is nobody's who shares a lock with it: over every crash and fault.   *)
THEOREM SendsAreFenced == Spec => []FenceInv
<1>1. Init => FenceInv
  <2> SUFFICES ASSUME Init PROVE FenceInv
    OBVIOUS
  <2>1. TypeOK
    BY CarriageInit DEF CarriageInv
  <2>2. \A s \in Sends : pc[s] = IF s \in Predate THEN "ok" ELSE "idle"
    BY DEF Init
  <2>3. GuardHeld
    BY <2>2, SendsOK DEF Init, GuardHeld, InFlight
  <2> QED
    BY <2>1, <2>3 DEF Init, FenceInv, LiveKeys, HandlesOwned
<1> QED
  BY <1>1, FenceStep, PTL DEF Spec

-----------------------------------------------------------------------------
(* An answered send is carried.                                             *)

(* A row that a table holds is held after the step, with the same send.            *)
LEMMA RowsPersist ==
    ASSUME TypeOK, [Next]_vars, NEW row \in queue \cup inbox
    PROVE  \E kept \in (queue \cup inbox)' : kept.by = row.by
BY QueueMoves, InboxMoves

(* A send that enqueues finds its own message under its key: its own row, or one of a     *)
(* twin, for a send with another message and the same text would have shared a lock.     *)
LEMMA EnqueueCarries ==
    ASSUME TextsFenced, FenceInv, NEW s \in Sends, SendEnqueue(s)
    PROVE  \E q \in queue' : SameMessage(q.by, s)
<1> DEFINE key == <<"live", handle[s]>>
<1>1. CASE ~ Taken(key)
  <2>1. QueueRow(key, s, handle[s]) \in queue'
    BY <1>1 DEF SendEnqueue, enqueue
  <2>2. QueueRow(key, s, handle[s]).by = s
    BY DEF QueueRow
  <2> QED
    BY <2>1, <2>2 DEF SameMessage
<1>2. CASE Taken(key)
  <2>1. PICK q \in queue : q.key = key
    BY <1>2 DEF Taken
  <2>2. queue' = queue /\ pc[s] = "enqueue" /\ s \notin Rejected
    BY <1>2 DEF SendEnqueue, enqueue
  <2>3. Draft[q.by].payload = Draft[s].payload
    BY <2>1 DEF SendEnqueue, SamePayload
  <2>4. q.by \in Sends \ (Predate \cup Rejected) /\ ~ SharesLock(s, q.by)
    BY <2>1, <2>2 DEF FenceInv, TypeOK, LiveKeys, HandlesOwned
  <2>5. s \in Sends \ (Predate \cup Rejected)
    BY <2>2 DEF FenceInv, GuardHeld
  <2>6. SameMessage(s, q.by)
    BY <2>3, <2>4, <2>5 DEF TextsFenced
  <2> QED
    BY <2>2, <2>6 DEF SameMessage
<1> QED
  BY <1>1, <1>2

(* Every step keeps answered sends carried.                                       *)
LEMMA AnsweredStep ==
    ASSUME TextsFenced, FenceInv, AnsweredIsCarried, [Next]_vars
    PROVE  AnsweredIsCarried'
<1>1. TypeOK
  BY DEF FenceInv
<1> SUFFICES ASSUME NEW s \in Sends, pc'[s] = "ok"
             PROVE  \E row \in (queue \cup inbox)' : SameMessage(row.by, s)
  BY DEF AnsweredIsCarried, SameMessage
<1>2. ASSUME NEW row \in queue \cup inbox, SameMessage(row.by, s)
      PROVE  \E kept \in (queue \cup inbox)' : SameMessage(kept.by, s)
  <2>1. PICK kept \in (queue \cup inbox)' : kept.by = row.by
    BY <1>1, RowsPersist
  <2> QED
    BY <1>2, <2>1
<1>3. CASE pc[s] = "ok"
  BY <1>2, <1>3 DEF AnsweredIsCarried
<1>4. CASE SendStep(s)
  <2>1. CASE InboxDuplicates(s) # {}
    BY <1>2, <2>1 DEF InboxDuplicates
  <2>2. CASE QueueDuplicates(s) # {}
    BY <1>2, <2>2 DEF QueueDuplicates
  <2>3. CASE SendEnqueue(s)
    BY <2>3, EnqueueCarries
  <2>4. CASE SendFallback(s)
    <3>1. PICK n \in AboveAll(InboxIds) :
                 inbox' = inbox \cup {[id |-> n, by |-> s, at |-> now, status |-> "pending"]}
      BY <2>4 DEF SendFallback, InsertInbox
    <3> DEFINE row == [id |-> n, by |-> s, at |-> now, status |-> "pending"]
    <3>2. row \in inbox' /\ row.by = s
      BY <3>1
    <3> HIDE DEF row
    <3>3. SameMessage(row.by, s)
      BY <3>2 DEF SameMessage
    <3> QED
      BY <3>2, <3>3
  <2> QED
    BY <1>1, <1>4, <2>1, <2>2, <2>3, <2>4, SendEffect
<1>5. CASE pc[s] # "ok" /\ ~ SendStep(s)
  <2>1. CASE \E t \in Sends : SendStep(t)
    BY <1>1, <1>5, <2>1, SendEffect
  <2>2. CASE Crash
    <3>1. pc'[s] = IF pc[s] \in {"window", "alloc", "enqueue", "fallback"} THEN "gone" ELSE pc[s]
      BY <2>2 DEF Crash
    <3> QED
      BY <1>5, <3>1
  <2> QED
    BY <1>5, <2>1, <2>2, WhoMoves
<1> QED
  BY <1>3, <1>4, <1>5

(* A send that was answered is carried by a row of one of the two tables, through lost     *)
(* locks, refused inserts, crashes and adoption, if no two sends of one text to different   *)
(* receivers, or from different senders, are free to overlap.                     *)
THEOREM AnsweredNeverLost ==
    ASSUME TextsFenced
    PROVE  Spec => []AnsweredIsCarried
<1>1. Init => AnsweredIsCarried
  <2> SUFFICES ASSUME Init, NEW s \in Sends, pc[s] = "ok"
               PROVE  \E row \in inbox : SameMessage(row.by, s)
    BY DEF AnsweredIsCarried
  <2>1. s \in Predate
    BY DEF Init
  <2>2. PICK n \in DOMAIN Legacy : Legacy[n] = s
    BY <2>1 DEF Predate
  <2>3. [id |-> n, by |-> Legacy[n], at |-> 0, status |-> "pending"] \in inbox
    BY DEF Init
  <2> QED
    BY <2>2, <2>3 DEF SameMessage
<1>2. AnsweredIsCarried /\ FenceInv /\ [Next]_vars => AnsweredIsCarried'
  BY AnsweredStep
<1> QED
  BY <1>1, <1>2, SendsAreFenced, PTL DEF Spec

-----------------------------------------------------------------------------
(* An ack by cursor settles only what was listed.                           *)

(* While a send to a reader is in flight, no other send writes for that reader.        *)
LEMMA MailboxFence ==
    ASSUME MailboxesFenced, FenceInv, NEW s \in Sends, InFlight(s), Draft[s].receiver \in Readers,
           NEW t \in Sends, SendEnqueue(t) \/ SendFallback(t), t # s
    PROVE  Draft[t].receiver # Draft[s].receiver
<1>1. ~ SharesLock(s, t)
  BY Fence DEF FenceInv
<1>2. InFlight(t)
  BY DEF InFlight, SendEnqueue, SendFallback
<1>3. s \notin Predate /\ t \notin Predate
  BY <1>2 DEF FenceInv, GuardHeld, InFlight
<1> QED
  BY <1>1, <1>3 DEF MailboxesFenced

(* Every step keeps a handle in hand above the rows that its reader has.              *)
LEMMA AheadStep ==
    ASSUME MailboxesFenced, FenceInv, HandlesAhead, [Next]_vars
    PROVE  HandlesAhead'
<1>1. TypeOK
  BY DEF FenceInv
<1> SUFFICES ASSUME NEW s \in Sends, pc'[s] = "enqueue", Draft[s].receiver \in Readers
             PROVE  /\ handle'[s] > 0
                    /\ \A q \in queue' : Draft[q.by].receiver = Draft[s].receiver => q.handle < handle'[s]
                    /\ \A b \in inbox' : Draft[b.by].receiver = Draft[s].receiver => b.id < handle'[s]
  BY DEF HandlesAhead
<1>2. CASE SendAlloc(s)
  BY <1>1, <1>2, FreshHandle
<1>3. CASE pc[s] = "enqueue" /\ handle'[s] = handle[s] /\ ~ SendStep(s)
  <2>1. /\ handle[s] > 0
        /\ \A q \in queue : Draft[q.by].receiver = Draft[s].receiver => q.handle < handle[s]
        /\ \A b \in inbox : Draft[b.by].receiver = Draft[s].receiver => b.id < handle[s]
    BY <1>3 DEF HandlesAhead
  <2>2. ASSUME NEW t \in Sends, SendEnqueue(t) \/ SendFallback(t)
        PROVE  Draft[t].receiver # Draft[s].receiver
    <3>1. t # s
      BY <1>3, <2>2 DEF SendStep
    <3> QED
      BY <1>3, <2>2, <3>1, MailboxFence DEF InFlight
  <2>3. ASSUME NEW q \in queue', Draft[q.by].receiver = Draft[s].receiver PROVE q.handle < handle[s]
    <3>1. ASSUME NEW t \in Sends, SendEnqueue(t), q = QueueRow(<<"live", handle[t]>>, t, handle[t])
          PROVE  FALSE
      <4>1. q.by = t
        BY <3>1 DEF QueueRow
      <4> QED
        BY <2>2, <2>3, <3>1, <4>1
    <3>2. ASSUME NEW b \in inbox, q = QueueRow(<<"adopted", b.id>>, b.by, b.id)
          PROVE  q.handle < handle[s]
      <4>1. q.by = b.by /\ q.handle = b.id
        BY <3>2 DEF QueueRow
      <4> QED
        BY <2>1, <2>3, <4>1
    <3> QED
      BY <1>1, <2>1, <2>3, <3>1, <3>2, QueueMoves
  <2>4. ASSUME NEW c \in inbox', Draft[c.by].receiver = Draft[s].receiver PROVE c.id < handle[s]
    BY <1>1, <2>1, <2>2, <2>4, InboxMoves
  <2> QED
    BY <1>3, <2>1, <2>3, <2>4
<1> QED
  BY <1>1, <1>2, <1>3, AboutToEnqueue

(* A cursor moves only in a list of its reader; what was listed stays listed.           *)
LEMMA CursorMoves ==
    ASSUME TypeOK, [Next]_vars
    PROVE  /\ shown \subseteq shown'
           /\ \A r \in Readers : cursor'[r] = cursor[r] \/ SeatList(r)
<1>1. CASE UNCHANGED <<cursor, shown>>
  BY <1>1
<1>2. ASSUME NEW r \in Readers, SeatList(r)
      PROVE  shown \subseteq shown' /\ \A u \in Readers : cursor'[u] = cursor[u] \/ u = r
  BY <1>2 DEF SeatList, TypeOK
<1>3. UNCHANGED <<cursor, shown>> \/ \E r \in Readers : SeatList(r)
  BY DEF Next, SendStep, AdoptStep, SendBegin, SendWindow, SendAlloc, SendEnqueue, SendRefused, SendBusy,
         SendFallback, SendBlind, SendFault, AdoptScan, AdoptEnd, AdoptEnqueue, AdoptPoison, AdoptRetire,
         AdoptBusy, AdoptFault, SeatAck, Advance, Crash, vars
<1> QED
  BY <1>1, <1>2, <1>3

(* Every step keeps each reader's cursor at a row of its own, with the live rows up to it    *)
(* listed.                                                                  *)
LEMMA CursorStep ==
    ASSUME FenceInv, ListedInv, [Next]_vars
    PROVE  CursorListed'
<1>1. TypeOK /\ HandlesAhead /\ CursorListed /\ LiveAckOnlyListed /\ shown \subseteq shown'
  BY CursorMoves DEF FenceInv, ListedInv
<1> DEFINE AtRow(r) ==
             cursor'[r] = 0 \/ \E q \in queue' : Draft[q.by].receiver = r /\ q.handle = cursor'[r]
<1> SUFFICES ASSUME NEW r \in Readers
             PROVE  /\ AtRow(r)
                    /\ \A q \in queue' : q.key[1] = "live" /\ Draft[q.by].receiver = r
                                             /\ q.handle <= cursor'[r] => q.key \in shown'
  BY DEF CursorListed
<1>2. CASE SeatList(r)
  <2>1. queue' = queue /\ shown' = shown \cup {q.key : q \in Owed(r)}
    BY <1>2 DEF SeatList, tables
  <2>2. PICK p \in Owed(r) : cursor' = [cursor EXCEPT ![r] = p.handle]
    BY <1>2 DEF SeatList
  <2>3. cursor'[r] = p.handle
    BY <1>1, <2>2 DEF TypeOK
  <2>4. AtRow(r)
    BY <2>1, <2>3 DEF Owed
  <2>5. ASSUME NEW q \in queue, q.key[1] = "live", Draft[q.by].receiver = r PROVE q.key \in shown'
    BY <1>1, <2>1, <2>5 DEF Owed, LiveAckOnlyListed
  <2> QED
    BY <2>1, <2>4, <2>5
<1>3. CASE cursor'[r] = cursor[r]
  <2>1. /\ cursor[r] = 0 \/ \E q \in queue : Draft[q.by].receiver = r /\ q.handle = cursor[r]
        /\ \A q \in queue : q.key[1] = "live" /\ Draft[q.by].receiver = r /\ q.handle <= cursor[r]
                                => q.key \in shown
    BY <1>1 DEF CursorListed
  <2>2. AtRow(r)
    BY <1>1, <1>3, <2>1, QueueMoves
  <2>3. ASSUME NEW q \in queue', q.key[1] = "live", Draft[q.by].receiver = r, q.handle <= cursor[r]
        PROVE  q.key \in shown'
    <3>1. ASSUME NEW t \in Sends, SendEnqueue(t), q = QueueRow(<<"live", handle[t]>>, t, handle[t])
          PROVE  FALSE
      <4>1. q.by = t /\ q.handle = handle[t]
        BY <3>1 DEF QueueRow
      <4>2. handle[t] > 0 /\ \A p \in queue : Draft[p.by].receiver = r => p.handle < handle[t]
        BY <1>1, <2>3, <3>1, <4>1 DEF HandlesAhead, SendEnqueue
      <4>3. cursor[r] < handle[t]
        BY <2>1, <4>2
      <4>4. cursor[r] \in Nat /\ handle[t] \in Nat
        BY <1>1 DEF TypeOK
      <4> QED
        BY <2>3, <4>1, <4>3, <4>4
    <3>2. ASSUME NEW b \in inbox, q = QueueRow(<<"adopted", b.id>>, b.by, b.id) PROVE FALSE
      <4>1. q.key[1] = "adopted"
        BY <3>2 DEF QueueRow
      <4> QED
        BY <2>3, <4>1
    <3>3. ASSUME NEW p \in queue, q.key = p.key, q.by = p.by, q.handle = p.handle PROVE q.key \in shown'
      BY <1>1, <2>1, <2>3, <3>3
    <3> QED
      BY <1>1, <3>1, <3>2, <3>3, QueueMoves
  <2> QED
    BY <1>3, <2>2, <2>3
<1> QED
  BY <1>1, <1>2, <1>3, CursorMoves

(* Every step settles, of the live rows, only listed ones.                           *)
LEMMA ListedStep ==
    ASSUME FenceInv, ListedInv, [Next]_vars
    PROVE  LiveAckOnlyListed'
<1>1. TypeOK /\ CursorListed /\ LiveAckOnlyListed /\ shown \subseteq shown'
  BY CursorMoves DEF FenceInv, ListedInv
<1> SUFFICES ASSUME NEW q \in queue', q.settled, q.key[1] = "live" PROVE q.key \in shown
  BY <1>1 DEF LiveAckOnlyListed
<1>2. ASSUME NEW p \in queue, q.key = p.key, q.by = p.by, q.handle = p.handle,
             \/ q.settled = p.settled
             \/ \E r \in Readers : SeatAck(r) /\ p \in Owed(r) /\ p.handle <= cursor[r]
      PROVE  q.key \in shown
  <2>1. CASE q.settled = p.settled
    BY <1>1, <1>2, <2>1 DEF LiveAckOnlyListed
  <2>2. ASSUME NEW r \in Readers, p \in Owed(r), p.handle <= cursor[r] PROVE q.key \in shown
    BY <1>1, <1>2, <2>2 DEF CursorListed, Owed
  <2> QED
    BY <1>2, <2>1, <2>2
<1>3. ASSUME NEW s \in Sends, q = QueueRow(<<"live", handle[s]>>, s, handle[s]) PROVE FALSE
  BY <1>3 DEF QueueRow
<1>4. ASSUME NEW b \in inbox, q = QueueRow(<<"adopted", b.id>>, b.by, b.id) PROVE FALSE
  BY <1>4 DEF QueueRow
<1> QED
  BY <1>1, <1>2, <1>3, <1>4, QueueMoves

(* If the sends to one mailbox share a lock, an ack by cursor settles, of the               *)
(* rows that sends put into the queue, only rows that a list answer carried: although a send  *)
(* takes its handle in one transaction and appears under it in a later one.         *)
THEOREM AcksOnlyWhatWasListed ==
    ASSUME MailboxesFenced
    PROVE  Spec => []LiveAckOnlyListed
<1>1. Init => ListedInv
  <2> SUFFICES ASSUME Init PROVE ListedInv
    OBVIOUS
  <2>1. \A s \in Sends : pc[s] # "enqueue"
    BY DEF Init
  <2> QED
    BY <2>1 DEF Init, ListedInv, HandlesAhead, CursorListed, LiveAckOnlyListed
<1>2. FenceInv /\ ListedInv /\ [Next]_vars => ListedInv'
  BY AheadStep, CursorStep, ListedStep DEF ListedInv
<1>3. ListedInv => LiveAckOnlyListed
  BY DEF ListedInv
<1> QED
  BY <1>1, <1>2, <1>3, SendsAreFenced, PTL DEF Spec

-----------------------------------------------------------------------------
(* Of two identical callbacks inside the window one is suppressed.             *)

(* A step after which there was no fault was none, and the clock never goes back.       *)
LEMMA NoFault ==
    ASSUME TypeOK, [Next]_vars, faults' = 0
    PROVE  /\ faults = 0
           /\ blind' = blind
           /\ now' = now \/ now' = now + 1
           /\ ~ Crash
           /\ \A s \in Sends : ~ SendBlind(s) /\ ~ SendFault(s)
<1>1. faults \in Nat
  BY DEF TypeOK
<1>2. faults' = faults \/ faults' = faults + 1
  BY DEF Next, SendStep, AdoptStep, SendBegin, SendWindow, SendAlloc, SendEnqueue, SendRefused, SendBusy,
         SendFallback, SendBlind, SendFault, AdoptScan, AdoptEnd, AdoptEnqueue, AdoptPoison, AdoptRetire,
         AdoptBusy, AdoptFault, SeatList, SeatAck, Advance, Crash, Commit, vars
<1>3. faults = 0 /\ faults' = faults
  BY <1>1, <1>2
<1>4. ~ Crash /\ \A s \in Sends : ~ SendBlind(s) /\ ~ SendFault(s)
  BY <1>3 DEF Crash, SendBlind, SendFault
<1>5. blind' = blind
  BY <1>4 DEF Next, SendStep, AdoptStep, SendBegin, SendWindow, SendAlloc, SendEnqueue, SendRefused,
         SendBusy, SendFallback, AdoptScan, AdoptEnd, AdoptEnqueue, AdoptPoison, AdoptRetire,
         AdoptBusy, AdoptFault, SeatList, SeatAck, Advance, vars
<1>6. now' = now \/ now' = now + 1
  BY DEF Next, SendStep, AdoptStep, SendBegin, SendWindow, SendAlloc, SendEnqueue, SendRefused, SendBusy,
         SendFallback, SendBlind, SendFault, AdoptScan, AdoptEnd, AdoptEnqueue, AdoptPoison, AdoptRetire,
         AdoptBusy, AdoptFault, SeatList, SeatAck, Advance, Crash, vars
<1> QED
  BY <1>3, <1>4, <1>5, <1>6

(* A row that a send wrote was there before the step, or one send writes it in the step.    *)
LEMMA SentMoves ==
    ASSUME TypeOK, [Next]_vars, NEW row \in Sent'
    PROVE  \/ \E old \in Sent : row.by = old.by /\ row.at = old.at
           \/ \E t \in Sends : (SendEnqueue(t) \/ SendFallback(t)) /\ row.by = t /\ row.at = now
<1>1. CASE row \in inbox'
  BY <1>1, InboxMoves DEF Sent
<1>2. CASE row \in queue' /\ row.key[1] = "live"
  <2>1. ASSUME NEW b \in inbox, row = QueueRow(<<"adopted", b.id>>, b.by, b.id) PROVE FALSE
    <3>1. row.key[1] = "adopted"
      BY <2>1 DEF QueueRow
    <3> QED
      BY <1>2, <3>1
  <2>2. ASSUME NEW t \in Sends, row = QueueRow(<<"live", handle[t]>>, t, handle[t])
        PROVE  row.by = t /\ row.at = now
    BY <2>2 DEF QueueRow
  <2> QED
    BY <1>2, <2>1, <2>2, QueueMoves DEF Sent
<1> QED
  BY <1>1, <1>2 DEF Sent

(* A send that writes is in its last transaction, and is the only one that moves.          *)
LEMMA Writer ==
    ASSUME TypeOK, NEW t \in Sends, SendEnqueue(t) \/ SendFallback(t)
    PROVE  /\ pc[t] \in {"enqueue", "fallback"}
           /\ pc'[t] \in {"ok", "gone"}
           /\ \A u \in Sends \ {t} : pc'[u] = pc[u]
           /\ now' = now
BY DEF TypeOK, SendEnqueue, SendFallback, Commit, Goto

(* Where a send in flight was before a step without fault.                             *)
LEMMA WindowMoves ==
    ASSUME TypeOK, [Next]_vars, faults' = 0, NEW s \in Sends
    PROVE  /\ pc'[s] = "window" => pc[s] = "window" \/ (SendBegin(s) /\ InboxDuplicates(s) = {})
           /\ pc'[s] \in {"alloc", "enqueue", "fallback"} =>
                 \/ pc[s] \in {"alloc", "enqueue", "fallback"}
                 \/ SendWindow(s) /\ QueueDuplicates(s) = {}
<1>1. ~ Crash /\ ~ SendBlind(s) /\ ~ SendFault(s)
  BY NoFault
<1>2. CASE SendStep(s)
  BY <1>1, <1>2 DEF SendStep, SendBegin, SendWindow, SendAlloc, SendEnqueue, SendRefused, SendBusy,
         SendFallback, Commit, Goto, Answer, TypeOK
<1>3. CASE ~ SendStep(s) /\ \E t \in Sends : SendStep(t)
  BY <1>3, SendEffect
<1> QED
  BY <1>1, <1>2, <1>3, WhoMoves

(* While a repeatable send is in flight, no twin of it writes: both hold the watchdog's lock.  *)
LEMMA TwinFence ==
    ASSUME FenceInv, NEW s \in Sends, InFlight(s), Draft[s].dedup,
           NEW t \in Sends, SendEnqueue(t) \/ SendFallback(t), SameMessage(t, s)
    PROVE  t = s
<1>1. Draft[t].dedup
  BY SendsOK
<1>2. SharesLock(s, t)
  BY <1>1, SendsOK DEF SharesLock
<1> QED
  BY <1>2, Fence DEF FenceInv

(* A row that was not recent is not recent after the step.                              *)
LEMMA StaysOld ==
    ASSUME TypeOK, [Next]_vars, faults' = 0, NEW row, row.at \in Nat, ~ Recent(row, now)
    PROVE  ~ (row.at >= now' - WINDOW)
<1>1. now \in Nat /\ WINDOW \in Nat
  BY SendsOK DEF TypeOK
<1>2. now' = now \/ now' = now + 1
  BY NoFault
<1> QED
  BY <1>1, <1>2 DEF Recent

(* Every step without fault keeps what a send in flight saw of its twins.                 *)
LEMMA WindowStep ==
    ASSUME FenceInv, blind = {}, WindowClear, [Next]_vars, faults' = 0
    PROVE  WindowClear'
<1>1. TypeOK
  BY DEF FenceInv
<1>2. \A row \in Sent : row.at \in Nat
  BY <1>1 DEF TypeOK, Sent
<1> DEFINE Clear(s, rows) == \A row \in rows : SameMessage(row.by, s) => ~ (row.at >= now' - WINDOW)
<1>3. ASSUME NEW s \in Sends, Draft[s].dedup, pc'[s] = "window" PROVE Clear(s, inbox')
  <2>1. \A b \in inbox : SameMessage(b.by, s) => ~ Recent(b, now)
    <3>1. CASE pc[s] = "window"
      BY <1>3, <3>1 DEF WindowClear
    <3>2. CASE InboxDuplicates(s) = {}
      BY <1>3, <3>2 DEF InboxDuplicates
    <3> QED
      BY <1>1, <1>3, <3>1, <3>2, WindowMoves
  <2> SUFFICES ASSUME NEW c \in inbox', SameMessage(c.by, s) PROVE ~ (c.at >= now' - WINDOW)
    OBVIOUS
  <2>2. ASSUME NEW b \in inbox, c.by = b.by, c.at = b.at PROVE ~ (c.at >= now' - WINDOW)
    <3>1. ~ Recent(b, now) /\ b.at \in Nat
      BY <1>2, <2>1, <2>2 DEF Sent
    <3> QED
      BY <1>1, <2>2, <3>1, StaysOld
  <2>3. ASSUME NEW t \in Sends, SendFallback(t), c.by = t PROVE FALSE
    <3>1. pc[s] = "window"
      BY <1>1, <1>3, <2>3, Writer, WindowMoves DEF SendFallback, SendBegin, Commit, Goto, TypeOK
    <3>2. t = s
      BY <1>3, <2>3, <3>1, TwinFence DEF InFlight
    <3> QED
      BY <1>1, <2>3, <3>1, <3>2, Writer
  <2> QED
    BY <1>1, <2>2, <2>3, InboxMoves
<1>4. ASSUME NEW s \in Sends, Draft[s].dedup, pc'[s] \in {"alloc", "enqueue", "fallback"}
      PROVE  Clear(s, Sent')
  <2>1. InFlight(s) /\ \A row \in Sent : SameMessage(row.by, s) => ~ Recent(row, now)
    <3>1. CASE pc[s] \in {"alloc", "enqueue", "fallback"}
      BY <1>4, <3>1 DEF WindowClear, InFlight
    <3>2. CASE SendWindow(s) /\ QueueDuplicates(s) = {}
      <4>1. pc[s] = "window"
        BY <3>2 DEF SendWindow
      <4>2. \A b \in inbox : SameMessage(b.by, s) => ~ Recent(b, now)
        BY <1>4, <4>1 DEF WindowClear
      <4>3. \A q \in queue : SameMessage(q.by, s) => ~ Recent(q, now)
        BY <1>4, <3>2 DEF QueueDuplicates
      <4> QED
        BY <4>1, <4>2, <4>3 DEF Sent, InFlight
    <3> QED
      BY <1>1, <1>4, <3>1, <3>2, WindowMoves
  <2> SUFFICES ASSUME NEW row \in Sent', SameMessage(row.by, s) PROVE ~ (row.at >= now' - WINDOW)
    OBVIOUS
  <2>2. ASSUME NEW old \in Sent, row.by = old.by, row.at = old.at PROVE ~ (row.at >= now' - WINDOW)
    <3>1. ~ Recent(old, now) /\ old.at \in Nat
      BY <1>2, <2>1, <2>2
    <3> QED
      BY <1>1, <2>2, <3>1, StaysOld
  <2>3. ASSUME NEW t \in Sends, SendEnqueue(t) \/ SendFallback(t), row.by = t PROVE FALSE
    <3>1. t = s
      BY <1>4, <2>1, <2>3, TwinFence
    <3> QED
      BY <1>1, <1>4, <2>3, <3>1, Writer
  <2> QED
    BY <1>1, <2>2, <2>3, SentMoves
<1> QED
  BY <1>3, <1>4 DEF WindowClear, Recent, SameMessage

(* Every step without fault keeps twins a window apart.                                *)
LEMMA RepeatStep ==
    ASSUME FenceInv, WindowClear, RepeatSuppressed, [Next]_vars
    PROVE  RepeatSuppressed'
<1>1. TypeOK
  BY DEF FenceInv
<1> DEFINE Apart(a, b) == a.at < b.at - WINDOW \/ b.at < a.at - WINDOW
           Twins(s, t) == s # t /\ Draft[s].dedup /\ Draft[t].dedup /\ SameMessage(s, t)
           Old(row) == \E old \in Sent : row.by = old.by /\ row.at = old.at
           New(row) == \E t \in Sends : (SendEnqueue(t) \/ SendFallback(t)) /\ row.by = t /\ row.at = now
<1>2. WINDOW \in Nat /\ now \in Nat /\ \A row \in Sent : row.at \in Nat /\ row.by \in Sends
  BY <1>1, SendsOK DEF TypeOK, Sent
<1>3. \A row \in Sent' : Old(row) \/ New(row)
  BY <1>1, SentMoves
<1>4. ASSUME NEW a, NEW b, Old(a), Old(b), Twins(a.by, b.by) PROVE Apart(a, b)
  BY <1>4 DEF RepeatSuppressed
<1>5. ASSUME NEW a, NEW b, New(a), Old(b), Twins(a.by, b.by) PROVE Apart(a, b)
  <2>1. PICK t \in Sends : (SendEnqueue(t) \/ SendFallback(t)) /\ a.by = t /\ a.at = now
    BY <1>5
  <2>2. PICK old \in Sent : b.by = old.by /\ b.at = old.at
    BY <1>5
  <2>3. pc[t] \in {"alloc", "enqueue", "fallback"}
    BY <1>1, <2>1, Writer
  <2>4. SameMessage(old.by, t) /\ Draft[t].dedup
    BY <1>5, <2>1, <2>2 DEF SameMessage
  <2>5. ~ Recent(old, now)
    BY <2>3, <2>4 DEF WindowClear
  <2> QED
    BY <1>2, <2>1, <2>2, <2>5 DEF Recent
<1>6. ASSUME NEW a, NEW b, New(a), New(b) PROVE a.by = b.by
  <2>1. PICK t \in Sends : (SendEnqueue(t) \/ SendFallback(t)) /\ a.by = t
    BY <1>6
  <2>2. PICK u \in Sends : (SendEnqueue(u) \/ SendFallback(u)) /\ b.by = u
    BY <1>6
  <2>3. pc[t] \in {"enqueue", "fallback"} /\ pc'[t] \in {"ok", "gone"}
    BY <1>1, <2>1, Writer
  <2>4. \A v \in Sends \ {u} : pc'[v] = pc[v]
    BY <1>1, <2>2, Writer
  <2> QED
    BY <2>1, <2>2, <2>3, <2>4
<1>7. \A row \in Sent' : row.by \in Sends
  BY <1>2, <1>3
<1> SUFFICES ASSUME NEW a \in Sent', NEW b \in Sent', a.by # b.by, Draft[a.by].dedup, SameMessage(a.by, b.by)
             PROVE  Apart(a, b)
  BY DEF RepeatSuppressed, SameMessage
<1>8. Twins(a.by, b.by) /\ Twins(b.by, a.by)
  BY <1>7, SendsOK DEF SameMessage
<1> HIDE DEF Twins, Old, New
<1>9. Apart(b, a) => Apart(a, b)
  OBVIOUS
<1> HIDE DEF Apart
<1> QED
  BY <1>3, <1>4, <1>5, <1>6, <1>8, <1>9

(* Until the first crash or store error, of two identical callbacks inside the window one is    *)
(* suppressed, although the window is looked up in two tables, on two connections, and the   *)
(* insert is a transaction of its own after both, if the rows older than the queue hold none.    *)
THEOREM RepeatsAreSuppressed ==
    ASSUME LegacyApart
    PROVE  Spec => [](faults = 0 => RepeatSuppressed)
<1>1. Init => RepeatInv
  <2> SUFFICES ASSUME Init PROVE RepeatInv
    OBVIOUS
  <2>1. \A s \in Sends : pc[s] \in {"ok", "idle"}
    BY DEF Init
  <2>2. WindowClear /\ blind = {}
    BY <2>1 DEF WindowClear, Init
  <2>3. \A row \in Sent : row.by \in Predate
    BY DEF Init, Sent, Predate
  <2>4. RepeatSuppressed
    BY <2>3 DEF RepeatSuppressed, LegacyApart
  <2> QED
    BY <2>2, <2>4 DEF RepeatInv
<1>2. FenceInv /\ RepeatInv /\ [Next]_vars => RepeatInv'
  <2> SUFFICES ASSUME FenceInv, RepeatInv, [Next]_vars, faults' = 0
               PROVE  blind' = {} /\ WindowClear' /\ RepeatSuppressed'
    BY DEF RepeatInv
  <2>1. faults = 0 /\ blind' = blind
    BY NoFault DEF FenceInv
  <2>2. blind = {} /\ WindowClear /\ RepeatSuppressed
    BY <2>1 DEF RepeatInv
  <2> QED
    BY <2>1, <2>2, WindowStep, RepeatStep
<1>3. RepeatInv => (faults = 0 => RepeatSuppressed)
  BY DEF RepeatInv
<1> QED
  BY <1>1, <1>2, <1>3, SendsAreFenced, PTL DEF Spec

-----------------------------------------------------------------------------
(* The two tables together implement the message lifecycle.                  *)

(* A step that keeps who has written and whose rows are settled is a stutter of the        *)
(* lifecycle.                                                               *)
LEMMA SameProgress ==
    ASSUME \A s \in Sends \ Predate : (Written(s)' <=> Written(s)) /\ (Settled(s)' <=> Settled(s))
    PROVE  UNCHANGED progress
BY DEF progress

(* A step that writes the first row of one send, unsettled, accepts its message.            *)
LEMMA FirstRowAccepts ==
    ASSUME NEW t \in Sends \ Predate, ~ Written(t), Written(t)', ~ Settled(t)',
           \A s \in (Sends \ Predate) \ {t} : (Written(s)' <=> Written(s)) /\ (Settled(s)' <=> Settled(s))
    PROVE  Lifecycle!Accept(t)
<1>1. progress[t] = "none"
  BY DEF progress
<1>2. progress' = [progress EXCEPT ![t] = "owed"]
  BY DEF progress
<1> QED
  BY <1>1, <1>2 DEF Lifecycle!Accept

(* A step that leaves the queue alone, and in the inbox who has rows.                  *)
LEMMA QuietTables ==
    ASSUME queue' = queue, \A s \in Sends : (\E c \in inbox' : c.by = s) <=> (\E b \in inbox : b.by = s)
    PROVE  UNCHANGED progress
<1>1. \A s \in Sends \ Predate : Written(s)' <=> Written(s)
  BY DEF Written
<1>2. \A s \in Sends \ Predate : Settled(s)' <=> Settled(s)
  BY DEF Settled
<1> QED
  BY <1>1, <1>2, SameProgress

(* A send's insert into the queue accepts its message, or finds the key taken.            *)
LEMMA EnqueueAccepts ==
    ASSUME CarriageInv, FenceInv, NEW t \in Sends, SendEnqueue(t)
    PROVE  Lifecycle!Next \/ UNCHANGED progress
<1> DEFINE key == <<"live", handle[t]>>
           row == QueueRow(key, t, handle[t])
<1>1. inbox' = inbox /\ pc[t] = "enqueue" /\ t \in Sends \ Predate
  BY DEF SendEnqueue, FenceInv, GuardHeld
<1>2. ~ Written(t)
  BY <1>1 DEF CarriageInv, WritesOnce, Written
<1>3. CASE Taken(key)
  BY <1>1, <1>3, QuietTables DEF SendEnqueue, enqueue
<1>4. CASE ~ Taken(key)
  <2>1. queue' = queue \cup {row}
    BY <1>4 DEF SendEnqueue, enqueue
  <2>2. row.by = t /\ row.settled = FALSE
    BY DEF QueueRow
  <2> HIDE DEF row
  <2>3. Written(t)' /\ ~ Settled(t)'
    BY <2>1, <2>2 DEF Written, Settled
  <2>4. ASSUME NEW s \in (Sends \ Predate) \ {t}
        PROVE  (Written(s)' <=> Written(s)) /\ (Settled(s)' <=> Settled(s))
    BY <1>1, <2>1, <2>2 DEF Written, Settled
  <2>5. Lifecycle!Accept(t)
    BY <1>1, <1>2, <2>3, <2>4, FirstRowAccepts
  <2> QED
    BY <1>1, <2>5 DEF Lifecycle!Next
<1> QED
  BY <1>3, <1>4

(* A fallback accepts the message too.                                            *)
LEMMA FallbackAccepts ==
    ASSUME CarriageInv, FenceInv, NEW t \in Sends, SendFallback(t)
    PROVE  Lifecycle!Next
<1>1. queue' = queue /\ pc[t] = "fallback" /\ t \in Sends \ Predate
  BY DEF SendFallback, FenceInv, GuardHeld
<1>2. ~ Written(t)
  BY <1>1 DEF CarriageInv, WritesOnce, Written
<1>3. PICK n \in AboveAll(InboxIds) :
             inbox' = inbox \cup {[id |-> n, by |-> t, at |-> now, status |-> "pending"]}
  BY DEF SendFallback, InsertInbox
<1> DEFINE row == [id |-> n, by |-> t, at |-> now, status |-> "pending"]
<1>4. row.by = t /\ inbox' = inbox \cup {row}
  BY <1>3
<1> HIDE DEF row
<1>5. Written(t)' /\ ~ Settled(t)'
  BY <1>1, <1>2, <1>4 DEF Written, Settled
<1>6. ASSUME NEW s \in (Sends \ Predate) \ {t}
      PROVE  (Written(s)' <=> Written(s)) /\ (Settled(s)' <=> Settled(s))
  BY <1>1, <1>4 DEF Written, Settled
<1>7. Lifecycle!Accept(t)
  BY <1>1, <1>2, <1>5, <1>6, FirstRowAccepts
<1> QED
  BY <1>1, <1>7 DEF Lifecycle!Next

(* Adoption moves a message that is owed, and adds no row to one the queue already has.        *)
LEMMA AdoptionStutters ==
    ASSUME CarriageInv, NEW b \in inbox, AdoptEnqueue(b)
    PROVE  UNCHANGED progress
<1> DEFINE key == <<"adopted", b.id>>
           row == QueueRow(key, b.by, b.id)
<1>1. inbox' = inbox
  BY DEF AdoptEnqueue
<1>2. CASE Taken(key)
  BY <1>1, <1>2, QuietTables DEF AdoptEnqueue, enqueue
<1>3. CASE ~ Taken(key)
  <2>1. queue' = queue \cup {row}
    BY <1>3 DEF AdoptEnqueue, enqueue
  <2>2. row.by = b.by /\ row.settled = FALSE
    BY DEF QueueRow
  <2>3. \A q \in queue : q.by # b.by
    BY <1>3 DEF CarriageInv, CarriedOnce, Taken
  <2> HIDE DEF row
  <2>4. ASSUME NEW s \in Sends \ Predate
        PROVE  (Written(s)' <=> Written(s)) /\ (Settled(s)' <=> Settled(s))
    <3>1. CASE s = b.by
      <4>1. Written(s) /\ Written(s)'
        BY <1>1, <3>1 DEF Written
      <4>2. ~ Settled(s) /\ ~ Settled(s)'
        BY <2>1, <2>2, <2>3, <3>1 DEF Settled
      <4> QED
        BY <4>1, <4>2
    <3>2. CASE s # b.by
      BY <1>1, <2>1, <2>2, <3>2 DEF Written, Settled
    <3> QED
      BY <3>1, <3>2
  <2> QED
    BY <2>4, SameProgress
<1> QED
  BY <1>2, <1>3

(* An ack ends the messages whose rows it settles.                                   *)
LEMMA AckEnds ==
    ASSUME TypeOK, NEW r \in Readers, SeatAck(r)
    PROVE  Lifecycle!Next \/ UNCHANGED progress
<1> DEFINE covered == {q \in Owed(r) : q.handle <= cursor[r]}
           Settle(q) == [q EXCEPT !.settled = TRUE]
           ended == {s \in Sends \ Predate : progress[s] = "owed" /\ progress'[s] = "delivered"}
<1>1. queue' = (queue \ covered) \cup {Settle(q) : q \in covered} /\ inbox' = inbox
  BY DEF SeatAck
<1>2. covered \subseteq queue /\ \A q \in covered : ~ q.settled
  BY DEF Owed
<1>3. \A q \in queue : Settle(q).by = q.by
  BY DEF TypeOK
<1> HIDE DEF Settle, covered
<1>4. \A s \in Sends \ Predate : Written(s)' <=> Written(s)
  BY <1>1, <1>2, <1>3 DEF Written
<1>5. \A s \in Sends \ Predate : Settled(s) => Settled(s)'
  BY <1>1, <1>2, <1>3 DEF Settled
<1>6. \A s \in Sends \ Predate : progress'[s] = progress[s] \/ (progress[s] = "owed" /\ progress'[s] = "delivered")
  BY <1>4, <1>5 DEF progress
<1>7. progress' = [s \in Sends \ Predate |-> IF s \in ended THEN "delivered" ELSE progress[s]]
  <2>1. \A s \in Sends \ Predate : progress'[s] = IF s \in ended THEN "delivered" ELSE progress[s]
    BY <1>6
  <2> QED
    BY <2>1 DEF progress
<1>8. CASE ended = {}
  <2>1. \A s \in Sends \ Predate : progress'[s] = progress[s]
    BY <1>6, <1>8
  <2> QED
    BY <2>1 DEF progress
<1>9. CASE ended # {}
  <2>1. ended \in SUBSET (Sends \ Predate) /\ \A s \in ended : progress[s] = "owed"
    OBVIOUS
  <2>2. Lifecycle!End(ended, "delivered")
    BY <1>7, <1>9, <2>1 DEF Lifecycle!End
  <2>3. "delivered" \in Lifecycle!Endings
    BY DEF Lifecycle!Endings
  <2> QED
    BY <2>1, <2>2, <2>3 DEF Lifecycle!Next
<1> QED
  BY <1>8, <1>9

(* Every step accepts one message, ends some, or leaves the lifecycle alone.               *)
LEMMA SendLifecycleStep ==
    ASSUME CarriageInv, FenceInv, [Next]_vars
    PROVE  Lifecycle!Next \/ UNCHANGED progress
<1>1. TypeOK
  BY DEF FenceInv
<1>2. CASE \E t \in Sends : SendEnqueue(t)
  BY <1>2, EnqueueAccepts
<1>3. CASE \E t \in Sends : SendFallback(t)
  BY <1>3, FallbackAccepts
<1>4. CASE \E b \in inbox : AdoptEnqueue(b)
  BY <1>4, AdoptionStutters
<1>5. CASE \E r \in Readers : SeatAck(r)
  BY <1>1, <1>5, AckEnds
<1>6. CASE queue' = queue /\ ~ \E t \in Sends : SendFallback(t)
  BY <1>1, <1>6, InboxMoves, QuietTables
<1>7. \/ queue' = queue
      \/ \E t \in Sends : SendEnqueue(t)
      \/ \E b \in inbox : AdoptEnqueue(b)
      \/ \E r \in Readers : SeatAck(r)
  BY DEF Next, SendStep, AdoptStep, SendBegin, SendWindow, SendAlloc, SendRefused, SendBusy, SendFallback,
         SendBlind, SendFault, AdoptScan, AdoptEnd, AdoptPoison, AdoptRetire, AdoptBusy, AdoptFault,
         SeatList, Advance, Crash, vars, tables
<1> QED
  BY <1>2, <1>3, <1>4, <1>5, <1>6, <1>7

(* The queue and the inbox together implement the message lifecycle that the queue alone       *)
(* implements: a send's message is accepted once, by one table or the other, and ends for     *)
(* good; a fallback, an adoption repeated after a crash, or a failed retire neither accepts   *)
(* it again nor makes a settled one owed.                                          *)
THEOREM TablesImplementLifecycle == Spec => RefinesLifecycle
<1>1. Init => Lifecycle!Init
  <2> SUFFICES ASSUME Init PROVE Lifecycle!Init
    OBVIOUS
  <2>1. \A row \in queue \cup inbox : row.by \in Predate
    BY DEF Init, Predate
  <2>2. \A s \in Sends \ Predate : ~ Written(s)
    BY <2>1 DEF Written
  <2> QED
    BY <2>2 DEF Lifecycle!Init, progress
<1>2. CarriageInv /\ FenceInv /\ [Next]_vars => [Lifecycle!Next]_progress
  BY SendLifecycleStep
<1> QED
  BY <1>1, <1>2, Carriage, SendsAreFenced, PTL DEF Spec, RefinesLifecycle, Lifecycle!Spec
=============================================================================
