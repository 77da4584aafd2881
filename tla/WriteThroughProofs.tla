------------------------- MODULE WriteThroughProofs -------------------------
(***************************************************************************)
(* Proofs about module WriteThrough, for any sends, drafts, legacy rows and *)
(* bounds: adoption and fallback carry every message once, whatever fails.  *)
(*                                                                         *)
(* The argument rests on two orders of the code: a send writes to one table *)
(* and is answered in the same step, and adoption enqueues under a key made *)
(* from the row's id before it retires the row.                             *)
(***************************************************************************)
EXTENDS WriteThrough, TLAPS

(* The parts of the invariant about the tables.                             *)
Carried == RowsIdentified /\ AdoptedStems /\ WritesOnce /\ CarriedOnce /\ RetiredIsCarried

(* What a step that writes no row looks like to these parts: no send goes     *)
(* back to a place from which it writes, and no item is up for retirement      *)
(* that was not before.                                                     *)
Harmless ==
    /\ tables' = tables
    /\ \A s \in Sends : pc'[s] \notin {"ok", "gone"} => pc[s] \notin {"ok", "gone"}
    /\ adopt'.pc = "retire" => adopt.pc = "retire" /\ adopt'.item = adopt.item

(* Every step but five is harmless, so these leave the tables' parts alone.   *)
LEMMA HarmlessKeeps ==
    ASSUME Carried, Harmless
    PROVE  Carried'
  <1>1. queue' = queue /\ inbox' = inbox
    BY DEF Harmless, tables
  <1>2. (RowsIdentified /\ AdoptedStems /\ CarriedOnce /\ RetiredIsCarried)'
    BY <1>1 DEF Carried, RowsIdentified, AdoptedStems, CarriedOnce, RetiredIsCarried
  <1>3. WritesOnce'
    BY <1>1 DEF Carried, WritesOnce, Harmless
  <1> QED
    BY <1>2, <1>3 DEF Carried

(* next_surrogate_id and the inbox's own id are above what they are read from. *)
LEMMA AboveAllFacts ==
    ASSUME NEW used \in SUBSET Nat, NEW n \in AboveAll(used)
    PROVE  n \in Nat /\ \A u \in used : u < n
  BY DEF AboveAll

(* The fallback insert adds one row, with an id no row has.                  *)
LEMMA InsertedRow ==
    ASSUME TypeOK, NEW s \in Sends, InsertInbox(s)
    PROVE  \E n \in Nat :
              /\ \A b \in inbox : b.id # n
              /\ inbox' = inbox \cup {[id |-> n, by |-> s, at |-> now, status |-> "pending"]}
  <1>1. InboxIds \in SUBSET Nat
    BY DEF TypeOK, InboxIds
  <1>2. PICK n \in AboveAll(InboxIds) :
           inbox' = inbox \cup {[id |-> n, by |-> s, at |-> now, status |-> "pending"]}
    BY DEF InsertInbox
  <1>3. n \in Nat /\ \A u \in InboxIds : u < n
    BY <1>1, AboveAllFacts
  <1>4. \A b \in inbox : b.id # n
    BY <1>3, <1>1 DEF InboxIds
  <1> QED
    BY <1>2, <1>3, <1>4

(* The queue changes only by a row under a key that was free, or not at all.  *)
LEMMA EnqueuedRow ==
    ASSUME TypeOK, NEW key \in Key, NEW s \in Sends, NEW n \in Nat, enqueue(key, s, n)
    PROVE  queue' \subseteq [key : Key, by : Sends, handle : Nat, at : Nat, settled : BOOLEAN]
  <1>1. QueueRow(key, s, n) \in [key : Key, by : Sends, handle : Nat, at : Nat, settled : BOOLEAN]
    BY DEF TypeOK, QueueRow
  <1> QED
    BY <1>1 DEF TypeOK, enqueue

(* The initial state: the legacy rows are the only ones.                     *)
LEMMA CarriageInit == Init => CarriageInv
  <1> SUFFICES ASSUME Init PROVE CarriageInv
    OBVIOUS
  <1>1. DOMAIN Legacy \subseteq Nat /\ Predate \subseteq Sends
    BY SendsOK
  <1>2. \A n \in DOMAIN Legacy : Legacy[n] \in Predate
    BY DEF Predate
  <1>3. TypeOK
    BY <1>1, <1>2 DEF Init, TypeOK, NotAdopting
  <1>4. RowsIdentified
    BY SendsOK DEF Init, RowsIdentified
  <1>5. AdoptedStems /\ CarriedOnce
    BY DEF Init, AdoptedStems, CarriedOnce
  <1>6. WritesOnce
    BY <1>2 DEF Init, WritesOnce, NotAdopting
  <1>7. RetiredIsCarried
    BY DEF Init, RetiredIsCarried
  <1> QED
    BY <1>3, <1>4, <1>5, <1>6, <1>7 DEF CarriageInv

(* Each action keeps the types.                                             *)
LEMMA TypeStep == TypeOK /\ [Next]_vars => TypeOK'
  <1> SUFFICES ASSUME TypeOK, [Next]_vars PROVE TypeOK'
    OBVIOUS
  <1>1. ASSUME NEW s \in Sends, SendStep(s) PROVE TypeOK'
    <2>1. CASE SendBegin(s)
      BY <2>1 DEF TypeOK, SendBegin, Goto, tables
    <2>2. CASE SendWindow(s)
      BY <2>2 DEF TypeOK, SendWindow, Goto, Answer, tables
    <2>3. CASE SendAlloc(s)
      <3>1. Handles \in SUBSET Nat
        BY DEF TypeOK, Handles, InboxIds
      <3>2. \A n \in next_surrogate_id : n \in Nat
        BY <3>1, AboveAllFacts DEF next_surrogate_id
      <3> QED
        BY <2>3, <3>2 DEF TypeOK, SendAlloc, Goto, tables
    <2>4. CASE SendEnqueue(s)
      <3>1. handle[s] \in Nat /\ <<"live", handle[s]>> \in Key
        BY DEF TypeOK, Key
      <3>2. queue' \subseteq [key : Key, by : Sends, handle : Nat, at : Nat, settled : BOOLEAN]
        BY <2>4, <3>1, EnqueuedRow DEF SendEnqueue
      <3> QED
        BY <2>4, <3>2 DEF TypeOK, SendEnqueue, Commit, Goto
    <2>5. CASE SendRefused(s)
      BY <2>5 DEF TypeOK, SendRefused, Goto, tables
    <2>6. CASE SendBusy(s)
      BY <2>6 DEF TypeOK, SendBusy, Goto, tables
    <2>7. CASE SendFallback(s)
      <3>1. PICK n \in Nat :
              inbox' = inbox \cup {[id |-> n, by |-> s, at |-> now, status |-> "pending"]}
        BY <2>7, InsertedRow DEF SendFallback
      <3> QED
        BY <2>7, <3>1 DEF TypeOK, SendFallback, Commit, Goto
    <2>8. CASE SendFault(s)
      BY <2>8 DEF TypeOK, SendFault, Goto, tables
    <2>9. CASE SendBlind(s)
      BY <2>9 DEF TypeOK, SendBlind, Goto, tables
    <2> QED
      BY <1>1, <2>1, <2>2, <2>3, <2>4, <2>5, <2>6, <2>7, <2>8, <2>9 DEF SendStep
  <1>2. CASE AdoptScan
    <2>1. Scannable \subseteq Nat
      BY DEF TypeOK, Scannable
    <2> QED
      BY <1>2, <2>1 DEF TypeOK, AdoptScan, tables
  <1>3. CASE AdoptEnd \/ AdoptFault
    <2>1. CASE AdoptEnd
      BY <2>1 DEF TypeOK, AdoptEnd, NotAdopting, tables
    <2>2. CASE AdoptFault
      <3>1. adopt' \in [pc : {"idle", "adopt", "retire"}, todo : SUBSET Nat, item : Nat]
        BY <2>2 DEF TypeOK, AdoptFault, AfterItem
      <3> QED
        BY <2>2, <3>1 DEF TypeOK, AdoptFault, tables
    <2> QED
      BY <1>3, <2>1, <2>2
  <1>4. ASSUME NEW b \in inbox, AdoptEnqueue(b) PROVE TypeOK'
    <2>1. b.id \in Nat /\ b.by \in Sends /\ <<"adopted", b.id>> \in Key
      BY DEF TypeOK, Key
    <2>2. queue' \subseteq [key : Key, by : Sends, handle : Nat, at : Nat, settled : BOOLEAN]
      BY <1>4, <2>1, EnqueuedRow DEF AdoptEnqueue
    <2> QED
      BY <1>4, <2>1, <2>2 DEF TypeOK, AdoptEnqueue
  <1>5. ASSUME NEW b \in inbox, AdoptPoison(b) \/ AdoptBusy(b) PROVE TypeOK'
    BY <1>5 DEF TypeOK, AdoptPoison, AdoptBusy, Skip, tables
  <1>6. ASSUME NEW b \in inbox, AdoptRetire(b) PROVE TypeOK'
    BY <1>6 DEF TypeOK, AdoptRetire, Retire, AfterItem
  <1>7. ASSUME NEW r \in Readers, SeatList(r) PROVE TypeOK'
    BY <1>7 DEF TypeOK, SeatList, Owed, tables
  <1>8. ASSUME NEW r \in Readers, SeatAck(r) PROVE TypeOK'
    <2>1. \A q \in queue : [q EXCEPT !.settled = TRUE]
             \in [key : Key, by : Sends, handle : Nat, at : Nat, settled : BOOLEAN]
      BY DEF TypeOK
    <2>2. queue' \subseteq [key : Key, by : Sends, handle : Nat, at : Nat, settled : BOOLEAN]
      BY <1>8, <2>1 DEF TypeOK, SeatAck, Owed
    <2> QED
      BY <1>8, <2>2 DEF TypeOK, SeatAck
  <1>9. CASE Advance \/ Crash
    <2>1. CASE Advance
      BY <2>1 DEF TypeOK, Advance, tables
    <2>2. CASE Crash
      BY <2>2 DEF TypeOK, Crash, NotAdopting, tables
    <2> QED
      BY <1>9, <2>1, <2>2
  <1>10. CASE UNCHANGED vars
    BY <1>10 DEF TypeOK, vars, tables
  <1> QED
    BY <1>1, <1>2, <1>3, <1>4, <1>5, <1>6, <1>7, <1>8, <1>9, <1>10 DEF Next, AdoptStep

(* A send that reaches the queue adds the only row of that send.             *)
LEMMA SendEnqueueKeeps ==
    ASSUME TypeOK, Carried, NEW s \in Sends, SendEnqueue(s)
    PROVE  Carried'
  <1> DEFINE row == QueueRow(<<"live", handle[s]>>, s, handle[s])
  <1>1. inbox' = inbox /\ adopt' = adopt /\ pc' \in {[pc EXCEPT ![s] = "ok"], [pc EXCEPT ![s] = "gone"]}
    BY DEF SendEnqueue, Commit, Goto
  <1>2. \A r \in queue \cup inbox : r.by # s
    BY DEF SendEnqueue, Carried, WritesOnce
  <1>3. CASE queue' = queue
    BY <1>1, <1>3, HarmlessKeeps DEF Harmless, tables, TypeOK
  <1>4. CASE queue' = queue \cup {row} /\ ~ Taken(<<"live", handle[s]>>)
    <2>1. row.by = s /\ row.key = <<"live", handle[s]>> /\ row.key[1] # "adopted"
      BY DEF QueueRow
    <2>2. \A q \in queue : q.key # row.key
      BY <1>4, <2>1 DEF Taken
    <2> HIDE DEF row
    <2>3. RowsIdentified'
      BY <1>1, <1>4, <2>2 DEF Carried, RowsIdentified
    <2>4. AdoptedStems'
      BY <1>1, <1>4, <2>1 DEF Carried, AdoptedStems
    <2>5. WritesOnce'
      BY <1>1, <1>4, <2>1 DEF Carried, WritesOnce, TypeOK
    <2>6. CarriedOnce'
      BY <1>1, <1>2, <1>4, <2>1 DEF Carried, CarriedOnce
    <2>7. RetiredIsCarried'
      BY <1>1, <1>4 DEF Carried, RetiredIsCarried
    <2> QED
      BY <2>3, <2>4, <2>5, <2>6, <2>7 DEF Carried
  <1> QED
    BY <1>3, <1>4 DEF SendEnqueue, enqueue

(* A send that falls back adds the only row of that send, to the inbox.       *)
LEMMA SendFallbackKeeps ==
    ASSUME TypeOK, Carried, NEW s \in Sends, SendFallback(s)
    PROVE  Carried'
  <1>1. queue' = queue /\ adopt' = adopt /\ pc' \in {[pc EXCEPT ![s] = "ok"], [pc EXCEPT ![s] = "gone"]}
    BY DEF SendFallback, Commit, Goto
  <1>2. \A r \in queue \cup inbox : r.by # s
    BY DEF SendFallback, Carried, WritesOnce
  <1>3. PICK n \in Nat :
          /\ \A b \in inbox : b.id # n
          /\ inbox' = inbox \cup {[id |-> n, by |-> s, at |-> now, status |-> "pending"]}
    BY InsertedRow DEF SendFallback
  <1> DEFINE row == [id |-> n, by |-> s, at |-> now, status |-> "pending"]
  <1>4. row.id = n /\ row.by = s /\ row.status # "adopted"
    OBVIOUS
  <1>5. inbox' = inbox \cup {row}
    BY <1>3
  <1> HIDE DEF row
  <1>6. RowsIdentified'
    BY <1>1, <1>2, <1>3, <1>4, <1>5 DEF Carried, RowsIdentified
  <1>7. AdoptedStems'
    BY <1>1, <1>5 DEF Carried, AdoptedStems
  <1>8. WritesOnce'
    BY <1>1, <1>4, <1>5 DEF Carried, WritesOnce, TypeOK
  <1>9. CarriedOnce'
    BY <1>1, <1>2, <1>4, <1>5 DEF Carried, CarriedOnce
  <1>10. RetiredIsCarried'
    BY <1>1, <1>4, <1>5 DEF Carried, RetiredIsCarried
  <1> QED
    BY <1>6, <1>7, <1>8, <1>9, <1>10 DEF Carried

(* Adoption's enqueue adds a row only if the key made from the inbox row's id *)
(* is free, and then no queue row is of that send: a repeat changes nothing.   *)
LEMMA AdoptEnqueueKeeps ==
    ASSUME TypeOK, Carried, NEW b \in inbox, AdoptEnqueue(b)
    PROVE  Carried'
  <1> DEFINE key == <<"adopted", b.id>>
             row == QueueRow(key, b.by, b.id)
  <1>1. inbox' = inbox /\ pc' = pc
    BY DEF AdoptEnqueue
  <1>2. adopt'.item = b.id
    BY DEF AdoptEnqueue, TypeOK
  <1>3. row.by = b.by /\ row.key = key
    BY DEF QueueRow
  <1>4. pc[b.by] \in {"ok", "gone"}
    BY DEF Carried, WritesOnce, TypeOK
  <1> HIDE DEF row
  <1>5. CASE queue' = queue /\ Taken(key)
    <2>1. \E q \in queue : q.key = key
      BY <1>5 DEF Taken
    <2>2. (RowsIdentified /\ AdoptedStems /\ CarriedOnce /\ RetiredIsCarried)'
      BY <1>1, <1>5 DEF Carried, RowsIdentified, AdoptedStems, CarriedOnce, RetiredIsCarried
    <2>3. WritesOnce'
      BY <1>1, <1>2, <1>5, <2>1 DEF Carried, WritesOnce
    <2> QED
      BY <2>2, <2>3 DEF Carried
  <1>6. CASE queue' = queue \cup {row} /\ ~ Taken(key)
    <2>1. \A q \in queue : q.key # key
      BY <1>6 DEF Taken
    <2>2. \A q \in queue : q.by # b.by
      BY <2>1 DEF Carried, CarriedOnce
    <2>3. \A c \in inbox : c.by = b.by => c = b
      BY DEF Carried, RowsIdentified
    <2>4. RowsIdentified'
      BY <1>1, <1>3, <1>6, <2>1 DEF Carried, RowsIdentified
    <2>5. AdoptedStems'
      BY <1>1, <1>3, <1>6 DEF Carried, AdoptedStems
    <2>6. WritesOnce'
      BY <1>1, <1>2, <1>3, <1>4, <1>6 DEF Carried, WritesOnce
    <2>7. CarriedOnce'
      BY <1>1, <1>3, <1>6, <2>2, <2>3 DEF Carried, CarriedOnce
    <2>8. RetiredIsCarried'
      BY <1>1, <1>6 DEF Carried, RetiredIsCarried
    <2> QED
      BY <2>4, <2>5, <2>6, <2>7, <2>8 DEF Carried
  <1> QED
    BY <1>5, <1>6 DEF AdoptEnqueue, enqueue, row

(* The row that is retired is the one whose adopted copy is in the queue.     *)
LEMMA AdoptRetireKeeps ==
    ASSUME TypeOK, Carried, NEW b \in inbox, AdoptRetire(b)
    PROVE  Carried'
  <1> DEFINE gone == [b EXCEPT !.status = "adopted"]
  <1>1. queue' = queue /\ pc' = pc /\ adopt'.pc # "retire"
    BY DEF AdoptRetire, AfterItem, TypeOK
  <1>2. PICK q \in queue : q.key = <<"adopted", b.id>> /\ q.by = b.by
    <2>1. PICK q \in queue : q.key = <<"adopted", b.id>>
      BY DEF AdoptRetire, Carried, WritesOnce
    <2>2. q.key[1] = "adopted"
      BY <2>1
    <2>3. PICK c \in inbox : q.key = <<"adopted", c.id>> /\ q.by = c.by
      BY <2>2 DEF Carried, AdoptedStems
    <2>4. c.id = b.id
      BY <2>1, <2>3
    <2>5. c = b
      BY <2>4 DEF Carried, RowsIdentified
    <2> QED
      BY <2>1, <2>3, <2>5
  <1>3. gone.id = b.id /\ gone.by = b.by
    BY DEF TypeOK
  <1>4. CASE inbox' = inbox
    BY <1>1, <1>4, HarmlessKeeps DEF Harmless, tables
  <1>5. CASE inbox' = (inbox \ {b}) \cup {gone}
    <2> HIDE DEF gone
    <2>1. RowsIdentified'
      BY <1>1, <1>3, <1>5 DEF Carried, RowsIdentified
    <2>2. AdoptedStems'
      BY <1>1, <1>3, <1>5 DEF Carried, AdoptedStems
    <2>3. WritesOnce'
      BY <1>1, <1>3, <1>5 DEF Carried, WritesOnce
    <2>4. CarriedOnce'
      BY <1>1, <1>3, <1>5 DEF Carried, CarriedOnce
    <2>5. RetiredIsCarried'
      BY <1>1, <1>2, <1>3, <1>5 DEF Carried, RetiredIsCarried
    <2> QED
      BY <2>1, <2>2, <2>3, <2>4, <2>5 DEF Carried
  <1> QED
    BY <1>4, <1>5 DEF AdoptRetire, Retire

(* Settling changes no row's key or send.                                   *)
LEMMA SeatAckKeeps ==
    ASSUME TypeOK, Carried, NEW r \in Readers, SeatAck(r)
    PROVE  Carried'
  <1> DEFINE covered == {q \in Owed(r) : q.handle <= cursor[r]}
             Settle(q) == [q EXCEPT !.settled = TRUE]
  <1>1. inbox' = inbox /\ pc' = pc /\ adopt' = adopt
    BY DEF SeatAck
  <1>2. covered \subseteq queue
    BY DEF Owed
  <1>3. queue' = (queue \ covered) \cup {Settle(q) : q \in covered}
    BY DEF SeatAck
  <1>4. \A q \in queue : Settle(q).key = q.key /\ Settle(q).by = q.by
    BY DEF TypeOK
  <1> HIDE DEF covered, Settle
  <1>5. \A q \in queue' : \E p \in queue :
           q = (IF p \in covered THEN Settle(p) ELSE p) /\ q.key = p.key /\ q.by = p.by
    BY <1>2, <1>3, <1>4
  <1>6. \A p \in queue : \E q \in queue' : q.key = p.key /\ q.by = p.by
    BY <1>2, <1>3, <1>4
  <1>7. RowsIdentified'
    BY <1>1, <1>5 DEF Carried, RowsIdentified
  <1>8. AdoptedStems'
    BY <1>1, <1>5 DEF Carried, AdoptedStems
  <1>9. WritesOnce'
    BY <1>1, <1>5, <1>6 DEF Carried, WritesOnce
  <1>10. CarriedOnce'
    BY <1>1, <1>5 DEF Carried, CarriedOnce
  <1>11. RetiredIsCarried'
    <2> SUFFICES ASSUME NEW b \in inbox, b.status = "adopted"
                 PROVE  \E q \in queue' : q.key = <<"adopted", b.id>> /\ q.by = b.by
      BY <1>1 DEF RetiredIsCarried
    <2>1. PICK p \in queue : p.key = <<"adopted", b.id>> /\ p.by = b.by
      BY DEF Carried, RetiredIsCarried
    <2>2. PICK q \in queue' : q.key = p.key /\ q.by = p.by
      BY <1>6
    <2> QED
      BY <2>1, <2>2
  <1> QED
    BY <1>7, <1>8, <1>9, <1>10, <1>11 DEF Carried

(* Every other action writes no row.                                        *)
LEMMA OthersHarmless ==
    ASSUME TypeOK,
           \/ \E s \in Sends : \/ SendBegin(s) \/ SendWindow(s) \/ SendAlloc(s)
                               \/ SendRefused(s) \/ SendBusy(s) \/ SendBlind(s) \/ SendFault(s)
           \/ AdoptScan \/ AdoptEnd \/ AdoptFault
           \/ \E b \in inbox : AdoptPoison(b) \/ AdoptBusy(b)
           \/ \E r \in Readers : SeatList(r)
           \/ Advance \/ Crash
           \/ UNCHANGED vars
    PROVE  Harmless
  <1> USE DEF TypeOK, Harmless, tables
  <1>1. ASSUME NEW s \in Sends,
               \/ SendBegin(s) \/ SendWindow(s) \/ SendAlloc(s)
               \/ SendRefused(s) \/ SendBusy(s) \/ SendBlind(s) \/ SendFault(s)
        PROVE  Harmless
    <2>1. adopt' = adopt /\ queue' = queue /\ inbox' = inbox
      BY <1>1 DEF SendBegin, SendWindow, SendAlloc, SendRefused, SendBusy, SendBlind, SendFault
    <2>2. pc[s] \notin {"ok", "gone"}
      BY <1>1 DEF SendBegin, SendWindow, SendAlloc, SendRefused, SendBusy, SendBlind, SendFault
    <2>3. \A t \in Sends : t # s => pc'[t] = pc[t]
      BY <1>1 DEF SendBegin, SendWindow, SendAlloc, SendRefused, SendBusy, SendBlind, SendFault, Goto, Answer
    <2> QED
      BY <2>1, <2>2, <2>3
  <1>2. CASE AdoptScan
    BY <1>2 DEF AdoptScan
  <1>3. CASE AdoptEnd
    BY <1>3 DEF AdoptEnd, NotAdopting
  <1>4. CASE AdoptFault
    BY <1>4 DEF AdoptFault, AfterItem
  <1>5. ASSUME NEW b \in inbox, AdoptPoison(b) \/ AdoptBusy(b) PROVE Harmless
    BY <1>5 DEF AdoptPoison, AdoptBusy, Skip
  <1>6. ASSUME NEW r \in Readers, SeatList(r) PROVE Harmless
    BY <1>6 DEF SeatList
  <1>7. CASE Advance
    BY <1>7 DEF Advance
  <1>8. CASE Crash
    BY <1>8 DEF Crash, NotAdopting
  <1>9. CASE UNCHANGED vars
    BY <1>9 DEF vars
  <1> QED
    BY <1>1, <1>2, <1>3, <1>4, <1>5, <1>6, <1>7, <1>8, <1>9

(* The invariant is inductive: one lemma per action that writes a row.        *)
LEMMA CarriageStep == CarriageInv /\ [Next]_vars => CarriageInv'
  <1> SUFFICES ASSUME CarriageInv, [Next]_vars PROVE CarriageInv'
    OBVIOUS
  <1>1. TypeOK /\ Carried
    BY DEF CarriageInv, Carried
  <1>2. TypeOK'
    BY <1>1, TypeStep
  <1>3. ASSUME NEW s \in Sends, SendEnqueue(s) PROVE Carried'
    BY <1>1, <1>3, SendEnqueueKeeps
  <1>4. ASSUME NEW s \in Sends, SendFallback(s) PROVE Carried'
    BY <1>1, <1>4, SendFallbackKeeps
  <1>5. ASSUME NEW b \in inbox, AdoptEnqueue(b) PROVE Carried'
    BY <1>1, <1>5, AdoptEnqueueKeeps
  <1>6. ASSUME NEW b \in inbox, AdoptRetire(b) PROVE Carried'
    BY <1>1, <1>6, AdoptRetireKeeps
  <1>7. ASSUME NEW r \in Readers, SeatAck(r) PROVE Carried'
    BY <1>1, <1>7, SeatAckKeeps
  <1>8. ASSUME Harmless PROVE Carried'
    BY <1>1, <1>8, HarmlessKeeps
  <1>9. Carried'
    BY <1>1, <1>3, <1>4, <1>5, <1>6, <1>7, <1>8, OthersHarmless DEF Next, SendStep, AdoptStep
  <1> QED
    BY <1>2, <1>9 DEF CarriageInv, Carried

(* The inductive invariant holds of every reachable state, for any number of    *)
(* sends, crashes, faults and lost races.                                    *)
THEOREM Carriage == Spec => []CarriageInv
  <1>1. CarriageInv /\ UNCHANGED vars => CarriageInv'
    BY CarriageStep
  <1> QED
    BY CarriageInit, CarriageStep, PTL DEF Spec

(* The two tables and the local variables of every sender, reader and of the     *)
(* adoption keep their types.                                               *)
THEOREM CarriageTyping == Spec => []TypeOK
  <1>1. CarriageInv => TypeOK
    BY DEF CarriageInv
  <1> QED
    BY <1>1, Carriage, PTL

(* write_through and adopt_orphaned_legacy_rows never carry a send twice: not    *)
(* in two queue rows, and not live beside the inbox.                         *)
THEOREM NeverCarriedTwice == Spec => []CarriedOnce
  <1>1. CarriageInv => CarriedOnce
    BY DEF CarriageInv
  <1> QED
    BY <1>1, Carriage, PTL

(* A row that adopt_orphaned_legacy_rows has retired is in the queue, wherever   *)
(* a crash or a failed transaction fell.                                     *)
THEOREM RetiredNeverLost == Spec => []RetiredIsCarried
  <1>1. CarriageInv => RetiredIsCarried
    BY DEF CarriageInv
  <1> QED
    BY <1>1, Carriage, PTL
=============================================================================
