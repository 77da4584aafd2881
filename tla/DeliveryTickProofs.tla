------------------------- MODULE DeliveryTickProofs -------------------------
(***************************************************************************)
(* Proofs about what the delivery tick keeps between its transactions, and *)
(* what follows from it: wakes within leases, acks of shown rows only, and, *)
(* as long as nothing crashes or fails, honest hold clocks, announced       *)
(* deaths, covered rows and no resubmission.                               *)
(***************************************************************************)
EXTENDS DeliveryQueueProofs, FiniteSetTheorems

(* The tick's variables when it is idle, and when it turns to the next        *)
(* receiver.                                                                *)
LEMMA FreshTick ==
    /\ /\ TickIdle.pc = "idle" /\ TickIdle.dead = {} /\ TickIdle.claimed = {}
       /\ TickIdle.owed = {} /\ TickIdle.record = {} /\ TickIdle.item = {}
       /\ TickIdle.cur = ServiceSender
    /\ \A X : /\ ToServe(X).pc = "serve" /\ ToServe(X).dead = {} /\ ToServe(X).claimed = {}
              /\ ToServe(X).owed = {} /\ ToServe(X).record = {} /\ ToServe(X).item = {}
              /\ ToServe(X).cur = ServiceSender
BY DEF TickIdle, ToServe

(* Every step is one of the tick's, or leaves the tick alone.                *)
LEMMA TickMoves ==
    ASSUME [Next]_vars
    PROVE  \/ TickReclaim \/ (\E i \in tick.dead : AnnounceDeath(i)) \/ EnqueueNotice
           \/ ServeBegin \/ (\E r \in tick.todo : ClaimFor(r))
           \/ EpochRead \/ EpochBuild \/ EpochFound \/ EpochExtend
           \/ DeliverAbsent \/ DeliverClosed \/ DeliverWake
           \/ (\E i \in tick.record : RecordAttempt(i)) \/ MarkDialogHold
           \/ ServeEnd \/ (\E p \in tick.scan : CloseFinished(p[1], p[2])) \/ TickEnd
           \/ TickFault \/ Crash
           \/ UNCHANGED <<tick, attempt, finding, uncertain, stamp>>
BY DEF Next, TickStep, SeatStep, vars, table, Send, Complete, Advance, SeatList, SeatSettle,
       SeatReadDigest, SeatClose, SeatFault

(* The store's identity of a row never changes: who it is for, who sent it, its *)
(* handle, its notice flag and, once it is dead, the reason.                   *)
LEMMA RowIdentity ==
    ASSUME TypeOK, [Next]_vars, NEW i \in Ids, msg[i].state # "none"
    PROVE  /\ msg'[i].receiver = msg[i].receiver
           /\ msg'[i].sender = msg[i].sender
           /\ msg'[i].sid = msg[i].sid
           /\ msg'[i].notice = msg[i].notice
           /\ msg'[i].claim >= msg[i].claim
           /\ msg'[i].state # "none"
           /\ msg[i].state \in TERMINAL_STATES =>
                 /\ msg'[i].state = msg[i].state
                 /\ msg'[i].reason = msg[i].reason
                 /\ msg'[i].claim = msg[i].claim
           /\ ~ TickReclaim /\ msg'[i].state = "dead" => msg[i].state = "dead"
           /\ msg'[i].state \in Live /\ ~ MarkDialogHold => msg'[i].held = msg[i].held
<1> DEFINE Kept == /\ msg'[i].receiver = msg[i].receiver
                   /\ msg'[i].sender = msg[i].sender
                   /\ msg'[i].sid = msg[i].sid
                   /\ msg'[i].notice = msg[i].notice
                   /\ msg'[i].claim >= msg[i].claim
                   /\ msg'[i].state # "none"
                   /\ msg[i].state \in TERMINAL_STATES =>
                        /\ msg'[i].state = msg[i].state
                        /\ msg'[i].reason = msg[i].reason
                        /\ msg'[i].claim = msg[i].claim
                   /\ ~ TickReclaim /\ msg'[i].state = "dead" => msg[i].state = "dead"
                   /\ msg'[i].state \in Live /\ ~ MarkDialogHold => msg'[i].held = msg[i].held
<1>1. msg[i] \in Row /\ msg[i].claim \in Nat
  BY DEF TypeOK, Row
<1>2. ASSUME NEW k, NEW row, enqueue(k, row) PROVE Kept
  BY <1>1, <1>2 DEF enqueue, TypeOK
<1>3. ASSUME NEW m \in Msgs, NEW d \in Drafts, Send(m, d) PROVE Kept
  <2>1. PICK sid : enqueue(m, LiveRow(d, sid))
    BY <1>3 DEF Send
  <2> QED
    BY <1>2, <2>1
<1>4. CASE EnqueueNotice
  BY <1>2, <1>4 DEF EnqueueNotice
<1>5. ASSUME NEW S, NEW state \in {"delivered", "superseded"}, EndRows(S, state),
             \A j \in S : msg[j].state \in Live
      PROVE  Kept
  <2>1. CASE i \in S
    <3>1. msg'[i] = Ended(msg[i], state) /\ msg[i].state \in Live
      BY <1>5, <2>1 DEF EndRows
    <3> QED
      BY <1>1, <3>1 DEF Ended, Row, Live, TERMINAL_STATES
  <2>2. CASE i \notin S
    BY <1>1, <1>5, <2>2 DEF EndRows
  <2> QED
    BY <2>1, <2>2
<1>6. ASSUME NEW r \in Receivers, Complete(r) PROVE Kept
  BY <1>5, <1>6 DEF Complete, Rows, Live
<1>7. ASSUME NEW r \in Seats, SeatSettle(r) PROVE Kept
  BY <1>5, <1>7 DEF SeatSettle, Settleable, pending_for_receiver, Rows, Live
<1>8. ASSUME NEW r \in tick.todo, ClaimFor(r) PROVE Kept
  <2>1. PICK S \in SUBSET Claimable(r, stamp) : claim(S, stamp)
    BY <1>8 DEF ClaimFor
  <2>2. CASE i \in S
    <3>1. msg[i].state = "ready"
      BY <2>2 DEF Claimable, Rows
    <3>2. msg'[i] = [msg[i] EXCEPT !.state = "leased", !.claim = @ + 1, !.lease = stamp + LEASE]
      BY <2>1, <2>2 DEF claim
    <3> QED
      BY <1>1, <3>1, <3>2 DEF Row, TERMINAL_STATES
  <2>3. CASE i \notin S
    <3>1. msg'[i] = msg[i]
      BY <2>1, <2>3 DEF claim
    <3> QED
      BY <1>1, <3>1
  <2> QED
    BY <2>2, <2>3
<1>9. CASE MarkDialogHold
  <2>1. PICK j \in tick.item, held \in Nat \cup {NoTime} : msg' = [msg EXCEPT ![j].held = held]
    BY <1>9 DEF MarkDialogHold, TypeOK
  <2> QED
    BY <1>1, <1>9, <2>1 DEF TypeOK, Row
<1>10. CASE TickReclaim
  <2>1. now \in Nat /\ msg'[i] = Reclaimed(i, now)
    BY <1>10 DEF TickReclaim, TypeOK
  <2> DEFINE row == IF LeaseExpired(msg[i], now) THEN Released(i, now) ELSE msg[i]
  <2>2. Released(i, now) \in Row
    BY <2>1, ReleasedType
  <2>3. row \in Row /\ row.receiver = msg[i].receiver /\ row.sender = msg[i].sender
        /\ row.sid = msg[i].sid /\ row.notice = msg[i].notice /\ row.claim >= msg[i].claim
        /\ row.held = msg[i].held /\ row.state # "none"
    <3>1. CASE LeaseExpired(msg[i], now)
      BY <1>1, <2>2, <3>1 DEF Released, Row
    <3>2. CASE ~ LeaseExpired(msg[i], now)
      BY <1>1, <3>2
    <3> QED
      BY <3>1, <3>2
  <2>4. \A x : /\ Killed(row, x).receiver = row.receiver /\ Killed(row, x).sender = row.sender
               /\ Killed(row, x).sid = row.sid /\ Killed(row, x).notice = row.notice
               /\ Killed(row, x).claim = row.claim /\ Killed(row, x).state = "dead"
    BY <2>3 DEF Killed, Row
  <2>5. msg'[i] = row \/ \E x : msg'[i] = Killed(row, x)
    BY <2>1 DEF Reclaimed
  <2>6. msg[i].state \in TERMINAL_STATES => msg'[i] = msg[i]
    BY <2>1, ReclaimedRow DEF TERMINAL_STATES, Live
  <2> HIDE DEF row
  <2>7. msg'[i].state \in Live => msg'[i] = row
    BY <2>4, <2>5 DEF Live
  <2> QED
    BY <1>1, <1>10, <2>3, <2>4, <2>5, <2>6, <2>7
<1>11. CASE UNCHANGED msg
  BY <1>1, <1>11
<1> QED
  BY <1>3, <1>4, <1>6, <1>7, <1>8, <1>9, <1>10, <1>11, RowWriters

(* Every step leaves each phase of the tick with only what it works on.        *)
LEMMA ShapeStep ==
    ASSUME TypeOK, TickShape, [Next]_vars
    PROVE  TickShape'
<1>1. tick \in TickState
  BY DEF TypeOK
<1>3. ASSUME tick' = TickIdle \/ \E X \in SUBSET Receivers : tick' = ToServe(X) PROVE TickShape'
  BY <1>3, FreshTick DEF TickShape
<1>4. CASE TickReclaim
  BY <1>4 DEF TickReclaim, TickIdle, TickShape
<1>5. ASSUME NEW i \in tick.dead, AnnounceDeath(i) PROVE TickShape'
  BY <1>1, <1>5 DEF AnnounceDeath, TickState, TickShape
<1>6. CASE EnqueueNotice
  BY <1>1, <1>6 DEF EnqueueNotice, TickState, TickShape
<1>7. CASE ServeBegin \/ DeliverClosed
  BY <1>1, <1>3, <1>7 DEF ServeBegin, DeliverClosed, TickState
<1>8. ASSUME NEW r \in tick.todo, ClaimFor(r) PROVE TickShape'
  <2>1. PICK S, H : tick' = [tick EXCEPT !.pc = "epoch", !.todo = @ \ {r}, !.cur = r, !.claimed = S,
                                         !.heldThen = H]
    BY <1>8 DEF ClaimFor
  <2>2. tick.pc = "serve"
    BY <1>8 DEF ClaimFor
  <2> QED
    BY <1>1, <2>1, <2>2 DEF TickState, TickShape
<1>9. CASE EpochRead
  <2>1. tick' = ToServe(tick.todo) \/ \E X : tick' = [tick EXCEPT !.pc = "open", !.owed = X]
    BY <1>9 DEF EpochRead
  <2>2. tick.pc = "epoch"
    BY <1>9 DEF EpochRead
  <2> QED
    BY <1>1, <1>3, <2>1, <2>2 DEF TickState, TickShape
<1>10. CASE EpochBuild \/ EpochExtend
  <2>1. PICK e : tick' = WithEpoch(e)
    BY <1>10 DEF EpochBuild, EpochExtend
  <2>2. tick.pc \in {"open", "extend"}
    BY <1>10 DEF EpochBuild, EpochExtend
  <2> QED
    BY <1>1, <1>3, <2>1, <2>2 DEF WithEpoch, TickState, TickShape
<1>11. CASE EpochFound
  <2>1. PICK e : tick' = [tick EXCEPT !.pc = "extend", !.epoch = e]
    BY <1>11 DEF EpochFound
  <2>2. tick.pc = "open"
    BY <1>11 DEF EpochFound
  <2> QED
    BY <1>1, <2>1, <2>2 DEF TickState, TickShape
<1>12. CASE DeliverAbsent \/ DeliverWake
  <2>1. PICK o : tick' = [tick EXCEPT !.pc = "record", !.outcome = o, !.record = tick.claimed]
    BY <1>12 DEF DeliverAbsent, DeliverWake
  <2>2. tick.pc = "deliver"
    BY <1>12 DEF DeliverAbsent, DeliverWake
  <2> QED
    BY <1>1, <2>1, <2>2 DEF TickState, TickShape
<1>13. ASSUME NEW left \in SUBSET tick.record, tick' = AfterRecord(left),
              tick.pc \in {"record", "hold"}
       PROVE  TickShape'
  BY <1>1, <1>3, <1>13 DEF AfterRecord, TickState, TickShape
<1>14. ASSUME NEW i \in tick.record, RecordAttempt(i) PROVE TickShape'
  <2>0. tick.pc = "record"
    BY <1>14 DEF RecordAttempt
  <2>1. CASE tick' = [tick EXCEPT !.pc = "hold", !.record = @ \ {i}, !.item = {i}]
    BY <1>1, <2>0, <2>1 DEF TickState, TickShape
  <2>2. CASE tick' = AfterRecord(tick.record \ {i})
    BY <1>13, <1>14, <2>2 DEF RecordAttempt
  <2> QED
    BY <1>14, <2>1, <2>2 DEF RecordAttempt
<1>15. CASE MarkDialogHold
  BY <1>13, <1>15 DEF MarkDialogHold
<1>16. CASE ServeEnd
  <2>1. PICK X : tick' = [TickIdle EXCEPT !.pc = "close", !.scan = X]
    BY <1>16 DEF ServeEnd
  <2> QED
    BY <2>1 DEF TickIdle, TickShape
<1>17. ASSUME NEW p \in tick.scan, CloseFinished(p[1], p[2]) PROVE TickShape'
  BY <1>1, <1>17 DEF CloseFinished, TickState, TickShape
<1>18. CASE TickEnd \/ Crash
  BY <1>3, <1>18 DEF TickEnd, Crash
<1>19. CASE TickFault
  <2>1. tick.todo \in SUBSET Receivers
    BY <1>1 DEF TickState
  <2>2. CASE tick.pc = "notice" /\ tick' = [tick EXCEPT !.pc = "announce", !.item = {}]
    BY <1>1, <2>2 DEF TickState, TickShape
  <2>3. ASSUME NEW r, tick' = [tick EXCEPT !.todo = @ \ {r}] PROVE TickShape'
    BY <1>1, <2>3 DEF TickState, TickShape
  <2> QED
    BY <1>3, <1>19, <2>1, <2>2, <2>3 DEF TickFault
<1>20. CASE UNCHANGED tick
  BY <1>20 DEF TickShape
<1> QED
  BY <1>4, <1>5, <1>6, <1>7, <1>8, <1>9, <1>10, <1>11, <1>12, <1>14, <1>15, <1>16, <1>17,
     <1>18, <1>19, <1>20, TickMoves

(* A row appears ready and unclaimed, with no hold clock: an ordinary one under  *)
(* a handle above every other, a notice flagged and without a handle.          *)
LEMMA RowAppears ==
    ASSUME TypeOK, SnapshotFenced, TickShape, [Next]_vars, NEW i \in Ids, msg[i].state = "none"
    PROVE  \/ msg'[i] = msg[i]
           \/ /\ msg'[i].state = "ready" /\ msg'[i].claim = 0 /\ msg'[i].held = NoTime
              /\ \/ i \in Msgs /\ \A j \in Ids : msg[j].sid < msg'[i].sid
                 \/ msg'[i].notice /\ msg'[i].sid = 0
<1> DEFINE Appears == /\ msg'[i].state = "ready" /\ msg'[i].claim = 0 /\ msg'[i].held = NoTime
                      /\ \/ i \in Msgs /\ \A j \in Ids : msg[j].sid < msg'[i].sid
                         \/ msg'[i].notice /\ msg'[i].sid = 0
<1>1. ASSUME NEW m \in Msgs, NEW d \in Drafts, Send(m, d) PROVE msg'[i] = msg[i] \/ Appears
  <2>1. PICK top \in {msg[j].sid : j \in Ids} :
          (\A j \in Ids : msg[j].sid <= top) /\ enqueue(m, LiveRow(d, top + 1))
    BY <1>1 DEF Send
  <2>2. CASE i # m
    BY <2>1, <2>2 DEF enqueue, TypeOK
  <2>3. CASE i = m
    <3>1. msg'[i] = LiveRow(d, top + 1)
      BY <2>1, <2>3 DEF enqueue, TypeOK
    <3>2. top \in Nat /\ \A j \in Ids : msg[j].sid \in Nat
      BY DEF TypeOK, Row
    <3>3. \A j \in Ids : msg[j].sid < top + 1
      BY <2>1, <3>2
    <3>4. /\ msg'[i].state = "ready" /\ msg'[i].claim = 0 /\ msg'[i].held = NoTime
          /\ msg'[i].sid = top + 1
      BY <3>1 DEF LiveRow, NoRow
    <3> QED
      BY <2>3, <3>3, <3>4
  <2> QED
    BY <2>2, <2>3
<1>2. CASE EnqueueNotice
  <2>1. PICK k \in tick.item : enqueue(Notice(k), NoticeRow(msg[k].sender))
    BY <1>2 DEF EnqueueNotice
  <2>2. msg'[i] = msg[i] \/ msg'[i] = NoticeRow(msg[k].sender)
    BY <2>1 DEF enqueue, TypeOK
  <2>3. \A x : /\ NoticeRow(x).state = "ready" /\ NoticeRow(x).claim = 0
               /\ NoticeRow(x).held = NoTime /\ NoticeRow(x).notice /\ NoticeRow(x).sid = 0
    BY DEF NoticeRow, NoRow
  <2> QED
    BY <2>2, <2>3
<1>3. ASSUME NEW S, NEW state, EndRows(S, state), \A j \in S : msg[j].state \in Live
      PROVE  msg'[i] = msg[i]
  BY <1>3 DEF EndRows, Live
<1>4. ASSUME NEW r \in Receivers, Complete(r) PROVE msg'[i] = msg[i]
  BY <1>3, <1>4 DEF Complete, Rows, Live
<1>5. ASSUME NEW r \in Seats, SeatSettle(r) PROVE msg'[i] = msg[i]
  BY <1>3, <1>5 DEF SeatSettle, Settleable, pending_for_receiver, Rows
<1>6. ASSUME NEW r \in tick.todo, ClaimFor(r) PROVE msg'[i] = msg[i]
  <2>1. PICK S \in SUBSET Claimable(r, stamp) : claim(S, stamp)
    BY <1>6 DEF ClaimFor
  <2>2. i \notin S
    BY DEF Claimable, Rows
  <2> QED
    BY <2>1, <2>2 DEF claim
<1>7. CASE TickReclaim
  BY <1>7, ReclaimedRow DEF TickReclaim, TypeOK, Live
<1>8. CASE MarkDialogHold
  <2>1. PICK k \in tick.item, held \in Nat \cup {NoTime} : msg' = [msg EXCEPT ![k].held = held]
    BY <1>8 DEF MarkDialogHold, TypeOK
  <2>2. msg[k].state # "none"
    BY <1>8 DEF MarkDialogHold, TickShape, SnapshotFenced, TERMINAL_STATES
  <2> QED
    BY <2>1, <2>2 DEF TypeOK
<1>9. CASE UNCHANGED msg
  BY <1>9
<1> QED
  BY <1>1, <1>2, <1>4, <1>5, <1>6, <1>7, <1>8, <1>9, RowWriters

(* Apart from a claim, a step keeps or drops what the tick has claimed, and the  *)
(* receiver and the hold clocks that go with it.                             *)
LEMMA SnapshotKept ==
    ASSUME TypeOK, TickShape, [Next]_vars
    PROVE  \/ \E r \in tick.todo : ClaimFor(r)
           \/ /\ tick'.claimed \subseteq tick.claimed
              /\ Unrecorded' \subseteq Unrecorded
              /\ tick'.claimed # {} => tick'.cur = tick.cur /\ tick'.heldThen = tick.heldThen
<1> DEFINE Kept == /\ tick'.claimed \subseteq tick.claimed
                   /\ Unrecorded' \subseteq Unrecorded
                   /\ tick'.claimed # {} => tick'.cur = tick.cur /\ tick'.heldThen = tick.heldThen
<1> USE DEF Unrecorded
<1>1. tick \in TickState
  BY DEF TypeOK
<1>2. ASSUME tick' = TickIdle \/ \E X : tick' = ToServe(X) PROVE Kept
  BY <1>2, FreshTick
<1>3. CASE TickReclaim
  BY <1>3 DEF TickReclaim, TickIdle
<1>4. ASSUME NEW i \in tick.dead, AnnounceDeath(i) PROVE Kept
  BY <1>1, <1>4 DEF AnnounceDeath, TickState
<1>5. CASE EnqueueNotice
  BY <1>1, <1>5 DEF EnqueueNotice, TickState
<1>6. CASE ServeBegin \/ DeliverClosed
  BY <1>2, <1>6 DEF ServeBegin, DeliverClosed
<1>7. CASE EpochRead
  <2>1. tick' = ToServe(tick.todo) \/ \E X : tick' = [tick EXCEPT !.pc = "open", !.owed = X]
    BY <1>7 DEF EpochRead
  <2>2. tick.pc = "epoch"
    BY <1>7 DEF EpochRead
  <2> QED
    BY <1>1, <1>2, <2>1, <2>2 DEF TickState
<1>8. CASE EpochBuild \/ EpochExtend
  <2>1. PICK e : tick' = WithEpoch(e)
    BY <1>8 DEF EpochBuild, EpochExtend
  <2>2. tick.pc \in {"open", "extend"}
    BY <1>8 DEF EpochBuild, EpochExtend
  <2> QED
    BY <1>1, <1>2, <2>1, <2>2 DEF WithEpoch, TickState
<1>9. CASE EpochFound
  <2>1. PICK e : tick' = [tick EXCEPT !.pc = "extend", !.epoch = e]
    BY <1>9 DEF EpochFound
  <2>2. tick.pc = "open"
    BY <1>9 DEF EpochFound
  <2> QED
    BY <1>1, <2>1, <2>2 DEF TickState
<1>10. CASE DeliverAbsent \/ DeliverWake
  <2>1. PICK o : tick' = [tick EXCEPT !.pc = "record", !.outcome = o, !.record = tick.claimed]
    BY <1>10 DEF DeliverAbsent, DeliverWake
  <2>2. tick.pc = "deliver"
    BY <1>10 DEF DeliverAbsent, DeliverWake
  <2> QED
    BY <1>1, <2>1, <2>2 DEF TickState
<1>11. ASSUME NEW left \in SUBSET tick.record, tick' = AfterRecord(left),
              tick.pc \in {"record", "hold"}
       PROVE  Kept
  BY <1>1, <1>2, <1>11 DEF AfterRecord, TickState
<1>12. ASSUME NEW i \in tick.record, RecordAttempt(i) PROVE Kept
  <2>1. tick.pc = "record"
    BY <1>12 DEF RecordAttempt
  <2>2. CASE tick' = [tick EXCEPT !.pc = "hold", !.record = @ \ {i}, !.item = {i}]
    BY <1>1, <2>1, <2>2 DEF TickState
  <2>3. CASE tick' = AfterRecord(tick.record \ {i})
    BY <1>11, <2>1, <2>3
  <2> QED
    BY <1>12, <2>2, <2>3 DEF RecordAttempt
<1>13. CASE MarkDialogHold
  BY <1>11, <1>13 DEF MarkDialogHold
<1>14. CASE ServeEnd
  <2>1. PICK X : tick' = [TickIdle EXCEPT !.pc = "close", !.scan = X]
    BY <1>14 DEF ServeEnd
  <2> QED
    BY <2>1 DEF TickIdle
<1>15. ASSUME NEW p \in tick.scan, CloseFinished(p[1], p[2]) PROVE Kept
  BY <1>1, <1>15 DEF CloseFinished, TickState
<1>16. CASE TickEnd \/ Crash
  BY <1>2, <1>16 DEF TickEnd, Crash
<1>17. CASE TickFault
  <2>1. CASE tick.pc = "notice" /\ tick' = [tick EXCEPT !.pc = "announce", !.item = {}]
    BY <1>1, <2>1 DEF TickState
  <2>2. ASSUME NEW r, tick' = [tick EXCEPT !.todo = @ \ {r}] PROVE Kept
    BY <1>1, <2>2 DEF TickState
  <2> QED
    BY <1>2, <1>17, <2>1, <2>2 DEF TickFault
<1>18. CASE UNCHANGED tick
  BY <1>18
<1> QED
  BY <1>3, <1>4, <1>5, <1>6, <1>7, <1>8, <1>9, <1>10, <1>12, <1>13, <1>14, <1>15, <1>16,
     <1>17, <1>18, TickMoves

(* What a claim does: the rows of S are leased under a new claim number, and     *)
(* are all that the tick holds.                                              *)
LEMMA ClaimEffect ==
    ASSUME TypeOK, NEW r \in tick.todo, ClaimFor(r)
    PROVE  \E S \in SUBSET Claimable(r, stamp) :
              /\ tick'.pc = "epoch" /\ tick'.cur = r /\ tick'.claimed = S
              /\ tick'.heldThen = {i \in S : msg[i].held # NoTime}
              /\ tick'.item = tick.item /\ tick'.dead = tick.dead /\ tick'.record = tick.record
              /\ \A i \in S : /\ msg'[i].state = "leased" /\ msg'[i].claim = msg[i].claim + 1
                              /\ msg'[i].held = msg[i].held /\ msg'[i].receiver = r
                              /\ msg[i].state = "ready" /\ msg[i].receiver = r
              /\ \A i \in Ids \ S : msg'[i] = msg[i]
<1>1. PICK S \in SUBSET Claimable(r, stamp) :
        /\ claim(S, stamp)
        /\ tick' = [tick EXCEPT !.pc = "epoch", !.todo = @ \ {r}, !.cur = r, !.claimed = S,
                                !.heldThen = {i \in S : msg[i].held # NoTime}]
  BY DEF ClaimFor
<1>2. /\ tick'.pc = "epoch" /\ tick'.cur = r /\ tick'.claimed = S
      /\ tick'.heldThen = {i \in S : msg[i].held # NoTime}
      /\ tick'.item = tick.item /\ tick'.dead = tick.dead /\ tick'.record = tick.record
  BY <1>1 DEF TypeOK, TickState
<1>3. ASSUME NEW i \in S
      PROVE  /\ msg'[i].state = "leased" /\ msg'[i].claim = msg[i].claim + 1
             /\ msg'[i].held = msg[i].held /\ msg'[i].receiver = r
             /\ msg[i].state = "ready" /\ msg[i].receiver = r
  <2>1. i \in Ids /\ msg[i].state = "ready" /\ msg[i].receiver = r
    BY DEF Claimable, Rows
  <2>2. msg'[i] = [msg[i] EXCEPT !.state = "leased", !.claim = @ + 1, !.lease = stamp + LEASE]
    BY <1>1, <2>1 DEF claim
  <2>3. msg[i] \in Row
    BY <2>1 DEF TypeOK
  <2> QED
    BY <2>1, <2>2, <2>3 DEF Row
<1>4. \A i \in Ids \ S : msg'[i] = msg[i]
  BY <1>1 DEF claim
<1> QED
  BY <1>2, <1>3, <1>4

(* How a claim number moves: up by one when a lease is released, up by one when  *)
(* the tick takes the row, and otherwise not.                                *)
LEMMA ClaimMoves ==
    ASSUME TypeOK, [Next]_vars, NEW i \in Ids, msg[i].state # "none"
    PROVE  \/ /\ msg'[i].claim = msg[i].claim
              /\ msg'[i].state = msg[i].state \/ msg'[i].state \in TERMINAL_STATES
           \/ /\ msg[i].state = "leased" /\ msg'[i].state \in {"ready", "dead"}
              /\ msg'[i].claim = msg[i].claim + 1
           \/ /\ \E r \in tick.todo : ClaimFor(r) /\ msg[i].receiver = r
              /\ msg[i].state = "ready" /\ msg'[i].state = "leased"
              /\ msg'[i].claim = msg[i].claim + 1
              /\ i \in tick'.claimed
<1> DEFINE Same == /\ msg'[i].claim = msg[i].claim
                   /\ msg'[i].state = msg[i].state \/ msg'[i].state \in TERMINAL_STATES
<1>1. msg[i] \in Row /\ msg[i].claim \in Nat
  BY DEF TypeOK, Row
<1>2. CASE TickReclaim
  <2>1. now \in Nat /\ msg'[i] = Reclaimed(i, now)
    BY <1>2 DEF TickReclaim, TypeOK
  <2> DEFINE row == IF LeaseExpired(msg[i], now) THEN Released(i, now) ELSE msg[i]
  <2>2. Released(i, now) \in Row
    BY <2>1, ReleasedType
  <2>3. \A x : Killed(row, x).claim = row.claim /\ Killed(row, x).state = "dead"
    BY <1>1, <2>2 DEF Killed, Row
  <2>4. msg'[i] = row \/ \E x : msg'[i] = Killed(row, x)
    BY <2>1 DEF Reclaimed
  <2>5. CASE LeaseExpired(msg[i], now)
    <3>1. row.claim = msg[i].claim + 1 /\ row.state = "ready"
      BY <1>1, <2>5 DEF Released, Row
    <3>2. msg'[i].claim = msg[i].claim + 1 /\ msg'[i].state \in {"ready", "dead"}
      BY <2>3, <2>4, <3>1
    <3> QED
      BY <2>5, <3>2 DEF LeaseExpired
  <2>6. CASE ~ LeaseExpired(msg[i], now)
    BY <2>3, <2>4, <2>6 DEF TERMINAL_STATES
  <2> QED
    BY <2>5, <2>6
<1>3. ASSUME NEW r \in tick.todo, ClaimFor(r)
      PROVE  \/ Same
             \/ /\ msg[i].receiver = r
                /\ msg[i].state = "ready" /\ msg'[i].state = "leased"
                /\ msg'[i].claim = msg[i].claim + 1
                /\ i \in tick'.claimed
  <2>1. PICK S \in SUBSET Claimable(r, stamp) :
          /\ tick'.claimed = S
          /\ \A j \in S : /\ msg'[j].state = "leased" /\ msg'[j].claim = msg[j].claim + 1
                          /\ msg[j].state = "ready" /\ msg[j].receiver = r
          /\ \A j \in Ids \ S : msg'[j] = msg[j]
    BY <1>3, ClaimEffect
  <2> QED
    BY <2>1
<1>4. ASSUME NEW S, NEW state \in TERMINAL_STATES, EndRows(S, state) PROVE Same
  <2>1. Ended(msg[i], state).claim = msg[i].claim /\ Ended(msg[i], state).state = state
    BY <1>1 DEF Ended, Row
  <2> QED
    BY <1>4, <2>1 DEF EndRows
<1>5. ASSUME NEW k, NEW row, enqueue(k, row) PROVE Same
  BY <1>1, <1>5 DEF enqueue, TypeOK
<1>6. CASE MarkDialogHold
  <2>1. PICK j \in tick.item, held \in Nat \cup {NoTime} : msg' = [msg EXCEPT ![j].held = held]
    BY <1>6 DEF MarkDialogHold, TypeOK
  <2>2. msg'[i].claim = msg[i].claim /\ msg'[i].state = msg[i].state
    BY <1>1, <2>1 DEF TypeOK, Row
  <2> QED
    BY <2>2
<1>7. CASE UNCHANGED msg
  BY <1>7
<1>8. ASSUME NEW r \in Receivers, Complete(r) PROVE Same
  BY <1>4, <1>8 DEF Complete, TERMINAL_STATES
<1>9. ASSUME NEW r \in Seats, SeatSettle(r) PROVE Same
  BY <1>4, <1>9 DEF SeatSettle, TERMINAL_STATES
<1>10. ASSUME NEW m \in Msgs, NEW d \in Drafts, Send(m, d) PROVE Same
  <2>1. PICK sid : enqueue(m, LiveRow(d, sid))
    BY <1>10 DEF Send
  <2> QED
    BY <1>5, <2>1
<1>11. CASE EnqueueNotice
  BY <1>5, <1>11 DEF EnqueueNotice
<1>12. CASE Same
  BY <1>12
<1>13. CASE \E r \in tick.todo : ClaimFor(r)
  BY <1>3, <1>13
<1> HIDE DEF Same
<1> QED
  BY <1>2, <1>6, <1>7, <1>8, <1>9, <1>10, <1>11, <1>12, <1>13, RowWriters

(* Every step keeps the parity of claim_id: claims and releases alternate.      *)
LEMMA ParityStep ==
    ASSUME SafetyInv, TickShape, ClaimParity, [Next]_vars
    PROVE  ClaimParity'
<1> SUFFICES ASSUME NEW i \in Ids
             PROVE  /\ msg'[i].state = "none" => msg'[i].claim = 0
                    /\ msg'[i].state = "ready" => msg'[i].claim % 2 = 0
                    /\ msg'[i].state = "leased" => msg'[i].claim % 2 = 1
                    /\ msg'[i].claim > 0 => msg'[i].receiver \in Receivers
  BY DEF ClaimParity
<1>1. TypeOK /\ SnapshotFenced /\ msg[i] \in Row /\ msg[i].claim \in Nat
  BY DEF SafetyInv, TypeOK, Row
<1>2. /\ msg[i].state = "none" => msg[i].claim = 0
      /\ msg[i].state = "ready" => msg[i].claim % 2 = 0
      /\ msg[i].state = "leased" => msg[i].claim % 2 = 1
      /\ msg[i].claim > 0 => msg[i].receiver \in Receivers
  BY DEF ClaimParity
<1>3. CASE msg[i].state = "none"
  <2>1. 0 % 2 = 0
    OBVIOUS
  <2> QED
    BY <1>1, <1>2, <1>3, <2>1, RowAppears
<1>4. CASE msg[i].state # "none"
  <2>1. msg'[i].receiver = msg[i].receiver /\ msg'[i].state # "none"
    BY <1>1, <1>4, RowIdentity
  <2>2. CASE /\ msg'[i].claim = msg[i].claim
             /\ msg'[i].state = msg[i].state \/ msg'[i].state \in TERMINAL_STATES
    BY <1>2, <2>1, <2>2 DEF TERMINAL_STATES
  <2>3. CASE /\ msg[i].state = "leased" /\ msg'[i].state \in {"ready", "dead"}
             /\ msg'[i].claim = msg[i].claim + 1
    <3>1. (msg[i].claim + 1) % 2 = 0 /\ msg[i].claim > 0
      BY <1>1, <1>2, <2>3
    <3> QED
      BY <1>2, <2>1, <2>3, <3>1
  <2>4. CASE /\ \E r \in tick.todo : ClaimFor(r) /\ msg[i].receiver = r
             /\ msg[i].state = "ready" /\ msg'[i].state = "leased"
             /\ msg'[i].claim = msg[i].claim + 1
    <3>1. msg[i].receiver \in Receivers
      BY <1>1, <2>4 DEF TypeOK, TickState
    <3>2. (msg[i].claim + 1) % 2 = 1
      BY <1>1, <1>2, <2>4
    <3> QED
      BY <2>1, <2>4, <3>1, <3>2
  <2> QED
    BY <1>1, <1>4, <2>2, <2>3, <2>4, ClaimMoves
<1> QED
  BY <1>3, <1>4

(* What recording an attempt does, when no attempt of this claim is recorded.    *)
LEMMA RecordEffect ==
    ASSUME TypeOK, TickShape, AttemptFresh, NEW i \in tick.record, RecordAttempt(i)
    PROVE  /\ i \in Ids /\ i \in Unrecorded /\ i \in tick.claimed
           /\ attempt'[i] = [claim |-> msg[i].claim, outcome |-> tick.outcome]
           /\ \A j \in Ids : j # i => attempt'[j] = attempt[j]
           /\ msg' = msg
           /\ i \notin Unrecorded'
           /\ \/ /\ HoldChanges(i)
                 /\ tick'.pc = "hold" /\ tick'.item = {i} /\ tick'.record = tick.record \ {i}
                 /\ tick'.outcome = tick.outcome /\ tick'.claimed = tick.claimed
              \/ ~ HoldChanges(i) /\ tick' = AfterRecord(tick.record \ {i})
<1>1. i \in Ids /\ tick.pc = "record" /\ i \in Unrecorded /\ i \in tick.claimed
  BY DEF RecordAttempt, Unrecorded, TypeOK, TickState, TickShape
<1>2. attempt[i].claim # msg[i].claim
  <2>1. attempt[i].claim < msg[i].claim
    BY <1>1 DEF AttemptFresh
  <2>2. attempt[i].claim \in Nat /\ msg[i].claim \in Nat
    BY <1>1 DEF TypeOK, Row
  <2> QED
    BY <2>1, <2>2
<1>3. attempt' = [attempt EXCEPT ![i] = [claim |-> msg[i].claim, outcome |-> tick.outcome]]
  BY <1>2 DEF RecordAttempt
<1>4. msg' = msg
  BY DEF RecordAttempt
<1>5. CASE HoldChanges(i)
  <2>1. tick' = [tick EXCEPT !.pc = "hold", !.record = @ \ {i}, !.item = {i}]
    BY <1>5 DEF RecordAttempt
  <2>2. /\ tick'.pc = "hold" /\ tick'.item = {i} /\ tick'.record = tick.record \ {i}
        /\ tick'.outcome = tick.outcome /\ tick'.claimed = tick.claimed
    BY <2>1 DEF TypeOK, TickState
  <2> QED
    BY <1>1, <1>3, <1>4, <1>5, <2>2 DEF Unrecorded, TypeOK
<1>6. CASE ~ HoldChanges(i)
  <2>1. tick' = AfterRecord(tick.record \ {i})
    BY <1>6 DEF RecordAttempt
  <2>2. i \notin Unrecorded'
    BY <2>1, FreshTick DEF AfterRecord, Unrecorded, TypeOK, TickState
  <2> QED
    BY <1>1, <1>3, <1>4, <1>6, <2>1, <2>2 DEF TypeOK
<1> QED
  BY <1>5, <1>6

(* Every step keeps the attempt rows behind the claims.                      *)
LEMMA FreshStep ==
    ASSUME SafetyInv, TickShape, ClaimParity, AttemptFresh, [Next]_vars
    PROVE  AttemptFresh'
<1>1. TypeOK /\ TypeOK' /\ SnapshotFenced
  BY NextType DEF SafetyInv
<1>2. \A i \in Ids : /\ attempt[i].claim \in Nat /\ msg[i].claim \in Nat
                     /\ attempt'[i].claim \in Nat /\ msg'[i].claim \in Nat
  BY <1>1 DEF TypeOK, Row
<1>3. \A i \in Ids : msg'[i].claim >= msg[i].claim
  <2> SUFFICES ASSUME NEW i \in Ids PROVE msg'[i].claim >= msg[i].claim
    OBVIOUS
  <2>1. CASE msg[i].state = "none"
    <3>1. msg[i].claim = 0
      BY <2>1 DEF ClaimParity
    <3> QED
      BY <1>2, <3>1
  <2>2. CASE msg[i].state # "none"
    BY <1>1, <2>2, RowIdentity
  <2> QED
    BY <2>1, <2>2
<1>4. Unrecorded \subseteq Ids /\ Unrecorded' \subseteq Ids
  BY <1>1 DEF Unrecorded, TypeOK, TickState
<1>5. ASSUME NEW j \in tick.record, RecordAttempt(j) PROVE AttemptFresh'
  <2>1. /\ attempt'[j] = [claim |-> msg[j].claim, outcome |-> tick.outcome]
        /\ \A i \in Ids : i # j => attempt'[i] = attempt[i]
        /\ msg' = msg /\ j \notin Unrecorded'
    BY <1>1, <1>5, RecordEffect
  <2>2. Unrecorded' \subseteq Unrecorded
    <3>1. ~ \E r \in tick.todo : ClaimFor(r)
      BY <1>5 DEF RecordAttempt, ClaimFor
    <3> QED
      BY <1>1, <3>1, SnapshotKept
  <2>3. \A i \in Ids : attempt'[i].claim <= msg'[i].claim
    BY <1>2, <2>1 DEF AttemptFresh
  <2>4. \A i \in Unrecorded' : attempt'[i].claim < msg'[i].claim
    BY <1>4, <2>1, <2>2 DEF AttemptFresh
  <2> QED
    BY <2>3, <2>4 DEF AttemptFresh
<1>6. CASE attempt' = attempt
  <2>1. \A i \in Ids : attempt'[i].claim <= msg'[i].claim
    BY <1>2, <1>3, <1>6 DEF AttemptFresh
  <2>2. \A i \in Unrecorded' : attempt'[i].claim < msg'[i].claim
    <3>1. CASE Unrecorded' \subseteq Unrecorded
      BY <1>2, <1>3, <1>4, <1>6, <3>1 DEF AttemptFresh
    <3>2. ASSUME NEW r \in tick.todo, ClaimFor(r), NEW i \in Unrecorded'
          PROVE  attempt'[i].claim < msg'[i].claim
      <4>1. msg'[i].claim = msg[i].claim + 1
        BY <1>1, <3>2, ClaimEffect DEF Unrecorded
      <4> QED
        BY <1>2, <1>4, <1>6, <4>1 DEF AttemptFresh
    <3> QED
      BY <1>1, <3>1, <3>2, SnapshotKept
  <2> QED
    BY <2>1, <2>2 DEF AttemptFresh
<1> QED
  BY <1>5, <1>6, AttemptWriters

(* Every step keeps what the tick holds in agreement with the tables.           *)
LEMMA HonestStep ==
    ASSUME TickInv, [Next]_vars
    PROVE  SnapshotHonest'
<1>1. TypeOK /\ TypeOK' /\ SnapshotFenced /\ TickShape /\ AttemptFresh /\ SnapshotHonest
  BY NextType DEF TickInv, SafetyInv
<1>2. tick.claimed \subseteq Ids /\ tick'.claimed \subseteq Ids /\ Unrecorded \subseteq tick.claimed
      /\ Unrecorded' \subseteq tick'.claimed
  <2>1. TickShape'
    BY <1>1, ShapeStep
  <2> QED
    BY <1>1, <2>1 DEF TypeOK, TickState, TickShape, Unrecorded
<1>3. \A i \in tick.claimed : msg[i].state # "none"
  BY <1>1 DEF SnapshotFenced, TERMINAL_STATES
<1>4. \A i \in tick'.claimed : msg'[i].receiver = tick'.cur /\ msg'[i].state # "dead"
  <2>1. ASSUME NEW r \in tick.todo, ClaimFor(r), NEW i \in tick'.claimed
        PROVE  msg'[i].receiver = tick'.cur /\ msg'[i].state # "dead"
    BY <1>1, <2>1, ClaimEffect
  <2>2. ASSUME tick'.claimed \subseteq tick.claimed, NEW i \in tick'.claimed, tick'.cur = tick.cur
        PROVE  msg'[i].receiver = tick'.cur /\ msg'[i].state # "dead"
    <3>1. msg[i].receiver = tick.cur /\ msg[i].state # "dead" /\ msg[i].state # "none" /\ i \in Ids
      BY <1>1, <1>2, <1>3, <2>2 DEF SnapshotHonest
    <3>2. ~ TickReclaim
      BY <2>2 DEF TickReclaim, TickIdle
    <3> QED
      BY <1>1, <2>2, <3>1, <3>2, RowIdentity
  <2> QED
    BY <1>1, <2>1, <2>2, SnapshotKept
<1>5. \A i \in Unrecorded' :
         msg'[i].state \in Live => (i \in tick'.heldThen <=> msg'[i].held # NoTime)
  <2>1. ASSUME NEW r \in tick.todo, ClaimFor(r), NEW i \in Unrecorded'
        PROVE  i \in tick'.heldThen <=> msg'[i].held # NoTime
    BY <1>1, <1>2, <2>1, ClaimEffect
  <2>2. ASSUME Unrecorded' \subseteq Unrecorded, NEW i \in Unrecorded', msg'[i].state \in Live,
               tick'.heldThen = tick.heldThen
        PROVE  i \in tick'.heldThen <=> msg'[i].held # NoTime
    <3>1. i \in Ids /\ msg[i].state # "none" /\ i \in Unrecorded /\ i \in tick.claimed
      BY <1>2, <1>3, <2>2
    <3>2. msg[i].state \in Live
      <4>1. msg[i].state \notin TERMINAL_STATES
        BY <1>1, <2>2, <3>1, RowIdentity DEF Live, TERMINAL_STATES
      <4> QED
        BY <1>1, <3>1, <4>1 DEF SnapshotFenced, Live
    <3>3. msg'[i].held = msg[i].held
      <4>1. CASE MarkDialogHold
        <5>1. PICK j \in tick.item, held \in Nat \cup {NoTime} : msg' = [msg EXCEPT ![j].held = held]
          BY <1>1, <4>1 DEF MarkDialogHold, TypeOK
        <5>2. i # j
          BY <1>1, <3>1, <4>1 DEF MarkDialogHold, TickShape, Unrecorded
        <5> QED
          BY <1>1, <3>1, <5>1, <5>2 DEF TypeOK
      <4>2. CASE ~ MarkDialogHold
        BY <1>1, <2>2, <3>1, <4>2, RowIdentity
      <4> QED
        BY <4>1, <4>2
    <3> QED
      BY <1>1, <2>2, <3>1, <3>2, <3>3 DEF SnapshotHonest
  <2> QED
    BY <1>1, <1>2, <2>1, <2>2, SnapshotKept
<1>6. ASSUME tick'.pc = "hold", NEW i \in tick'.item
      PROVE  attempt'[i].outcome = tick'.outcome
  <2>1. ASSUME NEW j \in tick.record, RecordAttempt(j) PROVE attempt'[i].outcome = tick'.outcome
    <3>0. attempt'[j] = [claim |-> msg[j].claim, outcome |-> tick.outcome]
      BY <1>1, <2>1, RecordEffect
    <3>1. CASE tick'.item = {j} /\ tick'.outcome = tick.outcome
      BY <1>6, <3>0, <3>1
    <3>2. CASE tick' = AfterRecord(tick.record \ {j})
      BY <1>1, <1>6, <3>2, FreshTick DEF AfterRecord, TypeOK, TickState
    <3> QED
      BY <1>1, <2>1, <3>1, <3>2, RecordEffect
  <2>2. CASE UNCHANGED <<tick, attempt>>
    BY <1>1, <1>6, <2>2 DEF SnapshotHonest
  <2>3. ASSUME tick'.pc # "hold" PROVE FALSE
    BY <1>6, <2>3
  <2>4. (\E j \in tick.record : RecordAttempt(j)) \/ UNCHANGED <<tick, attempt>> \/ tick'.pc # "hold"
    <3> USE FreshTick
    <3>1. tick \in TickState
      BY <1>1 DEF TypeOK
    <3>2. CASE TickReclaim \/ ServeEnd
      BY <3>2 DEF TickReclaim, ServeEnd, TickIdle
    <3>3. ASSUME NEW k \in tick.dead, AnnounceDeath(k) PROVE tick'.pc # "hold"
      BY <3>1, <3>3 DEF AnnounceDeath, TickState
    <3>4. CASE EnqueueNotice \/ EpochFound \/ DeliverAbsent \/ DeliverWake
      <4>1. \/ \E e : tick' = [tick EXCEPT !.pc = "extend", !.epoch = e]
            \/ \E o : tick' = [tick EXCEPT !.pc = "record", !.outcome = o, !.record = tick.claimed]
            \/ tick' = [tick EXCEPT !.pc = "announce", !.item = {}]
        BY <3>4 DEF EnqueueNotice, EpochFound, DeliverAbsent, DeliverWake
      <4> QED
        BY <3>1, <4>1 DEF TickState
    <3>5. CASE ServeBegin \/ DeliverClosed \/ TickEnd \/ Crash
      BY <3>5 DEF ServeBegin, DeliverClosed, TickEnd, Crash
    <3>6. ASSUME NEW r \in tick.todo, ClaimFor(r) PROVE tick'.pc # "hold"
      BY <1>1, <3>6, ClaimEffect
    <3>7. CASE EpochRead
      BY <3>1, <3>7 DEF EpochRead, TickState
    <3>8. CASE EpochBuild \/ EpochExtend
      BY <3>1, <3>8 DEF EpochBuild, EpochExtend, WithEpoch, TickState
    <3>9. CASE MarkDialogHold
      BY <3>1, <3>9 DEF MarkDialogHold, AfterRecord, TickState
    <3>10. ASSUME NEW p \in tick.scan, CloseFinished(p[1], p[2]) PROVE tick'.pc # "hold"
      BY <3>1, <3>10 DEF CloseFinished, TickState
    <3>11. CASE TickFault
      <4>1. ASSUME NEW r, tick.pc = "serve", tick' = [tick EXCEPT !.todo = @ \ {r}]
            PROVE tick'.pc # "hold"
        BY <3>1, <4>1 DEF TickState
      <4>2. CASE tick' = [tick EXCEPT !.pc = "announce", !.item = {}]
        BY <3>1, <4>2 DEF TickState
      <4> QED
        BY <3>11, <4>1, <4>2 DEF TickFault
    <3> QED
      BY <3>2, <3>3, <3>4, <3>5, <3>6, <3>7, <3>8, <3>9, <3>10, <3>11, TickMoves
  <2> QED
    BY <2>1, <2>2, <2>3, <2>4
<1> QED
  BY <1>4, <1>5, <1>6 DEF SnapshotHonest

(* Every step keeps the tick's invariant.                                    *)
LEMMA TickInductive == TickInv /\ [Next]_vars => TickInv'
BY SafetyInductive, ShapeStep, ParityStep, FreshStep, HonestStep DEF TickInv, SafetyInv

(* What the tick keeps between its transactions agrees with the tables, in        *)
(* every interleaving with senders, completions, acks, errors and crashes: its   *)
(* claims alternate with releases, and no outcome is recorded under a claim that  *)
(* already has one.                                                          *)
THEOREM TickKeepsItsBooks == Spec => []TickInv
<1>1. Init => TickInv
  <2> SUFFICES ASSUME Init PROVE TickInv
    OBVIOUS
  <2>1. SafetyInv
    BY InitSafe
  <2>2. \A i \in Ids : msg[i].state = "none" /\ msg[i].claim = 0 /\ attempt[i].claim = 0
    BY DEF Init, NoRow, NoAttempt
  <2>3. tick = TickIdle
    BY DEF Init
  <2>4. TickShape
    BY <2>3, FreshTick DEF TickShape
  <2>5. ClaimParity
    BY <2>2 DEF ClaimParity
  <2>6. AttemptFresh /\ SnapshotHonest
    BY <2>2, <2>3, FreshTick DEF AttemptFresh, SnapshotHonest, Unrecorded
  <2> QED
    BY <2>1, <2>4, <2>5, <2>6 DEF TickInv
<1> QED
  BY <1>1, TickInductive, PTL DEF Spec

-----------------------------------------------------------------------------
(* Acks: list_messages and settle_through are separate transactions.            *)

(* A row with a handle that is pending after a step was pending under it before,  *)
(* or is new, with a handle above every row's.                                *)
LEMMA PendingStep ==
    ASSUME TickInv, [Next]_vars, NEW i \in Ids, msg'[i].state \in Live, msg'[i].sid > 0
    PROVE  \/ /\ msg[i].state \in Live
              /\ msg'[i].receiver = msg[i].receiver /\ msg'[i].sid = msg[i].sid
           \/ \A j \in Ids : msg[j].sid < msg'[i].sid
<1>1. TypeOK /\ TypeOK' /\ SnapshotFenced /\ TickShape
  BY NextType DEF TickInv, SafetyInv
<1>2. CASE msg[i].state = "none"
  <2>1. msg'[i] # msg[i]
    BY <1>2 DEF Live
  <2> QED
    BY <1>1, <1>2, <2>1, RowAppears
<1>3. CASE msg[i].state # "none"
  <2>1. msg[i].state \notin TERMINAL_STATES
    BY <1>1, <1>3, RowIdentity DEF Live, TERMINAL_STATES
  <2>2. msg[i].state \in Live
    BY <1>1, <1>3, <2>1 DEF TypeOK, Row
  <2> QED
    BY <1>1, <1>3, <2>2, RowIdentity
<1> QED
  BY <1>2, <1>3

(* Only an ack delivers.                                                    *)
LEMMA OnlyAcksDeliver ==
    ASSUME TypeOK, [Next]_vars, NEW i \in Ids, msg'[i].state = "delivered"
    PROVE  \/ msg[i].state = "delivered"
           \/ \E r \in Seats : SeatSettle(r) /\ i \in Settleable(r, seat[r].upTo)
<1>1. msg[i] \in Row
  BY DEF TypeOK
<1>2. ASSUME NEW k, NEW row, enqueue(k, row), row.state = "ready" PROVE msg[i].state = "delivered"
  BY <1>2 DEF enqueue, TypeOK
<1>3. ASSUME NEW m \in Msgs, NEW d \in Drafts, Send(m, d) PROVE msg[i].state = "delivered"
  <2>1. PICK sid : enqueue(m, LiveRow(d, sid))
    BY <1>3 DEF Send
  <2>2. LiveRow(d, sid).state = "ready"
    BY DEF LiveRow, NoRow
  <2> QED
    BY <1>2, <2>1, <2>2
<1>4. CASE EnqueueNotice
  <2>1. \A x : NoticeRow(x).state = "ready"
    BY DEF NoticeRow, NoRow
  <2> QED
    BY <1>2, <1>4, <2>1 DEF EnqueueNotice
<1>5. ASSUME NEW r \in Receivers, Complete(r) PROVE msg[i].state = "delivered"
  <2>1. PICK S : EndRows(S, "superseded")
    BY <1>5 DEF Complete
  <2>2. Ended(msg[i], "superseded").state = "superseded"
    BY <1>1 DEF Ended, Row
  <2> QED
    BY <2>1, <2>2 DEF EndRows
<1>6. ASSUME NEW r \in Seats, SeatSettle(r), i \notin Settleable(r, seat[r].upTo)
      PROVE  msg[i].state = "delivered"
  BY <1>6 DEF SeatSettle, EndRows
<1>7. CASE TickReclaim
  <2>1. now \in Nat /\ msg'[i] = Reclaimed(i, now)
    BY <1>7 DEF TickReclaim, TypeOK
  <2> QED
    BY <2>1, ReclaimedRow DEF Live
<1>8. ASSUME NEW r \in tick.todo, ClaimFor(r) PROVE msg[i].state = "delivered"
  BY <1>8, ClaimEffect
<1>9. CASE MarkDialogHold
  <2>1. PICK j \in tick.item, held \in Nat \cup {NoTime} : msg' = [msg EXCEPT ![j].held = held]
    BY <1>9 DEF MarkDialogHold, TypeOK
  <2> QED
    BY <1>1, <2>1 DEF TypeOK, Row
<1> QED
  BY <1>3, <1>4, <1>5, <1>6, <1>7, <1>8, <1>9, RowWriters

(* A seat is at "listed" because it has just listed, or was there before.         *)
LEMMA ListedSeats ==
    ASSUME TypeOK, [Next]_vars, NEW r \in Seats, seat'[r].pc = "listed"
    PROVE  (seat'[r] = seat[r] \/ SeatList(r)) /\ shown \subseteq shown'
<1>1. \A q \in Seats : seat[q] \in SeatState
  BY DEF TypeOK
<1>2. SeatIdle.pc = "idle"
  BY DEF SeatIdle
<1>3. ASSUME NEW q \in Seats, SeatList(q) PROVE (seat'[r] = seat[r] \/ SeatList(r)) /\ shown \subseteq shown'
  BY <1>3 DEF SeatList, TypeOK
<1>4. ASSUME NEW q \in Seats, SeatSettle(q) PROVE seat'[r] = seat[r]
  <2>1. seat' = [seat EXCEPT ![q] = SeatIdle] \/ seat' = [seat EXCEPT ![q] = [@ EXCEPT !.pc = "settled"]]
    BY <1>4 DEF SeatSettle
  <2> QED
    BY <1>1, <1>2, <2>1 DEF TypeOK, SeatState
<1>5. ASSUME NEW q \in Seats, SeatReadDigest(q) PROVE seat'[r] = seat[r]
  <2>1. \/ seat' = [seat EXCEPT ![q] = SeatIdle]
        \/ \E e, ids : seat' = [seat EXCEPT ![q] = [@ EXCEPT !.pc = "read", !.epoch = e, !.ids = ids]]
    BY <1>5 DEF SeatReadDigest
  <2>2. CASE q = r
    <3>1. ASSUME NEW e, NEW ids,
                 seat' = [seat EXCEPT ![q] = [@ EXCEPT !.pc = "read", !.epoch = e, !.ids = ids]]
          PROVE  FALSE
      <4>1. seat'[r] = [seat[r] EXCEPT !.pc = "read", !.epoch = e, !.ids = ids]
        BY <2>2, <3>1 DEF TypeOK
      <4> QED
        BY <1>1, <4>1 DEF SeatState
    <3>2. CASE seat' = [seat EXCEPT ![q] = SeatIdle]
      BY <1>2, <2>2, <3>2 DEF TypeOK
    <3> QED
      BY <2>1, <3>1, <3>2
  <2>3. CASE q # r
    BY <2>1, <2>3 DEF TypeOK
  <2> QED
    BY <2>2, <2>3
<1>6. ASSUME NEW q \in Seats, SeatClose(q) \/ SeatFault(q) PROVE seat'[r] = seat[r]
  BY <1>1, <1>2, <1>6 DEF SeatClose, SeatFault, TypeOK
<1>7. ASSUME Crash PROVE seat'[r] = seat[r]
  BY <1>2, <1>7 DEF Crash
<1>8. (\E q \in Seats : SeatList(q)) \/ UNCHANGED shown
  BY DEF Next, TickStep, SeatStep, vars, table, Advance, AnnounceDeath, ServeBegin, EpochRead, EpochBuild,
       EpochFound, EpochExtend, DeliverAbsent, DeliverClosed, DeliverWake, RecordAttempt, ServeEnd,
       CloseFinished, TickEnd, SeatReadDigest, SeatClose, SeatFault, TickFault, Crash,
       Send, Complete, TickReclaim, EnqueueNotice, ClaimFor, MarkDialogHold, SeatSettle
<1>9. \/ \E q \in Seats : SeatStep(q) \/ SeatFault(q)
      \/ Crash \/ UNCHANGED seat
  BY DEF Next, TickStep, vars, table, Advance, AnnounceDeath, ServeBegin, EpochRead, EpochBuild,
       EpochFound, EpochExtend, DeliverAbsent, DeliverClosed, DeliverWake, RecordAttempt, ServeEnd,
       CloseFinished, TickEnd, TickFault, Send, Complete, TickReclaim, EnqueueNotice, ClaimFor,
       MarkDialogHold
<1> QED
  BY <1>3, <1>4, <1>5, <1>6, <1>7, <1>8, <1>9 DEF SeatStep

(* Every step keeps a listed seat's cursor below what it was not shown.           *)
LEMMA ListedStep ==
    ASSUME TickInv, ListedShown, [Next]_vars
    PROVE  ListedShown'
<1> SUFFICES ASSUME NEW r \in Seats, seat'[r].pc = "listed"
             PROVE  /\ \E j \in Ids : msg'[j].state # "none" /\ seat'[r].upTo <= msg'[j].sid
                    /\ \A i \in Ids : /\ msg'[i].state \in Live /\ msg'[i].receiver = r
                                      /\ 0 < msg'[i].sid /\ msg'[i].sid <= seat'[r].upTo
                                      => i \in shown'
  BY DEF ListedShown, Settleable, pending_for_receiver, Rows
<1>1. TypeOK /\ TypeOK'
  BY NextType DEF TickInv, SafetyInv
<1>2. shown \subseteq shown'
  BY <1>1, ListedSeats
<1>3. CASE SeatList(r)
  <2>1. PICK S \in SUBSET pending_for_receiver(r) :
          /\ \A i \in S, j \in pending_for_receiver(r) \ S : msg[i].sid < msg[j].sid
          /\ shown' = shown \cup S
          /\ \E i \in S : seat' = [seat EXCEPT ![r] = [SeatIdle EXCEPT !.pc = "listed", !.upTo = msg[i].sid]]
    BY <1>3 DEF SeatList
  <2>2. PICK i \in S : seat' = [seat EXCEPT ![r] = [SeatIdle EXCEPT !.pc = "listed", !.upTo = msg[i].sid]]
    BY <2>1
  <2>3. i \in Ids /\ msg[i].state \in Live
    BY DEF pending_for_receiver, Rows
  <2>4. seat'[r].upTo = msg[i].sid
    BY <1>1, <2>2 DEF TypeOK, SeatIdle
  <2>5. msg' = msg
    BY <1>3 DEF SeatList, table
  <2>6. msg[i].sid \in Nat
    BY <1>1, <2>3 DEF TypeOK, Row
  <2>7. ASSUME NEW k \in Ids, msg'[k].state \in Live, msg'[k].receiver = r, 0 < msg'[k].sid,
               msg'[k].sid <= seat'[r].upTo
        PROVE  k \in shown'
    <3>1. k \in pending_for_receiver(r) /\ msg[k].sid <= msg[i].sid /\ msg[k].sid \in Nat
      BY <1>1, <2>4, <2>5, <2>7 DEF pending_for_receiver, Rows, TypeOK, Row
    <3>2. k \in S
      BY <2>1, <2>6, <3>1
    <3> QED
      BY <2>1, <3>2
  <2> QED
    BY <2>3, <2>4, <2>5, <2>6, <2>7 DEF Live
<1>4. CASE seat'[r] = seat[r]
  <2>1. PICK j \in Ids : msg[j].state # "none" /\ seat[r].upTo <= msg[j].sid
    BY <1>4 DEF ListedShown
  <2>2. msg'[j].state # "none" /\ msg'[j].sid = msg[j].sid
    BY <1>1, <2>1, RowIdentity
  <2>3. seat[r].upTo \in Nat /\ msg[j].sid \in Nat
    BY <1>1 DEF TypeOK, SeatState, Row
  <2>5. ASSUME NEW i \in Ids, msg'[i].state \in Live, msg'[i].receiver = r, 0 < msg'[i].sid,
               msg'[i].sid <= seat'[r].upTo
        PROVE  i \in shown'
    <3>1. msg'[i].sid <= seat[r].upTo /\ msg'[i].sid \in Nat
      BY <1>1, <1>4, <2>5 DEF TypeOK, Row
    <3>2. ~ \A k \in Ids : msg[k].sid < msg'[i].sid
      BY <2>1, <2>3, <3>1
    <3>3. i \in Settleable(r, seat[r].upTo)
      BY <2>5, <3>1, <3>2, PendingStep DEF Settleable, pending_for_receiver, Rows
    <3> QED
      BY <1>2, <1>4, <3>3 DEF ListedShown
  <2> QED
    BY <1>4, <2>1, <2>2, <2>5
<1> QED
  BY <1>1, <1>3, <1>4, ListedSeats

(* settle_through, which ends rows by cursor and not by the ids a seat read,      *)
(* ends only rows that some list_messages answer carried: for any number of      *)
(* seats, messages and ticks in between, and over every error and crash.        *)
THEOREM AcksSettleOnlyShown == Spec => []AckSettlesOnlyShown
<1>1. Init => ListedShown /\ AckSettlesOnlyShown
  BY DEF Init, ListedShown, AckSettlesOnlyShown, SeatIdle, NoRow
<1>2. TickInv /\ ListedShown /\ AckSettlesOnlyShown /\ [Next]_vars
        => (ListedShown /\ AckSettlesOnlyShown)'
  <2> SUFFICES ASSUME TickInv, ListedShown, AckSettlesOnlyShown, [Next]_vars
               PROVE  ListedShown' /\ AckSettlesOnlyShown'
    OBVIOUS
  <2>1. TypeOK
    BY DEF TickInv, SafetyInv
  <2>2. shown \subseteq shown'
    BY DEF Next, TickStep, SeatStep, vars, table, Advance, AnnounceDeath, ServeBegin, EpochRead, EpochBuild,
       EpochFound, EpochExtend, DeliverAbsent, DeliverClosed, DeliverWake, RecordAttempt, ServeEnd,
       CloseFinished, TickEnd, SeatList, SeatReadDigest, SeatClose, SeatFault, TickFault, Crash,
       Send, Complete, TickReclaim, EnqueueNotice, ClaimFor, MarkDialogHold, SeatSettle
  <2>3. ASSUME NEW i \in Ids, msg'[i].state = "delivered" PROVE i \in shown'
    <3>1. CASE msg[i].state = "delivered"
      BY <2>2, <3>1 DEF AckSettlesOnlyShown
    <3>2. ASSUME NEW r \in Seats, SeatSettle(r), i \in Settleable(r, seat[r].upTo)
          PROVE  i \in shown'
      BY <2>2, <3>2 DEF SeatSettle, ListedShown
    <3> QED
      BY <2>1, <2>3, <3>1, <3>2, OnlyAcksDeliver
  <2> QED
    BY <2>3, ListedStep DEF AckSettlesOnlyShown
<1> QED
  BY <1>1, <1>2, TickKeepsItsBooks, PTL DEF Spec

-----------------------------------------------------------------------------
(* Until the first crash or store error.                                     *)

(* As long as nothing has failed, no step was an error or a crash.             *)
LEMMA NoFault ==
    ASSUME TypeOK, [Next]_vars, faults' = 0
    PROVE  faults = 0 /\ ~ TickFault /\ ~ Crash
<1>1. faults \in Nat
  BY DEF TypeOK
<1>2. ~ TickFault /\ ~ Crash /\ ~ \E r \in Seats : SeatFault(r)
  BY <1>1 DEF TickFault, Crash, SeatFault
<1>3. faults' = faults
  BY <1>2
     DEF Next, TickStep, SeatStep, vars, table, Advance, AnnounceDeath, ServeBegin, EpochRead, EpochBuild,
       EpochFound, EpochExtend, DeliverAbsent, DeliverClosed, DeliverWake, RecordAttempt, ServeEnd,
       CloseFinished, TickEnd, SeatList, SeatReadDigest, SeatClose,
       Send, Complete, TickReclaim, EnqueueNotice, ClaimFor, MarkDialogHold, SeatSettle
<1> QED
  BY <1>2, <1>3

(* The announcing phases: deaths are found by a reclaim and leave the list one by *)
(* one, each by its announcement; a notice is due from an announcement.          *)
LEMMA AnnouncePhase ==
    ASSUME TypeOK, TickShape, [Next]_vars
    PROVE  /\ TickReclaim \/ tick'.dead \subseteq tick.dead
           /\ tick'.pc = "notice" =>
                 (\E i \in tick.dead : AnnounceDeath(i)) \/ UNCHANGED <<tick, finding>>
           /\ ~ TickFault /\ ~ Crash => \A i \in tick.dead : i \in tick'.dead \/ AnnounceDeath(i)
           /\ ~ TickFault /\ ~ Crash /\ tick.pc = "notice" => EnqueueNotice \/ tick' = tick
           /\ ~ TickFault /\ ~ Crash /\ tick.pc = "hold" => MarkDialogHold \/ tick' = tick
<1> DEFINE Fine == /\ tick'.dead \subseteq tick.dead
                   /\ tick'.pc # "notice"
                   /\ tick.pc \notin {"notice", "hold"}
                   /\ tick.dead \subseteq tick'.dead
<1>1. tick \in TickState
  BY DEF TypeOK
<1>2. \A X : ToServe(X).dead = {} /\ ToServe(X).pc = "serve"
  BY FreshTick
<1>3. CASE TickReclaim
  <2>1. tick.dead = {} /\ tick.pc = "idle" /\ tick'.pc = "announce"
    BY <1>3 DEF TickReclaim, TickShape, TickIdle
  <2> QED
    BY <1>3, <2>1
<1>4. ASSUME NEW i \in tick.dead, AnnounceDeath(i)
      PROVE  /\ tick'.dead = tick.dead \ {i}
             /\ tick.pc = "announce"
  BY <1>1, <1>4 DEF AnnounceDeath, TickState
<1>5. CASE EnqueueNotice
  <2>1. tick'.pc = "announce" /\ tick'.dead = tick.dead
    BY <1>1, <1>5 DEF EnqueueNotice, TickState
  <2> QED
    BY <1>5, <2>1 DEF EnqueueNotice
<1>6. CASE ServeBegin \/ DeliverClosed
  BY <1>2, <1>6 DEF ServeBegin, DeliverClosed, TickShape
<1>7. ASSUME NEW r \in tick.todo, ClaimFor(r) PROVE Fine
  <2>1. tick'.pc = "epoch" /\ tick'.dead = tick.dead
    BY <1>7, ClaimEffect
  <2> QED
    BY <1>7, <2>1 DEF ClaimFor
<1>8. CASE EpochRead
  <2>1. tick.pc = "epoch" /\ tick.dead = {}
    BY <1>8 DEF EpochRead, TickShape
  <2>2. tick' = ToServe(tick.todo) \/ \E X : tick' = [tick EXCEPT !.pc = "open", !.owed = X]
    BY <1>8 DEF EpochRead
  <2> QED
    BY <1>1, <1>2, <2>1, <2>2 DEF TickState
<1>9. CASE EpochBuild \/ EpochExtend
  <2>1. tick.pc \in {"open", "extend"} /\ tick.dead = {}
    BY <1>9 DEF EpochBuild, EpochExtend, TickShape
  <2>2. PICK e : tick' = WithEpoch(e)
    BY <1>9 DEF EpochBuild, EpochExtend
  <2> QED
    BY <1>1, <1>2, <2>1, <2>2 DEF WithEpoch, TickState
<1>10. CASE EpochFound \/ DeliverAbsent \/ DeliverWake
  <2>1. tick.pc \in {"open", "deliver"} /\ tick.dead = {}
    BY <1>10 DEF EpochFound, DeliverAbsent, DeliverWake, TickShape
  <2>2. \/ \E e : tick' = [tick EXCEPT !.pc = "extend", !.epoch = e]
        \/ \E o : tick' = [tick EXCEPT !.pc = "record", !.outcome = o, !.record = tick.claimed]
    BY <1>10 DEF EpochFound, DeliverAbsent, DeliverWake
  <2> QED
    BY <1>1, <2>1, <2>2 DEF TickState
<1>11. ASSUME NEW i \in tick.record, RecordAttempt(i) PROVE Fine
  <2>1. tick.pc = "record" /\ tick.dead = {}
    BY <1>11 DEF RecordAttempt, TickShape
  <2>2. \/ tick' = AfterRecord(tick.record \ {i})
        \/ tick' = [tick EXCEPT !.pc = "hold", !.record = @ \ {i}, !.item = {i}]
    BY <1>11 DEF RecordAttempt
  <2> QED
    BY <1>1, <1>2, <2>1, <2>2 DEF AfterRecord, TickState
<1>12. CASE MarkDialogHold
  <2>1. tick.pc = "hold" /\ tick.dead = {} /\ tick' = AfterRecord(tick.record)
    BY <1>12 DEF MarkDialogHold, TickShape
  <2>2. tick'.dead = {} /\ tick'.pc # "notice"
    BY <1>1, <1>2, <2>1 DEF AfterRecord, TickState
  <2> QED
    BY <1>12, <2>1, <2>2
<1>13. CASE ServeEnd
  <2>1. PICK X : tick' = [TickIdle EXCEPT !.pc = "close", !.scan = X]
    BY <1>13 DEF ServeEnd
  <2>2. tick'.dead = {} /\ tick'.pc = "close" /\ tick.pc = "serve" /\ tick.dead = {}
    BY <1>13, <2>1 DEF ServeEnd, TickIdle, TickShape
  <2> QED
    BY <2>2
<1>14. ASSUME NEW p \in tick.scan, CloseFinished(p[1], p[2]) PROVE Fine
  BY <1>1, <1>14 DEF CloseFinished, TickState
<1>15. CASE TickEnd
  BY <1>15, FreshTick DEF TickEnd, TickShape
<1>16. CASE Crash
  BY <1>16, FreshTick DEF Crash
<1>17. CASE TickFault
  <2>1. CASE tick' = [tick EXCEPT !.pc = "announce", !.item = {}]
    BY <1>1, <1>17, <2>1 DEF TickState
  <2>2. ASSUME NEW r, tick.pc = "serve", tick' = [tick EXCEPT !.todo = @ \ {r}] PROVE Fine
    BY <1>1, <2>2 DEF TickState
  <2>3. CASE tick' = TickIdle \/ tick' = ToServe(tick.todo)
    BY <1>2, <1>17, <2>3, FreshTick
  <2> QED
    BY <1>17, <2>1, <2>2, <2>3 DEF TickFault
<1>18. CASE UNCHANGED <<tick, attempt, finding, uncertain, stamp>>
  BY <1>18
<1>19. CASE Fine
  BY <1>19
<1>20. CASE \E i \in tick.dead : AnnounceDeath(i)
  BY <1>4, <1>20
<1> HIDE DEF Fine
<1> QED
  BY <1>3, <1>5, <1>6, <1>7, <1>8, <1>9, <1>10, <1>11, <1>12, <1>13, <1>14, <1>15, <1>16,
     <1>17, <1>18, <1>19, <1>20, TickMoves

(* Findings are only added.                                                 *)
LEMMA FindingsGrow ==
    ASSUME [Next]_vars
    PROVE  finding \subseteq finding'
<1>1. ASSUME NEW i, AnnounceDeath(i) PROVE finding \subseteq finding'
  BY <1>1 DEF AnnounceDeath
<1> QED
  BY <1>1
     DEF Next, TickStep, SeatStep, vars, table, Advance, ServeBegin, EpochRead, EpochBuild,
       EpochFound, EpochExtend, DeliverAbsent, DeliverClosed, DeliverWake, RecordAttempt, ServeEnd,
       CloseFinished, TickEnd, SeatList, SeatReadDigest, SeatClose, SeatFault, TickFault, Crash,
       Send, Complete, TickReclaim, EnqueueNotice, ClaimFor, MarkDialogHold, SeatSettle

(* Every step keeps the deaths in progress in order.                         *)
LEMMA ProgressStep ==
    ASSUME TickInv, DeathsInProgress, [Next]_vars
    PROVE  DeathsInProgress'
<1>1. TypeOK /\ TypeOK' /\ SnapshotFenced /\ TickShape
  BY NextType DEF TickInv, SafetyInv
<1>2. ASSUME NEW m \in Msgs, msg'[Notice(m)].state # "none" PROVE msg'[Notice(m)].notice
  <2>1. Notice(m) \in Ids /\ Notice(m) \notin Msgs
    BY IdsOK DEF Ids
  <2>2. CASE msg[Notice(m)].state = "none"
    BY <1>1, <1>2, <2>1, <2>2, RowAppears
  <2>3. CASE msg[Notice(m)].state # "none"
    BY <1>1, <2>1, <2>3, RowIdentity DEF DeathsInProgress
  <2> QED
    BY <2>2, <2>3
<1>3. ASSUME NEW i \in tick'.dead PROVE msg'[i].state = "dead"
  <2>1. i \in Ids
    BY <1>1 DEF TypeOK, TickState
  <2>2. CASE TickReclaim
    BY <1>3, <2>1, <2>2 DEF TickReclaim, TickIdle, Dies
  <2>3. CASE tick'.dead \subseteq tick.dead
    <3>1. msg[i].state = "dead"
      BY <1>3, <2>3 DEF DeathsInProgress
    <3> QED
      BY <1>1, <2>1, <3>1, RowIdentity DEF TERMINAL_STATES
  <2> QED
    BY <1>1, <2>2, <2>3, AnnouncePhase
<1>4. ASSUME NEW i \in Ids, msg[i].state = "dead"
      PROVE  /\ msg'[i].state = "dead" /\ msg'[i].reason = msg[i].reason
             /\ msg'[i].notice = msg[i].notice /\ msg'[i].sender = msg[i].sender
  BY <1>1, <1>4, RowIdentity DEF TERMINAL_STATES
<1>5. ASSUME tick'.pc = "notice", NEW i \in tick'.item
      PROVE  /\ msg'[i].state = "dead" /\ NoticeDue(i)'
             /\ msg'[i].reason \in TimeBoundReasons => i \in finding'
  <2>1. ASSUME NEW k \in tick.dead, AnnounceDeath(k)
        PROVE  /\ msg[i].state = "dead" /\ NoticeDue(i)
               /\ msg[i].reason \in TimeBoundReasons => i \in finding'
    <3>1. CASE NoticeDue(k)
      <4>1. tick'.item = {k}
        BY <1>1, <2>1, <3>1 DEF AnnounceDeath, TypeOK, TickState
      <4>2. i = k /\ msg[k].state = "dead"
        BY <1>5, <4>1 DEF DeathsInProgress
      <4> QED
        BY <2>1, <3>1, <4>2 DEF AnnounceDeath
    <3>2. CASE ~ NoticeDue(k)
      <4>1. tick' = [tick EXCEPT !.dead = @ \ {k}] /\ tick.pc = "announce"
        BY <2>1, <3>2 DEF AnnounceDeath
      <4> QED
        BY <1>1, <1>5, <4>1 DEF TypeOK, TickState
    <3> QED
      BY <3>1, <3>2
  <2>2. ASSUME UNCHANGED <<tick, finding>>
        PROVE  /\ msg[i].state = "dead" /\ NoticeDue(i)
               /\ msg[i].reason \in TimeBoundReasons => i \in finding'
    BY <1>5, <2>2 DEF DeathsInProgress
  <2>3. /\ msg[i].state = "dead" /\ NoticeDue(i)
        /\ msg[i].reason \in TimeBoundReasons => i \in finding'
    <3>1. (\E k \in tick.dead : AnnounceDeath(k)) \/ UNCHANGED <<tick, finding>>
      BY <1>1, <1>5, AnnouncePhase
    <3> QED
      BY <2>1, <2>2, <3>1
  <2>4. i \in Ids
    BY <1>1 DEF TypeOK, TickState
  <2> QED
    BY <1>4, <2>3, <2>4 DEF NoticeDue
<1> QED
  BY <1>2, <1>3, <1>5 DEF DeathsInProgress

(* Without an error or a crash, every death leaves the tick announced.           *)
LEMMA AnnouncedStep ==
    ASSUME TickInv, DeathsInProgress, DeathsAnnounced, [Next]_vars, ~ TickFault, ~ Crash
    PROVE  DeathsAnnounced'
<1>1. TypeOK /\ TypeOK' /\ SnapshotFenced /\ TickShape /\ SnapshotHonest
  BY NextType DEF TickInv, SafetyInv
<1> SUFFICES ASSUME NEW i \in Ids, msg'[i].state = "dead", i \notin tick'.dead \cup tick'.item
             PROVE  /\ msg'[i].reason \in TimeBoundReasons => i \in finding'
                    /\ NoticeDue(i)' => msg'[Notice(i)].state # "none"
  BY DEF DeathsAnnounced
<1>2. msg[i].state # "none"
  BY <1>1, RowAppears
<1>3. ASSUME msg[i].state = "dead"
      PROVE  msg'[i].reason = msg[i].reason /\ (NoticeDue(i)' <=> NoticeDue(i))
  BY <1>1, <1>3, RowIdentity DEF TERMINAL_STATES, NoticeDue
<1>4. ASSUME NoticeDue(i) PROVE Notice(i) \in Ids
  <2>1. i \in Msgs
    BY <1>2, <1>4 DEF DeathsInProgress, NoticeDue, Ids
  <2> QED
    BY <2>1 DEF Ids
<1>5. ASSUME msg[i].state = "dead", msg[i].reason \in TimeBoundReasons => i \in finding,
             NoticeDue(i) => msg[Notice(i)].state # "none"
      PROVE  /\ msg'[i].reason \in TimeBoundReasons => i \in finding'
             /\ NoticeDue(i)' => msg'[Notice(i)].state # "none"
  <2>1. NoticeDue(i) => msg'[Notice(i)].state # "none"
    BY <1>1, <1>4, <1>5, RowIdentity
  <2> QED
    BY <1>3, <1>5, <2>1, FindingsGrow
<1>6. CASE msg[i].state = "dead" /\ i \notin tick.dead \cup tick.item
  BY <1>5, <1>6 DEF DeathsAnnounced
<1>7. CASE msg[i].state = "dead" /\ i \in tick.dead
  <2>1. AnnounceDeath(i)
    BY <1>1, <1>7, AnnouncePhase
  <2>2. ~ NoticeDue(i)
    <3>1. NoticeDue(i) => tick'.item = {i}
      BY <1>1, <2>1 DEF AnnounceDeath, TypeOK, TickState
    <3> QED
      BY <3>1
  <2> QED
    BY <1>3, <1>7, <2>1, <2>2 DEF AnnounceDeath
<1>8. CASE msg[i].state = "dead" /\ i \in tick.item
  <2>1. tick.pc = "notice"
    <3>1. tick.pc # "hold"
      BY <1>1, <1>8 DEF TickShape, SnapshotHonest
    <3> QED
      BY <1>1, <1>8, <3>1 DEF TickShape
  <2>2. EnqueueNotice
    BY <1>1, <1>8, <2>1, AnnouncePhase
  <2>3. PICK k \in tick.item : enqueue(Notice(k), NoticeRow(msg[k].sender))
    BY <2>2 DEF EnqueueNotice
  <2>4. k = i
    BY <1>1, <1>8, <2>3 DEF TickShape
  <2>5. NoticeDue(i) /\ (msg[i].reason \in TimeBoundReasons => i \in finding)
    BY <1>8, <2>1 DEF DeathsInProgress
  <2>6. msg'[Notice(i)].state # "none"
    <3>1. Notice(i) \in Ids
      BY <1>4, <2>5
    <3>2. NoticeRow(msg[k].sender).state = "ready"
      BY DEF NoticeRow, NoRow
    <3> QED
      BY <1>1, <2>3, <2>4, <3>1, <3>2 DEF enqueue, TypeOK
  <2> QED
    BY <1>3, <1>8, <2>5, <2>6, FindingsGrow
<1>9. CASE msg[i].state # "dead"
  <2>1. TickReclaim
    BY <1>1, <1>2, <1>9, RowIdentity
  <2>2. now \in Nat /\ msg'[i] = Reclaimed(i, now) /\ tick'.dead = {j \in Ids : Dies(j, now)}
    BY <1>1, <2>1 DEF TickReclaim, TickIdle, TypeOK
  <2>3. msg[i].state \in Live
    BY <1>1, <1>9, <2>2, ReclaimedRow
  <2> QED
    BY <2>2, <2>3 DEF Dies
<1> QED
  BY <1>6, <1>7, <1>8, <1>9

(* Without an error or a crash, the hold clock follows the recorded outcome.      *)
LEMMA HoldStep ==
    ASSUME TickInv, DeathsInProgress, HoldClockHonest, [Next]_vars, ~ TickFault, ~ Crash
    PROVE  HoldClockHonest'
<1>1. TypeOK /\ TypeOK' /\ SnapshotFenced /\ TickShape /\ SnapshotHonest /\ AttemptFresh
  BY NextType DEF TickInv, SafetyInv
<1> SUFFICES ASSUME NEW i \in Ids, msg'[i].state \in Live, msg'[i].held # NoTime, i \notin tick'.item
             PROVE  attempt'[i].outcome = "veto_dialog"
  BY DEF HoldClockHonest
<1>2. msg[i].state # "none"
  <2>1. ASSUME msg[i].state = "none" PROVE FALSE
    <3>1. msg'[i] # msg[i]
      BY <2>1 DEF Live
    <3> QED
      BY <1>1, <2>1, <3>1, RowAppears
  <2> QED
    BY <2>1
<1>3. msg[i].state \in Live
  <2>1. msg[i].state \notin TERMINAL_STATES
    BY <1>1, <1>2, RowIdentity DEF Live, TERMINAL_STATES
  <2> QED
    BY <1>1, <1>2, <2>1 DEF TypeOK, Row
<1>4. CASE MarkDialogHold
  <2>1. PICK j \in tick.item :
          msg' = [msg EXCEPT ![j].held = IF tick.outcome = "veto_dialog" THEN stamp ELSE NoTime]
    BY <1>4 DEF MarkDialogHold
  <2>2. attempt' = attempt /\ tick.pc = "hold"
    BY <1>4 DEF MarkDialogHold
  <2>3. CASE i = j
    <3>1. msg'[i].held = IF tick.outcome = "veto_dialog" THEN stamp ELSE NoTime
      BY <1>1, <2>1, <2>3 DEF TypeOK, Row
    <3>2. tick.outcome = "veto_dialog"
      BY <3>1
    <3> QED
      BY <1>1, <2>2, <2>3, <3>2 DEF SnapshotHonest
  <2>4. CASE i # j
    <3>1. msg'[i] = msg[i] /\ i \notin tick.item
      BY <1>1, <2>1, <2>4 DEF TypeOK, TickShape
    <3> QED
      BY <1>3, <2>2, <3>1 DEF HoldClockHonest
  <2> QED
    BY <2>3, <2>4
<1>5. ASSUME NEW j \in tick.record, RecordAttempt(j) PROVE attempt'[i].outcome = "veto_dialog"
  <2>1. tick.item = {} /\ msg' = msg
    BY <1>1, <1>5 DEF RecordAttempt, TickShape
  <2>2. CASE i = j
    <3>0. attempt'[j] = [claim |-> msg[j].claim, outcome |-> tick.outcome] /\ j \in Unrecorded
      BY <1>1, <1>5, RecordEffect
    <3>1. attempt'[i].outcome = tick.outcome /\ i \in Unrecorded
      BY <2>2, <3>0
    <3>2. ~ HoldChanges(i)
      BY <1>1, <1>5, <2>2, RecordEffect
    <3>3. i \in tick.heldThen
      BY <1>1, <1>3, <2>1, <3>1 DEF SnapshotHonest
    <3> QED
      BY <3>1, <3>2, <3>3 DEF HoldChanges
  <2>3. CASE i # j
    <3>1. attempt'[i] = attempt[i]
      BY <1>1, <1>5, <2>3, RecordEffect
    <3> QED
      BY <1>3, <2>1, <3>1 DEF HoldClockHonest
  <2> QED
    BY <2>2, <2>3
<1>6. CASE ~ MarkDialogHold /\ attempt' = attempt
  <2>1. msg'[i].held = msg[i].held
    BY <1>1, <1>2, <1>6, RowIdentity
  <2>2. i \notin tick.item
    <3>1. ASSUME i \in tick.item PROVE FALSE
      <4>1. tick.pc # "notice"
        BY <1>3, <3>1 DEF DeathsInProgress, Live
      <4>2. tick.pc = "hold"
        BY <1>1, <3>1, <4>1 DEF TickShape
      <4> QED
        BY <1>1, <1>6, <3>1, <4>2, AnnouncePhase
    <3> QED
      BY <3>1
  <2> QED
    BY <1>3, <1>6, <2>1, <2>2 DEF HoldClockHonest
<1> QED
  BY <1>4, <1>5, <1>6, AttemptWriters

-----------------------------------------------------------------------------
(* The epochs.                                                              *)

(* What a step may do to the epochs of one receiver.  None is lost; an epoch       *)
(* loses no ids; a worker's is closed only by the sweep and only when all its      *)
(* messages have ended; the ordinal moves by one and only with a wake.             *)
LEMMA EpochFields ==
    ASSUME TypeOK, ServesReceiver, [Next]_vars, NEW r \in Receivers
    PROVE  /\ DOMAIN digest[r] \subseteq DOMAIN digest'[r]
           /\ \A e \in DOMAIN digest[r] :
                 /\ digest[r][e].ids \subseteq digest'[r][e].ids
                 /\ \/ digest'[r][e].via = digest[r][e].via
                    \/ r \in Seats
                    \/ tick.pc = "close" /\ all_terminal(digest[r][e].ids)
                 /\ \/ digest'[r][e].wakes = digest[r][e].wakes
                    \/ /\ DeliverWake /\ r = tick.cur /\ e = tick.epoch
                       /\ digest'[r][e].wakes = digest[r][e].wakes + 1
           /\ \A e \in DOMAIN digest'[r] : e \in DOMAIN digest[r] \/ digest'[r][e].wakes = 0
<1> DEFINE Fine ==
           /\ DOMAIN digest[r] \subseteq DOMAIN digest'[r]
           /\ \A e \in DOMAIN digest[r] :
                 /\ digest[r][e].ids \subseteq digest'[r][e].ids
                 /\ \/ digest'[r][e].via = digest[r][e].via
                    \/ r \in Seats
                    \/ tick.pc = "close" /\ all_terminal(digest[r][e].ids)
                 /\ \/ digest'[r][e].wakes = digest[r][e].wakes
                    \/ /\ DeliverWake /\ r = tick.cur /\ e = tick.epoch
                       /\ digest'[r][e].wakes = digest[r][e].wakes + 1
           /\ \A e \in DOMAIN digest'[r] : e \in DOMAIN digest[r] \/ digest'[r][e].wakes = 0
<1>1. digest[r] \in Seq(Epoch) /\ \A e \in DOMAIN digest[r] : digest[r][e] \in Epoch
  BY DEF TypeOK
<1>2. CASE UNCHANGED digest
  BY <1>2
<1>3. ASSUME NEW q \in Receivers, NEW f \in OpenEpochs(q), NEW v,
             digest' = [digest EXCEPT ![q][f] = v],
             r = q => /\ digest[q][f].ids \subseteq v.ids
                      /\ \/ v.via = digest[q][f].via
                         \/ q \in Seats
                         \/ tick.pc = "close" /\ all_terminal(digest[q][f].ids)
                      /\ \/ v.wakes = digest[q][f].wakes
                         \/ /\ DeliverWake /\ q = tick.cur /\ f = tick.epoch
                            /\ v.wakes = digest[q][f].wakes + 1
      PROVE  Fine
  <2>1. /\ DOMAIN digest'[r] = DOMAIN digest[r]
        /\ \A e \in DOMAIN digest[r] :
              digest'[r][e] = IF r = q /\ e = f THEN v ELSE digest[r][e]
    <3>1. CASE r = q
      <4>1. digest'[r] = [digest[r] EXCEPT ![f] = v]
        BY <1>3, <3>1 DEF TypeOK
      <4> QED
        BY <1>1, <3>1, <4>1
    <3>2. CASE r # q
      BY <1>3, <3>2 DEF TypeOK
    <3> QED
      BY <3>1, <3>2
  <2>2. ASSUME NEW e \in DOMAIN digest[r]
        PROVE  /\ digest[r][e].ids \subseteq digest'[r][e].ids
               /\ \/ digest'[r][e].via = digest[r][e].via
                  \/ r \in Seats
                  \/ tick.pc = "close" /\ all_terminal(digest[r][e].ids)
               /\ \/ digest'[r][e].wakes = digest[r][e].wakes
                  \/ /\ DeliverWake /\ r = tick.cur /\ e = tick.epoch
                     /\ digest'[r][e].wakes = digest[r][e].wakes + 1
    <3>1. CASE r = q /\ e = f
      <4>1. digest'[r][e] = v
        BY <2>1, <3>1
      <4> QED
        BY <1>3, <3>1, <4>1
    <3>2. CASE ~ (r = q /\ e = f)
      <4>1. digest'[r][e] = digest[r][e]
        BY <2>1, <3>2
      <4> QED
        BY <4>1
    <3> QED
      BY <3>1, <3>2
  <2> QED
    BY <2>1, <2>2
<1>4. ASSUME NEW q \in Receivers, NEW f, NEW via,
             q \in Seats \/ (tick.pc = "close" /\ (r = q => all_terminal(digest[q][f].ids))),
             close_digest(q, f, via)
      PROVE  Fine
  <2>1. CASE f \in OpenEpochs(q)
    <3> DEFINE v == [digest[q][f] EXCEPT !.via = via]
    <3>1. digest' = [digest EXCEPT ![q][f] = v]
      BY <1>4, <2>1 DEF close_digest
    <3>2. v.ids = digest[q][f].ids /\ v.wakes = digest[q][f].wakes
      BY <2>1, OpenEpochNat DEF Epoch
    <3> HIDE DEF v
    <3> QED
      BY <1>3, <1>4, <2>1, <3>1, <3>2
  <2>2. CASE f \notin OpenEpochs(q)
    BY <1>2, <1>4, <2>2 DEF close_digest
  <2> QED
    BY <2>1, <2>2
<1>5. CASE EpochBuild
  <2>1. build_digest(tick.cur, tick.owed)
    BY <1>5 DEF EpochBuild
  <2>2. CASE r = tick.cur
    <3> DEFINE new == [ids |-> tick.owed, via |-> "open", wakes |-> 0]
    <3>1. digest'[r] = Append(digest[r], new)
      BY <2>1, <2>2 DEF build_digest, TypeOK
    <3>2. new.wakes = 0
      OBVIOUS
    <3> HIDE DEF new
    <3>3. /\ DOMAIN digest[r] \subseteq DOMAIN digest'[r]
          /\ \A e \in DOMAIN digest[r] : digest'[r][e] = digest[r][e]
          /\ \A e \in DOMAIN digest'[r] : e \in DOMAIN digest[r] \/ digest'[r][e] = new
      BY <1>1, <3>1
    <3> QED
      BY <3>2, <3>3
  <2>3. CASE r # tick.cur
    <3>1. digest'[r] = digest[r]
      BY <2>1, <2>3 DEF build_digest, TypeOK
    <3> QED
      BY <3>1
  <2> QED
    BY <2>2, <2>3
<1>6. CASE EpochExtend
  <2>1. tick.cur \in Receivers /\ extend_digest(tick.cur, tick.epoch, tick.owed)
    BY <1>6 DEF EpochExtend, ServesReceiver
  <2>2. CASE tick.epoch \in OpenEpochs(tick.cur)
    <3> DEFINE v == [digest[tick.cur][tick.epoch] EXCEPT !.ids = @ \cup tick.owed]
    <3>1. digest' = [digest EXCEPT ![tick.cur][tick.epoch] = v]
      BY <2>1, <2>2 DEF extend_digest
    <3>2. /\ digest[tick.cur][tick.epoch].ids \subseteq v.ids
          /\ v.via = digest[tick.cur][tick.epoch].via
          /\ v.wakes = digest[tick.cur][tick.epoch].wakes
      BY <2>1, <2>2, OpenEpochNat DEF Epoch
    <3> HIDE DEF v
    <3> QED
      BY <1>3, <2>1, <2>2, <3>1, <3>2
  <2>3. CASE tick.epoch \notin OpenEpochs(tick.cur)
    BY <1>2, <2>1, <2>3 DEF extend_digest
  <2> QED
    BY <2>2, <2>3
<1>7. CASE DeliverWake
  <2>1. tick.cur \in Receivers /\ tick.epoch \in OpenEpochs(tick.cur)
    BY <1>7 DEF DeliverWake, ServesReceiver
  <2> DEFINE v == [digest[tick.cur][tick.epoch] EXCEPT !.wakes = @ + 1]
  <2>2. digest' = [digest EXCEPT ![tick.cur][tick.epoch] = v]
    BY <1>7 DEF DeliverWake, bump_wake_count
  <2>3. /\ v.ids = digest[tick.cur][tick.epoch].ids
        /\ v.via = digest[tick.cur][tick.epoch].via
        /\ v.wakes = digest[tick.cur][tick.epoch].wakes + 1
    BY <2>1, OpenEpochNat DEF Epoch
  <2> HIDE DEF v
  <2> QED
    BY <1>3, <1>7, <2>1, <2>2, <2>3
<1>8. ASSUME NEW p \in tick.scan, CloseFinished(p[1], p[2]) PROVE Fine
  <2>1. p[1] \in Receivers
    BY DEF TypeOK, TickState
  <2>2. CASE all_terminal(digest[p[1]][p[2]].ids)
    <3>1. PICK via : close_digest(p[1], p[2], via)
      BY <1>8, <2>2 DEF CloseFinished
    <3>2. tick.pc = "close"
      BY <1>8 DEF CloseFinished
    <3> QED
      BY <1>4, <2>1, <2>2, <3>1, <3>2
  <2>3. CASE ~ all_terminal(digest[p[1]][p[2]].ids)
    BY <1>2, <1>8, <2>3 DEF CloseFinished
  <2> QED
    BY <2>2, <2>3
<1>9. ASSUME NEW q \in Seats, SeatClose(q) PROVE Fine
  <2>1. q \in Receivers
    BY ConstantsOK DEF ConstantsOK
  <2> QED
    BY <1>2, <1>4, <1>9, <2>1 DEF SeatClose
<1>10. \/ EpochBuild \/ EpochExtend \/ DeliverWake
       \/ (\E p \in tick.scan : CloseFinished(p[1], p[2])) \/ (\E q \in Seats : SeatClose(q))
       \/ UNCHANGED digest
  BY DEF Next, TickStep, SeatStep, vars, table, Send, Complete, Advance, TickReclaim, AnnounceDeath,
         EnqueueNotice, ServeBegin, ClaimFor, EpochRead, EpochFound, DeliverAbsent, DeliverClosed,
         RecordAttempt, MarkDialogHold, ServeEnd, TickEnd, SeatList, SeatSettle, SeatReadDigest,
         SeatFault, TickFault, Crash
<1> QED
  BY <1>2, <1>5, <1>6, <1>7, <1>8, <1>9, <1>10

(* A worker's pending message on an open epoch stays on it.                      *)
LEMMA CoveredKept ==
    ASSUME TypeOK, ServesReceiver, [Next]_vars,
           NEW i \in Ids, msg[i].state \in Live, msg[i].receiver \in Receivers \ Seats, Covered(i)
    PROVE  Covered(i)'
<1> DEFINE r == msg[i].receiver
<1>1. PICK e \in OpenEpochs(r) : i \in digest[r][e].ids
  BY DEF Covered
<1>2. e \in DOMAIN digest[r] /\ digest[r][e].via = "open"
  BY <1>1 DEF OpenEpochs
<1>3. ~ all_terminal(digest[r][e].ids)
  BY <1>1 DEF all_terminal
<1>4. msg'[i].receiver = r
  BY RowIdentity DEF Live
<1> HIDE DEF r
<1>5. r \in Receivers /\ r \notin Seats
  BY DEF r
<1>6. e \in DOMAIN digest'[r] /\ digest'[r][e].via = "open" /\ i \in digest'[r][e].ids
  BY <1>1, <1>2, <1>3, <1>5, EpochFields
<1> QED
  BY <1>4, <1>6 DEF Covered, OpenEpochs

(* The serving phases, one into the next.                                       *)
LEMMA ServePhase ==
    ASSUME TypeOK, TickShape, [Next]_vars
    PROVE  /\ tick'.pc = "epoch" => tick' = tick \/ \E r \in tick.todo : ClaimFor(r)
           /\ tick'.pc = "open" =>
                 \/ tick' = tick
                 \/ /\ EpochRead
                    /\ tick'.cur = tick.cur /\ tick'.claimed = tick.claimed
                    /\ tick'.owed = undelivered_ids(tick.cur)
           /\ tick'.pc = "extend" =>
                 \/ tick' = tick
                 \/ /\ tick.pc = "open" /\ UNCHANGED <<digest, msg>>
                    /\ tick'.cur = tick.cur /\ tick'.claimed = tick.claimed /\ tick'.owed = tick.owed
                    /\ tick'.epoch \in OpenEpochs(tick.cur)
           /\ tick'.pc = "deliver" =>
                 \/ tick' = tick
                 \/ /\ EpochBuild \/ EpochExtend
                    /\ tick'.cur = tick.cur /\ tick'.claimed = tick.claimed
           /\ tick'.pc \in {"record", "hold"} =>
                 /\ tick.pc \in {"deliver", "record", "hold"}
                 /\ tick'.cur = tick.cur /\ tick'.claimed = tick.claimed
<1> DEFINE Elsewhere == tick'.pc \notin {"epoch", "open", "extend", "deliver", "record", "hold"}
<1>1. tick \in TickState
  BY DEF TypeOK
<1>2. \A X : ToServe(X).pc = "serve"
  BY FreshTick
<1>3. CASE TickReclaim \/ EnqueueNotice
  <2>1. tick'.pc = "announce"
    BY <1>1, <1>3 DEF TickReclaim, EnqueueNotice, TickState, TickIdle
  <2> QED
    BY <2>1
<1>4. ASSUME NEW i \in tick.dead, AnnounceDeath(i) PROVE Elsewhere
  BY <1>1, <1>4 DEF AnnounceDeath, TickState
<1>5. CASE ServeBegin \/ DeliverClosed
  BY <1>2, <1>5 DEF ServeBegin, DeliverClosed
<1>6. CASE \E r \in tick.todo : ClaimFor(r)
  <2>1. tick'.pc = "epoch"
    BY <1>6, ClaimEffect
  <2> QED
    BY <1>6, <2>1
<1>7. CASE EpochRead
  <2>1. \/ tick' = ToServe(tick.todo)
        \/ tick' = [tick EXCEPT !.pc = "open", !.owed = undelivered_ids(tick.cur)]
    BY <1>7 DEF EpochRead
  <2>2. CASE tick' = ToServe(tick.todo)
    BY <1>2, <2>2
  <2>3. CASE tick' = [tick EXCEPT !.pc = "open", !.owed = undelivered_ids(tick.cur)]
    <3>1. /\ tick'.pc = "open" /\ tick'.owed = undelivered_ids(tick.cur)
          /\ tick'.cur = tick.cur /\ tick'.claimed = tick.claimed
      BY <1>1, <2>3 DEF TickState
    <3> QED
      BY <1>7, <3>1
  <2> QED
    BY <2>1, <2>2, <2>3
<1>8. CASE EpochBuild \/ EpochExtend
  <2>1. PICK e : tick' = WithEpoch(e)
    BY <1>8 DEF EpochBuild, EpochExtend
  <2>2. CASE tick' = ToServe(tick.todo)
    BY <1>2, <2>2
  <2>3. CASE tick' = [tick EXCEPT !.pc = "deliver", !.epoch = e, !.owed = {}]
    <3>1. tick'.pc = "deliver" /\ tick'.cur = tick.cur /\ tick'.claimed = tick.claimed
      BY <1>1, <2>3 DEF TickState
    <3> QED
      BY <1>8, <3>1
  <2> QED
    BY <2>1, <2>2, <2>3 DEF WithEpoch
<1>9. CASE EpochFound
  <2>1. PICK e \in OpenEpochs(tick.cur) : tick' = [tick EXCEPT !.pc = "extend", !.epoch = e]
    BY <1>9 DEF EpochFound
  <2>2. /\ tick'.pc = "extend" /\ tick'.epoch = e
        /\ tick'.cur = tick.cur /\ tick'.claimed = tick.claimed /\ tick'.owed = tick.owed
    BY <1>1, <2>1 DEF TickState
  <2> QED
    BY <1>9, <2>1, <2>2 DEF EpochFound, table
<1>10. CASE DeliverAbsent \/ DeliverWake
  <2>1. tick.pc = "deliver"
    BY <1>10 DEF DeliverAbsent, DeliverWake
  <2>2. PICK o : tick' = [tick EXCEPT !.pc = "record", !.outcome = o, !.record = tick.claimed]
    BY <1>10 DEF DeliverAbsent, DeliverWake
  <2>3. tick'.pc = "record" /\ tick'.cur = tick.cur /\ tick'.claimed = tick.claimed
    BY <1>1, <2>2 DEF TickState
  <2> QED
    BY <2>1, <2>3
<1>11. ASSUME NEW left, tick.pc \in {"record", "hold"}, tick' = AfterRecord(left)
       PROVE  \/ Elsewhere
              \/ tick'.pc = "record" /\ tick'.cur = tick.cur /\ tick'.claimed = tick.claimed
  BY <1>1, <1>2, <1>11 DEF AfterRecord, TickState
<1>12. CASE MarkDialogHold
  <2>1. tick.pc = "hold" /\ tick' = AfterRecord(tick.record)
    BY <1>12 DEF MarkDialogHold
  <2> QED
    BY <1>11, <2>1
<1>13. CASE \E i \in tick.record : RecordAttempt(i)
  <2>1. PICK i \in tick.record : RecordAttempt(i)
    BY <1>13
  <2>2. tick.pc = "record"
    BY <2>1 DEF RecordAttempt
  <2>3. \/ tick' = AfterRecord(tick.record \ {i})
        \/ tick' = [tick EXCEPT !.pc = "hold", !.record = @ \ {i}, !.item = {i}]
    BY <2>1 DEF RecordAttempt
  <2>4. CASE tick' = AfterRecord(tick.record \ {i})
    BY <1>11, <2>2, <2>4
  <2>5. CASE tick' = [tick EXCEPT !.pc = "hold", !.record = @ \ {i}, !.item = {i}]
    <3>1. tick'.pc = "hold" /\ tick'.cur = tick.cur /\ tick'.claimed = tick.claimed
      BY <1>1, <2>5 DEF TickState
    <3> QED
      BY <2>2, <3>1
  <2> QED
    BY <2>3, <2>4, <2>5
<1>14. CASE ServeEnd
  <2>1. PICK X : tick' = [TickIdle EXCEPT !.pc = "close", !.scan = X]
    BY <1>14 DEF ServeEnd
  <2>2. tick'.pc = "close"
    BY <2>1 DEF TickIdle
  <2> QED
    BY <2>2
<1>15. ASSUME NEW p \in tick.scan, CloseFinished(p[1], p[2]) PROVE Elsewhere
  <2>1. tick.pc = "close" /\ tick' = [tick EXCEPT !.scan = @ \ {<<p[1], p[2]>>}]
    BY <1>15 DEF CloseFinished
  <2> QED
    BY <1>1, <2>1 DEF TickState
<1>16. CASE TickEnd \/ Crash
  BY <1>16, FreshTick DEF TickEnd, Crash
<1>17. CASE TickFault
  <2>1. \/ tick' = TickIdle \/ tick' = ToServe(tick.todo)
        \/ tick' = [tick EXCEPT !.pc = "announce", !.item = {}]
        \/ tick.pc = "serve" /\ \E r : tick' = [tick EXCEPT !.todo = @ \ {r}]
    BY <1>17 DEF TickFault
  <2>2. Elsewhere
    BY <1>1, <2>1, FreshTick DEF TickState
  <2> QED
    BY <2>2
<1>18. CASE Elsewhere
  BY <1>18
<1>19. CASE tick' = tick
  BY <1>19
<1> HIDE DEF Elsewhere
<1> QED
  BY <1>3, <1>4, <1>5, <1>6, <1>7, <1>8, <1>9, <1>10, <1>12, <1>13, <1>14, <1>15, <1>16,
     <1>17, <1>18, <1>19, TickMoves

(* A row that is pending after a step, and was claimed before it, was pending.       *)
LEMMA StillPending ==
    ASSUME TypeOK, SnapshotFenced, [Next]_vars, NEW i \in tick.claimed, msg'[i].state \in Live
    PROVE  i \in Ids /\ msg[i].state \in Live
<1>1. i \in Ids
  BY DEF TypeOK, TickState
<1>2. msg[i].state \in {"leased"} \cup TERMINAL_STATES
  BY DEF SnapshotFenced
<1>3. msg[i].state \notin TERMINAL_STATES
  BY <1>1, <1>2, RowIdentity DEF Live, TERMINAL_STATES
<1> QED
  BY <1>1, <1>2, <1>3 DEF Live

(* Every step keeps a worker's claimed rows on their way into an epoch.            *)
LEMMA ClaimedStep ==
    ASSUME TickInv, ClaimedCovered, [Next]_vars
    PROVE  ClaimedCovered'
<1>1. /\ TypeOK /\ TypeOK' /\ ServesReceiver /\ ServesReceiver' /\ SnapshotFenced
      /\ TickShape /\ SnapshotHonest
  BY NextType DEF TickInv, SafetyInv
<1> SUFFICES ASSUME tick'.cur \notin Seats
             PROVE  /\ tick'.pc \in {"open", "extend"} =>
                         \A i \in tick'.claimed : msg'[i].state \in Live => i \in tick'.owed
                    /\ tick'.pc = "extend" =>
                         /\ tick'.epoch \in DOMAIN digest'[tick'.cur]
                         /\ digest'[tick'.cur][tick'.epoch].via = "open"
                    /\ tick'.pc \in {"deliver", "record", "hold"} =>
                         \A i \in tick'.claimed : msg'[i].state \in Live => Covered(i)'
  BY DEF ClaimedCovered, OpenEpochs
<1>2. ASSUME tick'.claimed = tick.claimed, NEW i \in tick'.claimed, msg'[i].state \in Live
      PROVE  i \in tick.claimed /\ i \in Ids /\ msg[i].state \in Live /\ msg[i].receiver = tick.cur
  BY <1>1, <1>2, StillPending DEF SnapshotHonest
<1>3. ASSUME tick.cur \notin Seats, tick'.claimed = tick.claimed,
             tick.pc \in {"deliver", "record", "hold"},
             NEW i \in tick'.claimed, msg'[i].state \in Live
      PROVE  Covered(i)'
  <2>1. i \in Ids /\ msg[i].state \in Live /\ msg[i].receiver = tick.cur /\ i \in tick.claimed
    BY <1>2, <1>3
  <2>2. tick.cur \in Receivers
    BY <1>1, <1>3 DEF ServesReceiver
  <2>3. Covered(i)
    BY <1>3, <2>1 DEF ClaimedCovered
  <2> QED
    BY <1>1, <1>3, <2>1, <2>2, <2>3, CoveredKept
<1>4. ASSUME tick'.pc = "open", NEW i \in tick'.claimed, msg'[i].state \in Live
      PROVE  i \in tick'.owed
  <2>1. CASE tick' = tick
    BY <1>2, <1>4, <2>1 DEF ClaimedCovered
  <2>2. CASE tick'.claimed = tick.claimed /\ tick'.owed = undelivered_ids(tick.cur)
    <3>1. i \in Ids /\ msg[i].state \in Live /\ msg[i].receiver = tick.cur
      BY <1>2, <1>4, <2>2
    <3> QED
      BY <2>2, <3>1 DEF undelivered_ids, Rows
  <2> QED
    BY <1>1, <1>4, <2>1, <2>2, ServePhase
<1>5. ASSUME tick'.pc = "extend"
      PROVE  /\ \A i \in tick'.claimed : msg'[i].state \in Live => i \in tick'.owed
             /\ tick'.epoch \in DOMAIN digest'[tick'.cur]
             /\ digest'[tick'.cur][tick'.epoch].via = "open"
  <2>1. CASE tick' = tick
    <3>1. tick.epoch \in OpenEpochs(tick.cur) /\ tick.cur \in Receivers \ Seats
      BY <1>1, <1>5, <2>1 DEF ClaimedCovered, ServesReceiver
    <3>2. \A i \in tick'.claimed : msg'[i].state \in Live => i \in tick'.owed
      BY <1>2, <1>5, <2>1 DEF ClaimedCovered
    <3>3. tick.epoch \in DOMAIN digest[tick.cur] /\ digest[tick.cur][tick.epoch].via = "open"
      BY <3>1 DEF OpenEpochs
    <3>4. /\ tick.epoch \in DOMAIN digest'[tick.cur]
          /\ digest'[tick.cur][tick.epoch].via = "open"
      BY <1>1, <1>5, <2>1, <3>1, <3>3, EpochFields
    <3> QED
      BY <2>1, <3>2, <3>4 DEF OpenEpochs
  <2>2. CASE /\ tick.pc = "open" /\ UNCHANGED <<digest, msg>>
             /\ tick'.cur = tick.cur /\ tick'.claimed = tick.claimed /\ tick'.owed = tick.owed
             /\ tick'.epoch \in OpenEpochs(tick.cur)
    <3>1. \A i \in tick'.claimed : msg'[i].state \in Live => i \in tick'.owed
      BY <1>2, <2>2 DEF ClaimedCovered
    <3> QED
      BY <2>2, <3>1 DEF OpenEpochs
  <2> QED
    BY <1>1, <1>5, <2>1, <2>2, ServePhase
<1>6. ASSUME tick'.pc = "deliver", EpochBuild \/ EpochExtend, tick'.cur = tick.cur,
             tick'.claimed = tick.claimed, NEW i \in tick'.claimed, msg'[i].state \in Live
      PROVE  Covered(i)'
  <2>1. /\ i \in Ids /\ msg'[i] = msg[i] /\ msg[i].receiver = tick.cur /\ i \in tick.claimed
        /\ msg[i].state \in Live
    BY <1>2, <1>6 DEF EpochBuild, EpochExtend
  <2>2. tick.pc \in {"open", "extend"} /\ tick.cur \in Receivers \ Seats
    BY <1>1, <1>6 DEF EpochBuild, EpochExtend, ServesReceiver
  <2>3. i \in tick.owed
    BY <2>1, <2>2 DEF ClaimedCovered
  <2>4. digest[tick.cur] \in Seq(Epoch)
    BY <1>1, <2>2 DEF TypeOK
  <2>5. CASE EpochBuild
    <3> DEFINE new == [ids |-> tick.owed, via |-> "open", wakes |-> 0]
               e == Len(digest[tick.cur]) + 1
    <3>1. digest'[tick.cur] = Append(digest[tick.cur], new)
      BY <1>1, <2>2, <2>5 DEF EpochBuild, build_digest, TypeOK
    <3>2. new.ids = tick.owed /\ new.via = "open"
      OBVIOUS
    <3> HIDE DEF new
    <3>3. e \in DOMAIN digest'[tick.cur] /\ digest'[tick.cur][e] = new
      BY <2>4, <3>1
    <3> HIDE DEF e
    <3> QED
      BY <2>1, <2>3, <3>2, <3>3 DEF Covered, OpenEpochs
  <2>6. CASE EpochExtend
    <3> DEFINE e == tick.epoch
               v == [digest[tick.cur][e] EXCEPT !.ids = @ \cup tick.owed]
    <3>1. e \in OpenEpochs(tick.cur)
      BY <2>2, <2>6 DEF ClaimedCovered, EpochExtend
    <3>2. e \in DOMAIN digest[tick.cur] /\ digest[tick.cur][e] \in Epoch
          /\ digest[tick.cur][e].via = "open"
      BY <1>1, <2>2, <3>1, OpenEpochNat DEF OpenEpochs
    <3>3. digest' = [digest EXCEPT ![tick.cur][e] = v]
      BY <2>6, <3>1 DEF EpochExtend, extend_digest
    <3>4. tick.owed \subseteq v.ids /\ v.via = "open"
      BY <3>2 DEF Epoch
    <3> HIDE DEF v
    <3>5. digest'[tick.cur] = [digest[tick.cur] EXCEPT ![e] = v]
      BY <1>1, <2>2, <3>3 DEF TypeOK
    <3>6. e \in DOMAIN digest'[tick.cur] /\ digest'[tick.cur][e] = v
      BY <2>4, <3>2, <3>5
    <3> HIDE DEF e
    <3> QED
      BY <2>1, <2>3, <3>4, <3>6 DEF Covered, OpenEpochs
  <2> QED
    BY <1>6, <2>5, <2>6
<1>7. ASSUME tick'.pc \in {"deliver", "record", "hold"}, NEW i \in tick'.claimed, msg'[i].state \in Live
      PROVE  Covered(i)'
  <2>1. CASE tick' = tick
    BY <1>3, <1>7, <2>1
  <2>2. CASE tick'.pc = "deliver" /\ tick' # tick
    BY <1>1, <1>6, <1>7, <2>2, ServePhase
  <2>3. CASE tick'.pc \in {"record", "hold"}
    <3>1. /\ tick.pc \in {"deliver", "record", "hold"}
          /\ tick'.cur = tick.cur /\ tick'.claimed = tick.claimed
      BY <1>1, <2>3, ServePhase
    <3> QED
      BY <1>3, <1>7, <3>1
  <2> QED
    BY <1>7, <2>1, <2>2, <2>3
<1> QED
  BY <1>4, <1>5, <1>7

(* Without an error or a crash, the tick lets go of a claimed row that is still       *)
(* pending only at or after its delivery.                                       *)
LEMMA LetsGo ==
    ASSUME TickInv, [Next]_vars, ~ TickFault, ~ Crash,
           NEW i \in tick.claimed, i \notin tick'.claimed, msg'[i].state \in Live
    PROVE  tick.pc \in {"deliver", "record", "hold"}
<1>1. /\ TypeOK /\ SnapshotFenced /\ TickShape /\ SnapshotHonest
  BY DEF TickInv, SafetyInv
<1>2. i \in Ids /\ msg[i].state \in Live /\ msg[i].receiver = tick.cur /\ tick.claimed # {}
  BY <1>1, StillPending DEF SnapshotHonest
<1>3. tick \in TickState
  BY <1>1 DEF TypeOK
<1>4. tick.pc \notin {"idle", "announce", "notice", "serve", "close"}
  BY <1>1, <1>2 DEF TickShape
<1>5. ~ EpochRead
  <2>1. ASSUME EpochRead PROVE FALSE
    <3>1. undelivered_ids(tick.cur) # {}
      BY <1>2 DEF undelivered_ids, Rows
    <3>2. tick' = [tick EXCEPT !.pc = "open", !.owed = undelivered_ids(tick.cur)]
      BY <2>1, <3>1 DEF EpochRead
    <3>3. tick'.claimed = tick.claimed
      BY <1>3, <3>2 DEF TickState
    <3> QED
      BY <3>3
  <2> QED
    BY <2>1
<1>6. ~ EpochBuild /\ ~ EpochExtend
  <2>1. ASSUME NEW e, tick' = WithEpoch(e) PROVE FALSE
    <3>1. tick' = [tick EXCEPT !.pc = "deliver", !.epoch = e, !.owed = {}]
      BY <1>2, <2>1 DEF WithEpoch
    <3>2. tick'.claimed = tick.claimed
      BY <1>3, <3>1 DEF TickState
    <3> QED
      BY <3>2
  <2> QED
    BY <2>1 DEF EpochBuild, EpochExtend
<1>7. ~ EpochFound
  <2>1. ASSUME NEW e, tick' = [tick EXCEPT !.pc = "extend", !.epoch = e] PROVE FALSE
    <3>1. tick'.claimed = tick.claimed
      BY <1>3, <2>1 DEF TickState
    <3> QED
      BY <3>1
  <2> QED
    BY <2>1 DEF EpochFound
<1>8. tick' # tick
  OBVIOUS
<1> QED
  BY <1>4, <1>5, <1>6, <1>7, <1>8, TickMoves
     DEF TickReclaim, AnnounceDeath, EnqueueNotice, ServeBegin, ClaimFor, DeliverAbsent, DeliverClosed,
         DeliverWake, RecordAttempt, MarkDialogHold, ServeEnd, CloseFinished, TickEnd

(* Without an error or a crash, a worker's leased rows stay on an open epoch.        *)
LEMMA LeasedStep ==
    ASSUME TickInv, ClaimedCovered, LeasedRowsCovered, [Next]_vars, ~ TickFault, ~ Crash
    PROVE  LeasedRowsCovered'
<1>1. /\ TypeOK /\ TypeOK' /\ ServesReceiver /\ SnapshotFenced
      /\ TickShape /\ SnapshotHonest /\ ClaimParity
  BY NextType DEF TickInv, SafetyInv
<1> SUFFICES ASSUME NEW i \in Ids, msg'[i].state \in Live, msg'[i].claim > 0,
                    i \notin tick'.claimed, msg'[i].receiver \notin Seats
             PROVE  Covered(i)'
  BY DEF LeasedRowsCovered
<1>2. msg[i].state # "none"
  <2>1. ASSUME msg[i].state = "none" PROVE FALSE
    <3>1. msg'[i].claim = 0 \/ msg'[i] = msg[i]
      BY <1>1, <2>1, RowAppears
    <3> QED
      BY <2>1, <3>1 DEF Live
  <2> QED
    BY <2>1
<1>3. msg[i].state \in Live
  <2>1. msg[i].state \notin TERMINAL_STATES
    BY <1>1, <1>2, RowIdentity DEF Live, TERMINAL_STATES
  <2> QED
    BY <1>1, <1>2, <2>1 DEF TypeOK, Row
<1>4. msg'[i].receiver = msg[i].receiver
  BY <1>1, <1>2, RowIdentity
<1>5. msg[i].claim > 0
  <2>1. msg[i].claim \in Nat
    BY <1>1 DEF TypeOK, Row
  <2>2. msg'[i].claim = msg[i].claim \/ msg[i].state = "leased"
    BY <1>1, <1>2, ClaimMoves
  <2>3. msg[i].state = "leased" => msg[i].claim % 2 = 1
    BY <1>1 DEF ClaimParity
  <2> QED
    BY <2>1, <2>2, <2>3
<1>6. msg[i].receiver \in Receivers \ Seats
  BY <1>1, <1>4, <1>5 DEF ClaimParity
<1>7. Covered(i)
  <2>1. CASE i \in tick.claimed
    <3>1. tick.pc \in {"deliver", "record", "hold"}
      BY <2>1, LetsGo
    <3>2. msg[i].receiver = tick.cur
      BY <1>1, <2>1 DEF SnapshotHonest
    <3> QED
      BY <1>3, <1>6, <2>1, <3>1, <3>2 DEF ClaimedCovered
  <2>2. CASE i \notin tick.claimed
    BY <1>3, <1>5, <1>6, <2>2 DEF LeasedRowsCovered
  <2> QED
    BY <2>1, <2>2
<1> QED
  BY <1>1, <1>3, <1>6, <1>7, CoveredKept

(* Without an error or a crash, what was handed over without a receipt has ended, or    *)
(* has that outcome recorded, or is about to.                                    *)
LEMMA UncertainStep ==
    ASSUME TickInv, UncertainTracked, [Next]_vars, ~ TickFault, ~ Crash
    PROVE  UncertainTracked'
<1>1. /\ TypeOK /\ TypeOK' /\ SnapshotFenced /\ TickShape /\ AttemptFresh /\ QuarantineHolds
      /\ tick \in TickState
  BY NextType DEF TickInv, SafetyInv, TypeOK
<1> SUFFICES ASSUME NEW i \in uncertain'
             PROVE  \/ msg'[i].state \in TERMINAL_STATES
                    \/ attempt'[i].outcome = "submission_uncertain"
                    \/ i \in tick'.record /\ tick'.outcome = "submission_uncertain"
  BY DEF UncertainTracked
<1>2. i \in Ids
  BY <1>1 DEF TypeOK
<1>3. ASSUME DeliverWake, i \notin uncertain
      PROVE  i \in tick'.record /\ tick'.outcome = "submission_uncertain"
  <2>1. PICK o :
          /\ tick' = [tick EXCEPT !.pc = "record", !.outcome = o, !.record = tick.claimed]
          /\ uncertain' = IF o = "submission_uncertain" THEN uncertain \cup tick.claimed
                          ELSE uncertain
    BY <1>3 DEF DeliverWake
  <2>2. tick'.record = tick.claimed /\ tick'.outcome = o
    BY <1>1, <2>1 DEF TickState
  <2> QED
    BY <1>3, <2>1, <2>2
<1>4. CASE msg[i].state \in TERMINAL_STATES
  BY <1>1, <1>2, <1>4, RowIdentity DEF TERMINAL_STATES
<1>5. CASE i \in uncertain /\ attempt[i].outcome = "submission_uncertain"
  <2>1. ASSUME NEW j \in tick.record, RecordAttempt(j), j = i PROVE msg[i].state \in TERMINAL_STATES
    <3>1. i \in Unrecorded /\ i \in tick.record
      BY <1>1, <2>1, RecordEffect
    <3>2. attempt[i].claim < msg[i].claim /\ attempt[i].claim \in Nat /\ msg[i].claim \in Nat
      BY <1>1, <1>2, <3>1 DEF AttemptFresh, TypeOK, Row
    <3>3. msg[i].state # "ready"
      BY <1>1, <3>1 DEF SnapshotFenced, TERMINAL_STATES
    <3> QED
      BY <1>1, <1>2, <1>5, <3>2, <3>3 DEF QuarantineHolds
  <2>2. ASSUME NEW j \in tick.record, RecordAttempt(j), j # i PROVE attempt'[i] = attempt[i]
    BY <1>1, <1>2, <2>2, RecordEffect
  <2> QED
    BY <1>4, <1>5, <2>1, <2>2, AttemptWriters
<1>6. CASE i \in tick.record /\ tick.outcome = "submission_uncertain"
  <2>1. tick.pc \in {"record", "hold"}
    BY <1>1, <1>6 DEF TickShape
  <2>2. ASSUME NEW left, i \in left, tick' = AfterRecord(left)
        PROVE  i \in tick'.record /\ tick'.outcome = "submission_uncertain"
    <3>1. tick' = [tick EXCEPT !.pc = "record", !.record = left, !.item = {}]
      BY <2>2 DEF AfterRecord
    <3> QED
      BY <1>1, <1>6, <2>2, <3>1 DEF TickState
  <2>3. ASSUME NEW j \in tick.record, RecordAttempt(j), j = i
        PROVE  attempt'[i].outcome = "submission_uncertain"
    <3>1. attempt'[i] = [claim |-> msg[i].claim, outcome |-> tick.outcome]
      BY <1>1, <2>3, RecordEffect
    <3> QED
      BY <1>6, <3>1
  <2>4. ASSUME NEW j \in tick.record, RecordAttempt(j), j # i
        PROVE  i \in tick'.record /\ tick'.outcome = "submission_uncertain"
    <3>1. CASE tick'.record = tick.record \ {j} /\ tick'.outcome = tick.outcome
      BY <1>6, <2>4, <3>1
    <3>2. CASE tick' = AfterRecord(tick.record \ {j})
      BY <1>6, <2>2, <2>4, <3>2
    <3> QED
      BY <1>1, <2>4, <3>1, <3>2, RecordEffect
  <2>5. CASE MarkDialogHold
    <3>1. tick' = AfterRecord(tick.record)
      BY <2>5 DEF MarkDialogHold
    <3> QED
      BY <1>6, <2>2, <3>1
  <2>6. CASE tick' = tick
    BY <1>6, <2>6
  <2> QED
    BY <2>1, <2>3, <2>4, <2>5, <2>6, TickMoves
       DEF TickReclaim, AnnounceDeath, EnqueueNotice, ServeBegin, ClaimFor, EpochRead, EpochBuild,
           EpochFound, EpochExtend, DeliverAbsent, DeliverClosed, DeliverWake, ServeEnd,
           CloseFinished, TickEnd
<1>7. DeliverWake \/ uncertain' = uncertain
  BY TickMoves
     DEF TickReclaim, AnnounceDeath, EnqueueNotice, ServeBegin, ClaimFor, EpochRead, EpochBuild,
         EpochFound, EpochExtend, DeliverAbsent, DeliverClosed, RecordAttempt, MarkDialogHold, ServeEnd,
         CloseFinished, TickEnd
<1>8. CASE i \in uncertain
  BY <1>4, <1>5, <1>6, <1>8 DEF UncertainTracked
<1> QED
  BY <1>3, <1>7, <1>8

(* What the deaths and the epochs in progress satisfy, over every error and crash.    *)
THEOREM WorkInProgress == Spec => [](DeathsInProgress /\ ClaimedCovered)
<1>1. Init => DeathsInProgress /\ ClaimedCovered
  <2> SUFFICES ASSUME Init PROVE DeathsInProgress /\ ClaimedCovered
    OBVIOUS
  <2>1. tick.dead = {} /\ tick.item = {} /\ tick.pc = "idle"
    BY FreshTick DEF Init
  <2>2. \A i \in Ids : msg[i].state = "none"
    BY DEF Init, NoRow
  <2>3. \A m \in Msgs : Notice(m) \in Ids
    BY DEF Ids
  <2> QED
    BY <2>1, <2>2, <2>3 DEF DeathsInProgress, ClaimedCovered
<1>2. TickInv /\ DeathsInProgress /\ ClaimedCovered /\ [Next]_vars
        => (DeathsInProgress /\ ClaimedCovered)'
  BY ProgressStep, ClaimedStep
<1> QED
  BY <1>1, <1>2, TickKeepsItsBooks, PTL DEF Spec

(* What holds until the first error or crash, and why the tick's code may rely on it     *)
(* between two of its transactions.                                              *)
THEOREM SoundUntilFault == Spec => []UntilFault
<1>1. Init => UntilFault
  <2> SUFFICES ASSUME Init
               PROVE  HoldClockHonest /\ DeathsAnnounced /\ LeasedRowsCovered /\ UncertainTracked
    BY DEF UntilFault
  <2>1. \A i \in Ids : msg[i].state = "none"
    BY DEF Init, NoRow
  <2> QED
    BY <2>1 DEF Init, HoldClockHonest, DeathsAnnounced, LeasedRowsCovered, UncertainTracked, Live
<1>2. TickInv /\ (DeathsInProgress /\ ClaimedCovered) /\ UntilFault /\ [Next]_vars => UntilFault'
  <2> SUFFICES ASSUME TickInv, DeathsInProgress, ClaimedCovered, UntilFault, [Next]_vars,
                      faults' = 0
               PROVE  (HoldClockHonest /\ DeathsAnnounced /\ LeasedRowsCovered /\ UncertainTracked)'
    BY DEF UntilFault
  <2>1. TypeOK
    BY DEF TickInv, SafetyInv
  <2>2. faults = 0 /\ ~ TickFault /\ ~ Crash
    BY <2>1, NoFault
  <2>3. HoldClockHonest /\ DeathsAnnounced /\ LeasedRowsCovered /\ UncertainTracked
    BY <2>2 DEF UntilFault
  <2> QED
    BY <2>2, <2>3, HoldStep, AnnouncedStep, LeasedStep, UncertainStep
<1> QED
  BY <1>1, <1>2, TickKeepsItsBooks, WorkInProgress, PTL DEF Spec

(* The dialog-hold clock of a pending row runs only on a recorded dialog veto, so the     *)
(* veto ceiling kills no row that recovered: until the first error or crash, in every    *)
(* interleaving of the tick with acks, completions and senders.                    *)
THEOREM HoldClocksAreHonest == Spec => [](faults = 0 => HoldClockHonest)
<1>1. UntilFault => (faults = 0 => HoldClockHonest)
  BY DEF UntilFault
<1> QED
  BY <1>1, SoundUntilFault, PTL

(* Every death the tick has finished with has its finding and its notice.  An error in    *)
(* the announcing phase loses the rest of the list, which is why the theorem stops      *)
(* at the first one.                                                             *)
THEOREM EveryDeathIsAnnounced == Spec => [](faults = 0 => DeathsAnnounced)
<1>1. UntilFault => (faults = 0 => DeathsAnnounced)
  BY DEF UntilFault
<1> QED
  BY <1>1, SoundUntilFault, PTL

(* A worker's leased rows are on an open epoch whenever the tick is not holding them,     *)
(* although reading the owed rows, finding the epoch and extending it are three         *)
(* transactions.                                                                 *)
THEOREM LeasedRowsAreCovered == Spec => [](faults = 0 => LeasedRowsCovered)
<1>1. UntilFault => (faults = 0 => LeasedRowsCovered)
  BY DEF UntilFault
<1> QED
  BY <1>1, SoundUntilFault, PTL

(* As long as nothing fails, an id handed to a runtime that would not confirm it is never  *)
(* leased, and so never submitted, again.  A crash between the wake and its record is     *)
(* the one way to lose the outcome.                                              *)
THEOREM NeverResubmitted == Spec /\ [](faults = 0) => NoResubmission
<1>1. ASSUME TickInv, UncertainTracked, [Next]_vars, NEW i \in uncertain, msg'[i].state = "leased"
      PROVE  msg[i].state = "leased"
  <2>1. TypeOK /\ SnapshotFenced /\ QuarantineHolds /\ i \in Ids
    BY <1>1 DEF TickInv, SafetyInv, TypeOK
  <2>2. msg[i].state # "none"
    BY <1>1, <2>1 DEF UncertainTracked, QuarantineHolds, SnapshotFenced, TERMINAL_STATES
  <2>3. ASSUME NEW r \in tick.todo, ClaimFor(r), msg[i].state = "ready", i \in tick'.claimed
        PROVE  FALSE
    <3>1. i \in Claimable(r, stamp)
      BY <2>1, <2>3, ClaimEffect
    <3>2. msg[i].avail <= stamp /\ msg[i].deadBy > stamp
      BY <3>1 DEF Claimable
    <3>3. msg[i].avail \in Nat /\ msg[i].deadBy \in Nat /\ stamp \in Nat
      BY <2>1 DEF TypeOK, Row
    <3>4. ~ (msg[i].avail >= msg[i].deadBy)
      BY <3>2, <3>3
    <3> QED
      BY <1>1, <2>1, <2>3, <3>4 DEF UncertainTracked, QuarantineHolds, SnapshotFenced, TERMINAL_STATES
  <2> QED
    BY <1>1, <2>1, <2>2, <2>3, ClaimMoves DEF TERMINAL_STATES
<1>2. TickInv /\ UntilFault /\ faults = 0 /\ [Next]_vars =>
        [\A i \in uncertain : msg'[i].state = "leased" => msg[i].state = "leased"]_vars
  BY <1>1 DEF UntilFault
<1> QED
  BY <1>2, TickKeepsItsBooks, SoundUntilFault, PTL DEF Spec, NoResubmission

-----------------------------------------------------------------------------
(* Wakes and leases, counted.                                                  *)

(* The tables have finitely many rows.                                         *)
LEMMA IdsFinite == IsFiniteSet(Ids)
<1> DEFINE Notices == {Notice(m) : m \in Msgs}
           f == [m \in Msgs |-> Notice(m)]
<1>1. f \in Surjection(Msgs, Notices)
  BY DEF Surjection
<1>2. IsFiniteSet(Notices)
  BY <1>1, IdsOK, FS_Surjection
<1> QED
  BY <1>2, IdsOK, FS_Union DEF Ids

(* How many leases a row has had: a claim adds one, a release none.                 *)
LEMMA RowLeases ==
    ASSUME TickInv, [Next]_vars, NEW i \in Ids
    PROVE  /\ LeasesOf(msg[i]) \in Nat
           /\ LeasesOf(msg'[i]) = LeasesOf(msg[i]) \/ LeasesOf(msg'[i]) = LeasesOf(msg[i]) + 1
           /\ \/ msg'[i].receiver = msg[i].receiver
              \/ LeasesOf(msg[i]) = 0 /\ LeasesOf(msg'[i]) = 0
<1>1. TypeOK /\ SnapshotFenced /\ TickShape /\ ClaimParity /\ msg[i].claim \in Nat
  BY DEF TickInv, SafetyInv, TypeOK, Row
<1>2. LeasesOf(msg[i]) \in Nat
  BY <1>1 DEF LeasesOf
<1>3. CASE msg[i].state = "none"
  <2>1. msg[i].claim = 0 /\ msg'[i].claim = 0
    BY <1>1, <1>3, RowAppears DEF ClaimParity
  <2>2. (0 + 1) \div 2 = 0
    OBVIOUS
  <2> QED
    BY <2>1, <2>2 DEF LeasesOf
<1>4. CASE msg[i].state # "none"
  <2>1. msg'[i].receiver = msg[i].receiver
    BY <1>1, <1>4, RowIdentity
  <2>2. msg'[i].claim = msg[i].claim \/ msg'[i].claim = msg[i].claim + 1
    BY <1>1, <1>4, ClaimMoves
  <2>3. \/ (msg[i].claim + 2) \div 2 = (msg[i].claim + 1) \div 2
        \/ (msg[i].claim + 2) \div 2 = (msg[i].claim + 1) \div 2 + 1
    BY <1>1
  <2> QED
    BY <1>1, <1>2, <2>1, <2>2, <2>3 DEF LeasesOf
<1> QED
  BY <1>3, <1>4

(* The leases of a receiver only grow, by at most one for each row; a claim of at         *)
(* least one row adds a lease.                                                    *)
LEMMA LeasesGrow ==
    ASSUME TickInv, [Next]_vars, NEW r \in Receivers, IsFiniteSet(Leases(r))
    PROVE  /\ IsFiniteSet(Leases(r)')
           /\ Cardinality(Leases(r)) <= Cardinality(Leases(r)')
           /\ \A q \in tick.todo : ClaimFor(q) /\ tick'.cur = r /\ tick'.claimed # {} =>
                 Cardinality(Leases(r)) + 1 <= Cardinality(Leases(r)')
<1> DEFINE N(i) == LeasesOf(msg[i])
           M(i) == LeasesOf(msg'[i])
           Newest == {<<i, M(i)>> : i \in Ids}
           L == Leases(r)
           K == Leases(r)'
<1>1. /\ \A i \in Ids : N(i) \in Nat /\ (M(i) = N(i) \/ M(i) = N(i) + 1)
      /\ \A i \in Ids : msg'[i].receiver = msg[i].receiver \/ (N(i) = 0 /\ M(i) = 0)
  BY RowLeases
<1>2. \A p : p \in L <=> \E i \in Ids : msg[i].receiver = r /\ \E n \in 1 .. N(i) : p = <<i, n>>
  BY DEF Leases
<1>3. \A p : p \in K <=> \E i \in Ids : msg'[i].receiver = r /\ \E n \in 1 .. M(i) : p = <<i, n>>
  BY DEF Leases
<1> HIDE DEF N, M, L, K
<1>4. L \subseteq K
  <2> SUFFICES ASSUME NEW i \in Ids, msg[i].receiver = r, NEW n \in 1 .. N(i)
               PROVE  <<i, n>> \in K
    BY <1>2
  <2>1. n \in 1 .. M(i) /\ msg'[i].receiver = r
    BY <1>1
  <2> QED
    BY <1>3, <2>1
<1>5. K \subseteq L \cup Newest
  <2> SUFFICES ASSUME NEW i \in Ids, msg'[i].receiver = r, NEW n \in 1 .. M(i)
               PROVE  <<i, n>> \in L \/ n = M(i)
    BY <1>3
  <2>1. N(i) \in Nat /\ (M(i) = N(i) \/ M(i) = N(i) + 1) /\ msg[i].receiver = r
    BY <1>1
  <2>2. n \in 1 .. N(i) \/ n = M(i)
    BY <2>1
  <2> QED
    BY <1>2, <2>1, <2>2
<1>6. IsFiniteSet(Newest)
  <2> DEFINE f == [i \in Ids |-> <<i, M(i)>>]
  <2>1. f \in Surjection(Ids, Newest)
    BY DEF Surjection
  <2> QED
    BY <2>1, IdsFinite, FS_Surjection
<1>7. IsFiniteSet(L) /\ IsFiniteSet(K)
  <2>1. IsFiniteSet(L)
    BY DEF L
  <2>2. IsFiniteSet(L \cup Newest)
    BY <1>6, <2>1, FS_Union
  <2> QED
    BY <1>5, <2>1, <2>2, FS_Subset
<1>8. Cardinality(L) <= Cardinality(K)
  BY <1>4, <1>7, FS_Subset
<1>9. ASSUME NEW q \in tick.todo, ClaimFor(q), tick'.cur = r, tick'.claimed # {}
      PROVE  Cardinality(L) + 1 <= Cardinality(K)
  <2>0. TypeOK /\ ClaimParity
    BY DEF TickInv, SafetyInv
  <2>1. PICK i \in tick'.claimed : TRUE
    BY <1>9
  <2>2. /\ i \in Ids /\ msg[i].state = "ready" /\ msg[i].receiver = r
        /\ msg'[i].receiver = r /\ msg'[i].claim = msg[i].claim + 1
    <3>1. PICK S \in SUBSET Claimable(q, stamp) :
            /\ tick'.cur = q /\ tick'.claimed = S
            /\ \A j \in S : /\ msg'[j].claim = msg[j].claim + 1 /\ msg'[j].receiver = q
                            /\ msg[j].state = "ready" /\ msg[j].receiver = q
      BY <1>9, <2>0, ClaimEffect
    <3> QED
      BY <1>9, <2>1, <3>1 DEF Claimable, Rows
  <2>3. msg[i].claim \in Nat /\ msg[i].claim % 2 = 0
    BY <2>0, <2>2 DEF TypeOK, Row, ClaimParity
  <2>4. (msg[i].claim + 2) \div 2 = (msg[i].claim + 1) \div 2 + 1
    BY <2>3
  <2>5. M(i) = N(i) + 1
    BY <2>2, <2>3, <2>4 DEF M, N, LeasesOf
  <2>6. <<i, M(i)>> \in K /\ <<i, M(i)>> \notin L
    <3>1. N(i) \in Nat
      BY <1>1, <2>2
    <3>2. M(i) \in 1 .. M(i) /\ M(i) \notin 1 .. N(i)
      BY <2>5, <3>1
    <3>3. <<i, M(i)>> \in K
      BY <1>3, <2>2, <3>2
    <3>4. ASSUME NEW j \in Ids, NEW n \in 1 .. N(j), <<i, M(i)>> = <<j, n>> PROVE FALSE
      BY <3>2, <3>4
    <3> QED
      BY <1>2, <3>3, <3>4
  <2>7. Cardinality(L \cup {<<i, M(i)>>}) = Cardinality(L) + 1
    BY <1>7, <2>6, FS_AddElement
  <2>8. L \cup {<<i, M(i)>>} \subseteq K
    BY <1>4, <2>6
  <2> QED
    BY <1>7, <2>7, <2>8, FS_Subset
<1> QED
  BY <1>7, <1>8, <1>9 DEF L, K

(* The wakes of a receiver change only by a wake of it, which adds one.                 *)
LEMMA WakesGrow ==
    ASSUME TypeOK, ServesReceiver, [Next]_vars, NEW r \in Receivers
    PROVE  \/ Wakes(r)' = Wakes(r)
           \/ /\ DeliverWake /\ r = tick.cur
              /\ \E p : Wakes(r)' = Wakes(r) \cup {p} /\ p \notin Wakes(r)
<1> DEFINE N(e) == digest[r][e].wakes
           M(e) == digest'[r][e].wakes
           D == DOMAIN digest[r]
           E == DOMAIN digest'[r]
           A == Wakes(r)
           B == Wakes(r)'
<1>1. \A e \in D : N(e) \in Nat
  <2>1. digest[r] \in Seq(Epoch)
    BY DEF TypeOK
  <2>2. \A e \in D : digest[r][e] \in Epoch
    BY <2>1
  <2> QED
    BY <2>2 DEF Epoch
<1>2. /\ D \subseteq E
      /\ \A e \in D : M(e) = N(e) \/ (DeliverWake /\ r = tick.cur /\ e = tick.epoch /\ M(e) = N(e) + 1)
      /\ \A e \in E : e \in D \/ M(e) = 0
  BY EpochFields
<1>3. \A p : p \in A <=> \E e \in D : \E n \in 1 .. N(e) : p = <<e, n>>
  BY DEF Wakes
<1>4. \A p : p \in B <=> \E e \in E : \E n \in 1 .. M(e) : p = <<e, n>>
  BY DEF Wakes
<1> HIDE DEF N, M, D, E, A, B
<1>5. ASSUME \A e \in D : M(e) = N(e) PROVE B = A
  <2>1. ASSUME NEW p \in A PROVE p \in B
    BY <1>2, <1>3, <1>4, <1>5, <2>1
  <2>2. ASSUME NEW e \in E, NEW n \in 1 .. M(e) PROVE <<e, n>> \in A
    <3>1. e \in D /\ n \in 1 .. N(e)
      BY <1>2, <1>5
    <3> QED
      BY <1>3, <3>1
  <2> QED
    BY <1>4, <2>1, <2>2
<1>6. ASSUME NEW d \in D, M(d) # N(d)
      PROVE  /\ DeliverWake /\ r = tick.cur
             /\ B = A \cup {<<d, M(d)>>} /\ <<d, M(d)>> \notin A
  <2>1. DeliverWake /\ r = tick.cur /\ M(d) = N(d) + 1 /\ d = tick.epoch /\ N(d) \in Nat
    BY <1>1, <1>2, <1>6
  <2>2. \A e \in D : e # d => M(e) = N(e)
    BY <1>2, <2>1
  <2>3. ASSUME NEW e \in D, NEW n \in 1 .. N(e) PROVE <<e, n>> \in B /\ <<e, n>> # <<d, M(d)>>
    <3>1. n \in 1 .. M(e) /\ e \in E
      BY <1>2, <2>1, <2>2
    <3>2. e = d => n # M(d)
      BY <2>1
    <3> QED
      BY <1>4, <3>1, <3>2
  <2>4. <<d, M(d)>> \in B
    <3>1. M(d) \in 1 .. M(d) /\ d \in E
      BY <1>2, <2>1
    <3> QED
      BY <1>4, <3>1
  <2>5. ASSUME NEW e \in E, NEW n \in 1 .. M(e), <<e, n>> # <<d, M(d)>> PROVE <<e, n>> \in A
    <3>1. e \in D
      BY <1>2
    <3>2. n \in 1 .. N(e)
      <4>1. CASE e = d
        BY <2>1, <2>5, <4>1
      <4>2. CASE e # d
        BY <2>2, <3>1, <4>2
      <4> QED
        BY <4>1, <4>2
    <3> QED
      BY <1>3, <3>1, <3>2
  <2>6. A \subseteq B /\ <<d, M(d)>> \notin A
    BY <1>3, <2>3
  <2>7. B \subseteq A \cup {<<d, M(d)>>}
    BY <1>4, <2>5
  <2> QED
    BY <2>1, <2>4, <2>6, <2>7
<1> QED
  BY <1>5, <1>6 DEF A, B

(* The spare lease: one appears only with a claim of at least one row, and a wake uses it.    *)
LEMMA SpareStep ==
    ASSUME TickInv, [Next]_vars, tick.pc = "deliver" => tick.claimed # {}, NEW r \in Receivers
    PROVE  /\ tick'.pc = "deliver" => tick'.claimed # {}
           /\ SpareLease(r) \in {0, 1} /\ SpareLease(r)' \in {0, 1}
           /\ \/ SpareLease(r)' = 0 \/ SpareLease(r) = 1
              \/ \E q \in tick.todo : ClaimFor(q) /\ tick'.cur = r /\ tick'.claimed # {}
           /\ DeliverWake /\ r = tick.cur => SpareLease(r) = 1 /\ SpareLease(r)' = 0
<1>1. TypeOK /\ TickShape /\ tick \in TickState
  BY DEF TickInv, SafetyInv, TypeOK
<1>2. SpareLease(r) \in {0, 1} /\ SpareLease(r)' \in {0, 1}
  BY DEF SpareLease
<1>3. ASSUME tick'.pc = "deliver" PROVE tick'.claimed # {}
  <2>2. CASE EpochBuild \/ EpochExtend
    <3>1. PICK e : tick' = WithEpoch(e)
      BY <2>2 DEF EpochBuild, EpochExtend
    <3>2. tick.claimed # {} \/ tick' = ToServe(tick.todo)
      BY <3>1 DEF WithEpoch
    <3>3. tick.claimed # {}
      BY <1>3, <3>2, FreshTick
    <3>4. tick' = [tick EXCEPT !.pc = "deliver", !.epoch = e, !.owed = {}]
      BY <3>1, <3>3 DEF WithEpoch
    <3> QED
      BY <1>1, <3>3, <3>4 DEF TickState
  <2>3. CASE tick' = tick
    BY <1>3, <2>3
  <2> QED
    BY <1>1, <1>3, <2>2, <2>3, ServePhase
<1>4. ASSUME SpareLease(r)' = 1, ~ \E q \in tick.todo : ClaimFor(q)
      PROVE  SpareLease(r) = 1
  <2>1. tick'.pc \in {"epoch", "open", "extend", "deliver"} /\ tick'.cur = r /\ tick'.claimed # {}
    BY <1>4 DEF SpareLease
  <2>2. tick'.claimed \subseteq tick.claimed /\ tick'.cur = tick.cur
    BY <1>1, <1>4, <2>1, SnapshotKept
  <2>3. tick.pc \in {"epoch", "open", "extend", "deliver"}
    BY <1>1, <1>4, <2>1, ServePhase DEF EpochRead, EpochBuild, EpochExtend
  <2> QED
    BY <2>1, <2>2, <2>3 DEF SpareLease
<1>5. ASSUME SpareLease(r)' = 1, NEW q \in tick.todo, ClaimFor(q)
      PROVE  tick'.cur = r /\ tick'.claimed # {}
  BY <1>5 DEF SpareLease
<1>6. ASSUME DeliverWake, r = tick.cur PROVE SpareLease(r) = 1 /\ SpareLease(r)' = 0
  <2>1. tick.pc = "deliver" /\ \E o : tick' = [tick EXCEPT !.pc = "record", !.outcome = o, !.record = tick.claimed]
    BY <1>6 DEF DeliverWake
  <2>2. tick'.pc = "record"
    BY <1>1, <2>1 DEF TickState
  <2> QED
    BY <1>6, <2>1, <2>2 DEF SpareLease
<1> QED
  BY <1>2, <1>3, <1>4, <1>5, <1>6

(* Every step keeps the balance of wakes and leases.                                 *)
LEMMA CreditStep ==
    ASSUME TickInv, WakeCredit, [Next]_vars
    PROVE  WakeCredit'
<1>1. TypeOK /\ ServesReceiver
  BY DEF TickInv, SafetyInv
<1>2. tick.pc = "deliver" => tick.claimed # {}
  BY DEF WakeCredit
<1>3. ASSUME NEW r \in Receivers
      PROVE  /\ IsFiniteSet(Wakes(r)')
             /\ IsFiniteSet(Leases(r)')
             /\ Cardinality(Wakes(r)') + SpareLease(r)' <= Cardinality(Leases(r)')
  <2> DEFINE w == Cardinality(Wakes(r))
             w2 == Cardinality(Wakes(r)')
             l == Cardinality(Leases(r))
             l2 == Cardinality(Leases(r)')
             s == SpareLease(r)
             s2 == SpareLease(r)'
  <2>1. IsFiniteSet(Wakes(r)) /\ IsFiniteSet(Leases(r)) /\ w + s <= l
    BY DEF WakeCredit
  <2>2. /\ IsFiniteSet(Leases(r)') /\ l <= l2
        /\ \A q \in tick.todo : ClaimFor(q) /\ tick'.cur = r /\ tick'.claimed # {} => l + 1 <= l2
    BY <2>1, LeasesGrow
  <2>3. /\ s \in {0, 1} /\ s2 \in {0, 1}
        /\ s2 = 0 \/ s = 1 \/ \E q \in tick.todo : ClaimFor(q) /\ tick'.cur = r /\ tick'.claimed # {}
        /\ DeliverWake /\ r = tick.cur => s = 1 /\ s2 = 0
    BY <1>2, SpareStep
  <2>4. w \in Nat /\ l \in Nat /\ l2 \in Nat
    BY <2>1, <2>2, FS_CardinalityType
  <2>5. CASE Wakes(r)' = Wakes(r)
    <3>1. w2 = w
      BY <2>5
    <3>2. (s2 = 0 \/ s = 1) \/ l + 1 <= l2
      BY <2>2, <2>3
    <3> HIDE DEF w, w2, l, l2, s, s2
    <3>3. w2 + s2 <= l2
      BY <2>1, <2>2, <2>3, <2>4, <3>1, <3>2
    <3> QED
      BY <2>1, <2>2, <2>5, <3>3 DEF w, w2, l, l2, s, s2
  <2>6. ASSUME DeliverWake, r = tick.cur, NEW p, Wakes(r)' = Wakes(r) \cup {p}, p \notin Wakes(r)
        PROVE  IsFiniteSet(Wakes(r)') /\ w2 + s2 <= l2
    <3>1. IsFiniteSet(Wakes(r)') /\ w2 = w + 1
      BY <2>1, <2>6, FS_AddElement
    <3>2. s = 1 /\ s2 = 0
      BY <2>3, <2>6
    <3> HIDE DEF w, w2, l, l2, s, s2
    <3> QED
      BY <2>1, <2>2, <2>4, <3>1, <3>2
  <2> QED
    BY <1>1, <2>2, <2>5, <2>6, WakesGrow
<1>4. tick'.pc = "deliver" => tick'.claimed # {}
  <2>1. CASE Receivers = {}
    <3>1. tick'.pc # "deliver"
      BY <1>1, <2>1, NextType DEF ServesReceiver
    <3> QED
      BY <3>1
  <2>2. CASE Receivers # {}
    BY <1>2, <2>2, SpareStep
  <2> QED
    BY <2>1, <2>2
<1> QED
  BY <1>3, <1>4 DEF WakeCredit

(* I3, for every number of receivers, messages, ticks, errors and crashes: a receiver is      *)
(* woken at most once for each lease its rows have had.                              *)
THEOREM AtMostOneWakePerLease == Spec => []WakesWithinLeases
<1>1. Init => WakeCredit
  <2> SUFFICES ASSUME Init PROVE WakeCredit
    OBVIOUS
  <2>1. tick.pc = "idle"
    BY FreshTick DEF Init
  <2>2. ASSUME NEW r \in Receivers
        PROVE  Wakes(r) = {} /\ Leases(r) = {} /\ SpareLease(r) = 0
    <3>1. digest[r] = << >> /\ DOMAIN digest[r] = {}
      BY DEF Init
    <3>2. \A i \in Ids : msg[i].receiver # r
      BY ConstantsOK DEF Init, NoRow, ConstantsOK
    <3> QED
      BY <2>1, <3>1, <3>2 DEF Wakes, Leases, SpareLease
  <2> QED
    BY <2>1, <2>2, FS_EmptySet DEF WakeCredit
<1>2. TickInv /\ WakeCredit /\ [Next]_vars => WakeCredit'
  BY CreditStep
<1>3. WakeCredit => WakesWithinLeases
  <2> SUFFICES ASSUME WakeCredit, NEW r \in Receivers
               PROVE  Cardinality(Wakes(r)) <= Cardinality(Leases(r))
    BY DEF WakesWithinLeases
  <2>1. /\ IsFiniteSet(Wakes(r)) /\ IsFiniteSet(Leases(r))
        /\ Cardinality(Wakes(r)) + SpareLease(r) <= Cardinality(Leases(r))
    BY DEF WakeCredit
  <2>2. Cardinality(Wakes(r)) \in Nat /\ Cardinality(Leases(r)) \in Nat /\ SpareLease(r) \in {0, 1}
    BY <2>1, FS_CardinalityType DEF SpareLease
  <2> QED
    BY <2>1, <2>2
<1> QED
  BY <1>1, <1>2, <1>3, TickKeepsItsBooks, PTL DEF Spec
=============================================================================
