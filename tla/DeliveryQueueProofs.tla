-------------------------- MODULE DeliveryQueueProofs --------------------------
(***************************************************************************)
(* Proofs about the delivery queue, for every set of messages, receivers   *)
(* and drafts and every choice of durations that TimingOK admits.          *)
(***************************************************************************)
EXTENDS DeliveryQueue, TLAPS

USE DEF NoTime

(* The durations are positive naturals.                                    *)
LEMMA Durations ==
    /\ LEASE \in Nat /\ LEASE > 0
    /\ BACKOFF \in Nat
    /\ MAX_ATTEMPTS \in Nat
    /\ VETO_CEILING \in Nat
    /\ MAX_LIFETIME \in Nat /\ MAX_LIFETIME > 0
<1>1. {LEASE, BACKOFF, MAX_ATTEMPTS, VETO_CEILING, MAX_LIFETIME,
       CLAIM_LIMIT, LIST_LIMIT} \subseteq Nat \ {0}
  BY TimingOK DEF check_delivery_orderings
<1> QED
  BY <1>1

(* The initial tables have their types.                                    *)
LEMMA InitType == Init => TypeOK
BY ConstantsOK DEF Init, TypeOK, NoRow, NoAttempt, TickIdle, SeatIdle, Row, TickState, SeatState, Live, TERMINAL_STATES

(* An accepted draft is a row.                                             *)
LEMMA RowType ==
    ASSUME TypeOK, NEW d \in Drafts, NEW sid \in Nat
    PROVE  LiveRow(d, sid) \in Row
<1>1. d \in Draft
  BY ConstantsOK DEF ConstantsOK
<1>2. /\ d.receiver \in Receivers
      /\ d.sender \in Receivers \cup {ServiceSender}
      /\ d.expire \in Nat \cup {NoTime}
      /\ d.cancel \in BOOLEAN
  BY <1>1 DEF Draft
<1>3. compute_dead_by(d.expire) \in Nat
  BY <1>2, Durations DEF compute_dead_by, TypeOK
<1>4. NoRow \in Row
  BY DEF NoRow, Row, Live
<1>5. now \in Nat BY DEF TypeOK
<1> QED
  BY <1>2, <1>3, <1>4, <1>5 DEF LiveRow, Row, Live
(* So is a death notice.                                                   *)
LEMMA NoticeType ==
    ASSUME TypeOK, NEW r \in Receivers \cup {ServiceSender}
    PROVE  NoticeRow(r) \in Row
<1>1. compute_dead_by(NoTime) \in Nat
  BY Durations DEF compute_dead_by, TypeOK
<1>2. NoRow \in Row
  BY DEF NoRow, Row, Live
<1>3. now \in Nat BY DEF TypeOK
<1> QED
  BY <1>1, <1>2, <1>3 DEF NoticeRow, Row, Live

(* A row whose lease was released is a row.                                *)
LEMMA ReleasedType ==
    ASSUME TypeOK, NEW i \in Ids, NEW t \in Nat
    PROVE  Released(i, t) \in Row
<1>1. msg[i] \in Row BY DEF TypeOK
<1>2. QuarantineUntil(msg[i]) \in Nat
  BY <1>1 DEF QuarantineUntil, Row
<1>3. t + BACKOFF \in Nat BY Durations
<1>4. msg[i].claim + 1 \in Nat
  BY <1>1 DEF Row
<1>5. msg[i].attempts + Spent(i) \in Nat
  BY <1>1 DEF Row, Spent
<1>6. "ready" \in Live \cup TERMINAL_STATES \cup {"none"} BY DEF Live
<1>7. CASE LastOutcome(i) = "submission_uncertain"
  BY <1>1, <1>2, <1>4, <1>6, <1>7 DEF Released, Row
<1>8. CASE LastOutcome(i) # "submission_uncertain"
  BY <1>1, <1>3, <1>4, <1>5, <1>6, <1>8 DEF Released, Row
<1> QED
  BY <1>7, <1>8

(* So is a dead one.                                                       *)
LEMMA KilledType ==
    ASSUME NEW row \in Row, NEW reason \in DeadReasons
    PROVE  Killed(row, reason) \in Row
BY DEF Killed, Row, TERMINAL_STATES

(* So is one that a reclaim has swept.                                     *)
LEMMA ReclaimedType ==
    ASSUME TypeOK, NEW i \in Ids, NEW t \in Nat
    PROVE  Reclaimed(i, t) \in Row
<1> DEFINE row == IF LeaseExpired(msg[i], t) THEN Released(i, t) ELSE msg[i]
<1>1. row \in Row
  BY ReleasedType DEF TypeOK
<1>2. DeadReasonFor(row) \in DeadReasons
  BY DEF DeadReasonFor, DeadReasons, TimeBoundReasons
<1>3. "veto_ceiling" \in DeadReasons
  BY DEF DeadReasons, TimeBoundReasons
<1>4. Killed(row, "veto_ceiling") \in Row /\ Killed(row, DeadReasonFor(row)) \in Row
  BY <1>1, <1>2, <1>3, KilledType
<1> QED
  BY <1>1, <1>4 DEF Reclaimed

(* So is one that an ack or a completion ended.                            *)
LEMMA EndedType ==
    ASSUME NEW row \in Row, NEW state \in TERMINAL_STATES
    PROVE  Ended(row, state) \in Row
BY DEF Ended, Row

(* The epochs of a receiver, with one field of one of them changed.          *)
LEMMA EpochType ==
    ASSUME TypeOK, NEW r \in Receivers, NEW e \in DOMAIN digest[r], NEW v \in Epoch
    PROVE  [digest EXCEPT ![r][e] = v] \in [Receivers -> Seq(Epoch)]
<1>1. digest[r] \in Seq(Epoch) BY DEF TypeOK
<1>2. [digest[r] EXCEPT ![e] = v] \in Seq(Epoch)
  BY <1>1
<1> QED
  BY <1>2 DEF TypeOK
(* What the tick has left to serve is of its type.                         *)
LEMMA ToServeType ==
    ASSUME NEW todo \in SUBSET Receivers
    PROVE  ToServe(todo) \in TickState
BY DEF ToServe, TickIdle, TickState

(* So is what it does once it has an epoch.                                *)
LEMMA WithEpochType ==
    ASSUME TypeOK, NEW e \in Nat
    PROVE  WithEpoch(e) \in TickState
<1>1. ToServe(tick.todo) \in TickState
  BY ToServeType DEF TypeOK, TickState
<1>2. [tick EXCEPT !.pc = "deliver", !.epoch = e, !.owed = {}] \in TickState
  BY DEF TypeOK, TickState
<1> QED
  BY <1>1, <1>2 DEF WithEpoch

(* So is what it does once an attempt is recorded.                         *)
LEMMA AfterRecordType ==
    ASSUME TypeOK, NEW left \in SUBSET Ids
    PROVE  AfterRecord(left) \in TickState
<1>1. ToServe(tick.todo) \in TickState
  BY ToServeType DEF TypeOK, TickState
<1>2. [tick EXCEPT !.pc = "record", !.record = left, !.item = {}] \in TickState
  BY DEF TypeOK, TickState
<1> QED
  BY <1>1, <1>2 DEF AfterRecord

(* An open epoch is an epoch of its receiver.                              *)
LEMMA OpenEpochNat ==
    ASSUME TypeOK, NEW r \in Receivers, NEW e \in OpenEpochs(r)
    PROVE  e \in Nat /\ e \in DOMAIN digest[r] /\ digest[r][e] \in Epoch
<1>1. digest[r] \in Seq(Epoch) BY DEF TypeOK
<1> QED BY <1>1 DEF OpenEpochs

(* Each change of the epochs table keeps its type.                          *)
LEMMA CloseType ==
    ASSUME TypeOK, NEW r \in Receivers, NEW e,
           NEW via \in {"mcp_ack", "cancelled", "abandoned"}, close_digest(r, e, via)
    PROVE  digest' \in [Receivers -> Seq(Epoch)]
<1>1. CASE e \in OpenEpochs(r)
  <2>1. e \in DOMAIN digest[r] /\ digest[r][e] \in Epoch
    BY <1>1, OpenEpochNat
  <2>2. [digest[r][e] EXCEPT !.via = via] \in Epoch
    BY <2>1 DEF Epoch
  <2>3. digest' = [digest EXCEPT ![r][e] = [digest[r][e] EXCEPT !.via = via]]
    BY <1>1 DEF close_digest
  <2> QED
    BY <2>1, <2>2, <2>3, EpochType
<1>2. CASE e \notin OpenEpochs(r)
  BY <1>2 DEF close_digest, TypeOK
<1> QED
  BY <1>1, <1>2

(* Extending an epoch keeps the type of the epochs.                        *)
LEMMA ExtendType ==
    ASSUME TypeOK, NEW r \in Receivers, NEW e, NEW ids \in SUBSET Ids,
           extend_digest(r, e, ids)
    PROVE  digest' \in [Receivers -> Seq(Epoch)]
<1>1. CASE e \in OpenEpochs(r)
  <2>1. e \in DOMAIN digest[r] /\ digest[r][e] \in Epoch
    BY <1>1, OpenEpochNat
  <2>2. [digest[r][e] EXCEPT !.ids = @ \cup ids] \in Epoch
    BY <2>1 DEF Epoch
  <2>3. digest' = [digest EXCEPT ![r][e] = [digest[r][e] EXCEPT !.ids = @ \cup ids]]
    BY <1>1 DEF extend_digest
  <2> QED
    BY <2>1, <2>2, <2>3, EpochType
<1>2. CASE e \notin OpenEpochs(r)
  BY <1>2 DEF extend_digest, TypeOK
<1> QED
  BY <1>1, <1>2

(* So does counting a wake.                                                *)
LEMMA BumpType ==
    ASSUME TypeOK, NEW r \in Receivers, NEW e \in OpenEpochs(r), bump_wake_count(r, e)
    PROVE  digest' \in [Receivers -> Seq(Epoch)]
<1>1. e \in DOMAIN digest[r] /\ digest[r][e] \in Epoch
  BY OpenEpochNat
<1>2. [digest[r][e] EXCEPT !.wakes = @ + 1] \in Epoch
  BY <1>1 DEF Epoch
<1>3. digest' = [digest EXCEPT ![r][e] = [digest[r][e] EXCEPT !.wakes = @ + 1]]
  BY DEF bump_wake_count
<1> QED
  BY <1>1, <1>2, <1>3, EpochType

(* So does building one.                                                   *)
LEMMA BuildType ==
    ASSUME TypeOK, NEW r \in Receivers, NEW ids \in SUBSET Ids, build_digest(r, ids)
    PROVE  digest' \in [Receivers -> Seq(Epoch)]
<1>1. digest[r] \in Seq(Epoch) BY DEF TypeOK
<1>2. [ids |-> ids, via |-> "open", wakes |-> 0] \in Epoch
  BY DEF Epoch
<1>3. Append(digest[r], [ids |-> ids, via |-> "open", wakes |-> 0]) \in Seq(Epoch)
  BY <1>1, <1>2
<1> QED
  BY <1>3 DEF build_digest, TypeOK

(* Type correctness, step by step; a type that only names receivers while one *)
(* is served is part of it.                                                 *)
LEMMA NextType == TypeOK /\ ServesReceiver /\ [Next]_vars => (TypeOK /\ ServesReceiver)'
<1> SUFFICES ASSUME TypeOK, ServesReceiver, [Next]_vars
             PROVE  TypeOK' /\ ServesReceiver'
  OBVIOUS
<1> USE DEF table
<1>1. ASSUME NEW m \in Msgs, NEW d \in Drafts, Send(m, d)
      PROVE  TypeOK' /\ ServesReceiver'
  <2>1. PICK top \in {msg[i].sid : i \in Ids} : enqueue(m, LiveRow(d, top + 1))
    BY <1>1 DEF Send
  <2>2. top + 1 \in Nat
    BY DEF TypeOK, Row
  <2>3. LiveRow(d, top + 1) \in Row
    BY <2>2, RowType
  <2>4. msg' \in [Ids -> Row]
    BY <2>1, <2>3 DEF enqueue, TypeOK
  <2> QED
    BY <1>1, <2>4 DEF Send, TypeOK, ServesReceiver
<1>2. ASSUME NEW r \in Receivers, Complete(r)
      PROVE  TypeOK' /\ ServesReceiver'
  <2>1. msg' \in [Ids -> Row]
    BY <1>2, EndedType DEF Complete, EndRows, TypeOK, TERMINAL_STATES
  <2> QED
    BY <1>2, <2>1 DEF Complete, TypeOK, ServesReceiver
<1>3. CASE Advance
  BY <1>3 DEF Advance, TypeOK, ServesReceiver
<1>4. CASE TickReclaim
  <2>1. msg' \in [Ids -> Row]
    BY <1>4, ReclaimedType DEF TickReclaim, TypeOK
  <2>2. tick' \in TickState
    BY <1>4 DEF TickReclaim, TickIdle, TickState
  <2>3. ServesReceiver'
    BY <1>4 DEF TickReclaim, TickIdle, ServesReceiver
  <2> QED
    BY <1>4, <2>1, <2>2, <2>3 DEF TickReclaim, TypeOK
<1>5. ASSUME NEW i \in tick.dead, AnnounceDeath(i)
      PROVE  TypeOK' /\ ServesReceiver'
  <2>1. i \in Ids
    BY DEF TypeOK, TickState
  <2>2. tick' \in TickState
    BY <1>5, <2>1 DEF AnnounceDeath, TypeOK, TickState
  <2>3. finding' \subseteq Ids
    BY <1>5, <2>1 DEF AnnounceDeath, TypeOK
  <2>4. ServesReceiver'
    BY <1>5 DEF AnnounceDeath, TypeOK, TickState, ServesReceiver
  <2> QED
    BY <1>5, <2>2, <2>3, <2>4 DEF AnnounceDeath, TypeOK
<1>6. CASE EnqueueNotice
  <2>1. PICK i \in tick.item : enqueue(Notice(i), NoticeRow(msg[i].sender))
    BY <1>6 DEF EnqueueNotice
  <2>2. msg[i].sender \in Receivers \cup {ServiceSender}
    BY DEF TypeOK, TickState, Row
  <2>3. NoticeRow(msg[i].sender) \in Row
    BY <2>2, NoticeType
  <2>4. msg' \in [Ids -> Row]
    BY <2>1, <2>3 DEF enqueue, TypeOK
  <2>5. tick' \in TickState /\ ServesReceiver'
    BY <1>6 DEF EnqueueNotice, TypeOK, TickState, ServesReceiver
  <2> QED
    BY <1>6, <2>4, <2>5 DEF EnqueueNotice, TypeOK
<1>7. CASE ServeBegin
  <2>1. tick' \in TickState
    BY <1>7, ToServeType DEF ServeBegin
  <2>2. ServesReceiver'
    BY <1>7 DEF ServeBegin, ToServe, TickIdle, ServesReceiver
  <2> QED
    BY <1>7, <2>1, <2>2 DEF ServeBegin, TypeOK
<1>8. ASSUME NEW r \in tick.todo, ClaimFor(r)
      PROVE  TypeOK' /\ ServesReceiver'
  <2>1. PICK S \in SUBSET Claimable(r, stamp) :
          /\ claim(S, stamp)
          /\ tick' = [tick EXCEPT !.pc = "epoch", !.todo = @ \ {r}, !.cur = r, !.claimed = S,
                                  !.heldThen = {i \in S : msg[i].held # NoTime}]
    BY <1>8 DEF ClaimFor
  <2>2. r \in Receivers /\ S \subseteq Ids
    BY DEF TypeOK, TickState, Claimable, Rows
  <2>3. stamp + LEASE \in Nat
    BY Durations DEF TypeOK
  <2>4. ASSUME NEW i \in Ids
        PROVE  [msg[i] EXCEPT !.state = "leased", !.claim = @ + 1, !.lease = stamp + LEASE] \in Row
    <3>1. msg[i] \in Row /\ msg[i].claim + 1 \in Nat
      BY DEF TypeOK, Row
    <3> QED
      BY <2>3, <3>1 DEF Row, Live
  <2>5. msg' \in [Ids -> Row]
    BY <2>1, <2>4 DEF claim, TypeOK
  <2>6. tick' \in TickState
    BY <2>1, <2>2 DEF TypeOK, TickState
  <2>7. ServesReceiver'
    BY <2>1, <2>2 DEF TypeOK, TickState, ServesReceiver
  <2> QED
    BY <1>8, <2>5, <2>6, <2>7 DEF ClaimFor, TypeOK
<1>9. CASE EpochRead
  <2>1. ToServe(tick.todo) \in TickState
    BY ToServeType DEF TypeOK, TickState
  <2>2. [tick EXCEPT !.pc = "open", !.owed = undelivered_ids(tick.cur)] \in TickState
    BY DEF TypeOK, TickState, undelivered_ids, Rows
  <2>3. tick' \in TickState
    BY <1>9, <2>1, <2>2 DEF EpochRead
  <2>4. ServesReceiver'
    BY <1>9 DEF EpochRead, TypeOK, TickState, ToServe, TickIdle, ServesReceiver
  <2> QED
    BY <1>9, <2>3, <2>4 DEF EpochRead, TypeOK
<1>10. CASE EpochBuild
  <2>1. tick.cur \in Receivers /\ tick.owed \in SUBSET Ids
    BY <1>10 DEF EpochBuild, ServesReceiver, TypeOK, TickState
  <2>2. digest' \in [Receivers -> Seq(Epoch)]
    BY <1>10, <2>1, BuildType DEF EpochBuild
  <2>3. digest[tick.cur] \in Seq(Epoch)
    BY <2>1 DEF TypeOK
  <2>4. Len(digest[tick.cur]) + 1 \in Nat
    BY <2>3
  <2>5. tick' \in TickState
    BY <1>10, <2>4, WithEpochType DEF EpochBuild
  <2>6. ServesReceiver'
    BY <1>10, <2>1 DEF EpochBuild, WithEpoch, TypeOK, TickState, ToServe, TickIdle, ServesReceiver
  <2> QED
    BY <1>10, <2>2, <2>5, <2>6 DEF EpochBuild, TypeOK
<1>11. CASE EpochFound
  <2>1. tick.cur \in Receivers
    BY <1>11 DEF EpochFound, ServesReceiver
  <2>2. PICK e \in OpenEpochs(tick.cur) : tick' = [tick EXCEPT !.pc = "extend", !.epoch = e]
    BY <1>11 DEF EpochFound
  <2>3. e \in Nat
    BY <2>1, OpenEpochNat
  <2>4. tick' \in TickState
    BY <2>2, <2>3 DEF TypeOK, TickState
  <2>5. ServesReceiver'
    BY <2>1, <2>2 DEF TypeOK, TickState, ServesReceiver
  <2> QED
    BY <1>11, <2>4, <2>5 DEF EpochFound, TypeOK
<1>12. CASE EpochExtend
  <2>1. tick.cur \in Receivers /\ tick.owed \in SUBSET Ids /\ tick.epoch \in Nat
    BY <1>12 DEF EpochExtend, ServesReceiver, TypeOK, TickState
  <2>2. digest' \in [Receivers -> Seq(Epoch)]
    BY <1>12, <2>1, ExtendType DEF EpochExtend
  <2>3. tick' \in TickState
    BY <1>12, <2>1, WithEpochType DEF EpochExtend
  <2>4. ServesReceiver'
    BY <1>12, <2>1 DEF EpochExtend, WithEpoch, TypeOK, TickState, ToServe, TickIdle, ServesReceiver
  <2> QED
    BY <1>12, <2>2, <2>3, <2>4 DEF EpochExtend, TypeOK
<1>13. CASE DeliverAbsent
  <2>1. tick' \in TickState
    BY <1>13 DEF DeliverAbsent, TypeOK, TickState, Outcomes, ATTEMPT_BUDGET_OUTCOMES
  <2>2. ServesReceiver'
    BY <1>13 DEF DeliverAbsent, TypeOK, TickState, ServesReceiver
  <2> QED
    BY <1>13, <2>1, <2>2 DEF DeliverAbsent, TypeOK
<1>14. CASE DeliverClosed
  <2>1. tick' \in TickState
    BY <1>14, ToServeType DEF DeliverClosed, TypeOK, TickState
  <2>2. ServesReceiver'
    BY <1>14 DEF DeliverClosed, ToServe, TickIdle, ServesReceiver
  <2> QED
    BY <1>14, <2>1, <2>2 DEF DeliverClosed, TypeOK
<1>15. CASE DeliverWake
  <2>1. PICK o \in SeatOutcomes \cup PaneOutcomes :
          /\ tick' = [tick EXCEPT !.pc = "record", !.outcome = o, !.record = tick.claimed]
          /\ uncertain' = IF o = "submission_uncertain" THEN uncertain \cup tick.claimed
                          ELSE uncertain
    BY <1>15 DEF DeliverWake
  <2>2. o \in Outcomes
    BY ConstantsOK DEF ConstantsOK
  <2>3. tick.cur \in Receivers /\ tick.epoch \in OpenEpochs(tick.cur)
    BY <1>15 DEF DeliverWake, ServesReceiver
  <2>4. digest' \in [Receivers -> Seq(Epoch)]
    BY <1>15, <2>3, BumpType DEF DeliverWake
  <2>5. tick' \in TickState
    BY <2>1, <2>2 DEF TypeOK, TickState
  <2>6. uncertain' \subseteq Ids
    BY <2>1 DEF TypeOK, TickState
  <2>7. ServesReceiver'
    BY <2>1, <2>3 DEF TypeOK, TickState, ServesReceiver
  <2> QED
    BY <1>15, <2>4, <2>5, <2>6, <2>7 DEF DeliverWake, TypeOK
<1>16. ASSUME NEW i \in tick.record, RecordAttempt(i)
       PROVE  TypeOK' /\ ServesReceiver'
  <2>1. i \in Ids /\ tick.cur \in Receivers
    BY <1>16 DEF RecordAttempt, ServesReceiver, TypeOK, TickState
  <2>2. attempt' \in [Ids -> [claim : Nat, outcome : Outcomes \cup {"none"}]]
    BY <1>16, <2>1 DEF RecordAttempt, TypeOK, Row, TickState
  <2>3. [tick EXCEPT !.pc = "hold", !.record = @ \ {i}, !.item = {i}] \in TickState
    BY <2>1 DEF TypeOK, TickState
  <2>4. AfterRecord(tick.record \ {i}) \in TickState
    BY AfterRecordType DEF TypeOK, TickState
  <2>5. tick' \in TickState
    BY <1>16, <2>3, <2>4 DEF RecordAttempt
  <2>6. ServesReceiver'
    BY <1>16, <2>1 DEF RecordAttempt, AfterRecord, ToServe, TickIdle, TypeOK, TickState, ServesReceiver
  <2> QED
    BY <1>16, <2>2, <2>5, <2>6 DEF RecordAttempt, TypeOK
<1>17. CASE MarkDialogHold
  <2>1. PICK i \in tick.item, held \in Nat \cup {NoTime} : msg' = [msg EXCEPT ![i].held = held]
    BY <1>17 DEF MarkDialogHold, TypeOK
  <2>2. i \in Ids /\ tick.cur \in Receivers
    BY <1>17 DEF MarkDialogHold, ServesReceiver, TypeOK, TickState
  <2>3. [msg[i] EXCEPT !.held = held] \in Row
    <3>1. msg[i] \in Row BY <2>2 DEF TypeOK
    <3> QED BY <3>1 DEF Row
  <2>4. msg' \in [Ids -> Row]
    BY <2>1, <2>2, <2>3 DEF TypeOK
  <2>5. tick' \in TickState
    BY <1>17, AfterRecordType DEF MarkDialogHold, TypeOK, TickState
  <2>6. ServesReceiver'
    BY <1>17, <2>2 DEF MarkDialogHold, AfterRecord, ToServe, TickIdle, TypeOK, TickState, ServesReceiver
  <2> QED
    BY <1>17, <2>4, <2>5, <2>6 DEF MarkDialogHold, TypeOK
<1>18. CASE ServeEnd
  <2> DEFINE open == {p \in Receivers \X UNION {DOMAIN digest[r] : r \in Receivers} :
                        p[2] \in OpenEpochs(p[1])}
  <2>1. ASSUME NEW p \in open PROVE p \in Receivers \X Nat
    <3>1. p[1] \in Receivers /\ p[2] \in OpenEpochs(p[1]) /\ p = <<p[1], p[2]>>
      OBVIOUS
    <3>2. p[2] \in Nat
      BY <3>1, OpenEpochNat
    <3> QED
      BY <3>1, <3>2
  <2>2. tick' \in TickState
    BY <1>18, <2>1 DEF ServeEnd, TickIdle, TickState
  <2>3. ServesReceiver'
    BY <1>18 DEF ServeEnd, TickIdle, ServesReceiver
  <2> QED
    BY <1>18, <2>2, <2>3 DEF ServeEnd, TypeOK
<1>19. ASSUME NEW p \in tick.scan, CloseFinished(p[1], p[2])
       PROVE  TypeOK' /\ ServesReceiver'
  <2>1. p[1] \in Receivers
    BY DEF TypeOK, TickState
  <2>2. digest' \in [Receivers -> Seq(Epoch)]
    BY <1>19, <2>1, CloseType DEF CloseFinished, TypeOK
  <2>3. tick' \in TickState /\ ServesReceiver'
    BY <1>19 DEF CloseFinished, TypeOK, TickState, ServesReceiver
  <2> QED
    BY <1>19, <2>2, <2>3 DEF CloseFinished, TypeOK
<1>20. CASE TickEnd
  BY <1>20 DEF TickEnd, TickIdle, TickState, TypeOK, ServesReceiver
<1>21. ASSUME NEW r \in Seats, SeatStep(r)
       PROVE  TypeOK' /\ ServesReceiver'
  <2> SUFFICES TypeOK'
    BY <1>21 DEF SeatStep, SeatList, SeatSettle, SeatReadDigest, SeatClose, ServesReceiver
  <2>1. r \in Receivers
    BY ConstantsOK DEF ConstantsOK
  <2>2. SeatIdle \in SeatState
    BY DEF SeatIdle, SeatState
  <2>3. CASE SeatList(r)
    <3>1. PICK S \in SUBSET pending_for_receiver(r) :
            /\ shown' = shown \cup S
            /\ \E i \in S : seat' = [seat EXCEPT ![r] = [SeatIdle EXCEPT !.pc = "listed", !.upTo = msg[i].sid]]
      BY <2>3 DEF SeatList
    <3>2. S \subseteq Ids
      BY DEF pending_for_receiver, Rows
    <3>3. PICK i \in S :
            seat' = [seat EXCEPT ![r] = [SeatIdle EXCEPT !.pc = "listed", !.upTo = msg[i].sid]]
      BY <3>1
    <3>4. msg[i].sid \in Nat
      BY <3>2 DEF TypeOK, Row
    <3>5. [SeatIdle EXCEPT !.pc = "listed", !.upTo = msg[i].sid] \in SeatState
      BY <3>4 DEF SeatIdle, SeatState
    <3>6. seat' \in [Seats -> SeatState] /\ shown' \subseteq Ids
      BY <3>1, <3>2, <3>3, <3>5 DEF TypeOK
    <3> QED
      BY <2>3, <3>6 DEF SeatList, TypeOK
  <2>4. CASE SeatSettle(r)
    <3>1. msg' \in [Ids -> Row]
      BY <2>4, EndedType DEF SeatSettle, EndRows, TypeOK, TERMINAL_STATES
    <3>2. seat' \in [Seats -> SeatState]
      BY <2>2, <2>4 DEF SeatSettle, TypeOK, SeatState
    <3> QED
      BY <2>4, <3>1, <3>2 DEF SeatSettle, TypeOK
  <2>5. CASE SeatReadDigest(r)
    <3>1. CASE seat' = [seat EXCEPT ![r] = SeatIdle]
      BY <2>2, <2>5, <3>1 DEF SeatReadDigest, TypeOK
    <3>2. ASSUME NEW e \in OpenEpochs(r),
                 seat' = [seat EXCEPT ![r] = [@ EXCEPT !.pc = "read", !.epoch = e,
                                                     !.ids = digest[r][e].ids]]
          PROVE  TypeOK'
      <4>1. e \in Nat /\ digest[r][e] \in Epoch
        BY <2>1, OpenEpochNat
      <4>2. digest[r][e].ids \in SUBSET Ids
        BY <4>1 DEF Epoch
      <4>3. seat' \in [Seats -> SeatState]
        BY <3>2, <4>1, <4>2 DEF TypeOK, SeatState
      <4> QED
        BY <2>5, <4>3 DEF SeatReadDigest, TypeOK
    <3> QED
      BY <2>5, <3>1, <3>2 DEF SeatReadDigest
  <2>6. CASE SeatClose(r)
    <3>1. digest' \in [Receivers -> Seq(Epoch)]
      BY <2>1, <2>6, CloseType DEF SeatClose, TypeOK
    <3>2. seat' \in [Seats -> SeatState]
      BY <2>2, <2>6 DEF SeatClose, TypeOK
    <3> QED
      BY <2>6, <3>1, <3>2 DEF SeatClose, TypeOK
  <2> QED
    BY <1>21, <2>3, <2>4, <2>5, <2>6 DEF SeatStep
<1>22. ASSUME NEW r \in Seats, SeatFault(r)
       PROVE  TypeOK' /\ ServesReceiver'
  <2>1. seat' \in [Seats -> SeatState] /\ faults' \in Nat
    BY <1>22 DEF SeatFault, TypeOK, SeatIdle, SeatState
  <2> QED
    BY <1>22, <2>1 DEF SeatFault, TypeOK, ServesReceiver
<1>23. CASE TickFault
  <2>1. faults' \in Nat
    BY <1>23 DEF TickFault, TypeOK
  <2>2. TickIdle \in TickState /\ ToServe(tick.todo) \in TickState
    BY ToServeType DEF TickIdle, TypeOK, TickState
  <2>3. [tick EXCEPT !.pc = "announce", !.item = {}] \in TickState
    BY DEF TypeOK, TickState
  <2>4. \A r : [tick EXCEPT !.todo = @ \ {r}] \in TickState
    BY DEF TypeOK, TickState
  <2>5. tick' \in TickState
    BY <1>23, <2>2, <2>3, <2>4 DEF TickFault
  <2>6. tick'.pc \in {"idle", "announce", "serve"}
    <3>1. TickIdle.pc = "idle" /\ ToServe(tick.todo).pc = "serve"
      BY DEF TickIdle, ToServe
    <3>2. [tick EXCEPT !.pc = "announce", !.item = {}].pc = "announce"
      BY DEF TypeOK, TickState
    <3>3. \A r : [tick EXCEPT !.todo = @ \ {r}].pc = tick.pc
      BY DEF TypeOK, TickState
    <3> QED
      BY <1>23, <3>1, <3>2, <3>3 DEF TickFault
  <2>7. ServesReceiver'
    BY <2>6 DEF ServesReceiver
  <2> QED
    BY <1>23, <2>1, <2>5, <2>7 DEF TickFault, TypeOK
<1>24. CASE Crash
  <2>1. faults' \in Nat /\ tick' \in TickState /\ seat' \in [Seats -> SeatState]
    BY <1>24 DEF Crash, TypeOK, TickIdle, TickState, SeatIdle, SeatState
  <2>2. ServesReceiver'
    BY <1>24 DEF Crash, TickIdle, ServesReceiver
  <2> QED
    BY <1>24, <2>1, <2>2 DEF Crash, TypeOK
<1>25. CASE UNCHANGED vars
  BY <1>25 DEF vars, TypeOK, ServesReceiver
<1> QED
  BY <1>1, <1>2, <1>3, <1>4, <1>5, <1>6, <1>7, <1>8, <1>9, <1>10, <1>11, <1>12, <1>13,
     <1>14, <1>15, <1>16, <1>17, <1>18, <1>19, <1>20, <1>21, <1>22, <1>23, <1>24, <1>25
     DEF Next, TickStep

(* Every table and every local variable keeps its type, for all constants: in  *)
(* particular no step of the tick, an ack, an error or a crash writes a state,  *)
(* an outcome or a reason outside the enumerations of core/delivery.py.        *)
THEOREM TypeCorrect == Spec => []TypeOK
<1>1. Init => TypeOK /\ ServesReceiver
  BY InitType DEF Init, TickIdle, ServesReceiver
<1> QED
  BY <1>1, NextType, PTL DEF Spec
-----------------------------------------------------------------------------
(* What reclaim does to one row.  The deadline is never touched; a row that    *)
(* stays leased has not expired; a row left ready is ahead of its deadline, and *)
(* if its lease was released under an uncertain outcome it waits past it.       *)
LEMMA ReclaimedRow ==
    ASSUME TypeOK, NEW i \in Ids, NEW t \in Nat
    PROVE  /\ Reclaimed(i, t).deadBy = msg[i].deadBy
           /\ Reclaimed(i, t).state = "leased" =>
                 Reclaimed(i, t) = msg[i] /\ t <= msg[i].lease
           /\ Reclaimed(i, t).state = "ready" =>
                 /\ t < msg[i].deadBy
                 /\ \/ Reclaimed(i, t) = msg[i]
                    \/ msg[i].state = "leased" /\ Reclaimed(i, t) = Released(i, t)
           /\ msg[i].state \notin Live => Reclaimed(i, t) = msg[i]
           /\ msg[i].state \in Live =>
                 Reclaimed(i, t).state \in Live \/ Reclaimed(i, t).state = "dead"
<1>1. msg[i] \in Row BY DEF TypeOK
<1>2. Released(i, t) \in Row BY ReleasedType
<1>3. Released(i, t).state = "ready" /\ Released(i, t).deadBy = msg[i].deadBy
  BY <1>1 DEF Released, Row
<1> DEFINE row == IF LeaseExpired(msg[i], t) THEN Released(i, t) ELSE msg[i]
<1>4. row \in Row BY <1>1, <1>2
<1>5. \A x : Killed(row, x).state = "dead" /\ Killed(row, x).deadBy = row.deadBy
  BY <1>4 DEF Killed, Row
<1>6. Reclaimed(i, t) = IF HeldTooLong(row, t) THEN Killed(row, "veto_ceiling")
                        ELSE IF Exhausted(row, t) THEN Killed(row, DeadReasonFor(row))
                        ELSE row
  BY DEF Reclaimed
<1>7. row.deadBy = msg[i].deadBy
  BY <1>3
<1>8. Reclaimed(i, t).state # "dead" => ~ HeldTooLong(row, t) /\ ~ Exhausted(row, t)
  BY <1>5, <1>6
<1>9. Reclaimed(i, t).deadBy = msg[i].deadBy
  BY <1>5, <1>6, <1>7
<1>10. ASSUME Reclaimed(i, t).state # "dead"
       PROVE  Reclaimed(i, t) = row /\ (row.state = "ready" => t < row.deadBy)
  <2>1. Reclaimed(i, t) = row /\ ~ Exhausted(row, t)
    BY <1>6, <1>8, <1>10
  <2>2. row.deadBy \in Nat /\ row.attempts \in Nat
    BY <1>4 DEF Row
  <2> QED
    BY <2>1, <2>2 DEF Exhausted
<1>11. msg[i].lease \in Nat \cup {NoTime} BY <1>1 DEF Row
<1>12. Reclaimed(i, t).state = "leased" => Reclaimed(i, t) = msg[i] /\ t <= msg[i].lease
  BY <1>3, <1>10, <1>11 DEF LeaseExpired
<1>13. Reclaimed(i, t).state = "ready" =>
         /\ t < msg[i].deadBy
         /\ \/ Reclaimed(i, t) = msg[i]
            \/ msg[i].state = "leased" /\ Reclaimed(i, t) = Released(i, t)
  BY <1>7, <1>10 DEF LeaseExpired
<1>14. msg[i].state \notin Live => Reclaimed(i, t) = msg[i]
  BY <1>6 DEF LeaseExpired, HeldTooLong, Exhausted, Live
<1>15. msg[i].state \in Live =>
         Reclaimed(i, t).state \in Live \/ Reclaimed(i, t).state = "dead"
  BY <1>3, <1>10 DEF Live
<1> QED
  BY <1>9, <1>12, <1>13, <1>14, <1>15

(* The steps that write delivery_msg.                                       *)
LEMMA RowWriters ==
    ASSUME [Next]_vars
    PROVE  \/ \E m \in Msgs, d \in Drafts : Send(m, d)
           \/ \E r \in Receivers : Complete(r)
           \/ TickReclaim
           \/ EnqueueNotice
           \/ \E r \in tick.todo : ClaimFor(r)
           \/ MarkDialogHold
           \/ \E r \in Seats : SeatSettle(r)
           \/ UNCHANGED msg
BY DEF Next, TickStep, SeatStep, vars, table, Advance, AnnounceDeath, ServeBegin, EpochRead, EpochBuild,
       EpochFound, EpochExtend, DeliverAbsent, DeliverClosed, DeliverWake, RecordAttempt, ServeEnd,
       CloseFinished, TickEnd, SeatList, SeatReadDigest, SeatClose, SeatFault, TickFault, Crash

(* Only TickReclaim moves the stamp, and only Advance the clock.              *)
LEMMA ClockWriters ==
    ASSUME [Next]_vars
    PROVE  \/ TickReclaim /\ UNCHANGED now
           \/ Advance /\ UNCHANGED <<stamp, msg>>
           \/ UNCHANGED <<now, stamp>>
BY DEF Next, TickStep, SeatStep, vars, table, Advance, AnnounceDeath, ServeBegin, EpochRead, EpochBuild,
       EpochFound, EpochExtend, DeliverAbsent, DeliverClosed, DeliverWake, RecordAttempt, ServeEnd,
       CloseFinished, TickEnd, SeatList, SeatReadDigest, SeatClose, SeatFault, TickFault, Crash,
       Send, Complete, TickReclaim, EnqueueNotice, ClaimFor, MarkDialogHold, SeatSettle
(* A new row's deadline is ahead of the clock.                              *)
LEMMA FreshDeadline ==
    ASSUME TypeOK, NEW x \in Nat \cup {NoTime}
    PROVE  compute_dead_by(x) \in Nat /\ now < compute_dead_by(x)
BY Durations DEF compute_dead_by, TypeOK

(* Every step keeps the life bound of leased and live rows.                   *)
LEMMA LifeStep ==
    ASSUME SafetyInv, [Next]_vars
    PROVE  (stamp <= now)' /\ LeaseNearDeadline' /\ BoundedLife'
<1> USE DEF SafetyInv
<1>1. now \in Nat /\ stamp \in Nat /\ LEASE \in Nat /\ LEASE > 0
  BY Durations DEF TypeOK
<1>2. (stamp <= now)'
  BY <1>1, ClockWriters DEF Advance, TickReclaim
<1> SUFFICES ASSUME NEW i \in Ids
             PROVE  /\ msg'[i].state = "leased" => msg'[i].lease < msg'[i].deadBy + LEASE
                    /\ msg'[i].state \in Live => msg'[i].deadBy + LEASE > stamp'
  BY <1>2 DEF LeaseNearDeadline, BoundedLife
<1>3. /\ msg[i].state = "leased" => msg[i].lease < msg[i].deadBy + LEASE
      /\ msg[i].state \in Live => msg[i].deadBy + LEASE > stamp
  BY DEF LeaseNearDeadline, BoundedLife
<1>4. msg[i] \in Row
  BY DEF TypeOK
<1>5. CASE TickReclaim
  <2>1. msg'[i] = Reclaimed(i, now) /\ stamp' = now
    BY <1>5 DEF TickReclaim
  <2>2. msg[i].deadBy \in Nat /\ msg[i].lease \in Nat \cup {NoTime}
    BY <1>4 DEF Row
  <2> QED
    BY <1>1, <1>3, <2>1, <2>2, ReclaimedRow DEF Live
<1> SUFFICES ASSUME UNCHANGED stamp
             PROVE  /\ msg'[i].state = "leased" => msg'[i].lease < msg'[i].deadBy + LEASE
                    /\ msg'[i].state \in Live => msg'[i].deadBy + LEASE > stamp
  BY <1>5, ClockWriters
<1>6. ASSUME NEW m \in Msgs, NEW d \in Drafts, Send(m, d)
      PROVE  /\ msg'[i].state = "leased" => msg'[i].lease < msg'[i].deadBy + LEASE
             /\ msg'[i].state \in Live => msg'[i].deadBy + LEASE > stamp
  <2>1. PICK sid : enqueue(m, LiveRow(d, sid))
    BY <1>6 DEF Send
  <2>2. d.expire \in Nat \cup {NoTime}
    BY ConstantsOK DEF ConstantsOK, Draft
  <2>3. LiveRow(d, sid).state = "ready" /\ LiveRow(d, sid).deadBy = compute_dead_by(d.expire)
    BY DEF LiveRow, NoRow
  <2>4. msg'[i] = msg[i] \/ msg'[i] = LiveRow(d, sid)
    BY <2>1 DEF enqueue, TypeOK
  <2> QED
    BY <1>1, <1>3, <2>2, <2>3, <2>4, FreshDeadline
<1>7. CASE EnqueueNotice
  <2>1. PICK j \in tick.item : enqueue(Notice(j), NoticeRow(msg[j].sender))
    BY <1>7 DEF EnqueueNotice
  <2>2. \A r : NoticeRow(r).state = "ready" /\ NoticeRow(r).deadBy = compute_dead_by(NoTime)
    BY DEF NoticeRow, NoRow
  <2>3. msg'[i] = msg[i] \/ msg'[i] = NoticeRow(msg[j].sender)
    BY <2>1 DEF enqueue, TypeOK
  <2> QED
    BY <1>1, <1>3, <2>2, <2>3, FreshDeadline
<1>8. ASSUME NEW r \in tick.todo, ClaimFor(r)
      PROVE  /\ msg'[i].state = "leased" => msg'[i].lease < msg'[i].deadBy + LEASE
             /\ msg'[i].state \in Live => msg'[i].deadBy + LEASE > stamp
  <2>1. PICK S \in SUBSET Claimable(r, stamp) : claim(S, stamp)
    BY <1>8 DEF ClaimFor
  <2>2. CASE i \in S
    <3>1. msg[i].deadBy > stamp /\ msg[i].deadBy \in Nat
      BY <1>4, <2>2 DEF Claimable, Row
    <3>2. msg'[i].lease = stamp + LEASE /\ msg'[i].deadBy = msg[i].deadBy
      BY <1>4, <2>1, <2>2 DEF claim, Row
    <3> QED
      BY <1>1, <3>1, <3>2
  <2>3. CASE i \notin S
    BY <1>3, <2>1, <2>3 DEF claim
  <2> QED
    BY <2>2, <2>3
<1>9. ASSUME NEW S, NEW state \in TERMINAL_STATES, EndRows(S, state)
      PROVE  /\ msg'[i].state = "leased" => msg'[i].lease < msg'[i].deadBy + LEASE
             /\ msg'[i].state \in Live => msg'[i].deadBy + LEASE > stamp
  <2>1. Ended(msg[i], state).state = state
    BY <1>4 DEF Ended, Row
  <2> QED
    BY <1>3, <1>9, <2>1 DEF EndRows, TERMINAL_STATES, Live
<1>10. CASE MarkDialogHold
  <2>1. PICK j \in tick.item, held \in Nat \cup {NoTime} : msg' = [msg EXCEPT ![j].held = held]
    BY <1>10 DEF MarkDialogHold, TypeOK
  <2>2. msg'[i].state = msg[i].state /\ msg'[i].lease = msg[i].lease /\ msg'[i].deadBy = msg[i].deadBy
    BY <1>4, <2>1 DEF TypeOK, Row
  <2> QED
    BY <1>3, <2>2
<1> QED
  BY <1>3, <1>5, <1>6, <1>7, <1>8, <1>9, <1>10, RowWriters
     DEF Complete, SeatSettle, TERMINAL_STATES
(* Apart from a claim, a step only shrinks the tick's snapshot of claimed rows.  *)
LEMMA SnapshotShrinks ==
    ASSUME TypeOK, [Next]_vars
    PROVE  \/ \E r \in tick.todo : ClaimFor(r)
           \/ tick'.claimed \cup tick'.record \subseteq tick.claimed \cup tick.record
<1> DEFINE Shrinks == tick'.claimed \cup tick'.record \subseteq tick.claimed \cup tick.record
<1>1. \A todo : ToServe(todo).claimed = {} /\ ToServe(todo).record = {}
  BY DEF ToServe, TickIdle
<1>2. TickIdle.claimed = {} /\ TickIdle.record = {}
  BY DEF TickIdle
<1>3. \A left : AfterRecord(left).claimed \subseteq tick.claimed /\ AfterRecord(left).record \subseteq left
  BY <1>1 DEF AfterRecord, TypeOK, TickState
<1>4. \A e : WithEpoch(e).claimed \subseteq tick.claimed /\ WithEpoch(e).record \subseteq tick.record
  BY <1>1 DEF WithEpoch, TypeOK, TickState
<1>5. CASE TickReclaim
  BY <1>5 DEF TickReclaim, TickIdle
<1>6. ASSUME NEW i \in tick.dead, AnnounceDeath(i) PROVE Shrinks
  BY <1>6 DEF AnnounceDeath, TypeOK, TickState
<1>7. CASE EnqueueNotice \/ EpochFound
  BY <1>7 DEF EnqueueNotice, EpochFound, TypeOK, TickState
<1>8. CASE ServeBegin \/ DeliverClosed
  BY <1>1, <1>8 DEF ServeBegin, DeliverClosed
<1>9. CASE EpochRead
  BY <1>1, <1>9 DEF EpochRead, TypeOK, TickState
<1>10. CASE EpochBuild \/ EpochExtend
  BY <1>4, <1>10 DEF EpochBuild, EpochExtend
<1>11. CASE DeliverAbsent \/ DeliverWake
  BY <1>11 DEF DeliverAbsent, DeliverWake, TypeOK, TickState
<1>12. ASSUME NEW i \in tick.record, RecordAttempt(i) PROVE Shrinks
  <2>1. CASE tick' = AfterRecord(tick.record \ {i})
    BY <1>3, <2>1
  <2>2. CASE tick' = [tick EXCEPT !.pc = "hold", !.record = @ \ {i}, !.item = {i}]
    BY <2>2 DEF TypeOK, TickState
  <2> QED
    BY <1>12, <2>1, <2>2 DEF RecordAttempt
<1>13. CASE MarkDialogHold
  BY <1>3, <1>13 DEF MarkDialogHold
<1>14. CASE ServeEnd \/ TickEnd \/ Crash
  <2>1. \A X : /\ [TickIdle EXCEPT !.pc = "close", !.scan = X].claimed = {}
               /\ [TickIdle EXCEPT !.pc = "close", !.scan = X].record = {}
    BY DEF TickIdle
  <2> QED
    BY <1>2, <1>14, <2>1 DEF ServeEnd, TickEnd, Crash
<1>15. ASSUME NEW p \in tick.scan, CloseFinished(p[1], p[2]) PROVE Shrinks
  BY <1>15 DEF CloseFinished, TypeOK, TickState
<1>16. CASE TickFault
  <2>1. CASE tick' = TickIdle \/ tick' = ToServe(tick.todo)
    BY <1>1, <1>2, <2>1
  <2>2. CASE tick' = [tick EXCEPT !.pc = "announce", !.item = {}]
    BY <2>2 DEF TypeOK, TickState
  <2>3. ASSUME NEW r, tick' = [tick EXCEPT !.todo = @ \ {r}] PROVE Shrinks
    BY <2>3 DEF TypeOK, TickState
  <2> QED
    BY <1>16, <2>1, <2>2, <2>3 DEF TickFault
<1>17. CASE UNCHANGED tick
  BY <1>17
<1> QED
  BY <1>5, <1>6, <1>7, <1>8, <1>9, <1>10, <1>11, <1>12, <1>13, <1>14, <1>15, <1>16, <1>17
     DEF Next, TickStep, SeatStep, vars, Send, Complete, Advance, SeatList, SeatSettle,
         SeatReadDigest, SeatClose, SeatFault

(* Only RecordAttempt writes delivery_attempt.                              *)
LEMMA AttemptWriters ==
    ASSUME [Next]_vars
    PROVE  (\E i \in tick.record : RecordAttempt(i)) \/ UNCHANGED attempt
BY DEF Next, TickStep, SeatStep, vars, table, Advance, AnnounceDeath, ServeBegin, EpochRead, EpochBuild,
       EpochFound, EpochExtend, DeliverAbsent, DeliverClosed, DeliverWake, ServeEnd,
       CloseFinished, TickEnd, SeatList, SeatReadDigest, SeatClose, SeatFault, TickFault, Crash,
       Send, Complete, TickReclaim, EnqueueNotice, ClaimFor, MarkDialogHold, SeatSettle
(* What a step other than reclaim may do to a row that is not new: end it,      *)
(* lease it if it is claimable, or move its hold clock.                      *)
LEMMA RowStep ==
    ASSUME TypeOK, [Next]_vars, ~ TickReclaim, NEW i \in Ids, msg[i].state # "none"
    PROVE  /\ msg'[i].deadBy = msg[i].deadBy
           /\ \/ msg'[i].state \in TERMINAL_STATES /\ msg[i].state \in Live
              \/ msg[i].state = "ready" /\ msg[i].avail < msg[i].deadBy
              \/ /\ msg'[i].state = msg[i].state
                 /\ msg'[i].claim = msg[i].claim
                 /\ msg'[i].avail = msg[i].avail
<1> DEFINE Kept == /\ msg'[i].state = msg[i].state
                   /\ msg'[i].claim = msg[i].claim
                   /\ msg'[i].avail = msg[i].avail
                   /\ msg'[i].deadBy = msg[i].deadBy
           Ends == /\ msg'[i].state \in TERMINAL_STATES /\ msg[i].state \in Live
                   /\ msg'[i].deadBy = msg[i].deadBy
<1>1. msg[i] \in Row BY DEF TypeOK
<1>2. ASSUME NEW k, NEW row, enqueue(k, row) PROVE msg'[i] = msg[i]
  BY <1>2 DEF enqueue, TypeOK
<1>3. ASSUME NEW m \in Msgs, NEW d \in Drafts, Send(m, d) PROVE Kept
  BY <1>2, <1>3 DEF Send
<1>4. CASE EnqueueNotice
  BY <1>2, <1>4 DEF EnqueueNotice
<1>5. ASSUME NEW S, NEW state \in TERMINAL_STATES, EndRows(S, state),
             \A j \in S : msg[j].state \in Live
      PROVE  Ends \/ Kept
  BY <1>1, <1>5 DEF EndRows, Ended, Row
<1>6. ASSUME NEW r \in Receivers, Complete(r) PROVE Ends \/ Kept
  BY <1>5, <1>6 DEF Complete, Rows, Live, TERMINAL_STATES
<1>7. ASSUME NEW r \in Seats, SeatSettle(r) PROVE Ends \/ Kept
  BY <1>5, <1>7 DEF SeatSettle, Settleable, pending_for_receiver, Rows, Live, TERMINAL_STATES
<1>8. ASSUME NEW r \in tick.todo, ClaimFor(r)
      PROVE  \/ Kept
             \/ /\ msg[i].state = "ready" /\ msg[i].avail < msg[i].deadBy
                /\ msg'[i].deadBy = msg[i].deadBy
  <2>1. PICK S \in SUBSET Claimable(r, stamp) : claim(S, stamp)
    BY <1>8 DEF ClaimFor
  <2>2. CASE i \in S
    <3>1. msg[i].state = "ready" /\ msg[i].avail <= stamp /\ stamp < msg[i].deadBy
      BY <2>2 DEF Claimable, Rows
    <3>2. stamp \in Nat /\ msg[i].avail \in Nat /\ msg[i].deadBy \in Nat
      BY <1>1 DEF TypeOK, Row
    <3>3. msg'[i].deadBy = msg[i].deadBy
      BY <1>1, <2>1, <2>2 DEF claim, Row
    <3> QED
      BY <3>1, <3>2, <3>3
  <2>3. CASE i \notin S
    BY <2>1, <2>3 DEF claim
  <2> QED
    BY <2>2, <2>3
<1>9. CASE MarkDialogHold
  <2>1. PICK j \in tick.item, held \in Nat \cup {NoTime} : msg' = [msg EXCEPT ![j].held = held]
    BY <1>9 DEF MarkDialogHold, TypeOK
  <2> QED
    BY <1>1, <2>1 DEF TypeOK, Row
<1> QED
  BY <1>3, <1>4, <1>6, <1>7, <1>8, <1>9, RowWriters

(* The tick's snapshot stays fenced and the quarantine of a recorded uncertain  *)
(* outcome stays in force: reclaim is the only step that releases a lease, and  *)
(* it finds the outcome under the claim that recorded it.                     *)
LEMMA FenceStep ==
    ASSUME SafetyInv, [Next]_vars
    PROVE  SnapshotFenced' /\ QuarantineHolds'
<1> USE DEF SafetyInv
<1> DEFINE Fenced == {"leased"} \cup TERMINAL_STATES
<1>1. ASSUME NEW i \in (tick.claimed \cup tick.record)', i \in Ids
      PROVE  msg'[i].state \in Fenced
  <2>1. CASE TickReclaim
    <3>1. (tick.claimed \cup tick.record)' = {}
      BY <2>1 DEF TickReclaim, TickIdle
    <3> QED
      BY <1>1, <3>1
  <2>2. ASSUME ~ TickReclaim, i \in tick.claimed \cup tick.record
        PROVE  msg'[i].state \in Fenced
    <3>1. msg[i].state \in Fenced
      BY <2>2 DEF SnapshotFenced
    <3>2. msg[i].state # "none" /\ msg[i].state # "ready"
      BY <3>1 DEF TERMINAL_STATES
    <3> QED
      BY <1>1, <2>2, <3>1, <3>2, RowStep
  <2>3. ASSUME NEW r \in tick.todo, ClaimFor(r), i \notin tick.claimed \cup tick.record
        PROVE  msg'[i].state \in Fenced
    <3>1. PICK S \in SUBSET Claimable(r, stamp) :
            /\ claim(S, stamp)
            /\ tick' = [tick EXCEPT !.pc = "epoch", !.todo = @ \ {r}, !.cur = r, !.claimed = S,
                                    !.heldThen = {j \in S : msg[j].held # NoTime}]
      BY <2>3 DEF ClaimFor
    <3>2. i \in S
      BY <1>1, <2>3, <3>1 DEF TypeOK, TickState
    <3>3. msg[i] \in Row
      BY <1>1 DEF TypeOK
    <3> QED
      BY <1>1, <3>1, <3>2, <3>3 DEF claim, Row
  <2> QED
    BY <1>1, <2>1, <2>2, <2>3, SnapshotShrinks
<1>2. TypeOK'
  BY NextType
<1>3. SnapshotFenced'
  <2>1. (tick.claimed \cup tick.record)' \subseteq Ids
    BY <1>2 DEF TypeOK, TickState
  <2> QED
    BY <1>1, <2>1 DEF SnapshotFenced
<1>4. ASSUME NEW i \in Ids, attempt'[i].outcome = "submission_uncertain"
      PROVE  \/ msg'[i].state \in TERMINAL_STATES
             \/ msg'[i].state = "leased" /\ msg'[i].claim = attempt'[i].claim
             \/ msg'[i].state = "ready" /\ msg'[i].avail >= msg'[i].deadBy
  <2>1. msg[i] \in Row /\ msg[i].avail \in Nat /\ msg[i].deadBy \in Nat
    BY DEF TypeOK, Row
  <2>2. ASSUME NEW j \in tick.record, RecordAttempt(j), j = i, attempt'[i] # attempt[i]
        PROVE  \/ msg'[i].state \in TERMINAL_STATES
               \/ msg'[i].state = "leased" /\ msg'[i].claim = attempt'[i].claim
    <3>1. attempt'[i].claim = msg[i].claim /\ msg' = msg
      BY <2>2 DEF RecordAttempt, TypeOK
    <3>2. msg[i].state \in Fenced
      BY <2>2 DEF SnapshotFenced
    <3> QED
      BY <3>1, <3>2
  <2>3. CASE attempt'[i] = attempt[i]
    <3>1. \/ msg[i].state \in TERMINAL_STATES
          \/ msg[i].state = "leased" /\ msg[i].claim = attempt[i].claim
          \/ msg[i].state = "ready" /\ msg[i].avail >= msg[i].deadBy
      BY <1>4, <2>3 DEF QuarantineHolds
    <3>2. CASE TickReclaim
      <4>1. now \in Nat /\ msg'[i] = Reclaimed(i, now)
        BY <3>2 DEF TickReclaim, TypeOK
      <4>2. CASE msg[i].state \in TERMINAL_STATES
        BY <4>1, <4>2, ReclaimedRow DEF TERMINAL_STATES, Live
      <4>3. CASE msg[i].state \in Live
        <5>1. msg'[i].state \in Live \/ msg'[i].state = "dead"
          BY <4>1, <4>3, ReclaimedRow
        <5>2. CASE msg'[i].state = "leased"
          BY <2>3, <3>1, <4>1, <4>3, <5>2, ReclaimedRow DEF TERMINAL_STATES, Live
        <5>3. CASE msg'[i].state = "ready"
          <6>1. CASE msg'[i] = msg[i]
            BY <3>1, <5>3, <6>1 DEF TERMINAL_STATES
          <6>2. CASE msg[i].state = "leased" /\ msg'[i] = Released(i, now)
            <7>1. LastOutcome(i) = "submission_uncertain"
              BY <1>4, <2>3, <3>1, <6>2 DEF LastOutcome, TERMINAL_STATES
            <7>2. msg'[i].avail = msg[i].deadBy + 1 /\ msg'[i].deadBy = msg[i].deadBy
              BY <2>1, <6>2, <7>1 DEF Released, QuarantineUntil, Row
            <7> QED
              BY <2>1, <5>3, <7>2
          <6> QED
            BY <4>1, <5>3, <6>1, <6>2, ReclaimedRow
        <5> QED
          BY <5>1, <5>2, <5>3 DEF Live, TERMINAL_STATES
      <4> QED
        BY <3>1, <4>2, <4>3 DEF Live
    <3>3. CASE ~ TickReclaim
      <4>1. msg[i].state # "none"
        BY <3>1 DEF TERMINAL_STATES
      <4>2. ~ (msg[i].state = "ready" /\ msg[i].avail < msg[i].deadBy)
        BY <2>1, <3>1 DEF TERMINAL_STATES
      <4> QED
        BY <2>3, <3>1, <3>3, <4>1, <4>2, RowStep
    <3> QED
      BY <3>2, <3>3
  <2>4. ASSUME NEW j \in tick.record, RecordAttempt(j), j # i
        PROVE  attempt'[i] = attempt[i]
    BY <2>4 DEF RecordAttempt, TypeOK
  <2> QED
    BY <2>2, <2>3, <2>4, AttemptWriters
<1> QED
  BY <1>3, <1>4 DEF QuarantineHolds
(* The steps that write seat_digest: one builds an epoch when none is open, the  *)
(* others change one open epoch.                                            *)
LEMMA EpochWriters ==
    ASSUME TypeOK, ServesReceiver, [Next]_vars
    PROVE  \/ \E r \in Receivers, ids \in SUBSET Ids :
                OpenEpochs(r) = {} /\ build_digest(r, ids)
           \/ \E r \in Receivers : \E e \in OpenEpochs(r), v \in Epoch :
                digest' = [digest EXCEPT ![r][e] = v]
           \/ UNCHANGED digest
<1> DEFINE Changed == \/ \E r \in Receivers : \E e \in OpenEpochs(r), v \in Epoch :
                           digest' = [digest EXCEPT ![r][e] = v]
                      \/ UNCHANGED digest
<1>1. ASSUME NEW r \in Receivers, NEW e, NEW via \in {"mcp_ack", "cancelled", "abandoned"},
             close_digest(r, e, via)
      PROVE  Changed
  <2>1. CASE e \in OpenEpochs(r)
    <3>1. digest[r][e] \in Epoch
      BY <2>1, OpenEpochNat
    <3>2. [digest[r][e] EXCEPT !.via = via] \in Epoch
      BY <3>1 DEF Epoch
    <3>3. digest' = [digest EXCEPT ![r][e] = [digest[r][e] EXCEPT !.via = via]]
      BY <1>1, <2>1 DEF close_digest
    <3> QED
      BY <2>1, <3>2, <3>3
  <2>2. CASE e \notin OpenEpochs(r)
    BY <1>1, <2>2 DEF close_digest
  <2> QED
    BY <2>1, <2>2
<1>2. CASE EpochBuild
  BY <1>2 DEF EpochBuild, ServesReceiver, TypeOK, TickState
<1>3. CASE EpochExtend
  <2>1. tick.cur \in Receivers /\ tick.owed \in SUBSET Ids
    BY <1>3 DEF EpochExtend, ServesReceiver, TypeOK, TickState
  <2>2. CASE tick.epoch \in OpenEpochs(tick.cur)
    <3>1. digest[tick.cur][tick.epoch] \in Epoch
      BY <2>1, <2>2, OpenEpochNat
    <3>2. [digest[tick.cur][tick.epoch] EXCEPT !.ids = @ \cup tick.owed] \in Epoch
      BY <2>1, <3>1 DEF Epoch
    <3>3. digest' = [digest EXCEPT ![tick.cur][tick.epoch] =
                       [digest[tick.cur][tick.epoch] EXCEPT !.ids = @ \cup tick.owed]]
      BY <1>3, <2>2 DEF EpochExtend, extend_digest
    <3> QED
      BY <2>1, <2>2, <3>2, <3>3
  <2>3. CASE tick.epoch \notin OpenEpochs(tick.cur)
    BY <1>3, <2>3 DEF EpochExtend, extend_digest
  <2> QED
    BY <2>2, <2>3
<1>4. CASE DeliverWake
  <2>1. tick.cur \in Receivers /\ tick.epoch \in OpenEpochs(tick.cur)
    BY <1>4 DEF DeliverWake, ServesReceiver
  <2>2. digest[tick.cur][tick.epoch] \in Epoch
    BY <2>1, OpenEpochNat
  <2>3. [digest[tick.cur][tick.epoch] EXCEPT !.wakes = @ + 1] \in Epoch
    BY <2>2 DEF Epoch
  <2>4. digest' = [digest EXCEPT ![tick.cur][tick.epoch] =
                     [digest[tick.cur][tick.epoch] EXCEPT !.wakes = @ + 1]]
    BY <1>4 DEF DeliverWake, bump_wake_count
  <2> QED
    BY <2>1, <2>3, <2>4
<1>5. ASSUME NEW p \in tick.scan, CloseFinished(p[1], p[2]) PROVE Changed
  <2>1. p[1] \in Receivers
    BY DEF TypeOK, TickState
  <2> QED
    BY <1>1, <1>5, <2>1 DEF CloseFinished
<1>6. ASSUME NEW r \in Seats, SeatClose(r) PROVE Changed
  <2>1. r \in Receivers
    BY ConstantsOK DEF ConstantsOK
  <2> QED
    BY <1>1, <1>6, <2>1 DEF SeatClose
<1> QED
  BY <1>2, <1>3, <1>4, <1>5, <1>6
     DEF Next, TickStep, SeatStep, vars, table, Send, Complete, Advance, TickReclaim, AnnounceDeath,
         EnqueueNotice, ServeBegin, ClaimFor, EpochRead, EpochFound, DeliverAbsent, DeliverClosed,
         RecordAttempt, MarkDialogHold, ServeEnd, TickEnd, SeatList, SeatSettle, SeatReadDigest,
         SeatFault, TickFault, Crash

(* Every step keeps one open epoch per receiver.                           *)
LEMMA EpochStep ==
    ASSUME SafetyInv, [Next]_vars
    PROVE  OneOpenEpoch'
<1> USE DEF SafetyInv
<1> SUFFICES ASSUME NEW q \in Receivers, NEW e \in OpenEpochs(q)', NEW f \in OpenEpochs(q)'
             PROVE  e = f
  BY DEF OneOpenEpoch
<1>1. \A g, h \in OpenEpochs(q) : g = h
  BY DEF OneOpenEpoch
<1>2. digest[q] \in Seq(Epoch)
  BY DEF TypeOK
<1>3. ASSUME NEW r \in Receivers, NEW ids \in SUBSET Ids, OpenEpochs(r) = {}, build_digest(r, ids)
      PROVE  e = f
  <2>1. CASE q = r
    <3>1. digest'[q] = Append(digest[q], [ids |-> ids, via |-> "open", wakes |-> 0])
      BY <1>3, <2>1 DEF build_digest, TypeOK
    <3>2. \A g \in DOMAIN digest'[q] :
            g = Len(digest[q]) + 1 \/ (g \in DOMAIN digest[q] /\ digest'[q][g] = digest[q][g])
      BY <1>2, <3>1
    <3> QED
      BY <1>3, <2>1, <3>2 DEF OpenEpochs
  <2>2. CASE q # r
    <3>1. digest'[q] = digest[q]
      BY <1>3, <2>2 DEF build_digest, TypeOK
    <3> QED
      BY <1>1, <3>1 DEF OpenEpochs
  <2> QED
    BY <2>1, <2>2
<1>4. ASSUME NEW r \in Receivers, NEW g \in OpenEpochs(r), NEW v \in Epoch,
             digest' = [digest EXCEPT ![r][g] = v]
      PROVE  e = f
  <2>1. \A h \in OpenEpochs(q)' : h \in OpenEpochs(q)
    <3>1. CASE q = r
      <4>1. digest'[q] = [digest[q] EXCEPT ![g] = v]
        BY <1>4, <3>1 DEF TypeOK
      <4>2. DOMAIN digest'[q] = DOMAIN digest[q]
        BY <1>2, <4>1
      <4> QED
        BY <1>4, <3>1, <4>1, <4>2 DEF OpenEpochs
    <3>2. CASE q # r
      <4>1. digest'[q] = digest[q]
        BY <1>4, <3>2 DEF TypeOK
      <4> QED
        BY <4>1 DEF OpenEpochs
    <3> QED
      BY <3>1, <3>2
  <2> QED
    BY <1>1, <2>1
<1>5. CASE UNCHANGED digest
  BY <1>1, <1>5 DEF OpenEpochs
<1> QED
  BY <1>3, <1>4, <1>5, EpochWriters

-----------------------------------------------------------------------------
(* Every step keeps the inductive invariant.                               *)
LEMMA SafetyInductive == SafetyInv /\ [Next]_vars => SafetyInv'
BY NextType, LifeStep, FenceStep, EpochStep DEF SafetyInv

(* The initial state satisfies it.                                         *)
LEMMA InitSafe == Init => SafetyInv
<1> SUFFICES ASSUME Init PROVE SafetyInv
  OBVIOUS
<1>1. TypeOK
  BY InitType
<1>2. \A i \in Ids : msg[i].state = "none" /\ attempt[i].outcome = "none"
  BY DEF Init, NoRow, NoAttempt
<1>3. \A r \in Receivers : OpenEpochs(r) = {}
  BY DEF Init, OpenEpochs
<1>4. tick = TickIdle /\ stamp = 0 /\ now = 0
  BY DEF Init
<1> QED
  BY <1>1, <1>2, <1>3, <1>4
     DEF SafetyInv, ServesReceiver, LeaseNearDeadline, BoundedLife, SnapshotFenced,
         QuarantineHolds, OneOpenEpoch, TickIdle, Live

(* The inductive invariant holds in every behaviour.                        *)
THEOREM Safety == Spec => []SafetyInv
BY InitSafe, SafetyInductive, PTL DEF Spec

(* reclaim's three sweeps and claim's guards bound every row's life: at each    *)
(* tick, a pending row's deadline is less than one lease in the past, whatever   *)
(* the durations, the outcomes, the acks, the errors and the crashes.           *)
THEOREM LifeIsBounded == Spec => []BoundedLife
<1>1. SafetyInv => BoundedLife BY DEF SafetyInv
<1> QED BY <1>1, Safety, PTL

(* A recorded submission_uncertain is never re-offered before its deadline: the  *)
(* quarantine of reclaim holds in every behaviour, over crashes and errors.      *)
THEOREM QuarantineIsKept == Spec => []QuarantineHolds
<1>1. SafetyInv => QuarantineHolds BY DEF SafetyInv
<1> QED BY <1>1, Safety, PTL

(* No receiver ever has two open epochs, although the tick reads and builds      *)
(* epochs in separate transactions and seats close them in between.             *)
THEOREM SingleOpenEpoch == Spec => []OneOpenEpoch
<1>1. SafetyInv => OneOpenEpoch BY DEF SafetyInv
<1> QED BY <1>1, Safety, PTL

(* No step moves a deadline: neither a re-offer, nor a hold, nor an ending.     *)
THEOREM DeadlineNeverMoves == Spec => DeadlineFixed
<1>1. ASSUME SafetyInv, [Next]_vars, NEW i \in Ids, msg[i].state # "none"
      PROVE  msg'[i].deadBy = msg[i].deadBy
  <2>1. CASE TickReclaim
    BY <1>1, <2>1, ReclaimedRow DEF TickReclaim, SafetyInv, TypeOK
  <2>2. CASE ~ TickReclaim
    BY <1>1, <2>2, RowStep DEF SafetyInv
  <2> QED
    BY <2>1, <2>2
<1>2. SafetyInv /\ [Next]_vars =>
        [\A i \in Ids : msg[i].state # "none" => msg'[i].deadBy = msg[i].deadBy]_vars
  BY <1>1
<1> QED
  BY <1>2, Safety, PTL DEF Spec, DeadlineFixed

(* A closed epoch is never changed again: #568 is unreachable in every           *)
(* interleaving of the tick with the acks, errors and crashes.                 *)
THEOREM ClosedEpochsAreFinal == Spec => ClosedEpochFrozen
<1>1. ASSUME SafetyInv, [Next]_vars, NEW q \in Receivers, NEW e \in DOMAIN digest[q],
             digest[q][e].via # "open"
      PROVE  digest'[q][e] = digest[q][e]
  <2>1. TypeOK /\ ServesReceiver /\ digest[q] \in Seq(Epoch) /\ e \notin OpenEpochs(q)
    BY <1>1 DEF SafetyInv, TypeOK, OpenEpochs
  <2>2. ASSUME NEW r \in Receivers, NEW ids \in SUBSET Ids, build_digest(r, ids)
        PROVE  digest'[q][e] = digest[q][e]
    <3>1. CASE q = r
      BY <2>1, <2>2, <3>1 DEF build_digest, TypeOK
    <3>2. CASE q # r
      BY <2>1, <2>2, <3>2 DEF build_digest, TypeOK
    <3> QED
      BY <3>1, <3>2
  <2>3. ASSUME NEW r \in Receivers, NEW g \in OpenEpochs(r), NEW v \in Epoch,
               digest' = [digest EXCEPT ![r][g] = v]
        PROVE  digest'[q][e] = digest[q][e]
    <3>1. q # r \/ g # e
      BY <2>1
    <3> QED
      BY <2>1, <2>3, <3>1 DEF TypeOK
  <2> QED
    BY <1>1, <2>1, <2>2, <2>3, EpochWriters
<1>2. SafetyInv /\ [Next]_vars =>
        [\A r \in Receivers : \A e \in DOMAIN digest[r] :
            digest[r][e].via # "open" => digest'[r][e] = digest[r][e]]_vars
  BY <1>1
<1> QED
  BY <1>2, Safety, PTL DEF Spec, ClosedEpochFrozen

-----------------------------------------------------------------------------
(* Refinement: what a step does to the status of the messages.                *)
LEMMA LifecycleStep ==
    ASSUME TypeOK, [Next]_vars
    PROVE  Lifecycle!Next \/ UNCHANGED status
<1> DEFINE Same(i) == \/ msg'[i].state = msg[i].state
                      \/ msg[i].state \in Live /\ msg'[i].state \in Live
<1>1. ASSUME NEW k \in Ids, NEW row, enqueue(k, row), row.state = "ready"
      PROVE  Lifecycle!Accept(k) \/ UNCHANGED status
  <2>1. CASE msg[k].state = "none"
    <3>1. msg' = [msg EXCEPT ![k] = row]
      BY <1>1, <2>1 DEF enqueue
    <3>2. status[k] = "none" /\ status' = [status EXCEPT ![k] = "owed"]
      BY <1>1, <2>1, <3>1 DEF status, Live, TypeOK
    <3> QED
      BY <3>2 DEF Lifecycle!Accept
  <2>2. CASE msg[k].state # "none"
    BY <1>1, <2>2 DEF enqueue, status
  <2> QED
    BY <2>1, <2>2
<1>2. ASSUME NEW S \in SUBSET Ids, NEW ending \in Lifecycle!Endings,
             \A i \in S : msg[i].state \in Live /\ msg'[i].state = ending,
             \A i \in Ids \ S : Same(i)
      PROVE  Lifecycle!End(S, ending) \/ UNCHANGED status
  <2>1. \A i \in Ids : status'[i] = IF i \in S THEN ending ELSE status[i]
    BY <1>2 DEF status, Lifecycle!Endings, Live
  <2>2. status' = [i \in Ids |-> IF i \in S THEN ending ELSE status[i]]
    BY <2>1 DEF status
  <2>3. \A i \in S : status[i] = "owed"
    BY <1>2 DEF status
  <2>4. CASE S = {}
    BY <2>2, <2>4 DEF status
  <2>5. CASE S # {}
    BY <2>2, <2>3, <2>5 DEF Lifecycle!End
  <2> QED
    BY <2>4, <2>5
<1>3. ASSUME \A i \in Ids : Same(i)
      PROVE  UNCHANGED status
  BY <1>3 DEF status
<1>4. ASSUME NEW m \in Msgs, NEW d \in Drafts, Send(m, d)
      PROVE  Lifecycle!Next \/ UNCHANGED status
  <2>1. PICK sid : enqueue(m, LiveRow(d, sid))
    BY <1>4 DEF Send
  <2>2. m \in Ids /\ LiveRow(d, sid).state = "ready"
    BY DEF Ids, LiveRow, NoRow
  <2> QED
    BY <1>1, <2>1, <2>2 DEF Lifecycle!Next
<1>5. CASE EnqueueNotice
  <2>1. PICK i \in tick.item : enqueue(Notice(i), NoticeRow(msg[i].sender))
    BY <1>5 DEF EnqueueNotice
  <2>2. NoticeRow(msg[i].sender).state = "ready"
    BY DEF NoticeRow, NoRow
  <2>3. CASE Notice(i) \in Ids
    BY <1>1, <2>1, <2>2, <2>3 DEF Lifecycle!Next
  <2>4. CASE Notice(i) \notin Ids
    BY <2>1, <2>4 DEF enqueue, TypeOK, status
  <2> QED
    BY <2>3, <2>4
<1>6. ASSUME NEW S \in SUBSET Ids, NEW ending \in Lifecycle!Endings, EndRows(S, ending),
             \A i \in S : msg[i].state \in Live
      PROVE  Lifecycle!Next \/ UNCHANGED status
  <2>1. \A i \in Ids : Ended(msg[i], ending).state = ending
    BY DEF Ended, TypeOK, Row
  <2>2. \A i \in Ids : msg'[i].state = IF i \in S THEN ending ELSE msg[i].state
    BY <1>6, <2>1 DEF EndRows
  <2> QED
    BY <1>2, <1>6, <2>2 DEF Lifecycle!Next
<1>7. ASSUME NEW r \in Receivers, Complete(r)
      PROVE  Lifecycle!Next \/ UNCHANGED status
  BY <1>6, <1>7 DEF Complete, Rows, Live, Lifecycle!Endings
<1>8. ASSUME NEW r \in Seats, SeatSettle(r)
      PROVE  Lifecycle!Next \/ UNCHANGED status
  BY <1>6, <1>8 DEF SeatSettle, Settleable, pending_for_receiver, Rows, Live, Lifecycle!Endings
<1>9. CASE TickReclaim
  <2> DEFINE S == {i \in Ids : Dies(i, now)}
  <2>1. now \in Nat /\ \A i \in Ids : msg'[i] = Reclaimed(i, now)
    BY <1>9 DEF TickReclaim, TypeOK
  <2>2. \A i \in S : msg[i].state \in Live /\ msg'[i].state = "dead"
    BY <2>1 DEF Dies
  <2>3. \A i \in Ids \ S : Same(i)
    BY <2>1, ReclaimedRow DEF Dies
  <2> QED
    BY <1>2, <2>2, <2>3 DEF Lifecycle!Next, Lifecycle!Endings
<1>10. ASSUME NEW r \in tick.todo, ClaimFor(r) PROVE UNCHANGED status
  <2>1. PICK S \in SUBSET Claimable(r, stamp) : claim(S, stamp)
    BY <1>10 DEF ClaimFor
  <2>2. \A i \in Ids : msg'[i].state = IF i \in S THEN "leased" ELSE msg[i].state
    BY <2>1 DEF claim, TypeOK, Row
  <2>3. \A i \in S : msg[i].state = "ready"
    BY DEF Claimable, Rows
  <2> QED
    BY <1>3, <2>2, <2>3 DEF Live
<1>11. CASE MarkDialogHold
  <2>1. PICK j \in tick.item, held \in Nat \cup {NoTime} : msg' = [msg EXCEPT ![j].held = held]
    BY <1>11 DEF MarkDialogHold, TypeOK
  <2>2. \A i \in Ids : msg'[i].state = msg[i].state
    BY <2>1 DEF TypeOK, Row
  <2> QED
    BY <1>3, <2>2
<1>12. CASE UNCHANGED msg
  BY <1>12 DEF status
<1> QED
  BY <1>4, <1>5, <1>7, <1>8, <1>9, <1>10, <1>11, <1>12, RowWriters

(* The queue implements MessageLifecycle: every step of the tick, a seat, a      *)
(* sender, an error or a crash accepts one message, ends a batch for good, or    *)
(* leaves every message's ending as it was.                                  *)
THEOREM ImplementsLifecycle == Spec => RefinesLifecycle
<1>1. Init => Lifecycle!Init
  BY DEF Init, Lifecycle!Init, status, NoRow, Live
<1>2. SafetyInv /\ [Next]_vars => [Lifecycle!Next]_status
  BY LifecycleStep DEF SafetyInv
<1> QED
  BY <1>1, <1>2, Safety, PTL DEF Spec, RefinesLifecycle, Lifecycle!Spec
=============================================================================
