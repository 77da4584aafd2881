------------------------ MODULE CallbackBarrierProofs ------------------------
(***************************************************************************)
(* The invariants of CallbackBarrier, for any number of dispatchers,       *)
(* workers, barriers, members and callbacks.  BarrierInv is inductive.     *)
(* Firing is inlined into three actions, so its effect on each row is      *)
(* proved once (FireTypes, FireEffect), for whatever member and inbox      *)
(* tables the transaction has built by then.                               *)
(***************************************************************************)
EXTENDS CallbackBarrier, TLAPS

MemberTables == [Barriers -> [Keys -> MemberRows]]

InboxTables == [Callbacks -> InboxRows]

(* The records that stand for nothing read and nothing stored. *)
LEMMA BlankRows ==
    /\ NoBarrier \in BarrierRows
    /\ NoMember \in MemberRows
    /\ NoRow \in InboxRows
    /\ NoDispatch \in DispatchReads
    /\ NoArrival \in ArrivalReads
    /\ NoReap \in ReapReads
<1>1. 0 \in 0..MAX_GEN
  BY BarrierConstants
<1>2. NoBarrier \in BarrierRows
  BY <1>1 DEF NoBarrier, BarrierRows, BarrierStates
<1>3. NoMember \in MemberRows
  BY <1>1 DEF NoMember, MemberRows, MemberStates
<1>4. NoRow \in InboxRows
  BY <1>1 DEF NoRow, InboxRows, RowStates
<1>5. NoDispatch \in DispatchReads
  BY <1>1 DEF NoDispatch, DispatchReads
<1>6. NoArrival \in ArrivalReads
  BY <1>1 DEF NoArrival, ArrivalReads
<1>7. NoReap \in ReapReads
  BY <1>1 DEF NoReap, ReapReads
<1> QED
  BY <1>2, <1>3, <1>4, <1>5, <1>6, <1>7

(* A record with one field replaced is of its type, its other fields kept. *)
LEMMA MemberUpdate ==
  ASSUME NEW r \in MemberRows, NEW s \in MemberStates
  PROVE  /\ [r EXCEPT !.state = s] \in MemberRows
         /\ [r EXCEPT !.state = s].state = s
  BY DEF MemberRows

(* The same of an inbox row.                                               *)
LEMMA InboxUpdate ==
  ASSUME NEW r \in InboxRows, NEW s \in RowStates
  PROVE  /\ [r EXCEPT !.status = s] \in InboxRows
         /\ [r EXCEPT !.status = s].status = s
         /\ [r EXCEPT !.status = s].barrier = r.barrier
         /\ [r EXCEPT !.status = s].key = r.key
         /\ [r EXCEPT !.status = s].to = r.to
  BY DEF InboxRows

(* The same of a barrier.                                                  *)
LEMMA BarrierUpdate ==
  ASSUME NEW r \in BarrierRows, NEW s \in BarrierStates
  PROVE  /\ [r EXCEPT !.state = s] \in BarrierRows
         /\ [r EXCEPT !.state = s].state = s
         /\ [r EXCEPT !.state = s].gen = r.gen
         /\ [r EXCEPT !.state = s].label = r.label
  BY DEF BarrierRows

(* An initial state satisfies the invariant. *)
LEMMA InitInv == Init => BarrierInv
<1> SUFFICES ASSUME Init PROVE BarrierInv
  OBVIOUS
<1>1. TypeOK
  <2>1. /\ NoBarrier \in BarrierRows
        /\ NoMember \in MemberRows
        /\ NoRow \in InboxRows
        /\ NoDispatch \in DispatchReads
        /\ NoArrival \in ArrivalReads
        /\ NoReap \in ReapReads
    BY BlankRows
  <2>2. 1 \in 1..MAX_GEN /\ 0 \in 0..MAX_CHANGES
    BY BarrierConstants
  <2>3. owner \in [kind : {"terminal", "mailbox"}, gen : 1..MAX_GEN, alive : BOOLEAN]
    BY <2>2 DEF Init
  <2>4. worker \in [Workers -> [alive : BOOLEAN, gen : 1..MAX_GEN]]
    BY <2>2 DEF Init
  <2> QED
    BY <2>1, <2>2, <2>3, <2>4 DEF Init, TypeOK
<1>2. DispatchReadExists /\ ArrivalReadExists /\ CancelReadExists /\ ReapReadExists
  BY DEF Init, DispatchReadExists, ArrivalReadExists, CancelReadExists,
     ReapReadExists, NoDispatch, NoArrival, NoReap
<1>3. RowsHaveMembers /\ OpenRowsHeld
  BY DEF Init, RowsHaveMembers, OpenRowsHeld, NoRow, IsOpen, NoBarrier
<1>4. NoLaterBarrier /\ NoLaterRow
  <2>1. owner.gen = 1
    BY DEF Init
  <2>2. \A b \in Barriers : barrier[b].gen <= owner.gen
    BY <2>1 DEF Init, NoBarrier
  <2>3. \A d \in Dispatchers : dispatch[d].pc = "create" => dispatch[d].gen <= owner.gen
    BY DEF Init, NoDispatch
  <2>4. NoLaterRow
    BY <2>1 DEF Init, NoLaterRow, NoRow, NoArrival
  <2> QED
    BY <2>2, <2>3, <2>4 DEF NoLaterBarrier
<1>5. AbsentUnfired /\ OneCombinedMessage
  BY DEF Init, AbsentUnfired, OneCombinedMessage, NoBarrier, IsOpen
<1>6. DigestedIsQuoted
  BY DEF Init, DigestedIsQuoted, NoRow
<1>7. CompletedIsClosed /\ OneOpenBarrier
  BY DEF Init, CompletedIsClosed, OneOpenBarrier, NoBarrier, IsOpen
<1> QED
  BY <1>1, <1>2, <1>3, <1>4, <1>5, <1>6, <1>7 DEF BarrierInv

-----------------------------------------------------------------------------
(* Terminalized, Settled and Closed, row by row. *)
LEMMA TerminalizedType ==
  ASSUME NEW mem \in MemberTables, NEW S
  PROVE  Terminalized(mem, S) \in MemberTables
<1> DEFINE T == Terminalized(mem, S)
<1>1. ASSUME NEW c \in Barriers, NEW l \in Keys
      PROVE  [mem[c][l] EXCEPT !.state = "FAILED"] \in MemberRows
  <2>1. mem[c][l] \in MemberRows /\ "FAILED" \in MemberStates
    BY DEF MemberTables, MemberStates
  <2> QED
    BY <2>1, MemberUpdate
<1>2. T = [c \in Barriers |-> [l \in Keys |->
             IF c \in S /\ mem[c][l].state = "AWAITING"
             THEN [mem[c][l] EXCEPT !.state = "FAILED"] ELSE mem[c][l]]]
  BY DEF Terminalized
<1>3. ASSUME NEW c \in Barriers, NEW l \in Keys
      PROVE  (IF c \in S /\ mem[c][l].state = "AWAITING"
              THEN [mem[c][l] EXCEPT !.state = "FAILED"] ELSE mem[c][l]) \in MemberRows
  BY <1>1, <1>3 DEF MemberTables
<1>4. T \in MemberTables
  <2> HIDE DEF T
  <2> QED
    BY <1>2, <1>3 DEF MemberTables
<1> QED
  BY <1>4

(* The states of terminalized members.                                     *)
LEMMA TerminalizedIs ==
  ASSUME NEW mem \in MemberTables, NEW S, NEW b \in Barriers, NEW k \in Keys
  PROVE  Terminalized(mem, S)[b][k].state =
            IF b \in S /\ mem[b][k].state = "AWAITING" THEN "FAILED"
            ELSE mem[b][k].state
<1>1. mem[b][k] \in MemberRows
  BY DEF MemberTables
<1>2. Terminalized(mem, S)[b][k] =
         IF b \in S /\ mem[b][k].state = "AWAITING"
         THEN [mem[b][k] EXCEPT !.state = "FAILED"] ELSE mem[b][k]
  BY DEF Terminalized
<1>3. [mem[b][k] EXCEPT !.state = "FAILED"].state = "FAILED"
  BY <1>1, MemberUpdate DEF MemberStates
<1> QED
  BY <1>2, <1>3

(* The same for the inbox rows: only the status of HELD ones changes. *)
LEMMA SettledType ==
  ASSUME NEW rows \in InboxTables, NEW S, NEW status \in RowStates
  PROVE  Settled(rows, S, status) \in InboxTables
<1>1. ASSUME NEW i \in Callbacks
      PROVE  (IF rows[i].status = "HELD" /\ rows[i].barrier \in S
              THEN [rows[i] EXCEPT !.status = status] ELSE rows[i]) \in InboxRows
  <2>1. rows[i] \in InboxRows
    BY DEF InboxTables
  <2> QED
    BY <2>1, InboxUpdate
<1> QED
  BY <1>1 DEF InboxTables, Settled

(* The statuses of settled rows.                                           *)
LEMMA SettledIs ==
  ASSUME NEW rows \in InboxTables, NEW S, NEW status \in RowStates, NEW m \in Callbacks
  PROVE  /\ Settled(rows, S, status)[m].barrier = rows[m].barrier
         /\ Settled(rows, S, status)[m].key = rows[m].key
         /\ Settled(rows, S, status)[m].to = rows[m].to
         /\ Settled(rows, S, status)[m].status =
               IF rows[m].status = "HELD" /\ rows[m].barrier \in S THEN status
               ELSE rows[m].status
<1>1. rows[m] \in InboxRows
  BY DEF InboxTables
<1>2. Settled(rows, S, status)[m] =
         IF rows[m].status = "HELD" /\ rows[m].barrier \in S
         THEN [rows[m] EXCEPT !.status = status] ELSE rows[m]
  BY DEF Settled
<1>3. /\ [rows[m] EXCEPT !.status = status].status = status
      /\ [rows[m] EXCEPT !.status = status].barrier = rows[m].barrier
      /\ [rows[m] EXCEPT !.status = status].key = rows[m].key
      /\ [rows[m] EXCEPT !.status = status].to = rows[m].to
  BY <1>1, InboxUpdate
<1> QED
  BY <1>2, <1>3

(* Closing barriers changes their states and nothing else. *)
LEMMA ClosedType ==
  ASSUME TypeOK, NEW S, NEW state \in BarrierStates
  PROVE  Closed(S, state) \in [Barriers -> BarrierRows]
<1>1. ASSUME NEW i \in Barriers
      PROVE  (IF i \in S THEN [barrier[i] EXCEPT !.state = state] ELSE barrier[i])
                \in BarrierRows
  <2>1. barrier[i] \in BarrierRows
    BY DEF TypeOK
  <2> QED
    BY <2>1, BarrierUpdate
<1> QED
  BY <1>1 DEF Closed

(* The states of closed barriers; nothing else of them changes.            *)
LEMMA ClosedIs ==
  ASSUME TypeOK, NEW S, NEW state \in BarrierStates, NEW b \in Barriers
  PROVE  /\ Closed(S, state)[b].gen = barrier[b].gen
         /\ Closed(S, state)[b].label = barrier[b].label
         /\ Closed(S, state)[b].state = IF b \in S THEN state ELSE barrier[b].state
<1>1. barrier[b] \in BarrierRows
  BY DEF TypeOK
<1>2. Closed(S, state)[b] =
         IF b \in S THEN [barrier[b] EXCEPT !.state = state] ELSE barrier[b]
  BY DEF Closed
<1>3. /\ [barrier[b] EXCEPT !.state = state].state = state
      /\ [barrier[b] EXCEPT !.state = state].gen = barrier[b].gen
      /\ [barrier[b] EXCEPT !.state = state].label = barrier[b].label
  BY <1>1, BarrierUpdate
<1> QED
  BY <1>2, <1>3

-----------------------------------------------------------------------------
(* Firing, row by row: the barriers of S that are OPEN close, their        *)
(* AWAITING members fail, their HELD rows are digested, and each sends one *)
(* combined message; or they are cancelled when the owner is gone.         *)
Fired(S, b) == b \in S /\ IsOpen(b)

FireStates(S, state) ==
    \A b \in Barriers :
       /\ barrier'[b].gen = barrier[b].gen
       /\ barrier'[b].label = barrier[b].label
       /\ barrier'[b].state = IF Fired(S, b)
                              THEN IF owner.alive THEN state ELSE "CANCELLED"
                              ELSE barrier[b].state

FireMembers(S, mem) ==
    \A b \in Barriers, k \in Keys :
       member'[b][k].state = IF Fired(S, b) /\ mem[b][k].state = "AWAITING"
                             THEN "FAILED" ELSE mem[b][k].state

FireRows(S, rows) ==
    \A m \in Callbacks :
       /\ row'[m].barrier = rows[m].barrier
       /\ row'[m].key = rows[m].key
       /\ row'[m].to = rows[m].to
       /\ row'[m].status = IF rows[m].status = "HELD" /\ rows[m].barrier \in Won(S)
                           THEN IF owner.alive THEN "DIGESTED" ELSE "CANCELLED"
                           ELSE rows[m].status

FireMessages(S, mem, rows) ==
    /\ \A b \in Barriers :
          fires'[b] = IF Fired(S, b) /\ owner.alive THEN fires[b] + 1 ELSE fires[b]
    /\ \A b \in Barriers, m \in Callbacks :
          (m \in digest'[b]) <=>
             IF Fired(S, b) /\ owner.alive
             THEN /\ rows[m].barrier = b
                  /\ rows[m].status # "QUEUED"
                  /\ Terminalized(mem, Won(S))[b][rows[m].key].state # "ABSENT"
             ELSE m \in digest[b]

FireTyped ==
    /\ barrier' \in [Barriers -> BarrierRows]
    /\ member' \in MemberTables
    /\ row' \in InboxTables
    /\ digest' \in [Barriers -> SUBSET Callbacks]
    /\ fires' \in [Barriers -> Nat]

(* What fire_open_barrier does to every table it writes. *)
LEMMA FireEffect ==
  ASSUME TypeOK, NEW S \in SUBSET Barriers,
         NEW state \in {"FIRED_COMPLETE", "FIRED_TIMEOUT"},
         NEW mem \in MemberTables, NEW rows \in InboxTables,
         fire_open_barrier(S, state, mem, rows)
  PROVE  /\ FireTyped
         /\ FireStates(S, state)
         /\ FireMembers(S, mem)
         /\ FireRows(S, rows)
         /\ FireMessages(S, mem, rows)
<1> DEFINE W == Won(S)
           close == IF owner.alive THEN state ELSE "CANCELLED"
           settle == IF owner.alive THEN "DIGESTED" ELSE "CANCELLED"
<1>1. /\ barrier' = Closed(W, close)
      /\ member' = Terminalized(mem, W)
      /\ row' = Settled(rows, W, settle)
  BY DEF fire_open_barrier, close_barrier_owner_gone
<1>2. close \in BarrierStates /\ settle \in RowStates
  BY DEF BarrierStates, RowStates
<1>3. \A b \in Barriers : b \in W <=> Fired(S, b)
  BY DEF Won, Fired
<1>4. ASSUME owner.alive
      PROVE  /\ digest' \in [Barriers -> SUBSET Callbacks]
             /\ fires' \in [Barriers -> Nat]
             /\ FireMessages(S, mem, rows)
  <2>1. /\ digest' = [b \in Barriers |-> IF b \in W
                        THEN Rendered(Terminalized(mem, W), rows, b) ELSE digest[b]]
        /\ fires' = [b \in Barriers |-> IF b \in W THEN fires[b] + 1 ELSE fires[b]]
    BY <1>4 DEF fire_open_barrier
  <2>2. \A b \in Barriers : Rendered(Terminalized(mem, W), rows, b) \in SUBSET Callbacks
    BY DEF Rendered
  <2> HIDE DEF W
  <2>3. digest' \in [Barriers -> SUBSET Callbacks] /\ fires' \in [Barriers -> Nat]
    BY <2>1, <2>2 DEF TypeOK
  <2>4. ASSUME NEW b \in Barriers, NEW m \in Callbacks
        PROVE  (m \in digest'[b]) <=>
                 IF Fired(S, b) /\ owner.alive
                 THEN /\ rows[m].barrier = b
                      /\ rows[m].status # "QUEUED"
                      /\ Terminalized(mem, W)[b][rows[m].key].state # "ABSENT"
                 ELSE m \in digest[b]
    <3>1. CASE Fired(S, b)
      <4>1. digest'[b] = Rendered(Terminalized(mem, W), rows, b)
        BY <1>3, <2>1, <3>1
      <4>2. m \in Rendered(Terminalized(mem, W), rows, b) <=>
               /\ rows[m].barrier = b
               /\ rows[m].status # "QUEUED"
               /\ Terminalized(mem, W)[b][rows[m].key].state # "ABSENT"
        BY DEF Rendered
      <4> QED
        BY <3>1, <4>1, <4>2, <1>4
    <3>2. CASE ~Fired(S, b)
      <4>1. digest'[b] = digest[b]
        BY <1>3, <2>1, <3>2
      <4> QED
        BY <3>2, <4>1
    <3> QED
      BY <3>1, <3>2
  <2>5. \A b \in Barriers :
           fires'[b] = IF Fired(S, b) /\ owner.alive THEN fires[b] + 1 ELSE fires[b]
    BY <1>3, <1>4, <2>1
  <2> QED
    BY <2>3, <2>4, <2>5 DEF W, FireMessages
<1>5. ASSUME ~owner.alive
      PROVE  /\ digest' \in [Barriers -> SUBSET Callbacks]
             /\ fires' \in [Barriers -> Nat]
             /\ FireMessages(S, mem, rows)
  <2>1. digest' = digest /\ fires' = fires
    BY <1>5 DEF fire_open_barrier, close_barrier_owner_gone
  <2> QED
    BY <1>5, <2>1 DEF FireMessages, TypeOK
<1> HIDE DEF W, close, settle
<1>6. FireTyped
  <2>1. Closed(W, close) \in [Barriers -> BarrierRows]
    BY <1>2, ClosedType
  <2>2. Terminalized(mem, W) \in MemberTables
    BY TerminalizedType
  <2>3. Settled(rows, W, settle) \in InboxTables
    BY <1>2, SettledType
  <2> QED
    BY <1>1, <1>4, <1>5, <2>1, <2>2, <2>3 DEF FireTyped
<1>7. FireStates(S, state)
  BY <1>1, <1>2, <1>3, ClosedIs DEF FireStates, close
<1>8. FireMembers(S, mem)
  BY <1>1, <1>3, TerminalizedIs DEF FireMembers
<1>9. FireRows(S, rows)
  BY <1>1, <1>2, SettledIs DEF FireRows, settle, W
<1> QED
  BY <1>4, <1>5, <1>6, <1>7, <1>8, <1>9

-----------------------------------------------------------------------------
(* What DigestedIsQuoted says of one callback, of any inbox table. *)
Quotation(rows, m, b) ==
    /\ rows[m].barrier = b /\ rows[m].status = "DIGESTED" => m \in digest[b]
    /\ m \in digest[b] =>
          /\ rows[m].barrier = b
          /\ \/ rows[m].status = "DIGESTED"
             \/ /\ rows[m].status \in {"REPARENTED", "CANCELLED"}
                /\ ~(owner.alive /\ owner.gen = rows[m].to)

(* The tables a transaction hands to fire_open_barrier: the members of     *)
(* member, possibly in other states, and rows that satisfy what the        *)
(* invariant says of row.                                                  *)
FireReady(S, mem, rows) ==
    /\ \A b \in Barriers, k \in Keys :
          mem[b][k].state = "ABSENT" <=> member[b][k].state = "ABSENT"
    /\ \A m \in Callbacks :
          /\ rows[m].status = "ABSENT" => rows[m].barrier = None
          /\ rows[m].status = "HELD" => rows[m].barrier # None
          /\ rows[m].barrier # None =>
                /\ rows[m].key \in Keys
                /\ barrier[rows[m].barrier].state # "ABSENT"
                /\ member[rows[m].barrier][rows[m].key].state # "ABSENT"
    /\ owner.alive =>
          \A m \in Callbacks, b \in Barriers :
             IsOpen(b) /\ rows[m].barrier = b => rows[m].status \in {"HELD", "QUEUED"}
    /\ \A m \in Callbacks, b \in Barriers : Quotation(rows, m, b)
    /\ \A m \in Callbacks :
          /\ rows[m].to <= owner.gen
          /\ row[m].barrier # None => /\ rows[m].barrier = row[m].barrier
                                     /\ rows[m].to = row[m].to
    /\ \A b \in Barriers : IsOpen(b) /\ b \notin S => ~Complete(mem, b)

(* Neither of the two barrier tables loses a row. *)
RowsStay ==
    /\ \A b \in Barriers : barrier'[b].state = "ABSENT" <=> barrier[b].state = "ABSENT"
    /\ \A b \in Barriers, k \in Keys :
          member'[b][k].state = "ABSENT" <=> member[b][k].state = "ABSENT"

(* What a reap has read stays as it read it, if no other step than a       *)
(* rebind takes the owner to a new generation.                             *)
LEMMA ReapFrame ==
  ASSUME TypeOK, RowsHaveMembers, ReapReadExists, reap' = reap \/ reap' = NoReap,
         \/ owner'.gen = owner.gen
         \/ \A b \in Barriers : ~IsOpen(b)',
         \A m \in Callbacks : row[m].barrier # None =>
            row'[m].barrier = row[m].barrier /\ row'[m].to = row[m].to,
         \A b \in Barriers : barrier[b].state # "ABSENT" =>
            barrier'[b].state # "ABSENT" /\ (IsOpen(b)' => IsOpen(b))
  PROVE  ReapReadExists'
<1>1. CASE reap' = NoReap
  BY <1>1 DEF ReapReadExists, NoReap
<1>2. CASE reap' = reap
  <2>1. reap.rows \subseteq Callbacks /\ reap.barriers \subseteq Barriers
    BY DEF TypeOK, ReapReads
  <2>2. ASSUME NEW m \in reap.rows
        PROVE  /\ row'[m].barrier # None
               /\ row'[m].to = reap.gen
               /\ reap.gen # owner'.gen => barrier'[row'[m].barrier].state # "OPEN"
    <3>1. /\ m \in Callbacks
          /\ row[m].barrier # None /\ row[m].to = reap.gen
          /\ reap.gen # owner.gen => ~IsOpen(row[m].barrier)
      BY <2>1 DEF ReapReadExists
    <3>2. row'[m].barrier = row[m].barrier /\ row'[m].to = row[m].to
      BY <3>1
    <3>3. row[m].barrier \in Barriers /\ barrier[row[m].barrier].state # "ABSENT"
      BY <3>1 DEF RowsHaveMembers, TypeOK, InboxRows
    <3>4. reap.gen # owner'.gen => barrier'[row[m].barrier].state # "OPEN"
      BY <3>1, <3>3 DEF IsOpen
    <3> QED
      BY <3>1, <3>2, <3>4
  <2>3. \A b \in reap.barriers : barrier'[b].state # "ABSENT"
    BY <2>1 DEF ReapReadExists
  <2> QED
    BY <1>2, <2>2, <2>3 DEF ReapReadExists, IsOpen
<1> QED
  BY <1>1, <1>2

(* A transaction that ends by firing keeps the invariant. *)
LEMMA FireKeeps ==
  ASSUME BarrierInv, NEW S \in SUBSET Barriers,
         NEW state \in {"FIRED_COMPLETE", "FIRED_TIMEOUT"},
         NEW mem \in MemberTables, NEW rows \in InboxTables,
         FireReady(S, mem, rows), fire_open_barrier(S, state, mem, rows),
         UNCHANGED <<owner, dispatch, reap>>
  PROVE  /\ FireTyped
         /\ RowsStay
         /\ RowsHaveMembers'
         /\ OpenRowsHeld'
         /\ NoLaterBarrier'
         /\ \A m \in Callbacks : row'[m].to <= owner'.gen
         /\ ReapReadExists'
         /\ AbsentUnfired'
         /\ OneCombinedMessage'
         /\ DigestedIsQuoted'
         /\ CompletedIsClosed'
         /\ OneOpenBarrier'
<1> USE DEF BarrierInv
<1>1. /\ FireTyped
      /\ FireStates(S, state)
      /\ FireMembers(S, mem)
      /\ FireRows(S, rows)
      /\ FireMessages(S, mem, rows)
  BY FireEffect
<1>2. RowsStay
  BY <1>1 DEF RowsStay, FireStates, FireMembers, FireReady, Fired, IsOpen
<1>3. RowsHaveMembers'
  <2> SUFFICES ASSUME NEW m \in Callbacks
               PROVE  /\ row'[m].status = "ABSENT" => row'[m].barrier = None
                      /\ row'[m].status = "HELD" => row'[m].barrier # None
                      /\ row'[m].barrier # None =>
                            /\ row'[m].key \in Keys
                            /\ barrier'[row'[m].barrier].state # "ABSENT"
                            /\ member'[row'[m].barrier][row'[m].key].state # "ABSENT"
    BY DEF RowsHaveMembers
  <2>1. rows[m].barrier \in Barriers \cup {None}
    BY DEF InboxTables, InboxRows
  <2> QED
    BY <1>1, <1>2, <2>1 DEF FireRows, FireReady, RowsStay
<1>4. OpenRowsHeld'
  <2> SUFFICES ASSUME owner'.alive, NEW m \in Callbacks, NEW b \in Barriers,
                      IsOpen(b)', row'[m].barrier = b
               PROVE  row'[m].status \in {"HELD", "QUEUED"}
    BY DEF OpenRowsHeld
  <2>1. IsOpen(b) /\ ~Fired(S, b)
    BY <1>1 DEF FireStates, IsOpen, Fired
  <2>2. b \notin Won(S)
    BY <2>1 DEF Won, Fired
  <2> QED
    BY <1>1, <2>1, <2>2 DEF FireRows, FireReady
<1>5. NoLaterBarrier'
  BY <1>1 DEF NoLaterBarrier, FireStates
<1>6. AbsentUnfired' /\ OneCombinedMessage'
  <2> SUFFICES ASSUME NEW b \in Barriers
               PROVE  /\ barrier'[b].state = "ABSENT" => fires'[b] = 0
                      /\ fires'[b] <= 1
                      /\ barrier'[b].state = "OPEN" => fires'[b] = 0
                      /\ barrier'[b].state \in {"FIRED_COMPLETE", "FIRED_TIMEOUT"}
                            => fires'[b] = 1
    BY DEF AbsentUnfired, OneCombinedMessage, IsOpen
  <2>1. fires[b] \in Nat
    BY DEF TypeOK
  <2>2. CASE Fired(S, b)
    <3>1. fires[b] = 0
      BY <2>2 DEF Fired, OneCombinedMessage
    <3> QED
      BY <1>1, <2>2, <3>1 DEF FireStates, FireMessages
  <2>3. CASE ~Fired(S, b)
    BY <1>1, <2>1, <2>3 DEF FireStates, FireMessages, AbsentUnfired, OneCombinedMessage,
       IsOpen
  <2> QED
    BY <2>2, <2>3
<1>7. DigestedIsQuoted'
  <2> SUFFICES ASSUME NEW m \in Callbacks, NEW b \in Barriers
               PROVE  /\ row'[m].barrier = b /\ row'[m].status = "DIGESTED" =>
                            m \in digest'[b]
                      /\ m \in digest'[b] =>
                            /\ row'[m].barrier = b
                            /\ \/ row'[m].status = "DIGESTED"
                               \/ /\ row'[m].status \in {"REPARENTED", "CANCELLED"}
                                  /\ ~(owner'.alive /\ owner'.gen = row'[m].to)
    BY DEF DigestedIsQuoted, Departed
  <2>1. None \notin Barriers
    BY BarrierConstants
  <2>2. CASE Fired(S, b) /\ owner.alive
    <3>1. b \in Won(S)
      BY <2>2 DEF Won, Fired
    <3>2. m \in digest'[b] <=> /\ rows[m].barrier = b
                               /\ rows[m].status # "QUEUED"
                               /\ Terminalized(mem, Won(S))[b][rows[m].key].state # "ABSENT"
      BY <1>1, <2>2 DEF FireMessages
    <3>3. CASE rows[m].barrier = b
      <4>1. rows[m].key \in Keys /\ mem[b][rows[m].key].state # "ABSENT"
        BY <3>3, <2>1 DEF FireReady
      <4>2. Terminalized(mem, Won(S))[b][rows[m].key].state # "ABSENT"
        BY <4>1, TerminalizedIs
      <4>3. rows[m].status \in {"HELD", "QUEUED"}
        BY <2>2, <3>3 DEF FireReady, Fired
      <4>4. row'[m].barrier = b /\ (row'[m].status = "DIGESTED" <=> rows[m].status = "HELD")
        BY <1>1, <2>2, <3>1, <3>3, <4>3 DEF FireRows
      <4> QED
        BY <3>2, <3>3, <4>2, <4>3, <4>4
    <3>4. CASE rows[m].barrier # b
      BY <1>1, <3>2, <3>4 DEF FireRows
    <3> QED
      BY <3>3, <3>4
  <2>3. CASE ~(Fired(S, b) /\ owner.alive)
    <3>1. m \in digest'[b] <=> m \in digest[b]
      BY <1>1, <2>3 DEF FireMessages
    <3>2. Quotation(rows, m, b)
      BY DEF FireReady
    <3>3. rows[m].barrier = b =>
             /\ row'[m].status = "DIGESTED" <=> rows[m].status = "DIGESTED"
             /\ rows[m].status # "HELD" => row'[m].status = rows[m].status
      BY <1>1, <2>3 DEF FireRows, Won, Fired
    <3>4. row'[m].barrier = rows[m].barrier /\ row'[m].to = rows[m].to
      BY <1>1 DEF FireRows
    <3> QED
      BY <3>1, <3>2, <3>3, <3>4 DEF Quotation
  <2> QED
    BY <2>2, <2>3
<1>8. CompletedIsClosed'
  <2> SUFFICES ASSUME NEW b \in Barriers, IsOpen(b)', Complete(member, b)'
               PROVE  FALSE
    BY DEF CompletedIsClosed
  <2>1. IsOpen(b) /\ ~Fired(S, b)
    BY <1>1 DEF FireStates, IsOpen, Fired
  <2>2. \A k \in Keys : member'[b][k].state = mem[b][k].state
    BY <1>1, <2>1 DEF FireMembers
  <2>3. Complete(mem, b)
    BY <2>2 DEF Complete
  <2> QED
    BY <2>1, <2>3 DEF FireReady, Fired
<1>9. OneOpenBarrier'
  <2> SUFFICES ASSUME NEW b \in Barriers, NEW c \in Barriers,
                      IsOpen(b)', IsOpen(c)', barrier'[b].gen = barrier'[c].gen,
                      barrier'[b].label = barrier'[c].label
               PROVE  b = c
    BY DEF OneOpenBarrier
  <2>1. IsOpen(b) /\ IsOpen(c)
    BY <1>1 DEF FireStates, IsOpen, Fired
  <2> QED
    BY <1>1, <2>1 DEF FireStates, OneOpenBarrier
<1>10. \A m \in Callbacks : row'[m].to <= owner'.gen
  BY <1>1 DEF FireRows, FireReady
<1>11. ReapReadExists'
  <2>1. \A m \in Callbacks : row[m].barrier # None =>
           row'[m].barrier = row[m].barrier /\ row'[m].to = row[m].to
    BY <1>1 DEF FireRows, FireReady
  <2>2. \A b \in Barriers : barrier[b].state # "ABSENT" =>
           barrier'[b].state # "ABSENT" /\ (IsOpen(b)' => IsOpen(b))
    BY <1>1 DEF FireStates, Fired, IsOpen
  <2> QED
    BY <2>1, <2>2, ReapFrame
<1> QED
  BY <1>1, <1>2, <1>3, <1>4, <1>5, <1>6, <1>7, <1>8, <1>9, <1>10, <1>11

-----------------------------------------------------------------------------
(* A step that fires nothing: no row of the barrier tables goes away, an   *)
(* OPEN barrier can only be closed, no barrier becomes complete, and a     *)
(* callback's row is entered once and keeps its member.                    *)
QuietBarriers ==
    \A b \in Barriers :
       /\ barrier'[b].gen = barrier[b].gen
       /\ barrier'[b].label = barrier[b].label
       /\ \/ barrier'[b].state = barrier[b].state
          \/ /\ barrier[b].state # "ABSENT"
             /\ barrier'[b].state \in {"CANCELLED", "DIGESTED_REBIND"}

QuietMembers ==
    /\ \A b \in Barriers, k \in Keys :
          member'[b][k].state = "ABSENT" => member[b][k].state = "ABSENT"
    /\ \A b \in Barriers : IsOpen(b)' /\ Complete(member, b)' => Complete(member, b)

QuietRow(m) ==
    \/ /\ row'[m].barrier = row[m].barrier
       /\ row'[m].key = row[m].key
       /\ row'[m].to = row[m].to
       /\ row'[m].status = "ABSENT" <=> row[m].status = "ABSENT"
       /\ row'[m].status = "HELD" => row[m].status = "HELD"
       /\ row'[m].status = "DIGESTED" => row[m].status = "DIGESTED"
       /\ row[m].status \in {"DIGESTED", "REPARENTED", "CANCELLED"} =>
             \/ row'[m].status = row[m].status
             \/ /\ row'[m].status \in {"REPARENTED", "CANCELLED"}
                /\ ~(owner'.alive /\ owner'.gen = row[m].to)
    \/ /\ row[m].status = "ABSENT"
       /\ row'[m].status \in {"PENDING", "QUEUED"}
       /\ row'[m].to \in 0..owner.gen
       /\ \/ row'[m].barrier = None
          \/ /\ row'[m].barrier \in Barriers
             /\ row'[m].key \in Keys
             /\ barrier[row'[m].barrier].state # "ABSENT"
             /\ member[row'[m].barrier][row'[m].key].state # "ABSENT"

QuietHeld ==
    owner'.alive =>
       \A m \in Callbacks, b \in Barriers :
          IsOpen(b)' /\ row'[m].barrier = b =>
             \/ row'[m].status \in {"HELD", "QUEUED"}
             \/ /\ owner.alive
                /\ row'[m].barrier = row[m].barrier
                /\ row'[m].status = row[m].status

(* The owner stays, goes, or is succeeded once its barriers are closed. *)
QuietOwner ==
    \/ owner' = owner
    \/ owner'.gen = owner.gen /\ ~owner'.alive
    \/ owner'.gen = owner.gen + 1 /\ \A b \in Barriers : ~IsOpen(b)'

(* A step that fires nothing keeps what the invariant says of the store. *)
LEMMA QuietKeeps ==
  ASSUME BarrierInv, QuietBarriers, QuietMembers, QuietHeld, QuietOwner,
         \A m \in Callbacks : QuietRow(m),
         UNCHANGED <<digest, fires>>
  PROVE  /\ RowsHaveMembers'
         /\ OpenRowsHeld'
         /\ \A m \in Callbacks : row'[m].to <= owner'.gen
         /\ reap' = reap \/ reap' = NoReap => ReapReadExists'
         /\ AbsentUnfired'
         /\ OneCombinedMessage'
         /\ DigestedIsQuoted'
         /\ CompletedIsClosed'
         /\ OneOpenBarrier'
<1> USE DEF BarrierInv
<1>1. \A b \in Barriers : IsOpen(b)' => IsOpen(b)
  BY DEF QuietBarriers, IsOpen
<1>2. RowsHaveMembers'
  <2> SUFFICES ASSUME NEW m \in Callbacks
               PROVE  /\ row'[m].status = "ABSENT" => row'[m].barrier = None
                      /\ row'[m].status = "HELD" => row'[m].barrier # None
                      /\ row'[m].barrier # None =>
                            /\ row'[m].key \in Keys
                            /\ barrier'[row'[m].barrier].state # "ABSENT"
                            /\ member'[row'[m].barrier][row'[m].key].state # "ABSENT"
    BY DEF RowsHaveMembers
  <2>1. row[m].barrier \in Barriers \cup {None}
    BY DEF TypeOK, InboxRows
  <2>2. QuietRow(m)
    OBVIOUS
  <2> QED
    BY <2>1, <2>2 DEF QuietRow, QuietBarriers, QuietMembers, RowsHaveMembers
<1>3. OpenRowsHeld'
  <2> SUFFICES ASSUME owner'.alive, NEW m \in Callbacks, NEW b \in Barriers,
                      IsOpen(b)', row'[m].barrier = b
               PROVE  row'[m].status \in {"HELD", "QUEUED"}
    BY DEF OpenRowsHeld
  <2> QED
    BY <1>1 DEF QuietHeld, OpenRowsHeld
<1>4. AbsentUnfired'
  BY DEF AbsentUnfired, QuietBarriers
<1>5. OneCombinedMessage'
  BY <1>1 DEF OneCombinedMessage, QuietBarriers, IsOpen
<1>6. DigestedIsQuoted'
  <2> SUFFICES ASSUME NEW m \in Callbacks, NEW b \in Barriers
               PROVE  /\ row'[m].barrier = b /\ row'[m].status = "DIGESTED" =>
                            m \in digest[b]
                      /\ m \in digest[b] =>
                            /\ row'[m].barrier = b
                            /\ \/ row'[m].status = "DIGESTED"
                               \/ /\ row'[m].status \in {"REPARENTED", "CANCELLED"}
                                  /\ ~(owner'.alive /\ owner'.gen = row'[m].to)
    BY DEF DigestedIsQuoted, Departed
  <2>1. QuietRow(m)
    OBVIOUS
  <2>2. Quotation(row, m, b)
    BY DEF DigestedIsQuoted, Departed, Quotation
  <2>3. ~(owner.alive /\ owner.gen = row[m].to) =>
           ~(owner'.alive /\ owner'.gen = row[m].to)
    <3>1. row[m].to \in Nat /\ owner.gen \in Nat /\ row[m].to <= owner.gen
      BY DEF TypeOK, InboxRows, NoLaterRow
    <3> QED
      BY <3>1 DEF QuietOwner
  <2> QED
    BY <2>1, <2>2, <2>3 DEF QuietRow, Quotation
<1>7. CompletedIsClosed'
  BY <1>1 DEF CompletedIsClosed, QuietMembers
<1>8. OneOpenBarrier'
  <2> SUFFICES ASSUME NEW b \in Barriers, NEW c \in Barriers,
                      IsOpen(b)', IsOpen(c)', barrier'[b].gen = barrier'[c].gen,
                      barrier'[b].label = barrier'[c].label
               PROVE  b = c
    BY DEF OneOpenBarrier
  <2> QED
    BY <1>1 DEF QuietBarriers, OneOpenBarrier
<1>9. ASSUME NEW m \in Callbacks
      PROVE  row'[m].to <= owner'.gen
  <2>1. row[m].to \in Nat /\ owner.gen \in Nat /\ row[m].to <= owner.gen
    BY DEF TypeOK, InboxRows, NoLaterRow
  <2>2. QuietRow(m)
    OBVIOUS
  <2>3. row'[m].to = row[m].to \/ row'[m].to \in 0..owner.gen
    BY <2>2 DEF QuietRow
  <2>4. owner'.gen = owner.gen \/ owner'.gen = owner.gen + 1
    BY DEF QuietOwner
  <2> QED
    BY <2>1, <2>3, <2>4
<1>10. ASSUME reap' = reap \/ reap' = NoReap
       PROVE  ReapReadExists'
  <2>1. owner'.gen = owner.gen \/ \A b \in Barriers : ~IsOpen(b)'
    BY DEF QuietOwner
  <2>2. ASSUME NEW m \in Callbacks, row[m].barrier # None
        PROVE  row'[m].barrier = row[m].barrier /\ row'[m].to = row[m].to
    <3>1. QuietRow(m) /\ row[m].status # "ABSENT"
      BY <2>2 DEF RowsHaveMembers
    <3> QED
      BY <3>1 DEF QuietRow
  <2>3. \A b \in Barriers : barrier[b].state # "ABSENT" =>
           barrier'[b].state # "ABSENT" /\ (IsOpen(b)' => IsOpen(b))
    BY <1>1 DEF QuietBarriers
  <2> QED
    BY <1>10, <2>1, <2>2, <2>3, ReapFrame
<1> QED
  BY <1>2, <1>3, <1>4, <1>5, <1>6, <1>7, <1>8, <1>9, <1>10

(* What a process has read still exists after a step of another one. *)
LEMMA DispatchFrame ==
  ASSUME TypeOK, DispatchReadExists, dispatch' = dispatch,
         \A b \in Barriers : barrier'[b].state = "ABSENT" => barrier[b].state = "ABSENT"
  PROVE  DispatchReadExists'
  BY DEF DispatchReadExists

(* The same of a callback.                                                 *)
LEMMA ArrivalFrame ==
  ASSUME TypeOK, ArrivalReadExists, arrival' = arrival,
         \A b \in Barriers : barrier'[b].state = "ABSENT" => barrier[b].state = "ABSENT",
         \A b \in Barriers, k \in Keys :
            member'[b][k].state = "ABSENT" => member[b][k].state = "ABSENT",
         \A m \in Callbacks : row[m].status = "ABSENT" => row'[m].status = "ABSENT"
  PROVE  ArrivalReadExists'
  BY DEF ArrivalReadExists

(* The same of a cancel.                                                   *)
LEMMA CancelFrame ==
  ASSUME TypeOK, CancelReadExists, cancel' = cancel,
         \A b \in Barriers : barrier'[b].state = "ABSENT" => barrier[b].state = "ABSENT"
  PROVE  CancelReadExists'
  BY DEF CancelReadExists, TypeOK

(* A step that leaves the store alone is quiet. *)
LEMMA StoreFrame ==
  ASSUME BarrierInv, UNCHANGED store
  PROVE  /\ QuietBarriers /\ QuietMembers /\ QuietHeld /\ QuietOwner
         /\ \A m \in Callbacks : QuietRow(m)
         /\ RowsHaveMembers'
         /\ OpenRowsHeld'
         /\ \A m \in Callbacks : row'[m].to <= owner'.gen
         /\ reap' = reap \/ reap' = NoReap => ReapReadExists'
         /\ AbsentUnfired'
         /\ OneCombinedMessage'
         /\ DigestedIsQuoted'
         /\ CompletedIsClosed'
         /\ OneOpenBarrier'
<1>1. UNCHANGED <<owner, worker, barrier, member, row, digest, fires>>
  BY DEF store
<1>2. QuietBarriers
  BY <1>1 DEF QuietBarriers
<1>3. QuietMembers
  BY <1>1 DEF QuietMembers, Complete
<1>4. QuietHeld
  BY <1>1 DEF QuietHeld
<1>5. (\A m \in Callbacks : QuietRow(m)) /\ QuietOwner
  BY <1>1 DEF QuietRow, QuietOwner
<1> QED
  BY <1>1, <1>2, <1>3, <1>4, <1>5, QuietKeeps

-----------------------------------------------------------------------------
(* Dispatching.                                                            *)

(* What a dispatcher reads is of its type. *)
LEMMA ReadingType ==
  ASSUME NEW pc \in {"create", "rearm", "insert"}, NEW w \in Workers,
         NEW gen \in 0..MAX_GEN, NEW label \in Labels,
         NEW b \in Barriers \cup {None}, NEW key \in Keys
  PROVE  Reading(pc, w, gen, label, b, key) \in DispatchReads
  BY DEF Reading, DispatchReads

(* Reading for a dispatch changes what the dispatcher holds only.          *)
LEMMA DispatchReadKeeps ==
  ASSUME BarrierInv, NEW d \in Dispatchers, DispatchRead(d)
  PROVE  BarrierInv'
<1> USE DEF BarrierInv
<1>1. /\ UNCHANGED store
      /\ UNCHANGED <<arrival, cancel, reap, changes>>
  BY DEF DispatchRead
<1>2. PICK w \in Workers, label \in Labels, key \in Keys :
         \/ dispatch' = [dispatch EXCEPT ![d] =
                            Reading("create", w, owner.gen, label, None, key)]
         \/ \E b \in OpenFor(owner.gen, label) :
               dispatch' = [dispatch EXCEPT ![d] =
                  Reading(IF member[b][key].state = "FAILED" THEN "rearm" ELSE "insert",
                          w, worker[w].gen, label, b, key)]
  BY DEF DispatchRead
<1>3. owner.gen \in 0..MAX_GEN /\ worker[w].gen \in 0..MAX_GEN
  BY BarrierConstants DEF TypeOK
<1>4. PICK r \in DispatchReads :
         /\ dispatch' = [dispatch EXCEPT ![d] = r]
         /\ r.worker \in Workers /\ r.key \in Keys /\ r.label \in Labels
         /\ \/ r.pc = "create" /\ r.gen = owner.gen
            \/ /\ r.pc \in {"rearm", "insert"}
               /\ r.barrier \in Barriers
               /\ barrier[r.barrier].state # "ABSENT"
  <2>1. CASE dispatch' = [dispatch EXCEPT ![d] =
                            Reading("create", w, owner.gen, label, None, key)]
    <3>1. Reading("create", w, owner.gen, label, None, key) \in DispatchReads
      BY <1>3, ReadingType
    <3> QED
      BY <2>1, <3>1 DEF Reading
  <2>2. CASE \E b \in OpenFor(owner.gen, label) :
               dispatch' = [dispatch EXCEPT ![d] =
                  Reading(IF member[b][key].state = "FAILED" THEN "rearm" ELSE "insert",
                          w, worker[w].gen, label, b, key)]
    <3>1. PICK b \in OpenFor(owner.gen, label), pc \in {"rearm", "insert"} :
             dispatch' = [dispatch EXCEPT ![d] =
                            Reading(pc, w, worker[w].gen, label, b, key)]
      BY <2>2
    <3>2. b \in Barriers /\ barrier[b].state # "ABSENT"
      BY DEF OpenFor, IsOpen
    <3>3. Reading(pc, w, worker[w].gen, label, b, key) \in DispatchReads
      BY <1>3, <3>2, ReadingType
    <3> QED
      BY <3>1, <3>2, <3>3 DEF Reading
  <2> QED
    BY <1>2, <2>1, <2>2
<1>5. TypeOK'
  BY <1>1, <1>4 DEF TypeOK, store
<1>6. DispatchReadExists'
  <2> SUFFICES ASSUME NEW e \in Dispatchers
               PROVE  /\ dispatch'[e].pc # "idle" =>
                            dispatch'[e].worker \in Workers /\ dispatch'[e].key \in Keys
                      /\ dispatch'[e].pc \in {"rearm", "insert"} =>
                            /\ dispatch'[e].barrier \in Barriers
                            /\ barrier'[dispatch'[e].barrier].state # "ABSENT"
                      /\ dispatch'[e].pc = "create" => dispatch'[e].label \in Labels
    BY DEF DispatchReadExists
  <2>1. barrier' = barrier
    BY <1>1 DEF store
  <2>2. CASE e = d
    <3>1. dispatch'[e] = r
      BY <1>4, <2>2 DEF TypeOK
    <3> QED
      BY <1>4, <2>1, <3>1
  <2>3. CASE e # d
    <3>1. dispatch'[e] = dispatch[e]
      BY <1>4, <2>3 DEF TypeOK
    <3> QED
      BY <2>1, <3>1 DEF DispatchReadExists
  <2> QED
    BY <2>2, <2>3
<1>7. ArrivalReadExists' /\ CancelReadExists' /\ NoLaterRow'
  BY <1>1 DEF ArrivalReadExists, CancelReadExists, NoLaterRow, store
<1>8. NoLaterBarrier'
  <2>1. barrier' = barrier /\ owner' = owner
    BY <1>1 DEF store
  <2>2. ASSUME NEW e \in Dispatchers, dispatch'[e].pc = "create"
        PROVE  dispatch'[e].gen <= owner'.gen
    <3>1. CASE e = d
      <4>1. dispatch'[e] = r
        BY <1>4, <3>1 DEF TypeOK
      <4> QED
        BY <1>3, <1>4, <2>1, <2>2, <4>1 DEF TypeOK
    <3>2. CASE e # d
      <4>1. dispatch'[e] = dispatch[e]
        BY <1>4, <3>2 DEF TypeOK
      <4> QED
        BY <2>1, <2>2, <4>1 DEF NoLaterBarrier
    <3> QED
      BY <3>1, <3>2
  <2> QED
    BY <2>1, <2>2 DEF NoLaterBarrier
<1> QED
  BY <1>1, <1>5, <1>6, <1>7, <1>8, StoreFrame

(* A dispatcher that is done has read nothing. *)
LEMMA DispatchDone ==
  ASSUME TypeOK, DispatchReadExists, NoLaterBarrier, NEW d \in Dispatchers,
         dispatch' = [dispatch EXCEPT ![d] = NoDispatch], owner' = owner,
         \A b \in Barriers : barrier'[b].state = "ABSENT" => barrier[b].state = "ABSENT"
  PROVE  /\ dispatch' \in [Dispatchers -> DispatchReads]
         /\ DispatchReadExists'
         /\ \A e \in Dispatchers : dispatch'[e].pc = "create" =>
               dispatch'[e].gen <= owner'.gen
<1>1. dispatch' \in [Dispatchers -> DispatchReads]
  BY BlankRows DEF TypeOK
<1>2. \A e \in Dispatchers : dispatch'[e] = IF e = d THEN NoDispatch ELSE dispatch[e]
  BY DEF TypeOK
<1>3. NoDispatch.pc = "idle"
  BY DEF NoDispatch
<1>4. DispatchReadExists'
  BY <1>2, <1>3 DEF DispatchReadExists
<1> QED
  BY <1>1, <1>2, <1>3, <1>4 DEF NoLaterBarrier

(* A dispatch that is rolled back leaves the store alone.                  *)
LEMMA DispatchEndsKeeps ==
  ASSUME BarrierInv, NEW d \in Dispatchers, DispatchEnds(d)
  PROVE  BarrierInv'
<1> USE DEF BarrierInv
<1>1. /\ UNCHANGED store
      /\ UNCHANGED <<owner, worker, barrier, member, row, digest, fires>>
      /\ UNCHANGED <<arrival, cancel, reap, changes>>
      /\ dispatch' = [dispatch EXCEPT ![d] = NoDispatch]
  BY DEF DispatchEnds, store
<1>2. /\ dispatch' \in [Dispatchers -> DispatchReads]
      /\ DispatchReadExists'
      /\ \A e \in Dispatchers : dispatch'[e].pc = "create" =>
            dispatch'[e].gen <= owner'.gen
  BY <1>1, DispatchDone
<1>3. TypeOK'
  BY <1>1, <1>2 DEF TypeOK
<1>4. ArrivalReadExists' /\ CancelReadExists' /\ NoLaterRow'
  BY <1>1 DEF ArrivalReadExists, CancelReadExists, NoLaterRow
<1>5. NoLaterBarrier'
  BY <1>1, <1>2 DEF NoLaterBarrier
<1> QED
  BY <1>1, <1>2, <1>3, <1>4, <1>5, StoreFrame

(* The member a dispatch arms is AWAITING, so its barrier is not complete. *)
LEMMA ArmedMember ==
  ASSUME TypeOK, NEW b \in Barriers, NEW key \in Keys, NEW w \in Workers,
         NEW gen \in 0..MAX_GEN,
         member' = [member EXCEPT ![b][key] = Armed(w, gen)]
  PROVE  /\ member' \in MemberTables
         /\ \A c \in Barriers, k \in Keys :
               member'[c][k].state = IF c = b /\ k = key THEN "AWAITING"
                                     ELSE member[c][k].state
         /\ \A c \in Barriers : Complete(member, c)' => c # b /\ Complete(member, c)
<1>1. Armed(w, gen) \in MemberRows /\ Armed(w, gen).state = "AWAITING"
  BY DEF Armed, MemberRows, MemberStates
<1> HIDE DEF Armed
<1>2. member' \in MemberTables
  BY <1>1 DEF TypeOK, MemberTables
<1>3. \A c \in Barriers, k \in Keys :
         member'[c][k] = IF c = b /\ k = key THEN Armed(w, gen) ELSE member[c][k]
  BY DEF TypeOK
<1>4. \A c \in Barriers, k \in Keys :
         member'[c][k].state = IF c = b /\ k = key THEN "AWAITING" ELSE member[c][k].state
  BY <1>1, <1>3
<1>5. ASSUME NEW c \in Barriers, Complete(member, c)'
      PROVE  c # b /\ Complete(member, c)
  <2>1. c # b
    BY <1>4, <1>5 DEF Complete
  <2>2. \A k \in Keys : member'[c][k].state = member[c][k].state
    BY <1>4, <2>1
  <2> QED
    BY <1>5, <2>1, <2>2 DEF Complete
<1> QED
  BY <1>2, <1>4, <1>5

(* Arming a member of a barrier that was read: re-armed or inserted. *)
LEMMA DispatchArmKeeps ==
  ASSUME BarrierInv, NEW d \in Dispatchers, DispatchRearm(d) \/ DispatchInsert(d)
  PROVE  BarrierInv'
<1> USE DEF BarrierInv
<1>1. PICK b \in Barriers, key \in Keys, w \in Workers, gen \in 0..MAX_GEN :
         member' = [member EXCEPT ![b][key] = Armed(w, gen)]
  <2>1. /\ dispatch[d].pc \in {"rearm", "insert"}
        /\ member' = [member EXCEPT ![dispatch[d].barrier][dispatch[d].key] =
                        Armed(dispatch[d].worker, dispatch[d].gen)]
    BY DEF DispatchRearm, DispatchInsert
  <2>2. /\ dispatch[d].barrier \in Barriers /\ dispatch[d].key \in Keys
        /\ dispatch[d].worker \in Workers
    BY <2>1 DEF DispatchReadExists
  <2>3. dispatch[d].gen \in 0..MAX_GEN
    BY DEF TypeOK, DispatchReads
  <2> QED
    BY <2>1, <2>2, <2>3
<1>2. /\ UNCHANGED <<owner, worker, barrier, row, digest, fires>>
      /\ UNCHANGED <<arrival, cancel, reap, changes>>
      /\ dispatch' = [dispatch EXCEPT ![d] = NoDispatch]
  BY DEF DispatchRearm, DispatchInsert
<1>3. /\ member' \in MemberTables
      /\ \A c \in Barriers, k \in Keys :
            member'[c][k].state = IF c = b /\ k = key THEN "AWAITING"
                                  ELSE member[c][k].state
      /\ \A c \in Barriers : Complete(member, c)' => c # b /\ Complete(member, c)
  BY <1>1, ArmedMember
<1>4. /\ dispatch' \in [Dispatchers -> DispatchReads]
      /\ DispatchReadExists'
      /\ \A e \in Dispatchers : dispatch'[e].pc = "create" =>
            dispatch'[e].gen <= owner'.gen
  BY <1>2, DispatchDone
<1>5. TypeOK'
  BY <1>2, <1>3, <1>4 DEF TypeOK, MemberTables
<1>6. ArrivalReadExists'
  BY <1>2, <1>3, ArrivalFrame
<1>7. CancelReadExists' /\ NoLaterRow'
  BY <1>2 DEF CancelReadExists, NoLaterRow
<1>8. NoLaterBarrier'
  BY <1>2, <1>4 DEF NoLaterBarrier
<1>9. QuietBarriers /\ QuietHeld /\ QuietOwner /\ \A m \in Callbacks : QuietRow(m)
  BY <1>2 DEF QuietBarriers, QuietHeld, QuietOwner, QuietRow
<1>10. QuietMembers
  BY <1>3 DEF QuietMembers
<1> QED
  BY <1>2, <1>4, <1>5, <1>6, <1>7, <1>8, <1>9, <1>10, QuietKeeps

(* A dispatch that read no OPEN barrier joins a rival's, or opens one that *)
(* has no rows yet.                                                        *)
LEMMA DispatchCreateKeeps ==
  ASSUME BarrierInv, NEW d \in Dispatchers, DispatchCreate(d)
  PROVE  BarrierInv'
<1> USE DEF BarrierInv
<1>1. /\ dispatch[d].pc = "create"
      /\ UNCHANGED <<owner, worker, row, digest, fires>>
      /\ UNCHANGED <<arrival, cancel, reap, changes>>
      /\ dispatch' = [dispatch EXCEPT ![d] = NoDispatch]
  BY DEF DispatchCreate
<1>2. PICK b \in BarrierFor(dispatch[d].gen, dispatch[d].label) :
         /\ barrier' = [barrier EXCEPT ![b] =
               IF IsOpen(b) THEN barrier[b]
               ELSE [state |-> "OPEN", gen |-> dispatch[d].gen,
                     label |-> dispatch[d].label]]
         /\ member' = [member EXCEPT ![b][dispatch[d].key] =
               Armed(dispatch[d].worker, worker[dispatch[d].worker].gen)]
  BY DEF DispatchCreate
<1>3. /\ dispatch[d].worker \in Workers /\ dispatch[d].key \in Keys
      /\ dispatch[d].label \in Labels /\ dispatch[d].gen \in 0..MAX_GEN
      /\ dispatch[d].gen <= owner.gen
  BY <1>1 DEF DispatchReadExists, NoLaterBarrier, TypeOK, DispatchReads
<1>4. b \in Barriers
  BY DEF BarrierFor, OpenFor, NextIds
<1>5. PICK key \in Keys, w \in Workers, gen \in 0..MAX_GEN :
         member' = [member EXCEPT ![b][key] = Armed(w, gen)]
  <2>1. worker[dispatch[d].worker].gen \in 0..MAX_GEN
    BY <1>3, BarrierConstants DEF TypeOK
  <2> QED
    BY <1>2, <1>3, <2>1
<1>6. /\ member' \in MemberTables
      /\ \A c \in Barriers, k \in Keys :
            member'[c][k].state = IF c = b /\ k = key THEN "AWAITING"
                                  ELSE member[c][k].state
      /\ \A c \in Barriers : Complete(member, c)' => c # b /\ Complete(member, c)
  BY <1>4, <1>5, ArmedMember
<1>7. PICK r \in BarrierRows :
         /\ barrier' = [barrier EXCEPT ![b] = r]
         /\ r.state = "OPEN"
         /\ \/ r = barrier[b]
            \/ /\ r.gen = dispatch[d].gen /\ r.label = dispatch[d].label
               /\ b \in NextIds /\ OpenFor(dispatch[d].gen, dispatch[d].label) = {}
  <2>1. CASE IsOpen(b)
    <3>1. barrier[b] \in BarrierRows /\ barrier[b].state = "OPEN"
      BY <1>4, <2>1 DEF TypeOK, IsOpen
    <3> QED
      BY <1>2, <2>1, <3>1
  <2>2. CASE ~IsOpen(b)
    <3>1. [state |-> "OPEN", gen |-> dispatch[d].gen, label |-> dispatch[d].label]
             \in BarrierRows
      BY <1>3 DEF BarrierRows, BarrierStates
    <3>2. b \in NextIds /\ OpenFor(dispatch[d].gen, dispatch[d].label) = {}
      BY <2>2 DEF BarrierFor, OpenFor
    <3> QED
      BY <1>2, <2>2, <3>1, <3>2
  <2> QED
    BY <2>1, <2>2
<1>8. \A c \in Barriers : barrier'[c] = IF c = b THEN r ELSE barrier[c]
  BY <1>4, <1>7 DEF TypeOK
<1>9. \A c \in Barriers : barrier'[c].state = "ABSENT" => barrier[c].state = "ABSENT"
  BY <1>7, <1>8
<1>10. /\ dispatch' \in [Dispatchers -> DispatchReads]
       /\ DispatchReadExists'
       /\ \A e \in Dispatchers : dispatch'[e].pc = "create" =>
             dispatch'[e].gen <= owner'.gen
  BY <1>1, <1>9, DispatchDone
<1>11. TypeOK'
  <2>1. barrier' \in [Barriers -> BarrierRows]
    BY <1>4, <1>7 DEF TypeOK
  <2> QED
    BY <1>1, <1>6, <1>10, <2>1 DEF TypeOK, MemberTables
<1>12. ArrivalReadExists'
  <2>1. \A c \in Barriers, k \in Keys :
           member'[c][k].state = "ABSENT" => member[c][k].state = "ABSENT"
    BY <1>6
  <2>2. arrival' = arrival /\ row' = row
    BY <1>1
  <2> QED
    BY <1>9, <2>1, <2>2, ArrivalFrame
<1>13. CancelReadExists'
  BY <1>1, <1>9, CancelFrame
<1>14. NoLaterBarrier' /\ NoLaterRow'
  <2>1. \A c \in Barriers : barrier'[c].gen <= owner'.gen
    BY <1>1, <1>3, <1>7, <1>8 DEF NoLaterBarrier
  <2> QED
    BY <1>1, <1>10, <2>1 DEF NoLaterBarrier, NoLaterRow
<1>15. CASE r = barrier[b]
  <2>1. barrier' = barrier
    BY <1>7, <1>15, <1>4 DEF TypeOK
  <2>2. QuietBarriers /\ QuietHeld /\ QuietOwner /\ \A m \in Callbacks : QuietRow(m)
    BY <1>1, <2>1 DEF QuietBarriers, QuietHeld, QuietOwner, QuietRow
  <2>3. QuietMembers
    BY <1>6 DEF QuietMembers
  <2> QED
    BY <1>1, <1>10, <1>11, <1>12, <1>13, <1>14, <2>2, <2>3, QuietKeeps
<1>16. CASE /\ r.gen = dispatch[d].gen /\ r.label = dispatch[d].label
            /\ b \in NextIds /\ OpenFor(dispatch[d].gen, dispatch[d].label) = {}
  <2>1. barrier[b].state = "ABSENT"
    BY <1>16 DEF NextIds
  <2>2. \A m \in Callbacks : row[m].barrier # b
    <3> SUFFICES ASSUME NEW m \in Callbacks, row[m].barrier = b PROVE FALSE
      OBVIOUS
    <3>1. b # None
      BY <1>4, BarrierConstants
    <3> QED
      BY <2>1, <3>1 DEF RowsHaveMembers
  <2>3. RowsHaveMembers'
    <3> SUFFICES ASSUME NEW m \in Callbacks
                 PROVE  /\ row'[m].status = "ABSENT" => row'[m].barrier = None
                        /\ row'[m].status = "HELD" => row'[m].barrier # None
                        /\ row'[m].barrier # None =>
                              /\ row'[m].key \in Keys
                              /\ barrier'[row'[m].barrier].state # "ABSENT"
                              /\ member'[row'[m].barrier][row'[m].key].state # "ABSENT"
      BY DEF RowsHaveMembers
    <3>1. row[m].barrier \in Barriers \cup {None}
      BY DEF TypeOK, InboxRows
    <3> QED
      BY <1>1, <1>6, <1>9, <3>1 DEF RowsHaveMembers
  <2>4. OpenRowsHeld'
    <3> SUFFICES ASSUME owner'.alive, NEW m \in Callbacks, NEW c \in Barriers,
                        IsOpen(c)', row'[m].barrier = c
                 PROVE  row'[m].status \in {"HELD", "QUEUED"}
      BY DEF OpenRowsHeld
    <3>1. c # b
      BY <1>1, <2>2
    <3>2. IsOpen(c)
      BY <1>8, <3>1 DEF IsOpen
    <3> QED
      BY <1>1, <3>2 DEF OpenRowsHeld
  <2>5. AbsentUnfired'
    BY <1>1, <1>9 DEF AbsentUnfired
  <2>6. OneCombinedMessage'
    BY <1>1, <1>7, <1>8, <2>1 DEF OneCombinedMessage, AbsentUnfired, IsOpen
  <2>7. DigestedIsQuoted'
    BY <1>1 DEF DigestedIsQuoted, Departed
  <2>8. CompletedIsClosed'
    <3> SUFFICES ASSUME NEW c \in Barriers, IsOpen(c)', Complete(member, c)'
                 PROVE  FALSE
      BY DEF CompletedIsClosed
    <3>1. c # b /\ Complete(member, c)
      BY <1>6
    <3>2. IsOpen(c)
      BY <1>8, <3>1 DEF IsOpen
    <3> QED
      BY <3>1, <3>2 DEF CompletedIsClosed
  <2>9. OneOpenBarrier'
    <3> SUFFICES ASSUME NEW c \in Barriers, NEW e \in Barriers,
                        IsOpen(c)', IsOpen(e)', barrier'[c].gen = barrier'[e].gen,
                        barrier'[c].label = barrier'[e].label
                 PROVE  c = e
      BY DEF OneOpenBarrier
    <3>1. \A x \in Barriers : IsOpen(x) =>
             ~(barrier[x].gen = r.gen /\ barrier[x].label = r.label)
      BY <1>16 DEF OpenFor
    <3>2. \A x \in Barriers : x # b => (IsOpen(x)' <=> IsOpen(x))
      BY <1>8 DEF IsOpen
    <3> QED
      BY <1>8, <3>1, <3>2 DEF OneOpenBarrier
  <2>10. ReapReadExists'
    <3>1. \A m \in Callbacks : row[m].barrier # None =>
             row'[m].barrier = row[m].barrier /\ row'[m].to = row[m].to
      BY <1>1
    <3>2. \A c \in Barriers : barrier[c].state # "ABSENT" =>
             barrier'[c].state # "ABSENT" /\ (IsOpen(c)' => IsOpen(c))
      BY <1>8, <2>1 DEF IsOpen
    <3> QED
      BY <1>1, <3>1, <3>2, ReapFrame
  <2> QED
    BY <1>10, <1>11, <1>12, <1>13, <1>14, <2>3, <2>4, <2>5, <2>6, <2>7, <2>8, <2>9,
       <2>10
<1> QED
  BY <1>7, <1>15, <1>16

-----------------------------------------------------------------------------
(* Callbacks.                                                              *)

(* A callback that matches a member has read one that exists. *)
LEMMA MatchedMember ==
  ASSUME TypeOK, NEW w \in Workers, NEW p \in barrier_member_for_callback(w)
  PROVE  /\ p[1] \in Barriers /\ p[2] \in Keys
         /\ barrier[p[1]].state # "ABSENT"
         /\ member[p[1]][p[2]].state # "ABSENT"
<1>1. p \in MembersOf(w)
  BY DEF barrier_member_for_callback
<1> QED
  BY <1>1 DEF MembersOf, IsOpen

(* Reading for a callback changes what the callback holds only.            *)
LEMMA CallbackReadKeeps ==
  ASSUME BarrierInv, NEW m \in Callbacks, NEW w \in Workers, CallbackRead(m, w)
  PROVE  BarrierInv'
<1> USE DEF BarrierInv
<1>1. /\ UNCHANGED store
      /\ UNCHANGED <<owner, worker, barrier, member, row, digest, fires>>
      /\ UNCHANGED <<dispatch, cancel, reap, changes>>
      /\ row[m].status = "ABSENT"
  BY DEF CallbackRead, store
<1>2. owner.gen \in 0..MAX_GEN
  BY BarrierConstants DEF TypeOK
<1>3. PICK r \in ArrivalReads :
         /\ arrival' = r
         /\ r.callback = m /\ r.to = owner.gen
         /\ \/ r.pc = "plain"
            \/ /\ r.pc = "match"
               /\ r.barrier \in Barriers /\ r.key \in Keys
               /\ barrier[r.barrier].state # "ABSENT"
               /\ member[r.barrier][r.key].state # "ABSENT"
  <2>1. CASE arrival' = [NoArrival EXCEPT !.pc = "plain", !.callback = m,
                                          !.to = owner.gen]
    <3>1. arrival' = [pc |-> "plain", callback |-> m, barrier |-> None, key |-> None,
                      awaiting |-> FALSE, to |-> owner.gen]
      BY <2>1 DEF NoArrival
    <3>2. [pc |-> "plain", callback |-> m, barrier |-> None, key |-> None,
           awaiting |-> FALSE, to |-> owner.gen] \in ArrivalReads
      BY <1>2 DEF ArrivalReads
    <3> QED
      BY <3>1, <3>2
  <2>2. CASE \E p \in barrier_member_for_callback(w) :
               arrival' = [pc |-> "match", callback |-> m, barrier |-> p[1],
                           key |-> p[2],
                           awaiting |-> member[p[1]][p[2]].state = "AWAITING",
                           to |-> owner.gen]
    <3>1. PICK p \in barrier_member_for_callback(w) :
               arrival' = [pc |-> "match", callback |-> m, barrier |-> p[1],
                           key |-> p[2],
                           awaiting |-> member[p[1]][p[2]].state = "AWAITING",
                           to |-> owner.gen]
      BY <2>2
    <3>2. /\ p[1] \in Barriers /\ p[2] \in Keys
          /\ barrier[p[1]].state # "ABSENT"
          /\ member[p[1]][p[2]].state # "ABSENT"
      BY MatchedMember
    <3>3. PICK waits \in BOOLEAN : waits = (member[p[1]][p[2]].state = "AWAITING")
      OBVIOUS
    <3>4. [pc |-> "match", callback |-> m, barrier |-> p[1], key |-> p[2],
           awaiting |-> waits, to |-> owner.gen] \in ArrivalReads
      BY <1>2, <3>2 DEF ArrivalReads
    <3> QED
      BY <3>1, <3>2, <3>3, <3>4
  <2> QED
    BY <2>1, <2>2 DEF CallbackRead
<1>4. TypeOK'
  BY <1>1, <1>3 DEF TypeOK
<1>5. ArrivalReadExists'
  BY <1>1, <1>3 DEF ArrivalReadExists
<1>6. DispatchReadExists' /\ CancelReadExists' /\ NoLaterBarrier'
  BY <1>1 DEF DispatchReadExists, CancelReadExists, NoLaterBarrier
<1>7. NoLaterRow'
  BY <1>1, <1>2, <1>3 DEF NoLaterRow
<1> QED
  BY <1>1, <1>4, <1>5, <1>6, <1>7, StoreFrame

(* The row a callback enters. *)
LEMMA EnteredRow ==
  ASSUME NEW status \in RowStates, NEW b \in Barriers \cup {None},
         NEW key \in Keys \cup {None}, NEW to \in 0..MAX_GEN
  PROVE  \E r \in InboxRows :
            /\ r = [status |-> status, barrier |-> b, key |-> key, to |-> to]
            /\ r.status = status /\ r.barrier = b /\ r.key = key /\ r.to = to
<1>1. [status |-> status, barrier |-> b, key |-> key, to |-> to] \in InboxRows
  BY DEF InboxRows
<1> QED
  BY <1>1

(* A callback the queue takes is entered as QUEUED under its member.       *)
LEMMA CallbackQueueKeeps ==
  ASSUME BarrierInv, CallbackQueue
  PROVE  BarrierInv'
<1> USE DEF BarrierInv
<1>1. /\ UNCHANGED <<owner, worker, barrier, member, digest, fires>>
      /\ UNCHANGED <<dispatch, cancel, reap, changes>>
      /\ arrival.pc = "match"
      /\ arrival' = [arrival EXCEPT !.pc = "queued"]
      /\ row' = [row EXCEPT ![arrival.callback] =
                    [status |-> "QUEUED", barrier |-> arrival.barrier,
                     key |-> arrival.key, to |-> arrival.to]]
  BY DEF CallbackQueue
<1>2. /\ arrival.callback \in Callbacks
      /\ row[arrival.callback].status = "ABSENT"
      /\ arrival.barrier \in Barriers /\ arrival.key \in Keys
      /\ barrier[arrival.barrier].state # "ABSENT"
      /\ member[arrival.barrier][arrival.key].state # "ABSENT"
  BY <1>1 DEF ArrivalReadExists
<1>3. /\ row' \in InboxTables
      /\ row'[arrival.callback].status = "QUEUED"
      /\ row'[arrival.callback].barrier = arrival.barrier
      /\ row'[arrival.callback].key = arrival.key
      /\ row'[arrival.callback].to = arrival.to
      /\ \A m \in Callbacks : m # arrival.callback => row'[m] = row[m]
  <2>1. /\ "QUEUED" \in RowStates /\ arrival.pc # "idle"
        /\ arrival.barrier \in Barriers \cup {None} /\ arrival.key \in Keys \cup {None}
    BY <1>1, <1>2 DEF RowStates
  <2> arrival.to \in 0..MAX_GEN
    BY DEF TypeOK, ArrivalReads
  <2>2. PICK r \in InboxRows :
           /\ r = [status |-> "QUEUED", barrier |-> arrival.barrier,
                   key |-> arrival.key, to |-> arrival.to]
           /\ r.status = "QUEUED" /\ r.barrier = arrival.barrier /\ r.key = arrival.key
           /\ r.to = arrival.to
    BY <2>1, EnteredRow
  <2>3. row' = [row EXCEPT ![arrival.callback] = r]
    BY <1>1, <2>2
  <2>4. row \in [Callbacks -> InboxRows]
    BY DEF TypeOK
  <2>5. row' \in [Callbacks -> InboxRows]
    BY <1>2, <2>3, <2>4
  <2>6. /\ row'[arrival.callback] = r
        /\ \A m \in Callbacks : m # arrival.callback => row'[m] = row[m]
    BY <1>2, <2>3, <2>4
  <2> QED
    BY <2>2, <2>5, <2>6 DEF InboxTables
<1>4. /\ arrival' \in ArrivalReads
      /\ arrival'.pc = "queued"
      /\ arrival'.callback = arrival.callback
      /\ arrival'.barrier = arrival.barrier
      /\ arrival'.key = arrival.key
      /\ arrival'.to = arrival.to
  BY <1>1 DEF TypeOK, ArrivalReads
<1>5. TypeOK'
  BY <1>1, <1>3, <1>4 DEF TypeOK, InboxTables
<1>6. ArrivalReadExists'
  BY <1>1, <1>2, <1>4 DEF ArrivalReadExists
<1>7. DispatchReadExists' /\ CancelReadExists' /\ NoLaterBarrier'
  BY <1>1 DEF DispatchReadExists, CancelReadExists, NoLaterBarrier
<1>8. QuietBarriers /\ QuietMembers
  BY <1>1 DEF QuietBarriers, QuietMembers, Complete
<1>9. arrival.to \in 0..owner.gen
  BY DEF TypeOK, ArrivalReads, NoLaterRow
<1>10. \A m \in Callbacks : QuietRow(m)
  BY <1>2, <1>3, <1>9 DEF QuietRow
<1>11. QuietHeld /\ QuietOwner
  BY <1>1, <1>3 DEF QuietHeld, QuietOwner
<1>12. (\A m \in Callbacks : row'[m].to <= owner'.gen) => NoLaterRow'
  BY <1>1, <1>4 DEF NoLaterRow
<1> QED
  BY <1>1, <1>5, <1>6, <1>7, <1>8, <1>10, <1>11, <1>12, QuietKeeps

(* A callback of no barrier is entered without one.                        *)
LEMMA CallbackPlainKeeps ==
  ASSUME BarrierInv, CallbackPlain
  PROVE  BarrierInv'
<1> USE DEF BarrierInv
<1>1. /\ UNCHANGED <<owner, worker, barrier, member, digest, fires>>
      /\ UNCHANGED <<dispatch, cancel, reap, changes>>
      /\ arrival.pc = "plain"
      /\ arrival' = NoArrival
  BY DEF CallbackPlain
<1>2. PICK status \in {"PENDING", "QUEUED"} :
         row' = [row EXCEPT ![arrival.callback] =
                   [status |-> status, barrier |-> None, key |-> None,
                    to |-> arrival.to]]
  BY DEF CallbackPlain
<1>3. arrival.callback \in Callbacks /\ row[arrival.callback].status = "ABSENT"
  BY <1>1 DEF ArrivalReadExists
<1>4. /\ row' \in InboxTables
      /\ row'[arrival.callback].status = status
      /\ row'[arrival.callback].barrier = None
      /\ row'[arrival.callback].to = arrival.to
      /\ \A m \in Callbacks : m # arrival.callback => row'[m] = row[m]
  <2>1. /\ status \in RowStates /\ arrival.pc # "idle"
        /\ None \in Barriers \cup {None} /\ None \in Keys \cup {None}
    BY <1>1 DEF RowStates
  <2> arrival.to \in 0..MAX_GEN
    BY DEF TypeOK, ArrivalReads
  <2>2. PICK r \in InboxRows :
           /\ r = [status |-> status, barrier |-> None, key |-> None, to |-> arrival.to]
           /\ r.status = status /\ r.barrier = None /\ r.to = arrival.to
    BY <2>1, EnteredRow
  <2>3. row' = [row EXCEPT ![arrival.callback] = r]
    BY <1>2, <2>2
  <2>4. row \in [Callbacks -> InboxRows]
    BY DEF TypeOK
  <2>5. row' \in [Callbacks -> InboxRows]
    BY <1>3, <2>3, <2>4
  <2>6. /\ row'[arrival.callback] = r
        /\ \A m \in Callbacks : m # arrival.callback => row'[m] = row[m]
    BY <1>3, <2>3, <2>4
  <2> QED
    BY <2>2, <2>5, <2>6 DEF InboxTables
<1>5. TypeOK'
  BY <1>1, <1>4, BlankRows DEF TypeOK, InboxTables
<1>6. ArrivalReadExists'
  BY <1>1 DEF ArrivalReadExists, NoArrival
<1>7. DispatchReadExists' /\ CancelReadExists' /\ NoLaterBarrier'
  BY <1>1 DEF DispatchReadExists, CancelReadExists, NoLaterBarrier
<1>8. QuietBarriers /\ QuietMembers
  BY <1>1 DEF QuietBarriers, QuietMembers, Complete
<1>9. \A m \in Callbacks : QuietRow(m)
  <2>1. arrival.to \in 0..owner.gen
    BY DEF TypeOK, ArrivalReads, NoLaterRow
  <2> QED
    BY <1>3, <1>4, <2>1 DEF QuietRow
<1>10. QuietHeld /\ QuietOwner
  <2>1. None \notin Barriers
    BY BarrierConstants
  <2> QED
    BY <1>1, <1>4, <2>1 DEF QuietHeld, QuietOwner
<1>11. (\A m \in Callbacks : row'[m].to <= owner'.gen) => NoLaterRow'
  BY <1>1 DEF NoLaterRow, NoArrival, TypeOK
<1> QED
  BY <1>1, <1>5, <1>6, <1>7, <1>8, <1>9, <1>10, <1>11, QuietKeeps

(* A firing transaction that also leaves what was read in place. *)
LEMMA FireStep ==
  ASSUME BarrierInv, NEW S \in SUBSET Barriers,
         NEW state \in {"FIRED_COMPLETE", "FIRED_TIMEOUT"},
         NEW mem \in MemberTables, NEW rows \in InboxTables,
         FireReady(S, mem, rows), fire_open_barrier(S, state, mem, rows),
         \A m \in Callbacks : row[m].status = "ABSENT" =>
            rows[m].status = "ABSENT" \/ arrival' = NoArrival,
         UNCHANGED <<owner, dispatch, cancel, reap>>,
         arrival' = arrival \/ arrival' = NoArrival,
         worker' \in [Workers -> [alive : BOOLEAN, gen : 1..MAX_GEN]],
         changes' \in 0..MAX_CHANGES
  PROVE  BarrierInv'
<1> USE DEF BarrierInv
<1>1. /\ FireTyped
      /\ RowsStay
      /\ RowsHaveMembers'
      /\ OpenRowsHeld'
      /\ NoLaterBarrier'
      /\ \A m \in Callbacks : row'[m].to <= owner'.gen
      /\ ReapReadExists'
      /\ AbsentUnfired'
      /\ OneCombinedMessage'
      /\ DigestedIsQuoted'
      /\ CompletedIsClosed'
      /\ OneOpenBarrier'
  BY FireKeeps
<1>2. TypeOK'
  BY <1>1, BlankRows DEF TypeOK, FireTyped, MemberTables, InboxTables
<1>3. DispatchReadExists'
  BY <1>1, DispatchFrame DEF RowsStay
<1>4. CancelReadExists'
  BY <1>1, CancelFrame DEF RowsStay
<1>5. ArrivalReadExists'
  <2>1. CASE arrival' = NoArrival
    BY <2>1 DEF ArrivalReadExists, NoArrival
  <2>2. CASE arrival' = arrival /\ arrival' # NoArrival
    <3>1. FireRows(S, rows)
      BY FireEffect
    <3>2. \A m \in Callbacks : row[m].status = "ABSENT" => row'[m].status = "ABSENT"
      BY <2>2, <3>1 DEF FireRows
    <3> QED
      BY <1>1, <2>2, <3>2, ArrivalFrame DEF RowsStay
  <2> QED
    BY <2>1, <2>2
<1>6. NoLaterRow'
  BY <1>1 DEF NoLaterRow, NoArrival, TypeOK
<1> QED
  BY <1>1, <1>2, <1>3, <1>4, <1>5, <1>6

(* The write of a callback: its row, its member, and the fire it may       *)
(* complete.                                                               *)
LEMMA CallbackMatchKeeps ==
  ASSUME BarrierInv, CallbackMatch
  PROVE  BarrierInv'
<1> USE DEF BarrierInv
<1>1. /\ arrival.pc \in {"match", "queued"}
      /\ arrival' = NoArrival
      /\ UNCHANGED <<owner, worker, dispatch, cancel, reap, changes>>
  BY DEF CallbackMatch
<1>2. /\ arrival.callback \in Callbacks
      /\ arrival.pc = "match" => row[arrival.callback].status = "ABSENT"
      /\ arrival.barrier \in Barriers /\ arrival.key \in Keys
      /\ barrier[arrival.barrier].state # "ABSENT"
      /\ member[arrival.barrier][arrival.key].state # "ABSENT"
  BY <1>1 DEF ArrivalReadExists
<1>3. member \in MemberTables /\ row \in InboxTables
  BY DEF TypeOK, MemberTables, InboxTables
<1>4. PICK mem \in MemberTables :
         /\ mem = Arrived(arrival)
         /\ \A b \in Barriers, k \in Keys :
               \/ mem[b][k] = member[b][k]
               \/ /\ b = arrival.barrier /\ k = arrival.key
                  /\ mem[b][k].state = "ARRIVED"
  <2>1. CASE ~arrival.awaiting
    BY <1>3, <2>1 DEF Arrived
  <2>2. CASE arrival.awaiting
    <3>1. member[arrival.barrier][arrival.key] \in MemberRows
      BY <1>2 DEF TypeOK
    <3>2. PICK r \in MemberRows :
             /\ r = [member[arrival.barrier][arrival.key] EXCEPT !.state = "ARRIVED"]
             /\ r.state = "ARRIVED"
      BY <3>1, MemberUpdate DEF MemberStates
    <3>3. Arrived(arrival) = [member EXCEPT ![arrival.barrier][arrival.key] = r]
      BY <1>2, <2>2, <3>2 DEF Arrived, TypeOK
    <3>4. PICK mem \in MemberTables :
             mem = [member EXCEPT ![arrival.barrier][arrival.key] = r]
      BY <1>2, <1>3 DEF MemberTables
    <3>5. \A b \in Barriers, k \in Keys :
             mem[b][k] = IF b = arrival.barrier /\ k = arrival.key THEN r
                         ELSE member[b][k]
      BY <1>2, <1>3, <3>4 DEF MemberTables
    <3>6. \A b \in Barriers, k \in Keys :
             \/ mem[b][k] = member[b][k]
             \/ /\ b = arrival.barrier /\ k = arrival.key
                /\ mem[b][k].state = "ARRIVED"
      BY <3>2, <3>5
    <3>7. mem = Arrived(arrival)
      BY <3>3, <3>4
    <3> QED
      BY <3>6, <3>7
  <2> QED
    BY <2>1, <2>2
<1>5. PICK rows \in InboxTables :
         /\ rows = IF arrival.pc = "queued" THEN row
                   ELSE [row EXCEPT ![arrival.callback] =
                           [status |-> "HELD", barrier |-> arrival.barrier,
                            key |-> arrival.key, to |-> arrival.to]]
         /\ \A m \in Callbacks :
               \/ rows[m] = row[m]
               \/ /\ m = arrival.callback /\ arrival.pc = "match"
                  /\ rows[m].status = "HELD"
                  /\ rows[m].barrier = arrival.barrier
                  /\ rows[m].key = arrival.key
                  /\ rows[m].to = arrival.to
  <2>1. CASE arrival.pc = "queued"
    BY <1>3, <2>1
  <2>2. CASE arrival.pc = "match"
    <3>1. "HELD" \in RowStates /\ arrival.to \in 0..MAX_GEN
      BY DEF RowStates, TypeOK, ArrivalReads
    <3>2. PICK r \in InboxRows :
             /\ r = [status |-> "HELD", barrier |-> arrival.barrier,
                     key |-> arrival.key, to |-> arrival.to]
             /\ r.status = "HELD" /\ r.barrier = arrival.barrier /\ r.key = arrival.key
             /\ r.to = arrival.to
      BY <1>2, <3>1, EnteredRow
    <3>3. PICK rows \in InboxTables : rows = [row EXCEPT ![arrival.callback] = r]
      BY <1>2, <1>3 DEF InboxTables
    <3>4. \A m \in Callbacks : rows[m] = IF m = arrival.callback THEN r ELSE row[m]
      BY <1>2, <1>3, <3>3 DEF InboxTables
    <3>5. \A m \in Callbacks :
             \/ rows[m] = row[m]
             \/ /\ m = arrival.callback /\ arrival.pc = "match"
                /\ rows[m].status = "HELD"
                /\ rows[m].barrier = arrival.barrier
                /\ rows[m].key = arrival.key
                /\ rows[m].to = arrival.to
      BY <2>2, <3>2, <3>4
    <3>6. rows = IF arrival.pc = "queued" THEN row
                 ELSE [row EXCEPT ![arrival.callback] =
                         [status |-> "HELD", barrier |-> arrival.barrier,
                          key |-> arrival.key, to |-> arrival.to]]
      BY <2>2, <3>2, <3>3
    <3> QED
      BY <3>5, <3>6
  <2> QED
    BY <1>1, <2>1, <2>2
<1>6. PICK S \in SUBSET Barriers : S = {b \in {arrival.barrier} : Complete(mem, b)}
  BY <1>2
<1>7. fire_open_barrier(S, "FIRED_COMPLETE", mem, rows)
  BY <1>4, <1>5, <1>6 DEF CallbackMatch, maybe_fire_completed_barrier
<1>8. FireReady(S, mem, rows)
  <2>1. \A b \in Barriers, k \in Keys :
           mem[b][k].state = "ABSENT" <=> member[b][k].state = "ABSENT"
    BY <1>2, <1>4
  <2>2. ASSUME NEW m \in Callbacks
        PROVE  /\ rows[m].status = "ABSENT" => rows[m].barrier = None
               /\ rows[m].status = "HELD" => rows[m].barrier # None
               /\ rows[m].barrier # None =>
                     /\ rows[m].key \in Keys
                     /\ barrier[rows[m].barrier].state # "ABSENT"
                     /\ member[rows[m].barrier][rows[m].key].state # "ABSENT"
    <3>1. arrival.barrier # None
      BY <1>2, BarrierConstants
    <3> QED
      BY <1>2, <1>5, <3>1 DEF RowsHaveMembers
  <2>3. owner.alive =>
          \A m \in Callbacks, b \in Barriers :
             IsOpen(b) /\ rows[m].barrier = b => rows[m].status \in {"HELD", "QUEUED"}
    BY <1>5 DEF OpenRowsHeld
  <2>4. ASSUME NEW m \in Callbacks, NEW b \in Barriers
        PROVE  Quotation(rows, m, b)
    <3>1. Quotation(row, m, b)
      BY DEF DigestedIsQuoted, Departed, Quotation
    <3> QED
      BY <1>2, <1>5, <3>1 DEF Quotation
  <2>5. ASSUME NEW b \in Barriers, IsOpen(b), b \notin S, Complete(mem, b)
        PROVE  FALSE
    <3>1. b # arrival.barrier
      BY <1>6, <2>5
    <3>2. \A k \in Keys : mem[b][k] = member[b][k]
      BY <1>4, <3>1
    <3>3. Complete(member, b)
      BY <2>5, <3>2 DEF Complete
    <3> QED
      BY <2>5, <3>3 DEF CompletedIsClosed
  <2>6. ASSUME NEW m \in Callbacks
        PROVE  /\ rows[m].to <= owner.gen
               /\ row[m].barrier # None => /\ rows[m].barrier = row[m].barrier
                                          /\ rows[m].to = row[m].to
    BY <1>2, <1>5 DEF NoLaterRow, RowsHaveMembers
  <2> QED
    BY <2>1, <2>2, <2>3, <2>4, <2>5, <2>6 DEF FireReady
<1>9. /\ worker' \in [Workers -> [alive : BOOLEAN, gen : 1..MAX_GEN]]
      /\ changes' \in 0..MAX_CHANGES
  BY <1>1 DEF TypeOK
<1> QED
  BY <1>1, <1>7, <1>8, <1>9, FireStep

-----------------------------------------------------------------------------
(* The daemon, and workers that go.                                        *)

(* The daemon fires what is still OPEN, from the tables as they are.       *)
LEMMA FireDueKeeps ==
  ASSUME BarrierInv, NEW b \in Barriers, fire_due_barriers(b)
  PROVE  BarrierInv'
<1> USE DEF BarrierInv
<1>1. UNCHANGED <<owner, worker, dispatch, arrival, cancel, reap, changes>>
  BY DEF fire_due_barriers
<1>2. PICK S \in SUBSET Barriers, state \in {"FIRED_COMPLETE", "FIRED_TIMEOUT"} :
         fire_open_barrier(S, state, member, row)
  BY DEF fire_due_barriers
<1>3. PICK mem \in MemberTables, rows \in InboxTables : mem = member /\ rows = row
  BY DEF TypeOK, MemberTables, InboxTables
<1>4. FireReady(S, mem, rows)
  BY <1>3 DEF FireReady, RowsHaveMembers, OpenRowsHeld, DigestedIsQuoted, Departed,
     Quotation, CompletedIsClosed, NoLaterRow
<1>5. /\ worker' \in [Workers -> [alive : BOOLEAN, gen : 1..MAX_GEN]]
      /\ changes' \in 0..MAX_CHANGES
  BY <1>1 DEF TypeOK
<1> QED
  BY <1>1, <1>2, <1>3, <1>4, <1>5, FireStep

(* Counting an upheaval keeps the bound.                                   *)
LEMMA UpheavalType ==
  ASSUME TypeOK, Upheaval
  PROVE  changes' \in 0..MAX_CHANGES
  BY BarrierConstants DEF TypeOK, Upheaval

(* A reaped worker fires every barrier whose last member it was.           *)
LEMMA WorkerReapedKeeps ==
  ASSUME BarrierInv, NEW w \in Workers, delete_terminal_and_warm_intent(w)
  PROVE  BarrierInv'
<1> USE DEF BarrierInv
<1>1. /\ UNCHANGED <<owner, dispatch, arrival, cancel, reap>>
      /\ worker' = [worker EXCEPT ![w].alive = FALSE]
      /\ Upheaval
  BY DEF delete_terminal_and_warm_intent
<1>2. \A b \in Barriers, k \in Keys : member[b][k] \in MemberRows
  BY DEF TypeOK
<1>3. ASSUME NEW b \in Barriers, NEW k \in Keys
      PROVE  (IF /\ IsOpen(b)
                 /\ member[b][k].terminal = w
                 /\ member[b][k].state \in {"AWAITING", "FAILED"}
              THEN [member[b][k] EXCEPT !.state = "GONE"]
              ELSE member[b][k]) \in MemberRows
  BY <1>2, MemberUpdate DEF MemberStates
<1>4. MarkedGone(w) \in MemberTables
  BY <1>3 DEF MarkedGone, MemberTables
<1>5. PICK mem \in MemberTables : mem = MarkedGone(w)
  BY <1>4
<1>6. \A b \in Barriers, k \in Keys :
         \/ mem[b][k] = member[b][k]
         \/ member[b][k].state \in {"AWAITING", "FAILED"} /\ mem[b][k].state = "GONE"
  <2> SUFFICES ASSUME NEW b \in Barriers, NEW k \in Keys
               PROVE  \/ mem[b][k] = member[b][k]
                      \/ /\ member[b][k].state \in {"AWAITING", "FAILED"}
                         /\ mem[b][k].state = "GONE"
    OBVIOUS
  <2>1. [member[b][k] EXCEPT !.state = "GONE"].state = "GONE"
    BY <1>2, MemberUpdate DEF MemberStates
  <2>2. mem[b][k] = IF /\ IsOpen(b)
                       /\ member[b][k].terminal = w
                       /\ member[b][k].state \in {"AWAITING", "FAILED"}
                    THEN [member[b][k] EXCEPT !.state = "GONE"]
                    ELSE member[b][k]
    BY <1>5 DEF MarkedGone
  <2> QED
    BY <2>1, <2>2
<1>7. PICK S \in SUBSET Barriers :
         S = {b \in {c \in Barriers : mem[c] # member[c]} : Complete(mem, b)}
  OBVIOUS
<1>8. PICK rows \in InboxTables : rows = row
  BY DEF TypeOK, InboxTables
<1>9. fire_open_barrier(S, "FIRED_COMPLETE", mem, rows)
  BY <1>5, <1>7, <1>8 DEF delete_terminal_and_warm_intent, mark_barrier_member_gone,
     maybe_fire_completed_barrier
<1>10. FireReady(S, mem, rows)
  <2>1. \A b \in Barriers, k \in Keys :
           mem[b][k].state = "ABSENT" <=> member[b][k].state = "ABSENT"
    BY <1>6
  <2>2. ASSUME NEW b \in Barriers, IsOpen(b), b \notin S, Complete(mem, b)
        PROVE  FALSE
    <3>1. mem[b] = member[b]
      BY <1>7, <2>2
    <3>2. Complete(member, b)
      BY <2>2, <3>1 DEF Complete
    <3> QED
      BY <2>2, <3>2 DEF CompletedIsClosed
  <2> QED
    BY <1>8, <2>1, <2>2 DEF FireReady, RowsHaveMembers, OpenRowsHeld, DigestedIsQuoted,
       Departed, Quotation, NoLaterRow
<1>11. /\ worker' \in [Workers -> [alive : BOOLEAN, gen : 1..MAX_GEN]]
       /\ changes' \in 0..MAX_CHANGES
  BY <1>1, UpheavalType DEF TypeOK
<1> QED
  BY <1>1, <1>8, <1>9, <1>10, <1>11, FireStep

-----------------------------------------------------------------------------
(* Steps that fire nothing.                                                *)

(* What is left to show of a step that fires nothing and reads nothing. *)
LEMMA QuietStep ==
  ASSUME BarrierInv, TypeOK', QuietBarriers, QuietMembers, QuietHeld, QuietOwner,
         \A m \in Callbacks : QuietRow(m),
         \A m \in Callbacks : row[m].status = "ABSENT" => row'[m].status = "ABSENT",
         UNCHANGED <<digest, fires, dispatch>>,
         arrival' = arrival \/ arrival' = NoArrival,
         reap' = reap \/ reap' = NoReap, CancelReadExists'
  PROVE  BarrierInv'
<1> USE DEF BarrierInv
<1>1. /\ RowsHaveMembers'
      /\ OpenRowsHeld'
      /\ \A m \in Callbacks : row'[m].to <= owner'.gen
      /\ ReapReadExists'
      /\ AbsentUnfired'
      /\ OneCombinedMessage'
      /\ DigestedIsQuoted'
      /\ CompletedIsClosed'
      /\ OneOpenBarrier'
  BY QuietKeeps
<1>2. \A b \in Barriers : barrier'[b].state = "ABSENT" => barrier[b].state = "ABSENT"
  BY DEF QuietBarriers
<1>3. DispatchReadExists'
  BY <1>2, DispatchFrame
<1>4. ArrivalReadExists'
  <2>1. CASE arrival' = NoArrival
    BY <2>1 DEF ArrivalReadExists, NoArrival
  <2>2. CASE arrival' = arrival
    BY <1>2, <2>2, ArrivalFrame DEF QuietMembers
  <2> QED
    BY <2>1, <2>2
<1>5. NoLaterBarrier' /\ NoLaterRow'
  <2>1. owner.gen \in Nat /\ owner'.gen \in Nat /\ owner.gen <= owner'.gen
    BY DEF TypeOK, QuietOwner
  <2>2. ASSUME NEW b \in Barriers
        PROVE  barrier'[b].gen <= owner'.gen
    <3>1. barrier'[b].gen = barrier[b].gen /\ barrier[b].gen <= owner.gen
      BY DEF QuietBarriers, NoLaterBarrier
    <3>2. barrier[b].gen \in Nat
      BY DEF TypeOK, BarrierRows
    <3> QED
      BY <2>1, <3>1, <3>2
  <2>3. ASSUME NEW d \in Dispatchers, dispatch[d].pc = "create"
        PROVE  dispatch[d].gen <= owner'.gen
    <3>1. dispatch[d].gen <= owner.gen /\ dispatch[d].gen \in Nat
      BY <2>3 DEF NoLaterBarrier, TypeOK, DispatchReads
    <3> QED
      BY <2>1, <3>1
  <2>4. arrival'.to <= owner'.gen
    <3>1. arrival.to \in Nat /\ arrival.to <= owner.gen
      BY DEF TypeOK, ArrivalReads, NoLaterRow
    <3> QED
      BY <2>1, <3>1 DEF NoArrival
  <2> QED
    BY <1>1, <2>2, <2>3, <2>4 DEF NoLaterBarrier, NoLaterRow
<1> QED
  BY <1>1, <1>3, <1>4, <1>5

(* The inbox when the rows of M take a new status. *)
WithStatus(M, status) ==
    [m \in Callbacks |-> IF m \in M THEN [row[m] EXCEPT !.status = status] ELSE row[m]]

(* Such a change keeps the other fields, and the types. *)
LEMMA StatusTable ==
  ASSUME TypeOK, NEW M \in SUBSET Callbacks, NEW status \in RowStates,
         row' = WithStatus(M, status)
  PROVE  /\ row' \in [Callbacks -> InboxRows]
         /\ \A m \in Callbacks :
               /\ row'[m].barrier = row[m].barrier
               /\ row'[m].key = row[m].key
               /\ row'[m].to = row[m].to
               /\ row'[m].status = IF m \in M THEN status ELSE row[m].status
<1>1. \A m \in Callbacks : row[m] \in InboxRows
  BY DEF TypeOK
<1>2. \A m \in Callbacks : /\ [row[m] EXCEPT !.status = status] \in InboxRows
                            /\ [row[m] EXCEPT !.status = status].status = status
                            /\ [row[m] EXCEPT !.status = status].barrier = row[m].barrier
                            /\ [row[m] EXCEPT !.status = status].key = row[m].key
                            /\ [row[m] EXCEPT !.status = status].to = row[m].to
  BY <1>1, InboxUpdate
<1>3. row' \in [Callbacks -> InboxRows]
  BY <1>1, <1>2 DEF WithStatus
<1>4. \A m \in Callbacks : row'[m] = IF m \in M THEN [row[m] EXCEPT !.status = status]
                                      ELSE row[m]
  BY DEF WithStatus
<1> QED
  BY <1>2, <1>3, <1>4

(* Steps that change nothing but what a cancel has read. *)
LEMMA CancelReadKeeps ==
  ASSUME BarrierInv, (\E b \in Barriers : CancelRead(b)) \/ CancelEnds
  PROVE  BarrierInv'
<1> USE DEF BarrierInv
<1>1. /\ UNCHANGED store
      /\ UNCHANGED <<owner, worker, barrier, member, row, digest, fires>>
      /\ UNCHANGED <<dispatch, arrival, reap>>
  BY DEF CancelRead, CancelEnds, store
<1>2. changes' \in 0..MAX_CHANGES
  BY UpheavalType DEF CancelRead, CancelEnds, TypeOK
<1>3. cancel' \in Barriers \cup {None} /\ CancelReadExists'
  BY <1>1 DEF CancelRead, CancelEnds, CancelReadExists, IsOpen
<1>4. TypeOK'
  BY <1>1, <1>2, <1>3 DEF TypeOK
<1>5. \A m \in Callbacks : row[m].status = "ABSENT" => row'[m].status = "ABSENT"
  BY <1>1
<1> QED
  BY <1>1, <1>3, <1>4, <1>5, StoreFrame, QuietStep

(* A cancel closes the barrier it read, fired or not, and releases what is *)
(* HELD: the rows a fired barrier has quoted are not HELD any more.        *)
LEMMA CancelKeeps ==
  ASSUME BarrierInv, cancel_callback_barrier
  PROVE  BarrierInv'
<1> USE DEF BarrierInv
<1>1. /\ cancel # None /\ cancel' = None
      /\ UNCHANGED <<owner, worker, digest, fires, dispatch, arrival, reap, changes>>
      /\ barrier' = Closed({cancel}, "CANCELLED")
      /\ member' = Terminalized(member, {cancel})
      /\ row' = Settled(row, {cancel}, "PENDING")
  BY DEF cancel_callback_barrier, Released
<1>2. cancel \in Barriers /\ barrier[cancel].state # "ABSENT"
  BY <1>1 DEF TypeOK, CancelReadExists
<1>3. "CANCELLED" \in BarrierStates /\ "PENDING" \in RowStates
  BY DEF BarrierStates, RowStates
<1>4. member \in MemberTables /\ row \in InboxTables
  BY DEF TypeOK, MemberTables, InboxTables
<1>5. TypeOK'
  <2>1. barrier' \in [Barriers -> BarrierRows]
    BY <1>1, <1>3, ClosedType
  <2>2. member' \in MemberTables
    BY <1>1, <1>4, TerminalizedType
  <2>3. row' \in InboxTables
    BY <1>1, <1>3, <1>4, SettledType
  <2> QED
    BY <1>1, <2>1, <2>2, <2>3 DEF TypeOK, MemberTables, InboxTables
<1>6. \A b \in Barriers :
         /\ barrier'[b].gen = barrier[b].gen
         /\ barrier'[b].label = barrier[b].label
         /\ barrier'[b].state = IF b \in {cancel} THEN "CANCELLED" ELSE barrier[b].state
  BY <1>1, <1>3, ClosedIs
<1>7. \A b \in Barriers, k \in Keys :
         member'[b][k].state = IF b \in {cancel} /\ member[b][k].state = "AWAITING"
                               THEN "FAILED" ELSE member[b][k].state
  BY <1>1, <1>4, TerminalizedIs
<1>8. \A m \in Callbacks :
         /\ row'[m].barrier = row[m].barrier
         /\ row'[m].key = row[m].key
         /\ row'[m].to = row[m].to
         /\ row'[m].status = IF row[m].status = "HELD" /\ row[m].barrier \in {cancel}
                             THEN "PENDING" ELSE row[m].status
  BY <1>1, <1>3, <1>4, SettledIs
<1>9. QuietBarriers
  BY <1>2, <1>6 DEF QuietBarriers
<1>10. QuietMembers
  <2>1. \A b \in Barriers, k \in Keys :
           member'[b][k].state = "ABSENT" => member[b][k].state = "ABSENT"
    BY <1>7
  <2>2. ASSUME NEW b \in Barriers, IsOpen(b)', Complete(member, b)'
        PROVE  Complete(member, b)
    <3>1. b # cancel
      BY <1>6, <2>2 DEF IsOpen
    <3>2. \A k \in Keys : member'[b][k].state = member[b][k].state
      BY <1>7, <3>1
    <3> QED
      BY <2>2, <3>2 DEF Complete
  <2> QED
    BY <2>1, <2>2 DEF QuietMembers
<1>11. QuietHeld
  <2> SUFFICES ASSUME owner'.alive, NEW m \in Callbacks, NEW b \in Barriers,
                      IsOpen(b)', row'[m].barrier = b
               PROVE  /\ owner.alive
                      /\ row'[m].barrier = row[m].barrier
                      /\ row'[m].status = row[m].status
    BY DEF QuietHeld
  <2>1. b # cancel
    BY <1>6 DEF IsOpen
  <2> QED
    BY <1>1, <1>8, <2>1
<1>12. \A m \in Callbacks : QuietRow(m)
  BY <1>8 DEF QuietRow
<1>13. \A m \in Callbacks : row[m].status = "ABSENT" => row'[m].status = "ABSENT"
  BY <1>8
<1>14. CancelReadExists' /\ QuietOwner
  BY <1>1 DEF CancelReadExists, QuietOwner
<1> QED
  BY <1>1, <1>5, <1>9, <1>10, <1>11, <1>12, <1>13, <1>14, QuietStep

(* An escalation leaves a FAILED member, so nothing is complete. *)
LEMMA EscalationKeeps ==
  ASSUME BarrierInv, NEW w \in Workers, insert_barrier_escalation_message(w)
  PROVE  BarrierInv'
<1> USE DEF BarrierInv
<1>1. /\ Upheaval
      /\ UNCHANGED <<owner, worker, barrier, row, digest, fires>>
      /\ UNCHANGED <<dispatch, arrival, cancel, reap>>
  BY DEF insert_barrier_escalation_message
<1>2. PICK p \in barrier_member_for_callback(w) :
         member' = [member EXCEPT ![p[1]][p[2]].state = "FAILED"]
  BY DEF insert_barrier_escalation_message
<1>3. p[1] \in Barriers /\ p[2] \in Keys /\ member[p[1]][p[2]].state # "ABSENT"
  BY MatchedMember
<1>4. member[p[1]][p[2]] \in MemberRows
  BY <1>3 DEF TypeOK
<1>5. PICK r \in MemberRows :
         r = [member[p[1]][p[2]] EXCEPT !.state = "FAILED"] /\ r.state = "FAILED"
  BY <1>4, MemberUpdate DEF MemberStates
<1>6. PICK b \in Barriers, key \in Keys : b = p[1] /\ key = p[2]
  BY <1>3
<1>7. member' = [member EXCEPT ![b][key] = r]
  BY <1>2, <1>3, <1>5, <1>6 DEF TypeOK
<1>8. member' \in [Barriers -> [Keys -> MemberRows]]
  BY <1>7 DEF TypeOK
<1>9. \A c \in Barriers, k \in Keys :
         member'[c][k] = IF c = b /\ k = key THEN r ELSE member[c][k]
  BY <1>7 DEF TypeOK
<1>10. TypeOK'
  BY <1>1, <1>8, UpheavalType DEF TypeOK
<1>11. QuietMembers
  <2>1. \A c \in Barriers, k \in Keys :
           member'[c][k].state = "ABSENT" => member[c][k].state = "ABSENT"
    BY <1>5, <1>9
  <2>2. ASSUME NEW c \in Barriers, Complete(member, c)'
        PROVE  Complete(member, c)
    <3>1. c # b
      BY <1>5, <1>9, <2>2 DEF Complete
    <3>2. \A k \in Keys : member'[c][k] = member[c][k]
      BY <1>9, <3>1
    <3> QED
      BY <2>2, <3>2 DEF Complete
  <2> QED
    BY <2>1, <2>2 DEF QuietMembers
<1>12. QuietBarriers /\ QuietHeld /\ \A m \in Callbacks : QuietRow(m)
  BY <1>1 DEF QuietBarriers, QuietHeld, QuietRow
<1>13. CancelReadExists' /\ QuietOwner
  BY <1>1 DEF CancelReadExists, QuietOwner
<1> QED
  BY <1>1, <1>10, <1>11, <1>12, <1>13, QuietStep

(* A worker that crashes or is rebound changes its own row only. *)
LEMMA WorkerRowKeeps ==
  ASSUME BarrierInv, NEW w \in Workers,
         crash_detach_terminal(w) \/ settle_terminal_rebound(w)
  PROVE  BarrierInv'
<1> USE DEF BarrierInv
<1>1. /\ Upheaval
      /\ UNCHANGED <<owner, barrier, member, row, digest, fires>>
      /\ UNCHANGED <<dispatch, arrival, cancel, reap>>
  BY DEF crash_detach_terminal, settle_terminal_rebound
<1>2. worker' \in [Workers -> [alive : BOOLEAN, gen : 1..MAX_GEN]]
  <2>1. CASE crash_detach_terminal(w)
    BY <2>1 DEF crash_detach_terminal, TypeOK
  <2>2. CASE settle_terminal_rebound(w)
    <3>1. worker[w].gen + 1 \in 1..MAX_GEN
      BY <2>2, BarrierConstants DEF settle_terminal_rebound, TypeOK
    <3> QED
      BY <2>2, <3>1 DEF settle_terminal_rebound, TypeOK
  <2> QED
    BY <2>1, <2>2
<1>3. TypeOK'
  BY <1>1, <1>2, UpheavalType DEF TypeOK
<1>4. QuietBarriers /\ QuietHeld /\ \A m \in Callbacks : QuietRow(m)
  BY <1>1 DEF QuietBarriers, QuietHeld, QuietRow
<1>5. QuietMembers
  BY <1>1 DEF QuietMembers, Complete
<1>6. CancelReadExists' /\ QuietOwner
  BY <1>1 DEF CancelReadExists, QuietOwner
<1> QED
  BY <1>1, <1>3, <1>4, <1>5, <1>6, QuietStep

(* A crashed owner has no terminal: nothing fires until another takes over. *)
LEMMA OwnerDetachedKeeps ==
  ASSUME BarrierInv, OwnerDetached
  PROVE  BarrierInv'
<1> USE DEF BarrierInv
<1>1. /\ Upheaval
      /\ owner' = [owner EXCEPT !.alive = FALSE]
      /\ UNCHANGED <<worker, barrier, member, digest, fires, dispatch, arrival, cancel, reap>>
  BY DEF OwnerDetached
<1>2. /\ owner' \in [kind : {"terminal", "mailbox"}, gen : 1..MAX_GEN, alive : BOOLEAN]
      /\ ~owner'.alive
      /\ QuietOwner
  <2>1. owner' = [kind |-> owner.kind, gen |-> owner.gen, alive |-> FALSE]
    BY <1>1 DEF TypeOK
  <2>2. /\ owner.kind \in {"terminal", "mailbox"}
        /\ owner.gen \in 1..MAX_GEN
    BY DEF TypeOK
  <2>3. owner'.gen = owner.gen /\ owner'.alive = FALSE
    BY <2>1
  <2> QED
    BY <2>1, <2>2, <2>3 DEF QuietOwner
<1>3. PICK M \in SUBSET Callbacks :
         M = {m \in Callbacks : row[m].status = "PENDING" /\ row[m].to = owner.gen}
  OBVIOUS
<1>4. row' = WithStatus(M, "DELIVERY_FAILED")
  BY <1>3 DEF OwnerDetached, WithStatus
<1>5. /\ row' \in [Callbacks -> InboxRows]
      /\ \A m \in Callbacks :
            /\ row'[m].barrier = row[m].barrier
            /\ row'[m].key = row[m].key
            /\ row'[m].to = row[m].to
            /\ row'[m].status = IF m \in M THEN "DELIVERY_FAILED" ELSE row[m].status
  <2>1. "DELIVERY_FAILED" \in RowStates
    BY DEF RowStates
  <2> QED
    BY <1>4, <2>1, StatusTable
<1>6. TypeOK'
  BY <1>1, <1>2, <1>5, UpheavalType DEF TypeOK
<1>7. QuietBarriers /\ QuietMembers
  BY <1>1 DEF QuietBarriers, QuietMembers, Complete
<1>8. QuietHeld
  BY <1>2 DEF QuietHeld
<1>9. \A m \in Callbacks : QuietRow(m)
  BY <1>3, <1>5 DEF QuietRow
<1>10. \A m \in Callbacks : row[m].status = "ABSENT" => row'[m].status = "ABSENT"
  BY <1>3, <1>5
<1>11. CancelReadExists'
  BY <1>1 DEF CancelReadExists
<1> QED
  BY <1>1, <1>2, <1>6, <1>7, <1>8, <1>9, <1>10, <1>11, QuietStep

(* A reap that reads, or is given up, changes what it holds only. *)
LEMMA ReapReadKeeps ==
  ASSUME BarrierInv, ReapRead \/ ReapReadBarriers \/ ReapEnds
  PROVE  BarrierInv'
<1> USE DEF BarrierInv
<1>1. /\ UNCHANGED store
      /\ UNCHANGED <<owner, worker, barrier, member, row, digest, fires>>
      /\ UNCHANGED <<dispatch, arrival, cancel>>
  BY DEF ReapRead, ReapReadBarriers, ReapEnds, store
<1>2. changes' \in 0..MAX_CHANGES
  BY UpheavalType DEF ReapRead, ReapReadBarriers, ReapEnds, TypeOK
<1>3. reap' \in ReapReads /\ ReapReadExists'
  <2>1. CASE ReapRead
    <3>1. PICK ancestor \in BOOLEAN, M \in SUBSET Callbacks :
             /\ M = {m \in Callbacks : row[m].status = "HELD" /\ row[m].to = owner.gen}
             /\ reap' = [pc |-> "rows", gen |-> owner.gen, ancestor |-> ancestor,
                         rows |-> M, barriers |-> {}]
      BY <2>1 DEF ReapRead
    <3>2. owner.gen \in 0..MAX_GEN
      BY BarrierConstants DEF TypeOK
    <3>3. reap' \in ReapReads
      BY <3>1, <3>2 DEF ReapReads
    <3>4. reap'.rows = M /\ reap'.gen = owner.gen /\ reap'.barriers = {}
      BY <3>1
    <3>5. \A m \in M : row[m].barrier # None /\ row[m].to = owner.gen
      BY <3>1 DEF RowsHaveMembers
    <3> QED
      BY <1>1, <3>3, <3>4, <3>5 DEF ReapReadExists
  <2>2. CASE ReapReadBarriers
    <3>1. PICK B \in SUBSET Barriers :
             /\ B = OwnedOpen
             /\ reap' = [reap EXCEPT !.pc = "barriers", !.barriers = B]
      BY <2>2 DEF ReapReadBarriers, OwnedOpen
    <3>2. /\ reap' \in ReapReads
          /\ reap'.rows = reap.rows /\ reap'.gen = reap.gen /\ reap'.barriers = B
      BY <3>1 DEF TypeOK, ReapReads
    <3>3. \A b \in B : barrier[b].state # "ABSENT"
      BY <3>1 DEF OwnedOpen, IsOpen
    <3> QED
      BY <1>1, <3>2, <3>3 DEF ReapReadExists, IsOpen
  <2>3. CASE ReapEnds
    <3>1. reap' = NoReap
      BY <2>3 DEF ReapEnds
    <3> QED
      BY <3>1, BlankRows DEF ReapReadExists, NoReap
  <2> QED
    BY <2>1, <2>2, <2>3
<1>4. TypeOK'
  BY <1>1, <1>2, <1>3 DEF TypeOK
<1>5. DispatchReadExists' /\ ArrivalReadExists' /\ CancelReadExists'
  BY <1>1 DEF DispatchReadExists, ArrivalReadExists, CancelReadExists
<1>6. NoLaterBarrier' /\ NoLaterRow'
  BY <1>1 DEF NoLaterBarrier, NoLaterRow
<1> QED
  BY <1>1, <1>3, <1>4, <1>5, <1>6, StoreFrame

(* The write of a reap.  The callbacks it read as HELD may be DIGESTED by  *)
(* now, but then the terminal they were addressed to goes with the step.   *)
LEMMA OwnerReapedKeeps ==
  ASSUME BarrierInv, OwnerReaped
  PROVE  BarrierInv'
<1> USE DEF BarrierInv
<1>1. PICK closing \in SUBSET Barriers, status \in {"REPARENTED", "CANCELLED"} :
         /\ row' = [m \in Callbacks |->
                      IF m \in reap.rows THEN [row[m] EXCEPT !.status = status]
                      ELSE Settled(row, closing, "PENDING")[m]]
         /\ barrier' = Closed(closing, "CANCELLED")
         /\ \A b \in closing : barrier[b].state # "ABSENT"
  <2>1. reap.barriers \in SUBSET Barriers /\ OwnedOpen \in SUBSET Barriers
    BY DEF TypeOK, ReapReads, OwnedOpen
  <2>2. PICK closing \in SUBSET Barriers :
           closing = IF ReapFlushes THEN OwnedOpen ELSE reap.barriers
    BY <2>1
  <2>3. \A b \in closing : barrier[b].state # "ABSENT"
    BY <2>2 DEF OwnedOpen, IsOpen, ReapReadExists
  <2>4. PICK status \in {"REPARENTED", "CANCELLED"} :
           status = IF reap.ancestor THEN "REPARENTED" ELSE "CANCELLED"
    OBVIOUS
  <2> QED
    BY <2>2, <2>3, <2>4 DEF OwnerReaped
<1>2. /\ reap' = NoReap
      /\ owner' = [owner EXCEPT !.alive = owner.alive /\ owner.gen # reap.gen]
      /\ UNCHANGED <<worker, member, digest, fires, dispatch, arrival, cancel, changes>>
  BY DEF OwnerReaped
<1>3. /\ owner' \in [kind : {"terminal", "mailbox"}, gen : 1..MAX_GEN, alive : BOOLEAN]
      /\ owner'.gen = owner.gen
      /\ owner'.alive => owner.alive /\ owner.gen # reap.gen
      /\ QuietOwner
  <2>1. PICK alive \in BOOLEAN : alive = (owner.alive /\ owner.gen # reap.gen)
    BY DEF TypeOK
  <2>2. owner' = [kind |-> owner.kind, gen |-> owner.gen, alive |-> alive]
    BY <1>2, <2>1 DEF TypeOK
  <2>3. /\ owner.kind \in {"terminal", "mailbox"}
        /\ owner.gen \in 1..MAX_GEN
        /\ owner = [kind |-> owner.kind, gen |-> owner.gen, alive |-> owner.alive]
    BY DEF TypeOK
  <2>4. /\ owner' \in [kind : {"terminal", "mailbox"}, gen : 1..MAX_GEN, alive : BOOLEAN]
        /\ owner'.gen = owner.gen /\ owner'.alive = alive
    BY <2>2, <2>3
  <2>5. owner'.alive => owner.alive /\ owner.gen # reap.gen
    BY <2>1, <2>4
  <2>6. QuietOwner
    <3>1. CASE ~owner'.alive
      BY <2>4, <3>1 DEF QuietOwner
    <3>2. CASE owner'.alive
      <4>1. alive = TRUE /\ owner.alive = TRUE
        BY <2>1, <2>4, <3>2 DEF TypeOK
      <4> QED
        BY <2>2, <2>3, <4>1 DEF QuietOwner
    <3> QED
      BY <3>1, <3>2
  <2> QED
    BY <2>4, <2>5, <2>6
<1>4. /\ status \in RowStates /\ "PENDING" \in RowStates
      /\ "CANCELLED" \in BarrierStates
  BY DEF RowStates, BarrierStates
<1>5. row \in InboxTables
  BY DEF TypeOK, InboxTables
<1>6. ASSUME NEW m \in Callbacks
      PROVE  /\ row'[m] \in InboxRows
             /\ row'[m].barrier = row[m].barrier
             /\ row'[m].key = row[m].key
             /\ row'[m].to = row[m].to
             /\ row'[m].status =
                   IF m \in reap.rows THEN status
                   ELSE IF row[m].status = "HELD" /\ row[m].barrier \in closing
                        THEN "PENDING" ELSE row[m].status
  <2>1. row[m] \in InboxRows
    BY DEF TypeOK
  <2>2. CASE m \in reap.rows
    <3>1. row'[m] = [row[m] EXCEPT !.status = status]
      BY <1>1, <2>2
    <3> QED
      BY <1>4, <2>1, <2>2, <3>1, InboxUpdate
  <2>3. CASE m \notin reap.rows
    <3>1. row'[m] = Settled(row, closing, "PENDING")[m]
      BY <1>1, <2>3
    <3>2. Settled(row, closing, "PENDING") \in InboxTables
      BY <1>4, <1>5, SettledType
    <3>3. Settled(row, closing, "PENDING")[m] \in InboxRows
      BY <3>2 DEF InboxTables
    <3> QED
      BY <1>4, <1>5, <2>3, <3>1, <3>3, SettledIs
  <2> QED
    BY <2>2, <2>3
<1>7. row' \in [Callbacks -> InboxRows]
  <2>1. row' = [m \in Callbacks |-> row'[m]]
    BY <1>1
  <2> QED
    BY <1>6, <2>1
<1>8. barrier' \in [Barriers -> BarrierRows]
  BY <1>1, <1>4, ClosedType
<1>9. \A b \in Barriers :
         /\ barrier'[b].gen = barrier[b].gen
         /\ barrier'[b].label = barrier[b].label
         /\ barrier'[b].state = IF b \in closing THEN "CANCELLED" ELSE barrier[b].state
  BY <1>1, <1>4, ClosedIs
<1>10. QuietBarriers
  BY <1>1, <1>9 DEF QuietBarriers
<1>11. TypeOK'
  BY <1>2, <1>3, <1>7, <1>8, BlankRows DEF TypeOK
<1>12. QuietMembers
  BY <1>2 DEF QuietMembers, Complete
<1>13. QuietHeld
  <2> SUFFICES ASSUME owner'.alive, NEW m \in Callbacks, NEW b \in Barriers,
                      barrier'[b].state = "OPEN", row'[m].barrier = b
               PROVE  /\ owner.alive
                      /\ row'[m].barrier = row[m].barrier
                      /\ row'[m].status = row[m].status
    BY DEF QuietHeld, IsOpen
  <2>1. b \notin closing /\ IsOpen(b)
    BY <1>9 DEF IsOpen
  <2>2. row[m].barrier = b
    BY <1>6
  <2>3. m \notin reap.rows
    BY <1>3, <2>1, <2>2 DEF ReapReadExists
  <2> QED
    BY <1>3, <1>6, <2>1, <2>2, <2>3
<1>14. ASSUME NEW m \in Callbacks
       PROVE  QuietRow(m) /\ (row[m].status = "ABSENT" => row'[m].status = "ABSENT")
  <2>1. CASE m \in reap.rows
    <3>1. row[m].status # "ABSENT" /\ row[m].to = reap.gen
      BY <2>1 DEF ReapReadExists, RowsHaveMembers
    <3>2. ~(owner'.alive /\ owner'.gen = row[m].to)
      BY <1>3, <3>1
    <3>3. row'[m].status = status
      BY <1>6, <2>1
    <3> QED
      BY <1>6, <3>1, <3>2, <3>3 DEF QuietRow
  <2>2. CASE m \notin reap.rows
    BY <1>6, <2>2 DEF QuietRow
  <2> QED
    BY <2>1, <2>2
<1>15. CancelReadExists'
  BY <1>2, <1>10, CancelFrame DEF QuietBarriers
<1> QED
  BY <1>2, <1>3, <1>10, <1>11, <1>12, <1>13, <1>14, <1>15, QuietStep

(* A rebind closes every OPEN barrier: none is of the new generation. *)
LEMMA PublishKeeps ==
  ASSUME BarrierInv, publish_supervisor_incarnation
  PROVE  BarrierInv'
<1> USE DEF BarrierInv
<1> DEFINE stale == {b \in Barriers : IsOpen(b) /\ barrier[b].gen # owner.gen + 1}
<1>1. /\ Upheaval
      /\ owner.gen < MAX_GEN
      /\ owner' = [owner EXCEPT !.gen = owner.gen + 1, !.alive = TRUE]
      /\ barrier' = Closed(stale, "DIGESTED_REBIND")
      /\ row' = [m \in Callbacks |->
                   IF \/ row[m].status = "PENDING"
                      \/ row[m].status = "HELD" /\ row[m].barrier \in stale
                   THEN [row[m] EXCEPT !.status = "PARKED"]
                   ELSE row[m]]
      /\ UNCHANGED <<worker, member, digest, fires, dispatch, arrival, cancel, reap>>
  BY DEF publish_supervisor_incarnation
<1>2. /\ owner' \in [kind : {"terminal", "mailbox"}, gen : 1..MAX_GEN, alive : BOOLEAN]
      /\ owner'.gen = owner.gen + 1
  <2>1. owner.gen + 1 \in 1..MAX_GEN
    BY <1>1, BarrierConstants DEF TypeOK
  <2> QED
    BY <1>1, <2>1 DEF TypeOK
<1>3. \A b \in Barriers : IsOpen(b) => b \in stale
  <2> SUFFICES ASSUME NEW b \in Barriers, IsOpen(b)
               PROVE  barrier[b].gen # owner.gen + 1
    OBVIOUS
  <2>1. barrier[b].gen \in Nat /\ owner.gen \in Nat
    BY DEF TypeOK, BarrierRows
  <2>2. barrier[b].gen <= owner.gen
    BY DEF NoLaterBarrier
  <2> QED
    BY <2>1, <2>2
<1>4. "DIGESTED_REBIND" \in BarrierStates /\ "PARKED" \in RowStates
  BY DEF BarrierStates, RowStates
<1>5. PICK M \in SUBSET Callbacks :
         M = {m \in Callbacks :
                 \/ row[m].status = "PENDING"
                 \/ row[m].status = "HELD" /\ row[m].barrier \in stale}
  OBVIOUS
<1>6. row' = WithStatus(M, "PARKED")
  BY <1>1, <1>5 DEF WithStatus
<1>7. /\ row' \in [Callbacks -> InboxRows]
      /\ \A m \in Callbacks :
            /\ row'[m].barrier = row[m].barrier
            /\ row'[m].key = row[m].key
            /\ row'[m].to = row[m].to
            /\ row'[m].status = IF m \in M THEN "PARKED" ELSE row[m].status
  BY <1>4, <1>6, StatusTable
<1>8. barrier' \in [Barriers -> BarrierRows]
  BY <1>1, <1>4, ClosedType
<1>9. \A b \in Barriers :
         /\ barrier'[b].gen = barrier[b].gen
         /\ barrier'[b].label = barrier[b].label
         /\ barrier'[b].state = IF b \in stale THEN "DIGESTED_REBIND" ELSE barrier[b].state
  BY <1>1, <1>4, ClosedIs
<1>10. QuietBarriers
  BY <1>9 DEF QuietBarriers, IsOpen
<1>11. \A b \in Barriers : ~IsOpen(b)'
  <2> SUFFICES ASSUME NEW b \in Barriers, barrier'[b].state = "OPEN" PROVE FALSE
    BY DEF IsOpen
  <2> QED
    BY <1>3, <1>9 DEF IsOpen
<1>12. TypeOK'
  BY <1>1, <1>2, <1>7, <1>8, UpheavalType DEF TypeOK
<1>13. QuietMembers /\ QuietHeld /\ QuietOwner
  BY <1>1, <1>2, <1>11 DEF QuietMembers, QuietHeld, QuietOwner
<1>14. \A m \in Callbacks : QuietRow(m)
  BY <1>5, <1>7 DEF QuietRow
<1>15. \A m \in Callbacks : row[m].status = "ABSENT" => row'[m].status = "ABSENT"
  BY <1>5, <1>7
<1>16. CancelReadExists'
  BY <1>1, <1>10, CancelFrame DEF QuietBarriers
<1> QED
  BY <1>1, <1>2, <1>10, <1>12, <1>13, <1>14, <1>15, <1>16, QuietStep

(* The repair at boot touches members of closed barriers, and rows that    *)
(* are PENDING: an OPEN barrier of a live owner has none of those.         *)
LEMMA RestartKeeps ==
  ASSUME BarrierInv, Restart
  PROVE  BarrierInv'
<1> USE DEF BarrierInv
<1>1. /\ arrival' = NoArrival /\ reap' = NoReap
      /\ UNCHANGED <<owner, worker, barrier, digest, fires, dispatch, cancel, changes>>
      /\ member' = Terminalized(member, {b \in Barriers : ~IsOpen(b)})
  BY DEF Restart
<1>2. PICK M \in SUBSET Callbacks :
         M = {m \in Callbacks : /\ row[m].status = "PENDING"
                                /\ owner.kind = "mailbox"
                                /\ ~(owner.alive /\ row[m].to = owner.gen)}
  OBVIOUS
<1>3. row' = WithStatus(M, "DELIVERY_FAILED")
  BY <1>2 DEF Restart, WithStatus
<1>4. "DELIVERY_FAILED" \in RowStates
  BY DEF RowStates
<1>5. /\ row' \in [Callbacks -> InboxRows]
      /\ \A m \in Callbacks :
            /\ row'[m].barrier = row[m].barrier
            /\ row'[m].key = row[m].key
            /\ row'[m].to = row[m].to
            /\ row'[m].status = IF m \in M THEN "DELIVERY_FAILED" ELSE row[m].status
  BY <1>3, <1>4, StatusTable
<1>6. member \in MemberTables
  BY DEF TypeOK, MemberTables
<1>7. member' \in MemberTables
  BY <1>1, <1>6, TerminalizedType
<1>8. \A b \in Barriers, k \in Keys :
         member'[b][k].state =
            IF b \in {c \in Barriers : ~IsOpen(c)} /\ member[b][k].state = "AWAITING"
            THEN "FAILED" ELSE member[b][k].state
  BY <1>1, <1>6, TerminalizedIs
<1>9. TypeOK'
  BY <1>1, <1>5, <1>7, BlankRows DEF TypeOK, MemberTables
<1>10. QuietMembers
  <2>1. \A b \in Barriers, k \in Keys :
           member'[b][k].state = "ABSENT" => member[b][k].state = "ABSENT"
    BY <1>8
  <2>2. ASSUME NEW b \in Barriers, IsOpen(b)', Complete(member, b)'
        PROVE  Complete(member, b)
    <3>1. IsOpen(b)
      BY <1>1, <2>2 DEF IsOpen
    <3>2. \A k \in Keys : member'[b][k].state = member[b][k].state
      BY <1>8, <3>1
    <3> QED
      BY <2>2, <3>2 DEF Complete
  <2> QED
    BY <2>1, <2>2 DEF QuietMembers
<1>11. QuietHeld
  <2> SUFFICES ASSUME owner'.alive, NEW m \in Callbacks, NEW b \in Barriers,
                      IsOpen(b)', row'[m].barrier = b
               PROVE  row'[m].status \in {"HELD", "QUEUED"}
    BY DEF QuietHeld
  <2>1. IsOpen(b) /\ owner.alive /\ row[m].barrier = b
    BY <1>1, <1>5 DEF IsOpen
  <2>2. row[m].status \in {"HELD", "QUEUED"}
    BY <2>1 DEF OpenRowsHeld
  <2> QED
    BY <1>2, <1>5, <2>2
<1>12. QuietBarriers
  BY <1>1 DEF QuietBarriers
<1>13. \A m \in Callbacks : QuietRow(m)
  BY <1>2, <1>5 DEF QuietRow
<1>14. \A m \in Callbacks : row[m].status = "ABSENT" => row'[m].status = "ABSENT"
  BY <1>2, <1>5
<1>15. CancelReadExists' /\ QuietOwner
  BY <1>1 DEF CancelReadExists, QuietOwner
<1> QED
  BY <1>1, <1>9, <1>10, <1>11, <1>12, <1>13, <1>14, <1>15, QuietStep

-----------------------------------------------------------------------------
(* Every step keeps the invariant. *)
LEMMA NextKeeps == BarrierInv /\ [Next]_vars => BarrierInv'
<1> SUFFICES ASSUME BarrierInv, [Next]_vars PROVE BarrierInv'
  OBVIOUS
<1>1. CASE \E d \in Dispatchers : Dispatching(d)
  <2>1. PICK d \in Dispatchers : Dispatching(d)
    BY <1>1
  <2> QED
    BY <2>1, DispatchReadKeeps, DispatchArmKeeps, DispatchCreateKeeps,
       DispatchEndsKeeps DEF Dispatching
<1>2. CASE Calling
  BY <1>2, CallbackReadKeeps, CallbackQueueKeeps, CallbackMatchKeeps,
     CallbackPlainKeeps DEF Calling
<1>3. CASE \E b \in Barriers : Closing(b)
  BY <1>3, CancelReadKeeps, FireDueKeeps DEF Closing
<1>4. CASE \E w \in Workers : WorkerChanges(w)
  <2>1. PICK w \in Workers : WorkerChanges(w)
    BY <1>4
  <2> QED
    BY <2>1, EscalationKeeps, WorkerReapedKeeps, WorkerRowKeeps DEF WorkerChanges
<1>5. CASE OwnerChanges
  BY <1>5, CancelKeeps, CancelReadKeeps, ReapReadKeeps, OwnerReapedKeeps,
     OwnerDetachedKeeps, PublishKeeps, RestartKeeps
     DEF OwnerChanges
<1>6. CASE UNCHANGED vars
  <2>1. /\ UNCHANGED store /\ UNCHANGED <<dispatch, arrival, cancel, reap, changes>>
        /\ UNCHANGED <<owner, worker, barrier, member, row, digest, fires>>
    BY <1>6 DEF vars, store
  <2>2. TypeOK'
    BY <2>1 DEF BarrierInv, TypeOK
  <2>3. CancelReadExists' /\ QuietOwner
    BY <2>1 DEF BarrierInv, CancelReadExists, QuietOwner
  <2>4. \A m \in Callbacks : row[m].status = "ABSENT" => row'[m].status = "ABSENT"
    BY <2>1
  <2> QED
    BY <2>1, <2>2, <2>3, <2>4, StoreFrame, QuietStep
<1> QED
  BY <1>1, <1>2, <1>3, <1>4, <1>5, <1>6 DEF Next

(* BarrierInv holds in every reachable state. *)
THEOREM BarrierInvariant == Spec => []BarrierInv
  BY InitInv, NextKeeps, PTL DEF Spec

(* The tables of the barrier store, and what each process has read, keep   *)
(* their types.                                                            *)
THEOREM BarrierTyping == Spec => []TypeOK
<1>1. BarrierInv => TypeOK
  BY DEF BarrierInv
<1> QED
  BY <1>1, BarrierInvariant, PTL

(* However many callbacks, sweeps and cancels race for it, a barrier sends *)
(* its owner at most one combined message (fire_open_barrier).             *)
THEOREM CombinedOnce == Spec => []OneCombinedMessage
<1>1. BarrierInv => OneCombinedMessage
  BY DEF BarrierInv
<1> QED
  BY <1>1, BarrierInvariant, PTL

(* A callback withdrawn from the inbox into a combined message is quoted   *)
(* by it, and a quoted one is not also released to the owner, parked or    *)
(* failed; only the reap of the terminal it was addressed to, which writes *)
(* by id what it read as HELD, may reparent or cancel it after all.        *)
THEOREM DigestExact == Spec => []DigestedIsQuoted
<1>1. BarrierInv => DigestedIsQuoted
  BY DEF BarrierInv
<1> QED
  BY <1>1, BarrierInvariant, PTL

(* The transaction that settles a barrier's last member closes it.         *)
THEOREM CompletionCloses == Spec => []CompletedIsClosed
<1>1. BarrierInv => CompletedIsClosed
  BY DEF BarrierInv
<1> QED
  BY <1>1, BarrierInvariant, PTL

(* Dispatchers that race to open one label meet in the same barrier. *)
THEOREM OneOpenPerLabel == Spec => []OneOpenBarrier
<1>1. BarrierInv => OneOpenBarrier
  BY DEF BarrierInv
<1> QED
  BY <1>1, BarrierInvariant, PTL

=============================================================================
