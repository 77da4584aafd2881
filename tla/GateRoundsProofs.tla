-------------------------- MODULE GateRoundsProofs --------------------------
(***************************************************************************)
(* Theorems about GateRounds, for any finite set of callers and of rounds, *)
(* any snapshots, reports and limits.                                      *)
(*                                                                         *)
(* The argument is the row version: a command's version is never ahead of  *)
(* its row's (CommandOK), every write raises it, so a write that finds it  *)
(* equal knows that the row is still as the command left or read it.       *)
(***************************************************************************)
EXTENDS GateRounds, FiniteSetTheorems, TLAPS

(* What the command of caller c knows of its rows.                            *)
CommandOK(c) ==
    /\ call[c].pc \in {"end_run", "count_rounds", "open_round"} => call[c].run \in Runs
    /\ call[c].pc \in {"freeze", "report", "transition"} =>
          /\ call[c].round \in Rounds
          /\ round[call[c].round].state # "ABSENT"
          /\ call[c].version <= round[call[c].round].version
    /\ call[c].pc = "freeze" => call[c].brings \in Snapshots
    /\ call[c].pc = "report" =>
          /\ call[c].brings \in Reports /\ call[c].target \in {"YES", "NO"}
          /\ call[c].version = round[call[c].round].version
                => round[call[c].round].state = "ADJUDICATING"
    /\ call[c].pc = "transition" =>
          \/ call[c].target = "ADJUDICATING" /\ call[c].brings = None
          \/ /\ call[c].target \in {"YES", "NO"} /\ call[c].brings \in Reports
             /\ call[c].version = round[call[c].round].version
                   => round[call[c].round].report = call[c].brings

(* What holds of every round row.                                           *)
RowOK(i) ==
    /\ round[i].state = "ABSENT" => round[i].snapshot = None /\ round[i].run = None
    /\ round[i].state \in {"BUILT", "ADJUDICATING", "YES", "NO"} => round[i].snapshot # None
    /\ round[i].state # "ABANDONED"
    /\ Settled(i) => verdict[i] # None /\ round[i].report = verdict[i]

Commands == \A c \in Callers : CommandOK(c)

Rows == \A i \in Rounds : RowOK(i)

(* The callers about to insert a round of run r.                              *)
Opening(r) == {c \in Callers : call[c].pc = "open_round" /\ call[c].run = r}

(* A caller that passed the limit check holds a place for its insert.            *)
Places ==
    \A r \in Runs :
        Cardinality(RoundsOf(r)) + Cardinality(Opening(r))
            <= run[r].max + Cardinality(Callers) - 1

(* A run that is not open yet has no limit yet.                               *)
Unopened == \A r \in Runs : run[r].state = "ABSENT" => run[r].max = 0

RoundInv == TypeOK /\ Commands /\ Rows /\ RoundsNumbered /\ Places /\ Unopened

-----------------------------------------------------------------------------
(* Counting.                                                               *)

(* The rounds of a run and the callers opening one are finite sets.             *)
LEMMA Finite ==
    /\ Cardinality(Callers) \in Nat /\ Cardinality(Callers) >= 1
    /\ \A r : /\ IsFiniteSet(RoundsOf(r)) /\ Cardinality(RoundsOf(r)) \in Nat
              /\ IsFiniteSet(Opening(r)) /\ Cardinality(Opening(r)) \in Nat
              /\ Cardinality(Opening(r)) <= Cardinality(Callers)
<1>1. Cardinality(Callers) \in Nat /\ Cardinality(Callers) >= 1
  BY RoundConstants, FS_CardinalityType, FS_EmptySet
<1>2. ASSUME NEW r
      PROVE  /\ IsFiniteSet(RoundsOf(r)) /\ Cardinality(RoundsOf(r)) \in Nat
             /\ IsFiniteSet(Opening(r)) /\ Cardinality(Opening(r)) \in Nat
             /\ Cardinality(Opening(r)) <= Cardinality(Callers)
  <2>1. RoundsOf(r) \subseteq Rounds /\ Opening(r) \subseteq Callers
    BY DEF RoundsOf, Opening
  <2>2. IsFiniteSet(RoundsOf(r)) /\ IsFiniteSet(Opening(r))
    BY <2>1, RoundConstants, FS_Subset
  <2>3. QED BY <2>1, <2>2, RoundConstants, FS_Subset, FS_CardinalityType
<1>3. QED BY <1>1, <1>2

(* The largest of 0..n is n.                                                *)
LEMMA MaxOfInterval ==
    ASSUME NEW n \in Nat
    PROVE  Max({0} \cup 1..n) = n
<1>1. \A x \in {0} \cup 1..n : x <= n /\ x \in Nat
  OBVIOUS
<1>2. n \in {0} \cup 1..n /\ \A y \in {0} \cup 1..n : n >= y
  OBVIOUS
<1>3. \E x \in {0} \cup 1..n : \A y \in {0} \cup 1..n : x >= y
  BY <1>2
<1>4. /\ Max({0} \cup 1..n) \in {0} \cup 1..n
      /\ \A y \in {0} \cup 1..n : Max({0} \cup 1..n) >= y
  BY <1>3 DEF Max
<1>5. QED BY <1>1, <1>2, <1>4

(* The next number of a numbered run is the number of its rounds plus one.       *)
LEMMA NextNumber ==
    ASSUME RoundsNumbered, NEW r \in Runs
    PROVE  NextNo(r) = Cardinality(RoundsOf(r)) + 1
BY Finite, MaxOfInterval DEF RoundsNumbered, NextNo

-----------------------------------------------------------------------------
(* Steps that leave the rounds alone.                                       *)

(* An initial state satisfies the invariant.                                 *)
LEMMA InitInv == Init => RoundInv
<1> SUFFICES ASSUME Init PROVE RoundInv
  OBVIOUS
<1>1. NoRun \in RunRow /\ NoRound \in RoundRow /\ Idle \in CallRow
  BY DEF NoRun, NoRound, Idle, Call, RunRow, RoundRow, CallRow, RunStates, RoundStates
<1>2. TypeOK
  BY <1>1 DEF Init, TypeOK
<1>3. Commands
  BY DEF Init, Commands, CommandOK, Idle, Call
<1>4. Rows
  BY DEF Init, Rows, RowOK, NoRound, Settled
<1>5. \A r \in Runs : RoundsOf(r) = {} /\ Opening(r) = {} /\ run[r].max = 0
  BY RoundConstants DEF Init, RoundsOf, Opening, NoRound, NoRun, Idle, Call
<1>6. RoundsNumbered
  BY <1>5, FS_EmptySet DEF RoundsNumbered
<1>7. Places
  BY <1>5, FS_EmptySet, Finite DEF Places
<1>8. Unopened
  BY <1>5 DEF Unopened
<1>9. QED BY <1>2, <1>3, <1>4, <1>6, <1>7, <1>8 DEF RoundInv

(* A step that keeps the rounds and the verdicts keeps what is said of them.     *)
LEMMA SameRows ==
    ASSUME Rows, RoundsNumbered, round' = round, verdict' = verdict
    PROVE  Rows' /\ RoundsNumbered' /\ \A r : RoundsOf(r)' = RoundsOf(r)
BY DEF Rows, RowOK, Settled, RoundsNumbered, RoundsOf

(* The insertion places are kept when no caller comes to an insert and no limit  *)
(* falls.                                                                  *)
LEMMA SamePlaces ==
    ASSUME Places, round' = round,
           TypeOK, TypeOK',
           \A r \in Runs : run'[r].max >= run[r].max,
           \A c \in Callers : call'[c] # call[c] => call'[c].pc # "open_round"
    PROVE  Places'
<1> SUFFICES ASSUME NEW r \in Runs
      PROVE (Cardinality(RoundsOf(r)) + Cardinality(Opening(r))
               <= run[r].max + Cardinality(Callers) - 1)'
  BY DEF Places
<1>1. RoundsOf(r)' = RoundsOf(r)
  BY DEF RoundsOf
<1>2. Opening(r)' \subseteq Opening(r)
  BY DEF Opening
<1>3. Cardinality(Opening(r)') <= Cardinality(Opening(r)) /\ Cardinality(Opening(r)') \in Nat
  BY <1>2, Finite, FS_Subset, FS_CardinalityType
<1>4. run[r].max \in Nat /\ run'[r].max \in Nat /\ run'[r].max >= run[r].max
  BY DEF TypeOK, RunRow
<1>5. Cardinality(RoundsOf(r)) + Cardinality(Opening(r)) <= run[r].max + Cardinality(Callers) - 1
  BY DEF Places
<1>6. QED BY <1>1, <1>3, <1>4, <1>5, Finite

(* Run rows change, and nothing else.                                       *)
LEMMA RunStep ==
    ASSUME RoundInv, run' \in [Runs -> RunRow],
           \A r \in Runs : run'[r].max >= run[r].max, Unopened',
           claims' \in Nat, UNCHANGED <<round, call, verdict>>
    PROVE  RoundInv'
<1>1. TypeOK'
  BY DEF RoundInv, TypeOK
<1>2. Commands'
  BY DEF RoundInv, Commands, CommandOK
<1>3. QED BY <1>1, <1>2, SameRows, SamePlaces DEF RoundInv

(* A caller's command changes, and nothing else, and it is not brought to an      *)
(* insert.                                                                *)
LEMMA CallStep ==
    ASSUME RoundInv, NEW c \in Callers, NEW row \in CallRow,
           call' = [call EXCEPT ![c] = row], row.pc # "open_round",
           CommandOK(c)', UNCHANGED <<run, round, verdict, claims>>
    PROVE  RoundInv'
<1>1. TypeOK'
  BY DEF RoundInv, TypeOK
<1>2. ASSUME NEW d \in Callers PROVE CommandOK(d)'
  <2>1. CASE d = c BY <2>1
  <2>2. CASE d # c
    <3>1. call'[d] = call[d] /\ CommandOK(d)
      BY <2>2 DEF RoundInv, TypeOK, Commands
    <3>2. QED BY <3>1 DEF CommandOK
  <2>3. QED BY <2>1, <2>2
<1>3. \A d \in Callers : call'[d] # call[d] => call'[d].pc # "open_round"
  BY DEF RoundInv, TypeOK
<1>4. \A r \in Runs : run'[r].max >= run[r].max
  BY DEF RoundInv, TypeOK, RunRow
<1>5. Unopened'
  BY DEF RoundInv, Unopened
<1>6. QED BY <1>1, <1>2, <1>3, <1>4, <1>5, SameRows, SamePlaces DEF RoundInv, Commands

(* A command that ends leaves nothing behind.                                *)
LEMMA IdleOK ==
    ASSUME TypeOK, NEW c \in Callers, call' = [call EXCEPT ![c] = Idle]
    PROVE  Idle \in CallRow /\ Idle.pc = "idle" /\ CommandOK(c)'
<1>1. Idle \in CallRow /\ Idle.pc = "idle"
  BY DEF Idle, Call, CallRow, RoundStates
<1>2. call'[c] = Idle
  BY DEF TypeOK
<1>3. QED BY <1>1, <1>2 DEF CommandOK

(* A refused transaction, or the death of its caller, keeps the invariant.       *)
LEMMA RefusedInv ==
    ASSUME RoundInv, NEW c \in Callers, Refused(c)
    PROVE  RoundInv'
<1>1. call' = [call EXCEPT ![c] = Idle] /\ UNCHANGED <<run, round, verdict, claims>>
  BY DEF Refused, Return
<1>2. Idle \in CallRow /\ Idle.pc # "open_round" /\ CommandOK(c)'
  BY <1>1, IdleOK DEF RoundInv
<1>3. QED BY <1>1, <1>2, CallStep

-----------------------------------------------------------------------------
(* Runs, and the reads.                                                     *)

(* Opening, ending and claiming runs.                                       *)
LEMMA RunsInv ==
    ASSUME RoundInv
    PROVE  /\ \A r \in Runs, max \in MaxRounds : open_run(r, max) => RoundInv'
           /\ \A r \in Runs : claim_ownership(r) => RoundInv'
           /\ \A c \in Callers : transition_run(c) => RoundInv'
<1>1. ASSUME NEW r \in Runs, NEW max \in MaxRounds, open_run(r, max) PROVE RoundInv'
  <2> DEFINE row == [state |-> "OPEN", max |-> max, version |-> 1]
  <2>1. row \in RunRow /\ row.max = max /\ max \in Nat
    BY RoundConstants DEF RunRow, RunStates
  <2>2. run' = [run EXCEPT ![r] = row] /\ UNCHANGED <<round, call, verdict, claims>>
    BY <1>1 DEF open_run
  <2> HIDE DEF row
  <2>3. ASSUME NEW s \in Runs PROVE run'[s].max >= run[s].max
    <3>1. run[s].max \in Nat
      BY DEF RoundInv, TypeOK, RunRow
    <3>2. CASE s = r
      <4>1. run[r].max <= max
        BY <1>1, <2>1 DEF RoundInv, Unopened, open_run
      <4>2. QED BY <4>1, <3>2, <2>1, <2>2 DEF RoundInv, TypeOK
    <3>3. CASE s # r
      BY <3>3, <3>1, <2>2 DEF RoundInv, TypeOK
    <3>4. QED BY <3>2, <3>3
  <2>4. run' \in [Runs -> RunRow] /\ claims' \in Nat
    BY <2>1, <2>2 DEF RoundInv, TypeOK
  <2>5. Unopened'
    <3>1. row.state = "OPEN" BY DEF row
    <3>2. QED BY <3>1, <2>2 DEF RoundInv, TypeOK, Unopened
  <2>6. QED BY <2>2, <2>3, <2>4, <2>5, RunStep
<1>2. ASSUME NEW r \in Runs, claim_ownership(r) PROVE RoundInv'
  <2>1. run[r] \in RunRow /\ run \in [Runs -> RunRow]
    BY DEF RoundInv, TypeOK
  <2>2. [run[r] EXCEPT !.version = @ + 1] \in RunRow
    BY <2>1 DEF RunRow
  <2>3. run' = [run EXCEPT ![r] = [run[r] EXCEPT !.version = @ + 1]]
    BY <1>2, <2>1 DEF claim_ownership
  <2>4. run' \in [Runs -> RunRow]
    BY <2>1, <2>2, <2>3
  <2>5. \A s \in Runs : run'[s].max >= run[s].max
    BY <2>1, <2>3 DEF RunRow
  <2>6. claims' \in Nat /\ UNCHANGED <<round, call, verdict>>
    BY <1>2 DEF claim_ownership, RoundInv, TypeOK
  <2>7. Unopened'
    <3>1. \A s \in Runs : run'[s].max = run[s].max /\ run'[s].state = run[s].state
      BY <2>1, <2>3 DEF RunRow
    <3>2. QED BY <3>1 DEF RoundInv, Unopened
  <2>8. QED BY <2>4, <2>5, <2>6, <2>7, RunStep
<1>3. ASSUME NEW c \in Callers, transition_run(c) PROVE RoundInv'
  <2>1. CASE Refused(c) BY <2>1, RefusedInv
  <2>2. CASE ~ Refused(c)
    <3> DEFINE r == call[c].run
               row == [run[r] EXCEPT !.state = call[c].target, !.version = @ + 1]
    <3>1. /\ r \in Runs /\ call[c].pc = "end_run"
          /\ next_run_state(run[r].state, call[c].target)
          /\ run' = [run EXCEPT ![r].state = call[c].target, ![r].version = @ + 1]
          /\ Return(c) /\ UNCHANGED <<round, verdict, claims>>
      BY <1>3, <2>2 DEF transition_run, RoundInv, Commands, CommandOK
    <3>2. run[r] \in RunRow /\ run \in [Runs -> RunRow]
      BY <3>1 DEF RoundInv, TypeOK
    <3>3. row \in RunRow /\ row.max = run[r].max
      BY <3>1, <3>2 DEF RunRow, RunStates, next_run_state
    <3>4. run' = [run EXCEPT ![r] = row]
      BY <3>1, <3>2
    <3> HIDE DEF row
    <3>5. run' \in [Runs -> RunRow] /\ \A s \in Runs : run'[s].max = run[s].max /\ run[s].max \in Nat
      BY <3>2, <3>3, <3>4 DEF RunRow
    <3>6. call' = [call EXCEPT ![c] = Idle]
      BY <3>1 DEF Return
    <3>7. Idle \in CallRow /\ Idle.pc = "idle" /\ CommandOK(c)'
      BY <3>6, IdleOK DEF RoundInv
    <3>8. call' \in [Callers -> CallRow]
      BY <3>6, <3>7 DEF RoundInv, TypeOK
    <3>9. TypeOK'
      BY <3>1, <3>5, <3>8 DEF RoundInv, TypeOK
    <3>10. Commands'
      <4> SUFFICES ASSUME NEW d \in Callers, d # c PROVE CommandOK(d)'
        BY <3>7 DEF Commands
      <4>1. call'[d] = call[d] /\ CommandOK(d)
        BY <3>6 DEF RoundInv, TypeOK, Commands
      <4>2. QED BY <4>1, <3>1 DEF CommandOK
    <3>11. \A d \in Callers : call'[d] # call[d] => call'[d].pc # "open_round"
      BY <3>6, <3>7 DEF RoundInv, TypeOK
    <3>12. Unopened'
      <4>1. row.state # "ABSENT"
        BY <3>1, <3>2 DEF row, RunRow, next_run_state
      <4>2. QED BY <4>1, <3>2, <3>4 DEF RoundInv, Unopened
    <3>13. QED BY <3>1, <3>5, <3>9, <3>10, <3>11, <3>12, SameRows, SamePlaces DEF RoundInv
  <2>3. QED BY <2>1, <2>2
<1>4. QED BY <1>1, <1>2, <1>3

(* The first step of a command: it notes what it read.                        *)
LEMMA ReadsInv ==
    ASSUME RoundInv, NEW c \in Callers
    PROVE  /\ \A r \in Runs, target \in RunStates : EndRunRead(c, r, target) => RoundInv'
           /\ \A r \in Runs : OpenRoundRead(c, r) => RoundInv'
           /\ \A i \in Rounds, s \in Snapshots : FreezeRead(c, i, s) => RoundInv'
           /\ \A i \in Rounds : BeginRead(c, i) => RoundInv'
           /\ \A i \in Rounds, target \in RoundStates, p \in Reports :
                SettleRead(c, i, target, p) => RoundInv'
<1>1. ASSUME NEW r \in Runs, NEW target \in RunStates, EndRunRead(c, r, target) PROVE RoundInv'
  <2> DEFINE row == Call("end_run", r, None, run[r].version, target, None)
  <2>1. call' = [call EXCEPT ![c] = row] /\ UNCHANGED <<run, round, verdict, claims>>
    BY <1>1 DEF EndRunRead
  <2>2. row \in CallRow /\ row.pc = "end_run" /\ row.run = r
    BY DEF RoundInv, TypeOK, RunRow, CallRow, Call
  <2> HIDE DEF row
  <2>3. call'[c] = row
    BY <2>1 DEF RoundInv, TypeOK
  <2>4. CommandOK(c)'
    BY <2>2, <2>3 DEF CommandOK
  <2>5. QED BY <2>1, <2>2, <2>4, CallStep
<1>2. ASSUME NEW r \in Runs, OpenRoundRead(c, r) PROVE RoundInv'
  <2> DEFINE row == Call("count_rounds", r, None, 0, "ABSENT", None)
  <2>1. call' = [call EXCEPT ![c] = row] /\ UNCHANGED <<run, round, verdict, claims>>
    BY <1>2 DEF OpenRoundRead
  <2>2. row \in CallRow /\ row.pc = "count_rounds" /\ row.run = r
    BY DEF CallRow, Call, RunStates
  <2> HIDE DEF row
  <2>3. call'[c] = row
    BY <2>1 DEF RoundInv, TypeOK
  <2>4. CommandOK(c)'
    BY <2>2, <2>3 DEF CommandOK
  <2>5. QED BY <2>1, <2>2, <2>4, CallStep
<1>3. ASSUME NEW i \in Rounds, NEW s \in Snapshots, FreezeRead(c, i, s) PROVE RoundInv'
  <2> DEFINE row == Call("freeze", None, i, round[i].version, "ABSENT", s)
  <2>1. call' = [call EXCEPT ![c] = row] /\ UNCHANGED <<run, round, verdict, claims>>
    BY <1>3 DEF FreezeRead
  <2>2. round[i].version \in Nat /\ round[i].state # "ABSENT"
    BY <1>3 DEF RoundInv, TypeOK, RoundRow, FreezeRead, next_round_state
  <2>3. /\ row \in CallRow /\ row.pc = "freeze" /\ row.round = i /\ row.brings = s
        /\ row.version = round[i].version
    BY <2>2 DEF CallRow, Call, RunStates
  <2> HIDE DEF row
  <2>4. call'[c] = row
    BY <2>1 DEF RoundInv, TypeOK
  <2>5. CommandOK(c)'
    BY <2>1, <2>2, <2>3, <2>4 DEF CommandOK
  <2>6. QED BY <2>1, <2>3, <2>5, CallStep
<1>4. ASSUME NEW i \in Rounds, BeginRead(c, i) PROVE RoundInv'
  <2> DEFINE row == Call("transition", None, i, round[i].version, "ADJUDICATING", None)
  <2>1. call' = [call EXCEPT ![c] = row] /\ UNCHANGED <<run, round, verdict, claims>>
    BY <1>4 DEF BeginRead
  <2>2. round[i].version \in Nat /\ round[i].state # "ABSENT"
    BY <1>4 DEF RoundInv, TypeOK, RoundRow, BeginRead, next_round_state
  <2>3. /\ row \in CallRow /\ row.pc = "transition" /\ row.round = i /\ row.brings = None
        /\ row.version = round[i].version /\ row.target = "ADJUDICATING"
    BY <2>2 DEF CallRow, Call, RoundStates
  <2> HIDE DEF row
  <2>4. call'[c] = row
    BY <2>1 DEF RoundInv, TypeOK
  <2>5. CommandOK(c)'
    BY <2>1, <2>2, <2>3, <2>4 DEF CommandOK
  <2>6. QED BY <2>1, <2>3, <2>5, CallStep
<1>5. ASSUME NEW i \in Rounds, NEW target \in RoundStates, NEW p \in Reports,
             SettleRead(c, i, target, p)
      PROVE RoundInv'
  <2> DEFINE row == Call("report", None, i, round[i].version, target, p)
  <2>1. call' = [call EXCEPT ![c] = row] /\ UNCHANGED <<run, round, verdict, claims>>
    BY <1>5 DEF SettleRead
  <2>2. /\ round[i].version \in Nat /\ round[i].state = "ADJUDICATING"
        /\ target \in {"YES", "NO"}
    BY <1>5 DEF RoundInv, TypeOK, RoundRow, SettleRead, next_round_state
  <2>3. /\ row \in CallRow /\ row.pc = "report" /\ row.round = i /\ row.brings = p
        /\ row.version = round[i].version /\ row.target = target
    BY <2>2 DEF CallRow, Call
  <2> HIDE DEF row
  <2>4. call'[c] = row
    BY <2>1 DEF RoundInv, TypeOK
  <2>5. CommandOK(c)'
    BY <2>1, <2>2, <2>3, <2>4 DEF CommandOK
  <2>6. QED BY <2>1, <2>3, <2>5, CallStep
<1>6. QED BY <1>1, <1>2, <1>3, <1>4, <1>5

-----------------------------------------------------------------------------
(* Opening a round.                                                        *)

(* The limit check: the caller that passes it takes one of the places.           *)
LEMMA CountInv ==
    ASSUME RoundInv, NEW c \in Callers, OpenRoundCount(c)
    PROVE  RoundInv'
<1>0. PICK r \in Runs : r = call[c].run
  BY DEF OpenRoundCount, RoundInv, Commands, CommandOK
<1>1. call[c].pc = "count_rounds" /\ r \in Runs /\ UNCHANGED <<run, round, verdict, claims>>
  BY DEF OpenRoundCount, RoundInv, Commands, CommandOK
<1>2. CASE ~(Cardinality(LiveRounds(r)) < run[r].max)
  <2>1. Refused(c)
    BY <1>0, <1>1, <1>2 DEF OpenRoundCount, Refused
  <2>2. QED BY <2>1, RefusedInv
<1>3. CASE Cardinality(LiveRounds(r)) < run[r].max
  <2> DEFINE row == [call[c] EXCEPT !.pc = "open_round"]
  <2>1. call[c] \in CallRow /\ call \in [Callers -> CallRow]
    BY DEF RoundInv, TypeOK
  <2>2. row \in CallRow /\ row.pc = "open_round" /\ row.run = r
    BY <1>0, <2>1 DEF CallRow
  <2>3. call' = [call EXCEPT ![c] = row]
    BY <1>0, <1>3, <2>1 DEF OpenRoundCount
  <2> HIDE DEF row
  <2>4. TypeOK'
    BY <1>1, <2>1, <2>2, <2>3 DEF RoundInv, TypeOK
  <2>5. Commands'
    <3> SUFFICES ASSUME NEW d \in Callers PROVE CommandOK(d)'
      BY DEF Commands
    <3>1. CASE d = c
      BY <3>1, <1>1, <2>1, <2>2, <2>3 DEF CommandOK
    <3>2. CASE d # c
      <4>1. call'[d] = call[d] /\ CommandOK(d)
        BY <3>2, <2>1, <2>3 DEF RoundInv, Commands
      <4>2. QED BY <4>1, <1>1 DEF CommandOK
    <3>3. QED BY <3>1, <3>2
  <2>6. Places'
    <3> SUFFICES ASSUME NEW s \in Runs
          PROVE (Cardinality(RoundsOf(s)) + Cardinality(Opening(s))
                   <= run[s].max + Cardinality(Callers) - 1)'
      BY DEF Places
    <3>1. RoundsOf(s)' = RoundsOf(s)
      BY <1>1 DEF RoundsOf
    <3>2. CASE s = r
      <4>1. LiveRounds(r) = RoundsOf(r)
        BY DEF LiveRounds, RoundsOf, RoundInv, Rows, RowOK
      <4>2. Opening(r)' \subseteq Callers
        BY DEF Opening
      <4>3. Cardinality(Opening(r)') <= Cardinality(Callers) /\ Cardinality(Opening(r)') \in Nat
        BY <4>2, RoundConstants, FS_Subset, FS_CardinalityType
      <4>4. run[r].max \in Nat
        BY <1>1 DEF RoundInv, TypeOK, RunRow
      <4>5. Cardinality(RoundsOf(r)) + 1 <= run[r].max
        BY <4>1, <4>4, <1>3, Finite
      <4>6. QED BY <3>1, <3>2, <4>3, <4>4, <4>5, <1>1, Finite
    <3>3. CASE s # r
      <4>1. Opening(s)' = Opening(s)
        BY <3>3, <1>0, <1>1, <2>1, <2>2, <2>3 DEF Opening
      <4>2. QED BY <4>1, <3>1, <1>1 DEF RoundInv, Places
    <3>4. QED BY <3>2, <3>3
  <2>7. Unopened'
    BY <1>1 DEF RoundInv, Unopened
  <2>8. QED BY <1>1, <2>4, <2>5, <2>6, <2>7, SameRows DEF RoundInv
<1>4. QED BY <1>2, <1>3

(* The insert: the next number, and the caller's place.                        *)
LEMMA InsertInv ==
    ASSUME RoundInv, NEW c \in Callers, NEW i \in Rounds, open_round(c, i)
    PROVE  RoundInv'
<1>0. PICK r \in Runs : r = call[c].run
  BY DEF open_round, RoundInv, Commands, CommandOK
<1> DEFINE n == Cardinality(RoundsOf(r))
           row == [state |-> "OPEN", run |-> r, no |-> NextNo(r),
                   snapshot |-> None, report |-> None, version |-> 1]
<1>1. call[c].pc = "open_round" /\ r \in Runs /\ UNCHANGED <<run, verdict, claims>>
  BY DEF open_round, RoundInv, Commands, CommandOK
<1>2. NextNo(r) = n + 1 /\ n \in Nat
  BY <1>1, NextNumber, Finite DEF RoundInv
<1>3. /\ row \in RoundRow /\ row.run = r /\ row.no = n + 1 /\ row.state = "OPEN"
      /\ row.snapshot = None /\ row.version = 1
  BY <1>1, <1>2 DEF RoundRow, RoundStates
<1>4. round' = [round EXCEPT ![i] = row] /\ call' = [call EXCEPT ![c] = Idle]
  BY <1>0 DEF open_round, Return
<1>5. round[i].state = "ABSENT" /\ round[i].run = None
  BY DEF open_round, RoundInv, Rows, RowOK
<1>6. /\ round \in [Rounds -> RoundRow] /\ call \in [Callers -> CallRow]
      /\ verdict \in [Rounds -> Reports \cup {None}]
  BY DEF RoundInv, TypeOK
<1>7. Idle \in CallRow /\ Idle.pc = "idle" /\ CommandOK(c)'
  BY <1>4, IdleOK DEF RoundInv
<1> HIDE DEF row
<1>8. TypeOK'
  BY <1>1, <1>3, <1>4, <1>6, <1>7 DEF RoundInv, TypeOK
<1>9. Commands'
  <2> SUFFICES ASSUME NEW d \in Callers, d # c PROVE CommandOK(d)'
    BY <1>7 DEF Commands
  <2>1. call'[d] = call[d] /\ CommandOK(d)
    BY <1>4, <1>6 DEF RoundInv, Commands
  <2>2. call[d].pc \in {"freeze", "report", "transition"}
           => round'[call[d].round] = round[call[d].round]
    BY <2>1, <1>4, <1>5, <1>6 DEF CommandOK
  <2>3. QED BY <2>1, <2>2 DEF CommandOK
<1>10. Rows'
  <2> SUFFICES ASSUME NEW j \in Rounds PROVE RowOK(j)'
    BY DEF Rows
  <2>1. CASE j = i
    BY <2>1, <1>3, <1>4, <1>6 DEF RowOK, Settled
  <2>2. CASE j # i
    <3>1. round'[j] = round[j] /\ verdict'[j] = verdict[j] /\ RowOK(j)
      BY <2>2, <1>1, <1>4, <1>6 DEF RoundInv, Rows
    <3>2. QED BY <3>1 DEF RowOK, Settled
  <2>3. QED BY <2>1, <2>2
<1>11. RoundsOf(r)' = RoundsOf(r) \cup {i} /\ i \notin RoundsOf(r)
  BY <1>1, <1>3, <1>4, <1>5, <1>6, RoundConstants DEF RoundsOf
<1>12. \A s \in Runs : s # r => RoundsOf(s)' = RoundsOf(s) /\ i \notin RoundsOf(s)
  BY <1>1, <1>3, <1>4, <1>5, <1>6, RoundConstants DEF RoundsOf
<1>13. Cardinality(RoundsOf(r)') = n + 1
  BY <1>11, Finite, FS_AddElement
<1>14. RoundsNumbered'
  <2> SUFFICES ASSUME NEW s \in Runs
        PROVE ({round[j].no : j \in RoundsOf(s)} = 1..Cardinality(RoundsOf(s)))'
    BY DEF RoundsNumbered
  <2>1. {round[j].no : j \in RoundsOf(s)} = 1..Cardinality(RoundsOf(s))
    BY DEF RoundInv, RoundsNumbered
  <2>2. \A j \in RoundsOf(s) : j # i => round'[j] = round[j]
    BY <1>4, <1>6 DEF RoundsOf
  <2>3. CASE s = r
    <3>1. round'[i].no = n + 1
      BY <1>3, <1>4, <1>6
    <3>2. {round'[j].no : j \in RoundsOf(s)'} = {round[j].no : j \in RoundsOf(s)} \cup {n + 1}
      BY <2>2, <2>3, <3>1, <1>11
    <3>3. {round[j].no : j \in RoundsOf(s)} = 1..n
      BY <2>1, <2>3
    <3>4. (1..n) \cup {n + 1} = 1..(n + 1)
      BY <1>2
    <3>5. QED BY <3>2, <3>3, <3>4, <1>13, <2>3
  <2>4. CASE s # r
    BY <2>1, <2>2, <2>4, <1>12
  <2>5. QED BY <2>3, <2>4
<1>15. Places'
  <2> SUFFICES ASSUME NEW s \in Runs
        PROVE (Cardinality(RoundsOf(s)) + Cardinality(Opening(s))
                 <= run[s].max + Cardinality(Callers) - 1)'
    BY DEF Places
  <2>1. /\ Cardinality(RoundsOf(s)) + Cardinality(Opening(s))
              <= run[s].max + Cardinality(Callers) - 1
        /\ run[s].max \in Nat
    BY DEF RoundInv, Places, TypeOK, RunRow
  <2>2. CASE s = r
    <3>1. Opening(r)' = Opening(r) \ {c} /\ c \in Opening(r)
      BY <1>0, <1>1, <1>4, <1>6, <1>7 DEF Opening
    <3>2. Cardinality(Opening(r)') = Cardinality(Opening(r)) - 1
      BY <3>1, Finite, FS_RemoveElement
    <3>3. QED BY <2>1, <2>2, <3>2, <1>1, <1>2, <1>13, Finite
  <2>3. CASE s # r
    <3>1. Opening(s)' = Opening(s)
      BY <2>3, <1>0, <1>4, <1>6, <1>7 DEF Opening
    <3>2. QED BY <3>1, <2>1, <2>3, <1>1, <1>12
  <2>4. QED BY <2>2, <2>3
<1>16. Unopened'
  BY <1>1 DEF RoundInv, Unopened
<1>17. QED BY <1>8, <1>9, <1>10, <1>14, <1>15, <1>16 DEF RoundInv

-----------------------------------------------------------------------------
(* Writing a round.                                                        *)

(* A write that raises the version of row i and ends or advances the command of   *)
(* caller c: every other command on the row is left behind it.                 *)
LEMMA RowStep ==
    ASSUME RoundInv, NEW c \in Callers, NEW i \in Rounds, NEW row \in RoundRow,
           NEW mine \in CallRow,
           round' = [round EXCEPT ![i] = row], call' = [call EXCEPT ![c] = mine],
           mine.pc # "open_round", row.run = round[i].run, row.no = round[i].no,
           row.state # "ABSENT", row.version = round[i].version + 1,
           CommandOK(c)', RowOK(i)',
           verdict' \in [Rounds -> Reports \cup {None}],
           \A j \in Rounds : j # i => verdict'[j] = verdict[j],
           UNCHANGED <<run, claims>>
    PROVE  RoundInv'
<1>1. round \in [Rounds -> RoundRow] /\ call \in [Callers -> CallRow]
  BY DEF RoundInv, TypeOK
<1>2. TypeOK'
  BY <1>1 DEF RoundInv, TypeOK
<1>3. Commands'
  <2> SUFFICES ASSUME NEW d \in Callers, d # c PROVE CommandOK(d)'
    BY DEF Commands
  <2>1. call'[d] = call[d] /\ CommandOK(d) /\ call[d].version \in Nat
    BY <1>1 DEF RoundInv, Commands, CallRow
  <2>2. CASE call[d].round = i
    <3>1. round'[i] = row /\ round[i].version \in Nat
      BY <1>1 DEF RoundRow
    <3>2. call[d].pc \in {"freeze", "report", "transition"} => call[d].version < row.version
      BY <2>1, <2>2, <3>1 DEF CommandOK
    <3>3. QED BY <2>1, <2>2, <3>1, <3>2 DEF CommandOK
  <2>3. CASE call[d].round # i
    <3>1. call[d].pc \in {"freeze", "report", "transition"}
             => round'[call[d].round] = round[call[d].round]
      BY <2>1, <2>3, <1>1 DEF CommandOK
    <3>2. QED BY <2>1, <3>1 DEF CommandOK
  <2>4. QED BY <2>2, <2>3
<1>4. Rows'
  <2> SUFFICES ASSUME NEW j \in Rounds, j # i PROVE RowOK(j)'
    BY DEF Rows
  <2>1. round'[j] = round[j] /\ verdict'[j] = verdict[j] /\ RowOK(j)
    BY <1>1 DEF RoundInv, Rows
  <2>2. QED BY <2>1 DEF RowOK, Settled
<1>5. \A j \in Rounds : round'[j].run = round[j].run /\ round'[j].no = round[j].no
  BY <1>1
<1>6. \A r : RoundsOf(r)' = RoundsOf(r)
  BY <1>5 DEF RoundsOf
<1>7. RoundsNumbered'
  <2>1. \A r \in Runs : {round'[j].no : j \in RoundsOf(r)'} = {round[j].no : j \in RoundsOf(r)}
    BY <1>5, <1>6 DEF RoundsOf
  <2>2. QED BY <2>1, <1>6 DEF RoundInv, RoundsNumbered
<1>8. Places'
  <2> SUFFICES ASSUME NEW r \in Runs
        PROVE (Cardinality(RoundsOf(r)) + Cardinality(Opening(r))
                 <= run[r].max + Cardinality(Callers) - 1)'
    BY DEF Places
  <2>1. Opening(r)' \subseteq Opening(r)
    BY <1>1 DEF Opening
  <2>2. Cardinality(Opening(r)') <= Cardinality(Opening(r)) /\ Cardinality(Opening(r)') \in Nat
    BY <2>1, Finite, FS_Subset, FS_CardinalityType
  <2>3. /\ Cardinality(RoundsOf(r)) + Cardinality(Opening(r))
              <= run[r].max + Cardinality(Callers) - 1
        /\ run[r].max \in Nat
    BY DEF RoundInv, Places, TypeOK, RunRow
  <2>4. QED BY <1>6, <2>2, <2>3, Finite
<1>9. Unopened'
  BY DEF RoundInv, Unopened
<1>10. QED BY <1>2, <1>3, <1>4, <1>7, <1>8, <1>9 DEF RoundInv

(* Freezing a snapshot.                                                     *)
LEMMA FreezeInv ==
    ASSUME RoundInv, NEW c \in Callers, freeze_review_snapshot(c)
    PROVE  RoundInv'
<1>1. CASE Refused(c) BY <1>1, RefusedInv
<1>2. CASE ~ Refused(c)
  <2>1. PICK i \in Rounds : i = call[c].round
    BY DEF freeze_review_snapshot, RoundInv, Commands, CommandOK
  <2> DEFINE row == [state |-> "BUILT", run |-> round[i].run, no |-> round[i].no,
                     snapshot |-> call[c].brings, report |-> round[i].report,
                     version |-> round[i].version + 1]
  <2>2. /\ call[c].brings \in Snapshots
        /\ round' = [round EXCEPT ![i].snapshot = call[c].brings,
                                  ![i].state = "BUILT", ![i].version = @ + 1]
        /\ call' = [call EXCEPT ![c] = Idle] /\ UNCHANGED <<run, verdict, claims>>
    BY <2>1, <1>2 DEF freeze_review_snapshot, RoundInv, Commands, CommandOK, Return
  <2>3. round[i] \in RoundRow /\ round \in [Rounds -> RoundRow]
    BY DEF RoundInv, TypeOK
  <2>4. row \in RoundRow
    BY <2>2, <2>3 DEF RoundRow, RoundStates
  <2>5. round' = [round EXCEPT ![i] = row]
    BY <2>2, <2>3 DEF RoundRow
  <2>6. /\ row.run = round[i].run /\ row.no = round[i].no /\ row.state = "BUILT"
        /\ row.version = round[i].version + 1 /\ row.snapshot # None
    BY <2>2, RoundConstants
  <2> HIDE DEF row
  <2>7. Idle \in CallRow /\ Idle.pc = "idle" /\ CommandOK(c)'
    BY <2>2, IdleOK DEF RoundInv
  <2>8. RowOK(i)'
    BY <2>3, <2>5, <2>6 DEF RowOK, Settled
  <2>9. QED BY <2>2, <2>4, <2>5, <2>6, <2>7, <2>8, RowStep DEF RoundInv, TypeOK
<1>3. QED BY <1>1, <1>2

(* Recording a report.                                                      *)
LEMMA ReportInv ==
    ASSUME RoundInv, NEW c \in Callers, set_round_report(c)
    PROVE  RoundInv'
<1>1. CASE Refused(c) BY <1>1, RefusedInv
<1>2. CASE ~ Refused(c)
  <2>1. PICK i \in Rounds : i = call[c].round
    BY DEF set_round_report, RoundInv, Commands, CommandOK
  <2> DEFINE row == [state |-> round[i].state, run |-> round[i].run, no |-> round[i].no,
                     snapshot |-> round[i].snapshot, report |-> call[c].brings,
                     version |-> round[i].version + 1]
             mine == Call("transition", call[c].run, i, call[c].version + 1,
                          call[c].target, call[c].brings)
  <2>2. /\ call[c].brings \in Reports /\ call[c].pc = "report"
        /\ round[i].version = call[c].version /\ round[i].state = "ADJUDICATING"
        /\ round' = [round EXCEPT ![i].report = call[c].brings, ![i].version = @ + 1]
        /\ call' = [call EXCEPT ![c].pc = "transition", ![c].version = @ + 1]
        /\ UNCHANGED <<run, verdict, claims>>
    BY <2>1, <1>2 DEF set_round_report, RoundInv, Commands, CommandOK
  <2>3. round[i] \in RoundRow /\ round \in [Rounds -> RoundRow]
    BY DEF RoundInv, TypeOK
  <2>4. call[c] \in CallRow /\ call \in [Callers -> CallRow]
    BY DEF RoundInv, TypeOK
  <2>5. row \in RoundRow
    BY <2>2, <2>3 DEF RoundRow
  <2>6. mine \in CallRow
    BY <2>4 DEF CallRow, Call
  <2>7. round' = [round EXCEPT ![i] = row]
    BY <2>2, <2>3 DEF RoundRow
  <2>8. call' = [call EXCEPT ![c] = mine]
    BY <2>1, <2>2, <2>4 DEF CallRow, Call
  <2>9. /\ row.run = round[i].run /\ row.no = round[i].no /\ row.state = "ADJUDICATING"
        /\ row.version = round[i].version + 1 /\ row.snapshot = round[i].snapshot
        /\ row.report = call[c].brings
    BY <2>2
  <2>10. /\ mine.pc = "transition" /\ mine.round = i /\ mine.target = call[c].target
         /\ mine.version = round[i].version + 1 /\ mine.brings = call[c].brings
    BY <2>2 DEF Call
  <2>11. call[c].target \in {"YES", "NO"}
    BY <2>2 DEF RoundInv, Commands, CommandOK
  <2> HIDE DEF row, mine
  <2>12. CommandOK(c)'
    <3>1. call'[c] = mine /\ round'[i] = row
      BY <2>3, <2>4, <2>7, <2>8
    <3>2. row.version \in Nat
      BY <2>5 DEF RoundRow
    <3>3. QED BY <3>1, <3>2, <2>2, <2>9, <2>10, <2>11 DEF CommandOK
  <2>13. RowOK(i)'
    BY <2>2, <2>3, <2>7, <2>9 DEF RowOK, Settled, RoundInv, Rows
  <2>14. QED BY <2>2, <2>5, <2>6, <2>7, <2>8, <2>9, <2>10, <2>12, <2>13, RowStep
             DEF RoundInv, TypeOK
<1>3. QED BY <1>1, <1>2

(* Beginning and settling an adjudication.                                   *)
LEMMA TransitionInv ==
    ASSUME RoundInv, NEW c \in Callers, transition_round(c)
    PROVE  RoundInv'
<1>1. CASE Refused(c) BY <1>1, RefusedInv
<1>2. CASE ~ Refused(c)
  <2>1. PICK i \in Rounds : i = call[c].round
    BY DEF transition_round, RoundInv, Commands, CommandOK
  <2> DEFINE row == [state |-> call[c].target, run |-> round[i].run, no |-> round[i].no,
                     snapshot |-> round[i].snapshot, report |-> round[i].report,
                     version |-> round[i].version + 1]
  <2>2. /\ call[c].pc = "transition" /\ next_round_state(round[i].state, call[c].target)
        /\ round[i].version = call[c].version
        /\ round' = [round EXCEPT ![i].state = call[c].target, ![i].version = @ + 1]
        /\ verdict' = [verdict EXCEPT ![i] = call[c].brings]
        /\ call' = [call EXCEPT ![c] = Idle] /\ UNCHANGED <<run, claims>>
    BY <2>1, <1>2 DEF transition_round, Return
  <2>3. round[i] \in RoundRow /\ round \in [Rounds -> RoundRow]
    BY DEF RoundInv, TypeOK
  <2>4. /\ verdict \in [Rounds -> Reports \cup {None}]
        /\ \/ call[c].target = "ADJUDICATING" /\ call[c].brings = None
           \/ /\ call[c].target \in {"YES", "NO"} /\ call[c].brings \in Reports
              /\ round[i].report = call[c].brings
    BY <2>1, <2>2 DEF RoundInv, TypeOK, Commands, CommandOK
  <2>5. row \in RoundRow
    BY <2>3, <2>4 DEF RoundRow, RoundStates
  <2>6. round' = [round EXCEPT ![i] = row]
    BY <2>2, <2>3 DEF RoundRow
  <2>7. /\ row.run = round[i].run /\ row.no = round[i].no /\ row.state = call[c].target
        /\ row.version = round[i].version + 1 /\ row.snapshot = round[i].snapshot
        /\ row.report = round[i].report
    OBVIOUS
  <2> HIDE DEF row
  <2>8. Idle \in CallRow /\ Idle.pc = "idle" /\ CommandOK(c)'
    BY <2>2, IdleOK DEF RoundInv
  <2>9. verdict' \in [Rounds -> Reports \cup {None}] /\ verdict'[i] = call[c].brings
    BY <2>2, <2>4
  <2>10. \A j \in Rounds : j # i => verdict'[j] = verdict[j]
    BY <2>2, <2>4
  <2>11. round[i].snapshot # None
    BY <2>2, <2>4 DEF next_round_state, RoundInv, Rows, RowOK
  <2>12. RowOK(i)'
    <3>1. round'[i] = row
      BY <2>3, <2>6
    <3>2. QED BY <3>1, <2>4, <2>7, <2>9, <2>11, RoundConstants DEF RowOK, Settled
  <2>13. row.state # "ABSENT"
    BY <2>4, <2>7
  <2>14. QED BY <2>2, <2>5, <2>6, <2>7, <2>8, <2>9, <2>10, <2>12, <2>13, RowStep
<1>3. QED BY <1>1, <1>2

-----------------------------------------------------------------------------
(* The theorems.                                                           *)

(* Every step of every caller keeps the invariant.                            *)
LEMMA NextInv == RoundInv /\ [Next]_vars => RoundInv'
<1> SUFFICES ASSUME RoundInv, [Next]_vars PROVE RoundInv'
  OBVIOUS
<1>1. CASE UNCHANGED vars
  <2>1. UNCHANGED <<run, round, call, verdict, claims>>
    BY <1>1 DEF vars
  <2>2. run' \in [Runs -> RunRow] /\ claims' \in Nat /\ UNCHANGED <<round, call, verdict>>
    BY <2>1 DEF RoundInv, TypeOK
  <2>3. (\A r \in Runs : run'[r].max >= run[r].max) /\ Unopened'
    BY <2>1 DEF RoundInv, TypeOK, RunRow, Unopened
  <2>4. QED BY <2>2, <2>3, RunStep
<1>2. ASSUME NEW c \in Callers, Crash(c) PROVE RoundInv'
  BY <1>2, RefusedInv DEF Crash
<1>3. QED
  BY <1>1, <1>2, RunsInv, ReadsInv, CountInv, InsertInv, FreezeInv, ReportInv,
     TransitionInv DEF Next

(* Gate rounds keep RoundInv: the version discipline of freeze, begin, settle,    *)
(* open, close, abandon and claim under any interleaving and any crash.          *)
THEOREM RoundInvariant == Spec => []RoundInv
<1>1. QED BY InitInv, NextInv, PTL DEF Spec

(* The tables and the commands' local variables keep their types.               *)
THEOREM RoundTyping == Spec => []TypeOK
<1>1. RoundInv => TypeOK BY DEF RoundInv
<1>2. QED BY <1>1, RoundInvariant, PTL

(* A settled round carries the report of the very settlement that settled it.     *)
THEOREM VerdictReport == Spec => []VerdictHasItsReport
<1>1. RoundInv => VerdictHasItsReport
  BY DEF RoundInv, Rows, RowOK, VerdictHasItsReport
<1>2. QED BY <1>1, RoundInvariant, PTL

(* Every verdict is about a frozen snapshot.                                  *)
THEOREM VerdictSnapshot == Spec => []VerdictHasSnapshot
<1>1. RoundInv => VerdictHasSnapshot
  BY DEF RoundInv, Rows, RowOK, Settled, VerdictHasSnapshot
<1>2. QED BY <1>1, RoundInvariant, PTL

(* Concurrent openers number their rounds 1, 2, ... without gap or repeat.        *)
THEOREM RoundNumbering == Spec => []RoundsNumbered
<1>1. RoundInv => RoundsNumbered BY DEF RoundInv
<1>2. QED BY <1>1, RoundInvariant, PTL

(* However many callers race past the limit check, max_rounds is exceeded by at    *)
(* most one round for each further caller.                                    *)
THEOREM RoundLimit == Spec => []RoundsBounded
<1>1. RoundInv => RoundsBounded
  <2> SUFFICES ASSUME RoundInv, NEW r \in Runs
        PROVE Cardinality(RoundsOf(r)) <= run[r].max + Cardinality(Callers) - 1
    BY DEF RoundsBounded
  <2>1. /\ Cardinality(RoundsOf(r)) + Cardinality(Opening(r))
              <= run[r].max + Cardinality(Callers) - 1
        /\ run[r].max \in Nat
    BY DEF RoundInv, Places, TypeOK, RunRow
  <2>2. QED BY <2>1, Finite
<1>2. QED BY <1>1, RoundInvariant, PTL

(* A write that a command of caller c makes to a round.                        *)
LEMMA WritesKeep ==
    ASSUME RoundInv, NEW c \in Callers, NEW i \in Rounds,
           \/ \E j \in Rounds : open_round(c, j)
           \/ freeze_review_snapshot(c)
           \/ set_round_report(c)
           \/ transition_round(c)
    PROVE  /\ round[i].snapshot # None => round'[i].snapshot = round[i].snapshot
           /\ Settled(i) => round'[i] = round[i]
<1>0. round \in [Rounds -> RoundRow] /\ RowOK(i) /\ CommandOK(c)
  BY DEF RoundInv, TypeOK, Rows, Commands
<1>1. ASSUME NEW j \in Rounds, open_round(c, j)
      PROVE  /\ round[i].snapshot # None => round'[i].snapshot = round[i].snapshot
             /\ Settled(i) => round'[i] = round[i]
  <2>1. CASE i = j
    BY <1>0, <1>1, <2>1 DEF open_round, RowOK, Settled
  <2>2. CASE i # j
    BY <1>0, <1>1, <2>2 DEF open_round
  <2>3. QED BY <2>1, <2>2
<1>2. CASE round' = round
  BY <1>2
<1>3. CASE freeze_review_snapshot(c) /\ round' # round
  <2>1. /\ round[call[c].round].snapshot = None
        /\ ~ Settled(call[c].round)
        /\ round' = [round EXCEPT ![call[c].round].snapshot = call[c].brings,
                                  ![call[c].round].state = "BUILT",
                                  ![call[c].round].version = @ + 1]
    BY <1>3 DEF freeze_review_snapshot, Refused, next_round_state, Settled
  <2>2. CASE i = call[c].round
    BY <2>1, <2>2
  <2>3. CASE i # call[c].round
    <3>1. round'[i] = round[i]
      BY <1>0, <2>1, <2>3
    <3>2. QED BY <3>1
  <2>4. QED BY <2>2, <2>3
<1>4. CASE set_round_report(c) /\ round' # round
  <2>1. /\ call[c].pc = "report"
        /\ round[call[c].round].version = call[c].version
        /\ round' = [round EXCEPT ![call[c].round].report = call[c].brings,
                                  ![call[c].round].version = @ + 1]
    BY <1>4 DEF set_round_report, Refused
  <2>2. CASE i = call[c].round
    <3>1. round[i].state = "ADJUDICATING"
      BY <1>0, <2>1, <2>2 DEF CommandOK
    <3>2. round'[i].snapshot = round[i].snapshot
      BY <1>0, <2>1, <2>2 DEF RoundRow
    <3>3. QED BY <3>1, <3>2 DEF Settled
  <2>3. CASE i # call[c].round
    <3>1. round'[i] = round[i]
      BY <1>0, <2>1, <2>3
    <3>2. QED BY <3>1
  <2>4. QED BY <2>2, <2>3
<1>5. CASE transition_round(c) /\ round' # round
  <2>1. /\ ~ Settled(call[c].round)
        /\ round' = [round EXCEPT ![call[c].round].state = call[c].target,
                                  ![call[c].round].version = @ + 1]
    BY <1>5 DEF transition_round, Refused, next_round_state, Settled
  <2>2. CASE i = call[c].round
    <3>2. round'[i].snapshot = round[i].snapshot
      BY <1>0, <2>1, <2>2 DEF RoundRow
    <3>3. QED BY <3>2, <2>1, <2>2
  <2>3. CASE i # call[c].round
    <3>1. round'[i] = round[i]
      BY <1>0, <2>1, <2>3
    <3>2. QED BY <3>1
  <2>4. QED BY <2>2, <2>3
<1>6. QED BY <1>1, <1>2, <1>3, <1>4, <1>5

(* Of the steps, only those write a round.                                   *)
LEMMA OthersKeep ==
    ASSUME Next, round' # round
    PROVE  \E c \in Callers : \/ \E j \in Rounds : open_round(c, j)
                              \/ freeze_review_snapshot(c)
                              \/ set_round_report(c)
                              \/ transition_round(c)
BY DEF Next, open_run, claim_ownership, EndRunRead, transition_run, Refused, OpenRoundRead,
       OpenRoundCount, FreezeRead, BeginRead, SettleRead, Crash

(* A frozen snapshot is never replaced and a settled round never written again,    *)
(* by a command begun before the freeze or the verdict included.                *)
THEOREM ReviewedRows == Spec => ReviewedRowsKeep
<1>1. RoundInv /\ [Next]_vars =>
        [\A i \in Rounds :
           /\ round[i].snapshot # None => round'[i].snapshot = round[i].snapshot
           /\ Settled(i) => round'[i] = round[i]]_vars
  <2> SUFFICES ASSUME RoundInv, Next, NEW i \in Rounds
        PROVE  /\ round[i].snapshot # None => round'[i].snapshot = round[i].snapshot
               /\ Settled(i) => round'[i] = round[i]
    OBVIOUS
  <2>1. CASE round' = round
    BY <2>1
  <2>2. CASE round' # round
    BY <2>2, OthersKeep, WritesKeep
  <2>3. QED BY <2>1, <2>2
<1>2. QED BY <1>1, RoundInvariant, PTL DEF Spec, ReviewedRowsKeep

(* An ended run stays as it ended, whichever of close and abandon came first.     *)
THEOREM RunEnding == Spec => RunEndsOnce
<1>1. RoundInv /\ [Next]_vars =>
        [\A r \in Runs : run[r].state \notin {"ABSENT", "OPEN"}
           => run'[r].state = run[r].state]_vars
  <2> SUFFICES ASSUME RoundInv, Next, NEW r \in Runs, run[r].state \notin {"ABSENT", "OPEN"}
        PROVE  run'[r].state = run[r].state
    OBVIOUS
  <2>1. run \in [Runs -> RunRow]
    BY DEF RoundInv, TypeOK
  <2>2. ASSUME NEW s \in Runs, NEW max \in MaxRounds, open_run(s, max)
        PROVE  run'[r].state = run[r].state
    BY <2>1, <2>2 DEF open_run
  <2>3. ASSUME NEW s \in Runs, claim_ownership(s)
        PROVE  run'[r].state = run[r].state
    BY <2>1, <2>3 DEF claim_ownership, RunRow
  <2>4. ASSUME NEW c \in Callers, transition_run(c)
        PROVE  run'[r].state = run[r].state
    <3>1. CASE call[c].run = r
      <4>1. ~ next_run_state(run[r].state, call[c].target)
        BY DEF next_run_state
      <4>2. QED BY <2>4, <3>1, <4>1 DEF transition_run, Refused
    <3>2. CASE call[c].run # r
      BY <2>1, <2>4, <3>2 DEF transition_run, Refused
    <3>3. QED BY <3>1, <3>2
  <2>5. CASE run' = run
    BY <2>5
  <2>6. QED
    BY <2>2, <2>3, <2>4, <2>5
       DEF Next, EndRunRead, Refused, OpenRoundRead, OpenRoundCount, FreezeRead, BeginRead,
           SettleRead, Crash, open_round, freeze_review_snapshot, set_round_report,
           transition_round
<1>2. QED BY <1>1, RoundInvariant, PTL DEF Spec, RunEndsOnce
=============================================================================
