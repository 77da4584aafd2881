----------------------------- MODULE GateRounds -----------------------------
(***************************************************************************)
(* Gate runs and their rounds: GateRoundService (app/gate/service.py) over *)
(* SqliteGateStore (adapters/store/gate.py), rules in core/gate.py.        *)
(*                                                                         *)
(* A command reads its rows first, checks them, and then writes in one or  *)
(* two BEGIN IMMEDIATE transactions that repeat the checks and compare     *)
(* row_version.  Every read and every transaction is an action, so two     *)
(* callers (each CLI call is a process) interleave between them, and one   *)
(* may die there.                                                          *)
(***************************************************************************)
EXTENDS Integers, FiniteSets, FiniteSetsExt

CONSTANTS
    Callers,       \* processes that run gate commands
    Runs, Rounds,  \* row ids
    Snapshots,     \* review snapshots a builder may freeze
    Reports,       \* adjudication reports: the hashes a verdict is recorded with
    MaxRounds,     \* the max_rounds a run may be opened with
    None,
    MAX_CLAIMS,    \* bound: ownership claims of a run in one behaviour
    MAX_VERSION    \* bound: the row_version from which no further settle begins

ASSUME RoundConstants ==
    /\ None \notin Callers \cup Runs \cup Rounds \cup Snapshots \cup Reports
    /\ MaxRounds \subseteq Nat \ {0}
    /\ {MAX_CLAIMS, MAX_VERSION} \subseteq Nat
    /\ IsFiniteSet(Callers) /\ Callers # {}
    /\ IsFiniteSet(Rounds)

VARIABLES
    run,      \* gate_run
    round,    \* gate_round
    call,     \* the command each caller is in
    verdict,  \* history: the report brought by the call that settled the round
    claims    \* how many claims have rewritten a run

vars == <<run, round, call, verdict, claims>>

RunStates == {"ABSENT", "OPEN", "CLOSED_YES", "CLOSED_NO", "ABANDONED"}

RoundStates == {"ABSENT", "OPEN", "BUILT", "ADJUDICATING", "YES", "NO",
                "ABANDONED"}

NoRun == [state |-> "ABSENT", max |-> 0, version |-> 0]

NoRound == [state |-> "ABSENT", run |-> None, no |-> 0, snapshot |-> None,
            report |-> None, version |-> 0]

Call(pc, r, i, version, target, brings) ==
    [pc |-> pc, run |-> r, round |-> i, version |-> version, target |-> target,
     brings |-> brings]

Idle == Call("idle", None, None, 0, "ABSENT", None)

Init ==
    /\ run = [r \in Runs |-> NoRun]
    /\ round = [i \in Rounds |-> NoRound]
    /\ call = [c \in Callers |-> Idle]
    /\ verdict = [i \in Rounds |-> None]
    /\ claims = 0

RoundsOf(r) == {i \in Rounds : round[i].run = r}

(* core/gate.py: the legal steps of a run and of a round.  No command abandons   *)
(* a round.                                                                 *)
next_run_state(current, target) ==
    current = "OPEN" /\ target \in {"CLOSED_YES", "CLOSED_NO", "ABANDONED"}

next_round_state(current, target) ==
    \/ current \in {"OPEN", "BUILT", "ADJUDICATING"} /\ target = "ABANDONED"
    \/ current = "OPEN" /\ target = "BUILT"
    \/ current = "BUILT" /\ target = "ADJUDICATING"
    \/ current = "ADJUDICATING" /\ target \in {"YES", "NO"}

Return(c) == call' = [call EXCEPT ![c] = Idle]

(* A transaction that finds its row moved on raises, and the command ends.      *)
Refused(c) == Return(c) /\ UNCHANGED <<run, round, verdict, claims>>

-----------------------------------------------------------------------------
(* Runs.                                                                   *)

open_run(r, max) ==
    /\ run[r].state = "ABSENT"
    /\ run' = [run EXCEPT ![r] = [state |-> "OPEN", max |-> max, version |-> 1]]
    /\ UNCHANGED <<round, call, verdict, claims>>

(* close_run and abandon_run read the run and check the step they will take.    *)
EndRunRead(c, r, target) ==
    /\ call[c] = Idle
    /\ next_run_state(run[r].state, target)
    /\ call' = [call EXCEPT ![c] = Call("end_run", r, None, run[r].version, target, None)]
    /\ UNCHANGED <<run, round, verdict, claims>>

(* Slip: the write trusts the read.                                        *)
transition_run_Blind(c) ==
    /\ call[c].pc = "end_run"
    /\ run' = [run EXCEPT ![call[c].run].state = call[c].target,
                          ![call[c].run].version = @ + 1]
    /\ Return(c)
    /\ UNCHANGED <<round, verdict, claims>>

transition_run(c) ==
    LET r == call[c].run
    IN  /\ call[c].pc = "end_run"
        /\ IF /\ next_run_state(run[r].state, call[c].target)
              /\ run[r].version = call[c].version
           THEN /\ run' = [run EXCEPT ![r].state = call[c].target, ![r].version = @ + 1]
                /\ Return(c)
                /\ UNCHANGED <<round, verdict, claims>>
           ELSE Refused(c)

(* claim_ownership bumps the version of every run it rewrites, ended ones too.   *)
claim_ownership(r) ==
    /\ claims < MAX_CLAIMS
    /\ run[r].state # "ABSENT"
    /\ run' = [run EXCEPT ![r].version = @ + 1]
    /\ claims' = claims + 1
    /\ UNCHANGED <<round, call, verdict>>

-----------------------------------------------------------------------------
(* Opening a round: the run is read, its rounds are counted, and the round is    *)
(* inserted, in three steps of which the last checks nothing.                 *)

OpenRoundRead(c, r) ==
    /\ call[c] = Idle
    /\ run[r].state = "OPEN"
    /\ call' = [call EXCEPT ![c] = Call("count_rounds", r, None, 0, "ABSENT", None)]
    /\ UNCHANGED <<run, round, verdict, claims>>

LiveRounds(r) == {i \in RoundsOf(r) : round[i].state # "ABANDONED"}

(* Slip: the limit is off by one.                                          *)
OpenRoundCount_OffByOne(c) ==
    /\ call[c].pc = "count_rounds"
    /\ IF Cardinality(LiveRounds(call[c].run)) <= run[call[c].run].max
       THEN call' = [call EXCEPT ![c].pc = "open_round"]
       ELSE Return(c)
    /\ UNCHANGED <<run, round, verdict, claims>>

OpenRoundCount(c) ==
    /\ call[c].pc = "count_rounds"
    /\ IF Cardinality(LiveRounds(call[c].run)) < run[call[c].run].max
       THEN call' = [call EXCEPT ![c].pc = "open_round"]
       ELSE Return(c)
    /\ UNCHANGED <<run, round, verdict, claims>>

NextNo(r) == Max({0} \cup {round[i].no : i \in RoundsOf(r)}) + 1

open_round(c, i) ==
    /\ call[c].pc = "open_round"
    /\ round[i].state = "ABSENT"
    /\ round' = [round EXCEPT ![i] =
           [state |-> "OPEN", run |-> call[c].run, no |-> NextNo(call[c].run),
            snapshot |-> None, report |-> None, version |-> 1]]
    /\ Return(c)
    /\ UNCHANGED <<run, verdict, claims>>

-----------------------------------------------------------------------------
(* A round's turn: freeze, adjudicate, settle.                               *)

FreezeRead(c, i, snapshot) ==
    /\ call[c] = Idle
    /\ round[i].snapshot = None
    /\ next_round_state(round[i].state, "BUILT")
    /\ call' = [call EXCEPT ![c] =
           Call("freeze", None, i, round[i].version, "ABSENT", snapshot)]
    /\ UNCHANGED <<run, round, verdict, claims>>

(* Slip: the write trusts the read.                                        *)
freeze_review_snapshot_Blind(c) ==
    /\ call[c].pc = "freeze"
    /\ round' = [round EXCEPT ![call[c].round].snapshot = call[c].brings,
                              ![call[c].round].state = "BUILT",
                              ![call[c].round].version = @ + 1]
    /\ Return(c)
    /\ UNCHANGED <<run, verdict, claims>>

freeze_review_snapshot(c) ==
    LET i == call[c].round
    IN  /\ call[c].pc = "freeze"
        /\ IF /\ round[i].snapshot = None
              /\ next_round_state(round[i].state, "BUILT")
              /\ round[i].version = call[c].version
           THEN /\ round' = [round EXCEPT ![i].snapshot = call[c].brings,
                                          ![i].state = "BUILT", ![i].version = @ + 1]
                /\ Return(c)
                /\ UNCHANGED <<run, verdict, claims>>
           ELSE Refused(c)

BeginRead(c, i) ==
    /\ call[c] = Idle
    /\ next_round_state(round[i].state, "ADJUDICATING")
    /\ call' = [call EXCEPT ![c] =
           Call("transition", None, i, round[i].version, "ADJUDICATING", None)]
    /\ UNCHANGED <<run, round, verdict, claims>>

SettleRead(c, i, target, report) ==
    /\ call[c] = Idle
    /\ next_round_state(round[i].state, target)
    /\ target \in {"YES", "NO"}
    /\ round[i].version < MAX_VERSION
    /\ call' = [call EXCEPT ![c] =
           Call("report", None, i, round[i].version, target, report)]
    /\ UNCHANGED <<run, round, verdict, claims>>

(* The report is written whatever state the round is in, if it is the version    *)
(* the command read; the command goes on with the version it made.             *)
set_round_report(c) ==
    LET i == call[c].round
    IN  /\ call[c].pc = "report"
        /\ IF round[i].version = call[c].version
           THEN /\ round' = [round EXCEPT ![i].report = call[c].brings,
                                          ![i].version = @ + 1]
                /\ call' = [call EXCEPT ![c].pc = "transition", ![c].version = @ + 1]
                /\ UNCHANGED <<run, verdict, claims>>
           ELSE Refused(c)

(* Slip: the verdict is written without comparing row_version.                 *)
transition_round_NoVersion(c) ==
    LET i == call[c].round
    IN  /\ call[c].pc = "transition"
        /\ IF next_round_state(round[i].state, call[c].target)
           THEN /\ round' = [round EXCEPT ![i].state = call[c].target,
                                          ![i].version = @ + 1]
                /\ verdict' = [verdict EXCEPT ![i] = call[c].brings]
                /\ Return(c)
                /\ UNCHANGED <<run, claims>>
           ELSE Refused(c)

transition_round(c) ==
    LET i == call[c].round
    IN  /\ call[c].pc = "transition"
        /\ IF /\ next_round_state(round[i].state, call[c].target)
              /\ round[i].version = call[c].version
           THEN /\ round' = [round EXCEPT ![i].state = call[c].target,
                                          ![i].version = @ + 1]
                /\ verdict' = [verdict EXCEPT ![i] = call[c].brings]
                /\ Return(c)
                /\ UNCHANGED <<run, claims>>
           ELSE Refused(c)

(* A caller's process dies between two transactions of its command.             *)
Crash(c) ==
    /\ call[c] # Idle
    /\ Refused(c)

-----------------------------------------------------------------------------
Next ==
    \/ \E r \in Runs, max \in MaxRounds : open_run(r, max)
    \/ \E r \in Runs : claim_ownership(r)
    \/ \E c \in Callers :
         \/ \E r \in Runs, target \in RunStates : EndRunRead(c, r, target)
         \/ transition_run(c)
         \/ \E r \in Runs : OpenRoundRead(c, r)
         \/ OpenRoundCount(c)
         \/ \E i \in Rounds : open_round(c, i)
         \/ \E i \in Rounds, snapshot \in Snapshots : FreezeRead(c, i, snapshot)
         \/ freeze_review_snapshot(c)
         \/ \E i \in Rounds : BeginRead(c, i)
         \/ \E i \in Rounds, target \in RoundStates, report \in Reports :
              SettleRead(c, i, target, report)
         \/ set_round_report(c)
         \/ transition_round(c)
         \/ Crash(c)

Spec == Init /\ [][Next]_vars

-----------------------------------------------------------------------------
(* Properties.                                                             *)

RunRow == [state : RunStates, max : Nat, version : Nat]

RoundRow ==
    [state : RoundStates, run : Runs \cup {None}, no : Nat,
     snapshot : Snapshots \cup {None}, report : Reports \cup {None}, version : Nat]

CallRow ==
    [pc : {"idle", "end_run", "count_rounds", "open_round", "freeze", "transition",
           "report"},
     run : Runs \cup {None}, round : Rounds \cup {None}, version : Nat,
     target : RunStates \cup RoundStates, brings : Snapshots \cup Reports \cup {None}]

(* The types of the tables and of a command's local variables.                 *)
TypeOK ==
    /\ run \in [Runs -> RunRow]
    /\ round \in [Rounds -> RoundRow]
    /\ call \in [Callers -> CallRow]
    /\ verdict \in [Rounds -> Reports \cup {None}]
    /\ claims \in Nat

Settled(i) == round[i].state \in {"YES", "NO"}

(* The hashes on a settled round are those of the very adjudication that gave     *)
(* its verdict, though report and verdict are two transactions: of two settles   *)
(* of opposite outcome, or a settle retried after a crash, none can leave its     *)
(* report under the other's verdict.                                         *)
VerdictHasItsReport ==
    \A i \in Rounds : Settled(i) => verdict[i] # None /\ round[i].report = verdict[i]

(* What was reviewed stays what it is: a frozen snapshot is never replaced, and   *)
(* nothing, a command begun before the verdict included, touches a settled round. *)
ReviewedRowsKeep ==
    [][\A i \in Rounds :
         /\ round[i].snapshot # None => round'[i].snapshot = round[i].snapshot
         /\ Settled(i) => round'[i] = round[i]]_vars

(* Every verdict is about a frozen snapshot.                                  *)
VerdictHasSnapshot ==
    \A i \in Rounds : Settled(i) => round[i].snapshot # None

(* The rounds of a run are numbered 1, 2, ... without gap or repeat, whoever       *)
(* opened them.                                                             *)
RoundsNumbered ==
    \A r \in Runs :
        {round[i].no : i \in RoundsOf(r)} = 1..Cardinality(RoundsOf(r))

(* An ended run stays as it ended: of a close and an abandon that both read it      *)
(* open, one takes effect.                                                   *)
RunEndsOnce ==
    [][\A r \in Runs : run[r].state \notin {"ABSENT", "OPEN"}
         => run'[r].state = run[r].state]_vars

(* The limit that holds: callers that counted before each other's insert exceed   *)
(* max_rounds by one each, and no further.                                   *)
RoundsBounded ==
    \A r \in Runs : Cardinality(RoundsOf(r)) <= run[r].max + Cardinality(Callers) - 1
=============================================================================
