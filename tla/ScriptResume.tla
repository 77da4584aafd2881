---------------------------- MODULE ScriptResume ----------------------------
(***************************************************************************)
(* The resume of a script workflow: the run and step rows of the journal   *)
(* (services/workflow_journal.py), resume and cancel with their in-memory  *)
(* records and the set of active drives (services/script_runner.py), and   *)
(* the run-step calls of the script (api/main.py, services/step_replay.py).*)
(*                                                                         *)
(* One run whose first drive is over: it failed, was cancelled, or the     *)
(* server died under it.  The server is one event loop, so what lies       *)
(* between two awaits is one step; a journal call in a thread is a step of *)
(* its own.  The journal survives a crash, everything else does not.  A    *)
(* run-step handler outlives the script that called it.  The generation    *)
(* that fences the calls of a script being stopped is left out: any call   *)
(* of a live script may be admitted here.                                  *)
(***************************************************************************)
EXTENDS Naturals

CONSTANTS
    Steps,       \* the step keys of the script
    Policy,      \* what the author declared for each step
    Prints,      \* call fingerprints of the current scheme
    Resumes,     \* the resume requests that may arrive
    Calls,       \* the run-step handlers that may be in flight at once
    None,        \* no fingerprint, no record
    MAX_CRASHES  \* bound: how often the server dies

Permitted == {"idempotent", "reconcile"}

DecisionState == [rerun |-> "rerun_authorized", skip |-> "replay_authorized"]

Authorised == {"rerun_authorized", "replay_authorized"}

Settled == {"completed", "completed_unvalidated", "failed"}

StepStates == {"absent", "running"} \cup Settled \cup Authorised

Envelopes == {"none", "whole", "lossy"}

Decisions == [Steps -> {"none", "rerun", "skip"}]

RunStates == {"running", "completed", "failed", "cancelled"}

ASSUME ConstantsOK ==
    /\ Policy \in [Steps -> Permitted \cup {"manual", "undeclared"}]
    /\ None \notin Prints \cup Resumes
    /\ MAX_CRASHES \in Nat

VARIABLES
    run,      \* workflow_run: the state
    step,     \* workflow_run_step: state, call_fingerprint, result_json
    active,   \* _active_drives holds the run
    registry, \* run_registry: whose record is registered
    record,   \* the ScriptRunRecord of each resume
    resume,   \* the local variables of each resume_script_run
    cancel,   \* the local variables of cancel_script_run, by record
    call,     \* the run-step handlers
    crashes,
    leaked    \* history: steps whose consent outlived its drive

vars == <<run, step, active, registry, record, resume, cancel, call, crashes, leaked>>

IdleResume ==
    [pc |-> "idle", completed |-> FALSE,
     decisions |-> [s \in Steps |-> "none"], granted |-> [s \in Steps |-> "none"],
     code |-> "none"]

Over == [IdleResume EXCEPT !.pc = "done"]

NoRecord == [state |-> "none", cancelled |-> FALSE]

IdleCall == [pc |-> "free", step |-> None, print |-> None]

(* What a first drive leaves: a step never called, one cut off, a settled    *)
(* one, and one settled without its running row (settle_step's insert).      *)
FirstRows(f) ==
    {[state |-> "absent", print |-> None, result |-> "none"],
     [state |-> "running", print |-> f, result |-> "none"],
     [state |-> "completed", print |-> f, result |-> "whole"],
     [state |-> "completed", print |-> f, result |-> "lossy"],
     [state |-> "failed", print |-> f, result |-> "whole"],
     [state |-> "failed", print |-> None, result |-> "whole"]}

Init ==
    /\ run \in RunStates \ {"completed"}
    /\ step \in [Steps -> UNION {FirstRows(f) : f \in Prints}]
    /\ active = FALSE
    /\ registry = None
    /\ record = [r \in Resumes |-> NoRecord]
    /\ resume = [r \in Resumes |-> IdleResume]
    /\ cancel = [r \in Resumes |-> "no"]
    /\ call = [h \in Calls |-> IdleCall]
    /\ crashes = 0
    /\ leaked = {}

-----------------------------------------------------------------------------
(* The journal: services/workflow_journal.py.                              *)

Consented == {s \in Steps : step[s].state \in Authorised}

begin_step(s, f) ==
    step' = [step EXCEPT ![s].state = "running",
                         ![s].print = IF step[s].state = "completed" THEN @ ELSE f]

settle_step(s, state, result) ==
    step' = [step EXCEPT ![s].state = state, ![s].result = result]

apply_decisions(d) ==
    step' = [s \in Steps |->
               IF d[s] = "none" THEN step[s]
               ELSE [step[s] EXCEPT !.state = DecisionState[d[s]]]]

revoke_unconsumed_decisions_RerunOnly(granted) ==
    step' = [s \in Steps |->
               IF granted[s] \notin Authorised \cup {"none"} /\ step[s].state = "rerun_authorized"
               THEN [step[s] EXCEPT !.state = granted[s]]
               ELSE step[s]]

(* A compare and set: only a row that still holds a consent goes back, and   *)
(* never to a consent.                                                      *)
revoke_unconsumed_decisions(granted) ==
    step' = [s \in Steps |->
               IF granted[s] \notin Authorised \cup {"none"} /\ step[s].state \in Authorised
               THEN [step[s] EXCEPT !.state = granted[s]]
               ELSE step[s]]

-----------------------------------------------------------------------------
(* The replay gate: services/step_replay.py, decide.  First match wins.      *)

MayRun(s) == Policy[s] \in Permitted

decide_Interrupted(s, f) ==
    LET r == step[s]
    IN  IF r.state \in {"absent", "rerun_authorized", "running"} THEN "execute"
        ELSE IF r.result = "none" \/ r.print = None \/ Policy[s] = "manual"
             THEN "decision_required"
        ELSE IF r.print # f THEN "diverged" ELSE "replay"

decide(s, f) ==
    LET r == step[s]
        leave == IF MayRun(s) THEN "execute" ELSE "decision_required"
    IN  IF r.state \in {"absent", "rerun_authorized"} THEN "execute"
        ELSE IF r.state = "running" THEN leave
        ELSE IF r.result = "none" THEN "decision_required"
        ELSE IF r.print = None THEN leave
        ELSE IF r.print # f THEN "diverged"
        ELSE IF r.state # "replay_authorized" /\
                (Policy[s] = "manual" \/ r.state = "failed" \/ r.result = "lossy")
             THEN "decision_required"
        ELSE "replay"

-----------------------------------------------------------------------------
(* resume_script_run.                                                      *)

Goto(r, pc) == resume' = [resume EXCEPT ![r].pc = pc]

GotoWith(r, pc, code) ==
    resume' = [resume EXCEPT ![r] = [@ EXCEPT !.pc = pc, !.code = code]]

(* The finally clause: the claim is released and, with no await in between,   *)
(* the unconsumed consent is revoked.  The revoke is best-effort.            *)
Finally(r) ==
    /\ active' = FALSE
    /\ resume' = [resume EXCEPT ![r] = Over]
    /\ \/ /\ revoke_unconsumed_decisions(resume[r].granted)
          /\ UNCHANGED leaked
       \/ /\ resume[r].granted # IdleResume.granted
          /\ UNCHANGED step
          /\ leaked' = leaked \cup Consented
    /\ UNCHANGED <<run, registry, record, cancel, call, crashes>>

(* The request arrives and reads the run row (gate 1).                      *)
Gate1(r) ==
    /\ resume[r].pc = "idle"
    /\ resume' = [resume EXCEPT ![r] =
                    [@ EXCEPT !.pc = "gate2", !.completed = (run = "completed")]]
    /\ UNCHANGED <<run, step, active, registry, record, cancel, call, crashes, leaked>>

(* Gates 2 and 3 and the claim between them; a refusal at gate 3 releases the *)
(* claim before anyone could see it.                                        *)
Gate2(r, d) ==
    /\ resume[r].pc = "gate2"
    /\ \/ /\ active \/ resume[r].completed
          /\ resume' = [resume EXCEPT ![r] = Over]
          /\ UNCHANGED active
       \/ /\ ~ active /\ ~ resume[r].completed
          /\ resume' = [resume EXCEPT ![r] = [@ EXCEPT !.pc = "gate5", !.decisions = d]]
          /\ active' = TRUE
    /\ UNCHANGED <<run, step, registry, record, cancel, call, crashes, leaked>>

Undecided_RerunOnly(r) ==
    {s \in Steps : step[s].state = "rerun_authorized" /\ resume[r].decisions[s] = "none"}

(* Gate 5: a consent left by an earlier resume needs a fresh decision.        *)
Undecided(r) == {s \in Consented : resume[r].decisions[s] = "none"}

Gate5_KeepsClaim(r) ==
    /\ resume[r].pc = "gate5"
    /\ IF Undecided(r) # {}
       THEN resume' = [resume EXCEPT ![r] = Over]
       ELSE Goto(r, IF resume[r].decisions = IdleResume.decisions THEN "register" ELSE "priors")
    /\ UNCHANGED <<run, step, active, registry, record, cancel, call, crashes, leaked>>

Gate5(r) ==
    /\ resume[r].pc = "gate5"
    /\ \/ /\ Undecided(r) # {}
          /\ Finally(r)
       \/ /\ Undecided(r) = {}
          /\ Goto(r, IF resume[r].decisions = IdleResume.decisions THEN "register" ELSE "priors")
          /\ UNCHANGED <<run, step, active, registry, record, cancel, call, crashes, leaked>>

(* apply_decisions, the read and the validation: an unknown step refuses all. *)
ReadPriors(r) ==
    /\ resume[r].pc = "priors"
    /\ \/ /\ \E s \in Steps : resume[r].decisions[s] # "none" /\ step[s].state = "absent"
          /\ Finally(r)
       \/ /\ \A s \in Steps : resume[r].decisions[s] # "none" => step[s].state # "absent"
          /\ LET prior == [s \in Steps |-> IF resume[r].decisions[s] = "none" THEN "none"
                                            ELSE step[s].state]
             IN  resume' = [resume EXCEPT ![r] = [@ EXCEPT !.pc = "apply", !.granted = prior]]
          /\ UNCHANGED <<run, step, active, registry, record, cancel, call, crashes, leaked>>

Apply(r) ==
    /\ resume[r].pc = "apply"
    /\ apply_decisions(resume[r].decisions)
    /\ Goto(r, "register")
    /\ UNCHANGED <<run, active, registry, record, cancel, call, crashes, leaked>>

(* The generation is bumped and the record registered; the one it replaces is *)
(* kept only by a cancel that still works on it.                            *)
Register(r) ==
    /\ resume[r].pc = "register"
    /\ record' = [x \in Resumes |->
                     IF x = r THEN [state |-> "running", cancelled |-> FALSE]
                     ELSE IF cancel[x] = "no" THEN NoRecord ELSE record[x]]
    /\ registry' = r
    /\ Goto(r, "reopen")
    /\ UNCHANGED <<run, step, active, cancel, call, crashes, leaked>>

(* The row is re-opened, best-effort.                                      *)
Reopen(r) ==
    /\ resume[r].pc = "reopen"
    /\ run' \in {run, "running"}
    /\ Goto(r, "spawn")
    /\ UNCHANGED <<step, active, registry, record, cancel, call, crashes, leaked>>

(* A journal call fails, or the snapshot file after the row was re-opened: the *)
(* run is left RUNNING with no drive.  A failed apply has written nothing, and *)
(* granted is still empty.                                                 *)
ResumeFails(r) ==
    /\ \/ resume[r].pc \in {"gate5", "priors", "apply"}
          /\ active' = FALSE
          /\ resume' = [resume EXCEPT ![r] = Over]
          /\ UNCHANGED <<run, step, registry, record, cancel, call, crashes, leaked>>
       \/ resume[r].pc \in {"register", "reopen", "spawn"} /\ Finally(r)

Spawn(r) ==
    /\ resume[r].pc = "spawn"
    /\ \/ Goto(r, "drive")
       \/ GotoWith(r, "ending", "failed")
    /\ UNCHANGED <<run, step, active, registry, record, cancel, call, crashes, leaked>>

-----------------------------------------------------------------------------
(* _drive_process.                                                         *)

Exit(r) == \E code \in {"completed", "failed"} : GotoWith(r, "exited", code)

ScriptEnds(r) ==
    /\ resume[r].pc = "drive"
    /\ Exit(r)
    /\ UNCHANGED <<run, step, active, registry, record, cancel, call, crashes, leaked>>

(* The wall-clock bound: terminate and sweep, whatever cancel has done.       *)
Timeout(r) ==
    /\ resume[r].pc = "drive"
    /\ GotoWith(r, "ending", "failed")
    /\ UNCHANGED <<run, step, active, registry, record, cancel, call, crashes, leaked>>

Cancelled_Late(r) == record[r].state = "cancelled"

Cancelled(r) == record[r].cancelled \/ record[r].state = "cancelled"

(* The exit is read: a clean one is final at once, the others sweep first.    *)
ReadExit(r) ==
    /\ resume[r].pc = "exited"
    /\ \/ /\ Cancelled(r)
          /\ GotoWith(r, "ending", "cancelled")
          /\ UNCHANGED record
       \/ /\ ~ Cancelled(r) /\ resume[r].code = "completed"
          /\ record' = [record EXCEPT ![r].state = "completed"]
          /\ Goto(r, "journal")
       \/ /\ ~ Cancelled(r) /\ resume[r].code = "failed"
          /\ Goto(r, "ending")
          /\ UNCHANGED record
    /\ UNCHANGED <<run, step, active, registry, cancel, call, crashes, leaked>>

(* _finalize after a sweep.                                                *)
Finalize(r) ==
    /\ resume[r].pc = "ending"
    /\ record' = [record EXCEPT ![r].state = resume[r].code]
    /\ Goto(r, "journal")
    /\ UNCHANGED <<run, step, active, registry, cancel, call, crashes, leaked>>

(* _journal_run_state writes what the record says by then, best-effort.       *)
JournalEnd(r) ==
    /\ resume[r].pc = "journal"
    /\ run' \in {run, record[r].state}
    /\ GotoWith(r, "finally", "none")
    /\ UNCHANGED <<step, active, registry, record, cancel, call, crashes, leaked>>

Return(r) == resume[r].pc = "finally" /\ Finally(r)

ResumeStep(r) ==
    \/ (\E d \in Decisions : Gate2(r, d)) \/ Gate5(r) \/ ReadPriors(r) \/ Apply(r) \/ Register(r) \/ Reopen(r)
    \/ ResumeFails(r) \/ Spawn(r) \/ Timeout(r) \/ ReadExit(r)
    \/ Finalize(r) \/ JournalEnd(r) \/ Return(r)

-----------------------------------------------------------------------------
(* cancel_script_run, and the route's arm for a run without a record.        *)

CancelRemnant ==
    /\ registry = None
    /\ run = "running"
    /\ run' = "cancelled"
    /\ UNCHANGED <<step, active, registry, record, resume, cancel, call, crashes, leaked>>

CancelBegin(r) ==
    /\ registry = r
    /\ record[r].state = "running"
    /\ ~ record[r].cancelled
    /\ record' = [record EXCEPT ![r].cancelled = TRUE]
    /\ cancel' = [cancel EXCEPT ![r] = "kill"]
    /\ UNCHANGED <<run, step, active, registry, resume, call, crashes, leaked>>

(* SIGTERM, then SIGKILL; a script that is not spawned yet is not stopped.    *)
CancelKill(r) ==
    /\ cancel[r] = "kill"
    /\ IF resume[r].pc = "drive" THEN Exit(r) ELSE UNCHANGED resume
    /\ cancel' = [cancel EXCEPT ![r] = "mark"]
    /\ UNCHANGED <<run, step, active, registry, record, call, crashes, leaked>>

CancelMark(r) ==
    /\ cancel[r] = "mark"
    /\ record' = [record EXCEPT ![r].state = "cancelled"]
    /\ cancel' = [cancel EXCEPT ![r] = "write"]
    /\ UNCHANGED <<run, step, active, registry, resume, call, crashes, leaked>>

CancelWrite(r) ==
    /\ cancel[r] = "write"
    /\ run' \in {run, "cancelled"}
    /\ cancel' = [cancel EXCEPT ![r] = "no"]
    /\ UNCHANGED <<step, active, registry, record, resume, call, crashes, leaked>>

CancelStep(r) ==
    CancelBegin(r) \/ CancelKill(r) \/ CancelMark(r) \/ CancelWrite(r)

-----------------------------------------------------------------------------
(* run_step: a call of a live script.                                      *)

(* check_generation and the look at the registry; a call without a record     *)
(* touches nothing here.                                                    *)
Admit(h, r, s, f) ==
    /\ call[h].pc = "free"
    /\ resume[r].pc = "drive"
    /\ registry # None
    /\ call' = [call EXCEPT ![h] = [pc |-> "admitted", step |-> s, print |-> f]]
    /\ UNCHANGED <<run, step, active, registry, record, resume, cancel, crashes, leaked>>

Free(h) == call' = [call EXCEPT ![h] = IdleCall]

(* The replay branch, after the working directory is resolved: a replay or a  *)
(* halt writes nothing.                                                     *)
Decide(h) ==
    /\ call[h].pc = "admitted"
    /\ IF decide(call[h].step, call[h].print) = "execute"
       THEN call' = [call EXCEPT ![h].pc = "cleared"]
       ELSE Free(h)
    /\ UNCHANGED <<run, step, active, registry, record, resume, cancel, crashes, leaked>>

(* The terminal exists: its running row, best-effort.                       *)
Begin(h) ==
    /\ call[h].pc = "cleared"
    /\ call' = [call EXCEPT ![h].pc = "executing"]
    /\ \/ begin_step(call[h].step, call[h].print)
       \/ UNCHANGED step
    /\ UNCHANGED <<run, active, registry, record, resume, cancel, crashes, leaked>>

Settle(h) ==
    /\ call[h].pc = "executing"
    /\ \E state \in {"completed", "completed_unvalidated"}, result \in {"whole", "lossy"} :
         settle_step(call[h].step, state, result)
    /\ Free(h)
    /\ UNCHANGED <<run, active, registry, record, resume, cancel, crashes, leaked>>

(* An error at any await settles the step as failed, also one of the gate's    *)
(* own read, before anything ran.                                           *)
SettleFailed(h) ==
    /\ call[h].pc # "free"
    /\ settle_step(call[h].step, "failed", "whole")
    /\ Free(h)
    /\ UNCHANGED <<run, active, registry, record, resume, cancel, crashes, leaked>>

(* The arms that do not settle (the terminal cap, an unknown terminal, a       *)
(* working directory that cannot be resolved), and a settle that failed.     *)
Unsettled(h) ==
    /\ call[h].pc # "free"
    /\ Free(h)
    /\ UNCHANGED <<run, step, active, registry, record, resume, cancel, crashes, leaked>>

CallStep(h) == Decide(h) \/ Begin(h) \/ Settle(h) \/ SettleFailed(h) \/ Unsettled(h)

-----------------------------------------------------------------------------
(* The server dies: requests, records and handlers are gone.  A script that   *)
(* survives has no record, and a later resume fences it.                     *)
Crash ==
    /\ crashes < MAX_CRASHES
    /\ crashes' = crashes + 1
    /\ active' = FALSE
    /\ registry' = None
    /\ record' = [r \in Resumes |-> NoRecord]
    /\ resume' = [r \in Resumes |->
                    IF resume[r].pc = "idle" THEN resume[r] ELSE Over]
    /\ cancel' = [r \in Resumes |-> "no"]
    /\ call' = [h \in Calls |-> IdleCall]
    /\ leaked' = leaked \cup Consented
    /\ UNCHANGED <<run, step>>

Next ==
    \/ \E r \in Resumes : Gate1(r) \/ ResumeStep(r) \/ ScriptEnds(r) \/ CancelStep(r)
    \/ \E h \in Calls, r \in Resumes, s \in Steps, f \in Prints : Admit(h, r, s, f)
    \/ \E h \in Calls : CallStep(h)
    \/ CancelRemnant
    \/ Crash

Spec == Init /\ [][Next]_vars

-----------------------------------------------------------------------------
(* What is checked.                                                        *)

Pcs == {"idle", "gate2", "gate5", "priors", "apply", "register", "reopen", "spawn",
        "drive", "exited", "ending", "journal", "finally", "done"}

Ends == {"completed", "failed", "cancelled"}

(* The journal rows, the registry and the locals of the requests.            *)
TypeOK ==
    /\ run \in RunStates
    /\ step \in [Steps -> [state : StepStates, print : Prints \cup {None}, result : Envelopes]]
    /\ active \in BOOLEAN
    /\ registry \in Resumes \cup {None}
    /\ record \in [Resumes -> [state : RunStates \cup {"none"}, cancelled : BOOLEAN]]
    /\ resume \in [Resumes -> [pc : Pcs, completed : BOOLEAN, decisions : Decisions,
                               granted : [Steps -> StepStates \cup {"none"}],
                               code : Ends \cup {"none"}]]
    /\ cancel \in [Resumes -> {"no", "kill", "mark", "write"}]
    /\ call \in [Calls -> [pc : {"free", "admitted", "cleared", "executing"},
                           step : Steps \cup {None}, print : Prints \cup {None}]]
    /\ crashes \in 0 .. MAX_CRASHES
    /\ leaked \subseteq Steps

(* The resumes between their claim and its release.                         *)
Claimants == {r \in Resumes : resume[r].pc \notin {"idle", "gate2", "done"}}

(* Those that have passed gate 5.                                          *)
Driving == {r \in Claimants : resume[r].pc # "gate5"}

(* The claim of a run (_active_drives) is held by one resume at most, and it   *)
(* is released on every way out: otherwise two scripts would drive one run,    *)
(* or the run could not be resumed again before a restart.                   *)
ClaimHasOneHolder ==
    /\ \A r, x \in Claimants : r = x
    /\ active <=> Claimants # {}

(* A resume that drives works under its own decisions alone: a consent that a *)
(* crash or a failed revoke left behind has been decided afresh (gate 5),     *)
(* whatever handlers of an earlier drive still do to the rows.               *)
NoStandingConsent ==
    \A r \in Driving : \A s \in Consented : resume[r].decisions[s] # "none"

(* Between drives no consent stands, save on steps where a crash or a failed  *)
(* revoke left one.                                                        *)
ConsentEndsWithDrive == ~ active => Consented \subseteq leaked

(* A step that has a row is dispatched again only with leave: of its author,   *)
(* of the human who decided the drive in progress, or of a leaked consent.    *)
RecordedRunsWithLeave ==
    [][\A h \in Calls :
          call[h].pc = "admitted" /\ call'[h].pc = "cleared" =>
             LET s == call[h].step
             IN  \/ step[s].state = "absent"
                 \/ MayRun(s)
                 \/ s \in leaked
                 \/ \E r \in Driving : resume[r].decisions[s] = "rerun"]_vars

(* A cancel that was accepted is not answered by a completed run: the drive    *)
(* that reads the exit of the signalled script sees the cancel, whichever of   *)
(* the two settles the record last.                                         *)
CancelIsKept == \A r \in Resumes : record[r].cancelled => record[r].state # "completed"

=============================================================================
