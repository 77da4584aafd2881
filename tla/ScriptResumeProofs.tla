------------------------- MODULE ScriptResumeProofs -------------------------
(***************************************************************************)
(* Proofs about ScriptResume, for any steps, policies, fingerprints,       *)
(* resumes, handlers and number of crashes.                                *)
(***************************************************************************)
EXTENDS ScriptResume, TLAPS

AfterApply == {"register", "reopen", "spawn", "drive", "exited", "ending", "journal", "finally"}

(* The consent on s is leaked, or stems from a resume that will take it back.  *)
Covered(s) ==
    \/ s \in leaked
    \/ \E r \in Resumes :
          /\ resume[r].pc \in AfterApply
          /\ resume[r].decisions[s] # "none"
          /\ step[s].state = DecisionState[resume[r].decisions[s]]
          /\ resume[r].granted[s] \notin Authorised \cup {"none"}

ConsentCovered == \A s \in Consented : Covered(s)

(* What apply_decisions found is a state of the row; if it was a consent, that *)
(* one had leaked.                                                         *)
GrantsKnown ==
    \A r \in Resumes : resume[r].pc \in AfterApply \cup {"apply"} =>
        \A s \in Steps : resume[r].decisions[s] # "none" =>
            /\ resume[r].granted[s] # "none"
            /\ resume[r].granted[s] \in Authorised => s \in leaked

EndingCode == \A r \in Resumes : resume[r].pc = "ending" => resume[r].code \in {"failed", "cancelled"}

(* A resume that has registered its record still has it.                    *)
Registered ==
    \A r \in Resumes :
        resume[r].pc \in AfterApply \ {"register"} => record[r].state # "none"

CallsKnown ==
    \A h \in Calls : call[h].pc # "free" => call[h].step \in Steps /\ call[h].print \in Prints

(* The inductive invariant.                                                *)
ResumeInv ==
    /\ TypeOK
    /\ CallsKnown
    /\ EndingCode
    /\ Registered
    /\ CancelIsKept
    /\ ClaimHasOneHolder
    /\ GrantsKnown
    /\ ConsentCovered
    /\ NoStandingConsent

-----------------------------------------------------------------------------
(* Types.                                                                  *)

ResumeRec ==
    [pc : Pcs, completed : BOOLEAN, decisions : Decisions,
     granted : [Steps -> StepStates \cup {"none"}], code : Ends \cup {"none"}]

StepRec == [state : StepStates, print : Prints \cup {None}, result : Envelopes]

LEMMA IdleTyped ==
    /\ IdleResume \in ResumeRec
    /\ Over \in ResumeRec
    /\ Over.pc = "done"
    /\ IdleResume.pc = "idle"
<1>1. IdleResume \in ResumeRec /\ IdleResume.pc = "idle"
  BY DEF IdleResume, ResumeRec, Pcs, Decisions
<1>2. Over \in ResumeRec /\ Over.pc = "done"
  BY <1>1 DEF Over, ResumeRec, Pcs
<1> QED
  BY <1>1, <1>2

(* A move of the program counter.                                           *)
LEMMA GotoTyped ==
    ASSUME TypeOK, NEW r \in Resumes, NEW pc \in Pcs, Goto(r, pc)
    PROVE  resume' \in [Resumes -> ResumeRec]
<1>1. resume \in [Resumes -> ResumeRec] /\ resume[r] \in ResumeRec
  BY DEF TypeOK, ResumeRec
<1>2. [resume[r] EXCEPT !.pc = pc] \in ResumeRec
  BY <1>1 DEF ResumeRec
<1> QED
  BY <1>1, <1>2 DEF Goto

LEMMA GotoWithTyped ==
    ASSUME TypeOK, NEW r \in Resumes, NEW pc \in Pcs, NEW code \in Ends \cup {"none"},
           GotoWith(r, pc, code)
    PROVE  resume' \in [Resumes -> ResumeRec]
<1>1. resume \in [Resumes -> ResumeRec] /\ resume[r] \in ResumeRec
  BY DEF TypeOK, ResumeRec
<1>2. [resume[r] EXCEPT !.pc = pc, !.code = code] \in ResumeRec
  BY <1>1 DEF ResumeRec
<1> QED
  BY <1>1, <1>2 DEF GotoWith

LEMMA RevokeTyped ==
    ASSUME TypeOK, NEW r \in Resumes, revoke_unconsumed_decisions(resume[r].granted)
    PROVE  step' \in [Steps -> StepRec]
<1> DEFINE g == resume[r].granted
<1>1. g \in [Steps -> StepStates \cup {"none"}]
  BY DEF TypeOK
<1>2. ASSUME NEW s \in Steps
      PROVE  (IF g[s] \notin Authorised \cup {"none"} /\ step[s].state \in Authorised
              THEN [step[s] EXCEPT !.state = g[s]] ELSE step[s]) \in StepRec
  <2>1. step[s] \in StepRec
    BY DEF TypeOK, StepRec
  <2>2. g[s] \in StepStates \cup {"none"}
    BY <1>1
  <2> QED
    BY <2>1, <2>2 DEF StepRec
<1> QED
  BY <1>2 DEF revoke_unconsumed_decisions

LEMMA FinallyTyped ==
    ASSUME TypeOK, NEW r \in Resumes, Finally(r)
    PROVE  TypeOK'
<1>1. resume' \in [Resumes -> ResumeRec]
  BY IdleTyped DEF TypeOK, Finally, ResumeRec
<1>2. step' \in [Steps -> StepRec]
  BY RevokeTyped DEF TypeOK, Finally, StepRec
<1>3. leaked' \subseteq Steps
  BY DEF TypeOK, Finally, Consented
<1> QED
  BY <1>1, <1>2, <1>3 DEF TypeOK, Finally, ResumeRec, StepRec

LEMMA ResumeTyped ==
    ASSUME TypeOK, EndingCode, Registered, NEW r \in Resumes,
           Gate1(r) \/ ResumeStep(r) \/ ScriptEnds(r)
    PROVE  TypeOK'
<1> DEFINE Rec == [state : RunStates \cup {"none"}, cancelled : BOOLEAN]
<1>a. resume \in [Resumes -> ResumeRec] /\ resume[r] \in ResumeRec
  BY DEF TypeOK, ResumeRec
<1>b. record \in [Resumes -> Rec] /\ record[r] \in Rec
  BY DEF TypeOK
<1>1. CASE Gate1(r)
  <2>2. [resume[r] EXCEPT !.pc = "gate2", !.completed = (run = "completed")] \in ResumeRec
    BY <1>a DEF ResumeRec, Pcs
  <2>3. resume' \in [Resumes -> ResumeRec]
    BY <2>2, <1>1, <1>a DEF Gate1
  <2> QED
    BY <2>3, <1>1 DEF TypeOK, ResumeRec, Gate1
<1>2. ASSUME NEW d \in Decisions, Gate2(r, d)
      PROVE  TypeOK'
  <2>2. [resume[r] EXCEPT !.pc = "gate5", !.decisions = d] \in ResumeRec
    BY <1>a DEF ResumeRec, Pcs
  <2>3. resume' \in [Resumes -> ResumeRec]
    BY <2>2, <1>2, <1>a, IdleTyped DEF Gate2
  <2> QED
    BY <2>3, <1>2 DEF TypeOK, ResumeRec, Gate2
<1>3. CASE Gate5(r)
  <2>1. CASE Finally(r)
    BY <2>1, FinallyTyped
  <2>2. CASE ~ Finally(r)
    <3>1. PICK pc \in Pcs : Goto(r, pc)
      BY <1>3, <2>2 DEF Gate5, Pcs
    <3> QED
      BY <3>1, <2>2, <1>3, GotoTyped DEF TypeOK, ResumeRec, Gate5
  <2> QED
    BY <2>1, <2>2
<1>4. CASE ReadPriors(r)
  <2>1. CASE Finally(r)
    BY <2>1, FinallyTyped
  <2>2. CASE ~ Finally(r)
    <3> DEFINE g == [s \in Steps |-> IF resume[r].decisions[s] = "none" THEN "none"
                                     ELSE step[s].state]
    <3>1. g \in [Steps -> StepStates \cup {"none"}]
      BY DEF TypeOK
    <3>2. [resume[r] EXCEPT !.pc = "apply", !.granted = g] \in ResumeRec
      BY <1>a, <3>1 DEF ResumeRec, Pcs
    <3>3. resume' \in [Resumes -> ResumeRec]
      BY <1>4, <2>2, <3>2, <1>a DEF ReadPriors
    <3> QED
      BY <3>3, <1>4, <2>2 DEF TypeOK, ResumeRec, ReadPriors
  <2> QED
    BY <2>1, <2>2
<1>5. CASE Apply(r)
  <2>1. Goto(r, "register") /\ "register" \in Pcs
    BY <1>5 DEF Apply, Pcs
  <2> DEFINE d == resume[r].decisions
  <2>2. d \in Decisions
    BY DEF TypeOK
  <2>3. ASSUME NEW s \in Steps
        PROVE  (IF d[s] = "none" THEN step[s]
                ELSE [step[s] EXCEPT !.state = DecisionState[d[s]]]) \in StepRec
    <3>1. step[s] \in StepRec
      BY DEF TypeOK, StepRec
    <3>2. d[s] # "none" => DecisionState[d[s]] \in StepStates
      BY <2>2 DEF Decisions, DecisionState, StepStates, Authorised
    <3> QED
      BY <3>1, <3>2 DEF StepRec
  <2>4. step' \in [Steps -> StepRec]
    BY <1>5, <2>3 DEF Apply, apply_decisions
  <2> QED
    BY <2>1, <2>4, <1>5, GotoTyped DEF TypeOK, ResumeRec, Apply, StepRec
<1>6. CASE Register(r)
  <2>1. Goto(r, "reopen") /\ "reopen" \in Pcs
    BY <1>6 DEF Register, Pcs
  <2>2. record' \in [Resumes -> Rec]
    BY <1>6 DEF TypeOK, Register, NoRecord, RunStates
  <2> QED
    BY <2>1, <2>2, <1>6, GotoTyped DEF TypeOK, ResumeRec, Register
<1>7. CASE Reopen(r)
  <2>1. Goto(r, "spawn") /\ "spawn" \in Pcs
    BY <1>7 DEF Reopen, Pcs
  <2> QED
    BY <2>1, <1>7, GotoTyped DEF TypeOK, ResumeRec, Reopen, RunStates
<1>8. CASE ResumeFails(r)
  <2>1. CASE Finally(r)
    BY <2>1, FinallyTyped
  <2>2. CASE ~ Finally(r)
    <3>1. resume' \in [Resumes -> ResumeRec]
      BY <1>8, <2>2, <1>a, IdleTyped DEF ResumeFails
    <3> QED
      BY <3>1, <1>8, <2>2 DEF TypeOK, ResumeRec, ResumeFails
  <2> QED
    BY <2>1, <2>2
<1>9. CASE Spawn(r)
  <2>1. resume' \in [Resumes -> ResumeRec]
    BY <1>9, GotoTyped, GotoWithTyped DEF Spawn, Pcs, Ends
  <2> QED
    BY <2>1, <1>9 DEF TypeOK, ResumeRec, Spawn
<1>10. CASE Timeout(r)
  <2>1. resume' \in [Resumes -> ResumeRec]
    BY <1>10, GotoWithTyped DEF Timeout, Pcs, Ends
  <2> QED
    BY <2>1, <1>10 DEF TypeOK, ResumeRec, Timeout
<1>11. CASE ReadExit(r)
  <2>1. resume' \in [Resumes -> ResumeRec]
    BY <1>11, GotoTyped, GotoWithTyped DEF ReadExit, Pcs, Ends
  <2>2. record' \in [Resumes -> Rec]
    <3>1. [record[r] EXCEPT !.state = "completed"] \in Rec
      BY <1>b DEF RunStates
    <3> QED
      BY <3>1, <1>11, <1>b DEF ReadExit
  <2> QED
    BY <2>1, <2>2, <1>11 DEF TypeOK, ResumeRec, ReadExit
<1>12. CASE Finalize(r)
  <2>1. Goto(r, "journal") /\ "journal" \in Pcs
    BY <1>12 DEF Finalize, Pcs
  <2>2. record' \in [Resumes -> Rec]
    <3>1. resume[r].code \in RunStates
      BY <1>12 DEF EndingCode, Finalize, RunStates
    <3>2. [record[r] EXCEPT !.state = resume[r].code] \in Rec
      BY <3>1, <1>b
    <3> QED
      BY <3>2, <1>12, <1>b DEF Finalize
  <2> QED
    BY <2>1, <2>2, <1>12, GotoTyped DEF TypeOK, ResumeRec, Finalize
<1>13. CASE JournalEnd(r)
  <2>1. resume' \in [Resumes -> ResumeRec]
    BY <1>13, GotoWithTyped DEF JournalEnd, Pcs
  <2>2. record[r].state \in RunStates
    BY <1>13 DEF JournalEnd, Registered, AfterApply, TypeOK
  <2> QED
    BY <2>1, <2>2, <1>13 DEF TypeOK, ResumeRec, JournalEnd
<1>14. CASE Return(r)
  BY <1>14, FinallyTyped DEF Return
<1>15. CASE ScriptEnds(r)
  <2>1. resume' \in [Resumes -> ResumeRec]
    BY <1>15, GotoWithTyped DEF ScriptEnds, Exit, Pcs, Ends
  <2> QED
    BY <2>1, <1>15 DEF TypeOK, ResumeRec, ScriptEnds
<1> QED
  BY <1>1, <1>2, <1>3, <1>4, <1>5, <1>6, <1>7, <1>8, <1>9, <1>10, <1>11, <1>12, <1>13,
     <1>14, <1>15 DEF ResumeStep

LEMMA CancelTyped ==
    ASSUME TypeOK, NEW r \in Resumes, CancelStep(r)
    PROVE  TypeOK'
<1> DEFINE Rec == [state : RunStates \cup {"none"}, cancelled : BOOLEAN]
<1>a. record \in [Resumes -> Rec] /\ record[r] \in Rec
  BY DEF TypeOK
<1>1. CASE CancelBegin(r)
  <2>1. [record[r] EXCEPT !.cancelled = TRUE] \in Rec
    BY <1>a
  <2>2. record' \in [Resumes -> Rec]
    BY <2>1, <1>1, <1>a DEF CancelBegin
  <2> QED
    BY <2>2, <1>1 DEF TypeOK, CancelBegin
<1>2. CASE CancelKill(r)
  <2>1. resume' \in [Resumes -> ResumeRec]
    <3>1. CASE resume[r].pc = "drive"
      BY <3>1, <1>2, GotoWithTyped DEF CancelKill, Exit, Pcs, Ends
    <3>2. CASE resume[r].pc # "drive"
      BY <3>2, <1>2 DEF CancelKill, TypeOK, ResumeRec
    <3> QED
      BY <3>1, <3>2
  <2> QED
    BY <2>1, <1>2 DEF TypeOK, ResumeRec, CancelKill
<1>3. CASE CancelMark(r)
  <2>1. [record[r] EXCEPT !.state = "cancelled"] \in Rec
    BY <1>a DEF RunStates
  <2>2. record' \in [Resumes -> Rec]
    BY <2>1, <1>3, <1>a DEF CancelMark
  <2> QED
    BY <2>2, <1>3 DEF TypeOK, CancelMark
<1>4. CASE CancelWrite(r)
  BY <1>4 DEF TypeOK, CancelWrite, RunStates
<1> QED
  BY <1>1, <1>2, <1>3, <1>4 DEF CancelStep

CallRec ==
    [pc : {"free", "admitted", "cleared", "executing"}, step : Steps \cup {None},
     print : Prints \cup {None}]

LEMMA FreeTyped ==
    ASSUME TypeOK, NEW h \in Calls, Free(h)
    PROVE  call' \in [Calls -> CallRec]
BY DEF TypeOK, Free, IdleCall, CallRec

LEMMA SettleTyped ==
    ASSUME TypeOK, NEW s \in Steps, NEW state \in StepStates, NEW result \in Envelopes,
           settle_step(s, state, result)
    PROVE  step' \in [Steps -> StepRec]
<1>1. step \in [Steps -> StepRec] /\ step[s] \in StepRec
  BY DEF TypeOK, StepRec
<1>2. step' = [step EXCEPT ![s] = [step[s] EXCEPT !.state = state, !.result = result]]
  BY <1>1 DEF settle_step
<1>3. [step[s] EXCEPT !.state = state, !.result = result] \in StepRec
  BY <1>1 DEF StepRec
<1> QED
  BY <1>1, <1>2, <1>3

LEMMA BeginTyped ==
    ASSUME TypeOK, NEW s \in Steps, NEW f \in Prints, begin_step(s, f)
    PROVE  step' \in [Steps -> StepRec]
<1> DEFINE g == IF step[s].state = "completed" THEN step[s].print ELSE f
<1>1. step \in [Steps -> StepRec] /\ step[s] \in StepRec
  BY DEF TypeOK, StepRec
<1>2. step' = [step EXCEPT ![s] = [step[s] EXCEPT !.state = "running", !.print = g]]
  BY <1>1 DEF begin_step, StepRec
<1>3. [step[s] EXCEPT !.state = "running", !.print = g] \in StepRec
  BY <1>1 DEF StepRec, StepStates
<1> QED
  BY <1>1, <1>2, <1>3

LEMMA CallTyped ==
    ASSUME TypeOK, CallsKnown, NEW h \in Calls, CallStep(h)
    PROVE  TypeOK'
<1>a. call \in [Calls -> CallRec] /\ call[h] \in CallRec
  BY DEF TypeOK, CallRec
<1>b. call[h].step \in Steps /\ call[h].print \in Prints
  <2>1. call[h].pc # "free"
    BY DEF CallStep, Decide, Begin, Settle, SettleFailed, Unsettled
  <2> QED
    BY <2>1 DEF CallsKnown
<1>1. CASE Decide(h)
  <2>1. [call[h] EXCEPT !.pc = "cleared"] \in CallRec
    BY <1>a DEF CallRec
  <2>2. call' \in [Calls -> CallRec]
    BY <2>1, <1>1, <1>a, FreeTyped DEF Decide
  <2> QED
    BY <2>2, <1>1 DEF TypeOK, CallRec, Decide
<1>2. CASE Begin(h)
  <2>1. [call[h] EXCEPT !.pc = "executing"] \in CallRec
    BY <1>a DEF CallRec
  <2>2. call' \in [Calls -> CallRec]
    BY <2>1, <1>2, <1>a DEF Begin
  <2>3. step' \in [Steps -> StepRec]
    BY <1>2, <1>b, BeginTyped DEF Begin, TypeOK, StepRec
  <2> QED
    BY <2>2, <2>3, <1>2 DEF TypeOK, CallRec, StepRec, Begin
<1>3. CASE Settle(h)
  <2>1. step' \in [Steps -> StepRec]
    BY <1>3, <1>b, SettleTyped DEF Settle, StepStates, Settled, Envelopes
  <2> QED
    BY <2>1, <1>3, FreeTyped DEF TypeOK, CallRec, StepRec, Settle
<1>4. CASE SettleFailed(h)
  <2>1. step' \in [Steps -> StepRec]
    BY <1>4, <1>b, SettleTyped DEF SettleFailed, StepStates, Settled, Envelopes
  <2> QED
    BY <2>1, <1>4, FreeTyped DEF TypeOK, CallRec, StepRec, SettleFailed
<1>5. CASE Unsettled(h)
  BY <1>5, FreeTyped DEF TypeOK, CallRec, Unsettled
<1> QED
  BY <1>1, <1>2, <1>3, <1>4, <1>5 DEF CallStep

LEMMA CrashTyped ==
    ASSUME ConstantsOK, TypeOK, Crash
    PROVE  TypeOK'
<1>1. resume' \in [Resumes -> ResumeRec]
  BY IdleTyped DEF TypeOK, Crash, ResumeRec
<1>2. record' \in [Resumes -> [state : RunStates \cup {"none"}, cancelled : BOOLEAN]]
  BY DEF Crash, NoRecord
<1>3. call' \in [Calls -> CallRec]
  BY DEF Crash, IdleCall, CallRec
<1>4. crashes' \in 0 .. MAX_CRASHES /\ leaked' \subseteq Steps
  BY DEF TypeOK, Crash, Consented, ConstantsOK
<1> QED
  BY <1>1, <1>2, <1>3, <1>4 DEF TypeOK, ResumeRec, CallRec, Crash

LEMMA NextTyped ==
    ASSUME ConstantsOK, TypeOK, CallsKnown, EndingCode, Registered, [Next]_vars
    PROVE  TypeOK'
<1>1. ASSUME NEW h \in Calls, NEW r \in Resumes, NEW s \in Steps, NEW f \in Prints,
             Admit(h, r, s, f)
      PROVE  TypeOK'
  <2>1. call' \in [Calls -> CallRec]
    BY <1>1 DEF TypeOK, CallRec, Admit
  <2> QED
    BY <2>1, <1>1 DEF TypeOK, CallRec, Admit
<1>2. CASE CancelRemnant
  BY <1>2 DEF TypeOK, CancelRemnant, RunStates
<1>3. CASE UNCHANGED vars
  BY <1>3 DEF TypeOK, vars
<1> QED
  BY <1>1, <1>2, <1>3, ResumeTyped, CancelTyped, CallTyped, CrashTyped DEF Next

LEMMA InitTyped ==
    ASSUME ConstantsOK, Init
    PROVE  TypeOK
<1>1. ASSUME NEW f \in Prints
      PROVE  FirstRows(f) \subseteq StepRec
  BY DEF FirstRows, StepRec, StepStates, Settled, Envelopes
<1>2. step \in [Steps -> StepRec]
  BY <1>1 DEF Init
<1>3. resume \in [Resumes -> ResumeRec]
  BY IdleTyped DEF Init
<1>4. /\ record \in [Resumes -> [state : RunStates \cup {"none"}, cancelled : BOOLEAN]]
      /\ call \in [Calls -> CallRec]
      /\ crashes \in 0 .. MAX_CRASHES
  BY DEF Init, NoRecord, IdleCall, CallRec, ConstantsOK
<1> QED
  BY <1>2, <1>3, <1>4 DEF Init, TypeOK, StepRec, ResumeRec, CallRec

-----------------------------------------------------------------------------
(* What a step does to the requests.                                        *)

Outside == {"idle", "gate2", "done"}

Others(r) == \A x \in Resumes \ {r} : resume'[x] = resume[x]

(* Request r goes from pc p to pc q and keeps its decisions and grants.       *)
Moves(r, p, q) ==
    /\ Others(r)
    /\ resume[r].pc = p
    /\ resume'[r].pc = q
    /\ resume'[r].decisions = resume[r].decisions
    /\ resume'[r].granted = resume[r].granted

LEMMA GotoMoves ==
    ASSUME TypeOK, NEW r \in Resumes, NEW pc, Goto(r, pc)
    PROVE  Moves(r, resume[r].pc, pc) /\ resume'[r].code = resume[r].code
<1>1. resume \in [Resumes -> ResumeRec] /\ resume[r] \in ResumeRec
  BY DEF TypeOK, ResumeRec
<1>2. resume' = [resume EXCEPT ![r] = [resume[r] EXCEPT !.pc = pc]]
  BY DEF Goto
<1>3. resume'[r] = [resume[r] EXCEPT !.pc = pc] /\ Others(r)
  BY <1>1, <1>2 DEF Others
<1> QED
  BY <1>1, <1>3 DEF Moves, ResumeRec

LEMMA GotoWithMoves ==
    ASSUME TypeOK, NEW r \in Resumes, NEW pc, NEW code, GotoWith(r, pc, code)
    PROVE  Moves(r, resume[r].pc, pc) /\ resume'[r].code = code
<1>1. resume \in [Resumes -> ResumeRec] /\ resume[r] \in ResumeRec
  BY DEF TypeOK, ResumeRec
<1>2. resume'[r] = [resume[r] EXCEPT !.pc = pc, !.code = code] /\ Others(r)
  BY <1>1 DEF Others, GotoWith
<1> QED
  BY <1>1, <1>2 DEF Moves, ResumeRec

LEMMA OverMoves ==
    ASSUME TypeOK, NEW r \in Resumes, resume' = [resume EXCEPT ![r] = Over]
    PROVE  Others(r) /\ resume'[r].pc = "done"
<1>1. resume \in [Resumes -> ResumeRec]
  BY DEF TypeOK, ResumeRec
<1> QED
  BY <1>1, IdleTyped DEF Others

(* The steps of a claimant that keep the claim.                             *)
Drives(r) ==
    /\ resume[r].pc \notin Outside
    /\ resume'[r].pc \notin Outside
    /\ Others(r)
    /\ UNCHANGED active

(* The steps that end a request.                                            *)
Leaves(r) ==
    /\ resume[r].pc \notin Outside
    /\ resume'[r].pc = "done"
    /\ Others(r)
    /\ active' = FALSE

Claims(r) ==
    /\ resume[r].pc = "gate2"
    /\ resume'[r].pc = "gate5"
    /\ Others(r)
    /\ active = FALSE
    /\ active' = TRUE

Waits(r) ==
    /\ resume[r].pc \in Outside
    /\ resume'[r].pc \in Outside
    /\ Others(r)
    /\ UNCHANGED active

LEMMA FinallyLeaves ==
    ASSUME TypeOK, NEW r \in Resumes, resume[r].pc \notin Outside, Finally(r)
    PROVE  Leaves(r)
BY OverMoves DEF Finally, Leaves

LEMMA StepKinds ==
    ASSUME TypeOK, NEW r \in Resumes,
           Gate1(r) \/ ResumeStep(r) \/ ScriptEnds(r) \/ CancelKill(r)
    PROVE  Drives(r) \/ Leaves(r) \/ Claims(r) \/ Waits(r)
<1> USE DEF Outside
<1>a. resume \in [Resumes -> ResumeRec] /\ resume[r] \in ResumeRec
  BY DEF TypeOK, ResumeRec
<1>1. CASE Gate1(r)
  BY <1>1, <1>a DEF Gate1, Waits, Others, ResumeRec
<1>2. ASSUME NEW d \in Decisions, Gate2(r, d)
      PROVE  Claims(r) \/ Waits(r)
  <2>1. CASE active \/ resume[r].completed
    BY <1>2, <2>1, OverMoves DEF Gate2, Waits
  <2>2. CASE ~ active /\ ~ resume[r].completed
    <3>1. resume'[r] = [resume[r] EXCEPT !.pc = "gate5", !.decisions = d] /\ Others(r)
      BY <1>2, <2>2, <1>a DEF Gate2, Others
    <3> QED
      BY <3>1, <1>2, <2>2, <1>a DEF Gate2, Claims, ResumeRec, TypeOK
  <2> QED
    BY <2>1, <2>2
<1>3. CASE Gate5(r)
  BY <1>3, FinallyLeaves, GotoMoves DEF Gate5, Drives, Moves
<1>4. CASE ReadPriors(r)
  <2>1. CASE Finally(r)
    BY <1>4, <2>1, FinallyLeaves DEF ReadPriors
  <2>2. CASE ~ Finally(r)
    <3> DEFINE g == [s \in Steps |-> IF resume[r].decisions[s] = "none" THEN "none"
                                     ELSE step[s].state]
    <3>1. resume'[r] = [resume[r] EXCEPT !.pc = "apply", !.granted = g] /\ Others(r)
      BY <1>4, <2>2, <1>a DEF ReadPriors, Others
    <3> QED
      BY <3>1, <1>4, <2>2, <1>a DEF ReadPriors, Drives, ResumeRec
  <2> QED
    BY <2>1, <2>2
<1>5. CASE Apply(r)
  BY <1>5, GotoMoves DEF Apply, Drives, Moves
<1>6. CASE Register(r)
  BY <1>6, GotoMoves DEF Register, Drives, Moves
<1>7. CASE Reopen(r)
  BY <1>7, GotoMoves DEF Reopen, Drives, Moves
<1>8. CASE ResumeFails(r)
  BY <1>8, OverMoves, FinallyLeaves DEF ResumeFails, Leaves
<1>9. CASE Spawn(r)
  BY <1>9, GotoMoves, GotoWithMoves DEF Spawn, Drives, Moves
<1>10. CASE Timeout(r)
  BY <1>10, GotoWithMoves DEF Timeout, Drives, Moves
<1>11. CASE ReadExit(r)
  BY <1>11, GotoMoves, GotoWithMoves DEF ReadExit, Drives, Moves
<1>12. CASE Finalize(r)
  BY <1>12, GotoMoves DEF Finalize, Drives, Moves
<1>13. CASE JournalEnd(r)
  BY <1>13, GotoWithMoves DEF JournalEnd, Drives, Moves
<1>14. CASE Return(r)
  BY <1>14, FinallyLeaves DEF Return
<1>15. CASE ScriptEnds(r)
  BY <1>15, GotoWithMoves DEF ScriptEnds, Exit, Drives, Moves
<1>16. CASE CancelKill(r)
  <2>1. CASE resume[r].pc = "drive"
    BY <1>16, <2>1, GotoWithMoves DEF CancelKill, Exit, Drives, Moves
  <2>2. CASE resume[r].pc # "drive"
    BY <1>16, <2>2 DEF CancelKill, Drives, Waits, Others
  <2> QED
    BY <2>1, <2>2
<1> QED
  BY <1>1, <1>2, <1>3, <1>4, <1>5, <1>6, <1>7, <1>8, <1>9, <1>10, <1>11, <1>12, <1>13,
     <1>14, <1>15, <1>16 DEF ResumeStep

LEMMA ClaimStep ==
    ASSUME TypeOK, ClaimHasOneHolder, [Next]_vars
    PROVE  ClaimHasOneHolder'
<1>1. ASSUME NEW r \in Resumes, Drives(r) \/ Leaves(r) \/ Claims(r) \/ Waits(r)
      PROVE  ClaimHasOneHolder'
  <2> USE DEF ClaimHasOneHolder, Claimants, Others, Outside
  <2>1. CASE Drives(r)
    BY <2>1 DEF Drives
  <2>2. CASE Leaves(r)
    BY <2>2 DEF Leaves
  <2>3. CASE Claims(r)
    BY <2>3 DEF Claims
  <2>4. CASE Waits(r)
    BY <2>4 DEF Waits
  <2> QED
    BY <1>1, <2>1, <2>2, <2>3, <2>4
<1>2. CASE UNCHANGED <<resume, active>>
  BY <1>2 DEF ClaimHasOneHolder, Claimants
<1>3. CASE Crash
  <2>1. \A r \in Resumes : resume'[r].pc \in {"idle", "done"}
    BY <1>3, IdleTyped DEF Crash
  <2> QED
    BY <2>1, <1>3 DEF Crash, ClaimHasOneHolder, Claimants
<1>4. ASSUME NEW r \in Resumes, CancelStep(r)
      PROVE  CancelKill(r) \/ UNCHANGED <<resume, active>>
  BY <1>4 DEF CancelStep, CancelBegin, CancelMark, CancelWrite
<1>5. ASSUME NEW h \in Calls, CallStep(h)
      PROVE  UNCHANGED <<resume, active>>
  BY <1>5 DEF CallStep, Decide, Begin, Settle, SettleFailed, Unsettled
<1>6. ASSUME NEW h \in Calls, NEW r \in Resumes, NEW s \in Steps, NEW f \in Prints,
             Admit(h, r, s, f)
      PROVE  UNCHANGED <<resume, active>>
  BY <1>6 DEF Admit
<1> QED
  BY <1>1, <1>2, <1>3, <1>4, <1>5, <1>6, StepKinds DEF Next, CancelRemnant, vars

-----------------------------------------------------------------------------
(* Handlers, exit codes and records.                                        *)

LEMMA CallsStep ==
    ASSUME TypeOK, CallsKnown, [Next]_vars
    PROVE  CallsKnown'
<1>a. call \in [Calls -> CallRec]
  BY DEF TypeOK, CallRec
<1>1. ASSUME NEW h \in Calls, CallStep(h)
      PROVE  CallsKnown'
  <2>1. CASE Free(h)
    BY <2>1, <1>a DEF Free, CallsKnown, IdleCall
  <2>2. CASE ~ Free(h)
    <3>1. PICK pc : call[h].pc # "free" /\ call' = [call EXCEPT ![h] = [call[h] EXCEPT !.pc = pc]]
      BY <1>1, <2>2, <1>a DEF CallStep, Decide, Begin, Settle, SettleFailed, Unsettled, CallRec
    <3>2. call'[h].step = call[h].step /\ call'[h].print = call[h].print
      BY <3>1, <1>a DEF CallRec
    <3> QED
      BY <3>1, <3>2, <1>a DEF CallsKnown
  <2> QED
    BY <2>1, <2>2
<1>2. ASSUME NEW h \in Calls, NEW r \in Resumes, NEW s \in Steps, NEW f \in Prints,
             Admit(h, r, s, f)
      PROVE  CallsKnown'
  BY <1>2, <1>a DEF Admit, CallsKnown
<1>3. CASE Crash
  BY <1>3 DEF Crash, CallsKnown, IdleCall
<1>4. CASE UNCHANGED call
  BY <1>4 DEF CallsKnown
<1>5. ASSUME NEW r \in Resumes, Gate1(r) \/ ResumeStep(r) \/ ScriptEnds(r) \/ CancelStep(r)
      PROVE  UNCHANGED call
  BY <1>5 DEF Gate1, ResumeStep, ScriptEnds, CancelStep, Gate2, Gate5, ReadPriors, Apply,
     Register, Reopen, ResumeFails, Spawn, Timeout, ReadExit, Finalize, JournalEnd, Return,
     Finally, CancelBegin, CancelKill, CancelMark, CancelWrite
<1> QED
  BY <1>1, <1>2, <1>3, <1>4, <1>5 DEF Next, CancelRemnant, vars

Recorded == EndingCode /\ Registered /\ CancelIsKept

Late == AfterApply \ {"register"}

(* r moves to q; if q is late it was late before, and a code for "ending" fits. *)
LEMMA KeepsRecorded ==
    ASSUME Recorded, UNCHANGED record, NEW r \in Resumes, Others(r),
           resume'[r].pc \in Late => resume[r].pc \in Late,
           resume'[r].pc = "ending" => resume'[r].code \in {"failed", "cancelled"}
    PROVE  Recorded'
BY DEF Recorded, EndingCode, Registered, CancelIsKept, Others, Late

LEMMA RecordsStep ==
    ASSUME TypeOK, ClaimHasOneHolder, Recorded, [Next]_vars
    PROVE  Recorded'
<1> USE DEF Late, AfterApply
<1> DEFINE Rec == [state : RunStates \cup {"none"}, cancelled : BOOLEAN]
<1>a. record \in [Resumes -> Rec]
  BY DEF TypeOK
<1>1. ASSUME NEW r \in Resumes, Finally(r)
      PROVE  Recorded'
  BY <1>1, OverMoves, KeepsRecorded DEF Finally
<1>2. ASSUME NEW r \in Resumes, Gate1(r) \/ ResumeStep(r) \/ ScriptEnds(r)
      PROVE  Recorded'
  <2>a. resume \in [Resumes -> ResumeRec] /\ resume[r] \in ResumeRec
    BY DEF TypeOK, ResumeRec
  <2>1. CASE Gate1(r)
    <3>1. resume'[r].pc = "gate2" /\ Others(r)
      BY <2>1, <2>a DEF Gate1, Others, ResumeRec
    <3> QED
      BY <3>1, <2>1, KeepsRecorded DEF Gate1
  <2>2. ASSUME NEW d \in Decisions, Gate2(r, d)
        PROVE  Recorded'
    <3>1. (Claims(r) \/ Waits(r)) /\ UNCHANGED record
      <4>1. ResumeStep(r)
        BY <2>2 DEF ResumeStep
      <4> QED
        BY <4>1, <2>2, StepKinds DEF Gate2, Drives, Leaves, Outside
    <3> QED
      BY <3>1, KeepsRecorded DEF Claims, Waits, Outside
  <2>3. CASE Gate5(r)
    <3>1. CASE Finally(r)
      BY <3>1, <1>1
    <3>2. CASE ~ Finally(r)
      BY <2>3, <3>2, GotoMoves, KeepsRecorded DEF Gate5, Moves
    <3> QED
      BY <3>1, <3>2
  <2>4. CASE ReadPriors(r)
    <3>1. CASE Finally(r)
      BY <3>1, <1>1
    <3>2. CASE ~ Finally(r)
      <4> DEFINE g == [s \in Steps |-> IF resume[r].decisions[s] = "none" THEN "none"
                                       ELSE step[s].state]
      <4>1. resume'[r] = [resume[r] EXCEPT !.pc = "apply", !.granted = g] /\ Others(r)
        BY <2>4, <3>2, <2>a DEF ReadPriors, Others
      <4>2. resume'[r].pc = "apply"
        BY <4>1, <2>a DEF ResumeRec
      <4> QED
        BY <4>1, <4>2, <2>4, <3>2, KeepsRecorded DEF ReadPriors
    <3> QED
      BY <3>1, <3>2
  <2>5. CASE Apply(r)
    BY <2>5, GotoMoves, KeepsRecorded DEF Apply, Moves
  <2>6. CASE Register(r)
    <3>1. Moves(r, "register", "reopen")
      BY <2>6, GotoMoves DEF Register
    <3>2. \A x \in Resumes \ {r} : resume[x].pc \notin AfterApply
      BY <3>1 DEF ClaimHasOneHolder, Claimants, Moves
    <3>3. record'[r] = [state |-> "running", cancelled |-> FALSE]
      BY <2>6 DEF Register
    <3>4. \A x \in Resumes \ {r} : record'[x] \in {NoRecord, record[x]}
      BY <2>6 DEF Register
    <3>5. EndingCode' /\ Registered'
      BY <3>1, <3>2, <3>3 DEF Recorded, EndingCode, Registered, Moves, Others
    <3>6. CancelIsKept'
      BY <3>3, <3>4 DEF Recorded, CancelIsKept, NoRecord
    <3> QED
      BY <3>5, <3>6 DEF Recorded
  <2>7. CASE Reopen(r)
    BY <2>7, GotoMoves, KeepsRecorded DEF Reopen, Moves
  <2>8. CASE ResumeFails(r)
    BY <2>8, <1>1, OverMoves, KeepsRecorded DEF ResumeFails
  <2>9. CASE Spawn(r)
    BY <2>9, GotoMoves, GotoWithMoves, KeepsRecorded DEF Spawn, Moves
  <2>10. CASE Timeout(r)
    BY <2>10, GotoWithMoves, KeepsRecorded DEF Timeout, Moves
  <2>11. CASE ReadExit(r)
    <3>1. CASE Cancelled(r)
      BY <2>11, <3>1, GotoWithMoves, KeepsRecorded DEF ReadExit, Moves
    <3>2. CASE ~ Cancelled(r) /\ resume[r].code = "completed"
      <4>1. Moves(r, "exited", "journal")
        BY <2>11, <3>2, GotoMoves DEF ReadExit
      <4>2. record' = [record EXCEPT ![r] = [record[r] EXCEPT !.state = "completed"]]
        BY <2>11, <3>2 DEF ReadExit
      <4>3. record'[r].state = "completed" /\ record'[r].cancelled = FALSE
        BY <4>2, <3>2, <1>a DEF Cancelled
      <4> QED
        BY <4>1, <4>2, <4>3, <1>a DEF Recorded, EndingCode, Registered, CancelIsKept, Moves, Others
    <3>3. CASE ~ Cancelled(r) /\ resume[r].code # "completed"
      BY <2>11, <3>3, GotoMoves, KeepsRecorded DEF ReadExit, Moves
    <3> QED
      BY <3>1, <3>2, <3>3
  <2>12. CASE Finalize(r)
    <3>1. Moves(r, "ending", "journal")
      BY <2>12, GotoMoves DEF Finalize
    <3>2. record' = [record EXCEPT ![r] = [record[r] EXCEPT !.state = resume[r].code]]
      BY <2>12 DEF Finalize
    <3>3. record'[r].state \in {"failed", "cancelled"}
      BY <3>1, <3>2, <1>a DEF Recorded, EndingCode, Moves
    <3> QED
      BY <3>1, <3>2, <3>3, <1>a DEF Recorded, EndingCode, Registered, CancelIsKept, Moves, Others
  <2>13. CASE JournalEnd(r)
    BY <2>13, GotoWithMoves, KeepsRecorded DEF JournalEnd, Moves
  <2>14. CASE Return(r)
    BY <2>14, <1>1 DEF Return
  <2>15. CASE ScriptEnds(r)
    BY <2>15, GotoWithMoves, KeepsRecorded DEF ScriptEnds, Exit, Moves
  <2> QED
    BY <1>2, <2>1, <2>2, <2>3, <2>4, <2>5, <2>6, <2>7, <2>8, <2>9, <2>10, <2>11, <2>12,
       <2>13, <2>14, <2>15 DEF ResumeStep
<1>3. ASSUME NEW r \in Resumes, CancelStep(r)
      PROVE  Recorded'
  <2>1. CASE CancelBegin(r)
    <3>1. record' = [record EXCEPT ![r] = [record[r] EXCEPT !.cancelled = TRUE]]
      BY <2>1 DEF CancelBegin
    <3>2. record'[r].state = record[r].state /\ record[r].state = "running"
      BY <3>1, <2>1, <1>a DEF CancelBegin
    <3> QED
      BY <3>1, <3>2, <2>1, <1>a
         DEF CancelBegin, Recorded, EndingCode, Registered, CancelIsKept
  <2>2. CASE CancelKill(r)
    <3>1. CASE resume[r].pc = "drive"
      BY <2>2, <3>1, GotoWithMoves, KeepsRecorded DEF CancelKill, Exit, Moves
    <3>2. CASE resume[r].pc # "drive"
      BY <2>2, <3>2 DEF CancelKill, Recorded, EndingCode, Registered, CancelIsKept
    <3> QED
      BY <3>1, <3>2
  <2>3. CASE CancelMark(r)
    <3>1. record' = [record EXCEPT ![r] = [record[r] EXCEPT !.state = "cancelled"]]
      BY <2>3 DEF CancelMark
    <3>2. record'[r].state = "cancelled"
      BY <3>1, <1>a
    <3> QED
      BY <3>1, <3>2, <2>3, <1>a
         DEF CancelMark, Recorded, EndingCode, Registered, CancelIsKept
  <2>4. CASE CancelWrite(r)
    BY <2>4 DEF CancelWrite, Recorded, EndingCode, Registered, CancelIsKept
  <2> QED
    BY <1>3, <2>1, <2>2, <2>3, <2>4 DEF CancelStep
<1>4. CASE UNCHANGED <<resume, record>>
  BY <1>4 DEF Recorded, EndingCode, Registered, CancelIsKept
<1>5. CASE Crash
  <2>1. \A r \in Resumes : resume'[r].pc \in {"idle", "done"}
    BY <1>5, IdleTyped DEF Crash
  <2> QED
    BY <2>1, <1>5 DEF Crash, Recorded, EndingCode, Registered, CancelIsKept, NoRecord
<1>6. ASSUME NEW h \in Calls, CallStep(h)
      PROVE  UNCHANGED <<resume, record>>
  BY <1>6 DEF CallStep, Decide, Begin, Settle, SettleFailed, Unsettled
<1>7. ASSUME NEW h \in Calls, NEW r \in Resumes, NEW s \in Steps, NEW f \in Prints,
             Admit(h, r, s, f)
      PROVE  UNCHANGED <<resume, record>>
  BY <1>7 DEF Admit
<1> QED
  BY <1>2, <1>3, <1>4, <1>5, <1>6, <1>7 DEF Next, CancelRemnant, vars

-----------------------------------------------------------------------------
(* Consent.                                                                *)

Consents == GrantsKnown /\ ConsentCovered /\ NoStandingConsent

NoNewConsent ==
    \A s \in Steps : step'[s].state \in Authorised => step'[s].state = step[s].state

(* Rows that lose a consent, and a claimant that goes on.                    *)
LEMMA SteadyConsents ==
    ASSUME Consents, NoNewConsent, UNCHANGED leaked,
           UNCHANGED resume \/ \E r \in Resumes, p, q \in AfterApply : Moves(r, p, q)
    PROVE  Consents'
<1> USE DEF Consents, NoNewConsent, Consented
<1>1. CASE UNCHANGED resume
  <2>1. GrantsKnown'
    BY <1>1 DEF GrantsKnown
  <2>2. ConsentCovered'
    BY <1>1 DEF ConsentCovered, Covered
  <2>3. NoStandingConsent'
    BY <1>1 DEF NoStandingConsent, Driving, Claimants
  <2> QED
    BY <2>1, <2>2, <2>3
<1>2. ASSUME NEW r \in Resumes, NEW p \in AfterApply, NEW q \in AfterApply, Moves(r, p, q)
      PROVE  Consents'
  <2> USE <1>2 DEF Moves, Others
  <2>1. GrantsKnown'
    BY DEF GrantsKnown
  <2>2. ConsentCovered'
    <3> SUFFICES ASSUME NEW s \in Steps, step'[s].state \in Authorised
                 PROVE  Covered(s)'
      BY DEF ConsentCovered
    <3>1. Covered(s) /\ step'[s].state = step[s].state
      BY DEF ConsentCovered
    <3> QED
      BY <3>1 DEF Covered
  <2>3. NoStandingConsent'
    <3> SUFFICES ASSUME NEW x \in Resumes, x \in Driving', NEW s \in Steps,
                        step'[s].state \in Authorised
                 PROVE  resume'[x].decisions[s] # "none"
      BY DEF NoStandingConsent, Driving, Claimants
    <3>1. x \in Driving /\ resume'[x].decisions = resume[x].decisions
      <4>1. CASE x = r
        BY <4>1 DEF Driving, Claimants, AfterApply
      <4>2. CASE x # r
        BY <4>2 DEF Driving, Claimants
      <4> QED
        BY <4>1, <4>2
    <3> QED
      BY <3>1 DEF NoStandingConsent
  <2> QED
    BY <2>1, <2>2, <2>3
<1> QED
  BY <1>1, <1>2

(* The claim is released and what stands then had leaked.                    *)
LEMMA ReleasedConsents ==
    ASSUME Consents, ClaimHasOneHolder, NEW r \in Resumes, Leaves(r),
           \A s \in Consented' : s \in leaked', leaked \subseteq leaked'
    PROVE  Consents'
<1>1. \A x \in Resumes : resume'[x].pc \in Outside
  BY DEF Leaves, Others, ClaimHasOneHolder, Claimants, Outside
<1>2. GrantsKnown' /\ NoStandingConsent'
  BY <1>1 DEF GrantsKnown, NoStandingConsent, Driving, Claimants, Outside, AfterApply
<1>3. ConsentCovered'
  BY DEF ConsentCovered, Covered
<1> QED
  BY <1>2, <1>3 DEF Consents

(* Before its decisions are applied, a claimant finds only leaked consent.    *)
LEMMA EarlyConsents ==
    ASSUME Consents, ClaimHasOneHolder, NEW r \in Resumes,
           resume[r].pc \in {"gate5", "priors", "apply"} \/ ~ active
    PROVE  Consented \subseteq leaked
<1>1. \A x \in Resumes : resume[x].pc \notin AfterApply
  BY DEF ClaimHasOneHolder, Claimants, AfterApply
<1> QED
  BY <1>1 DEF Consents, ConsentCovered, Covered

LEMMA FinallyConsents ==
    ASSUME TypeOK, Consents, ClaimHasOneHolder, NEW r \in Resumes,
           resume[r].pc \notin Outside, Finally(r)
    PROVE  Consents'
<1>1. Leaves(r)
  BY FinallyLeaves
<1>2. CASE UNCHANGED step /\ leaked' = leaked \cup Consented
  <2>1. Consented' = Consented
    BY <1>2 DEF Consented
  <2> QED
    BY <1>1, <1>2, <2>1, ReleasedConsents
<1>3. CASE revoke_unconsumed_decisions(resume[r].granted) /\ UNCHANGED leaked
  <2>1. ASSUME NEW s \in Steps, step'[s].state \in Authorised
        PROVE  s \in leaked
    <3>0. step[s] \in StepRec
      BY DEF TypeOK, StepRec
    <3>1. /\ step[s].state \in Authorised
          /\ resume[r].granted[s] \in Authorised \cup {"none"}
      <4>1. CASE resume[r].granted[s] \notin Authorised \cup {"none"} /\ step[s].state \in Authorised
        <5>1. step'[s] = [step[s] EXCEPT !.state = resume[r].granted[s]]
          BY <1>3, <4>1 DEF revoke_unconsumed_decisions
        <5>2. step'[s].state = resume[r].granted[s]
          BY <5>1, <3>0 DEF StepRec
        <5> QED
          BY <5>2, <4>1, <2>1
      <4>2. CASE ~ (resume[r].granted[s] \notin Authorised \cup {"none"} /\ step[s].state \in Authorised)
        <5>1. step'[s] = step[s]
          BY <1>3, <4>2 DEF revoke_unconsumed_decisions
        <5> QED
          BY <5>1, <4>2, <2>1
      <4> QED
        BY <4>1, <4>2
    <3>2. Covered(s)
      BY <3>1 DEF Consents, ConsentCovered, Consented
    <3>3. ASSUME NEW x \in Resumes, resume[x].pc \in AfterApply
          PROVE  x = r
      BY <3>3 DEF ClaimHasOneHolder, Claimants, AfterApply, Outside
    <3> QED
      BY <3>1, <3>2, <3>3 DEF Covered
  <2>2. \A s \in Consented' : s \in leaked'
    BY <2>1, <1>3 DEF Consented
  <2> QED
    BY <1>1, <1>3, <2>2, ReleasedConsents
<1> QED
  BY <1>2, <1>3 DEF Finally

(* The handlers: every row they write loses its consent.                     *)
LEMMA CallConsents ==
    ASSUME TypeOK, CallsKnown, NEW h \in Calls, CallStep(h)
    PROVE  NoNewConsent /\ UNCHANGED <<resume, leaked>>
<1>a. step \in [Steps -> StepRec]
  BY DEF TypeOK, StepRec
<1>b. call[h].step \in Steps
  BY DEF CallStep, Decide, Begin, Settle, SettleFailed, Unsettled, CallsKnown
<1>1. CASE UNCHANGED step
  BY <1>1 DEF NoNewConsent, CallStep, Decide, Begin, Settle, SettleFailed, Unsettled
<1>2. ASSUME NEW s \in Steps, NEW f, begin_step(s, f)
      PROVE  NoNewConsent
  <2>1. step'[s].state = "running" /\ \A t \in Steps \ {s} : step'[t] = step[t]
    BY <1>2, <1>a DEF begin_step, StepRec
  <2> QED
    BY <2>1 DEF NoNewConsent, Authorised
<1>3. ASSUME NEW s \in Steps, NEW state \in Settled, NEW result, settle_step(s, state, result)
      PROVE  NoNewConsent
  <2>1. step'[s].state = state /\ \A t \in Steps \ {s} : step'[t] = step[t]
    BY <1>3, <1>a DEF settle_step, StepRec
  <2> QED
    BY <2>1 DEF NoNewConsent, Authorised, Settled
<1>4. UNCHANGED <<resume, leaked>>
  BY DEF CallStep, Decide, Begin, Settle, SettleFailed, Unsettled
<1>5. CASE Begin(h)
  BY <1>1, <1>2, <1>4, <1>5, <1>b DEF Begin
<1>6. CASE Settle(h)
  BY <1>3, <1>4, <1>6, <1>b DEF Settle, Settled
<1>7. CASE SettleFailed(h)
  BY <1>3, <1>4, <1>7, <1>b DEF SettleFailed, Settled
<1> QED
  BY <1>1, <1>5, <1>6, <1>7 DEF CallStep, Decide, Unsettled

LEMMA ConsentsStep ==
    ASSUME TypeOK, CallsKnown, ClaimHasOneHolder, Consents, [Next]_vars
    PROVE  Consents'
<1>a. UNCHANGED step => NoNewConsent
  BY DEF NoNewConsent
<1>1. ASSUME NEW r \in Resumes, Gate1(r) \/ ResumeStep(r) \/ ScriptEnds(r) \/ CancelKill(r)
      PROVE  Consents'
  <2>a. resume \in [Resumes -> ResumeRec] /\ resume[r] \in ResumeRec
    BY DEF TypeOK, ResumeRec
  <2>b. ASSUME resume'[r].pc \in {"idle", "gate2", "gate5", "done"}, Others(r),
               resume[r].pc \notin AfterApply, UNCHANGED <<step, leaked>>
        PROVE  Consents'
    <3>1. GrantsKnown'
      BY <2>b DEF Consents, GrantsKnown, Others, AfterApply
    <3>2. ConsentCovered'
      BY <2>b DEF Consents, ConsentCovered, Covered, Consented, Others, AfterApply
    <3>3. NoStandingConsent'
      BY <2>b DEF Consents, NoStandingConsent, Driving, Claimants, Consented, Others
    <3> QED
      BY <3>1, <3>2, <3>3 DEF Consents
  <2>1. CASE Gate1(r)
    <3>1. resume'[r].pc = "gate2" /\ Others(r)
      BY <2>1, <2>a DEF Gate1, Others, ResumeRec
    <3> QED
      BY <3>1, <2>1, <2>b DEF Gate1, AfterApply
  <2>2. ASSUME NEW d \in Decisions, Gate2(r, d)
        PROVE  Consents'
    <3>1. Claims(r) \/ Waits(r)
      <4>1. ResumeStep(r)
        BY <2>2 DEF ResumeStep
      <4> QED
        BY <4>1, <2>2, StepKinds DEF Gate2, Drives, Leaves, Outside
    <3> QED
      BY <3>1, <2>2, <2>b DEF Gate2, Claims, Waits, Outside, AfterApply
  <2>3. CASE Gate5(r)
    <3>1. CASE Finally(r)
      BY <3>1, <2>3, FinallyConsents DEF Gate5, Outside
    <3>2. CASE ~ Finally(r)
      <4>1. PICK q \in {"register", "priors"} :
               /\ Moves(r, "gate5", q)
               /\ q = "register" => resume[r].decisions = IdleResume.decisions
        BY <2>3, <3>2, GotoMoves DEF Gate5
      <4>2. UNCHANGED <<step, leaked>> /\ Undecided(r) = {}
        BY <2>3, <3>2 DEF Gate5
      <4>3. Consented \subseteq leaked
        BY <2>3, EarlyConsents DEF Gate5
      <4>4. GrantsKnown'
        <5>1. q = "register" => \A s \in Steps : resume[r].decisions[s] = "none"
          BY <4>1 DEF IdleResume
        <5> QED
          BY <4>1, <4>2, <5>1 DEF Consents, GrantsKnown, Moves, Others, AfterApply
      <4>5. ConsentCovered'
        BY <4>2, <4>3 DEF ConsentCovered, Covered, Consented
      <4>6. NoStandingConsent'
        <5>1. \A s \in Consented : resume'[r].decisions[s] # "none"
          BY <4>1, <4>2 DEF Undecided, Moves
        <5>2. \A x \in Resumes \ {r} : x \notin Driving'
          BY <4>1 DEF ClaimHasOneHolder, Claimants, Driving, Moves, Others
        <5> QED
          BY <4>2, <5>1, <5>2 DEF NoStandingConsent, Driving, Claimants, Consented
      <4> QED
        BY <4>4, <4>5, <4>6 DEF Consents
    <3> QED
      BY <3>1, <3>2
  <2>4. CASE ReadPriors(r)
    <3>1. CASE Finally(r)
      BY <3>1, <2>4, FinallyConsents DEF ReadPriors, Outside
    <3>2. CASE ~ Finally(r)
      <4> DEFINE g == [s \in Steps |-> IF resume[r].decisions[s] = "none" THEN "none"
                                       ELSE step[s].state]
      <4>1. resume'[r] = [resume[r] EXCEPT !.pc = "apply", !.granted = g] /\ Others(r)
        BY <2>4, <3>2, <2>a DEF ReadPriors, Others
      <4>2. /\ resume[r].pc = "priors"
            /\ resume'[r].pc = "apply"
            /\ resume'[r].decisions = resume[r].decisions
            /\ resume'[r].granted = g
        BY <4>1, <2>4, <2>a DEF ReadPriors, ResumeRec
      <4>3. UNCHANGED <<step, leaked>>
        BY <2>4, <3>2 DEF ReadPriors
      <4>4. Consented \subseteq leaked
        BY <4>2, EarlyConsents
      <4>5. GrantsKnown'
        <5>1. ASSUME NEW s \in Steps, resume[r].decisions[s] # "none"
              PROVE  g[s] # "none" /\ (g[s] \in Authorised => s \in leaked)
          <6>1. g[s] = step[s].state /\ step[s].state \in StepStates
            BY <5>1 DEF TypeOK
          <6> QED
            BY <6>1, <4>4 DEF Consented, StepStates, Settled, Authorised
        <5>2. \A x \in Resumes \ {r} : resume'[x].pc \notin AfterApply \cup {"apply"}
          BY <4>1, <4>2 DEF ClaimHasOneHolder, Claimants, Others, AfterApply
        <5> QED
          BY <4>2, <4>3, <5>1, <5>2 DEF GrantsKnown
      <4>6. ConsentCovered'
        BY <4>3, <4>4 DEF ConsentCovered, Covered, Consented
      <4>7. NoStandingConsent'
        <5>1. ASSUME NEW x \in Driving'
              PROVE  x \in Driving /\ resume'[x].decisions = resume[x].decisions
          <6>1. CASE x = r
            BY <6>1, <4>2 DEF Driving, Claimants
          <6>2. CASE x # r
            BY <6>2, <4>1 DEF Driving, Claimants, Others
          <6> QED
            BY <6>1, <6>2
        <5>2. Consented' = Consented
          BY <4>3 DEF Consented
        <5> QED
          BY <5>1, <5>2 DEF Consents, NoStandingConsent
      <4> QED
        BY <4>5, <4>6, <4>7 DEF Consents
    <3> QED
      BY <3>1, <3>2
  <2>5. CASE Apply(r)
    <3>1. Moves(r, "apply", "register") /\ UNCHANGED leaked
      BY <2>5, GotoMoves DEF Apply
    <3> DEFINE d == resume[r].decisions
    <3>2. d \in Decisions
      BY DEF TypeOK
    <3>3. ASSUME NEW s \in Steps
          PROVE  IF d[s] = "none" THEN step'[s] = step[s]
                 ELSE step'[s].state = DecisionState[d[s]]
      BY <2>5, <3>2 DEF Apply, apply_decisions, TypeOK
    <3>4. Consented \subseteq leaked
      BY <3>1, EarlyConsents DEF Moves
    <3>5. \A x \in Resumes \ {r} : resume'[x].pc \in Outside
      BY <3>1 DEF ClaimHasOneHolder, Claimants, Moves, Others, Outside
    <3>6. GrantsKnown'
      BY <3>1, <3>5 DEF Consents, GrantsKnown, Moves, Outside, AfterApply
    <3>7. ConsentCovered'
      <4> SUFFICES ASSUME NEW s \in Steps, step'[s].state \in Authorised
                   PROVE  Covered(s)'
        BY DEF ConsentCovered, Consented
      <4>1. CASE d[s] = "none"
        BY <4>1, <3>3, <3>4, <3>1 DEF Covered, Consented
      <4>2. CASE d[s] # "none"
        <5>1. /\ resume[r].granted[s] # "none"
              /\ resume[r].granted[s] \in Authorised => s \in leaked
          BY <4>2, <3>1 DEF Consents, GrantsKnown, Moves
        <5>2. step'[s].state = DecisionState[d[s]]
          BY <4>2, <3>3
        <5> QED
          BY <5>1, <5>2, <4>2, <3>1 DEF Covered, Moves, AfterApply
      <4> QED
        BY <4>1, <4>2
    <3>8. NoStandingConsent'
      <4>1. ASSUME NEW s \in Steps, step'[s].state \in Authorised
            PROVE  d[s] # "none"
        BY <4>1, <3>3, <3>1 DEF Consents, NoStandingConsent, Driving, Claimants, Consented, Moves
      <4> QED
        BY <4>1, <3>1, <3>5 DEF NoStandingConsent, Driving, Claimants, Consented, Moves, Outside
    <3> QED
      BY <3>6, <3>7, <3>8 DEF Consents
  <2>6. CASE ResumeFails(r)
    <3>1. CASE Finally(r)
      BY <2>6, <3>1, FinallyConsents DEF ResumeFails, Outside, Finally
    <3>2. CASE ~ Finally(r)
      <4>1. Leaves(r) /\ UNCHANGED <<step, leaked>>
        BY <2>6, <3>2, OverMoves DEF ResumeFails, Leaves, Outside
      <4>2. Consented \subseteq leaked
        BY <2>6, <3>2, EarlyConsents DEF ResumeFails
      <4> QED
        BY <4>1, <4>2, ReleasedConsents DEF Consented
    <3> QED
      BY <3>1, <3>2
  <2>7. CASE Return(r)
    BY <2>7, FinallyConsents DEF Return, Outside
  <2>8. CASE Register(r) \/ Reopen(r) \/ Spawn(r) \/ Timeout(r) \/ ReadExit(r) \/ Finalize(r)
             \/ JournalEnd(r) \/ ScriptEnds(r)
    <3>1. UNCHANGED <<step, leaked>>
      BY <2>8 DEF Register, Reopen, Spawn, Timeout, ReadExit, Finalize, JournalEnd, ScriptEnds
    <3>2. \E p, q \in AfterApply : Moves(r, p, q)
      BY <2>8, GotoMoves, GotoWithMoves DEF Register, Reopen, Spawn, Timeout, ReadExit,
         Finalize, JournalEnd, ScriptEnds, Exit, AfterApply
    <3> QED
      BY <3>1, <3>2, <1>a, SteadyConsents
  <2>9. CASE CancelKill(r)
    <3>1. UNCHANGED <<step, leaked>>
      BY <2>9 DEF CancelKill
    <3>2. UNCHANGED resume \/ Moves(r, "drive", "exited")
      BY <2>9, GotoWithMoves DEF CancelKill, Exit
    <3> QED
      BY <3>1, <3>2, <1>a, SteadyConsents DEF AfterApply
  <2> QED
    BY <1>1, <2>1, <2>2, <2>3, <2>4, <2>5, <2>6, <2>7, <2>8, <2>9 DEF ResumeStep
<1>2. CASE UNCHANGED <<step, resume, leaked>>
  BY <1>2, <1>a, SteadyConsents
<1>3. ASSUME NEW r \in Resumes, CancelStep(r)
      PROVE  CancelKill(r) \/ UNCHANGED <<step, resume, leaked>>
  BY <1>3 DEF CancelStep, CancelBegin, CancelMark, CancelWrite
<1>4. ASSUME NEW h \in Calls, CallStep(h)
      PROVE  Consents'
  BY <1>4, CallConsents, SteadyConsents
<1>5. ASSUME NEW h \in Calls, NEW r \in Resumes, NEW s \in Steps, NEW f \in Prints,
             Admit(h, r, s, f)
      PROVE  UNCHANGED <<step, resume, leaked>>
  BY <1>5 DEF Admit
<1>6. CASE Crash
  <2>1. \A r \in Resumes : resume'[r].pc \in {"idle", "done"}
    BY <1>6, IdleTyped DEF Crash
  <2>2. Consented' \subseteq leaked'
    BY <1>6 DEF Crash, Consented
  <2> QED
    BY <2>1, <2>2 DEF Consents, GrantsKnown, ConsentCovered, Covered, NoStandingConsent,
       Driving, Claimants, AfterApply
<1> QED
  BY <1>1, <1>2, <1>3, <1>4, <1>5, <1>6 DEF Next, CancelRemnant, vars

-----------------------------------------------------------------------------
(* The theorems.                                                           *)

(* ResumeInv is inductive.                                                  *)
THEOREM ResumeInvariant == Spec => []ResumeInv
<1> USE ConstantsOK
<1>1. Init => ResumeInv
  <2> SUFFICES ASSUME Init PROVE ResumeInv
    OBVIOUS
  <2>1. \A r \in Resumes : resume[r].pc = "idle" /\ record[r].cancelled = FALSE
    BY IdleTyped DEF Init, NoRecord
  <2>2. \A h \in Calls : call[h].pc = "free"
    BY DEF Init, IdleCall
  <2>3. Consented = {}
    <3>1. \A f \in Prints : \A x \in FirstRows(f) : x.state \notin Authorised
      BY DEF FirstRows, Authorised
    <3> QED
      BY <3>1 DEF Init, Consented
  <2> QED
    BY <2>1, <2>2, <2>3, InitTyped DEF Init, ResumeInv, CallsKnown, EndingCode, Registered,
       CancelIsKept, ClaimHasOneHolder, Claimants, GrantsKnown, ConsentCovered,
       NoStandingConsent, AfterApply
<1>2. ResumeInv /\ [Next]_vars => ResumeInv'
  BY NextTyped, CallsStep, RecordsStep, ClaimStep, ConsentsStep
     DEF ResumeInv, Recorded, Consents
<1> QED
  BY <1>1, <1>2, PTL DEF Spec

(* Type correctness of the journal rows, the registry and the requests.       *)
THEOREM ResumeTypes == Spec => []TypeOK
BY ResumeInvariant, PTL DEF ResumeInv

(* One resume holds the claim of the run, and every way out releases it.      *)
THEOREM OneDriver == Spec => []ClaimHasOneHolder
BY ResumeInvariant, PTL DEF ResumeInv

(* No drive works under a consent that was not given to it.                  *)
THEOREM ConsentIsFresh == Spec => []NoStandingConsent
BY ResumeInvariant, PTL DEF ResumeInv

(* A drive's unconsumed consent ends with it, save a failed revoke or a crash. *)
THEOREM ConsentIsRevoked == Spec => []ConsentEndsWithDrive
<1>1. ResumeInv => ConsentEndsWithDrive
  <2> SUFFICES ASSUME ResumeInv, ~ active PROVE Consented \subseteq leaked
    BY DEF ConsentEndsWithDrive
  <2>1. \A x \in Resumes : resume[x].pc \notin AfterApply
    BY DEF ResumeInv, ClaimHasOneHolder, Claimants, AfterApply
  <2> QED
    BY <2>1 DEF ResumeInv, ConsentCovered, Covered
<1> QED
  BY <1>1, ResumeInvariant, PTL

(* An accepted cancel does not end in a completed record.                    *)
THEOREM CancelPrevails == Spec => []CancelIsKept
BY ResumeInvariant, PTL DEF ResumeInv

(* A recorded step is dispatched again only with leave.                      *)
THEOREM RecordedStepsNeedLeave == Spec => RecordedRunsWithLeave
<1> DEFINE Leave(h) ==
        \/ step[call[h].step].state = "absent"
        \/ MayRun(call[h].step)
        \/ call[h].step \in leaked
        \/ \E r \in Driving : resume[r].decisions[call[h].step] = "rerun"
<1>1. ASSUME ResumeInv, [Next]_vars, NEW h \in Calls,
             call[h].pc = "admitted", call'[h].pc = "cleared"
      PROVE  Leave(h)
  <2>a. call \in [Calls -> CallRec]
    BY <1>1 DEF ResumeInv, TypeOK, CallRec
  <2>1. Decide(h)
    <3>1. ASSUME NEW x \in Calls, CallStep(x)
          PROVE  Decide(h)
      <4>1. CASE x # h
        <5>1. call'[h] = call[h]
          BY <3>1, <4>1, <2>a DEF CallStep, Decide, Begin, Settle, SettleFailed, Unsettled, Free
        <5> QED
          BY <5>1, <1>1
      <4>2. CASE x = h
        BY <3>1, <4>2, <1>1, <2>a
           DEF CallStep, Begin, Settle, SettleFailed, Unsettled, Free, IdleCall
      <4> QED
        BY <4>1, <4>2
    <3>2. ASSUME NEW x \in Calls, NEW r \in Resumes, NEW s \in Steps, NEW f \in Prints,
                 Admit(x, r, s, f)
          PROVE  FALSE
      BY <3>2, <1>1, <2>a DEF Admit
    <3>3. ~ Crash
      BY <1>1 DEF Crash, IdleCall
    <3>4. ASSUME NEW r \in Resumes, Gate1(r) \/ ResumeStep(r) \/ ScriptEnds(r) \/ CancelStep(r)
          PROVE  UNCHANGED call
      BY <3>4 DEF Gate1, ResumeStep, ScriptEnds, CancelStep, Gate2, Gate5, ReadPriors, Apply,
         Register, Reopen, ResumeFails, Spawn, Timeout, ReadExit, Finalize, JournalEnd, Return,
         Finally, CancelBegin, CancelKill, CancelMark, CancelWrite
    <3> QED
      BY <1>1, <3>1, <3>2, <3>3, <3>4 DEF Next, CancelRemnant, vars
  <2> DEFINE s == call[h].step
  <2>2. s \in Steps
    BY <1>1 DEF ResumeInv, CallsKnown
  <2>3. decide(s, call[h].print) = "execute"
    <3>1. CASE decide(s, call[h].print) # "execute"
      BY <3>1, <2>1, <1>1, <2>a DEF Decide, Free, IdleCall
    <3> QED
      BY <3>1
  <2>4. step[s].state \in {"absent", "rerun_authorized"} \/ MayRun(s)
    BY <2>3 DEF decide
  <2>5. CASE step[s].state = "rerun_authorized"
    <3>1. Covered(s)
      BY <1>1, <2>2, <2>5 DEF ResumeInv, ConsentCovered, Consented, Authorised
    <3>2. ASSUME NEW r \in Resumes, resume[r].pc \in AfterApply,
                 resume[r].decisions[s] # "none",
                 step[s].state = DecisionState[resume[r].decisions[s]]
          PROVE  r \in Driving /\ resume[r].decisions[s] = "rerun"
      <4>1. resume[r].decisions[s] \in {"none", "rerun", "skip"}
        BY <1>1, <2>2 DEF ResumeInv, TypeOK, Decisions
      <4>2. r \in Driving
        BY <3>2 DEF Driving, Claimants, AfterApply
      <4> QED
        BY <4>1, <4>2, <3>2, <2>5 DEF DecisionState
    <3> QED
      BY <3>1, <3>2 DEF Covered
  <2> QED
    BY <2>4, <2>5
<1>2. ResumeInv /\ [Next]_vars =>
        [\A h \in Calls : call[h].pc = "admitted" /\ call'[h].pc = "cleared" => Leave(h)]_vars
  BY <1>1
<1> QED
  BY <1>2, ResumeInvariant, PTL DEF Spec, RecordedRunsWithLeave
=============================================================================
