---------------------------- MODULE GateQuestions ----------------------------
(***************************************************************************)
(* The answer gate: durable questions a lane stops on                      *)
(* (app/gate/questions.py over adapters/store/gate.py, rules in            *)
(* core/gate.py), the dispatch each question suspends, the notice it owes  *)
(* the seat, and the ownership claims that fence its answers.              *)
(*                                                                         *)
(* One action is one BEGIN IMMEDIATE transaction.  The service reads its   *)
(* clock before it waits for that lock, so the instant a transaction works *)
(* with may be up to LOCK_WAIT old.  Notices go out after the commit, and  *)
(* a crash loses the ones not yet handed over.  Only the expiry notice is  *)
(* modelled: no command reads question_notice_intent.                      *)
(***************************************************************************)
EXTENDS Integers

CONSTANTS
    Questions,       \* question ids
    Dispatches,      \* the assignments that may ask
    RunOf,           \* the run of a dispatch's round; None for a non-gate lane
    Runs,            \* gate runs
    Conversations,   \* the conversations that may own runs and questions
    FirstOwner,      \* who opened each run, at epoch 0
    AskKeys, AnswerKeys, ClaimKeys,     \* client_request_ids
    Answers,
    Recordable,      \* the states record_dispatch is called with
    Windows,         \* the expires_in_s an asker may pass
    Epochs,          \* the epochs a caller may name
    None,
    LOCK_WAIT,
    MAX_TIME,        \* bound: where the clock stops
    MAX_CRASHES      \* bound: crashes in one behaviour

OpenStates == {"PENDING", "ESCALATED"}

SettledStates == {"ANSWERED", "EXPIRED"}

LIVE_DISPATCH_STATES == {"PREPARED", "DISPATCHED", "AWAITING_ANSWER"}

FinishedStates == {"RETURNED", "FAILED", "ABANDONED"}

DispatchStates == LIVE_DISPATCH_STATES \cup FinishedStates

ASSUME GateConstants ==
    /\ RunOf \in [Dispatches -> Runs \cup {None}]
    /\ FirstOwner \in [Runs -> Conversations]
    /\ None \notin Runs \cup Conversations \cup AskKeys \cup AnswerKeys \cup Answers
    /\ None \notin Dispatches
    /\ Recordable \subseteq DispatchStates
    /\ Epochs \subseteq Nat
    /\ Windows \subseteq Nat \ {0}
    /\ {LOCK_WAIT, MAX_TIME, MAX_CRASHES} \subseteq Nat

VARIABLES
    now,        \* the wall clock
    dispatch,   \* gate_dispatch.state of each dispatch
    question,   \* round_question, with its question_answer and
                \* answer_delivery_intent rows as columns
    run,        \* gate_run's owner and epoch
    claims,     \* client_request_ids of the ownership_transfer rows
    notifying,  \* expiry notices a sweep is about to hand to the notifier
    anomalies,  \* history: expiry notices handed over for each question
    byHand,     \* history: dispatches whose AWAITING_ANSWER is record_dispatch's
    crashes

vars == <<now, dispatch, question, run, claims, notifying, anomalies, byHand,
          crashes>>

NoQuestion ==
    [state |-> "ABSENT", dispatch |-> None, run |-> None, key |-> None,
     owner |-> None, epoch |-> 0, expires |-> 0, prior |-> "ABSENT",
     answer |-> None, answerKey |-> None, answeredBy |-> None,
     consumed |-> FALSE]

Init ==
    /\ now = 0
    /\ dispatch = [d \in Dispatches |-> "ABSENT"]
    /\ question = [q \in Questions |-> NoQuestion]
    /\ run = [r \in Runs |-> [owner |-> FirstOwner[r], epoch |-> 0]]
    /\ claims = {}
    /\ notifying = {}
    /\ anomalies = [q \in Questions |-> 0]
    /\ byHand = {}
    /\ crashes = 0

Instants == {t \in 0..now : now - t <= LOCK_WAIT}

IsOpen(q) == question[q].state \in OpenStates

-----------------------------------------------------------------------------
(* Dispatches.                                                             *)

(* record_dispatch upserts whatever state its caller holds, with no check of   *)
(* the one it replaces: it may end a suspension, bring back a finished lane,   *)
(* or write AWAITING_ANSWER where nobody asked.                              *)
RecordDispatch(d, state) ==
    /\ state # dispatch[d]
    /\ dispatch' = [dispatch EXCEPT ![d] = state]
    /\ byHand' = IF state = "AWAITING_ANSWER" THEN byHand \cup {d} ELSE byHand \ {d}
    /\ UNCHANGED <<now, question, run, claims, notifying, anomalies, crashes>>

(* An ask with a position first provisions the dispatch, if there is none.    *)
EnsureDispatch(d) ==
    /\ dispatch[d] = "ABSENT"
    /\ dispatch' = [dispatch EXCEPT ![d] = "PREPARED"]
    /\ UNCHANGED <<now, question, run, claims, notifying, anomalies, byHand, crashes>>

(* Slip: the release does not look whether the dispatch still waits.           *)
Released_Always(q) ==
    [dispatch EXCEPT ![question[q].dispatch] = question[q].prior]

(* What a release of q does to the dispatch it suspended: nothing when some     *)
(* other writer has moved the dispatch meanwhile.                            *)
Released(q) ==
    IF dispatch[question[q].dispatch] = "AWAITING_ANSWER"
    THEN [dispatch EXCEPT ![question[q].dispatch] = question[q].prior]
    ELSE dispatch

-----------------------------------------------------------------------------
(* Questions.                                                              *)

(* Slip: an escalated question gives up the slot.                            *)
MayAsk_PendingOnly(d, key) ==
    /\ \A p \in Questions : ~(question[p].dispatch = d /\ question[p].key = key)
    /\ dispatch[d] \in LIVE_DISPATCH_STATES
    /\ \A p \in Questions : question[p].state = "PENDING" => question[p].dispatch # d

(* ask_question's conditions: the same request replays the row it made; the     *)
(* dispatch is known and unfinished; its one open-question slot is free.       *)
MayAsk(d, key) ==
    /\ \A p \in Questions : ~(question[p].dispatch = d /\ question[p].key = key)
    /\ dispatch[d] \in LIVE_DISPATCH_STATES
    /\ \A p \in Questions : IsOpen(p) => question[p].dispatch # d

Ask(q, d, key, owner, epoch, window, asked, r) ==
    /\ question[q].state = "ABSENT"
    /\ MayAsk(d, key)
    /\ question' = [question EXCEPT ![q] =
           [state |-> "PENDING", dispatch |-> d, run |-> r, key |-> key,
            owner |-> owner, epoch |-> epoch, expires |-> asked + window,
            prior |-> dispatch[d], answer |-> None, answerKey |-> None,
            answeredBy |-> None, consumed |-> FALSE]]
    /\ dispatch' = [dispatch EXCEPT ![d] = "AWAITING_ANSWER"]
    /\ byHand' = IF dispatch[d] = "AWAITING_ANSWER" THEN byHand ELSE byHand \ {d}
    /\ UNCHANGED <<now, run, claims, notifying, anomalies, crashes>>

(* A higher epoch supersedes a lower one, and never its equal.                *)
epoch_supersedes(current, new) == new > current

(* answer_admissible: unsettled, in time, and the caller not superseded.       *)
answer_admissible(q, caller, epoch, at) ==
    /\ question[q].state \notin SettledStates
    /\ at < question[q].expires
    /\ caller = question[q].owner
    /\ ~ epoch_supersedes(epoch, question[q].epoch)

(* The answer, its delivery intent and the question's state commit together;   *)
(* the dispatch stays suspended until the asker has the answer.  answeredBy is *)
(* history, the conversation that called: the answered_by the code stores is   *)
(* whatever the caller wrote there.                                         *)
Answer(q, a, key, caller, epoch, at) ==
    /\ question[q].state # "ABSENT"
    /\ question[q].answerKey # key
    /\ answer_admissible(q, caller, epoch, at)
    /\ question' = [question EXCEPT
           ![q].state = "ANSWERED", ![q].answer = a, ![q].answerKey = key,
           ![q].answeredBy = caller]
    /\ UNCHANGED <<now, dispatch, run, claims, notifying, anomalies, byHand, crashes>>

(* Slip: a late escalation reopens a question already answered.                *)
escalate_question_Reopens(q, at) ==
    /\ question[q].state \in {"PENDING", "ANSWERED"}
    /\ at < question[q].expires
    /\ question' = [question EXCEPT ![q].state = "ESCALATED"]
    /\ UNCHANGED <<now, dispatch, run, claims, notifying, anomalies, byHand, crashes>>

(* Escalating keeps the id and the slot: the user answers the same question.    *)
escalate_question(q, at) ==
    /\ question[q].state = "PENDING"
    /\ at < question[q].expires
    /\ question' = [question EXCEPT ![q].state = "ESCALATED"]
    /\ UNCHANGED <<now, dispatch, run, claims, notifying, anomalies, byHand, crashes>>

Due(at) == {q \in Questions : IsOpen(q) /\ question[q].expires <= at}

(* Slip: the sweep announces whatever reads EXPIRED after its transaction.      *)
sweep_expired_Reread(at) ==
    /\ Due(at) # {}
    /\ question' = [q \in Questions |->
           IF q \in Due(at) THEN [question[q] EXCEPT !.state = "EXPIRED"]
                            ELSE question[q]]
    /\ dispatch' = [d \in Dispatches |->
           IF \E q \in Due(at) : question[q].dispatch = d
           THEN Released(CHOOSE q \in Due(at) : question[q].dispatch = d)[d]
           ELSE dispatch[d]]
    /\ notifying' = {q \in Questions : question'[q].state = "EXPIRED"}
    /\ UNCHANGED <<now, run, claims, anomalies, byHand, crashes>>

(* Every overdue question settles and releases its dispatch in one             *)
(* transaction; the sweep then owes one anomaly for each it settled.          *)
sweep_expired(at) ==
    /\ Due(at) # {}
    /\ question' = [q \in Questions |->
           IF q \in Due(at) THEN [question[q] EXCEPT !.state = "EXPIRED"]
                            ELSE question[q]]
    /\ dispatch' = [d \in Dispatches |->
           IF \E q \in Due(at) : question[q].dispatch = d
           THEN Released(CHOOSE q \in Due(at) : question[q].dispatch = d)[d]
           ELSE dispatch[d]]
    /\ notifying' = notifying \cup Due(at)
    /\ UNCHANGED <<now, run, claims, anomalies, byHand, crashes>>

(* Slip: the receipt is recorded and the dispatch forgotten.                  *)
mark_answer_consumed_NoRelease(q) ==
    /\ question[q].state = "ANSWERED"
    /\ question' = [question EXCEPT ![q].consumed = TRUE]
    /\ UNCHANGED <<now, dispatch, run, claims, notifying, anomalies, byHand, crashes>>

(* The receipt, which nothing keeps from being recorded twice.                *)
mark_answer_consumed(q) ==
    /\ question[q].state = "ANSWERED"
    /\ question' = [question EXCEPT ![q].consumed = TRUE]
    /\ dispatch' = Released(q)
    /\ UNCHANGED <<now, run, claims, notifying, anomalies, byHand, crashes>>

-----------------------------------------------------------------------------
(* The anomaly notices of a sweep, handed over one by one after its commit.    *)

Notify(q, landed) ==
    /\ q \in notifying
    /\ notifying' = notifying \ {q}
    /\ anomalies' = IF landed THEN [anomalies EXCEPT ![q] = @ + 1] ELSE anomalies
    /\ UNCHANGED <<now, dispatch, question, run, claims, byHand, crashes>>

Crash ==
    /\ crashes < MAX_CRASHES
    /\ notifying # {}
    /\ notifying' = {}
    /\ crashes' = crashes + 1
    /\ UNCHANGED <<now, dispatch, question, run, claims, anomalies, byHand>>

-----------------------------------------------------------------------------
(* Ownership.                                                              *)

(* The claim must supersede every run its predecessor owns; a predecessor      *)
(* without runs fences nothing.                                             *)
ClaimAccepted(prior, epoch) ==
    \A r \in Runs : run[r].owner = prior => epoch_supersedes(run[r].epoch, epoch)

(* Slip: the claim rewrites settled questions too.                           *)
claim_ownership_AllRows(prior, new, epoch, only, key) ==
    /\ key \notin claims
    /\ ClaimAccepted(prior, epoch)
    /\ run' = [r \in Runs |->
           IF run[r].owner = prior /\ only \in {None, r}
           THEN [owner |-> new, epoch |-> epoch] ELSE run[r]]
    /\ question' = [q \in Questions |->
           IF question[q].owner = prior /\ only \in {None, question[q].run}
           THEN [question[q] EXCEPT !.owner = new, !.epoch = epoch]
           ELSE question[q]]
    /\ claims' = claims \cup {key}
    /\ UNCHANGED <<now, dispatch, notifying, anomalies, byHand, crashes>>

(* claim_ownership rewrites the predecessor's runs and open questions, all of   *)
(* them or those of one run.                                                *)
claim_ownership(prior, new, epoch, only, key) ==
    /\ key \notin claims
    /\ ClaimAccepted(prior, epoch)
    /\ run' = [r \in Runs |->
           IF run[r].owner = prior /\ only \in {None, r}
           THEN [owner |-> new, epoch |-> epoch] ELSE run[r]]
    /\ question' = [q \in Questions |->
           IF /\ question[q].owner = prior
              /\ IsOpen(q)
              /\ only \in {None, question[q].run}
           THEN [question[q] EXCEPT !.owner = new, !.epoch = epoch]
           ELSE question[q]]
    /\ claims' = claims \cup {key}
    /\ UNCHANGED <<now, dispatch, notifying, anomalies, byHand, crashes>>

Tick ==
    /\ now < MAX_TIME
    /\ now' = now + 1
    /\ UNCHANGED <<dispatch, question, run, claims, notifying, anomalies, byHand, crashes>>

-----------------------------------------------------------------------------
AskAny ==
    \E q \in Questions, d \in Dispatches, key \in AskKeys, owner \in Conversations,
       epoch \in Epochs, window \in Windows, asked \in Instants :
          \E r \in {None, RunOf[d]} : Ask(q, d, key, owner, epoch, window, asked, r)

AnswerAny ==
    \E q \in Questions, a \in Answers, key \in AnswerKeys, caller \in Conversations,
       epoch \in Epochs, at \in Instants : Answer(q, a, key, caller, epoch, at)

ClaimAny ==
    \E prior, new \in Conversations, epoch \in Epochs, only \in Runs \cup {None},
       key \in ClaimKeys : claim_ownership(prior, new, epoch, only, key)

Next ==
    \/ \E d \in Dispatches, state \in Recordable : RecordDispatch(d, state)
    \/ \E d \in Dispatches : EnsureDispatch(d)
    \/ AskAny
    \/ AnswerAny
    \/ \E q \in Questions, at \in Instants : escalate_question(q, at)
    \/ \E at \in Instants : sweep_expired(at)
    \/ \E q \in Questions : mark_answer_consumed(q)
    \/ \E q \in Questions, landed \in BOOLEAN : Notify(q, landed)
    \/ Crash
    \/ ClaimAny
    \/ Tick

Spec == Init /\ [][Next]_vars

-----------------------------------------------------------------------------
(* Properties.                                                             *)

QuestionRow ==
    [state : {"ABSENT"} \cup OpenStates \cup SettledStates,
     dispatch : Dispatches \cup {None}, run : Runs \cup {None},
     key : AskKeys \cup {None}, owner : Conversations \cup {None}, epoch : Nat,
     expires : Nat, prior : {"ABSENT"} \cup LIVE_DISPATCH_STATES,
     answer : Answers \cup {None}, answerKey : AnswerKeys \cup {None},
     answeredBy : Conversations \cup {None},
     consumed : BOOLEAN]

(* The types of the gate's tables.                                          *)
TypeOK ==
    /\ now \in Nat
    /\ dispatch \in [Dispatches -> {"ABSENT"} \cup DispatchStates]
    /\ question \in [Questions -> QuestionRow]
    /\ run \in [Runs -> [owner : Conversations, epoch : Nat]]
    /\ claims \subseteq ClaimKeys
    /\ notifying \subseteq Questions
    /\ anomalies \in [Questions -> Nat]
    /\ byHand \subseteq Dispatches
    /\ crashes \in Nat

(* What the asker is still owed: an answer, or its receipt of one.            *)
Outstanding(q) ==
    \/ IsOpen(q)
    \/ question[q].state = "ANSWERED" /\ ~ question[q].consumed

(* A suspension has an end in sight: a dispatch that an ask put in              *)
(* AWAITING_ANSWER has a question still outstanding whose release will take it  *)
(* out of that state.  (One that record_dispatch wrote has none, and only       *)
(* another record_dispatch ends it: an ask over it restores it.)  An ask made between an answer and its receipt records AWAITING_ANSWER as the  *)
(* state to restore, so its own release restores the suspension; the expiry and *)
(* the receipt must still, in every order, leave no run awaiting for ever.      *)
SuspensionHasRelease ==
    \A d \in Dispatches : dispatch[d] = "AWAITING_ANSWER" /\ d \notin byHand =>
        \E q \in Questions : /\ question[q].dispatch = d
                             /\ Outstanding(q)
                             /\ question[q].prior # "AWAITING_ANSWER"

(* A dispatch holds at most one open question (ux_question_open), escalated or  *)
(* not, and an open question is never orphaned of its dispatch row.           *)
OneOpenQuestion ==
    \A p, q \in Questions :
        IsOpen(p) /\ IsOpen(q) /\ question[p].dispatch = question[q].dispatch
            => p = q /\ dispatch[question[q].dispatch] # "ABSENT"

(* No question brings a finished lane back: whatever was asked, answered,       *)
(* expired or received late, a dispatch that RETURNED, FAILED or was ABANDONED   *)
(* is moved only by record_dispatch, which touches no question.                *)
FinishedStaysFinished ==
    [][\A d \in Dispatches :
         dispatch[d] \in FinishedStates /\ dispatch'[d] # dispatch[d]
            => question' = question]_vars

(* AC-A12: the answer on record was given by the conversation the question     *)
(* belongs to; a claim takes over open questions only, and one that comes      *)
(* after the answer does not make it the answer of somebody else.              *)
AnsweredByOwner ==
    \A q \in Questions : question[q].state = "ANSWERED" =>
        question[q].answeredBy = question[q].owner

(* AC-A7: a question that expires is announced as an anomaly at most once,     *)
(* however many sweeps run, and one that was answered never is.                *)
OneAnomaly ==
    \A q \in Questions :
        LET owed == IF q \in notifying THEN 1 ELSE 0
        IN  anomalies[q] + owed <= (IF question[q].state = "EXPIRED" THEN 1 ELSE 0)

-----------------------------------------------------------------------------
(* The abstract question this gate implements.                              *)

phaseBar ==
    [q \in Questions |->
        CASE question[q].state = "ABSENT" -> "unasked"
          [] question[q].state \in OpenStates -> "open"
          [] question[q].state = "EXPIRED" -> "expired"
          [] OTHER -> IF question[q].consumed THEN "received" ELSE "answered"]

replyBar ==
    [q \in Questions |-> IF question[q].state = "ANSWERED" THEN question[q].answer ELSE None]

Lifecycle == INSTANCE QuestionLifecycle WITH phase <- phaseBar, reply <- replyBar

(* Every behaviour of the gate is one of QuestionLifecycle: a question settles  *)
(* once, by an answer or its expiry, and the answer recorded is the one its     *)
(* asker receives, under retried asks, answers, receipts and claims.           *)
ImplementsLifecycle == Lifecycle!Spec
=============================================================================
