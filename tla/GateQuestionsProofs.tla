------------------------- MODULE GateQuestionsProofs -------------------------
(***************************************************************************)
(* Theorems about GateQuestions, for any sets of questions, dispatches,    *)
(* runs and conversations and any bounds.                                  *)
(*                                                                         *)
(* The tables' shape (Shape) says which columns hang together; with it the *)
(* slot and the suspension invariants are inductive.                       *)
(***************************************************************************)
EXTENDS GateQuestions, TLAPS

-----------------------------------------------------------------------------
(* Types.                                                                  *)

(* Instants are natural numbers.                                           *)
LEMMA InstantsAreNat == ASSUME TypeOK PROVE Instants \subseteq Nat
BY DEF TypeOK, Instants

(* A release leaves a dispatch in a state a dispatch may have.                *)
LEMMA ReleasedType ==
    ASSUME TypeOK, NEW q \in Questions, question[q].dispatch \in Dispatches
    PROVE  Released(q) \in [Dispatches -> {"ABSENT"} \cup DispatchStates]
<1>1. question[q].prior \in {"ABSENT"} \cup LIVE_DISPATCH_STATES
  BY DEF TypeOK, QuestionRow
<1>2. question[q].prior \in {"ABSENT"} \cup DispatchStates
  BY <1>1 DEF DispatchStates
<1>3. QED BY <1>2 DEF TypeOK, Released

(* Which columns of a question hang together: a row that exists names its       *)
(* dispatch, whose row exists too, and the live state its ask suspended; only    *)
(* an answered row has a receipt.                                           *)
Shape ==
    \A q \in Questions :
        /\ question[q].state # "ABSENT" =>
              /\ question[q].dispatch \in Dispatches
              /\ dispatch[question[q].dispatch] # "ABSENT"
              /\ question[q].prior \in LIVE_DISPATCH_STATES
        /\ question[q].consumed => question[q].state = "ANSWERED"

(* The initial rows have their types and their shape.                      *)
THEOREM InitType == Init => TypeOK /\ Shape
<1> SUFFICES ASSUME Init PROVE TypeOK /\ Shape
  OBVIOUS
<1>1. NoQuestion \in QuestionRow
  BY DEF NoQuestion, QuestionRow
<1>2. TypeOK
  BY <1>1, GateConstants DEF Init, TypeOK
<1>3. Shape
  BY DEF Init, Shape, NoQuestion
<1>4. QED BY <1>2, <1>3

(* An ask writes rows of their types.                                      *)
LEMMA AskType ==
    ASSUME TypeOK, Shape, NEW q \in Questions, NEW d \in Dispatches, NEW key \in AskKeys,
           NEW owner \in Conversations, NEW epoch \in Epochs, NEW window \in Windows,
           NEW asked \in Instants, NEW r \in {None, RunOf[d]},
           Ask(q, d, key, owner, epoch, window, asked, r)
    PROVE  TypeOK' /\ Shape'
<1> DEFINE row == [state |-> "PENDING", dispatch |-> d, run |-> r, key |-> key,
                   owner |-> owner, epoch |-> epoch, expires |-> asked + window,
                   prior |-> dispatch[d], answer |-> None, answerKey |-> None,
                   answeredBy |-> None, consumed |-> FALSE]
<1>1. r \in Runs \cup {None}
  BY GateConstants
<1>2. asked + window \in Nat /\ epoch \in Nat
  BY InstantsAreNat, GateConstants
<1>3. dispatch[d] \in LIVE_DISPATCH_STATES
  BY DEF Ask, MayAsk
<1>5. row \in QuestionRow
  BY <1>1, <1>2, <1>3 DEF QuestionRow, OpenStates
<1>6. question' = [question EXCEPT ![q] = row]
  BY DEF Ask
<1>7. row.state = "PENDING" /\ row.dispatch = d /\ row.prior = dispatch[d] /\ row.consumed = FALSE
  OBVIOUS
<1> HIDE DEF row
<1>8. TypeOK'
  <2>1. question' \in [Questions -> QuestionRow]
    BY <1>5, <1>6 DEF TypeOK
  <2>2. dispatch' \in [Dispatches -> {"ABSENT"} \cup DispatchStates]
    BY DEF Ask, TypeOK, DispatchStates, LIVE_DISPATCH_STATES
  <2>3. QED BY <2>1, <2>2 DEF Ask, TypeOK
<1>9. Shape'
  <2> SUFFICES ASSUME NEW p \in Questions
        PROVE (/\ question[p].state # "ABSENT" =>
                    /\ question[p].dispatch \in Dispatches
                    /\ dispatch[question[p].dispatch] # "ABSENT"
                    /\ question[p].prior \in LIVE_DISPATCH_STATES
               /\ question[p].consumed => question[p].state = "ANSWERED")'
    BY DEF Shape
  <2>1. CASE p = q
    BY <2>1, <1>3, <1>6, <1>7 DEF Ask, TypeOK
  <2>2. CASE p # q
    BY <2>2, <1>6 DEF Ask, TypeOK, Shape
  <2>3. QED BY <2>1, <2>2
<1>10. QED BY <1>8, <1>9

(* So does an answer.                                                      *)
LEMMA AnswerType ==
    ASSUME TypeOK, NEW q \in Questions, NEW a \in Answers, NEW key \in AnswerKeys,
           NEW caller \in Conversations, NEW epoch \in Epochs, NEW at \in Instants,
           Answer(q, a, key, caller, epoch, at)
    PROVE  TypeOK'
<1>1. question[q] \in QuestionRow
  BY DEF TypeOK
<1>2. [question[q] EXCEPT !.state = "ANSWERED", !.answer = a, !.answerKey = key,
                          !.answeredBy = caller] \in QuestionRow
  BY <1>1 DEF QuestionRow, SettledStates
<1>3. question' \in [Questions -> QuestionRow]
  BY <1>2 DEF Answer, TypeOK
<1>4. QED BY <1>3 DEF Answer, TypeOK

(* So does an escalation.                                                  *)
LEMMA EscalateType ==
    ASSUME TypeOK, NEW q \in Questions, NEW at \in Instants, escalate_question(q, at)
    PROVE  TypeOK'
<1>1. question[q] \in QuestionRow
  BY DEF TypeOK
<1>2. [question[q] EXCEPT !.state = "ESCALATED"] \in QuestionRow
  BY <1>1 DEF QuestionRow, OpenStates
<1>3. question' \in [Questions -> QuestionRow]
  BY <1>2 DEF escalate_question, TypeOK
<1>4. QED BY <1>3 DEF escalate_question, TypeOK

(* So does the receipt of an answer.                                       *)
LEMMA ConsumeType ==
    ASSUME TypeOK, Shape, NEW q \in Questions, mark_answer_consumed(q)
    PROVE  TypeOK'
<1>1. question[q] \in QuestionRow
  BY DEF TypeOK
<1>2. [question[q] EXCEPT !.consumed = TRUE] \in QuestionRow
  BY <1>1 DEF QuestionRow
<1>3. question' \in [Questions -> QuestionRow]
  BY <1>2 DEF mark_answer_consumed, TypeOK
<1>4. question[q].dispatch \in Dispatches
  BY DEF mark_answer_consumed, Shape
<1>5. QED BY <1>3, <1>4, ReleasedType DEF mark_answer_consumed, TypeOK

(* The sweep takes a dispatch out of AWAITING_ANSWER as the release of one of    *)
(* its due questions says, and leaves every other dispatch alone.             *)
LEMMA SweptDispatch ==
    ASSUME TypeOK, Shape, NEW at, sweep_expired(at), NEW d \in Dispatches
    PROVE  \/ /\ dispatch'[d] = dispatch[d]
              /\ dispatch[d] = "AWAITING_ANSWER" =>
                    \A q \in Due(at) : question[q].dispatch # d
           \/ /\ dispatch[d] = "AWAITING_ANSWER"
              /\ \E q \in Due(at) : /\ question[q].dispatch = d
                                    /\ dispatch'[d] = question[q].prior
<1>1. CASE \A q \in Due(at) : question[q].dispatch # d
  BY <1>1 DEF sweep_expired
<1>2. CASE \E q \in Due(at) : question[q].dispatch = d
  <2> DEFINE due == CHOOSE q \in Due(at) : question[q].dispatch = d
  <2>1. due \in Due(at) /\ question[due].dispatch = d
    BY <1>2
  <2>2. dispatch'[d] = Released(due)[d]
    BY <1>2 DEF sweep_expired
  <2> HIDE DEF due
  <2>3. CASE dispatch[d] = "AWAITING_ANSWER"
    BY <2>1, <2>2, <2>3 DEF Released, TypeOK
  <2>4. CASE dispatch[d] # "AWAITING_ANSWER"
    BY <2>1, <2>2, <2>4 DEF Released, TypeOK
  <2>5. QED BY <2>3, <2>4
<1>3. QED BY <1>1, <1>2

(* So does the sweep of expired questions.                                 *)
LEMMA SweepType ==
    ASSUME TypeOK, Shape, NEW at, sweep_expired(at)
    PROVE  TypeOK'
<1>1. ASSUME NEW q \in Questions PROVE [question[q] EXCEPT !.state = "EXPIRED"] \in QuestionRow
  <2>1. question[q] \in QuestionRow
    BY DEF TypeOK
  <2>2. QED BY <2>1 DEF QuestionRow, SettledStates
<1>2. question' \in [Questions -> QuestionRow]
  BY <1>1 DEF sweep_expired, TypeOK
<1>3. ASSUME NEW d \in Dispatches
      PROVE  dispatch'[d] \in {"ABSENT"} \cup DispatchStates
  <2>1. CASE dispatch'[d] = dispatch[d]
    BY <2>1 DEF TypeOK
  <2>2. CASE \E q \in Due(at) : dispatch'[d] = question[q].prior
    <3>1. PICK q \in Due(at) : dispatch'[d] = question[q].prior
      BY <2>2
    <3>2. question[q].prior \in {"ABSENT"} \cup LIVE_DISPATCH_STATES
      BY DEF TypeOK, QuestionRow, Due
    <3>3. QED BY <3>1, <3>2 DEF DispatchStates
  <2>3. QED BY <2>1, <2>2, SweptDispatch
<1>4. dispatch' \in [Dispatches -> {"ABSENT"} \cup DispatchStates]
  BY <1>3 DEF sweep_expired
<1>5. notifying' \subseteq Questions
  BY DEF sweep_expired, TypeOK, Due
<1>6. QED BY <1>2, <1>4, <1>5 DEF sweep_expired, TypeOK

(* So does a claim of ownership.                                           *)
LEMMA ClaimType ==
    ASSUME TypeOK, NEW prior \in Conversations, NEW new \in Conversations, NEW epoch \in Epochs,
           NEW only \in Runs \cup {None}, NEW key \in ClaimKeys,
           claim_ownership(prior, new, epoch, only, key)
    PROVE  TypeOK'
<1>1. epoch \in Nat
  BY GateConstants
<1>2. ASSUME NEW q \in Questions
      PROVE  [question[q] EXCEPT !.owner = new, !.epoch = epoch] \in QuestionRow
  <2>1. question[q] \in QuestionRow
    BY DEF TypeOK
  <2>2. QED BY <2>1, <1>1 DEF QuestionRow
<1>3. question' \in [Questions -> QuestionRow]
  BY <1>2 DEF claim_ownership, TypeOK
<1>4. run' \in [Runs -> [owner : Conversations, epoch : Nat]]
  BY <1>1 DEF claim_ownership, TypeOK
<1>5. QED BY <1>3, <1>4 DEF claim_ownership, TypeOK

-----------------------------------------------------------------------------
(* The gate's inductive invariant.                                          *)

GateInv ==
    /\ TypeOK
    /\ Shape
    /\ OneOpenQuestion
    /\ SuspensionHasRelease
    /\ AnsweredByOwner
    /\ OneAnomaly

(* A step that leaves the dispatches and who suspended them, and of every       *)
(* question its dispatch and the state its ask suspended, and that ends no       *)
(* outstanding question and opens none, keeps the slot and the suspensions.     *)
LEMMA QuietStep ==
    ASSUME TypeOK, TypeOK', Shape, OneOpenQuestion, SuspensionHasRelease,
           dispatch' = dispatch, byHand' = byHand,
           \A q \in Questions :
               /\ question'[q].dispatch = question[q].dispatch
               /\ question'[q].prior = question[q].prior
               /\ question'[q].consumed = question[q].consumed
               /\ question'[q].state = "ABSENT" <=> question[q].state = "ABSENT"
               /\ question[q].state = "ANSWERED" => question'[q].state = "ANSWERED"
               /\ IsOpen(q)' => IsOpen(q)
               /\ Outstanding(q) => Outstanding(q)'
    PROVE  Shape' /\ OneOpenQuestion' /\ SuspensionHasRelease'
<1>1. Shape'
  BY DEF Shape
<1>2. OneOpenQuestion'
  BY DEF OneOpenQuestion, IsOpen
<1>3. SuspensionHasRelease'
  BY DEF SuspensionHasRelease
<1>4. QED BY <1>1, <1>2, <1>3

(* An ask keeps the invariant: it takes a free slot and records the state  *)
(* to restore.                                                             *)
LEMMA AskKeeps ==
    ASSUME GateInv, NEW q \in Questions, NEW d \in Dispatches, NEW key \in AskKeys,
           NEW owner \in Conversations, NEW epoch \in Epochs, NEW window \in Windows,
           NEW asked \in Instants, NEW r \in {None, RunOf[d]},
           Ask(q, d, key, owner, epoch, window, asked, r)
    PROVE  GateInv'
<1> USE DEF GateInv
<1>1. TypeOK' /\ Shape'
  BY AskType
<1>2. /\ question[q].state = "ABSENT"
      /\ question'[q].state = "PENDING" /\ question'[q].dispatch = d
      /\ question'[q].prior = dispatch[d]
      /\ \A p \in Questions : p # q => question'[p] = question[p]
      /\ \A p \in Questions : IsOpen(p) => question[p].dispatch # d
      /\ dispatch' = [dispatch EXCEPT ![d] = "AWAITING_ANSWER"]
      /\ notifying' = notifying /\ anomalies' = anomalies
      /\ byHand' = IF dispatch[d] = "AWAITING_ANSWER" THEN byHand ELSE byHand \ {d}
  BY DEF Ask, MayAsk, TypeOK
<1>3. OneOpenQuestion'
  <2> SUFFICES ASSUME NEW p1 \in Questions, NEW p2 \in Questions,
                      IsOpen(p1)', IsOpen(p2)',
                      question'[p1].dispatch = question'[p2].dispatch
               PROVE  p1 = p2
    BY <1>1 DEF OneOpenQuestion, Shape, IsOpen, OpenStates
  <2>1. CASE p1 # q /\ p2 # q
    BY <2>1, <1>2 DEF OneOpenQuestion, IsOpen
  <2>2. CASE p1 = q \/ p2 = q
    BY <2>2, <1>2 DEF IsOpen
  <2>3. QED BY <2>1, <2>2
<1>4. SuspensionHasRelease'
  <2> SUFFICES ASSUME NEW c \in Dispatches, dispatch'[c] = "AWAITING_ANSWER",
                      c \notin byHand'
               PROVE  \E p \in Questions : /\ question'[p].dispatch = c
                                          /\ Outstanding(p)'
                                          /\ question'[p].prior # "AWAITING_ANSWER"
    BY DEF SuspensionHasRelease
  <2>1. CASE dispatch[c] = "AWAITING_ANSWER"
    <3>1. PICK p \in Questions : /\ question[p].dispatch = c
                                 /\ Outstanding(p)
                                 /\ question[p].prior # "AWAITING_ANSWER"
      BY <2>1, <1>2 DEF SuspensionHasRelease
    <3>2. p # q
      BY <3>1, <1>2 DEF Outstanding, IsOpen, OpenStates
    <3>3. QED BY <3>1, <3>2, <1>2 DEF Outstanding, IsOpen
  <2>2. CASE dispatch[c] # "AWAITING_ANSWER"
    <3>1. c = d
      BY <2>2, <1>2 DEF TypeOK
    <3>2. Outstanding(q)'
      BY <1>2 DEF Outstanding, IsOpen, OpenStates
    <3>3. QED BY <3>1, <3>2, <2>2, <1>2
  <2>3. QED BY <2>1, <2>2
<1>5. AnsweredByOwner'
  BY <1>2 DEF AnsweredByOwner
<1>6. OneAnomaly'
  BY <1>2 DEF OneAnomaly, TypeOK
<1>7. QED BY <1>1, <1>3, <1>4, <1>5, <1>6

(* An answer keeps the invariant: the caller is the owner at that instant. *)
LEMMA AnswerKeeps ==
    ASSUME GateInv, NEW q \in Questions, NEW a \in Answers, NEW key \in AnswerKeys,
           NEW caller \in Conversations, NEW epoch \in Epochs, NEW at \in Instants,
           Answer(q, a, key, caller, epoch, at)
    PROVE  GateInv'
<1> USE DEF GateInv
<1>1. TypeOK'
  BY AnswerType
<1>2. /\ IsOpen(q)
      /\ question'[q] = [question[q] EXCEPT !.state = "ANSWERED", !.answer = a,
                                            !.answerKey = key, !.answeredBy = caller]
      /\ \A p \in Questions : p # q => question'[p] = question[p]
      /\ dispatch' = dispatch /\ notifying' = notifying /\ anomalies' = anomalies
      /\ byHand' = byHand
      /\ caller = question[q].owner
  BY DEF Answer, answer_admissible, IsOpen, OpenStates, SettledStates, TypeOK, QuestionRow
<1>3. /\ question'[q].state = "ANSWERED" /\ question'[q].dispatch = question[q].dispatch
      /\ question'[q].prior = question[q].prior /\ question'[q].consumed = question[q].consumed
      /\ question'[q].answeredBy = caller /\ question'[q].owner = question[q].owner
  <2>1. question[q] \in QuestionRow
    BY DEF TypeOK
  <2>2. QED BY <2>1, <1>2 DEF QuestionRow
<1>4. Outstanding(q)' /\ ~ IsOpen(q)'
  BY <1>2, <1>3 DEF Outstanding, IsOpen, OpenStates, Shape
<1>5. question[q].state # "ABSENT" /\ question[q].state # "EXPIRED"
  BY <1>2 DEF IsOpen, OpenStates
<1>6. Shape' /\ OneOpenQuestion' /\ SuspensionHasRelease'
  BY <1>1, <1>2, <1>3, <1>4, <1>5, QuietStep DEF Outstanding, IsOpen
<1>7. AnsweredByOwner'
  BY <1>2, <1>3 DEF AnsweredByOwner
<1>8. OneAnomaly'
  BY <1>2, <1>3, <1>5 DEF OneAnomaly, TypeOK
<1>9. QED BY <1>1, <1>6, <1>7, <1>8

(* An escalation keeps the invariant: the question stays open.             *)
LEMMA EscalateKeeps ==
    ASSUME GateInv, NEW q \in Questions, NEW at \in Instants, escalate_question(q, at)
    PROVE  GateInv'
<1> USE DEF GateInv
<1>1. TypeOK'
  BY EscalateType
<1>2. /\ question[q].state = "PENDING"
      /\ question'[q] = [question[q] EXCEPT !.state = "ESCALATED"]
      /\ \A p \in Questions : p # q => question'[p] = question[p]
      /\ dispatch' = dispatch /\ notifying' = notifying /\ anomalies' = anomalies
      /\ byHand' = byHand
  BY DEF escalate_question, TypeOK
<1>3. /\ question'[q].state = "ESCALATED" /\ question'[q].dispatch = question[q].dispatch
      /\ question'[q].prior = question[q].prior /\ question'[q].consumed = question[q].consumed
  <2>1. question[q] \in QuestionRow
    BY DEF TypeOK
  <2>2. QED BY <2>1, <1>2 DEF QuestionRow
<1>4. Outstanding(q)' /\ IsOpen(q)
  BY <1>2, <1>3 DEF Outstanding, IsOpen, OpenStates
<1>5. Shape' /\ OneOpenQuestion' /\ SuspensionHasRelease'
  BY <1>1, <1>2, <1>3, <1>4, QuietStep DEF Outstanding, IsOpen
<1>6. AnsweredByOwner'
  BY <1>2, <1>3 DEF AnsweredByOwner
<1>7. OneAnomaly'
  BY <1>2, <1>3 DEF OneAnomaly, TypeOK
<1>8. QED BY <1>1, <1>5, <1>6, <1>7

(* A claim keeps the invariant: it moves open questions and no answered    *)
(* one.                                                                    *)
LEMMA ClaimKeeps ==
    ASSUME GateInv, NEW prior \in Conversations, NEW new \in Conversations, NEW epoch \in Epochs,
           NEW only \in Runs \cup {None}, NEW key \in ClaimKeys,
           claim_ownership(prior, new, epoch, only, key)
    PROVE  GateInv'
<1> USE DEF GateInv
<1>1. TypeOK'
  BY ClaimType
<1>2. ASSUME NEW q \in Questions
      PROVE  /\ question'[q].state = question[q].state
             /\ question'[q].dispatch = question[q].dispatch
             /\ question'[q].prior = question[q].prior
             /\ question'[q].consumed = question[q].consumed
             /\ question'[q].answeredBy = question[q].answeredBy
             /\ ~ IsOpen(q) => question'[q].owner = question[q].owner
  <2>1. question[q] \in QuestionRow
    BY DEF TypeOK
  <2>2. \/ question'[q] = question[q]
        \/ IsOpen(q) /\ question'[q] = [question[q] EXCEPT !.owner = new, !.epoch = epoch]
    BY DEF claim_ownership
  <2>3. QED BY <2>1, <2>2 DEF QuestionRow
<1>3. /\ dispatch' = dispatch /\ notifying' = notifying /\ anomalies' = anomalies
      /\ byHand' = byHand
  BY DEF claim_ownership
<1>4. Shape' /\ OneOpenQuestion' /\ SuspensionHasRelease'
  BY <1>1, <1>2, <1>3, QuietStep DEF Outstanding, IsOpen
<1>5. AnsweredByOwner'
  BY <1>2 DEF AnsweredByOwner, IsOpen, OpenStates
<1>6. OneAnomaly'
  BY <1>2, <1>3 DEF OneAnomaly
<1>7. QED BY <1>1, <1>4, <1>5, <1>6

(* A sweep keeps the invariant: what it expires it also releases and       *)
(* reports once.                                                           *)
LEMMA SweepKeeps ==
    ASSUME GateInv, NEW at, sweep_expired(at)
    PROVE  GateInv'
<1> USE DEF GateInv
<1>1. TypeOK'
  BY SweepType
<1>2. ASSUME NEW q \in Questions
      PROVE  /\ q \notin Due(at) => question'[q] = question[q]
             /\ q \in Due(at) => question'[q].state = "EXPIRED" /\ IsOpen(q)
             /\ question'[q].dispatch = question[q].dispatch
             /\ question'[q].prior = question[q].prior
             /\ question'[q].consumed = question[q].consumed
             /\ question'[q].state = "ABSENT" <=> question[q].state = "ABSENT"
  <2>1. question[q] \in QuestionRow
    BY DEF TypeOK
  <2>2. q \in Due(at) => question'[q] = [question[q] EXCEPT !.state = "EXPIRED"]
    BY DEF sweep_expired
  <2>3. q \notin Due(at) => question'[q] = question[q]
    BY DEF sweep_expired
  <2>4. QED BY <2>1, <2>2, <2>3 DEF QuestionRow, Due, IsOpen, OpenStates
<1>3. ASSUME NEW q \in Questions PROVE IsOpen(q)' => IsOpen(q) /\ q \notin Due(at)
  BY <1>2 DEF IsOpen, OpenStates
<1>4. ASSUME NEW d \in Dispatches, dispatch[d] # "ABSENT" PROVE dispatch'[d] # "ABSENT"
  <2>1. CASE dispatch'[d] = dispatch[d]
    BY <2>1, <1>4
  <2>2. CASE \E q \in Due(at) : dispatch'[d] = question[q].prior
    <3>1. PICK q \in Due(at) : dispatch'[d] = question[q].prior
      BY <2>2
    <3>2. q \in Questions /\ question[q].state # "ABSENT"
      BY DEF Due, IsOpen, OpenStates
    <3>3. QED BY <3>1, <3>2 DEF Shape, LIVE_DISPATCH_STATES
  <2>3. QED BY <2>1, <2>2, SweptDispatch
<1>5. Shape'
  <2> SUFFICES ASSUME NEW q \in Questions
               PROVE (/\ question[q].state # "ABSENT" =>
                            /\ question[q].dispatch \in Dispatches
                            /\ dispatch[question[q].dispatch] # "ABSENT"
                            /\ question[q].prior \in LIVE_DISPATCH_STATES
                      /\ question[q].consumed => question[q].state = "ANSWERED")'
    BY DEF Shape
  <2>1. q \in Due(at) => ~ question[q].consumed
    BY <1>2 DEF Shape, IsOpen, OpenStates
  <2>2. QED BY <2>1, <1>2, <1>4 DEF Shape
<1>6. OneOpenQuestion'
  BY <1>2, <1>3, <1>5 DEF OneOpenQuestion, Shape, IsOpen, OpenStates
<1>7. SuspensionHasRelease'
  <2> SUFFICES ASSUME NEW d \in Dispatches, dispatch'[d] = "AWAITING_ANSWER",
                      d \notin byHand'
               PROVE  \E p \in Questions : /\ question'[p].dispatch = d
                                          /\ Outstanding(p)'
                                          /\ question'[p].prior # "AWAITING_ANSWER"
    BY DEF SuspensionHasRelease
  <2>1. dispatch[d] = "AWAITING_ANSWER" /\ d \notin byHand
    BY SweptDispatch DEF sweep_expired
  <2>2. PICK p \in Questions : /\ question[p].dispatch = d
                               /\ Outstanding(p)
                               /\ question[p].prior # "AWAITING_ANSWER"
    BY <2>1 DEF SuspensionHasRelease
  <2>3. ASSUME p \in Due(at) PROVE FALSE
    <3>1. PICK q \in Due(at) : question[q].dispatch = d /\ dispatch'[d] = question[q].prior
      BY <2>1, <2>2, <2>3, SweptDispatch
    <3>2. q \in Questions /\ IsOpen(q) /\ IsOpen(p)
      BY <2>3, <3>1 DEF Due
    <3>3. p = q
      BY <3>1, <3>2, <2>2 DEF OneOpenQuestion
    <3>4. QED BY <3>1, <3>3, <2>2
  <2>4. QED BY <2>2, <2>3, <1>2 DEF Outstanding, IsOpen
<1>8. AnsweredByOwner'
  BY <1>2 DEF AnsweredByOwner
<1>9. OneAnomaly'
  <2> SUFFICES ASSUME NEW q \in Questions
               PROVE  anomalies'[q] + (IF q \in notifying' THEN 1 ELSE 0)
                        <= (IF question'[q].state = "EXPIRED" THEN 1 ELSE 0)
    BY DEF OneAnomaly
  <2>1. anomalies' = anomalies /\ notifying' = notifying \cup Due(at)
    BY DEF sweep_expired
  <2>2. anomalies[q] + (IF q \in notifying THEN 1 ELSE 0)
           <= (IF question[q].state = "EXPIRED" THEN 1 ELSE 0)
    BY DEF OneAnomaly
  <2>3. anomalies[q] \in Nat
    BY DEF TypeOK
  <2>4. CASE q \in Due(at)
    <3>1. question[q].state # "EXPIRED" /\ question'[q].state = "EXPIRED"
      BY <2>4, <1>2 DEF IsOpen, OpenStates
    <3>2. QED BY <3>1, <2>1, <2>2, <2>3, <2>4
  <2>5. CASE q \notin Due(at)
    BY <2>1, <2>2, <2>5, <1>2
  <2>6. QED BY <2>4, <2>5
<1>10. QED BY <1>1, <1>5, <1>6, <1>7, <1>8, <1>9

(* A receipt keeps the invariant: it releases the dispatch unless another  *)
(* question holds it.                                                      *)
LEMMA ConsumeKeeps ==
    ASSUME GateInv, NEW q \in Questions, mark_answer_consumed(q)
    PROVE  GateInv'
<1> USE DEF GateInv
<1>1. TypeOK'
  BY ConsumeType
<1>2. /\ question[q].state = "ANSWERED"
      /\ question'[q] = [question[q] EXCEPT !.consumed = TRUE]
      /\ \A p \in Questions : p # q => question'[p] = question[p]
      /\ dispatch' = Released(q)
      /\ notifying' = notifying /\ anomalies' = anomalies
  BY DEF mark_answer_consumed, TypeOK
<1>3. /\ question'[q].state = "ANSWERED" /\ question'[q].dispatch = question[q].dispatch
      /\ question'[q].prior = question[q].prior /\ question'[q].owner = question[q].owner
      /\ question'[q].answeredBy = question[q].answeredBy
  <2>1. question[q] \in QuestionRow
    BY DEF TypeOK
  <2>2. QED BY <2>1, <1>2 DEF QuestionRow
<1>4. /\ question[q].dispatch \in Dispatches
      /\ question[q].prior \in LIVE_DISPATCH_STATES
  BY <1>2 DEF Shape
<1>5. ASSUME NEW d \in Dispatches
      PROVE  \/ /\ dispatch'[d] = dispatch[d]
                /\ d = question[q].dispatch => dispatch[d] # "AWAITING_ANSWER"
             \/ /\ d = question[q].dispatch
                /\ dispatch[d] = "AWAITING_ANSWER"
                /\ dispatch'[d] = question[q].prior
  BY <1>2, <1>4 DEF Released, TypeOK
<1>6. Shape'
  <2> SUFFICES ASSUME NEW p \in Questions
               PROVE (/\ question[p].state # "ABSENT" =>
                            /\ question[p].dispatch \in Dispatches
                            /\ dispatch[question[p].dispatch] # "ABSENT"
                            /\ question[p].prior \in LIVE_DISPATCH_STATES
                      /\ question[p].consumed => question[p].state = "ANSWERED")'
    BY DEF Shape
  <2>1. question'[p].dispatch = question[p].dispatch /\ question'[p].prior = question[p].prior
        /\ question'[p].state = question[p].state
    BY <1>2, <1>3
  <2>2. ASSUME NEW d \in Dispatches, dispatch[d] # "ABSENT" PROVE dispatch'[d] # "ABSENT"
    BY <2>2, <1>4, <1>5 DEF LIVE_DISPATCH_STATES
  <2>3. question'[p].consumed => question'[p].state = "ANSWERED"
    BY <1>2, <1>3 DEF Shape
  <2>4. QED BY <2>1, <2>2, <2>3 DEF Shape
<1>7. OneOpenQuestion'
  <2>1. ASSUME NEW p \in Questions
        PROVE  /\ question'[p].dispatch = question[p].dispatch
               /\ question'[p].state = question[p].state
    BY <1>2, <1>3
  <2>2. QED BY <2>1, <1>6 DEF OneOpenQuestion, Shape, IsOpen, OpenStates
<1>8. SuspensionHasRelease'
  <2> SUFFICES ASSUME NEW d \in Dispatches, dispatch'[d] = "AWAITING_ANSWER",
                      d \notin byHand'
               PROVE  \E p \in Questions : /\ question'[p].dispatch = d
                                          /\ Outstanding(p)'
                                          /\ question'[p].prior # "AWAITING_ANSWER"
    BY DEF SuspensionHasRelease
  <2>1. dispatch[d] = "AWAITING_ANSWER" /\ d \notin byHand
    BY <1>5 DEF mark_answer_consumed
  <2>2. PICK p \in Questions : /\ question[p].dispatch = d
                               /\ Outstanding(p)
                               /\ question[p].prior # "AWAITING_ANSWER"
    BY <2>1 DEF SuspensionHasRelease
  <2>3. p # q
    BY <2>1, <2>2, <1>5
  <2>4. QED BY <2>2, <2>3, <1>2 DEF Outstanding, IsOpen
<1>9. AnsweredByOwner'
  BY <1>2, <1>3 DEF AnsweredByOwner
<1>10. OneAnomaly'
  BY <1>2, <1>3 DEF OneAnomaly
<1>11. QED BY <1>1, <1>6, <1>7, <1>8, <1>9, <1>10

(* A dispatch row that is written, by hand if to AWAITING_ANSWER.              *)
LEMMA DispatchKeeps ==
    ASSUME GateInv, NEW d \in Dispatches, NEW state \in DispatchStates,
           dispatch' = [dispatch EXCEPT ![d] = state],
           byHand' \subseteq Dispatches, byHand \ {d} \subseteq byHand',
           state = "AWAITING_ANSWER" => d \in byHand',
           UNCHANGED <<now, question, run, claims, notifying, anomalies, crashes>>
    PROVE  GateInv'
<1> USE DEF GateInv
<1>1. TypeOK'
  BY DEF TypeOK
<1>2. state # "ABSENT"
  BY DEF DispatchStates, LIVE_DISPATCH_STATES, FinishedStates
<1>3. Shape'
  BY <1>2 DEF Shape, TypeOK
<1>4. OneOpenQuestion'
  BY <1>3 DEF OneOpenQuestion, Shape, IsOpen, OpenStates
<1>5. SuspensionHasRelease'
  <2> SUFFICES ASSUME NEW c \in Dispatches, dispatch'[c] = "AWAITING_ANSWER",
                      c \notin byHand'
               PROVE  \E p \in Questions : /\ question'[p].dispatch = c
                                          /\ Outstanding(p)'
                                          /\ question'[p].prior # "AWAITING_ANSWER"
    BY DEF SuspensionHasRelease
  <2>1. c # d
    BY DEF TypeOK
  <2>2. dispatch[c] = "AWAITING_ANSWER" /\ c \notin byHand
    BY <2>1 DEF TypeOK
  <2>3. PICK p \in Questions : /\ question[p].dispatch = c
                               /\ Outstanding(p)
                               /\ question[p].prior # "AWAITING_ANSWER"
    BY <2>2 DEF SuspensionHasRelease
  <2>4. QED BY <2>3 DEF Outstanding, IsOpen
<1>6. AnsweredByOwner' /\ OneAnomaly'
  BY DEF AnsweredByOwner, OneAnomaly
<1>7. QED BY <1>1, <1>3, <1>4, <1>5, <1>6

(* The outcome of a notice keeps the invariant.                            *)
LEMMA NotifyKeeps ==
    ASSUME GateInv, NEW q \in Questions, NEW landed \in BOOLEAN, Notify(q, landed)
    PROVE  GateInv'
<1> USE DEF GateInv
<1>1. TypeOK'
  BY DEF Notify, TypeOK
<1>2. Shape' /\ OneOpenQuestion' /\ SuspensionHasRelease' /\ AnsweredByOwner'
  BY DEF Notify, Shape, OneOpenQuestion, SuspensionHasRelease, AnsweredByOwner,
         Outstanding, IsOpen
<1>3. OneAnomaly'
  BY DEF Notify, OneAnomaly, TypeOK
<1>4. QED BY <1>1, <1>2, <1>3

(* Every step keeps the invariant.                                         *)
THEOREM NextKeeps == GateInv /\ [Next]_vars => GateInv'
<1> SUFFICES ASSUME GateInv, [Next]_vars PROVE GateInv'
  OBVIOUS
<1>1. ASSUME NEW d \in Dispatches, NEW state \in Recordable, RecordDispatch(d, state)
      PROVE  GateInv'
  <2>1. state \in DispatchStates
    BY <1>1, GateConstants
  <2>2. /\ byHand' \subseteq Dispatches
        /\ byHand \ {d} \subseteq byHand'
        /\ state = "AWAITING_ANSWER" => d \in byHand'
    BY <1>1 DEF RecordDispatch, GateInv, TypeOK
  <2>3. QED BY <1>1, <2>1, <2>2, DispatchKeeps DEF RecordDispatch
<1>2. ASSUME NEW d \in Dispatches, EnsureDispatch(d) PROVE GateInv'
  <2>1. "PREPARED" \in DispatchStates
    BY DEF DispatchStates, LIVE_DISPATCH_STATES
  <2>2. byHand' \subseteq Dispatches /\ byHand \ {d} \subseteq byHand'
    BY <1>2 DEF EnsureDispatch, GateInv, TypeOK
  <2>3. QED BY <1>2, <2>1, <2>2, DispatchKeeps DEF EnsureDispatch
<1>3. CASE AskAny
  BY <1>3, AskKeeps DEF AskAny
<1>4. CASE AnswerAny
  BY <1>4, AnswerKeeps DEF AnswerAny
<1>5. ASSUME NEW q \in Questions, NEW at \in Instants, escalate_question(q, at) PROVE GateInv'
  BY <1>5, EscalateKeeps
<1>6. ASSUME NEW at \in Instants, sweep_expired(at) PROVE GateInv'
  BY <1>6, SweepKeeps
<1>7. ASSUME NEW q \in Questions, mark_answer_consumed(q) PROVE GateInv'
  BY <1>7, ConsumeKeeps
<1>8. ASSUME NEW q \in Questions, NEW landed \in BOOLEAN, Notify(q, landed) PROVE GateInv'
  BY <1>8, NotifyKeeps
<1>9. CASE Crash
  <2> USE <1>9 DEF GateInv, Crash
  <2>1. TypeOK' /\ OneAnomaly'
    BY DEF TypeOK, OneAnomaly
  <2>2. QED BY <2>1 DEF Shape, OneOpenQuestion, SuspensionHasRelease, AnsweredByOwner,
                        Outstanding, IsOpen
<1>10. CASE ClaimAny
  BY <1>10, ClaimKeeps DEF ClaimAny
<1>11. CASE Tick
  <2> USE <1>11 DEF GateInv, Tick
  <2>1. TypeOK'
    BY DEF TypeOK
  <2>2. QED BY <2>1 DEF Shape, OneOpenQuestion, SuspensionHasRelease, AnsweredByOwner,
                        OneAnomaly, Outstanding, IsOpen
<1>12. CASE UNCHANGED vars
  BY <1>12 DEF vars, GateInv, TypeOK, Shape, OneOpenQuestion, SuspensionHasRelease,
               AnsweredByOwner, OneAnomaly, Outstanding, IsOpen
<1>13. QED BY <1>1, <1>2, <1>3, <1>4, <1>5, <1>6, <1>7, <1>8, <1>9, <1>10, <1>11, <1>12
           DEF Next

(* The initial state satisfies it.                                         *)
THEOREM InitKeeps == Init => GateInv
<1> SUFFICES ASSUME Init PROVE GateInv
  OBVIOUS
<1>1. TypeOK /\ Shape
  BY InitType
<1>2. OneOpenQuestion /\ SuspensionHasRelease /\ AnsweredByOwner /\ OneAnomaly
  BY DEF Init, OneOpenQuestion, SuspensionHasRelease, AnsweredByOwner, OneAnomaly, IsOpen,
         OpenStates, NoQuestion
<1>3. QED BY <1>1, <1>2 DEF GateInv

(* The gate's invariant holds of every behaviour.                            *)
THEOREM GateInvariant == Spec => []GateInv
BY InitKeeps, NextKeeps, PTL DEF Spec

-----------------------------------------------------------------------------
(* What a reader of the gate may rely on.                                    *)

(* The gate's rows have their types in every behaviour.                       *)
THEOREM QuestionTyping == Spec => []TypeOK
BY GateInvariant, PTL DEF GateInv

(* No run that asked is left awaiting for ever by the order in which asks,      *)
(* answers, expiries, receipts and hand-recorded states commit: every            *)
(* suspension an ask made keeps a release.                                   *)
THEOREM SuspensionsAreReleased == Spec => []SuspensionHasRelease
BY GateInvariant, PTL DEF GateInv

(* A dispatch holds one open question at most.                               *)
THEOREM SlotIsExclusive == Spec => []OneOpenQuestion
BY GateInvariant, PTL DEF GateInv

(* The answer on record is its owner's.                                      *)
THEOREM OwnerAnswered == Spec => []AnsweredByOwner
BY GateInvariant, PTL DEF GateInv

(* One anomaly at most per expired question, none for another.                 *)
THEOREM AnomalyOnce == Spec => []OneAnomaly
BY GateInvariant, PTL DEF GateInv

(* No step of a question moves a finished dispatch: only record_dispatch does.  *)
THEOREM FinishedDispatches == Spec => FinishedStaysFinished
<1> DEFINE A == \A d \in Dispatches :
                   dispatch[d] \in FinishedStates /\ dispatch'[d] # dispatch[d]
                     => question' = question
<1>1. ASSUME GateInv, [Next]_vars PROVE A
  <2> SUFFICES ASSUME NEW d \in Dispatches, dispatch[d] \in FinishedStates,
                      dispatch'[d] # dispatch[d]
               PROVE  question' = question
    OBVIOUS
  <2>1. dispatch[d] # "AWAITING_ANSWER" /\ dispatch[d] # "ABSENT"
        /\ dispatch[d] \notin LIVE_DISPATCH_STATES
    BY DEF FinishedStates, LIVE_DISPATCH_STATES
  <2>2. ASSUME NEW c \in Dispatches, NEW state \in Recordable, RecordDispatch(c, state)
        PROVE  question' = question
    BY <2>2 DEF RecordDispatch
  <2>3. ASSUME NEW c \in Dispatches, EnsureDispatch(c) PROVE FALSE
    BY <2>3, <2>1, <1>1 DEF EnsureDispatch, GateInv, TypeOK
  <2>4. ASSUME AskAny PROVE FALSE
    BY <2>4, <2>1, <1>1 DEF AskAny, Ask, MayAsk, GateInv, TypeOK
  <2>5. ASSUME AnswerAny PROVE FALSE
    BY <2>5 DEF AnswerAny, Answer
  <2>6. ASSUME NEW q \in Questions, NEW at \in Instants, escalate_question(q, at) PROVE FALSE
    BY <2>6 DEF escalate_question
  <2>7. ASSUME NEW at \in Instants, sweep_expired(at) PROVE FALSE
    BY <2>7, <2>1, <1>1, SweptDispatch DEF GateInv
  <2>8. ASSUME NEW q \in Questions, mark_answer_consumed(q) PROVE FALSE
    <3>1. question[q].dispatch \in Dispatches
      BY <2>8, <1>1 DEF mark_answer_consumed, GateInv, Shape
    <3>2. QED BY <2>8, <3>1, <2>1, <1>1 DEF mark_answer_consumed, Released, GateInv, TypeOK
  <2>9. ASSUME NEW q \in Questions, NEW landed \in BOOLEAN, Notify(q, landed) PROVE FALSE
    BY <2>9 DEF Notify
  <2>10. ASSUME Crash \/ Tick \/ ClaimAny \/ UNCHANGED vars PROVE FALSE
    BY <2>10 DEF Crash, Tick, ClaimAny, claim_ownership, vars
  <2>11. QED BY <1>1, <2>2, <2>3, <2>4, <2>5, <2>6, <2>7, <2>8, <2>9, <2>10 DEF Next
<1>2. QED BY <1>1, GateInvariant, PTL DEF Spec, FinishedStaysFinished

-----------------------------------------------------------------------------
(* The gate implements QuestionLifecycle.                                    *)

(* What a question maps to, read off its state.                              *)
LEMMA PhaseOf ==
    ASSUME TypeOK, NEW q \in Questions
    PROVE  /\ question[q].state = "ABSENT" => phaseBar[q] = "unasked"
           /\ IsOpen(q) => phaseBar[q] = "open"
           /\ question[q].state = "EXPIRED" => phaseBar[q] = "expired"
           /\ question[q].state = "ANSWERED" =>
                 phaseBar[q] = IF question[q].consumed THEN "received" ELSE "answered"
BY DEF phaseBar, IsOpen, OpenStates

(* Every step is a step of QuestionLifecycle or invisible to it.           *)
LEMMA LifecycleStep ==
    ASSUME GateInv, GateInv', [Next]_vars
    PROVE  Lifecycle!Next \/ UNCHANGED <<phaseBar, replyBar>>
<1> USE DEF GateInv
<1>0. /\ phaseBar' = [p \in Questions |-> phaseBar'[p]]
      /\ phaseBar = [p \in Questions |-> phaseBar[p]]
      /\ replyBar' = [p \in Questions |-> replyBar'[p]]
      /\ replyBar = [p \in Questions |-> replyBar[p]]
  BY DEF phaseBar, replyBar
<1>q. ASSUME question' = question PROVE UNCHANGED <<phaseBar, replyBar>>
  BY <1>q DEF phaseBar, replyBar
(* One question changes, and how it does is all the abstraction sees.            *)
<1>1. ASSUME NEW q \in Questions, NEW ph, NEW re,
             \A p \in Questions : p # q => question'[p] = question[p],
             phaseBar'[q] = ph, replyBar'[q] = re
      PROVE  /\ phaseBar' = [phaseBar EXCEPT ![q] = ph]
             /\ replyBar' = [replyBar EXCEPT ![q] = re]
  <2>1. \A p \in Questions : p # q => phaseBar'[p] = phaseBar[p] /\ replyBar'[p] = replyBar[p]
    BY <1>1 DEF phaseBar, replyBar
  <2>3. phaseBar' = [phaseBar EXCEPT ![q] = ph]
    BY <2>1, <1>0, <1>1
  <2>4. replyBar' = [replyBar EXCEPT ![q] = re]
    BY <2>1, <1>0, <1>1
  <2>5. QED BY <2>3, <2>4
<1>2. ASSUME NEW q \in Questions, NEW d \in Dispatches, NEW key \in AskKeys,
             NEW owner \in Conversations, NEW epoch \in Epochs, NEW window \in Windows,
             NEW asked \in Instants, NEW r \in {None, RunOf[d]},
             Ask(q, d, key, owner, epoch, window, asked, r)
      PROVE  Lifecycle!Ask(q)
  <2>1. question'[q].state = "PENDING"
        /\ (\A p \in Questions : p # q => question'[p] = question[p])
        /\ question[q].state = "ABSENT"
    BY <1>2 DEF Ask, TypeOK
  <2>2. phaseBar'[q] = "open" /\ phaseBar[q] = "unasked"
    BY <2>1, PhaseOf DEF phaseBar, OpenStates
  <2>3. replyBar'[q] = None /\ replyBar[q] = None
    BY <2>1 DEF replyBar
  <2>4. phaseBar' = [phaseBar EXCEPT ![q] = "open"] /\ replyBar' = [replyBar EXCEPT ![q] = None]
    BY <1>1, <2>1, <2>2, <2>3
  <2>5. replyBar' = replyBar
    BY <2>3, <2>4, <1>0
  <2>6. QED BY <2>2, <2>4, <2>5 DEF Lifecycle!Ask
<1>3. ASSUME NEW q \in Questions, NEW a \in Answers, NEW key \in AnswerKeys,
             NEW caller \in Conversations, NEW epoch \in Epochs, NEW at \in Instants,
             Answer(q, a, key, caller, epoch, at)
      PROVE  Lifecycle!Settle(q, a)
  <2>1. question[q] \in QuestionRow /\ question[q].state # "ABSENT"
        /\ question[q].state \notin SettledStates
    BY <1>3 DEF Answer, answer_admissible, TypeOK
  <2>2. IsOpen(q) /\ ~ question[q].consumed
    BY <2>1 DEF QuestionRow, IsOpen, OpenStates, SettledStates, Shape
  <2>3. question'[q] = [question[q] EXCEPT !.state = "ANSWERED", !.answer = a,
                                           !.answerKey = key, !.answeredBy = caller]
        /\ \A p \in Questions : p # q => question'[p] = question[p]
    BY <1>3 DEF Answer, TypeOK
  <2>4. question'[q].state = "ANSWERED" /\ question'[q].answer = a /\ ~ question'[q].consumed
    BY <2>1, <2>2, <2>3 DEF QuestionRow
  <2>5. phaseBar'[q] = "answered" /\ phaseBar[q] = "open" /\ replyBar'[q] = a
    BY <2>2, <2>4, PhaseOf DEF phaseBar, replyBar, OpenStates
  <2>6. QED BY <1>1, <2>3, <2>5 DEF Lifecycle!Settle
<1>4. ASSUME NEW q \in Questions, NEW at \in Instants, escalate_question(q, at)
      PROVE  UNCHANGED <<phaseBar, replyBar>>
  <2>1. question[q] \in QuestionRow /\ question[q].state = "PENDING"
    BY <1>4 DEF escalate_question, TypeOK
  <2>2. question'[q].state = "ESCALATED"
        /\ \A p \in Questions : p # q => question'[p] = question[p]
    BY <1>4, <2>1 DEF escalate_question, TypeOK, QuestionRow
  <2>3. phaseBar'[q] = "open" /\ phaseBar[q] = "open" /\ replyBar'[q] = None /\ replyBar[q] = None
    BY <2>1, <2>2 DEF phaseBar, replyBar, OpenStates
  <2>4. phaseBar' = [phaseBar EXCEPT ![q] = "open"] /\ replyBar' = [replyBar EXCEPT ![q] = None]
    BY <1>1, <2>2, <2>3
  <2>5. phaseBar' = phaseBar /\ replyBar' = replyBar
    BY <2>3, <2>4, <1>0
  <2>6. QED BY <2>5
<1>5. ASSUME NEW q \in Questions, mark_answer_consumed(q)
      PROVE  Lifecycle!Receive(q) \/ UNCHANGED <<phaseBar, replyBar>>
  <2>1. question[q] \in QuestionRow /\ question[q].state = "ANSWERED"
    BY <1>5 DEF mark_answer_consumed, TypeOK
  <2>2. question'[q] = [question[q] EXCEPT !.consumed = TRUE]
        /\ \A p \in Questions : p # q => question'[p] = question[p]
    BY <1>5 DEF mark_answer_consumed, TypeOK
  <2>3. question'[q].consumed /\ question'[q].state = "ANSWERED"
        /\ question'[q].answer = question[q].answer
    BY <2>1, <2>2 DEF QuestionRow
  <2>4. phaseBar'[q] = "received" /\ replyBar'[q] = replyBar[q]
        /\ phaseBar[q] \in {"answered", "received"}
    BY <2>1, <2>3 DEF phaseBar, replyBar, OpenStates
  <2>5. phaseBar' = [phaseBar EXCEPT ![q] = "received"]
        /\ replyBar' = [replyBar EXCEPT ![q] = replyBar[q]]
    BY <1>1, <2>2, <2>4
  <2>6. replyBar' = replyBar
    BY <2>5, <1>0
  <2>7. CASE phaseBar[q] = "answered"
    BY <2>5, <2>6, <2>7 DEF Lifecycle!Receive
  <2>8. CASE phaseBar[q] = "received"
    <3>1. phaseBar' = phaseBar
      BY <2>5, <2>8, <1>0
    <3>2. QED BY <2>6, <3>1
  <2>9. QED BY <2>4, <2>7, <2>8
<1>6. ASSUME NEW at \in Instants, sweep_expired(at)
      PROVE  Lifecycle!Expire(Due(at))
  <2>1. ASSUME NEW q \in Questions
        PROVE  /\ q \in Due(at) => /\ phaseBar[q] = "open" /\ phaseBar'[q] = "expired"
                                  /\ replyBar'[q] = None /\ replyBar[q] = None
               /\ q \notin Due(at) => phaseBar'[q] = phaseBar[q] /\ replyBar'[q] = replyBar[q]
    <3>1. question[q] \in QuestionRow
      BY DEF TypeOK
    <3>2. CASE q \in Due(at)
      <4>1. question'[q] = [question[q] EXCEPT !.state = "EXPIRED"] /\ IsOpen(q)
        BY <1>6, <3>2 DEF sweep_expired, Due
      <4>2. question'[q].state = "EXPIRED"
        BY <4>1, <3>1 DEF QuestionRow
      <4>3. QED BY <3>2, <4>1, <4>2 DEF phaseBar, replyBar, IsOpen, OpenStates
    <3>3. CASE q \notin Due(at)
      <4>1. question'[q] = question[q]
        BY <1>6, <3>3 DEF sweep_expired
      <4>2. QED BY <3>3, <4>1 DEF phaseBar, replyBar
    <3>4. QED BY <3>2, <3>3
  <2>3. phaseBar' = [q \in Questions |-> IF q \in Due(at) THEN "expired" ELSE phaseBar[q]]
    BY <2>1, <1>0
  <2>4. replyBar' = replyBar
    BY <2>1, <1>0
  <2>5. \A q \in Due(at) : phaseBar[q] = "open"
    BY <2>1 DEF Due
  <2>6. QED BY <2>3, <2>4, <2>5 DEF Lifecycle!Expire
<1>7. ASSUME NEW prior \in Conversations, NEW new \in Conversations, NEW epoch \in Epochs,
             NEW only \in Runs \cup {None}, NEW key \in ClaimKeys,
             claim_ownership(prior, new, epoch, only, key)
      PROVE  UNCHANGED <<phaseBar, replyBar>>
  <2>1. ASSUME NEW q \in Questions
        PROVE  /\ question'[q].state = question[q].state
               /\ question'[q].consumed = question[q].consumed
               /\ question'[q].answer = question[q].answer
    <3>1. question[q] \in QuestionRow
      BY DEF TypeOK
    <3>2. \/ question'[q] = question[q]
          \/ question'[q] = [question[q] EXCEPT !.owner = new, !.epoch = epoch]
      BY <1>7 DEF claim_ownership
    <3>3. QED BY <3>1, <3>2 DEF QuestionRow
  <2>2. QED BY <2>1 DEF phaseBar, replyBar
<1>8. CASE AskAny
  BY <1>8, <1>2 DEF AskAny, Lifecycle!Next
<1>9. CASE AnswerAny
  <2>1. PICK q \in Questions, a \in Answers : Lifecycle!Settle(q, a)
    BY <1>9, <1>3 DEF AnswerAny
  <2>2. QED BY <2>1 DEF Lifecycle!Next
<1>10. CASE \E q \in Questions : mark_answer_consumed(q)
  BY <1>10, <1>5 DEF Lifecycle!Next
<1>11. CASE \E at \in Instants : sweep_expired(at)
  <2>1. PICK at \in Instants : Lifecycle!Expire(Due(at))
    BY <1>11, <1>6
  <2>2. Due(at) \in SUBSET Questions
    BY DEF Due
  <2>3. QED BY <2>1, <2>2 DEF Lifecycle!Next
<1>12. CASE ClaimAny
  BY <1>12, <1>7 DEF ClaimAny
<1>13. CASE \E q \in Questions, at \in Instants : escalate_question(q, at)
  BY <1>13, <1>4
<1>14. CASE \E q \in Questions, landed \in BOOLEAN : Notify(q, landed)
  BY <1>14, <1>q DEF Notify
<1>15. CASE \/ \E d \in Dispatches, state \in Recordable : RecordDispatch(d, state)
            \/ \E d \in Dispatches : EnsureDispatch(d)
            \/ Crash \/ Tick \/ UNCHANGED vars
  BY <1>15, <1>q DEF RecordDispatch, EnsureDispatch, Crash, Tick, vars
<1>16. QED BY <1>8, <1>9, <1>10, <1>11, <1>12, <1>13, <1>14, <1>15 DEF Next

(* The gate implements QuestionLifecycle: asks, answers, escalations, sweeps,    *)
(* receipts and claims are steps of the abstract question or invisible to it.   *)
THEOREM QuestionRefinement == Spec => ImplementsLifecycle
<1>1. Init => Lifecycle!Init
  <2> SUFFICES ASSUME Init PROVE Lifecycle!Init
    OBVIOUS
  <2>1. \A q \in Questions : question[q].state = "ABSENT"
    BY DEF Init, NoQuestion
  <2>2. phaseBar = [q \in Questions |-> "unasked"]
    <3>1. \A q \in Questions : phaseBar[q] = "unasked"
      BY <2>1, InitType, PhaseOf
    <3>2. phaseBar = [q \in Questions |-> phaseBar[q]]
      BY DEF phaseBar
    <3>3. QED BY <3>1, <3>2
  <2>3. replyBar = [q \in Questions |-> None]
    BY <2>1 DEF replyBar
  <2>4. QED BY <2>2, <2>3 DEF Lifecycle!Init
<1>2. GateInv /\ GateInv' /\ [Next]_vars => [Lifecycle!Next]_<<phaseBar, replyBar>>
  BY LifecycleStep
<1>3. QED BY <1>1, <1>2, GateInvariant, PTL DEF Spec, ImplementsLifecycle, Lifecycle!Spec
=============================================================================
