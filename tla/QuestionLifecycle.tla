-------------------------- MODULE QuestionLifecycle --------------------------
(***************************************************************************)
(* What the answer gate promises the lane that asks (core/gate.py, the     *)
(* docstring of QuestionState): a question settles exactly once, by one    *)
(* answer or by its expiry; the answer that settled it is the one its      *)
(* asker receives.  An expiry sweep may settle several at once.            *)
(***************************************************************************)
CONSTANTS Questions, Answers, None

VARIABLES phase, reply

Init ==
    /\ phase = [q \in Questions |-> "unasked"]
    /\ reply = [q \in Questions |-> None]

Ask(q) ==
    /\ phase[q] = "unasked"
    /\ phase' = [phase EXCEPT ![q] = "open"]
    /\ UNCHANGED reply

Settle(q, a) ==
    /\ phase[q] = "open"
    /\ phase' = [phase EXCEPT ![q] = "answered"]
    /\ reply' = [reply EXCEPT ![q] = a]

Expire(S) ==
    /\ \A q \in S : phase[q] = "open"
    /\ phase' = [q \in Questions |-> IF q \in S THEN "expired" ELSE phase[q]]
    /\ UNCHANGED reply

Receive(q) ==
    /\ phase[q] = "answered"
    /\ phase' = [phase EXCEPT ![q] = "received"]
    /\ UNCHANGED reply

Next ==
    \/ \E q \in Questions : Ask(q) \/ Receive(q) \/ \E a \in Answers : Settle(q, a)
    \/ \E S \in SUBSET Questions : Expire(S)

Spec == Init /\ [][Next]_<<phase, reply>>
=============================================================================
