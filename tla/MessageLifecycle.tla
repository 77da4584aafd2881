-------------------------- MODULE MessageLifecycle --------------------------
(***************************************************************************)
(* What the delivery queue promises about a message (invariant I1 of       *)
(* core/delivery.py): once accepted it is owed, it ends in exactly one of  *)
(* three states, and an ending is never taken back.  Rows may end together *)
(* (an ack settles a batch, a reclaim kills a batch), each batch for its   *)
(* own reason.                                                             *)
(***************************************************************************)
CONSTANT Ids

VARIABLE status

Endings == {"delivered", "superseded", "dead"}

Init == status = [i \in Ids |-> "none"]

Accept(i) ==
    /\ status[i] = "none"
    /\ status' = [status EXCEPT ![i] = "owed"]

End(S, ending) ==
    /\ S # {}
    /\ \A i \in S : status[i] = "owed"
    /\ status' = [i \in Ids |-> IF i \in S THEN ending ELSE status[i]]

Next ==
    \/ \E i \in Ids : Accept(i)
    \/ \E S \in SUBSET Ids, ending \in Endings : End(S, ending)

Spec == Init /\ [][Next]_status

(* An accepted message does not rest in a pending state for ever.           *)
EveryMessageEnds == \A i \in Ids : status[i] = "owed" ~> status[i] \in Endings
=============================================================================
