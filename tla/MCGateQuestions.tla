--------------------------- MODULE MCGateQuestions ---------------------------
(* A small instance of GateQuestions for TLC: one lane in a gate round.       *)
EXTENDS GateQuestions, TLC

CONSTANTS lane, gateRun, sup

LaneRun == [d \in Dispatches |-> IF d = lane THEN gateRun ELSE None]

Opener == [r \in Runs |-> sup]

Interchangeable == Permutations(Questions) \cup Permutations(AskKeys)
=============================================================================
