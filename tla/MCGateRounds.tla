---------------------------- MODULE MCGateRounds ----------------------------
(* A small instance of GateRounds for TLC.                                   *)
EXTENDS GateRounds, TLC

Interchangeable ==
    Permutations(Callers) \cup Permutations(Rounds) \cup
    Permutations(Snapshots) \cup Permutations(Reports)
=============================================================================
