--------------------------- MODULE MCScriptResume ---------------------------
(* A run with one step its author declared manual, so that every second       *)
(* execution needs a decision.  Requests are alike, and so are fingerprints.  *)
EXTENDS ScriptResume, TLC

Manual == [s \in Steps |-> "manual"]

Alike == Permutations(Resumes) \cup Permutations(Prints)
=============================================================================
