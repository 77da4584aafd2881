-------------------------- MODULE MCCallbackBarrier --------------------------
(* The instances TLC checks CallbackBarrier on. *)
EXTENDS CallbackBarrier, TLC

TwoBarriers == {1, 2}

(* Workers, keys and callbacks are interchangeable; used without liveness. *)
Interchangeable ==
    Permutations(Workers) \cup Permutations(Keys) \cup Permutations(Callbacks)

=============================================================================
