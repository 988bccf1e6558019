-------------------------- MODULE MCTimerTransitions --------------------------
(* TLC instance of TimerTransitions: operations and requests are interchangeable. *)
EXTENDS TimerTransitions, TLC

Symmetry == Permutations(Operations) \union Permutations(Requests)
==============================================================================
