----------------------------- MODULE MCTaskGraph -----------------------------
(* TLC instance of TaskGraph.  Tasks, names and requests are interchangeable.*)
(* A behaviour serves at most MaxRequests requests, any number of them at a  *)
(* time; everything else is unbounded.                                       *)
EXTENDS TaskGraph, TLC

CONSTANT MaxRequests

VARIABLE served  \* how many requests have arrived

MCInit == Init /\ served = 0

MCNext == \/ served < MaxRequests /\ Arrivals /\ served' = served + 1
          \/ Steps /\ UNCHANGED served

MCSpec == MCInit /\ [][MCNext]_<<vars, served>>

Symmetry == Permutations(Tasks) \union Permutations(Names) \union Permutations(Requests)
==============================================================================
