------------------------ MODULE MCProjectChildFence ------------------------
(* TLC instance of ProjectChildFence: requests and projects are             *)
(* interchangeable model values, so states are explored up to symmetry.     *)
EXTENDS ProjectChildFence, TLC

Symmetry == Permutations(Requests) \union Permutations(Projects)
============================================================================
