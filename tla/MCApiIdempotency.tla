--------------------------- MODULE MCApiIdempotency ---------------------------
(* TLC instance of ApiIdempotency: payloads, resource ids and requests are interchangeable. *)
EXTENDS ApiIdempotency, TLC

Symmetry == Permutations(Payloads) \union Permutations(Resources) \union Permutations(Requests)
==============================================================================
