--------------------------- MODULE MCDateMigration ---------------------------
(* DateMigration on a small instance, from several situations: one entry with *)
(* a fault and an edit, with two faults, with a fault and a longer life, and  *)
(* two entries in batches of one with neither.                                *)
EXTENDS DateMigration, TLC

CONSTANTS r1, t1, t2, w1, w2, u1

Symmetry == Permutations(Workers)

MCBudgets ==
    {[legacy |-> {t1}, faults |-> 1, edits |-> 1, fence |-> 4],
     [legacy |-> {t1}, faults |-> 2, edits |-> 0, fence |-> 4],
     [legacy |-> {t1}, faults |-> 1, edits |-> 0, fence |-> 5],
     [legacy |-> {t1, t2}, faults |-> 0, edits |-> 0, fence |-> 6]}
=============================================================================
