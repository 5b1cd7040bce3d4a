---------------------------- MODULE MCWorkQueue -----------------------------
(* Small instances of WorkQueue for TLC. *)
EXTENDS WorkQueue, TLC

CONSTANTS w1, w2, i1, i2

MCWorkers == {w1, w2}
OneItem   == {i1}
TwoItems  == {i1, i2}

Symmetry == Permutations(MCWorkers) \cup Permutations(TwoItems)

=============================================================================
