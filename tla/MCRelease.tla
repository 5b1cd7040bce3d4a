----------------------------- MODULE MCRelease ------------------------------
(* A small instance of Release for TLC, which evaluates OrbitChecks too. *)
EXTENDS Release, OrbitChecks

CONSTANTS v1, v2, b1, s1, s2, film, poster

TwoLabels == {v1, v2}
OneBuild == {b1}
TwoSessions == {s1, s2}
Delivered == b1 :> {film, poster}

Symmetry == Permutations(TwoSessions) \cup Permutations(TwoLabels)

=============================================================================
