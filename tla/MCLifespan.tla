----------------------------- MODULE MCLifespan -----------------------------
(* Three requests on one person, one subject and one event of two days.     *)
EXTENDS Lifespan, TLC

CONSTANTS q1, q2, q3, i1, i2, ann

Symmetry == Permutations(Requests) \cup Permutations(Ids)
=============================================================================
