---------------------------- MODULE MCOwnership ----------------------------
(* A small instance of the ownership check for TLC. *)
EXTENDS Ownership, TLC

CONSTANTS t1, t2, v1, v2, d1, d2, c1

MCTenants == {t1, t2}
MCVehicles == {v1, v2}
MCCalls == {d1, d2}
MCScopes == {<<v1, v2>>}
MCRequests == {t1, t2} \X {t1}
MCCorrIds == {c1}
Symmetry == Permutations(MCCalls)
=============================================================================
