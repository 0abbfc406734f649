--------------------------- MODULE MCTokenBucket ---------------------------
(* Small instances of the rate limiter for TLC. *)
EXTENDS TokenBucket, TLC

CONSTANTS r1, r2

MCRequests == {r1, r2}
MCSymmetry == Permutations(MCRequests)
=============================================================================
