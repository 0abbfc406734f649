----------------------- MODULE MCTenantConfigCache -----------------------
(* A small instance of the tenant configuration cache for TLC. *)
EXTENDS TenantConfigCache, TLC

CONSTANTS t1, t2, r1, r2, c1

MCTenants == {t1, t2}
MCReaders == {r1, r2}
MCCorrIds == {c1}
Symmetry == Permutations(MCReaders)
=============================================================================
