--------------------------- MODULE MCCollectMind ---------------------------
(* Small instances of the whole application for TLC. *)
EXTENDS CollectMind, TLC

CONSTANTS t1, f1, f2, c1, c2, r1, r2

MCTenants == {t1}
MCPublic == t1
MCFindings == {f1, f2}
MCCorrIds == {c1, c2}
MCNoHeaderIds == {}
MCSessions == {r1, r2}
MCFaults == {"slm", "collector", "crash", "worker"}
=============================================================================
