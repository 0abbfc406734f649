---------------------------- MODULE MCPolicyLoop ----------------------------
(* Small instances of PolicyLoop. *)
EXTENDS PolicyLoop, TLC

CONSTANTS t1, t2, f1, c1, c2, r1, r2

MCTenants == {t1, t2}
MCOneFinding == {f1}
MCCorrIds == {c1, c2}
MCSessions == {r1, r2}
MCAllFaults == {"db", "slm", "collector", "crash"}
MCOutage == {"db"}

(* The header ids clients share; every other id is a uuid. *)
MCHeaderIds == {c1}
MCNoHeaderIds == {}
=============================================================================
