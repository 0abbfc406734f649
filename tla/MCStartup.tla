----------------------------- MODULE MCStartup -----------------------------
(* Small instances of the start of API processes for TLC. *)
EXTENDS Startup, TLC

CONSTANTS p1, p2, ops

MCVersions == {14, 17}

(* 017 grants on the table 014 creates; 017 may be executed twice. *)
MCNeeds == [v \in MCVersions |-> IF v = 17 THEN {14} ELSE {}]
MCReexecutable == {17}
MCProcs == {p1, p2}
MCRunners == {p1, p2, ops}

MCConfigs == {[auto |-> TRUE, profile |-> "stub", env |-> "prod"],
              [auto |-> FALSE, profile |-> "dev_default", env |-> "prod"]}
=============================================================================
