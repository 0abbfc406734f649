------------------------------ MODULE MCAccess ------------------------------
(* Two requests, two tenants, one correlation id, for TLC. *)
EXTENDS Access

MCIssuers == {"tenant", "operator"}
MCKeyIds == [i \in MCIssuers |-> IF i = "tenant" THEN {"dev-key-1", "dev-key-2"} ELSE {"operator-dev-key-1"}]
MCMaxKeys == [i \in MCIssuers |-> IF i = "tenant" THEN 2 ELSE 1]
MCRequests == {"r1", "r2"}
MCTraced == {<<"a", "c1">>}
=============================================================================
