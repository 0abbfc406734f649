----------------------------- MODULE MCErasure -----------------------------
(* Small instances of the erasure of a tenant's data for TLC. *)
EXTENDS Erasure, TLC

CONSTANTS v1, v2, p1, p2, r1, r2, f1, u1, o1

MCVehicles == {v1, v2}
MCPolicies == {p1, p2}
MCRequests == {r1, r2}
MCOneRequest == {r2}
MCScopeOf == p1 :> {v1, v2} @@ p2 :> {v1}
\* the finding ids are the publisher's, and one is the name of a vehicle
MCFindingOf == p1 :> f1 @@ p2 :> v1
Erase(kind, id) == [kind |-> kind, id |-> id, mode |-> "erased"]
MCPayloads ==
    r1 :> {[kind |-> "vehicle", id |-> v2, mode |-> "redacted"]}
    @@ r2 :> {Erase("vehicle", v1), Erase("vehicle", v2), Erase("finding", v1),
              Erase("principal", u1)}
=============================================================================
