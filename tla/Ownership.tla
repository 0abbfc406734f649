----------------------------- MODULE Ownership -----------------------------
(* Which tenant owns a vehicle, and the deployer's check of it: the            *)
(* tenant_vehicles table with its history and audit triggers, the Redis cache  *)
(* in front of it, and calls of deploy_with_tenant_scope_check.  Version n of  *)
(* a vehicle's ownership is the n-th row of its history; 0 is "unknown".       *)
EXTENDS Naturals, Sequences, FiniteSets

CONSTANTS
    Tenants,
    Vehicles,
    Calls,          \* concurrent calls of deploy_with_tenant_scope_check
    Scopes,         \* vehicle scopes of the policies to deploy
    Requests,       \* who deploys: the requesting tenant and the one the policy declares
    CorrIds,        \* correlation ids of the calls
    Ttl,            \* lifetime of a cached owner
    Window,         \* longest time a call takes up to its outbound request
    MaxClock,       \* bound: how long the clock runs
    MaxAssignments, \* bound: ownership changes of all vehicles together
    None

ASSUME OwnershipAssumption ==
    /\ Ttl \in Nat \ {0}
    /\ Window \in Nat
    /\ Scopes \subseteq Seq(Vehicles) \ {<<>>}
    /\ Requests \subseteq Tenants \X Tenants
    /\ None \notin Tenants
    /\ None \notin [version : Nat, expires : Nat]

VARIABLES
    clock,
    history,        \* tenant_vehicles_history per vehicle; its last row is current
    audit,          \* rows of kind vehicle_assignment_change, deployment_rejected
    redis,          \* cached owner per vehicle: a version and when it expires
    call            \* per call, where it is

vars == <<clock, history, audit, redis, call>>

Row == [tenant : Tenants, at : Nat]
Entry == [version : Nat, expires : Nat]
Unused == [pc |-> "unused"]
Running == {"get", "query", "set", "check"}
Called == [pc : Running, requester : Tenants, tenant : Tenants, scope : Scopes,
           corr : CorrIds, start : Nat, next : Nat, cached : BOOLEAN, version : Nat]
Rejection == [kind : {"deployment_rejected"}, corr : Seq(CorrIds), tenant : Tenants,
              policy : Calls, declared : Tenants, vehicle : Vehicles,
              owner : Tenants \cup {None}]
Mismatched == [pc : {"reject", "rejected", "lost"}, row : Rejection]
Returned == [pc : {"deployed", "failed"}]

(* Every variable has its type.                                                *)
OwnershipTypeOK ==
    /\ clock \in Nat
    /\ history \in [Vehicles -> Seq(Row)]
    /\ \A a \in audit : a.kind \in {"vehicle_assignment_change", "deployment_rejected"}
    /\ redis \in [Vehicles -> Entry \cup {None}]
    /\ call \in [Calls -> {Unused} \cup Called \cup Mismatched \cup Returned]

Version(v) == Len(history[v])
OwnerAt(v, n) == IF n = 0 THEN None ELSE history[v][n].tenant
Assignments == Cardinality(UNION {{v} \X (1..Version(v)) : v \in Vehicles})
Taken(kind, id) == \E a \in audit : a.kind = kind /\ a.corr = id

Init ==
    /\ clock = 0
    /\ history = [v \in Vehicles |-> <<>>]
    /\ audit = {}
    /\ redis = [v \in Vehicles |-> None]
    /\ call = [d \in Calls |-> Unused]
-----------------------------------------------------------------------------
(* The table: TenantVehiclesRepository.assign                                  *)

(* The vehicle's row is inserted or updated and the triggers append to history *)
(* and audit, under a correlation id they make up, in one transaction.  An     *)
(* assignment to the present owner fires neither.  Nothing invalidates the     *)
(* cached owner.                                                               *)
AssignmentRow(v, t) ==
    [kind |-> "vehicle_assignment_change", tenant |-> t, corr |-> <<v, Version(v) + 1>>]

assign(v, t) ==
    /\ Assignments < MaxAssignments
    /\ t # OwnerAt(v, Version(v))
    /\ history' = [history EXCEPT ![v] = Append(@, [tenant |-> t, at |-> clock])]
    /\ audit' = audit \cup {AssignmentRow(v, t)}
    /\ UNCHANGED <<clock, redis, call>>
-----------------------------------------------------------------------------
(* The cache                                                                   *)

(* Mutant: the entries are stored without expiry.                              *)
Kept_all(now) == redis

(* What the EX of the write-back leaves in Redis at time `now`.                *)
Kept(now) ==
    [v \in Vehicles |->
        IF redis[v] # None /\ now < redis[v].expires THEN redis[v] ELSE None]

(* The entry goes: OwnershipCache.invalidate, an eviction, a restart of Redis. *)
forget(v) ==
    /\ redis[v] # None
    /\ redis' = [redis EXCEPT ![v] = None]
    /\ UNCHANGED <<clock, history, audit, call>>
-----------------------------------------------------------------------------
(* A call of deploy_with_tenant_scope_check                                    *)

At(d, pc) == call[d].pc = pc
Vehicle(d) == call[d].scope[call[d].next]

(* Tenant `requester` has a policy deployed that declares tenant t and a scope. *)
(* The call stands for the policy's id and version.                            *)
begin(d, requester, t, scope, c) ==
    /\ call[d] = Unused
    /\ call' = [call EXCEPT ![d] =
           [pc |-> "get", requester |-> requester, tenant |-> t, scope |-> scope, corr |-> c,
            start |-> clock, next |-> 1, cached |-> FALSE, version |-> 0]]
    /\ UNCHANGED <<clock, history, audit, redis>>

NextVehicle(d) ==
    [call[d] EXCEPT !.pc = "get", !.next = @ + 1, !.version = 0, !.cached = FALSE]

(* The row of a mismatch: of the requester, with the policy, the tenant it     *)
(* declares, the vehicle, and the owner that was found for it.                 *)
RejectionRow(d, n) ==
    [kind |-> "deployment_rejected", corr |-> <<call[d].corr>>, tenant |-> call[d].requester,
     policy |-> d, declared |-> call[d].tenant, vehicle |-> Vehicle(d),
     owner |-> OwnerAt(Vehicle(d), n)]

(* Mutant: only the last vehicle of the scope decides.                         *)
Answered_last(d, n) ==
    LET match == OwnerAt(Vehicle(d), n) = call[d].tenant
        last == call[d].next = Len(call[d].scope) IN
    call' = [call EXCEPT ![d] =
        IF ~last THEN NextVehicle(d)
        ELSE IF match THEN [pc |-> "deployed"]
        ELSE [pc |-> "reject", row |-> RejectionRow(d, n)]]

(* get_owner has answered with version n for the vehicle d is looking at.      *)
(* validate_tenant_scope goes on to the next vehicle if the policy's tenant    *)
(* owns it; after the last one the collector is called with no further wait.   *)
(* The first mismatch ends the check.                                          *)
Answered(d, n) ==
    LET match == OwnerAt(Vehicle(d), n) = call[d].tenant
        last == call[d].next = Len(call[d].scope) IN
    call' = [call EXCEPT ![d] =
        IF ~match THEN [pc |-> "reject", row |-> RejectionRow(d, n)]
        ELSE IF last THEN [pc |-> "deployed"]
        ELSE NextVehicle(d)]

(* redis.get answers with the entry.                                           *)
redis_hit(d) ==
    /\ At(d, "get")
    /\ redis[Vehicle(d)] # None
    /\ Answered(d, redis[Vehicle(d)].version)
    /\ UNCHANGED <<clock, history, audit, redis>>

(* redis.get answers None, and the repository is asked; when redis.get fails   *)
(* the repository is asked too, but its answer will not be written back.       *)
redis_miss(d) ==
    /\ At(d, "get")
    /\ \E up \in BOOLEAN :
        /\ up => redis[Vehicle(d)] = None
        /\ call' = [call EXCEPT ![d].pc = "query", ![d].cached = up]
    /\ UNCHANGED <<clock, history, audit, redis>>

(* TenantVehiclesRepository.get_owner: the row as committed now.  An unknown   *)
(* vehicle is not cached.                                                      *)
query(d) ==
    /\ At(d, "query")
    /\ LET n == Version(Vehicle(d)) IN
       call' = [call EXCEPT ![d].version = n,
                            ![d].pc = IF call[d].cached /\ n > 0 THEN "set" ELSE "check"]
    /\ UNCHANGED <<clock, history, audit, redis>>

(* The write-back.  Its failure is ignored, and may come after Redis has       *)
(* executed the command.                                                       *)
redis_set(d) ==
    /\ At(d, "set")
    /\ \/ redis' = [redis EXCEPT ![Vehicle(d)] =
              [version |-> call[d].version, expires |-> clock + Ttl]]
       \/ UNCHANGED redis
    /\ Answered(d, call[d].version)
    /\ UNCHANGED <<clock, history, audit>>

resume(d) ==
    /\ At(d, "check")
    /\ Answered(d, call[d].version)
    /\ UNCHANGED <<clock, history, audit, redis>>

(* Mutant: a row that row-level security hides counts as this one.             *)
write_rejection_lenient(d) ==
    /\ At(d, "reject")
    /\ audit' = IF Taken(call[d].row.kind, call[d].row.corr) THEN audit
                ELSE audit \cup {call[d].row}
    /\ call' = [call EXCEPT ![d].pc = "rejected"]
    /\ UNCHANGED <<clock, history, redis>>

(* Two rows that AuditEventWriter.write takes for one.                         *)
Coalesced(a, row) == a.kind = row.kind /\ a.corr = row.corr /\ a.tenant = row.tenant

(* AuditEventWriter.write of the rejection.  A row under the same correlation  *)
(* id and kind stands for this one too if it is the requester's own, whatever  *)
(* else it says, and is an error if row-level security hides it.               *)
write_rejection(d) ==
    /\ At(d, "reject")
    /\ \/ /\ ~Taken(call[d].row.kind, call[d].row.corr)
          /\ audit' = audit \cup {call[d].row}
          /\ call' = [call EXCEPT ![d].pc = "rejected"]
       \/ /\ \E a \in audit : Coalesced(a, call[d].row)
          /\ call' = [call EXCEPT ![d].pc = "rejected"]
          /\ UNCHANGED audit
       \/ /\ Taken(call[d].row.kind, call[d].row.corr)
          /\ ~\E a \in audit : Coalesced(a, call[d].row)
          /\ call' = [call EXCEPT ![d] = [pc |-> "failed"]]
          /\ UNCHANGED audit
    /\ UNCHANGED <<clock, history, redis>>

(* The row is committed, and the connection drops before the answer comes.     *)
answer_lost(d) ==
    /\ At(d, "reject")
    /\ ~Taken(call[d].row.kind, call[d].row.corr)
    /\ audit' = audit \cup {call[d].row}
    /\ call' = [call EXCEPT ![d].pc = "lost"]
    /\ UNCHANGED <<clock, history, redis>>

(* Postgres fails the lookup or the audit write: the exception leaves the call. *)
database_fails(d) ==
    /\ call[d].pc \in {"query", "reject"}
    /\ call' = [call EXCEPT ![d] = [pc |-> "failed"]]
    /\ UNCHANGED <<clock, history, audit, redis>>
-----------------------------------------------------------------------------
Tick ==
    /\ clock < MaxClock
    /\ \A d \in Calls : call[d].pc \in Running => clock < call[d].start + Window
    /\ clock' = clock + 1
    /\ redis' = Kept(clock + 1)
    /\ UNCHANGED <<history, audit, call>>

CallStep(d) ==
    \/ redis_hit(d) \/ redis_miss(d) \/ query(d) \/ redis_set(d)
    \/ resume(d) \/ write_rejection(d) \/ answer_lost(d) \/ database_fails(d)

Next ==
    \/ Tick
    \/ \E v \in Vehicles : forget(v)
    \/ \E v \in Vehicles, t \in Tenants : assign(v, t)
    \/ \E d \in Calls :
        \/ \E q \in Requests, s \in Scopes, c \in CorrIds : begin(d, q[1], q[2], s, c)
        \/ CallStep(d)

Spec == Init /\ [][Next]_vars
-----------------------------------------------------------------------------
(* The n-th owner of v was still the owner less than `age` before now.         *)
OwnerWithin(v, n, age) == n < Version(v) => history[v][n + 1].at + age > clock

(* FR-021: a policy goes to the collector only for vehicles that each belonged *)
(* to its tenant at some time in the last TTL and two calls' duration, whatever *)
(* Redis loses and however reassignments, write-backs and the checks of the    *)
(* other vehicles overtake each other.                                         *)
DeliveredInScope ==
    [][\A d \in Calls : ~At(d, "deployed") /\ At(d, "deployed")' =>
        \A i \in 1..Len(call[d].scope) :
            \E n \in 1..Version(call[d].scope[i]) :
                /\ history[call[d].scope[i]][n].tenant = call[d].tenant
                /\ OwnerWithin(call[d].scope[i], n, Ttl + 2 * Window)]_vars

(* The other side: "a cache hit keeps serving the pre-transition owner for up  *)
(* to one TTL window and the deployer denies legitimate deployments", and no   *)
(* longer: a vehicle a call is rejected for was not its tenant's at some time  *)
(* in the last TTL and one call's duration.                                    *)
RejectedForCause ==
    [][\A d \in Calls : ~At(d, "reject") /\ At(d, "reject")' =>
        \E n \in 0..Version(Vehicle(d)) :
            /\ OwnerAt(Vehicle(d), n) # call[d].tenant
            /\ OwnerWithin(Vehicle(d), n, Ttl + Window)]_vars

(* Calls whose own row may have been committed.                                *)
Wrote(d) == call[d].pc \in {"rejected", "lost"}

(* FR-023, as far as audit.py:113 lets it hold: a call that raised the         *)
(* mismatch has a row of its own, with its policy, vehicle and owner, unless   *)
(* another deployment of the same tenant met a mismatch under the same         *)
(* correlation id, and that one's row is there.  A row of another tenant, or   *)
(* one of no mismatch, never stands in.                                        *)
RejectionsAudited ==
    \A d \in Calls : At(d, "rejected") =>
        \/ call[d].row \in audit
        \/ \E e \in Calls \ {d} : /\ Wrote(e) /\ call[e].row \in audit
                                  /\ Coalesced(call[e].row, call[d].row)

(* ADR-0009: the ownership history and the vehicle_assignment_change rows of   *)
(* the audit log tell the same story, entry for entry.                         *)
HistoryAudited ==
    {a \in audit : a.kind = "vehicle_assignment_change"} =
        UNION {{[kind |-> "vehicle_assignment_change", tenant |-> history[v][n].tenant,
                 corr |-> <<v, n>>] : n \in 1..Version(v)} : v \in Vehicles}
=============================================================================
