------------------------------ MODULE Erasure ------------------------------
(* Right to erasure for one tenant: POST /erasure-requests, the background job *)
(* that goes through registry, telemetry and audit log, and the generation     *)
(* sessions that keep writing into these stores meanwhile.                     *)
EXTENDS Naturals, Sequences

CONSTANTS
    Vehicles,
    Policies,       \* sessions; each generates one policy, from a finding of its own
    ScopeOf,        \* the vehicle scope of each policy
    FindingOf,      \* the finding_id each policy was generated from
    Caller,         \* the principal that publishes findings and asks for erasures
    Assigner,       \* the operator that assigned the tenant its vehicles
    Requests,       \* erasure requests
    Payloads,       \* what each may ask: kind (vehicle, finding, principal), id and mode
    MaxFaults,      \* bound: database failures and crashes
    None

ASSUME ErasureAssumption ==
    /\ ScopeOf \in [Policies -> (SUBSET Vehicles) \ {{}}]
    /\ \A r \in Requests : \A s \in Payloads[r] :
        /\ s.kind \in {"vehicle", "finding", "principal"}
        /\ s.mode \in {"erased", "redacted"}
        /\ s.kind = "vehicle" => s.id \in Vehicles
        /\ s.id # None
    /\ None \notin [payload : UNION {Payloads[r] : r \in Requests},
                    status : {"requested", "completed", "partial"}]
    /\ None \notin {"completed", "partial"}
    /\ MaxFaults \in Nat

VARIABLES
    next,           \* per session, its next write
    scope,          \* collection_policies.vehicle_scope ({}: no row yet)
    telemetry,      \* vehicles with observations collected for each policy
    audit,          \* audit_events: whose row, and of what kind
    redacted_subject,  \* what each audit row says under that name (None: nothing)
    requests,       \* erasure_requests: a row or None
    job,            \* per request, where submit and _dispatch are
    before,         \* history: what the stores held of the subject when the job came by
    faults

stores == <<scope, telemetry, audit, redacted_subject>>
vars == <<next, stores, requests, job, before, faults>>

Stores == {"registry", "telemetry", "audit"}
StoreStatus == {"pending", "erased", "redacted", "failed"}
JobPc == {"new", "audit_write", "registry", "telemetry", "audit", "report", "done", "dead"}

(* The writes of a session, each a transaction of its own.                     *)
Writes == <<"accepted", "generated", "policy", "validated", "deployed", "telemetry">>
Over == Len(Writes) + 1
SessionKinds == {"accepted", "generated", "validated", "deployed"}
Rows == (Policies \X SessionKinds) \cup (Requests \X {"erasure"})
        \cup (Vehicles \X {"vehicle_assignment_change"})
Ids == UNION {{s.id : s \in Payloads[r]} : r \in Requests}

(* Every variable has its type.                                                *)
ErasureTypeOK ==
    /\ next \in [Policies -> 1..Over]
    /\ scope \in [Policies -> SUBSET Vehicles]
    /\ telemetry \in [Policies -> SUBSET Vehicles]
    /\ audit \subseteq Rows
    /\ redacted_subject \in [Rows -> Ids \cup {None}]
    /\ requests \in [Requests ->
           {None} \cup [payload : UNION {Payloads[r] : r \in Requests},
                        status : {"requested", "completed", "partial"}]]
    /\ job \in [Requests -> [pc : JobPc, per_store : [Stores -> StoreStatus]]]
    /\ before \in [Requests -> [registry : SUBSET Policies, telemetry : SUBSET Policies,
                                audit : SUBSET Rows]]
    /\ faults \in 0..MaxFaults

Init ==
    /\ next = [p \in Policies |-> 1]
    /\ scope = [p \in Policies |-> {}]
    /\ telemetry = [p \in Policies |-> {}]
    /\ audit = Vehicles \X {"vehicle_assignment_change"}
    /\ redacted_subject = [x \in Rows |-> None]
    /\ requests = [r \in Requests |-> None]
    /\ job = [r \in Requests |-> [pc |-> "new", per_store |-> [s \in Stores |-> "pending"]]]
    /\ before = [r \in Requests |-> [registry |-> {}, telemetry |-> {}, audit |-> {}]]
    /\ faults = 0
-----------------------------------------------------------------------------
(* A session of generation.  What it writes comes from the policy it holds in  *)
(* memory: an erasure of the stores in between does not reach it.  It may stop *)
(* at any point (a rejected policy, a failure).  Its deployment row goes to a  *)
(* table no erasure touches, and is left out.                                  *)
session(p) ==
    /\ next[p] # Over
    /\ next' = [next EXCEPT ![p] = @ + 1]
    /\ LET w == Writes[next[p]] IN
        /\ scope' = IF w = "policy" THEN [scope EXCEPT ![p] = ScopeOf[p]] ELSE scope
        /\ telemetry' = IF w = "telemetry" THEN [telemetry EXCEPT ![p] = ScopeOf[p]]
                        ELSE telemetry
        /\ audit' = IF w \in SessionKinds THEN audit \cup {<<p, w>>} ELSE audit
    /\ UNCHANGED <<redacted_subject, requests, job, before, faults>>
-----------------------------------------------------------------------------
(* ErasureDispatcher                                                           *)

At(r, pc) == job[r].pc = pc
Goto(r, pc) == job' = [job EXCEPT ![r].pc = pc]
Subject(r) == requests[r].payload
IsVehicle(r) == Subject(r).kind = "vehicle"

(* submit, first transaction: the request is recorded.                         *)
submit(r, payload) ==
    /\ At(r, "new")
    /\ requests' = [requests EXCEPT ![r] = [payload |-> payload, status |-> "requested"]]
    /\ Goto(r, "audit_write")
    /\ UNCHANGED <<next, stores, before, faults>>

(* Mutant: the job is started without the audit row.                           *)
audit_write_skipped(r) ==
    /\ At(r, "audit_write")
    /\ Goto(r, "registry")
    /\ UNCHANGED <<next, stores, requests, before, faults>>

(* submit, second transaction: the audit row, under the fresh request id; then *)
(* the job is started and 202 returned.                                        *)
audit_write(r) ==
    /\ At(r, "audit_write")
    /\ audit' = audit \cup {<<r, "erasure">>}
    /\ Goto(r, "registry")
    /\ UNCHANGED <<next, scope, telemetry, redacted_subject, requests, before, faults>>

(* One store has been dealt with: the outcome is noted and the job goes on.    *)
After == [registry |-> "telemetry", telemetry |-> "audit", audit |-> "report"]
Report(r, store, status) ==
    job' = [job EXCEPT ![r].pc = After[store], ![r].per_store[store] = status]

(* The rows of a store, a function of the policies, that hold vehicle v.       *)
Holding(table, v) == {p \in Policies : v \in table[p]}
Without(table, v) == [p \in Policies |-> table[p] \ {v}]
RegistryStatus(r) == IF Subject(r).mode = "erased" THEN "erased" ELSE "redacted"

(* _erase_registry: one UPDATE takes the vehicle out of the scope of every     *)
(* policy.  jsonb_agg over no element is NULL, which the column does not       *)
(* admit, so a policy for this vehicle alone fails the statement for all.      *)
Admitted(v) == \A p \in Holding(scope, v) : scope[p] # {v}

(* Mutant: the exception is swallowed below the try of _dispatch.              *)
erase_registry_swallowed(r) ==
    /\ At(r, "registry")
    /\ scope' = IF IsVehicle(r) /\ Admitted(Subject(r).id)
                THEN Without(scope, Subject(r).id) ELSE scope
    /\ Report(r, "registry", RegistryStatus(r))
    /\ before' = IF IsVehicle(r)
                 THEN [before EXCEPT ![r].registry = Holding(scope, Subject(r).id)] ELSE before
    /\ UNCHANGED <<next, telemetry, audit, redacted_subject, requests, faults>>

erase_registry(r) ==
    /\ At(r, "registry")
    /\ scope' = IF IsVehicle(r) /\ Admitted(Subject(r).id)
                THEN Without(scope, Subject(r).id) ELSE scope
    /\ Report(r, "registry",
              IF IsVehicle(r) => Admitted(Subject(r).id) THEN RegistryStatus(r) ELSE "failed")
    /\ before' = IF IsVehicle(r)
                 THEN [before EXCEPT ![r].registry = Holding(scope, Subject(r).id)] ELSE before
    /\ UNCHANGED <<next, telemetry, audit, redacted_subject, requests, faults>>

(* Mutant: the DELETE is run for every kind of subject.                        *)
erase_telemetry_any_kind(r) ==
    /\ At(r, "telemetry")
    /\ telemetry' = Without(telemetry, Subject(r).id)
    /\ Report(r, "telemetry", "erased")
    /\ UNCHANGED <<next, scope, audit, redacted_subject, requests, before, faults>>

(* _erase_telemetry: the observations of the vehicle are deleted.              *)
erase_telemetry(r) ==
    /\ At(r, "telemetry")
    /\ telemetry' = IF IsVehicle(r) THEN Without(telemetry, Subject(r).id) ELSE telemetry
    /\ Report(r, "telemetry", "erased")
    /\ before' = IF IsVehicle(r)
                 THEN [before EXCEPT ![r].telemetry = Holding(telemetry, Subject(r).id)]
                 ELSE before
    /\ UNCHANGED <<next, scope, audit, redacted_subject, requests, faults>>

(* The finding_id and the principal_subject of an audit row.  The rows a       *)
(* session writes have its own id for principal.  The vehicle of a             *)
(* vehicle_assignment_change row is under a third name, which _redact_audit    *)
(* does not look at.                                                           *)
Names(x) ==
    CASE x[2] = "accepted" -> {FindingOf[x[1]], Caller}
      [] x[2] = "erasure" -> {Caller}
      [] x[2] = "vehicle_assignment_change" -> {Assigner}
      [] OTHER -> {FindingOf[x[1]], x[1]}

(* The rows _redact_audit selects: either field equals the identifier of the   *)
(* subject, whatever kind the subject is of.                                   *)
About(id) == {x \in audit : id \in Names(x)}

(* _redact_audit: redacted_subject is set, over an earlier one, in the rows it *)
(* selects.  Neither field it selects them by is changed.                      *)

redact_audit(r) ==
    /\ At(r, "audit")
    /\ redacted_subject' = [x \in Rows |->
           IF x \in About(Subject(r).id) THEN Subject(r).id ELSE redacted_subject[x]]
    /\ Report(r, "audit", "redacted")
    /\ before' = [before EXCEPT ![r].audit = About(Subject(r).id)]
    /\ UNCHANGED <<next, scope, telemetry, audit, requests, faults>>

(* A store fails and rolls back: the exception is caught, the next store has   *)
(* its turn.                                                                   *)
store_fails(r) ==
    /\ job[r].pc \in Stores
    /\ faults < MaxFaults
    /\ faults' = faults + 1
    /\ Report(r, job[r].pc, "failed")
    /\ UNCHANGED <<next, stores, requests, before>>

(* Mutant: the request is updated only when every store succeeded.             *)
report_completed_only(r) ==
    /\ At(r, "report")
    /\ requests' = IF \A s \in Stores : job[r].per_store[s] # "failed"
                   THEN [requests EXCEPT ![r].status = "completed"] ELSE requests
    /\ Goto(r, "done")
    /\ UNCHANGED <<next, stores, before, faults>>

(* The status of the request, from those of the stores.                        *)
report(r) ==
    /\ At(r, "report")
    /\ requests' = [requests EXCEPT ![r].status =
           IF \A s \in Stores : job[r].per_store[s] \in {"erased", "redacted"}
           THEN "completed" ELSE "partial"]
    /\ Goto(r, "done")
    /\ UNCHANGED <<next, stores, before, faults>>

(* The database fails a step outside the three try blocks: the audit row of    *)
(* submit (500, no job) or the final UPDATE.  Nothing takes the request up.    *)
job_dies(r) ==
    /\ job[r].pc \in {"audit_write", "report"}
    /\ faults < MaxFaults
    /\ faults' = faults + 1
    /\ Goto(r, "dead")
    /\ UNCHANGED <<next, stores, requests, before>>

(* The process ends, and with it the sessions and the jobs under way.          *)
crash ==
    /\ faults < MaxFaults
    /\ faults' = faults + 1
    /\ next' = [p \in Policies |-> IF next[p] = 1 THEN 1 ELSE Over]
    /\ job' = [r \in Requests |->
           IF job[r].pc \in {"new", "done"} THEN job[r] ELSE [job[r] EXCEPT !.pc = "dead"]]
    /\ UNCHANGED <<stores, requests, before>>
-----------------------------------------------------------------------------
JobStep(r) ==
    \/ audit_write(r) \/ erase_registry(r) \/ erase_telemetry(r) \/ redact_audit(r)
    \/ store_fails(r) \/ report(r) \/ job_dies(r)

Next ==
    \/ \E p \in Policies : session(p)
    \/ \E r \in Requests :
        \/ \E payload \in Payloads[r] : submit(r, payload)
        \/ JobStep(r)
    \/ crash

(* The event loop runs a job that is not waiting; sessions and submissions are *)
(* the environment's.                                                          *)
Spec == Init /\ [][Next]_vars /\ \A r \in Requests : WF_vars(JobStep(r))
-----------------------------------------------------------------------------
Status(r) == IF requests[r] = None THEN None ELSE requests[r].status

(* FR-020a, what "completed" certifies (dispatcher.py:89).  A vehicle is gone  *)
(* from every scope and all telemetry that held it when the job came by,       *)
(* whatever sessions, other requests and failures came in between; and for a   *)
(* subject of any kind, every audit row that had the identifier as finding or  *)
(* principal carries a redacted_subject.  That is all: the identifiers stay in *)
(* the row, and a finding or principal stays in the registry.                  *)
CompletedCertifies ==
    \A r \in Requests :
        Status(r) = "completed" =>
            /\ IsVehicle(r) =>
                /\ \A p \in before[r].registry : Subject(r).id \notin scope[p]
                /\ \A p \in before[r].telemetry : Subject(r).id \notin telemetry[p]
            /\ \A x \in before[r].audit : redacted_subject[x] # None

(* The stores are immutable but for erasure (migrations 005, 008): a vehicle   *)
(* leaves a scope or the telemetry only at the hand of a job at that store     *)
(* whose subject is that vehicle, and no finding or principal of the same name. *)
OnlySubjectErased ==
    [][/\ \A p \in Policies : \A v \in (scope[p] \ scope'[p]) :
            \E r \in Requests : At(r, "registry") /\ IsVehicle(r) /\ Subject(r).id = v
       /\ \A p \in Policies : \A v \in (telemetry[p] \ telemetry'[p]) :
            \E r \in Requests : At(r, "telemetry") /\ IsVehicle(r) /\ Subject(r).id = v]_vars

(* Migration 005: a policy in the registry has a vehicle in its scope, however *)
(* many erasures go over it.                                                   *)
PoliciesKeepScope ==
    [][\A p \in Policies : scope[p] # {} => scope'[p] # {}]_vars

(* FR-020a, "MUST itself produce an audit record": once a request has touched  *)
(* a store, or has a final status, its erasure row is in the audit log.        *)
ErasureAudited ==
    \A r \in Requests :
        \/ \E s \in Stores : job[r].per_store[s] # "pending"
        \/ Status(r) \in {"completed", "partial"}
        => <<r, "erasure">> \in audit

(* A request that was answered 202 gets a final status, completed or partial,  *)
(* unless a crash or a failure of the final update intervenes.                 *)
EveryRequestReported ==
    \A r \in Requests :
        At(r, "registry") ~> (Status(r) \in {"completed", "partial"} \/ At(r, "dead"))

(* FR-020a, "Each erasure request MUST complete within a documented bound",    *)
(* for a request that was answered 202.                                        *)
EveryRequestCompletes ==
    \A r \in Requests : At(r, "registry") ~> (Status(r) = "completed")
=============================================================================
