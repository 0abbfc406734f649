----------------------------- MODULE PolicyLoop -----------------------------
(***************************************************************************)
(* From POST /api/v1/findings to a registered deployment.  Each request r  *)
(* is an asyncio handler (ingest/http.py) which, on the first sight of its *)
(* finding, leaves behind a background session (graph/runner.py) of the    *)
(* same name: check, persist, audit, enqueue; then generate / validate     *)
(* with bounded retry, deploy, and the chain of registry and audit writes. *)
(* Handlers and sessions interleave at every await; pc[r] says which await *)
(* request r is at.  Nothing of a handler or session survives a crash of   *)
(* the process: only the tables and the downstream collector do.           *)
(***************************************************************************)
EXTENDS Registry

CONSTANTS
    RetryBudget,    \* PolicyGenerationSession.retry_budget
    HeaderIds,      \* the ids clients send in x-correlation-id
    NoRequest

Request == [tenant : Tenants, finding : FindingIds, corr : CorrIds]

ASSUME PolicyLoopAssumption ==
    /\ RetryBudget \in Nat
    /\ HeaderIds \subseteq CorrIds
    /\ NoRequest \notin Request

VARIABLES
    pc,         \* where request r's handler or session is
    req,        \* the body and header of request r
    answer,     \* the HTTP answer of request r
    retry,      \* session.retry_count
    final,      \* how graph.run ended for session r
    collector   \* sessions whose policy the downstream collector accepted

loopVars == <<pc, req, answer, retry, final, collector>>
vars == <<tables, loopVars>>

HandlerAt == {"check", "persist", "accept"}
GraphAt == {"generate", "deploy"}
PersistAt == {"generated", "policy", "validated", "deployment", "deployed", "telemetry"}
SessionAt == GraphAt \cup PersistAt \cup {"dead_letter", "error"}
Locations == {"idle", "done", "lost"} \cup HandlerAt \cup SessionAt

LoopTypeOK ==
    /\ TablesTypeOK
    /\ pc \in [Sessions -> Locations]
    /\ req \in [Sessions -> Request \cup {NoRequest}]
    /\ answer \in [Sessions -> {"none", "accepted", "replay", "refused", "error"}]
    /\ retry \in [Sessions -> 0..RetryBudget]
    /\ final \in [Sessions -> {"running", "completed", "malformed", "invalid", "undeployed"}]
    /\ collector \subseteq Sessions
    /\ \A r \in Sessions : pc[r] \in HandlerAt \cup SessionAt => req[r] \in Request

LoopInit ==
    /\ TablesInit
    /\ pc = [r \in Sessions |-> "idle"]
    /\ req = [r \in Sessions |-> NoRequest]
    /\ answer = [r \in Sessions |-> "none"]
    /\ retry = [r \in Sessions |-> 0]
    /\ final = [r \in Sessions |-> "running"]
    /\ collector = {}

(* The composite key of a request or row. *)
KeyOf(row) == [tenant |-> row.tenant, finding |-> row.finding]

Goto(r, l) == pc' = [pc EXCEPT ![r] = l]
Answer(r, a) == answer' = [answer EXCEPT ![r] = a]

(* The row AuditEventWriter.write builds for request r. *)
RowOf(r, kind, code) ==
    [corr |-> req[r].corr, kind |-> kind, tenant |-> req[r].tenant,
     finding |-> req[r].finding, by |-> r, code |-> code]

(* One call of AuditEventWriter.write by request r: on to ok, or to err when *)
(* the database fails or the write raises.                                   *)
Write(r, kind, code, ok, err) ==
    \E o \in DbOutcome :
        /\ audit' = IF o = "failed" THEN audit ELSE AfterWrite(RowOf(r, kind, code))
        /\ Goto(r, IF o = "ok" /\ ~WriteRaises(RowOf(r, kind, code)) THEN ok ELSE err)

-----------------------------------------------------------------------------
(* The handler.                                                            *)

Posted == {s \in Sessions : req[s] # NoRequest}

FreshIds == {c \in CorrIds \ HeaderIds : \A s \in Posted : req[s].corr # c}

(* post_finding up to its first await: body tenant, schema version and body  *)
(* model are checked; a well-formed body goes on to the idempotency check.   *)
(* The correlation id is the client's header, or else a fresh uuid.          *)
post_finding(r) ==
    /\ pc[r] = "idle"
    /\ \/ /\ \E t \in Tenants, f \in FindingIds, c \in HeaderIds \cup FreshIds :
                req' = [req EXCEPT ![r] = [tenant |-> t, finding |-> f, corr |-> c]]
          /\ Goto(r, "check")
          /\ UNCHANGED answer
       \/ /\ Goto(r, "done")
          /\ Answer(r, "refused")
          /\ UNCHANGED req
    /\ UNCHANGED <<tables, retry, final, collector>>

(* An exception in the handler is answered 500. *)
HandlerFails(r) == Goto(r, "done") /\ Answer(r, "error")

(* _PgBackend.check_or_record: a SELECT that records nothing.              *)
check_or_record(r) ==
    /\ pc[r] = "check"
    /\ \/ /\ KeyOf(req[r]) \notin findings
          /\ Goto(r, "persist")
          /\ UNCHANGED answer
       \/ /\ KeyOf(req[r]) \in findings
          /\ Goto(r, "done")
          /\ Answer(r, "replay")
       \/ /\ "db" \in Faults
          /\ HandlerFails(r)
    /\ UNCHANGED <<tables, req, retry, final, collector>>

(* _persist_finding, first transaction: INSERT ... ON CONFLICT DO NOTHING.  *)
(* The handler goes on whether or not the row was new.                      *)
persist_finding(r) ==
    /\ pc[r] = "persist"
    /\ \E o \in DbOutcome :
        /\ findings' = IF o = "failed" THEN findings
                       ELSE findings \cup {KeyOf(req[r])}
        /\ IF o = "ok" THEN Goto(r, "accept") /\ UNCHANGED answer ELSE HandlerFails(r)
    /\ UNCHANGED <<policies, deployments, audit, telemetry, req, retry, final, collector>>

(* _persist_finding, second transaction: the 'accepted' audit row; then     *)
(* _enqueue, which only creates the background task, and the 202.           *)
accept_and_enqueue(r) ==
    /\ pc[r] = "accept"
    /\ Write(r, "accepted", "none", "generate", "done")
    /\ Answer(r, IF pc'[r] = "generate" THEN "accepted" ELSE "error")
    /\ UNCHANGED <<findings, policies, deployments, telemetry, req, retry, final, collector>>

-----------------------------------------------------------------------------
(* The session: CollectMindGraph.run, in an executor thread.               *)

(* PolicyGenerator.generate: the SLM returns a policy, possibly one that     *)
(* does not fit the schema, or the call raises.                              *)
SlmAnswers == {"policy", "malformed"} \cup IF "slm" \in Faults THEN {"raises"} ELSE {}

(* PolicyValidatorNode.validate: a malformed policy fails; on the content of *)
(* a well-formed one the validator may decide either way.                    *)
validate(policy) == IF policy = "malformed" THEN {FALSE} ELSE BOOLEAN

retry_budget_exhausted(r) == retry[r] >= RetryBudget

(* Mutant: an exhausted budget starts over instead of dead-lettering.        *)
route_after_validation_restarts(r, policy, valid) ==
    /\ IF valid THEN Goto(r, "deploy") /\ UNCHANGED retry
       ELSE /\ retry' = [retry EXCEPT ![r] = IF retry_budget_exhausted(r) THEN 0 ELSE @ + 1]
            /\ UNCHANGED pc
    /\ UNCHANGED final

(* Orchestrator.route_after_validation: deploy, dead-letter or retry.        *)
route_after_validation(r, policy, valid) ==
    IF valid
    THEN Goto(r, "deploy") /\ UNCHANGED <<retry, final>>
    ELSE IF retry_budget_exhausted(r)
    THEN /\ final' = [final EXCEPT ![r] = IF policy = "malformed" THEN policy ELSE "invalid"]
         /\ Goto(r, "generated")
         /\ UNCHANGED retry
    ELSE /\ retry' = [retry EXCEPT ![r] = @ + 1]
         /\ UNCHANGED <<pc, final>>

(* One round of CollectMindGraph.run's loop. *)
generate(r) ==
    /\ pc[r] = "generate"
    /\ \E policy \in SlmAnswers :
        IF policy = "raises"
        THEN Goto(r, "error") /\ UNCHANGED <<retry, final>>
        ELSE \E valid \in validate(policy) : route_after_validation(r, policy, valid)
    /\ UNCHANGED <<tables, req, answer, collector>>

(* SimulatorCollectorAIClient.deploy: accepted, or rejected at the           *)
(* configured failure rate.                                                  *)
CollectorStatus == {"accepted"} \cup IF "collector" \in Faults THEN {"rejected"} ELSE {}

(* PolicyDeployer.deploy and route_after_deploy: only an accepted deployment *)
(* completes the run.                                                        *)
deploy(r) ==
    /\ pc[r] = "deploy"
    /\ \E status \in CollectorStatus :
        /\ collector' = IF status = "accepted" THEN collector \cup {r} ELSE collector
        /\ final' = [final EXCEPT ![r] = IF status = "accepted" THEN "completed" ELSE "undeployed"]
    /\ Goto(r, "generated")
    /\ UNCHANGED <<tables, req, answer, retry>>

-----------------------------------------------------------------------------
(* The session: GraphRunner._run after graph.run.  Any exception goes to    *)
(* run_async's handler, location "error".                                   *)

(* The 'generated' audit row, then the dead-letter test of final_state.  A  *)
(* policy that failed its schema may lack policy_id or version, and then    *)
(* building the row raises.                                                 *)
audit_generated(r) ==
    /\ pc[r] = "generated"
    /\ \/ Write(r, "generated", "none",
                IF final[r] = "completed" THEN "policy" ELSE "dead_letter", "error")
       \/ /\ final[r] = "malformed"
          /\ Goto(r, "error")
          /\ UNCHANGED audit
    /\ UNCHANGED <<findings, policies, deployments, telemetry, req, answer, retry, final, collector>>

(* The dead-letter branch: one 'rejected' row, the code always              *)
(* VALIDATION_FAILED, and the session returns.                              *)
audit_dead_letter(r) ==
    /\ pc[r] = "dead_letter"
    /\ Write(r, "rejected", "VALIDATION_FAILED", "done", "error")
    /\ UNCHANGED <<findings, policies, deployments, telemetry, req, answer, retry, final, collector>>

(* Mutant: ON CONFLICT DO NOTHING, the session going on as if it had won.   *)
insert_policy_do_nothing(r) ==
    /\ pc[r] = "policy"
    /\ policies' = IF PolicyKeyTaken(req[r].tenant, req[r].finding) THEN policies
                   ELSE policies \cup {[tenant |-> req[r].tenant, finding |-> req[r].finding,
                                        session |-> r]}
    /\ Goto(r, "validated")
    /\ UNCHANGED <<findings, deployments, audit, telemetry, req, answer, retry, final, collector>>

(* PolicyRepository.insert: a plain INSERT, so a taken key raises.          *)
insert_policy(r) ==
    /\ pc[r] = "policy"
    /\ \E o \in DbOutcome :
        LET taken == PolicyKeyTaken(req[r].tenant, req[r].finding) IN
        /\ policies' = IF o = "failed" \/ taken THEN policies
                       ELSE policies \cup {[tenant |-> req[r].tenant, finding |-> req[r].finding,
                                            session |-> r]}
        /\ Goto(r, IF o = "ok" /\ ~taken THEN "validated" ELSE "error")
    /\ UNCHANGED <<findings, deployments, audit, telemetry, req, answer, retry, final, collector>>

audit_validated(r) ==
    /\ pc[r] = "validated"
    /\ Write(r, "validated", "none", "deployment", "error")
    /\ UNCHANGED <<findings, policies, deployments, telemetry, req, answer, retry, final, collector>>

(* DeploymentRepository.insert.  deployment_id is a fresh ULID; the policy  *)
(* foreign key (migration 006) would raise if the policy row were missing.  *)
insert_deployment(r) ==
    /\ pc[r] = "deployment"
    /\ \E o \in DbOutcome :
        LET linked == PolicyKeyTaken(req[r].tenant, req[r].finding) IN
        /\ deployments' = IF o = "failed" \/ ~linked THEN deployments
                          ELSE deployments \cup {[id |-> r, tenant |-> req[r].tenant,
                                 finding |-> req[r].finding, status |-> "accepted"]}
        /\ Goto(r, IF o = "ok" /\ linked THEN "deployed" ELSE "error")
    /\ UNCHANGED <<findings, policies, audit, telemetry, req, answer, retry, final, collector>>

audit_deployed(r) ==
    /\ pc[r] = "deployed"
    /\ Write(r, "deployed", "none", "telemetry", "error")
    /\ UNCHANGED <<findings, policies, deployments, telemetry, req, answer, retry, final, collector>>

(* Mutant: an unknown directive raises.                                     *)
simulate_raises(r) ==
    /\ pc[r] = "telemetry"
    /\ Goto(r, "done") \/ Goto(r, "error")
    /\ UNCHANGED <<tables, req, answer, retry, final, collector>>

(* TelemetryGenerator.simulate: one transaction; the directive header       *)
(* decides whether the values lie above or below the policy's threshold,    *)
(* and "starve" writes nothing.                                             *)
simulate(r) ==
    /\ pc[r] = "telemetry"
    /\ \/ /\ Goto(r, "done")
          /\ UNCHANGED telemetry
       \/ \E level \in Levels, o \in DbOutcome :
          /\ telemetry' = IF o = "failed" THEN telemetry
                          ELSE telemetry \cup {[tenant |-> req[r].tenant,
                                 finding |-> req[r].finding, level |-> level]}
          /\ Goto(r, IF o = "ok" THEN "done" ELSE "error")
    /\ UNCHANGED <<findings, policies, deployments, audit, req, answer, retry, final, collector>>

(* Mutant: the failure of a session is taken for its end.                   *)
audit_error_swallowed(r) ==
    /\ pc[r] = "error"
    /\ Goto(r, "done")
    /\ UNCHANGED <<tables, req, answer, retry, final, collector>>

(* run_async's exception handler.  If its own write fails, the background   *)
(* task ends with an exception nobody retrieves.                            *)
audit_error(r) ==
    /\ pc[r] = "error"
    /\ Write(r, "rejected", "GRAPH_RUNNER_ERROR", "done", "lost")
    /\ UNCHANGED <<findings, policies, deployments, telemetry, req, answer, retry, final, collector>>

-----------------------------------------------------------------------------
(* The process dies and restarts: lifespan rebuilds the application state,  *)
(* and no handler or session is resumed.                                    *)
LoseTasks ==
    /\ pc' = [r \in Sessions |-> IF pc[r] \in HandlerAt \cup SessionAt THEN "lost" ELSE pc[r]]
    /\ UNCHANGED <<req, answer, retry, final, collector>>

Crash ==
    /\ "crash" \in Faults
    /\ \E r \in Sessions : pc[r] \in HandlerAt \cup SessionAt
    /\ LoseTasks
    /\ UNCHANGED tables

HandlerStep(r) == check_or_record(r) \/ persist_finding(r) \/ accept_and_enqueue(r)

SessionStep(r) ==
    \/ generate(r) \/ deploy(r) \/ audit_generated(r) \/ audit_dead_letter(r)
    \/ insert_policy(r) \/ audit_validated(r) \/ insert_deployment(r)
    \/ audit_deployed(r) \/ simulate(r) \/ audit_error(r)

LoopStep == \E r \in Sessions : post_finding(r) \/ HandlerStep(r) \/ SessionStep(r)

(* Every request has been answered or lost: nothing is left to do. *)
Quiescent ==
    /\ \A r \in Sessions : pc[r] \in {"done", "lost"}
    /\ UNCHANGED vars

Next == LoopStep \/ Crash \/ Quiescent

Spec == LoopInit /\ [][Next]_vars

(* asyncio runs every ready coroutine and the executor every submitted      *)
(* call, so a handler or session that can step eventually does.  Clients    *)
(* owe nothing: post_finding and Crash are not fair.                        *)
LoopFairness == \A r \in Sessions : WF_vars(HandlerStep(r) \/ SessionStep(r))

FairSpec == Spec /\ LoopFairness
-----------------------------------------------------------------------------
(* Properties.                                                              *)

(* FR-012, under every interleaving, fault and crash: however many requests  *)
(* pass the idempotency check together (it records nothing), a finding gets  *)
(* one policy row and at most one deployment row, and both come from the     *)
(* same session.                                                             *)
OneRecordPerFinding ==
    /\ \A p, q \in policies :
         p.tenant = q.tenant /\ p.finding = q.finding => p = q
    /\ \A d \in deployments : \A p \in policies :
         p.tenant = d.tenant /\ p.finding = d.finding => p.session = d.id

(* Lineage (FR-007, FR-008): a registered deployment was accepted by the     *)
(* collector, and its policy row and finding row exist, although the four    *)
(* were made by separate calls with a possible failure between any two.      *)
DeploymentLineage ==
    \A d \in deployments :
        /\ d.id \in collector
        /\ [tenant |-> d.tenant, finding |-> d.finding, session |-> d.id] \in policies
        /\ [tenant |-> d.tenant, finding |-> d.finding] \in findings

(* What makes the two properties above, and AuditChain below, inductive: at  *)
(* each location, what the session has already put on record.  A session     *)
(* past insert_policy holds its finding's key, one past the deploy has been  *)
(* accepted by the collector, and one past an audit write finds a row of     *)
(* that kind in its own trail, its own or one it coalesced with.             *)
Claimed(r) ==
    [tenant |-> req[r].tenant, finding |-> req[r].finding, session |-> r] \in policies

Trail(r, kind) ==
    \E a \in audit : a.corr = req[r].corr /\ a.kind = kind /\ a.tenant = req[r].tenant

Deployed(r) ==
    \E d \in deployments : d.id = r /\ d.tenant = req[r].tenant /\ d.finding = req[r].finding

ProgressAt(r) ==
    /\ pc[r] \in {"accept"} \cup SessionAt => KeyOf(req[r]) \in findings
    /\ pc[r] \in SessionAt => Trail(r, "accepted")
    /\ final[r] = "completed" => r \in collector
    /\ pc[r] \in PersistAt \ {"generated"} => r \in collector /\ Trail(r, "generated")
    /\ pc[r] \in {"validated", "deployment", "deployed", "telemetry"} => Claimed(r)
    /\ pc[r] \in {"deployment", "deployed", "telemetry"} => Trail(r, "validated")
    /\ pc[r] \in {"deployed", "telemetry"} => Deployed(r)

(* A request that has not come to insert_deployment has no deployment row.   *)
Undeployed ==
    {"idle"} \cup HandlerAt \cup GraphAt \cup {"generated", "policy", "validated", "deployment"}

FreshAt(r) == pc[r] \in Undeployed => \A d \in deployments : d.id # r

ProgressInv ==
    /\ \A r \in Sessions : ProgressAt(r) /\ FreshAt(r)
    /\ \A p \in policies : KeyOf(p) \in findings

AuditKinds(t, c) == {row.kind : row \in {a \in audit : a.tenant = t /\ a.corr = c}}

(* The audit chain (FR-013): a 'deployed' row never stands alone.  Its       *)
(* tenant's trail under the same correlation id holds the accepted,          *)
(* generated and validated rows, even though a write may coalesce with an    *)
(* earlier row of the same correlation id, and the row tells the truth: the  *)
(* session that wrote it has its deployment row, as the session of a         *)
(* 'validated' row has its policy row.                                       *)
AuditChain ==
    \A a \in audit :
        /\ a.kind = "deployed" =>
             /\ {"accepted", "generated", "validated"} \subseteq AuditKinds(a.tenant, a.corr)
             /\ \E d \in deployments : d.id = a.by /\ d.tenant = a.tenant /\ d.finding = a.finding
        /\ a.kind = "validated" =>
             [tenant |-> a.tenant, finding |-> a.finding, session |-> a.by] \in policies

(* UNIQUE (correlation_id, kind): the audit log never holds two rows of one  *)
(* kind for a correlation id, whatever the retries and collisions.           *)
AuditUnique ==
    \A a, b \in audit : a.corr = b.corr /\ a.kind = b.kind => a = b

(* FR-007: what is written to the audit log and to the policy table stays    *)
(* there unaltered: no step of the loop removes or rewrites a row.           *)
RecordsImmutable == [][audit \subseteq audit' /\ policies \subseteq policies']_vars

(* The registry follows the lifecycle of FindingLifecycle: the key of a row  *)
(* is its KeyOf, its owner the session that wrote it.                        *)
ClaimsIn(status) == {<<KeyOf(d), d.id>> : d \in {x \in deployments : x.status = status}}

Lifecycle == INSTANCE FindingLifecycle WITH
    Keys <- FindingRow,
    Owners <- Sessions,
    received <- findings,
    claimed <- {<<KeyOf(p), p.session>> : p \in policies},
    active <- ClaimsIn("accepted"),
    closed <- ClaimsIn("expired")

(* Refinement: handlers and sessions, whatever their interleaving and the    *)
(* faults between their transactions, take the registry through that         *)
(* lifecycle and no other.                                                   *)
FollowsLifecycle == Lifecycle!LifeSpec

(* The retry budget bounds the graph (Principle XII): a session that was     *)
(* enqueued comes to an end, whatever the SLM produces.                      *)
EverySessionEnds ==
    \A r \in Sessions : pc[r] \in SessionAt ~> pc[r] \in {"done", "lost"}

Resolved(t, f) ==
    \E a \in audit : a.tenant = t /\ a.finding = f /\ a.kind \in {"deployed", "rejected"}

(* No finding is lost (SC-005), as a client sees it: once a request is       *)
(* answered 202, as a first publication or as an idempotent replay, its      *)
(* finding is resolved on the record or somebody still works on it.          *)
AcceptedIsProcessed ==
    \A r \in Sessions : answer[r] \in {"accepted", "replay"} =>
        \/ Resolved(req[r].tenant, req[r].finding)
        \/ \E s \in Sessions : /\ pc[s] \in HandlerAt \cup SessionAt
                              /\ req[s].tenant = req[r].tenant /\ req[s].finding = req[r].finding

(* FR-008, "produce a deployment record", as far as it holds.  A finding     *)
(* that two sessions deploy, or a failed write, leaves the collector running *)
(* a policy with no deployment row (the compensating call does not exist);   *)
(* a session that returned from that has said so in a 'rejected' row of its  *)
(* trail, and only one whose last write failed, or that died, has not.       *)
UnrecordedIsRejected ==
    \A r \in collector :
        pc[r] = "done" /\ ~(\E d \in deployments : d.id = r) => Trail(r, "rejected")
=============================================================================
