------------------------------ MODULE Registry ------------------------------
(***************************************************************************)
(* The Postgres registry that every part of CollectMind shares: the tables *)
(* diagnostic_findings, collection_policies, deployment_targets,           *)
(* audit_events and telemetry_observations, with the constraints the       *)
(* migrations put on them, and the effect of one repository call.  Every   *)
(* repository call is one transaction (registry/db.py, Database.acquire),  *)
(* so it is one step of whoever makes it.                                  *)
(*                                                                         *)
(* A policy is identified by the finding it was generated for: the prompt  *)
(* pins policy_id to "policy-<finding_id>" and version to "1.0.0".         *)
(***************************************************************************)
EXTENDS Naturals, FiniteSets

CONSTANTS
    Tenants,        \* rows of the tenants table
    FindingIds,     \* finding_id values the upstream uses
    CorrIds,        \* correlation ids (x-correlation-id header or a uuid)
    Sessions,       \* graph sessions; also names the deployment each makes
    Faults          \* which faults the environment may inject

ASSUME FaultsAssumption == Faults \subseteq {"db", "worker", "slm", "collector", "crash"}

VARIABLES
    findings,       \* diagnostic_findings
    policies,       \* collection_policies
    deployments,    \* deployment_targets
    audit,          \* audit_events
    telemetry       \* telemetry_observations

tables == <<findings, policies, deployments, audit, telemetry>>

Kinds == {"accepted", "rejected", "generated", "validated", "deployed", "outcome"}
Codes == {"none", "VALIDATION_FAILED", "GRAPH_RUNNER_ERROR"}
Levels == {"above", "below"}

FindingRow == [tenant : Tenants, finding : FindingIds]
PolicyRow == [tenant : Tenants, finding : FindingIds, session : Sessions]
DeploymentRow == [id : Sessions, tenant : Tenants, finding : FindingIds,
                  status : {"accepted", "expired"}]
AuditRow == [corr : CorrIds \cup Sessions, kind : Kinds, tenant : Tenants,
             finding : FindingIds, by : Sessions, code : Codes]
TelemetryRow == [tenant : Tenants, finding : FindingIds, level : Levels]

TablesTypeOK ==
    /\ findings \subseteq FindingRow
    /\ policies \subseteq PolicyRow
    /\ deployments \subseteq DeploymentRow
    /\ audit \subseteq AuditRow
    /\ telemetry \subseteq TelemetryRow

TablesInit ==
    /\ findings = {}
    /\ policies = {}
    /\ deployments = {}
    /\ audit = {}
    /\ telemetry = {}

-----------------------------------------------------------------------------
(* How a transaction ends for its caller.  "failed": rolled back and raised; *)
(* "ack_lost": committed, but the connection dropped before the answer, so   *)
(* the caller sees the exception all the same.                               *)
DbOutcome == {"ok"} \cup IF "db" \in Faults THEN {"failed", "ack_lost"} ELSE {}

(* UNIQUE (correlation_id, kind), migration 016: not scoped by tenant. *)
Conflicts(c, k) == \E row \in audit : row.corr = c /\ row.kind = k

(* Mutant: the prior row is read back outside row-level security.            *)
WriteRaises_any_tenant(row) == FALSE

(* AuditEventWriter.write after ON CONFLICT DO NOTHING: the prior row is     *)
(* read back under the writer's own row-level security context, and a prior  *)
(* row of another tenant is invisible, so the write raises.                  *)
WriteRaises(row) ==
    \E prior \in audit : /\ prior.corr = row.corr /\ prior.kind = row.kind
                         /\ prior.tenant # row.tenant

(* The audit table after the write's transaction. *)
AfterWrite(row) ==
    IF Conflicts(row.corr, row.kind) THEN audit ELSE audit \cup {row}

(* PRIMARY KEY (tenant_id, policy_id, version), migration 005. *)
PolicyKeyTaken(t, f) == \E p \in policies : p.tenant = t /\ p.finding = f
=============================================================================
