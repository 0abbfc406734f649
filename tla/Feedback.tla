------------------------------ MODULE Feedback ------------------------------
(***************************************************************************)
(* The feedback worker (feedback/worker.py): one asyncio task that polls   *)
(* for accepted deployments whose collection window has closed, evaluates  *)
(* the telemetry of each, writes an outcome row, marks the deployment      *)
(* expired and audits the outcome.  The five calls are five transactions;  *)
(* an exception in any of them abandons the rest of the tick, and a crash  *)
(* abandons the worker's memory.  What the worker has still to do is       *)
(* recorded nowhere but in deployment_targets.status.                      *)
(***************************************************************************)
EXTENDS Registry, Sequences

CONSTANTS
    Public,         \* _PUBLIC, the tenant list_due and mark_expired act as
    Limit,          \* the LIMIT of list_due
    MaxFaults       \* bound: faults the environment injects into the worker

ASSUME FeedbackAssumption ==
    /\ Limit \in Nat \ {0}
    /\ MaxFaults \in Nat

VARIABLES
    outcomes,       \* policy_outcomes, in the order of evaluated_at
    closed,         \* deployments whose expires_at has passed, in its order
    wpc,            \* the await the worker is at
    queue,          \* the records of the tick still to process
    verdict,        \* hypothesis_state of the record in hand
    faults          \* faults injected so far

workerVars == <<wpc, queue, verdict>>
feedbackVars == <<outcomes, closed, workerVars, faults>>

States == {"confirmed", "ruled_out", "no_data"}
OutcomeRow == [id : Sessions, tenant : Tenants, finding : FindingIds, state : States]

FeedbackTypeOK ==
    /\ outcomes \in Seq(OutcomeRow)
    /\ closed \in Seq(Sessions)
    /\ wpc \in {"poll", "policy", "collect", "outcome", "expire", "audit"}
    /\ queue \in Seq(DeploymentRow)
    /\ verdict \in States \cup {"none"}
    /\ faults \in 0..MaxFaults
    /\ wpc # "poll" => queue # <<>>
    /\ wpc \in {"outcome", "audit"} => verdict # "none"

FeedbackInit ==
    /\ outcomes = <<>>
    /\ closed = <<>>
    /\ wpc = "poll"
    /\ queue = <<>>
    /\ verdict = "none"
    /\ faults = 0

Members(s) == {s[i] : i \in 1..Len(s)}

record == Head(queue)

(* A database call of the worker, within the bound on faults. *)
WorkerOutcome ==
    IF faults < MaxFaults /\ Faults \cap {"db", "worker"} # {}
    THEN {"ok", "failed", "ack_lost"} ELSE {"ok"}
Count(o) == faults' = IF o = "ok" THEN faults ELSE faults + 1

(* run_forever's except clause: log, sleep, poll again. *)
Abandon ==
    /\ wpc' = "poll"
    /\ queue' = <<>>
    /\ verdict' = "none"

(* Mutant: the loop goes on without looking whether a record is left.        *)
NextRecord_past_end ==
    /\ queue' = Tail(queue)
    /\ wpc' = "policy"
    /\ verdict' = "none"

(* tick's loop: the next record, or the next poll. *)
NextRecord ==
    /\ queue' = Tail(queue)
    /\ wpc' = IF Tail(queue) = <<>> THEN "poll" ELSE "policy"
    /\ verdict' = "none"

-----------------------------------------------------------------------------
(* DeploymentRepository.list_due, under the row-level security of Public:    *)
(* the deployments it is after, as positions in closed.                      *)
DueAt == {i \in 1..Len(closed) : \E d \in deployments :
             d.id = closed[i] /\ d.status = "accepted" /\ d.tenant = Public}

(* Mutant: a full page is taken for an error and dropped.                    *)
PageSize_drops_full == IF Cardinality(DueAt) < Limit THEN Cardinality(DueAt) ELSE 0

(* Its LIMIT. *)
PageSize == IF Cardinality(DueAt) < Limit THEN Cardinality(DueAt) ELSE Limit

(* Its ORDER BY expires_at: the first PageSize of them, in order. *)
DuePages ==
    {page \in [1..PageSize -> DueAt] :
        /\ \A i, j \in 1..PageSize : i < j => page[i] < page[j]
        /\ \A i \in 1..PageSize, k \in DueAt \ Members(page) : page[i] < k}

DeploymentOf(id) == CHOOSE d \in deployments : d.id = id

list_due ==
    /\ wpc = "poll"
    /\ \E o \in WorkerOutcome, page \in DuePages :
        /\ IF o = "ok" /\ PageSize > 0
           THEN wpc' = "policy" /\ queue' = [i \in 1..PageSize |-> DeploymentOf(closed[page[i]])]
           ELSE UNCHANGED <<wpc, queue>>
        /\ Count(o)
    /\ UNCHANGED <<tables, outcomes, closed, verdict>>

(* PolicyRepository.get; without a policy the deployment is only expired.    *)
get_policy ==
    /\ wpc = "policy"
    /\ \E o \in WorkerOutcome :
        /\ IF o = "ok"
           THEN /\ wpc' = IF PolicyKeyTaken(record.tenant, record.finding)
                          THEN "collect" ELSE "expire"
                /\ UNCHANGED <<queue, verdict>>
           ELSE Abandon
        /\ Count(o)
    /\ UNCHANGED <<tables, outcomes, closed>>

(* Mutant: the empty sample is not told apart, and 0 >= 0 confirms.          *)
evaluate_empty_confirms(above, below) == IF above >= below THEN "confirmed" ELSE "ruled_out"

(* BrakeWearHypothesisRule.evaluate on the counts of observations at or      *)
(* above the threshold and below it.                                         *)
evaluate(above, below) ==
    IF above + below = 0 THEN "no_data"
    ELSE IF above >= below /\ above > 0 THEN "confirmed" ELSE "ruled_out"

(* Mutant: the deployment is expired before its outcome is written.          *)
collect_telemetry_expire_first ==
    /\ wpc = "collect"
    /\ deployments' = {IF d.id = record.id THEN [d EXCEPT !.status = "expired"] ELSE d :
                          d \in deployments}
    /\ verdict' = "no_data"
    /\ wpc' = "outcome"
    /\ UNCHANGED <<findings, policies, audit, telemetry, outcomes, closed, queue, faults>>

(* _collect_telemetry and the evaluation of what it returns.                 *)
collect_telemetry ==
    /\ wpc = "collect"
    /\ \E o \in WorkerOutcome :
        LET Seen(l) == Cardinality({x \in telemetry : /\ x.tenant = record.tenant
                                                      /\ x.finding = record.finding
                                                      /\ x.level = l}) IN
        /\ IF o = "ok"
           THEN /\ verdict' = evaluate(Seen("above"), Seen("below"))
                /\ wpc' = "outcome"
                /\ UNCHANGED queue
           ELSE Abandon
        /\ Count(o)
    /\ UNCHANGED <<tables, outcomes, closed>>

(* OutcomeRepository.insert: a fresh outcome_id, so never a conflict.        *)
insert_outcome ==
    /\ wpc = "outcome"
    /\ \E o \in WorkerOutcome :
        /\ outcomes' = IF o = "failed" THEN outcomes
                       ELSE Append(outcomes, [id |-> record.id, tenant |-> record.tenant,
                                              finding |-> record.finding, state |-> verdict])
        /\ IF o = "ok" THEN wpc' = "expire" /\ UNCHANGED <<queue, verdict>> ELSE Abandon
        /\ Count(o)
    /\ UNCHANGED <<tables, closed>>

(* Mutant: the status update is forgotten.                                   *)
mark_expired_omitted ==
    /\ wpc = "expire"
    /\ wpc' = "audit"
    /\ UNCHANGED <<tables, outcomes, closed, queue, verdict, faults>>

(* Mutant: the outcome is audited nowhere.                                   *)
mark_expired_unaudited ==
    /\ wpc = "expire"
    /\ deployments' = {IF d.id = record.id THEN [d EXCEPT !.status = "expired"] ELSE d :
                          d \in deployments}
    /\ NextRecord
    /\ UNCHANGED <<findings, policies, audit, telemetry, outcomes, closed, faults>>

(* DeploymentRepository.mark_expired, again as Public; then the audit write, *)
(* or the next record when there was no policy to evaluate.                  *)
mark_expired ==
    /\ wpc = "expire"
    /\ \E o \in WorkerOutcome :
        /\ deployments' = IF o = "failed" THEN deployments
                          ELSE {IF d.id = record.id /\ d.tenant = Public
                                THEN [d EXCEPT !.status = "expired"] ELSE d : d \in deployments}
        /\ IF o # "ok" THEN Abandon
           ELSE IF verdict = "none" THEN NextRecord
           ELSE wpc' = "audit" /\ UNCHANGED <<queue, verdict>>
        /\ Count(o)
    /\ UNCHANGED <<findings, policies, audit, telemetry, outcomes, closed>>

(* The 'outcome' audit row.  deployment_targets has no correlation_id        *)
(* column, so the row's correlation id is the deployment id.                 *)
audit_outcome ==
    /\ wpc = "audit"
    /\ \E o \in WorkerOutcome :
        LET row == [corr |-> record.id, kind |-> "outcome", tenant |-> record.tenant,
                    finding |-> record.finding, by |-> record.id, code |-> "none"] IN
        /\ audit' = IF o = "failed" THEN audit ELSE AfterWrite(row)
        /\ IF o = "ok" /\ ~WriteRaises(row) THEN NextRecord ELSE Abandon
        /\ Count(o)
    /\ UNCHANGED <<findings, policies, deployments, telemetry, outcomes, closed>>

(* The process dies: lifespan starts a new worker, which polls. *)
LoseWorker == Abandon /\ UNCHANGED <<outcomes, closed>>

WorkerStep ==
    \/ list_due \/ get_policy \/ collect_telemetry \/ insert_outcome
    \/ mark_expired \/ audit_outcome

(* The collection window of a deployment closes: expires_at passes.          *)
CloseWindow(open) ==
    /\ \E id \in open \ Members(closed) : closed' = Append(closed, id)
    /\ UNCHANGED <<tables, outcomes, workerVars, faults>>

-----------------------------------------------------------------------------
(* The worker on its own.  Its environment is what PolicyLoop does to the    *)
(* tables it reads: a session registers a policy and a deployment under a    *)
(* key nobody has, and its telemetry arrives later or never.                 *)
registered == {d.id : d \in deployments}

Register(r) ==
    /\ r \notin registered
    /\ \E t \in Tenants, f \in FindingIds :
        /\ ~PolicyKeyTaken(t, f)
        /\ findings' = findings \cup {[tenant |-> t, finding |-> f]}
        /\ policies' = policies \cup {[tenant |-> t, finding |-> f, session |-> r]}
        /\ deployments' = deployments \cup
               {[id |-> r, tenant |-> t, finding |-> f, status |-> "accepted"]}
    /\ UNCHANGED <<audit, telemetry, feedbackVars>>

Observe(d) ==
    /\ ~\E x \in telemetry : x.tenant = d.tenant /\ x.finding = d.finding
    /\ \E l \in Levels :
        telemetry' = telemetry \cup {[tenant |-> d.tenant, finding |-> d.finding, level |-> l]}
    /\ UNCHANGED <<findings, policies, deployments, audit, feedbackVars>>

WorkerCrash ==
    /\ "crash" \in Faults
    /\ faults < MaxFaults
    /\ wpc # "poll"
    /\ faults' = faults + 1
    /\ LoseWorker
    /\ UNCHANGED tables

FeedbackNext ==
    \/ WorkerStep
    \/ WorkerCrash
    \/ CloseWindow(registered)
    \/ \E r \in Sessions : Register(r)
    \/ \E d \in deployments : Observe(d)

AloneInit == TablesInit /\ FeedbackInit

FeedbackSpec == AloneInit /\ [][FeedbackNext]_<<tables, feedbackVars>>

(* The worker's task is always scheduled again: its sleep ends and every     *)
(* call it awaits returns or raises.                                         *)
FairFeedbackSpec == FeedbackSpec /\ WF_<<tables, feedbackVars>>(WorkerStep)
-----------------------------------------------------------------------------
OutcomesOf(id) == {i \in 1..Len(outcomes) : outcomes[i].id = id}

(* No evaluation is dropped (FR-009): status leaves 'accepted', and so       *)
(* list_due forgets the deployment, only after its window closed and its     *)
(* outcome row was committed, whichever call of _process failed and wherever *)
(* the process died.                                                         *)
ExpiredHasOutcome ==
    \A d \in deployments : d.status = "expired" =>
        d.id \in Members(closed) /\ OutcomesOf(d.id) # {}

(* What may go wrong with an outcome is the price of a fault, never of an    *)
(* interleaving.  Each extra row for a deployment costs a failed or lost     *)
(* call or a crash; so does each deployment that has left the worker's list  *)
(* without the audit row, which comes last (worker.py:96) and is never made  *)
(* up for, apart from the record in the worker's hands.                      *)
OutcomeFlawsNeedFaults ==
    /\ \A d \in deployments : Cardinality(OutcomesOf(d.id)) <= 1 + faults
    /\ Cardinality({d \in deployments : d.status = "expired" /\ ~Conflicts(d.id, "outcome")})
         <= faults + (IF wpc = "audit" THEN 1 ELSE 0)

(* FR-009 as it is stated, for the deployments of every tenant.              *)
EveryTenantEvaluated ==
    \A r \in Sessions :
        (r \in Members(closed) /\ r \in registered) ~> OutcomesOf(r) # {}
=============================================================================
