---------------------------- MODULE CollectMind ----------------------------
(***************************************************************************)
(* The application process of app.py: the request handlers and sessions of *)
(* PolicyLoop and the worker of Feedback, on one event loop and one        *)
(* registry.  A crash takes all of them at once.                           *)
(***************************************************************************)
EXTENDS PolicyLoop, Feedback

allVars == <<vars, feedbackVars>>

AppInit == LoopInit /\ FeedbackInit

(* The process dies and lifespan starts it again. *)
AppCrash ==
    /\ "crash" \in Faults
    /\ faults < MaxFaults
    /\ faults' = faults + 1
    /\ LoseTasks
    /\ LoseWorker
    /\ UNCHANGED tables

(* The window of a deployment runs from the collector's acceptance, so it    *)
(* may close before the session has recorded anything.                       *)
AppNext ==
    \/ LoopStep /\ UNCHANGED feedbackVars
    \/ (WorkerStep \/ CloseWindow(collector)) /\ UNCHANGED loopVars
    \/ AppCrash

AppSpec == AppInit /\ [][AppNext]_allVars

(* As in the components, and time passes: every window closes.               *)
FairAppSpec ==
    /\ AppSpec
    /\ \A r \in Sessions : WF_allVars((HandlerStep(r) \/ SessionStep(r)) /\ UNCHANGED feedbackVars)
    /\ WF_allVars(WorkerStep /\ UNCHANGED loopVars)
    /\ WF_allVars(CloseWindow(collector) /\ UNCHANGED loopVars)

(* OutcomeRepository.get_by_finding, the answer of GET /findings/{id}/outcome *)
(* for every key: the verdict evaluated last, or 404.                        *)
get_by_finding(key) ==
    LET rows == {i \in 1..Len(outcomes) : KeyOf(outcomes[i]) = key}
    IN IF rows = {} THEN "404" ELSE outcomes[CHOOSE i \in rows : \A j \in rows : j <= i].state
-----------------------------------------------------------------------------
AppTypeOK == LoopTypeOK /\ FeedbackTypeOK

(* A verdict on the finding of a row has the telemetry it speaks of. *)
Witnessed(row, state) ==
    state = "no_data" \/ \E x \in telemetry :
        KeyOf(x) = KeyOf(row) /\ x.level = (IF state = "confirmed" THEN "above" ELSE "below")

Linked(o) ==
    /\ KeyOf(o) \in findings
    /\ [tenant |-> o.tenant, finding |-> o.finding, session |-> o.id] \in policies
    /\ o.id \in collector
    /\ o.id \in Members(closed)
    /\ Witnessed(o, o.state)

(* FR-009's link: an outcome row belongs to a finding that was received, to  *)
(* the policy its own session registered and to a deployment the collector   *)
(* accepted and whose window is over, although five services wrote the five  *)
(* rows; and a verdict has the telemetry it speaks of.                       *)
OutcomeLineage == \A i \in 1..Len(outcomes) : Linked(outcomes[i])

(* One verdict: while the database answers the sessions, no session tells    *)
(* the audit log both that its policy was deployed and that it was rejected, *)
(* although the telemetry call after the 'deployed' row is still inside      *)
(* run_async's try (graph/runner.py:179).                                    *)
OneVerdict ==
    "db" \notin Faults =>
        \A a, b \in audit : a.by = b.by => {a.kind, b.kind} # {"deployed", "rejected"}

(* The verdict a client has read is final.  The worker may evaluate a        *)
(* deployment before its session has stored the telemetry and the read       *)
(* returns the latest row, so a second evaluation could turn the answer of   *)
(* GET /findings/{id}/outcome around; only a fault makes it do so.           *)
ServedVerdictFinal ==
    [][\A key \in findings :
          get_by_finding(key) \notin {"404", get_by_finding(key)'} => faults > 0]_allVars

(* End to end (User Story 1): a finding the default tenant gets accepted     *)
(* ends with an outcome row or with a 'rejected' audit row, whatever the SLM *)
(* and the collector do, and with more deployments due than one poll         *)
(* returns.  Faults of the worker's calls and crashes of the process delay   *)
(* that; only a crash that takes a session of the finding with it prevents   *)
(* it.                                                                       *)
EveryFindingConcludes ==
    \A f \in FindingIds :
        LET key == [tenant |-> Public, finding |-> f]
            Of(r) == req[r] # NoRequest /\ KeyOf(req[r]) = key IN
        (\E r \in Sessions : answer[r] = "accepted" /\ Of(r)) ~>
            \/ \E i \in 1..Len(outcomes) : KeyOf(outcomes[i]) = key
            \/ \E a \in audit : KeyOf(a) = key /\ a.kind = "rejected"
            \/ \E r \in Sessions : pc[r] = "lost" /\ Of(r)
=============================================================================
