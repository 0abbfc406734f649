------------------------- MODULE CollectMindProofs -------------------------
(***************************************************************************)
(* Proofs about the policy loop, the feedback worker and the application   *)
(* that runs both, for any tenants, findings, correlation ids, number of   *)
(* concurrent requests, page size, retry budget, faults and bound on them. *)
(***************************************************************************)
EXTENDS CollectMind, TLAPS

(* The arithmetic of the counts: of outcome rows and of unaudited            *)
(* deployments against faults.                                               *)
LEMMA ZeroCount == 0 <= 0 /\ \A a \in Nat : a <= 0 + 0 => a = 0
  OBVIOUS

LEMMA AtMost == \A a, b, c, d \in Nat : a <= b /\ b <= c /\ c <= d => a <= d
  OBVIOUS

LEMMA AtMostMore ==
    \A a, f \in Nat : /\ a <= f => a <= f + 0 /\ a <= 1 + f
                      /\ a <= f + 0 \/ a <= f + 1 => a <= 1 + f
  OBVIOUS

LEMMA AtMostOneMore == \A a, c, f \in Nat : c <= f /\ (a <= c \/ a <= c + 1) => a <= f + 1
  OBVIOUS

LEMMA CountPaid ==
    ASSUME NEW f \in Nat, NEW g \in Nat, NEW C \in Nat, NEW D, NEW s \in {0, 1}, NEW t \in {0, 1},
           C <= f + s,
           \/ D = C /\ (f < g \/ (f = g /\ (s = 0 \/ t = 1)))
           \/ D = C + 1 /\ s = 0 /\ (f < g \/ (f = g /\ t = 1))
    PROVE  D <= g + t
  OBVIOUS

(* The names that occur as arguments of Write. *)
LEMMA Names ==
    /\ {"accepted", "rejected", "generated", "validated", "deployed"} \subseteq Kinds
    /\ {"none", "VALIDATION_FAILED", "GRAPH_RUNNER_ERROR"} \subseteq Codes
    /\ {"generate", "policy", "dead_letter", "deployment", "telemetry", "error",
        "done", "lost"} \subseteq Locations
  BY Zenon DEF Kinds, Codes, Locations, HandlerAt, SessionAt, GraphAt, PersistAt

(* What one audit write (Write, AuditEventWriter.write) does: the request    *)
(* moves to ok or to err; the log is as before or gains exactly the row      *)
(* written, and gains it only if no row had its correlation id and kind; and *)
(* the request moves to ok only if its own tenant's trail now holds such a   *)
(* row.                                                                      *)
Written(r, kind, code, ok, err) ==
    /\ \E l \in {ok, err} : pc' = [pc EXCEPT ![r] = l]
    /\ \/ audit' = audit
       \/ /\ audit' = audit \cup {RowOf(r, kind, code)}
          /\ ~Conflicts(req[r].corr, kind)
    /\ pc'[r] = ok =>
         \E a \in audit' : /\ a.corr = req[r].corr /\ a.kind = kind
                           /\ a.tenant = req[r].tenant
    /\ audit' \subseteq AuditRow

(* An audit write has these effects, whatever the database does.             *)
LEMMA WriteEffect ==
    ASSUME LoopTypeOK, NEW r \in Sessions, req[r] \in Request,
           NEW kind \in Kinds, NEW code \in Codes,
           NEW ok \in Locations, NEW err \in Locations, ok # err,
           Write(r, kind, code, ok, err)
    PROVE  Written(r, kind, code, ok, err)
<1> DEFINE row == RowOf(r, kind, code)
<1>1. PICK o \in DbOutcome :
        /\ audit' = IF o = "failed" THEN audit ELSE AfterWrite(row)
        /\ pc' = [pc EXCEPT ![r] = IF o = "ok" /\ ~WriteRaises(row) THEN ok ELSE err]
  BY Zenon DEF Write, Goto
<1>2. /\ row \in AuditRow
      /\ row.corr = req[r].corr /\ row.kind = kind /\ row.tenant = req[r].tenant
  BY Zenon DEF RowOf, AuditRow, Request
<1> HIDE DEF row
<1>3. \E l \in {ok, err} : pc' = [pc EXCEPT ![r] = l]
  BY <1>1, Zenon
<1>4. \/ audit' = audit
      \/ audit' = audit \cup {row} /\ ~Conflicts(req[r].corr, kind)
  BY <1>1, <1>2, Zenon DEF AfterWrite
<1>5. ASSUME pc'[r] = ok
      PROVE  \E a \in audit' : /\ a.corr = req[r].corr /\ a.kind = kind
                               /\ a.tenant = req[r].tenant
  <2>1. o = "ok" /\ ~WriteRaises(row)
    BY <1>1, <1>5, Zenon DEF LoopTypeOK
  <2>2. audit' = AfterWrite(row)
    BY <1>1, <2>1, Zenon
  <2>3. CASE Conflicts(row.corr, row.kind)
    <3>1. PICK prior \in audit : prior.corr = row.corr /\ prior.kind = row.kind
      BY <2>3, Zenon DEF Conflicts
    <3>2. prior.tenant = row.tenant
      BY <2>1, <3>1, Zenon DEF WriteRaises
    <3> QED BY <1>2, <2>2, <2>3, <3>1, <3>2, Zenon DEF AfterWrite
  <2>4. CASE ~Conflicts(row.corr, row.kind)
    BY <1>2, <2>2, <2>4, Zenon DEF AfterWrite
  <2> QED BY <2>3, <2>4, Zenon
<1>6. audit' \subseteq AuditRow
  BY <1>2, <1>4, Zenon DEF LoopTypeOK, TablesTypeOK
<1> QED BY <1>3, <1>4, <1>5, <1>6, Zenon DEF row, Written

(* In particular it keeps the types of the log and of the location.          *)
LEMMA WriteType ==
    ASSUME LoopTypeOK, NEW r \in Sessions, req[r] \in Request,
           NEW kind \in Kinds, NEW code \in Codes,
           NEW ok \in Locations, NEW err \in Locations, ok # err,
           Write(r, kind, code, ok, err)
    PROVE  /\ audit' \subseteq AuditRow
           /\ \E l \in Locations : pc' = [pc EXCEPT ![r] = l]
<1>1. Written(r, kind, code, ok, err)
  BY WriteEffect, Zenon
<1> QED BY <1>1, Zenon DEF Written

-----------------------------------------------------------------------------
(* Type correctness.                                                         *)

(* The service starts well typed.                                            *)
LEMMA InitType == LoopInit => LoopTypeOK
  BY PolicyLoopAssumption
  DEF Locations, HandlerAt, SessionAt, GraphAt, PersistAt, LoopInit, TablesInit, LoopTypeOK, TablesTypeOK

(* Every step of a handler or session keeps the types, the retry count       *)
(* within its budget included.                                               *)
LEMMA StepType ==
    ASSUME LoopTypeOK, [Next]_vars
    PROVE  LoopTypeOK'
<1> USE PolicyLoopAssumption DEF tables, Goto, Answer
<1>1. ASSUME NEW r \in Sessions, post_finding(r) PROVE LoopTypeOK'
  BY <1>1 DEF LoopTypeOK, TablesTypeOK, Locations, HandlerAt, SessionAt, GraphAt, PersistAt, post_finding, tables, Posted, FreshIds, Request
<1>2. ASSUME NEW r \in Sessions, check_or_record(r) PROVE LoopTypeOK'
  BY <1>2 DEF LoopTypeOK, TablesTypeOK, Locations, HandlerAt, SessionAt, GraphAt, PersistAt, check_or_record, HandlerFails
<1>3. ASSUME NEW r \in Sessions, persist_finding(r) PROVE LoopTypeOK'
  BY <1>3 DEF LoopTypeOK, TablesTypeOK, Locations, HandlerAt, SessionAt, GraphAt, PersistAt, persist_finding, HandlerFails, KeyOf, FindingRow, Request
<1>4. ASSUME NEW r \in Sessions, generate(r) PROVE LoopTypeOK'
  <2>1. \/ Goto(r, "error") /\ UNCHANGED <<retry, final>>
        \/ \E policy \in {"policy", "malformed"}, valid \in BOOLEAN :
              route_after_validation(r, policy, valid)
    BY <1>4, Zenon DEF generate, SlmAnswers, validate
  <2>2. /\ \E l \in Locations : pc' = [pc EXCEPT ![r] = l]
        /\ retry' \in [Sessions -> 0..RetryBudget]
        /\ final' \in [Sessions -> {"running", "completed", "malformed", "invalid", "undeployed"}]
    <3>1. CASE Goto(r, "error") /\ UNCHANGED <<retry, final>>
      BY <3>1, Names, Zenon DEF LoopTypeOK
    <3>2. ASSUME NEW policy \in {"policy", "malformed"}, NEW valid \in BOOLEAN,
                 route_after_validation(r, policy, valid)
          PROVE  /\ \E l \in Locations : pc' = [pc EXCEPT ![r] = l]
                 /\ retry' \in [Sessions -> 0..RetryBudget]
                 /\ final' \in [Sessions -> {"running", "completed", "malformed", "invalid",
                                            "undeployed"}]
      <4>1. CASE valid
        BY <3>2, <4>1, Zenon DEF route_after_validation, LoopTypeOK, Locations, SessionAt, GraphAt
      <4>2. CASE ~valid /\ retry_budget_exhausted(r)
        BY <3>2, <4>2 DEF route_after_validation, LoopTypeOK, Locations, SessionAt, PersistAt
      <4>3. CASE ~valid /\ ~retry_budget_exhausted(r)
        <5>1. retry[r] \in 0..RetryBudget /\ retry[r] < RetryBudget
          BY <4>3 DEF LoopTypeOK, retry_budget_exhausted
        <5>2. pc' = [pc EXCEPT ![r] = pc[r]] /\ pc[r] \in Locations
          BY <3>2, <4>3, Zenon DEF route_after_validation, LoopTypeOK
        <5>3. retry[r] + 1 \in 0..RetryBudget
          BY <5>1
        <5>4. retry' = [retry EXCEPT ![r] = retry[r] + 1] /\ final' = final
          BY <3>2, <4>3, Zenon DEF route_after_validation
        <5>5. retry' \in [Sessions -> 0..RetryBudget]
          BY <5>3, <5>4, Zenon DEF LoopTypeOK
        <5> QED BY <5>2, <5>4, <5>5, Zenon DEF LoopTypeOK
      <4> QED BY <4>1, <4>2, <4>3, Zenon
    <3> QED BY <2>1, <3>1, <3>2, Zenon
  <2>3. req[r] \in Request
    BY <1>4, Zenon DEF LoopTypeOK, generate, SessionAt, GraphAt
  <2>4. UNCHANGED <<findings, policies, deployments, audit, telemetry, req, answer, collector>>
    BY <1>4, Zenon DEF generate
  <2>5. pc' \in [Sessions -> Locations]
    BY <2>2, Zenon DEF LoopTypeOK
  <2>6. \A s \in Sessions : pc'[s] \in HandlerAt \cup SessionAt => req'[s] \in Request
    BY <2>2, <2>3, <2>4, Zenon DEF LoopTypeOK
  <2> QED BY <2>2, <2>4, <2>5, <2>6, Zenon DEF LoopTypeOK, TablesTypeOK
<1>5. ASSUME NEW r \in Sessions, deploy(r) PROVE LoopTypeOK'
  BY <1>5, Zenon DEF LoopTypeOK, TablesTypeOK, Locations, HandlerAt, SessionAt, GraphAt, PersistAt, deploy
<1>6. ASSUME NEW r \in Sessions, insert_policy(r) PROVE LoopTypeOK'
  BY <1>6 DEF LoopTypeOK, TablesTypeOK, Locations, HandlerAt, SessionAt, GraphAt, PersistAt, insert_policy, PolicyRow, Request
<1>7. ASSUME NEW r \in Sessions, insert_deployment(r) PROVE LoopTypeOK'
  BY <1>7 DEF LoopTypeOK, TablesTypeOK, Locations, HandlerAt, SessionAt, GraphAt, PersistAt, insert_deployment, DeploymentRow, Request
<1>8. ASSUME NEW r \in Sessions, simulate(r) PROVE LoopTypeOK'
  BY <1>8 DEF LoopTypeOK, TablesTypeOK, Locations, HandlerAt, SessionAt, GraphAt, PersistAt, simulate, TelemetryRow, Request
<1>9. ASSUME NEW r \in Sessions, accept_and_enqueue(r) PROVE LoopTypeOK'
  <2>1. req[r] \in Request
    BY <1>9, Zenon DEF LoopTypeOK, SessionAt, PersistAt, HandlerAt, accept_and_enqueue
  <2>2. Write(r, "accepted", "none", "generate", "done")
    BY <1>9, Zenon DEF accept_and_enqueue
  <2>3. /\ audit' \subseteq AuditRow
        /\ \E l \in Locations : pc' = [pc EXCEPT ![r] = l]
    BY <2>1, <2>2, Names, WriteType, Zenon
  <2> QED BY <1>9, <2>1, <2>3 DEF LoopTypeOK, TablesTypeOK, Locations, HandlerAt, SessionAt, GraphAt, PersistAt, accept_and_enqueue
<1>10. ASSUME NEW r \in Sessions, audit_generated(r) PROVE LoopTypeOK'
  <2>1. req[r] \in Request
    BY <1>10, Zenon DEF LoopTypeOK, SessionAt, PersistAt, HandlerAt, audit_generated
  <2>2. /\ audit' \subseteq AuditRow
        /\ \E l \in Locations : pc' = [pc EXCEPT ![r] = l]
    <3>1. CASE Write(r, "generated", "none", "policy", "error")
      BY <2>1, <3>1, Names, WriteType, Zenon
    <3>2. CASE Write(r, "generated", "none", "dead_letter", "error")
      BY <2>1, <3>2, Names, WriteType, Zenon
    <3>3. CASE Goto(r, "error") /\ UNCHANGED audit
      BY <3>3, Names, Zenon DEF LoopTypeOK, TablesTypeOK
    <3> QED BY <1>10, <3>1, <3>2, <3>3, Zenon DEF audit_generated
  <2> QED BY <1>10, <2>1, <2>2 DEF LoopTypeOK, TablesTypeOK, Locations, HandlerAt, SessionAt, GraphAt, PersistAt, audit_generated
<1>11. ASSUME NEW r \in Sessions, audit_dead_letter(r) PROVE LoopTypeOK'
  <2>1. req[r] \in Request
    BY <1>11, Zenon DEF LoopTypeOK, SessionAt, PersistAt, HandlerAt, audit_dead_letter
  <2>2. Write(r, "rejected", "VALIDATION_FAILED", "done", "error")
    BY <1>11, Zenon DEF audit_dead_letter
  <2>3. /\ audit' \subseteq AuditRow
        /\ \E l \in Locations : pc' = [pc EXCEPT ![r] = l]
    BY <2>1, <2>2, Names, WriteType, Zenon
  <2> QED BY <1>11, <2>1, <2>3 DEF LoopTypeOK, TablesTypeOK, Locations, HandlerAt, SessionAt, GraphAt, PersistAt, audit_dead_letter
<1>12. ASSUME NEW r \in Sessions, audit_validated(r) PROVE LoopTypeOK'
  <2>1. req[r] \in Request
    BY <1>12, Zenon DEF LoopTypeOK, SessionAt, PersistAt, HandlerAt, audit_validated
  <2>2. Write(r, "validated", "none", "deployment", "error")
    BY <1>12, Zenon DEF audit_validated
  <2>3. /\ audit' \subseteq AuditRow
        /\ \E l \in Locations : pc' = [pc EXCEPT ![r] = l]
    BY <2>1, <2>2, Names, WriteType, Zenon
  <2> QED BY <1>12, <2>1, <2>3 DEF LoopTypeOK, TablesTypeOK, Locations, HandlerAt, SessionAt, GraphAt, PersistAt, audit_validated
<1>13. ASSUME NEW r \in Sessions, audit_deployed(r) PROVE LoopTypeOK'
  <2>1. req[r] \in Request
    BY <1>13, Zenon DEF LoopTypeOK, SessionAt, PersistAt, HandlerAt, audit_deployed
  <2>2. Write(r, "deployed", "none", "telemetry", "error")
    BY <1>13, Zenon DEF audit_deployed
  <2>3. /\ audit' \subseteq AuditRow
        /\ \E l \in Locations : pc' = [pc EXCEPT ![r] = l]
    BY <2>1, <2>2, Names, WriteType, Zenon
  <2> QED BY <1>13, <2>1, <2>3 DEF LoopTypeOK, TablesTypeOK, Locations, HandlerAt, SessionAt, GraphAt, PersistAt, audit_deployed
<1>14. ASSUME NEW r \in Sessions, audit_error(r) PROVE LoopTypeOK'
  <2>1. req[r] \in Request
    BY <1>14, Zenon DEF LoopTypeOK, SessionAt, PersistAt, HandlerAt, audit_error
  <2>2. Write(r, "rejected", "GRAPH_RUNNER_ERROR", "done", "lost")
    BY <1>14, Zenon DEF audit_error
  <2>3. /\ audit' \subseteq AuditRow
        /\ \E l \in Locations : pc' = [pc EXCEPT ![r] = l]
    BY <2>1, <2>2, Names, WriteType, Zenon
  <2> QED BY <1>14, <2>1, <2>3 DEF LoopTypeOK, TablesTypeOK, Locations, HandlerAt, SessionAt, GraphAt, PersistAt, audit_error
<1>15. ASSUME Crash PROVE LoopTypeOK'
  BY <1>15, Zenon DEF LoopTypeOK, TablesTypeOK, Locations, HandlerAt, SessionAt, GraphAt, PersistAt, Crash, LoseTasks
<1>16. ASSUME UNCHANGED vars PROVE LoopTypeOK'
  BY <1>16, Zenon DEF LoopTypeOK, TablesTypeOK, Locations, HandlerAt, SessionAt, GraphAt, PersistAt, vars, loopVars
<1> QED
  BY <1>1, <1>2, <1>3, <1>4, <1>5, <1>6, <1>7, <1>8, <1>9, <1>10, <1>11, <1>12, <1>13, <1>14, <1>15, <1>16, ZenonT(60)
  DEF Next, LoopStep, HandlerStep, SessionStep, Quiescent

(* Every reachable state is well-typed; in particular a request that is      *)
(* being handled has a body, and no session retries past its budget          *)
(* (Orchestrator.route_after_validation).                                    *)
THEOREM TypeCorrect == Spec => []LoopTypeOK
<1>1. LoopInit => LoopTypeOK
  BY InitType, Zenon
<1>2. LoopTypeOK /\ [Next]_vars => LoopTypeOK'
  BY StepType, Zenon
<1> QED BY <1>1, <1>2, PTL DEF Spec

-----------------------------------------------------------------------------
(* The step of one request: the tables and the collector's set only grow,    *)
(* and no other request moves.                                               *)
RequestStep(r) == post_finding(r) \/ HandlerStep(r) \/ SessionStep(r)

(* AuditEventWriter.write only ever adds rows.                               *)
LEMMA WriteGrows ==
    ASSUME LoopTypeOK, NEW r \in Sessions,
           NEW kind, NEW code, NEW ok, NEW err, Write(r, kind, code, ok, err)
    PROVE  /\ audit \subseteq audit'
           /\ \A s \in Sessions \ {r} : pc'[s] = pc[s]
  BY Zenon DEF Write, AfterWrite, Goto, LoopTypeOK

(* A step of one request leaves the locals of all the others alone.          *)
LEMMA StepFrame ==
    ASSUME LoopTypeOK, NEW r \in Sessions, RequestStep(r)
    PROVE  /\ findings \subseteq findings' /\ policies \subseteq policies'
           /\ deployments \subseteq deployments' /\ audit \subseteq audit'
           /\ collector \subseteq collector'
           /\ \A s \in Sessions \ {r} : pc'[s] = pc[s] /\ req'[s] = req[s] /\ final'[s] = final[s]
           /\ pc[r] # "idle" => req' = req
<1> DEFINE Frame == /\ findings \subseteq findings' /\ policies \subseteq policies'
                    /\ deployments \subseteq deployments' /\ audit \subseteq audit'
                    /\ collector \subseteq collector'
                    /\ \A s \in Sessions \ {r} :
                         pc'[s] = pc[s] /\ req'[s] = req[s] /\ final'[s] = final[s]
                    /\ pc[r] # "idle" => req' = req
<1> USE DEF tables, LoopTypeOK
<1>1. CASE post_finding(r)
  BY <1>1, Zenon DEF post_finding, Goto
<1>2. CASE check_or_record(r) \/ persist_finding(r)
  BY <1>2, Zenon DEF check_or_record, persist_finding, HandlerFails, Goto
<1>3. CASE generate(r) \/ deploy(r)
  BY <1>3, Zenon DEF generate, deploy, Goto, route_after_validation
<1>4. CASE insert_policy(r) \/ insert_deployment(r) \/ simulate(r)
  BY <1>4, Zenon DEF insert_policy, insert_deployment, simulate, Goto
<1>5. CASE accept_and_enqueue(r) \/ audit_generated(r) \/ audit_dead_letter(r)
           \/ audit_validated(r) \/ audit_deployed(r) \/ audit_error(r)
  BY <1>5, WriteGrows, Zenon
  DEF accept_and_enqueue, audit_generated, audit_dead_letter, audit_validated,
      audit_deployed, audit_error, Goto
<1> QED BY <1>1, <1>2, <1>3, <1>4, <1>5, Zenon DEF RequestStep, HandlerStep, SessionStep

(* What a session has on record stays on record while others take steps.     *)
LEMMA OthersProgress ==
    ASSUME LoopTypeOK, NEW r \in Sessions, RequestStep(r),
           NEW s \in Sessions \ {r}, ProgressAt(s)
    PROVE  ProgressAt(s)'
<1>1. /\ findings \subseteq findings' /\ policies \subseteq policies'
      /\ deployments \subseteq deployments' /\ audit \subseteq audit'
      /\ collector \subseteq collector'
      /\ pc'[s] = pc[s] /\ req'[s] = req[s] /\ final'[s] = final[s]
  BY StepFrame, Zenon
<1>2. /\ \A k : Trail(s, k) => Trail(s, k)'
      /\ Claimed(s) => Claimed(s)'
      /\ Deployed(s) => Deployed(s)'
  BY <1>1, Zenon DEF Trail, Claimed, Deployed
<1>3. KeyOf(req[s])' = KeyOf(req[s])
  BY <1>1, Zenon DEF KeyOf
<1> QED BY <1>1, <1>2, <1>3, Zenon DEF ProgressAt

(* After a write the session goes on only with its row on record: its own,   *)
(* or the prior one of the same tenant that the write coalesced with.        *)
LEMMA WriteTrail ==
    ASSUME LoopTypeOK, NEW r \in Sessions, req' = req,
           NEW k \in Kinds, NEW c \in Codes, NEW ok \in Locations, NEW err \in Locations,
           ok # err, req[r] \in Request, Write(r, k, c, ok, err)
    PROVE  pc'[r] \in {ok, err} /\ (pc'[r] = ok => Trail(r, k)')
<1>1. Written(r, k, c, ok, err)
  BY WriteEffect, Zenon
<1>2. pc'[r] \in {ok, err}
  BY <1>1, Zenon DEF Written, LoopTypeOK
<1>3. ASSUME pc'[r] = ok PROVE Trail(r, k)'
  BY <1>1, <1>3, Zenon DEF Written, Trail
<1> QED BY <1>2, <1>3, Zenon

(* The request that moves: what it had put on record is still there, and the *)
(* step adds what its new location asks for.                                 *)
LEMMA OwnProgress ==
    ASSUME LoopTypeOK, NEW r \in Sessions, RequestStep(r), ProgressAt(r)
    PROVE  ProgressAt(r)'
<1> USE DEF HandlerAt, SessionAt, GraphAt, PersistAt
<1>1. CASE post_finding(r)
  BY <1>1, ZenonT(60) DEF post_finding, Goto, LoopTypeOK, ProgressAt, tables
<1>2. ASSUME ~post_finding(r) PROVE ProgressAt(r)'
  <2>1. pc[r] # "idle" /\ (HandlerStep(r) \/ SessionStep(r))
    BY <1>2, Zenon DEF RequestStep, HandlerStep, SessionStep, check_or_record, persist_finding,
       accept_and_enqueue, generate, deploy, audit_generated, audit_dead_letter, insert_policy,
       audit_validated, insert_deployment, audit_deployed, simulate, audit_error
  <2>2. /\ findings \subseteq findings' /\ collector \subseteq collector'
        /\ deployments \subseteq deployments'
        /\ req' = req
        /\ \A k : Trail(r, k) => Trail(r, k)'
        /\ Claimed(r) => Claimed(r)'
        /\ Deployed(r) => Deployed(r)'
    BY <2>1, StepFrame, Zenon DEF Trail, Claimed, Deployed
  <2>3. pc \in [Sessions -> Locations] /\ (pc[r] \in HandlerAt \cup SessionAt => req[r] \in Request)
    BY Zenon DEF LoopTypeOK
  <2>4. \A k \in Kinds, c \in Codes, ok \in Locations, err \in Locations :
          ok # err /\ req[r] \in Request /\ Write(r, k, c, ok, err) =>
            /\ pc'[r] \in {ok, err}
            /\ pc'[r] = ok => Trail(r, k)'
    BY <2>2, WriteTrail, Zenon
  <2>5. CASE check_or_record(r)
    BY <2>2, <2>3, <2>5, Zenon DEF check_or_record, HandlerFails, Goto, ProgressAt
  <2>6. CASE persist_finding(r)
    BY <2>2, <2>3, <2>6, Zenon DEF persist_finding, HandlerFails, Goto, ProgressAt, KeyOf, DbOutcome
  <2>7. CASE accept_and_enqueue(r)
    <3>1. pc'[r] \in {"generate", "done"} /\ (pc'[r] = "generate" => Trail(r, "accepted")')
      BY <2>3, <2>4, <2>7, Names, Zenon DEF accept_and_enqueue
    <3> QED BY <2>2, <2>7, <3>1, Zenon DEF accept_and_enqueue, ProgressAt
  <2>8. CASE generate(r)
    <3>1. /\ pc[r] = "generate" /\ UNCHANGED <<req, collector>>
          /\ \/ Goto(r, "error") /\ UNCHANGED final
             \/ \E policy \in {"policy", "malformed"}, valid \in BOOLEAN :
                   route_after_validation(r, policy, valid)
      BY <2>8, Zenon DEF generate, SlmAnswers, validate
    <3>2. /\ pc'[r] \in {"error", "deploy", "generated", "generate"}
          /\ final'[r] = "completed" => final[r] = "completed"
      BY <2>3, <3>1 DEF Goto, route_after_validation, LoopTypeOK
    <3> QED BY <2>2, <3>1, <3>2, Zenon DEF ProgressAt
  <2>9. CASE deploy(r)
    BY <2>2, <2>3, <2>9, Zenon DEF deploy, Goto, ProgressAt, LoopTypeOK
  <2>10. CASE audit_generated(r)
    <3>1. /\ pc'[r] \in {"policy", "dead_letter", "error"}
          /\ pc'[r] = "policy" => Trail(r, "generated")' /\ final[r] = "completed"
      <4>1. CASE final[r] = "completed"
        <5>1. Write(r, "generated", "none", "policy", "error")
          BY <2>10, <4>1, Zenon DEF audit_generated
        <5>2. req[r] \in Request
          BY <2>3, <2>10, Zenon DEF audit_generated
        <5>3. pc'[r] \in {"policy", "error"} /\ (pc'[r] = "policy" => Trail(r, "generated")')
          BY <2>4, <5>1, <5>2, Names, Zenon
        <5> QED BY <4>1, <5>3, Zenon
      <4>2. CASE final[r] # "completed"
        <5>1. Write(r, "generated", "none", "dead_letter", "error") \/ Goto(r, "error")
          BY <2>10, <4>2, Zenon DEF audit_generated
        <5>2. req[r] \in Request
          BY <2>3, <2>10, Zenon DEF audit_generated
        <5>3. CASE Write(r, "generated", "none", "dead_letter", "error")
          <6>1. pc'[r] \in {"dead_letter", "error"}
            BY <2>4, <5>2, <5>3, Names, Zenon
          <6> QED BY <6>1, Zenon
        <5>4. CASE Goto(r, "error")
          BY <2>3, <5>4, Zenon DEF Goto
        <5> QED BY <5>1, <5>3, <5>4, Zenon
      <4> QED BY <4>1, <4>2, Zenon
    <3> QED BY <2>2, <2>10, <3>1, Zenon DEF audit_generated, ProgressAt
  <2>11. CASE audit_dead_letter(r)
    <3>1. pc'[r] \in {"done", "error"}
      BY <2>3, <2>4, <2>11, Names, Zenon DEF audit_dead_letter
    <3> QED BY <2>2, <2>11, <3>1, Zenon DEF audit_dead_letter, ProgressAt
  <2>12. CASE insert_policy(r)
    BY <2>2, <2>3, <2>12, Zenon DEF insert_policy, Goto, ProgressAt, Claimed
  <2>13. CASE audit_validated(r)
    <3>1. pc'[r] \in {"deployment", "error"} /\ (pc'[r] = "deployment" => Trail(r, "validated")')
      BY <2>3, <2>4, <2>13, Names, Zenon DEF audit_validated
    <3> QED BY <2>2, <2>13, <3>1, Zenon DEF audit_validated, ProgressAt
  <2>14. CASE insert_deployment(r)
    <3> DEFINE new == [id |-> r, tenant |-> req[r].tenant, finding |-> req[r].finding,
                       status |-> "accepted"]
    <3>1. pc[r] = "deployment" /\ UNCHANGED <<final, collector>>
      BY <2>14, Zenon DEF insert_deployment
    <3>2. pc'[r] \in {"deployed", "error"} /\ (pc'[r] = "deployed" => new \in deployments')
      BY <2>3, <2>14, Zenon DEF insert_deployment, Goto
    <3>3. new \in deployments' => Deployed(r)'
      BY <2>2, Zenon DEF Deployed
    <3> HIDE DEF new
    <3> QED BY <2>2, <3>1, <3>2, <3>3, Zenon DEF ProgressAt
  <2>15. CASE audit_deployed(r)
    <3>1. pc'[r] \in {"telemetry", "error"}
      BY <2>3, <2>4, <2>15, Names, Zenon DEF audit_deployed
    <3> QED BY <2>2, <2>15, <3>1, Zenon DEF audit_deployed, ProgressAt
  <2>16. CASE simulate(r)
    BY <2>2, <2>3, <2>16, Zenon DEF simulate, Goto, ProgressAt
  <2>17. CASE audit_error(r)
    <3>1. pc'[r] \in {"done", "lost"}
      BY <2>3, <2>4, <2>17, Names, Zenon DEF audit_error
    <3> QED BY <2>2, <2>17, <3>1, Zenon DEF audit_error, ProgressAt
  <2> QED BY <2>1, <2>5, <2>6, <2>7, <2>8, <2>9, <2>10, <2>11, <2>12, <2>13, <2>14,
             <2>15, <2>16, <2>17, Zenon DEF HandlerStep, SessionStep
<1> QED BY <1>1, <1>2, Zenon

-----------------------------------------------------------------------------
(* What the step of one request may do to each of the tables.                *)
FindingsStep(r) ==
    \/ findings' = findings
    \/ findings' = findings \cup {KeyOf(req[r])} /\ pc[r] = "persist"

PoliciesStep(r) ==
    \/ policies' = policies
    \/ /\ pc[r] = "policy"
       /\ ~PolicyKeyTaken(req[r].tenant, req[r].finding)
       /\ policies' = policies \cup {[tenant |-> req[r].tenant,
             finding |-> req[r].finding, session |-> r]}

DeploymentsStep(r) ==
    \/ deployments' = deployments
    \/ /\ pc[r] = "deployment"
       /\ deployments' = deployments \cup {[id |-> r, tenant |-> req[r].tenant,
             finding |-> req[r].finding, status |-> "accepted"]}

AuditStep(r) ==
    \/ audit' = audit
    \/ \E kind \in Kinds, code \in Codes :
       /\ audit' = audit \cup {RowOf(r, kind, code)}
       /\ ~Conflicts(req[r].corr, kind)
       /\ kind \in {"validated", "deployed"} => pc[r] = kind
       /\ pc[r] \in HandlerAt \cup SessionAt

(* Every step of a handler or session does only that.                        *)
LEMMA TablesStep ==
    ASSUME LoopTypeOK, NEW r \in Sessions, RequestStep(r)
    PROVE  FindingsStep(r) /\ PoliciesStep(r) /\ DeploymentsStep(r) /\ AuditStep(r)
<1>1. CASE post_finding(r)
  BY <1>1, Zenon DEF post_finding, tables, FindingsStep, PoliciesStep, DeploymentsStep, AuditStep
<1>2. CASE check_or_record(r) \/ persist_finding(r)
  BY <1>2, Zenon DEF check_or_record, persist_finding, tables, FindingsStep, PoliciesStep, DeploymentsStep, AuditStep
<1>3. CASE generate(r) \/ deploy(r)
  BY <1>3, Zenon DEF generate, deploy, tables, FindingsStep, PoliciesStep, DeploymentsStep, AuditStep
<1>4. CASE insert_policy(r)
  BY <1>4, Zenon DEF insert_policy, tables, FindingsStep, PoliciesStep, DeploymentsStep, AuditStep
<1>5. CASE insert_deployment(r)
  BY <1>5, Zenon DEF insert_deployment, tables, FindingsStep, PoliciesStep, DeploymentsStep, AuditStep
<1>6. CASE simulate(r)
  BY <1>6, Zenon DEF simulate, tables, FindingsStep, PoliciesStep, DeploymentsStep, AuditStep
<1>7. \A k \in Kinds, c \in Codes, ok \in Locations, err \in Locations :
        /\ pc[r] \in HandlerAt \cup SessionAt
        /\ ok # err
        /\ Write(r, k, c, ok, err)
        /\ k \in {"validated", "deployed"} => pc[r] = k
        => AuditStep(r)
  <2> SUFFICES ASSUME NEW k \in Kinds, NEW c \in Codes, NEW ok \in Locations,
                      NEW err \in Locations, pc[r] \in HandlerAt \cup SessionAt,
                      ok # err, Write(r, k, c, ok, err),
                      k \in {"validated", "deployed"} => pc[r] = k
               PROVE  AuditStep(r)
    OBVIOUS
  <2>1. req[r] \in Request
    BY Zenon DEF LoopTypeOK
  <2>2. \/ audit' = audit
        \/ audit' = audit \cup {RowOf(r, k, c)} /\ ~Conflicts(req[r].corr, k)
    <3>1. Written(r, k, c, ok, err)
      BY <2>1, WriteEffect, Zenon
    <3> QED BY <3>1, Zenon DEF Written
  <2> QED BY <2>2, Zenon DEF AuditStep
<1>8. CASE accept_and_enqueue(r)
  <2>1. AuditStep(r)
    BY <1>7, <1>8, Names, Zenon DEF accept_and_enqueue, HandlerAt
  <2> QED BY <1>8, <2>1, Zenon DEF accept_and_enqueue, FindingsStep, PoliciesStep, DeploymentsStep
<1>9. CASE audit_generated(r)
  <2>1. pc[r] \in HandlerAt \cup SessionAt
    BY <1>9, Zenon DEF audit_generated, SessionAt, PersistAt
  <2>2. \/ Write(r, "generated", "none", "policy", "error")
        \/ Write(r, "generated", "none", "dead_letter", "error")
        \/ audit' = audit
    BY <1>9, Zenon DEF audit_generated
  <2>3. AuditStep(r)
    BY <1>7, <2>1, <2>2, Names, Zenon DEF AuditStep
  <2> QED BY <1>9, <2>3, Zenon DEF audit_generated, FindingsStep, PoliciesStep, DeploymentsStep
<1>10. CASE audit_dead_letter(r)
  <2>1. AuditStep(r)
    BY <1>7, <1>10, Names, Zenon DEF audit_dead_letter, SessionAt
  <2> QED BY <1>10, <2>1, Zenon DEF audit_dead_letter, FindingsStep, PoliciesStep, DeploymentsStep
<1>11. CASE audit_validated(r)
  <2>1. AuditStep(r)
    BY <1>7, <1>11, Names, Zenon DEF audit_validated, SessionAt, PersistAt
  <2> QED BY <1>11, <2>1, Zenon DEF audit_validated, FindingsStep, PoliciesStep, DeploymentsStep
<1>12. CASE audit_deployed(r)
  <2>1. AuditStep(r)
    BY <1>7, <1>12, Names, Zenon DEF audit_deployed, SessionAt, PersistAt
  <2> QED BY <1>12, <2>1, Zenon DEF audit_deployed, FindingsStep, PoliciesStep, DeploymentsStep
<1>13. CASE audit_error(r)
  <2>1. AuditStep(r)
    BY <1>7, <1>13, Names, Zenon DEF audit_error, SessionAt
  <2> QED BY <1>13, <2>1, Zenon DEF audit_error, FindingsStep, PoliciesStep, DeploymentsStep
<1> QED
  BY <1>1, <1>2, <1>3, <1>4, <1>5, <1>6, <1>8, <1>9, <1>10, <1>11, <1>12, <1>13, Zenon
  DEF RequestStep, HandlerStep, SessionStep

-----------------------------------------------------------------------------
(* The inductive invariant.                                                  *)
IInv ==
    /\ LoopTypeOK
    /\ ProgressInv
    /\ OneRecordPerFinding
    /\ DeploymentLineage
    /\ AuditUnique
    /\ AuditChain

(* The empty registry satisfies the invariant.                               *)
LEMMA InitIInv == LoopInit => IInv
<1> SUFFICES ASSUME LoopInit PROVE IInv
  OBVIOUS
<1>1. LoopTypeOK
  BY InitType, Zenon
<1>2. ProgressInv
  BY Zenon DEF LoopInit, TablesInit, ProgressInv, ProgressAt, FreshAt, SessionAt, GraphAt, PersistAt
<1> QED BY <1>1, <1>2, Zenon DEF IInv, LoopInit, TablesInit, OneRecordPerFinding,
           DeploymentLineage, AuditUnique, AuditChain

(* From insert_deployment on a request only goes forward.                    *)
LEMMA PastDeployment ==
    ASSUME LoopTypeOK, NEW r \in Sessions, RequestStep(r), pc'[r] \in Undeployed
    PROVE  pc[r] \in Undeployed \ {"deployment"}
<1> USE DEF Undeployed
<1>1. pc \in [Sessions -> Locations] /\ (pc[r] \in HandlerAt \cup SessionAt => req[r] \in Request)
  BY Zenon DEF LoopTypeOK
<1>2. ASSUME NEW k \in Kinds, NEW c \in Codes, NEW ok \in {"telemetry", "done"},
             NEW err \in {"error", "lost"}, Write(r, k, c, ok, err), pc[r] \in SessionAt
      PROVE  FALSE
  <2>1. ok \in Locations /\ err \in Locations /\ ok # err
    BY Names, Zenon
  <2>2. Written(r, k, c, ok, err)
    BY <1>1, <1>2, <2>1, WriteEffect, Zenon
  <2>3. pc'[r] \in {ok, err}
    BY <1>1, <2>2, Zenon DEF Written
  <2> QED BY <2>3, Zenon DEF HandlerAt, GraphAt
<1>3. CASE audit_dead_letter(r) \/ audit_deployed(r) \/ audit_error(r)
  BY <1>2, <1>3, Names, Zenon DEF audit_dead_letter, audit_deployed, audit_error, SessionAt, PersistAt
<1>4. CASE insert_deployment(r) \/ simulate(r)
  <2>1. pc'[r] \in {"deployed", "error", "done"}
    BY <1>1, <1>4, Zenon DEF insert_deployment, simulate, Goto
  <2> QED BY <2>1, Zenon DEF HandlerAt, GraphAt
<1>5. CASE post_finding(r) \/ HandlerStep(r) \/ generate(r) \/ deploy(r) \/ audit_generated(r)
           \/ insert_policy(r) \/ audit_validated(r)
  BY <1>5, Zenon DEF post_finding, HandlerStep, check_or_record, persist_finding,
     accept_and_enqueue, generate, deploy, audit_generated, insert_policy, audit_validated,
     HandlerAt, GraphAt
<1> QED BY <1>3, <1>4, <1>5, Zenon DEF RequestStep, SessionStep

(* Only insert_deployment makes a deployment row, and it names its session.  *)
LEMMA StepFresh ==
    ASSUME LoopTypeOK, NEW r \in Sessions, RequestStep(r), NEW s \in Sessions, FreshAt(s)
    PROVE  FreshAt(s)'
<1>1. \/ deployments' = deployments
      \/ pc[r] = "deployment" /\ \A d \in deployments' : d \in deployments \/ d.id = r
  BY TablesStep DEF DeploymentsStep
<1>2. CASE s # r
  <2>1. pc'[s] = pc[s]
    BY <1>2, StepFrame, Zenon
  <2> QED BY <1>1, <1>2, <2>1, Zenon DEF FreshAt
<1>3. CASE s = r
  <2> SUFFICES ASSUME pc'[r] \in Undeployed PROVE \A d \in deployments' : d.id # r
    BY <1>3, Zenon DEF FreshAt
  <2>1. pc[r] \in Undeployed /\ pc[r] # "deployment"
    BY PastDeployment, Zenon
  <2> QED BY <1>1, <1>3, <2>1, Zenon DEF FreshAt
<1> QED BY <1>2, <1>3, Zenon

(* Every step keeps ProgressInv: each transaction of GraphRunner._run        *)
(* establishes what the next location needs.                                 *)
LEMMA StepProgress ==
    ASSUME LoopTypeOK, ProgressInv, NEW r \in Sessions, RequestStep(r)
    PROVE  ProgressInv'
<1>1. \A s \in Sessions : ProgressAt(s)'
  BY OthersProgress, OwnProgress, Zenon DEF ProgressInv
<1>3. \A s \in Sessions : FreshAt(s)'
  BY StepFresh, Zenon DEF ProgressInv
<1>2. \A p \in policies' : KeyOf(p) \in findings'
  <2>1. findings \subseteq findings'
    BY StepFrame, Zenon
  <2>2. pc[r] = "policy" => KeyOf(req[r]) \in findings
    BY Zenon DEF ProgressInv, ProgressAt, SessionAt, PersistAt
  <2>3. \/ policies' = policies
        \/ /\ pc[r] = "policy"
           /\ policies' = policies \cup {[tenant |-> req[r].tenant,
                 finding |-> req[r].finding, session |-> r]}
    BY TablesStep, Zenon DEF PoliciesStep
  <2>4. \A p : p = [tenant |-> req[r].tenant, finding |-> req[r].finding, session |-> r]
                 => KeyOf(p) = KeyOf(req[r])
    BY DEF KeyOf
  <2>5. \A p \in policies : KeyOf(p) \in findings
    BY Zenon DEF ProgressInv
  <2> QED BY <2>1, <2>2, <2>3, <2>4, <2>5, Zenon
<1> QED BY <1>1, <1>2, <1>3, Zenon DEF ProgressInv

(* Every step keeps one policy and deployment per finding, and the lineage.  *)
LEMMA StepRecords ==
    ASSUME IInv, NEW r \in Sessions, RequestStep(r)
    PROVE  OneRecordPerFinding' /\ DeploymentLineage'
<1> USE DEF IInv
<1>1. \A p, q \in policies' : p.tenant = q.tenant /\ p.finding = q.finding => p = q
  <2> DEFINE new == [tenant |-> req[r].tenant, finding |-> req[r].finding, session |-> r]
  <2>1. \/ policies' = policies
        \/ /\ ~PolicyKeyTaken(req[r].tenant, req[r].finding)
           /\ policies' = policies \cup {new}
    BY TablesStep, Zenon DEF PoliciesStep
  <2>2. new.tenant = req[r].tenant /\ new.finding = req[r].finding
    OBVIOUS
  <2>3. \A p, q \in policies : p.tenant = q.tenant /\ p.finding = q.finding => p = q
    BY Zenon DEF OneRecordPerFinding
  <2>4. ~PolicyKeyTaken(req[r].tenant, req[r].finding) =>
          \A p \in policies : ~(p.tenant = new.tenant /\ p.finding = new.finding)
    BY <2>2, Zenon DEF PolicyKeyTaken
  <2> HIDE DEF new, IInv
  <2>5. CASE policies' = policies
    BY <2>3, <2>5, Zenon
  <2>6. CASE /\ policies' = policies \cup {new}
             /\ \A p \in policies : ~(p.tenant = new.tenant /\ p.finding = new.finding)
    BY <2>3, <2>6, Zenon
  <2> QED BY <2>1, <2>4, <2>5, <2>6, Zenon
<1>2. DeploymentLineage'
  <2>1. /\ findings \subseteq findings' /\ policies \subseteq policies'
        /\ collector \subseteq collector'
    BY StepFrame, Zenon
  <2>2. pc[r] = "deployment" => /\ r \in collector /\ Claimed(r)
                                /\ KeyOf(req[r]) \in findings
    BY Zenon DEF ProgressInv, ProgressAt, SessionAt, PersistAt
  <2>3. \/ deployments' = deployments
        \/ /\ pc[r] = "deployment"
           /\ deployments' = deployments \cup {[id |-> r, tenant |-> req[r].tenant,
                 finding |-> req[r].finding, status |-> "accepted"]}
    BY TablesStep, Zenon DEF DeploymentsStep
  <2>4. SUFFICES ASSUME NEW d \in deployments'
                 PROVE  /\ d.id \in collector'
                        /\ [tenant |-> d.tenant, finding |-> d.finding, session |-> d.id] \in policies'
                        /\ [tenant |-> d.tenant, finding |-> d.finding] \in findings'
    BY Zenon DEF DeploymentLineage
  <2>5. CASE d \in deployments
    BY <2>1, <2>5, Zenon DEF DeploymentLineage
  <2>6. CASE d \notin deployments
    <3>1. /\ pc[r] = "deployment"
          /\ d = [id |-> r, tenant |-> req[r].tenant, finding |-> req[r].finding,
                  status |-> "accepted"]
      BY <2>3, <2>6, Zenon
    <3>2. d.id = r /\ d.tenant = req[r].tenant /\ d.finding = req[r].finding
      BY <3>1, Zenon
    <3> QED BY <2>1, <2>2, <3>1, <3>2, Zenon DEF Claimed, KeyOf
  <2> QED BY <2>5, <2>6, Zenon
<1>3. \A d \in deployments' : \A p \in policies' :
        p.tenant = d.tenant /\ p.finding = d.finding => p.session = d.id
  <2> SUFFICES ASSUME NEW d \in deployments', NEW p \in policies',
                      p.tenant = d.tenant, p.finding = d.finding
               PROVE  p.session = d.id
    OBVIOUS
  <2>1. [tenant |-> d.tenant, finding |-> d.finding, session |-> d.id] \in policies'
    BY <1>2, Zenon DEF DeploymentLineage
  <2> QED BY <1>1, <2>1
<1> QED BY <1>1, <1>2, <1>3, Zenon DEF OneRecordPerFinding

(* Every step keeps the audit key unique and the chain of kinds unbroken.    *)
LEMMA StepAudit ==
    ASSUME IInv, NEW r \in Sessions, RequestStep(r)
    PROVE  AuditUnique' /\ AuditChain'
<1>0. LoopTypeOK /\ ProgressAt(r) /\ AuditUnique /\ AuditChain
  BY Zenon DEF IInv, ProgressInv
<1>1. /\ audit \subseteq audit' /\ policies \subseteq policies'
      /\ deployments \subseteq deployments'
  BY <1>0, StepFrame, Zenon
<1>2. CASE audit' = audit
  BY <1>0, <1>1, <1>2, Zenon DEF AuditUnique, AuditChain, AuditKinds
<1>3. CASE audit' # audit
  <2>1. PICK kind \in Kinds, code \in Codes :
          /\ audit' = audit \cup {RowOf(r, kind, code)}
          /\ ~Conflicts(req[r].corr, kind)
          /\ kind \in {"validated", "deployed"} => pc[r] = kind
    BY <1>0, <1>3, TablesStep, Zenon DEF AuditStep
  <2> DEFINE new == RowOf(r, kind, code)
  <2>2. /\ new.corr = req[r].corr /\ new.kind = kind /\ new.tenant = req[r].tenant
        /\ new.finding = req[r].finding /\ new.by = r
    BY Zenon DEF RowOf
  <2> HIDE DEF new
  <2>3. AuditUnique'
    <3>1. audit' = audit \cup {new} /\ \A a \in audit : ~(a.corr = new.corr /\ a.kind = new.kind)
      BY <2>1, <2>2, Zenon DEF Conflicts, new
    <3>2. \A a, b \in audit : a.corr = b.corr /\ a.kind = b.kind => a = b
      BY <1>0, Zenon DEF AuditUnique
    <3> QED BY <3>1, <3>2, ZenonT(60) DEF AuditUnique
  <2>4. SUFFICES ASSUME NEW a \in audit'
                 PROVE  /\ a.kind = "deployed" =>
                             /\ {"accepted", "generated", "validated"}
                                  \subseteq AuditKinds(a.tenant, a.corr)'
                             /\ \E d \in deployments' :
                                  d.id = a.by /\ d.tenant = a.tenant /\ d.finding = a.finding
                        /\ a.kind = "validated" =>
                             [tenant |-> a.tenant, finding |-> a.finding, session |-> a.by]
                               \in policies'
    BY <2>3, Zenon DEF AuditChain
  <2>5. \A t, c : AuditKinds(t, c) \subseteq AuditKinds(t, c)'
    BY <1>1, Zenon DEF AuditKinds
  <2>6. CASE a \in audit
    BY <1>0, <1>1, <2>5, <2>6, Zenon DEF AuditChain
  <2>7. CASE a = new
    <3>0. /\ a.corr = req[r].corr /\ a.kind = kind /\ a.tenant = req[r].tenant
          /\ a.finding = req[r].finding /\ a.by = r
      BY <2>2, <2>7, Zenon
    <3>1. ASSUME kind = "deployed"
          PROVE  /\ {"accepted", "generated", "validated"} \subseteq AuditKinds(a.tenant, a.corr)'
                 /\ \E d \in deployments' :
                      d.id = a.by /\ d.tenant = a.tenant /\ d.finding = a.finding
      <4>1. pc[r] = "deployed"
        BY <2>1, <3>1, Zenon
      <4>2. /\ Trail(r, "accepted") /\ Trail(r, "generated") /\ Trail(r, "validated")
            /\ Deployed(r)
        BY <1>0, <4>1, Zenon DEF ProgressAt, SessionAt, PersistAt
      <4>3. \A k : Trail(r, k) => k \in AuditKinds(a.tenant, a.corr)
        BY <3>0, Zenon DEF Trail, AuditKinds
      <4>4. {"accepted", "generated", "validated"} \subseteq AuditKinds(a.tenant, a.corr)'
        BY <2>5, <4>2, <4>3, Zenon
      <4> QED BY <1>1, <3>0, <4>2, <4>4, Zenon DEF Deployed
    <3>2. ASSUME kind = "validated"
          PROVE  [tenant |-> a.tenant, finding |-> a.finding, session |-> a.by] \in policies'
      <4>1. Claimed(r)
        BY <1>0, <2>1, <3>2, Zenon DEF ProgressAt
      <4> QED BY <1>1, <3>0, <4>1, Zenon DEF Claimed
    <3> QED BY <3>0, <3>1, <3>2, Zenon
  <2> QED BY <2>1, <2>6, <2>7, Zenon DEF new
<1> QED BY <1>2, <1>3, Zenon

(* Every step of the policy loop keeps the invariant.                        *)
LEMMA StepIInv == IInv /\ [Next]_vars => IInv'
<1> SUFFICES ASSUME IInv, [Next]_vars PROVE IInv'
  OBVIOUS
<1>1. LoopTypeOK'
  BY StepType, Zenon DEF IInv
<1>2. ASSUME NEW r \in Sessions, RequestStep(r) PROVE IInv'
  BY <1>1, <1>2, StepProgress, StepRecords, StepAudit, Zenon DEF IInv
<1>3. CASE Crash
  <2>1. /\ UNCHANGED <<tables, req, final, collector>>
        /\ \A r \in Sessions : pc'[r] \in {pc[r], "lost"}
    BY <1>3, Zenon DEF Crash, LoseTasks
  <2>2. ASSUME NEW r \in Sessions PROVE ProgressAt(r) => ProgressAt(r)'
    <3>1. /\ UNCHANGED <<findings, policies, deployments, audit, req, final, collector>>
          /\ pc'[r] = pc[r] \/ pc'[r] = "lost"
      BY <2>1, Zenon DEF tables
    <3>2. /\ UNCHANGED <<Claimed(r), Deployed(r), KeyOf(req[r])>>
          /\ \A k : Trail(r, k)' = Trail(r, k)
      BY <3>1, Zenon DEF Claimed, Deployed, KeyOf, Trail
    <3>3. CASE pc'[r] = pc[r]
      BY <3>1, <3>2, <3>3, ZenonT(60) DEF ProgressAt
    <3>4. CASE pc'[r] = "lost"
      BY <3>1, <3>4, Zenon DEF ProgressAt, SessionAt, GraphAt, PersistAt
    <3> QED BY <3>1, <3>3, <3>4, Zenon
  <2>3. UNCHANGED <<findings, policies, deployments, audit, collector>>
    BY <2>1, Zenon DEF tables
  <2>4. OneRecordPerFinding' /\ DeploymentLineage' /\ AuditUnique' /\ AuditChain'
    BY <2>3, Zenon DEF IInv, OneRecordPerFinding, DeploymentLineage, AuditUnique, AuditChain, AuditKinds
  <2>5. ASSUME NEW r \in Sessions PROVE FreshAt(r) => FreshAt(r)'
    BY <2>1, <2>3, Zenon DEF FreshAt, Undeployed, HandlerAt, GraphAt
  <2>6. ProgressInv'
    BY <2>2, <2>3, <2>5, Zenon DEF IInv, ProgressInv, KeyOf
  <2> QED BY <1>1, <2>4, <2>6, Zenon DEF IInv
<1>4. CASE UNCHANGED vars
  <2>1. UNCHANGED <<findings, policies, deployments, audit, pc, req, final, collector>>
    BY <1>4, Zenon DEF vars, loopVars, tables
  <2>2. OneRecordPerFinding' /\ DeploymentLineage' /\ AuditUnique' /\ AuditChain'
    BY <2>1, Zenon DEF IInv, OneRecordPerFinding, DeploymentLineage, AuditUnique, AuditChain, AuditKinds
  <2>3. ASSUME NEW r \in Sessions PROVE ProgressAt(r) => ProgressAt(r)'
    BY <2>1, Zenon DEF ProgressAt, Claimed, Deployed, KeyOf, Trail
  <2>4. ProgressInv'
    BY <2>1, <2>3, Zenon DEF IInv, ProgressInv, FreshAt, KeyOf
  <2> QED BY <1>1, <2>2, <2>4, Zenon DEF IInv
<1> QED BY <1>2, <1>3, <1>4, Zenon DEF Next, LoopStep, RequestStep, Quiescent

(* The inductive invariant holds of every behaviour.                         *)
LEMMA Invariance == Spec => []IInv
  BY InitIInv, StepIInv, PTL DEF Spec

(* FR-012: however many duplicate publications race past the idempotency     *)
(* check, and whatever fails or crashes, a finding has one policy row, and   *)
(* every deployment row of that finding comes from the policy's session.     *)
THEOREM SingleRecord == Spec => []OneRecordPerFinding
<1>1. IInv => OneRecordPerFinding
  BY Zenon DEF IInv
<1> QED BY <1>1, Invariance, PTL

(* FR-007, FR-008: a deployment row always has its finding row, its          *)
(* session's own policy row, and the collector's acceptance behind it.       *)
THEOREM Lineage == Spec => []DeploymentLineage
<1>1. IInv => DeploymentLineage
  BY Zenon DEF IInv
<1> QED BY <1>1, Invariance, PTL

(* FR-013: a 'deployed' audit row is preceded by its tenant's accepted,      *)
(* generated and validated rows under the same correlation id, and speaks    *)
(* of a deployment row of the session that wrote it.                         *)
THEOREM AuditTrail == Spec => []AuditChain
<1>1. IInv => AuditChain
  BY Zenon DEF IInv
<1> QED BY <1>1, Invariance, PTL

(* What each location of a session presupposes on record.                    *)
THEOREM Progress == Spec => []ProgressInv
<1>1. IInv => ProgressInv
  BY Zenon DEF IInv
<1> QED BY <1>1, Invariance, PTL

(* Audit and policy rows are never removed or rewritten by the loop.         *)
THEOREM Immutability == Spec => RecordsImmutable
<1>1. LoopTypeOK /\ [Next]_vars => [audit \subseteq audit' /\ policies \subseteq policies']_vars
  <2> SUFFICES ASSUME LoopTypeOK, Next
               PROVE  (audit \subseteq audit' /\ policies \subseteq policies') \/ UNCHANGED vars
    OBVIOUS
  <2>1. ASSUME NEW r \in Sessions, RequestStep(r)
        PROVE  audit \subseteq audit' /\ policies \subseteq policies'
    BY <2>1, StepFrame, Zenon
  <2>2. CASE Crash
    BY <2>2, Zenon DEF Crash, tables
  <2> QED BY <2>1, <2>2, Zenon DEF Next, LoopStep, RequestStep, Quiescent
<1> QED BY <1>1, TypeCorrect, PTL DEF Spec, RecordsImmutable

(* UNIQUE (correlation_id, kind) holds of the log the writer builds.         *)
THEOREM UniqueAudit == Spec => []AuditUnique
<1>1. IInv => AuditUnique
  BY Zenon DEF IInv
<1> QED BY <1>1, Invariance, PTL

-----------------------------------------------------------------------------
(* A delivery without a deployment row is on record as rejected.             *)

(* What makes UnrecordedIsRejected inductive: the collector has heard of a   *)
(* session only once its graph has run, so a request that is refused,        *)
(* replayed or fails in its handler is not among the delivered ones.         *)
RejectedAt(r) ==
    r \in collector =>
        /\ pc[r] \notin {"idle"} \cup HandlerAt \cup GraphAt
        /\ pc[r] = "done" => (\E d \in deployments : d.id = r) \/ Trail(r, "rejected")

(* The step of a delivered session keeps it: the two writes that end a       *)
(* session without a deployment put 'rejected' on its trail, and             *)
(* TelemetryGenerator.simulate comes after the deployment row.               *)
LEMMA OwnRejected ==
    ASSUME LoopTypeOK, NEW r \in Sessions, RequestStep(r), ProgressAt(r), RejectedAt(r)
    PROVE  RejectedAt(r)'
<1> USE DEF HandlerAt, GraphAt
<1>0. pc \in [Sessions -> Locations]
  BY Zenon DEF LoopTypeOK
<1>1. CASE post_finding(r)
  BY <1>1, ZenonT(60) DEF post_finding, RejectedAt
<1>2. CASE check_or_record(r) \/ persist_finding(r) \/ accept_and_enqueue(r) \/ generate(r)
  BY <1>2, Zenon DEF check_or_record, persist_finding, accept_and_enqueue, generate, RejectedAt
<1>3. CASE deploy(r)
  BY <1>0, <1>3, Zenon DEF deploy, Goto, RejectedAt
<1>4. ASSUME NEW k \in Kinds, NEW c \in Codes, NEW ok \in Locations, NEW err \in Locations,
             ok # err, req' = req, pc[r] \in SessionAt, Write(r, k, c, ok, err)
      PROVE  pc'[r] \in {ok, err} /\ (pc'[r] = ok => Trail(r, k)')
  BY <1>4, WriteTrail, Zenon DEF LoopTypeOK
<1>5. CASE audit_dead_letter(r)
  <2>1. pc'[r] \in {"done", "error"} /\ (pc'[r] = "done" => Trail(r, "rejected")')
    BY <1>4, <1>5, Names, Zenon DEF audit_dead_letter, SessionAt
  <2> QED BY <1>5, <2>1, Zenon DEF audit_dead_letter, RejectedAt
<1>6. CASE audit_error(r)
  <2>1. pc'[r] \in {"done", "lost"} /\ (pc'[r] = "done" => Trail(r, "rejected")')
    BY <1>4, <1>6, Names, Zenon DEF audit_error, SessionAt
  <2> QED BY <1>6, <2>1, Zenon DEF audit_error, RejectedAt
<1>7. CASE audit_generated(r)
  <2>1. pc[r] \in SessionAt /\ UNCHANGED <<req, collector>>
    BY <1>7, Zenon DEF audit_generated, SessionAt, PersistAt
  <2>2. \/ Write(r, "generated", "none", "policy", "error")
        \/ Write(r, "generated", "none", "dead_letter", "error")
        \/ Goto(r, "error")
    BY <1>7, Zenon DEF audit_generated
  <2>3. pc'[r] \in {"policy", "dead_letter", "error"}
    BY <1>0, <1>4, <2>1, <2>2, Names, Zenon DEF Goto
  <2> QED BY <2>1, <2>3, Zenon DEF RejectedAt
<1>8. CASE audit_validated(r)
  <2>1. pc'[r] \in {"deployment", "error"}
    BY <1>4, <1>8, Names, Zenon DEF audit_validated, SessionAt, PersistAt
  <2> QED BY <1>8, <2>1, Zenon DEF audit_validated, RejectedAt
<1>9. CASE audit_deployed(r)
  <2>1. pc'[r] \in {"telemetry", "error"}
    BY <1>4, <1>9, Names, Zenon DEF audit_deployed, SessionAt, PersistAt
  <2> QED BY <1>9, <2>1, Zenon DEF audit_deployed, RejectedAt
<1>10. CASE insert_policy(r) \/ insert_deployment(r)
  <2>1. pc'[r] \in {"validated", "deployed", "error"} /\ collector' = collector
    BY <1>0, <1>10, Zenon DEF insert_policy, insert_deployment, Goto
  <2> QED BY <2>1, Zenon DEF RejectedAt
<1>11. CASE simulate(r)
  <2>1. pc'[r] \in {"done", "error"} /\ UNCHANGED <<collector, deployments>>
    BY <1>0, <1>11, Zenon DEF simulate, Goto
  <2>2. \E d \in deployments : d.id = r
    BY <1>11, Zenon DEF simulate, ProgressAt, Deployed
  <2> QED BY <2>1, <2>2, Zenon DEF RejectedAt
<1> QED BY <1>1, <1>2, <1>3, <1>5, <1>6, <1>7, <1>8, <1>9, <1>10, <1>11, Zenon
        DEF RequestStep, HandlerStep, SessionStep

(* A step of one request leaves the others' deliveries and trails alone.     *)
LEMMA OthersRejected ==
    ASSUME LoopTypeOK, NEW r \in Sessions, RequestStep(r), NEW s \in Sessions \ {r}, RejectedAt(s)
    PROVE  RejectedAt(s)'
<1>1. /\ deployments \subseteq deployments' /\ audit \subseteq audit'
      /\ pc'[s] = pc[s] /\ req'[s] = req[s]
  BY StepFrame, Zenon
<1>2. collector' \subseteq collector \cup {r}
  BY Zenon DEF RequestStep, HandlerStep, SessionStep, post_finding, check_or_record, persist_finding,
     accept_and_enqueue, generate, deploy, audit_generated, audit_dead_letter, insert_policy,
     audit_validated, insert_deployment, audit_deployed, simulate, audit_error
<1>3. Trail(s, "rejected") => Trail(s, "rejected")'
  BY <1>1, Zenon DEF Trail
<1> QED BY <1>1, <1>2, <1>3, Zenon DEF RejectedAt

(* FR-008 as far as it holds: a session that returned from a delivery has    *)
(* its deployment row, or says 'rejected' on its own tenant's trail.         *)
THEOREM UnrecordedRejected == Spec => []UnrecordedIsRejected
<1> DEFINE J == \A r \in Sessions : RejectedAt(r)
<1>1. LoopInit => J
  BY Zenon DEF LoopInit, RejectedAt
<1>2. IInv /\ J /\ [Next]_vars => J'
  <2> SUFFICES ASSUME IInv, J, [Next]_vars PROVE J'
    OBVIOUS
  <2>1. ASSUME NEW r \in Sessions, RequestStep(r) PROVE J'
    BY <2>1, OwnRejected, OthersRejected, Zenon DEF IInv, ProgressInv
  <2>2. CASE Crash
    <3>1. /\ UNCHANGED <<req, collector, deployments, audit>>
          /\ \A r \in Sessions : pc'[r] \in {pc[r], "lost"}
      BY <2>2, Zenon DEF Crash, LoseTasks, tables
    <3> QED BY <3>1 DEF RejectedAt, Trail, HandlerAt, GraphAt
  <2>3. CASE UNCHANGED vars
    BY <2>3, Zenon DEF vars, loopVars, tables, RejectedAt, Trail
  <2> QED BY <2>1, <2>2, <2>3, Zenon DEF Next, LoopStep, RequestStep, Quiescent
<1>3. IInv /\ J => UnrecordedIsRejected
  BY Zenon DEF IInv, LoopTypeOK, RejectedAt, UnrecordedIsRejected
<1> QED BY <1>1, <1>2, <1>3, Invariance, PTL DEF Spec

-----------------------------------------------------------------------------
(* Refinement.                                                               *)

(* Every step of the policy loop is a step of FindingLifecycle or changes    *)
(* nothing it sees.                                                          *)
LEMMA StepLifecycle ==
    ASSUME IInv, NEW r \in Sessions, RequestStep(r)
    PROVE  [Lifecycle!LifeNext]_(Lifecycle!lifeVars)
<1> DEFINE key == KeyOf(req[r])
<1>0. LoopTypeOK /\ ProgressAt(r) /\ ProgressInv
  BY Zenon DEF IInv, ProgressInv
<1>1. pc[r] \in HandlerAt \cup SessionAt => key \in FindingRow
  BY <1>0, Zenon DEF LoopTypeOK, Request, FindingRow, KeyOf
<1>2. pc[r] = "deployment" => <<key, r>> \notin ClaimsIn("expired")
  <2>1. pc[r] = "deployment" => \A d \in deployments : d.id # r
    BY <1>0, Zenon DEF ProgressInv, FreshAt, Undeployed
  <2> HIDE DEF key
  <2>2. ASSUME <<key, r>> \in ClaimsIn("expired") PROVE \E d \in deployments : d.id = r
    BY <2>2, Zenon DEF ClaimsIn
  <2> QED BY <2>1, <2>2, Zenon
<1>3. CASE pc[r] = "persist"
  <2>1. policies' = policies /\ deployments' = deployments
    BY <1>0, <1>3, TablesStep, Zenon DEF PoliciesStep, DeploymentsStep
  <2>2. findings' = findings \/ findings' = findings \cup {key}
    BY <1>0, TablesStep, Zenon DEF FindingsStep
  <2> QED BY <1>1, <1>3, <2>1, <2>2, Zenon
          DEF Lifecycle!LifeNext, Lifecycle!Receive, Lifecycle!lifeVars, ClaimsIn, HandlerAt
<1>4. CASE pc[r] = "policy"
  <2>1. findings' = findings /\ deployments' = deployments
    BY <1>0, <1>4, TablesStep, Zenon DEF FindingsStep, DeploymentsStep
  <2>2. CASE policies' = policies
    BY <2>1, <2>2, Zenon DEF Lifecycle!lifeVars, ClaimsIn
  <2>3. CASE policies' # policies
    <3> DEFINE new == [tenant |-> req[r].tenant, finding |-> req[r].finding, session |-> r]
    <3>1. /\ ~PolicyKeyTaken(req[r].tenant, req[r].finding)
          /\ policies' = policies \cup {new}
      BY <1>0, <2>3, TablesStep, Zenon DEF PoliciesStep
    <3>2. key \in findings
      BY <1>0, <1>4, Zenon DEF ProgressAt, SessionAt, PersistAt
    <3>3. KeyOf(new) = key /\ new.session = r
      BY Zenon DEF KeyOf
    <3>4. \A p \in policies : KeyOf(p) # key
      BY <3>1, Zenon DEF PolicyKeyTaken, KeyOf
    <3> HIDE DEF new, key
    <3>5. {<<KeyOf(p), p.session>> : p \in policies'}
            = {<<KeyOf(p), p.session>> : p \in policies} \cup {<<key, r>>}
      BY <3>1, <3>3, Zenon
    <3>6. Lifecycle!Claim(key, r)
      <4>1. UNCHANGED <<findings, ClaimsIn("accepted"), ClaimsIn("expired")>>
        BY <2>1, Zenon DEF ClaimsIn
      <4>2. ASSUME NEW c \in {<<KeyOf(p), p.session>> : p \in policies} PROVE c[1] # key
        <5>1. PICK p \in policies : c = <<KeyOf(p), p.session>>
          OBVIOUS
        <5>2. c[1] = KeyOf(p)
          BY <5>1, Zenon
        <5> QED BY <3>4, <5>2, Zenon
      <4> QED BY <3>2, <3>5, <4>1, <4>2, ZenonT(60) DEF Lifecycle!Claim
    <3>7. key \in FindingRow
      BY <1>1, <1>4, Zenon DEF SessionAt, PersistAt
    <3> QED BY <3>6, <3>7, Zenon DEF Lifecycle!LifeNext
  <2> QED BY <2>2, <2>3, Zenon
<1>5. CASE pc[r] = "deployment"
  <2>1. findings' = findings /\ policies' = policies
    BY <1>0, <1>5, TablesStep, Zenon DEF FindingsStep, PoliciesStep
  <2>2. CASE deployments' = deployments
    BY <2>1, <2>2, Zenon DEF Lifecycle!lifeVars, ClaimsIn
  <2>3. CASE deployments' # deployments
    <3> DEFINE new == [id |-> r, tenant |-> req[r].tenant, finding |-> req[r].finding,
                       status |-> "accepted"]
    <3>1. deployments' = deployments \cup {new}
      BY <1>0, <2>3, TablesStep, Zenon DEF DeploymentsStep
    <3>2. Claimed(r)
      BY <1>0, <1>5, Zenon DEF ProgressAt
    <3>3. KeyOf(new) = key /\ new.id = r /\ new.status = "accepted"
      BY Zenon DEF KeyOf
    <3>4. <<key, r>> \in {<<KeyOf(p), p.session>> : p \in policies}
      <4> DEFINE row == [tenant |-> req[r].tenant, finding |-> req[r].finding, session |-> r]
      <4>1. row \in policies /\ KeyOf(row) = key /\ row.session = r
        BY <3>2, Zenon DEF Claimed, KeyOf
      <4> QED BY <4>1, Zenon
    <3> HIDE DEF new, key
    <3>5. ClaimsIn("accepted")' = ClaimsIn("accepted") \cup {<<key, r>>}
      BY <3>1, <3>3, Zenon DEF ClaimsIn
    <3>6. ClaimsIn("expired")' = ClaimsIn("expired")
      BY <3>1, <3>3, Zenon DEF ClaimsIn
    <3>7. Lifecycle!Activate(key, r)
      BY <1>2, <1>5, <2>1, <3>4, <3>5, <3>6, Zenon DEF Lifecycle!Activate
    <3>8. key \in FindingRow
      BY <1>1, <1>5, Zenon DEF SessionAt, PersistAt
    <3> QED BY <3>7, <3>8, Zenon DEF Lifecycle!LifeNext
  <2> QED BY <2>2, <2>3, Zenon
<1>6. CASE pc[r] \notin {"persist", "policy", "deployment"}
  <2>1. findings' = findings /\ policies' = policies /\ deployments' = deployments
    BY <1>0, <1>6, TablesStep, Zenon DEF FindingsStep, PoliciesStep, DeploymentsStep
  <2> QED BY <2>1, Zenon DEF Lifecycle!lifeVars, ClaimsIn
<1> QED BY <1>3, <1>4, <1>5, <1>6, Zenon

(* PolicyLoop implements FindingLifecycle: every behaviour of the handlers   *)
(* and sessions, faults and crashes included, takes each finding through     *)
(* received, claimed by one session, active, in that order.                  *)
THEOREM Refinement == Spec => FollowsLifecycle
<1>1. LoopInit => Lifecycle!LifeInit
  BY ZenonT(60) DEF LoopInit, TablesInit, Lifecycle!LifeInit, ClaimsIn
<1>2. IInv /\ [Next]_vars => [Lifecycle!LifeNext]_(Lifecycle!lifeVars)
  <2> SUFFICES ASSUME IInv, [Next]_vars PROVE [Lifecycle!LifeNext]_(Lifecycle!lifeVars)
    OBVIOUS
  <2>1. CASE Crash \/ UNCHANGED vars
    BY <2>1, Zenon DEF Crash, vars, tables, Lifecycle!lifeVars, ClaimsIn
  <2> QED BY <2>1, StepLifecycle, Zenon DEF Next, LoopStep, RequestStep, Quiescent
<1> QED BY <1>1, <1>2, Invariance, PTL DEF Spec, FollowsLifecycle, Lifecycle!LifeSpec

-----------------------------------------------------------------------------
(* The worker: its inductive invariant.                                      *)

(* A deployment has one row (deployment_id is the primary key), and a window *)
(* closes once.                                                              *)
RowsInv ==
    /\ \A d, e \in deployments : d.id = e.id => d = e
    /\ \A i, j \in 1..Len(closed) : closed[i] = closed[j] => i = j

(* The records the worker still has to process are rows as list_due read     *)
(* them: nobody else expires a deployment.  The record in hand alone has     *)
(* been expired, by the time of its audit write.                             *)
RowNow(i) ==
    IF i = 1 /\ wpc = "audit" THEN [queue[i] EXCEPT !.status = "expired"] ELSE queue[i]

QueueInv ==
    /\ \A i \in 1..Len(queue) :
         /\ RowNow(i) \in deployments
         /\ queue[i].status = "accepted"
         /\ queue[i].tenant = Public
         /\ queue[i].id \in Members(closed)
    /\ \A i, j \in 1..Len(queue) : queue[i].id = queue[j].id => i = j

(* The record in hand: its verdict is true when it is written, and its       *)
(* outcome row is there before it is expired.                                *)
HandInv ==
    /\ wpc = "outcome" => Witnessed(record, verdict)
    /\ wpc = "expire" => verdict # "none"
    /\ wpc \in {"expire", "audit"} => OutcomesOf(record.id) # {}

OutcomesRegistered == \A i \in 1..Len(outcomes) : \E d \in deployments : d.id = outcomes[i].id

(* While the database answers, the row that ends a session is its last.      *)
VerdictInv ==
    "db" \notin Faults =>
        \A a \in audit :
            /\ a.kind = "deployed" => pc[a.by] \in {"telemetry", "done", "lost"}
            /\ a.kind = "rejected" => pc[a.by] \in {"done", "lost"}

(* The inductive invariant of the worker's side. *)
WorkerInv ==
    /\ FeedbackTypeOK
    /\ RowsInv
    /\ QueueInv
    /\ HandInv
    /\ OutcomesRegistered
    /\ OutcomeLineage
    /\ ExpiredHasOutcome

(* The invariant of the application, but for its two counts. *)
CoreInv ==
    /\ IInv
    /\ WorkerInv
    /\ VerdictInv
    /\ OneVerdict

(* What the worker's calls take of the size of a set.  That the sets are     *)
(* finite is shown under the counts, below.                                  *)
Observed(l) == {x \in telemetry : /\ x.tenant = record.tenant
                                  /\ x.finding = record.finding
                                  /\ x.level = l}

SizesOK ==
    /\ PageSize \in Nat
    /\ \A l \in Levels :
         Cardinality(Observed(l)) \in Nat /\ (Observed(l) = {} => Cardinality(Observed(l)) = 0)

(* The record in hand once mark_expired has written it. *)
Expired == [record EXCEPT !.status = "expired"]

(* The deployments whose last outcome row expires them, or has. *)
Spent(d) == d.status = "expired" \/ (wpc = "expire" /\ d.id = record.id)

(* The deployments that left the worker's list unaudited for good. *)
Unaudited ==
    {d \in deployments : /\ d.status = "expired"
                         /\ ~Conflicts(d.id, "outcome")
                         /\ ~(wpc = "audit" /\ d.id = record.id)}

(* What a step does to the outcome rows of deployment e: none as yet, or the *)
(* ones there were, or one more; a row that does not expire costs a fault.   *)
RowPaid(e) ==
    \/ OutcomesOf(e.id)' = {}
    \/ \E d \in deployments :
         /\ d.id = e.id
         /\ \/ /\ OutcomesOf(e.id)' = OutcomesOf(e.id)
               /\ faults < faults' \/ (faults = faults' /\ (Spent(d) => Spent(e)'))
            \/ /\ ~Spent(d)
               /\ \E n : n \notin OutcomesOf(e.id) /\ OutcomesOf(e.id)' = OutcomesOf(e.id) \cup {n}
               /\ faults < faults' \/ (faults = faults' /\ Spent(e)')

(* What a step does to Unaudited: one more costs a fault. *)
StrayPaid ==
    \/ Unaudited' \subseteq Unaudited /\ faults <= faults'
    \/ Unaudited' \subseteq Unaudited \cup {Expired} /\ faults' = faults + 1

-----------------------------------------------------------------------------
(* Sequences: what Append and Tail do to the positions.                      *)
LEMMA Appended ==
    ASSUME NEW S, NEW s \in Seq(S), NEW e \in S
    PROVE  /\ Append(s, e) \in Seq(S)
           /\ Len(Append(s, e)) = Len(s) + 1
           /\ 1..Len(Append(s, e)) = 1..Len(s) \cup {Len(s) + 1}
           /\ Len(s) + 1 \notin 1..Len(s)
           /\ \A i \in 1..Len(s) : Append(s, e)[i] = s[i]
           /\ Append(s, e)[Len(s) + 1] = e
  OBVIOUS

LEMMA Dropped ==
    ASSUME NEW S, NEW s \in Seq(S), s # <<>>
    PROVE  /\ 1 \in 1..Len(s) /\ Head(s) = s[1] /\ s[1] \in S
           /\ Tail(s) \in Seq(S)
           /\ \A i \in 1..Len(Tail(s)) :
                i + 1 \in 1..Len(s) /\ i + 1 # 1 /\ Tail(s)[i] = s[i + 1]
<1>1. Len(s) \in Nat /\ Len(s) # 0
  OBVIOUS
<1> QED BY <1>1

-----------------------------------------------------------------------------
(* What a step of a handler or session leaves the worker with.  The tables   *)
(* only grow, and a new deployment row is an accepted one of a new id.       *)
LEMMA TelemetryGrows ==
    ASSUME NEW r \in Sessions, RequestStep(r)
    PROVE  telemetry \subseteq telemetry'
<1>1. CASE simulate(r)
  BY <1>1, Zenon DEF simulate
<1>2. CASE ~simulate(r)
  <2>1. telemetry' = telemetry
    BY <1>2, Zenon DEF RequestStep, HandlerStep, SessionStep, tables, post_finding, check_or_record,
       persist_finding, accept_and_enqueue, generate, deploy, audit_generated, audit_dead_letter,
       insert_policy, audit_validated, insert_deployment, audit_deployed, audit_error
  <2> QED BY <2>1
<1> QED BY <1>1, <1>2

LEMMA DeploymentsGrow ==
    ASSUME IInv, NEW r \in Sessions, RequestStep(r)
    PROVE  \/ deployments' = deployments
           \/ \E new : /\ deployments' = deployments \cup {new}
                       /\ new.id = r /\ new.status = "accepted"
                       /\ \A d \in deployments : d.id # r
<1>1. LoopTypeOK /\ FreshAt(r)
  BY Zenon DEF IInv, ProgressInv
<1>2. SUFFICES ASSUME deployments' # deployments
               PROVE  \E new : /\ deployments' = deployments \cup {new}
                               /\ new.id = r /\ new.status = "accepted"
                               /\ \A d \in deployments : d.id # r
  OBVIOUS
<1> DEFINE new == [id |-> r, tenant |-> req[r].tenant, finding |-> req[r].finding,
                   status |-> "accepted"]
<1>3. pc[r] = "deployment" /\ deployments' = deployments \cup {new}
  BY <1>1, <1>2, TablesStep, Zenon DEF DeploymentsStep
<1>4. \A d \in deployments : d.id # r
  BY <1>1, <1>3, Zenon DEF FreshAt, Undeployed
<1>5. new.id = r /\ new.status = "accepted"
  OBVIOUS
<1> HIDE DEF new
<1> QED BY <1>3, <1>4, <1>5, Zenon

(* An outcome row stays linked while the tables grow. *)
LEMMA LinkedStays ==
    ASSUME NEW o, Linked(o), findings \subseteq findings', policies \subseteq policies',
           collector \subseteq collector', telemetry \subseteq telemetry',
           Members(closed) \subseteq Members(closed)'
    PROVE  Linked(o)'
  BY SMTT(60) DEF Linked, Witnessed, KeyOf

(* The lineage of the rows already written, while the tables grow. *)
LEMMA LineageStays ==
    ASSUME OutcomeLineage, outcomes' = outcomes,
           findings \subseteq findings', policies \subseteq policies',
           collector \subseteq collector', telemetry \subseteq telemetry',
           Members(closed) \subseteq Members(closed)'
    PROVE  OutcomeLineage'
<1> SUFFICES ASSUME NEW i \in 1..Len(outcomes) PROVE Linked(outcomes[i])'
  BY Zenon DEF OutcomeLineage
<1>1. PICK o : o = outcomes[i]
  OBVIOUS
<1>2. Linked(o)
  BY <1>1, Zenon DEF OutcomeLineage
<1>3. Linked(o)'
  BY <1>2, LinkedStays, Zenon
<1>4. o = outcomes'[i]
  BY <1>1
<1> QED BY <1>3, <1>4 DEF Linked, Witnessed

LEMMA SessionKeepsWorker ==
    ASSUME IInv, WorkerInv, NEW r \in Sessions, RequestStep(r), UNCHANGED feedbackVars
    PROVE  WorkerInv'
<1>0. UNCHANGED <<outcomes, closed, wpc, queue, verdict, faults>>
  BY Zenon DEF feedbackVars, workerVars
<1>1. /\ findings \subseteq findings' /\ policies \subseteq policies'
      /\ deployments \subseteq deployments' /\ collector \subseteq collector'
      /\ telemetry \subseteq telemetry'
  BY StepFrame, TelemetryGrows, Zenon DEF IInv
<1>2. \/ deployments' = deployments
      \/ \E new : /\ deployments' = deployments \cup {new}
                  /\ new.id = r /\ new.status = "accepted"
                  /\ \A d \in deployments : d.id # r
  BY DeploymentsGrow, Zenon
<1>3. FeedbackTypeOK'
  BY <1>0, Zenon DEF WorkerInv, FeedbackTypeOK
<1>4. RowsInv'
  <2>1. \A d, e \in deployments' : d.id = e.id => d = e
    <3>1. \A d, e \in deployments : d.id = e.id => d = e
      BY Zenon DEF WorkerInv, RowsInv
    <3> QED BY <1>2, <3>1
  <2> QED BY <1>0, <2>1, Zenon DEF WorkerInv, RowsInv
<1>5. QueueInv'
  BY <1>0, <1>1, SMTT(60) DEF WorkerInv, QueueInv, RowNow, Members
<1>6. HandInv'
  BY <1>0, <1>1, SMTT(60) DEF WorkerInv, HandInv, Witnessed, record, KeyOf, OutcomesOf
<1>7. OutcomesRegistered'
  BY <1>0, <1>1, Zenon DEF WorkerInv, OutcomesRegistered
<1>8. OutcomeLineage'
  BY <1>0, <1>1, LineageStays, Zenon DEF WorkerInv, Members
<1>9. ExpiredHasOutcome'
  BY <1>0, <1>2, SMTT(60) DEF WorkerInv, ExpiredHasOutcome, Members, OutcomesOf
<1> QED BY <1>3, <1>4, <1>5, <1>6, <1>7, <1>8, <1>9, Zenon DEF WorkerInv

-----------------------------------------------------------------------------
(* One verdict.  Without database faults a write that adds its row moves its *)
(* session on.                                                               *)
LEMMA CleanWrite ==
    ASSUME LoopTypeOK, "db" \notin Faults, NEW r \in Sessions, req[r] \in Request,
           NEW k \in Kinds, NEW c \in Codes, NEW ok, NEW err, Write(r, k, c, ok, err)
    PROVE  \/ audit' = audit
           \/ audit' = audit \cup {RowOf(r, k, c)} /\ pc'[r] = ok
<1> DEFINE row == RowOf(r, k, c)
<1>1. /\ audit' = AfterWrite(row)
      /\ pc' = [pc EXCEPT ![r] = IF ~WriteRaises(row) THEN ok ELSE err]
  BY Zenon DEF Write, Goto, DbOutcome
<1>2. CASE Conflicts(row.corr, row.kind)
  BY <1>1, <1>2, Zenon DEF AfterWrite
<1>3. CASE ~Conflicts(row.corr, row.kind)
  <2>1. ~WriteRaises(row)
    BY <1>3, Zenon DEF WriteRaises, Conflicts
  <2>2. pc'[r] = ok
    BY <1>1, <2>1, Zenon DEF LoopTypeOK
  <2> QED BY <1>1, <1>3, <2>2, Zenon DEF AfterWrite
<1> QED BY <1>2, <1>3, Zenon

(* What a step of session r does to the rows that give its verdict. *)
Concluding(r) ==
    /\ \A a \in audit' : a \in audit \/
         /\ a.by = r
         /\ a.kind = "deployed" => pc[r] = "deployed" /\ pc'[r] = "telemetry"
         /\ a.kind = "rejected" => pc[r] \in {"dead_letter", "error"} /\ pc'[r] = "done"
    /\ pc[r] \notin {"done", "lost"}
    /\ pc[r] = "telemetry" => pc'[r] = "done"

LEMMA StepConcluding ==
    ASSUME LoopTypeOK, "db" \notin Faults, NEW r \in Sessions, RequestStep(r)
    PROVE  Concluding(r)
<1>0. \A k \in Kinds, c \in Codes :
        /\ RowOf(r, k, c).by = r /\ RowOf(r, k, c).kind = k
  BY DEF RowOf
<1>1. CASE post_finding(r) \/ check_or_record(r) \/ persist_finding(r) \/ generate(r) \/ deploy(r)
           \/ insert_policy(r) \/ insert_deployment(r)
  BY <1>1, Zenon DEF Concluding, post_finding, check_or_record, persist_finding, generate, deploy,
     insert_policy, insert_deployment, tables
<1>2. CASE simulate(r)
  <2>1. pc[r] = "telemetry" /\ audit' = audit
    BY <1>2, Zenon DEF simulate
  <2>2. pc'[r] = "done"
    BY <1>2 DEF simulate, Goto, DbOutcome, LoopTypeOK
  <2> QED BY <2>1, <2>2, Zenon DEF Concluding
<1>3. CASE accept_and_enqueue(r) \/ audit_generated(r) \/ audit_dead_letter(r)
           \/ audit_validated(r) \/ audit_deployed(r) \/ audit_error(r)
  <2>1. req[r] \in Request /\ pc[r] \notin {"done", "lost", "telemetry"}
    BY <1>3, Zenon DEF LoopTypeOK, accept_and_enqueue, audit_generated, audit_dead_letter,
       audit_validated, audit_deployed, audit_error, HandlerAt, SessionAt, PersistAt
  <2>2. ASSUME NEW k \in Kinds, NEW c \in Codes, NEW ok, NEW err, Write(r, k, c, ok, err),
               k = "deployed" => pc[r] = "deployed" /\ ok = "telemetry",
               k = "rejected" => pc[r] \in {"dead_letter", "error"} /\ ok = "done"
        PROVE  Concluding(r)
    <3>1. audit' = audit \/ (audit' = audit \cup {RowOf(r, k, c)} /\ pc'[r] = ok)
      BY <2>1, <2>2, CleanWrite, Zenon
    <3>2. ASSUME NEW a \in audit', a \notin audit
          PROVE  a.by = r /\ a.kind = k /\ pc'[r] = ok
      <4>1. a = RowOf(r, k, c) /\ pc'[r] = ok
        BY <3>1, <3>2
      <4> QED BY <1>0, <4>1, Zenon
    <3>3. \A a \in audit' : a \in audit \/
            /\ a.by = r
            /\ a.kind = "deployed" => pc[r] = "deployed" /\ pc'[r] = "telemetry"
            /\ a.kind = "rejected" => pc[r] \in {"dead_letter", "error"} /\ pc'[r] = "done"
      BY <2>2, <3>2, Zenon
    <3> QED BY <2>1, <3>3, Zenon DEF Concluding
  <2>3. CASE accept_and_enqueue(r)
    BY <2>2, <2>3, Names, Zenon DEF accept_and_enqueue
  <2>4. CASE audit_generated(r)
    <3>1. CASE audit' = audit
      BY <2>1, <3>1, Zenon DEF Concluding
    <3>2. CASE \E ok : Write(r, "generated", "none", ok, "error")
      BY <2>2, <3>2, Names, Zenon
    <3> QED BY <2>4, <3>1, <3>2, Zenon DEF audit_generated
  <2>5. CASE audit_dead_letter(r)
    BY <2>2, <2>5, Names, Zenon DEF audit_dead_letter
  <2>6. CASE audit_validated(r)
    BY <2>2, <2>6, Names, Zenon DEF audit_validated
  <2>7. CASE audit_deployed(r)
    BY <2>2, <2>7, Names, Zenon DEF audit_deployed
  <2>8. CASE audit_error(r)
    BY <2>2, <2>8, Names, Zenon DEF audit_error
  <2> QED BY <1>3, <2>3, <2>4, <2>5, <2>6, <2>7, <2>8
<1> QED BY <1>1, <1>2, <1>3, Zenon DEF RequestStep, HandlerStep, SessionStep

(* No session contradicts itself: a step that writes 'deployed' leaves from  *)
(* where no 'rejected' row can have been written, and the other way round.   *)
LEMMA SessionKeepsVerdict ==
    ASSUME IInv, VerdictInv, OneVerdict, NEW r \in Sessions, RequestStep(r)
    PROVE  VerdictInv' /\ OneVerdict'
<1>0. SUFFICES ASSUME "db" \notin Faults PROVE VerdictInv' /\ OneVerdict'
  BY Zenon DEF VerdictInv, OneVerdict
<1>1. LoopTypeOK /\ LoopTypeOK'
  BY StepType, Zenon DEF IInv, Next, LoopStep, RequestStep
<1>2. Concluding(r)
  BY <1>0, <1>1, StepConcluding, Zenon
<1>3. \A s \in Sessions \ {r} : pc'[s] = pc[s]
  BY <1>1, StepFrame, Zenon
<1>4. \A a \in audit' : a.by \in Sessions
  BY <1>1 DEF LoopTypeOK, TablesTypeOK, AuditRow
<1>5. \A a \in audit : /\ a.kind = "deployed" => pc[a.by] \in {"telemetry", "done", "lost"}
                       /\ a.kind = "rejected" => pc[a.by] \in {"done", "lost"}
  BY <1>0, Zenon DEF VerdictInv
<1>6. VerdictInv'
  <2>1. SUFFICES ASSUME NEW a \in audit'
                 PROVE  /\ a.kind = "deployed" => pc'[a.by] \in {"telemetry", "done", "lost"}
                        /\ a.kind = "rejected" => pc'[a.by] \in {"done", "lost"}
    BY Zenon DEF VerdictInv
  <2>2. CASE a \in audit
    <3>1. CASE a.by = r
      BY <1>2, <1>5, <2>2, <3>1, Zenon DEF Concluding
    <3>2. CASE a.by # r
      BY <1>3, <1>4, <1>5, <2>2, <3>2, Zenon
    <3> QED BY <3>1, <3>2
  <2>3. CASE a \notin audit
    BY <1>2, <2>3, Zenon DEF Concluding
  <2> QED BY <2>2, <2>3
<1>7. OneVerdict'
  <2>1. ASSUME NEW a \in audit', NEW b \in audit', a.by = b.by, a.kind = "deployed",
               b.kind = "rejected"
        PROVE  FALSE
    <3>1. CASE a \in audit /\ b \in audit
      BY <1>0, <2>1, <3>1 DEF OneVerdict
    <3>2. CASE a \notin audit
      <4>1. a.by = r /\ pc[r] = "deployed" /\ pc'[r] = "telemetry"
        BY <1>2, <2>1, <3>2, Zenon DEF Concluding
      <4>2. b \in audit
        BY <1>2, <2>1, <4>1 DEF Concluding
      <4> QED BY <1>5, <2>1, <4>1, <4>2, Zenon
    <3>3. CASE a \in audit /\ b \notin audit
      <4>1. b.by = r /\ pc[r] \in {"dead_letter", "error"}
        BY <1>2, <2>1, <3>3, Zenon DEF Concluding
      <4> QED BY <1>5, <2>1, <3>3, <4>1
    <3> QED BY <3>1, <3>2, <3>3
  <2>2. ASSUME NEW a \in audit', NEW b \in audit', a.by = b.by,
               {a.kind, b.kind} = {"deployed", "rejected"}
        PROVE  FALSE
    <3>1. \/ a.kind = "deployed" /\ b.kind = "rejected"
          \/ b.kind = "deployed" /\ a.kind = "rejected"
      BY <2>2
    <3> QED BY <2>1, <2>2, <3>1
  <2> QED BY <2>2, Zenon DEF OneVerdict
<1> QED BY <1>6, <1>7

-----------------------------------------------------------------------------
(* The worker's calls.  A call that raises costs one of the bounded faults.  *)
LEMMA Counted ==
    ASSUME faults \in 0..MaxFaults, NEW o \in WorkerOutcome, Count(o)
    PROVE  /\ faults' \in 0..MaxFaults
           /\ faults \in Nat /\ faults' \in Nat
           /\ faults' = IF o = "ok" THEN faults ELSE faults + 1
           /\ o \in {"ok", "failed", "ack_lost"}
<1>1. MaxFaults \in Nat /\ faults \in Nat
  BY FeedbackAssumption
<1>2. o \in {"ok", "failed", "ack_lost"} /\ (o # "ok" => faults < MaxFaults)
  BY Zenon DEF WorkerOutcome
<1>3. faults' = IF o = "ok" THEN faults ELSE faults + 1
  BY Zenon DEF Count
<1> QED BY <1>1, <1>2, <1>3

(* The record in hand is a registered, accepted deployment of the polled     *)
(* tenant, until it is expired.                                              *)
LEMMA InHand ==
    ASSUME WorkerInv, wpc # "poll"
    PROVE  /\ queue \in Seq(DeploymentRow) /\ queue # <<>>
           /\ record = queue[1] /\ 1 \in 1..Len(queue)
           /\ record \in DeploymentRow
           /\ record.status = "accepted" /\ record.tenant = Public
           /\ record.id \in Members(closed)
           /\ wpc # "audit" => record \in deployments
           /\ wpc = "audit" => [record EXCEPT !.status = "expired"] \in deployments
<1>1. queue \in Seq(DeploymentRow) /\ queue # <<>>
  BY Zenon DEF WorkerInv, FeedbackTypeOK
<1>2. 1 \in 1..Len(queue) /\ record = queue[1] /\ queue[1] \in DeploymentRow
  BY <1>1, Dropped, Zenon DEF record
<1>3. RowNow(1) \in deployments /\ queue[1].status = "accepted" /\ queue[1].tenant = Public
      /\ queue[1].id \in Members(closed)
  BY <1>2, Zenon DEF WorkerInv, QueueInv
<1>4. RowNow(1) = IF wpc = "audit" THEN [record EXCEPT !.status = "expired"] ELSE record
  BY <1>2, Zenon DEF RowNow
<1> QED BY <1>1, <1>2, <1>3, <1>4, Zenon

(* run_forever's except clause leaves the worker nothing to hold on to. *)
LEMMA Abandoned ==
    ASSUME Abandon
    PROVE  /\ QueueInv' /\ HandInv'
           /\ wpc' = "poll" /\ queue' = <<>> /\ verdict' = "none"
           /\ queue' \in Seq(DeploymentRow)
<1>1. wpc' = "poll" /\ queue' = <<>> /\ verdict' = "none"
  BY Zenon DEF Abandon
<1>2. 1..Len(queue') = {}
  BY <1>1
<1>3. QueueInv'
  BY <1>2, Zenon DEF QueueInv
<1>4. HandInv'
  BY <1>1, Zenon DEF HandInv
<1>5. <<>> \in Seq(DeploymentRow)
  OBVIOUS
<1> QED BY <1>1, <1>3, <1>4, <1>5, Zenon

(* tick's loop goes on to a record that is as list_due read it. *)
LEMMA Advanced ==
    ASSUME WorkerInv, wpc = "audit", NextRecord, UNCHANGED <<deployments, closed>>
    PROVE  /\ QueueInv' /\ HandInv'
           /\ wpc' \in {"poll", "policy"} /\ verdict' = "none"
           /\ queue' \in Seq(DeploymentRow) /\ (wpc' # "poll" => queue' # <<>>)
<1>1. queue' = Tail(queue) /\ verdict' = "none"
      /\ wpc' = IF Tail(queue) = <<>> THEN "poll" ELSE "policy"
  BY Zenon DEF NextRecord
<1>2. queue \in Seq(DeploymentRow) /\ queue # <<>>
  BY InHand, Zenon
<1>3. /\ queue' \in Seq(DeploymentRow)
      /\ \A i \in 1..Len(queue') :
           i + 1 \in 1..Len(queue) /\ i + 1 # 1 /\ queue'[i] = queue[i + 1]
  BY <1>1, <1>2, Dropped, Zenon
<1>4. wpc' \in {"poll", "policy"} /\ (wpc' # "poll" => queue' # <<>>)
  BY <1>1, Zenon
<1>5. HandInv'
  BY <1>4, Zenon DEF HandInv
<1>6. ASSUME NEW i \in 1..Len(queue')
      PROVE  /\ RowNow(i)' \in deployments' /\ queue'[i].status = "accepted"
             /\ queue'[i].tenant = Public /\ queue'[i].id \in Members(closed)'
  <2>1. i + 1 \in 1..Len(queue) /\ i + 1 # 1 /\ queue'[i] = queue[i + 1]
    BY <1>3, <1>6, Zenon
  <2>2. RowNow(i + 1) = queue[i + 1]
    BY <2>1, Zenon DEF RowNow
  <2>3. RowNow(i)' = queue'[i]
    BY <1>4, Zenon DEF RowNow
  <2>4. /\ RowNow(i + 1) \in deployments /\ queue[i + 1].status = "accepted"
        /\ queue[i + 1].tenant = Public /\ queue[i + 1].id \in Members(closed)
    BY <2>1, Zenon DEF WorkerInv, QueueInv
  <2>5. Members(closed)' = Members(closed) /\ deployments' = deployments
    BY Zenon DEF Members
  <2> QED BY <2>1, <2>2, <2>3, <2>4, <2>5, Zenon
<1>7. ASSUME NEW i \in 1..Len(queue'), NEW j \in 1..Len(queue'), queue'[i].id = queue'[j].id
      PROVE  i = j
  <2>1. /\ i + 1 \in 1..Len(queue) /\ queue'[i] = queue[i + 1]
        /\ j + 1 \in 1..Len(queue) /\ queue'[j] = queue[j + 1]
    BY <1>3, <1>7, Zenon
  <2>2. \A a, b \in 1..Len(queue) : queue[a].id = queue[b].id => a = b
    BY Zenon DEF WorkerInv, QueueInv
  <2>3. i + 1 = j + 1
    BY <1>7, <2>1, <2>2, Zenon
  <2>4. i \in Nat /\ j \in Nat
    BY <1>7
  <2> QED BY <2>3, <2>4
<1> QED BY <1>1, <1>3, <1>4, <1>5, <1>6, <1>7, ZenonT(60) DEF QueueInv

(* A call that only reads changes nothing but the worker's own variables. *)
LEMMA ReadKeeps ==
    ASSUME WorkerInv, UNCHANGED <<tables, outcomes, closed, collector>>,
           FeedbackTypeOK', QueueInv', HandInv'
    PROVE  WorkerInv'
<1>0. UNCHANGED <<findings, policies, deployments, telemetry, outcomes, closed, collector>>
  BY Zenon DEF tables
<1>1. RowsInv'
  BY <1>0, Zenon DEF WorkerInv, RowsInv
<1>2. OutcomesRegistered'
  BY <1>0, Zenon DEF WorkerInv, OutcomesRegistered
<1>3. OutcomeLineage'
  BY <1>0, LineageStays, Zenon DEF WorkerInv, Members
<1>4. ExpiredHasOutcome'
  BY <1>0, ZenonT(60) DEF WorkerInv, ExpiredHasOutcome, Members, OutcomesOf
<1> QED BY <1>1, <1>2, <1>3, <1>4, Zenon DEF WorkerInv

(* A page of list_due: distinct rows of the polled tenant, accepted and with *)
(* their windows closed.                                                     *)
LEMMA PageRows ==
    ASSUME TablesTypeOK, WorkerInv, PageSize \in Nat, PageSize > 0, NEW page \in DuePages, NEW q,
           q = [i \in 1..PageSize |-> DeploymentOf(closed[page[i]])]
    PROVE  /\ q \in Seq(DeploymentRow) /\ q # <<>> /\ Len(q) = PageSize
           /\ \A i \in 1..Len(q) :
                /\ q[i] \in deployments /\ q[i].status = "accepted"
                /\ q[i].tenant = Public /\ q[i].id \in Members(closed)
           /\ \A i, j \in 1..Len(q) : q[i].id = q[j].id => i = j
<1>1. closed \in Seq(Sessions) /\ Len(closed) \in Nat
  BY DEF WorkerInv, FeedbackTypeOK
<1>2. PageSize \in Nat \ {0}
  OBVIOUS
<1>3. /\ page \in [1..PageSize -> DueAt]
      /\ \A i, j \in 1..PageSize : i < j => page[i] < page[j]
  BY Zenon DEF DuePages
<1>4. ASSUME NEW i \in 1..PageSize
      PROVE  /\ q[i] \in deployments /\ q[i].status = "accepted" /\ q[i].tenant = Public
             /\ page[i] \in 1..Len(closed) /\ q[i].id = closed[page[i]]
  <2>1. page[i] \in DueAt
    BY <1>3
  <2>2. page[i] \in 1..Len(closed)
    BY <2>1, Zenon DEF DueAt
  <2>3. PICK d \in deployments : d.id = closed[page[i]] /\ d.status = "accepted" /\ d.tenant = Public
    BY <2>1, Zenon DEF DueAt
  <2>4. DeploymentOf(closed[page[i]]) \in deployments /\ DeploymentOf(closed[page[i]]).id = closed[page[i]]
    BY <2>3, Zenon DEF DeploymentOf
  <2>5. DeploymentOf(closed[page[i]]) = d
    BY <2>3, <2>4, Zenon DEF WorkerInv, RowsInv
  <2>6. q[i] = DeploymentOf(closed[page[i]])
    BY <1>4, Zenon
  <2> QED BY <2>2, <2>3, <2>5, <2>6, ZenonT(60)
<1>5. q \in [1..PageSize -> DeploymentRow]
  BY <1>4, Zenon DEF TablesTypeOK
<1>6. q \in Seq(DeploymentRow) /\ Len(q) = PageSize
  BY <1>2, <1>5
<1>7. q # <<>>
  BY <1>2, <1>6
<1>8. \A i \in 1..PageSize : q[i].id \in Members(closed)
  BY <1>4, Zenon DEF Members
<1>9. ASSUME NEW i \in 1..PageSize, NEW j \in 1..PageSize, q[i].id = q[j].id PROVE i = j
  <2>0. /\ page[i] \in 1..Len(closed) /\ q[i].id = closed[page[i]]
        /\ page[j] \in 1..Len(closed) /\ q[j].id = closed[page[j]]
    BY <1>4, <1>9, Zenon
  <2>1. page[i] = page[j]
    BY <1>9, <2>0, ZenonT(60) DEF WorkerInv, RowsInv
  <2>2. page[i] \in Nat /\ page[j] \in Nat
    BY <1>1, <1>4
  <2>3. i \in Nat /\ j \in Nat
    BY <1>2
  <2> QED BY <1>3, <2>1, <2>2, <2>3
<1> QED BY <1>4, <1>6, <1>7, <1>8, <1>9, Zenon

(* list_due *)
LEMMA ListKeeps ==
    ASSUME LoopTypeOK, WorkerInv, PageSize \in Nat, list_due, UNCHANGED loopVars
    PROVE  WorkerInv'
<1>1. PICK o \in WorkerOutcome, page \in DuePages :
        /\ IF o = "ok" /\ PageSize > 0
           THEN wpc' = "policy" /\ queue' = [i \in 1..PageSize |-> DeploymentOf(closed[page[i]])]
           ELSE UNCHANGED <<wpc, queue>>
        /\ Count(o)
  BY Zenon DEF list_due
<1>2. UNCHANGED <<tables, outcomes, closed, verdict, collector>> /\ wpc = "poll"
  BY Zenon DEF list_due, loopVars
<1>3. faults' \in 0..MaxFaults
  BY <1>1, Counted, Zenon DEF WorkerInv, FeedbackTypeOK
<1>4. UNCHANGED <<deployments, telemetry, Members(closed)>>
  BY <1>2, Zenon DEF tables, Members
<1>5. CASE o = "ok" /\ PageSize > 0
  <2>1. wpc' = "policy"
    BY <1>1, <1>5, Zenon
  <2>2. /\ queue' \in Seq(DeploymentRow) /\ queue' # <<>>
        /\ \A i \in 1..Len(queue') :
             /\ queue'[i] \in deployments /\ queue'[i].status = "accepted"
             /\ queue'[i].tenant = Public /\ queue'[i].id \in Members(closed)
        /\ \A i, j \in 1..Len(queue') : queue'[i].id = queue'[j].id => i = j
    <3>1. queue' = [i \in 1..PageSize |-> DeploymentOf(closed[page[i]])]
      BY <1>1, <1>5, Zenon
    <3>2. TablesTypeOK /\ PageSize > 0
      BY <1>5, Zenon DEF LoopTypeOK
    <3> QED BY <3>1, <3>2, PageRows, ZenonT(30)
  <2>3. \A i : RowNow(i)' = queue'[i]
    BY <2>1, Zenon DEF RowNow
  <2>4. QueueInv'
    BY <1>4, <2>2, <2>3, Zenon DEF QueueInv
  <2>5. HandInv'
    BY <2>1, Zenon DEF HandInv
  <2>6. FeedbackTypeOK'
    BY <1>2, <1>3, <2>1, <2>2, Zenon DEF WorkerInv, FeedbackTypeOK
  <2> QED BY <1>2, <2>4, <2>5, <2>6, ReadKeeps, Zenon
<1>6. CASE ~(o = "ok" /\ PageSize > 0)
  <2>1. UNCHANGED <<wpc, queue>>
    BY <1>1, <1>6, Zenon
  <2>2. QueueInv'
    BY <1>4, <2>1, Zenon DEF WorkerInv, QueueInv, RowNow
  <2>3. HandInv'
    BY <1>2, <2>1, Zenon DEF HandInv
  <2>4. FeedbackTypeOK'
    BY <1>2, <1>3, <2>1, Zenon DEF WorkerInv, FeedbackTypeOK
  <2> QED BY <1>2, <2>2, <2>3, <2>4, ReadKeeps, Zenon
<1> QED BY <1>5, <1>6

(* A read that goes on with the same record, or gives the tick up. *)
LEMMA ReadOn ==
    ASSUME WorkerInv, wpc \in {"policy", "collect"},
           UNCHANGED <<tables, outcomes, closed, collector>>, faults' \in 0..MaxFaults,
           \/ Abandon
           \/ /\ UNCHANGED queue /\ wpc' \in {"collect", "outcome"}
              /\ verdict' \in States \cup {"none"}
              /\ wpc' = "outcome" => verdict' # "none" /\ Witnessed(record, verdict)'
    PROVE  WorkerInv'
<1>1. CASE Abandon
  <2>1. /\ QueueInv' /\ HandInv' /\ wpc' = "poll" /\ verdict' = "none"
        /\ queue' \in Seq(DeploymentRow)
    BY <1>1, Abandoned, Zenon
  <2>2. FeedbackTypeOK'
    BY <2>1, Zenon DEF WorkerInv, FeedbackTypeOK
  <2> QED BY <2>1, <2>2, ReadKeeps, Zenon
<1>2. CASE ~Abandon
  <2>1. /\ queue' = queue /\ wpc' \in {"collect", "outcome"}
        /\ verdict' \in States \cup {"none"}
        /\ wpc' = "outcome" => verdict' # "none" /\ Witnessed(record, verdict)'
    BY <1>2, Zenon
  <2>2. UNCHANGED <<deployments, Members(closed)>>
    BY Zenon DEF tables, Members
  <2>3. \A i : RowNow(i)' = RowNow(i)
    BY <2>1, Zenon DEF RowNow
  <2>4. QueueInv'
    BY <2>1, <2>2, <2>3, Zenon DEF WorkerInv, QueueInv
  <2>5. HandInv'
    BY <2>1, Zenon DEF HandInv
  <2>6. FeedbackTypeOK'
    BY <2>1, InHand, Zenon DEF WorkerInv, FeedbackTypeOK
  <2> QED BY <2>4, <2>5, <2>6, ReadKeeps, Zenon
<1> QED BY <1>1, <1>2

(* PolicyRepository.get always finds the policy: nobody registers a          *)
(* deployment without one, and nobody deletes one.                           *)
LEMMA PolicyFound ==
    ASSUME IInv, WorkerInv, wpc \notin {"poll", "audit"}
    PROVE  /\ PolicyKeyTaken(record.tenant, record.finding)
           /\ [tenant |-> record.tenant, finding |-> record.finding, session |-> record.id] \in policies
           /\ [tenant |-> record.tenant, finding |-> record.finding] \in findings
           /\ record.id \in collector
<1>1. record \in deployments
  BY InHand, Zenon
<1> DEFINE p == [tenant |-> record.tenant, finding |-> record.finding, session |-> record.id]
<1>2. /\ p \in policies /\ record.id \in collector
      /\ [tenant |-> record.tenant, finding |-> record.finding] \in findings
  BY <1>1, Zenon DEF IInv, DeploymentLineage
<1>3. p.tenant = record.tenant /\ p.finding = record.finding
  OBVIOUS
<1> HIDE DEF p
<1>4. PolicyKeyTaken(record.tenant, record.finding)
  BY <1>2, <1>3, Zenon DEF PolicyKeyTaken
<1> QED BY <1>2, <1>4, Zenon DEF p

(* get_policy *)
LEMMA GetKeeps ==
    ASSUME IInv, WorkerInv, get_policy, UNCHANGED loopVars
    PROVE  WorkerInv' /\ (wpc' = "collect" \/ Abandon)
<1>1. PICK o \in WorkerOutcome :
        /\ IF o = "ok"
           THEN /\ wpc' = IF PolicyKeyTaken(record.tenant, record.finding)
                          THEN "collect" ELSE "expire"
                /\ UNCHANGED <<queue, verdict>>
           ELSE Abandon
        /\ Count(o)
  BY Zenon DEF get_policy
<1>2. UNCHANGED <<tables, outcomes, closed, collector>> /\ wpc = "policy"
  BY Zenon DEF get_policy, loopVars
<1>3. faults' \in 0..MaxFaults /\ verdict \in States \cup {"none"}
  BY <1>1, Counted, Zenon DEF WorkerInv, FeedbackTypeOK
<1>4. PolicyKeyTaken(record.tenant, record.finding)
  BY <1>2, PolicyFound, Zenon
<1>5. Abandon \/ (wpc' = "collect" /\ UNCHANGED <<queue, verdict>>)
  BY <1>1, <1>4, Zenon
<1> QED BY <1>2, <1>3, <1>5, ReadOn, Zenon

(* BrakeWearHypothesisRule.evaluate never confirms without an observation    *)
(* at or above the threshold, nor rules out without one below it.            *)
LEMMA EvaluateWitness ==
    ASSUME NEW a \in Nat, NEW b \in Nat, NEW v, v = evaluate(a, b)
    PROVE  /\ v \in States /\ v # "none"
           /\ v = "confirmed" => a > 0
           /\ v = "ruled_out" => b > 0
<1>1. v \in {"no_data", "confirmed", "ruled_out"}
  BY Zenon DEF evaluate
<1>2. v \in States /\ v # "none"
  BY <1>1, Zenon DEF States
<1>3. (v = "confirmed" => a > 0) /\ (v = "ruled_out" => b > 0)
  BY DEF evaluate
<1> QED BY <1>2, <1>3

(* _collect_telemetry: a verdict has its telemetry when it is reached.       *)
LEMMA CollectKeeps ==
    ASSUME IInv, WorkerInv, SizesOK, collect_telemetry, UNCHANGED loopVars
    PROVE  WorkerInv' /\ (wpc' = "outcome" \/ Abandon)
<1>1. PICK o \in WorkerOutcome :
        /\ IF o = "ok"
           THEN /\ verdict' = evaluate(Cardinality(Observed("above")), Cardinality(Observed("below")))
                /\ wpc' = "outcome"
                /\ UNCHANGED queue
           ELSE Abandon
        /\ Count(o)
  BY Zenon DEF collect_telemetry, Observed
<1>2. UNCHANGED <<tables, outcomes, closed, collector>> /\ wpc = "collect"
  BY Zenon DEF collect_telemetry, loopVars
<1>3. faults' \in 0..MaxFaults
  BY <1>1, Counted, Zenon DEF WorkerInv, FeedbackTypeOK
<1>4. CASE o # "ok"
  <2>1. Abandon
    BY <1>1, <1>4, Zenon
  <2> QED BY <1>2, <1>3, <2>1, ReadOn, Zenon
<1>5. CASE o = "ok"
  <2>1. /\ verdict' = evaluate(Cardinality(Observed("above")), Cardinality(Observed("below")))
        /\ wpc' = "outcome" /\ queue' = queue
    BY <1>1, <1>5, Zenon
  <2>2. \A l : Observed(l) # {} => \E x \in telemetry : KeyOf(x) = KeyOf(record) /\ x.level = l
    BY Zenon DEF KeyOf, Observed
  <2>3. \A l \in {"above", "below"} :
          Cardinality(Observed(l)) \in Nat /\ (Observed(l) = {} => Cardinality(Observed(l)) = 0)
    BY Zenon DEF SizesOK, Levels
  <2>4. /\ verdict' \in States /\ verdict' # "none"
        /\ verdict' = "confirmed" => Cardinality(Observed("above")) > 0
        /\ verdict' = "ruled_out" => Cardinality(Observed("below")) > 0
    BY <2>1, <2>3, EvaluateWitness, Zenon
  <2>5. /\ verdict' \in States /\ verdict' # "none"
        /\ verdict' = "confirmed" => Observed("above") # {}
        /\ verdict' = "ruled_out" => Observed("below") # {}
    BY <2>3, <2>4
  <2>6. Witnessed(record, verdict')
    BY <2>2, <2>5 DEF Witnessed, States
  <2>7. Witnessed(record, verdict)'
    BY <1>2, <2>1, <2>6, Zenon DEF Witnessed, record, tables
  <2> QED BY <1>2, <1>3, <2>1, <2>5, <2>7, ReadOn, ZenonT(60)
<1> QED BY <1>4, <1>5

(* What insert_outcome does to the outcome rows. *)
LEMMA InsertEffect ==
    ASSUME WorkerInv, insert_outcome
    PROVE  \E o \in {"ok", "failed", "ack_lost"} :
             /\ faults \in Nat /\ faults' \in 0..MaxFaults
             /\ faults' = IF o = "ok" THEN faults ELSE faults + 1
             /\ IF o = "ok" THEN wpc' = "expire" /\ UNCHANGED <<queue, verdict>> ELSE Abandon
             /\ IF o = "failed" THEN outcomes' = outcomes
                ELSE /\ outcomes' \in Seq(OutcomeRow)
                     /\ 1..Len(outcomes') = 1..Len(outcomes) \cup {Len(outcomes) + 1}
                     /\ Len(outcomes) + 1 \notin 1..Len(outcomes)
                     /\ \A i \in 1..Len(outcomes) : outcomes'[i] = outcomes[i]
                     /\ outcomes'[Len(outcomes) + 1] =
                          [id |-> record.id, tenant |-> record.tenant,
                           finding |-> record.finding, state |-> verdict]
<1> DEFINE new == [id |-> record.id, tenant |-> record.tenant,
                   finding |-> record.finding, state |-> verdict]
<1>1. PICK o \in WorkerOutcome :
        /\ outcomes' = IF o = "failed" THEN outcomes ELSE Append(outcomes, new)
        /\ IF o = "ok" THEN wpc' = "expire" /\ UNCHANGED <<queue, verdict>> ELSE Abandon
        /\ Count(o)
  BY Zenon DEF insert_outcome
<1>2. /\ faults \in Nat /\ faults' \in 0..MaxFaults /\ o \in {"ok", "failed", "ack_lost"}
      /\ faults' = IF o = "ok" THEN faults ELSE faults + 1
  BY <1>1, Counted, Zenon DEF WorkerInv, FeedbackTypeOK
<1>3. outcomes \in Seq(OutcomeRow) /\ verdict \in States /\ wpc # "poll"
  BY Zenon DEF WorkerInv, FeedbackTypeOK, insert_outcome
<1>4. record \in DeploymentRow
  BY <1>3, InHand, Zenon
<1>5. new \in OutcomeRow
  BY <1>3, <1>4 DEF DeploymentRow, OutcomeRow
<1> HIDE DEF new
<1>6. /\ Append(outcomes, new) \in Seq(OutcomeRow)
      /\ 1..Len(Append(outcomes, new)) = 1..Len(outcomes) \cup {Len(outcomes) + 1}
      /\ Len(outcomes) + 1 \notin 1..Len(outcomes)
      /\ \A i \in 1..Len(outcomes) : Append(outcomes, new)[i] = outcomes[i]
      /\ Append(outcomes, new)[Len(outcomes) + 1] = new
  <2>1. outcomes \in Seq(OutcomeRow)
    BY <1>3
  <2> QED BY <1>5, <2>1, Appended, SMTT(60)
<1>7. IF o = "failed" THEN outcomes' = outcomes
      ELSE /\ outcomes' \in Seq(OutcomeRow)
           /\ 1..Len(outcomes') = 1..Len(outcomes) \cup {Len(outcomes) + 1}
           /\ Len(outcomes) + 1 \notin 1..Len(outcomes)
           /\ \A i \in 1..Len(outcomes) : outcomes'[i] = outcomes[i]
           /\ outcomes'[Len(outcomes) + 1] = new
  <2>1. o # "failed" => outcomes' = Append(outcomes, new)
    BY <1>1, Zenon
  <2>2. o = "failed" => outcomes' = outcomes
    BY <1>1, Zenon
  <2> QED BY <1>6, <2>1, <2>2, Zenon
<1> QED BY <1>1, <1>2, <1>7, Zenon DEF new

(* insert_outcome: the new row is linked to its finding, its policy and its  *)
(* deployment, and only then is the deployment up for expiry.                *)
LEMMA InsertKeeps ==
    ASSUME IInv, WorkerInv, insert_outcome, UNCHANGED loopVars
    PROVE  WorkerInv'
<1> DEFINE n == Len(outcomes) + 1
           new == [id |-> record.id, tenant |-> record.tenant,
                   finding |-> record.finding, state |-> verdict]
<1>1. PICK o \in {"ok", "failed", "ack_lost"} :
        /\ faults' \in 0..MaxFaults
        /\ IF o = "ok" THEN wpc' = "expire" /\ UNCHANGED <<queue, verdict>> ELSE Abandon
        /\ IF o = "failed" THEN outcomes' = outcomes
           ELSE /\ outcomes' \in Seq(OutcomeRow)
                /\ 1..Len(outcomes') = 1..Len(outcomes) \cup {n}
                /\ n \notin 1..Len(outcomes)
                /\ \A i \in 1..Len(outcomes) : outcomes'[i] = outcomes[i]
                /\ outcomes'[n] = new
  BY InsertEffect, Zenon
<1>2. /\ UNCHANGED <<findings, policies, deployments, telemetry, closed, collector, Members(closed)>>
      /\ wpc = "outcome"
  BY Zenon DEF insert_outcome, tables, loopVars, Members
<1>3. /\ new.id = record.id /\ KeyOf(new) = KeyOf(record) /\ new.state = verdict
      /\ new.tenant = record.tenant /\ new.finding = record.finding
  BY DEF KeyOf
<1>4. record \in deployments /\ record.id \in Members(closed)
  BY <1>2, InHand, Zenon
<1>5. Linked(new)
  <2>1. /\ [tenant |-> record.tenant, finding |-> record.finding, session |-> record.id] \in policies
        /\ KeyOf(record) \in findings /\ record.id \in collector
    BY <1>2, PolicyFound, Zenon DEF KeyOf
  <2>2. Witnessed(record, verdict)
    BY <1>2, Zenon DEF WorkerInv, HandInv
  <2>3. Witnessed(new, new.state)
    BY <1>3, <2>2, Zenon DEF Witnessed
  <2> HIDE DEF new
  <2> QED BY <1>3, <1>4, <2>1, <2>3, Zenon DEF Linked
<1> HIDE DEF new, n
<1>6. RowsInv'
  BY <1>2, Zenon DEF WorkerInv, RowsInv
<1>7. \A id : OutcomesOf(id) \subseteq OutcomesOf(id)'
  <2>1. CASE o = "failed"
    BY <1>1, <2>1, Zenon DEF OutcomesOf
  <2>2. CASE o # "failed"
    BY <1>1, <2>2, Zenon DEF OutcomesOf
  <2> QED BY <2>1, <2>2
<1>8. ExpiredHasOutcome'
  BY <1>2, <1>7, Zenon DEF WorkerInv, ExpiredHasOutcome
<1>9. OutcomesRegistered'
  <2>1. CASE o = "failed"
    BY <1>1, <1>2, <2>1, Zenon DEF WorkerInv, OutcomesRegistered
  <2>2. CASE o # "failed"
    <3>1. \A i \in 1..Len(outcomes) : \E d \in deployments : d.id = outcomes[i].id
      BY Zenon DEF WorkerInv, OutcomesRegistered
    <3>2. ASSUME NEW i \in 1..Len(outcomes') PROVE \E d \in deployments' : d.id = outcomes'[i].id
      <4>1. CASE i = n
        BY <1>1, <1>2, <1>3, <1>4, <2>2, <4>1, Zenon
      <4>2. CASE i \in 1..Len(outcomes)
        BY <1>1, <1>2, <2>2, <3>1, <4>2, Zenon
      <4> QED BY <1>1, <2>2, <3>2, <4>1, <4>2, Zenon
    <3> QED BY <3>2, Zenon DEF OutcomesRegistered
  <2> QED BY <2>1, <2>2
<1>10. OutcomeLineage'
  <2>0. UNCHANGED <<findings, policies, collector, telemetry, Members(closed)>>
    BY <1>2
  <2>1. CASE o = "failed"
    BY <1>1, <2>0, <2>1, LineageStays, ZenonT(60) DEF WorkerInv
  <2>2. CASE o # "failed"
    <3>0. \A i \in 1..Len(outcomes) : Linked(outcomes[i])
      BY Zenon DEF WorkerInv, OutcomeLineage
    <3>1. SUFFICES ASSUME NEW i \in 1..Len(outcomes') PROVE Linked(outcomes[i])'
      BY Zenon DEF OutcomeLineage
    <3>2. PICK row : row = outcomes'[i]
      OBVIOUS
    <3>3. row = new \/ \E j \in 1..Len(outcomes) : row = outcomes[j]
      BY <1>1, <2>2, <3>2, Zenon
    <3>4. Linked(row)
      BY <1>5, <3>0, <3>3, Zenon
    <3>5. Linked(row)'
      BY <2>0, <3>4, LinkedStays
    <3> QED BY <3>2, <3>5 DEF Linked, Witnessed
  <2> QED BY <2>1, <2>2
<1>11. QueueInv' /\ HandInv' /\ FeedbackTypeOK'
  <2>0. outcomes' \in Seq(OutcomeRow)
    BY <1>1, Zenon DEF WorkerInv, FeedbackTypeOK
  <2>1. CASE o = "ok"
    <3>1. wpc' = "expire" /\ UNCHANGED <<queue, verdict>>
      BY <1>1, <2>1, Zenon
    <3>2. \A i : RowNow(i)' = RowNow(i)
      BY <1>2, <3>1, Zenon DEF RowNow
    <3>3. QueueInv'
      BY <1>2, <3>1, <3>2, Zenon DEF WorkerInv, QueueInv
    <3>4. n \in OutcomesOf(record.id)'
      BY <1>1, <1>3, <2>1, <3>1, Zenon DEF OutcomesOf, record
    <3>5. HandInv'
      BY <1>2, <3>1, <3>4, Zenon DEF WorkerInv, FeedbackTypeOK, HandInv
    <3>6. FeedbackTypeOK'
      BY <1>1, <1>2, <2>0, <3>1, Zenon DEF WorkerInv, FeedbackTypeOK
    <3> QED BY <3>3, <3>5, <3>6
  <2>2. CASE o # "ok"
    <3>1. /\ QueueInv' /\ HandInv' /\ wpc' = "poll" /\ verdict' = "none"
          /\ queue' \in Seq(DeploymentRow)
      BY <1>1, <2>2, Abandoned, Zenon
    <3>2. FeedbackTypeOK'
      BY <1>1, <1>2, <2>0, <3>1, Zenon DEF WorkerInv, FeedbackTypeOK
    <3> QED BY <3>1, <3>2
  <2> QED BY <2>1, <2>2
<1> QED BY <1>6, <1>8, <1>9, <1>10, <1>11, Zenon DEF WorkerInv

(* mark_expired takes one row from 'accepted' to 'expired'. *)
LEMMA ExpireEffect ==
    ASSUME WorkerInv, mark_expired
    PROVE  /\ \E o \in {"ok", "failed", "ack_lost"} :
                /\ faults \in Nat /\ faults' \in 0..MaxFaults
                /\ faults' = IF o = "ok" THEN faults ELSE faults + 1
                /\ IF o = "ok" THEN wpc' = "audit" /\ UNCHANGED <<queue, verdict>> ELSE Abandon
                /\ deployments' = IF o = "failed" THEN deployments
                                  ELSE (deployments \ {record}) \cup {Expired}
           /\ Expired.id = record.id /\ Expired.tenant = record.tenant
           /\ Expired.finding = record.finding /\ Expired.status = "expired"
           /\ Expired \in DeploymentRow
<1>1. PICK o \in WorkerOutcome :
        /\ deployments' = IF o = "failed" THEN deployments
                          ELSE {IF d.id = record.id /\ d.tenant = Public
                                THEN [d EXCEPT !.status = "expired"] ELSE d : d \in deployments}
        /\ IF o # "ok" THEN Abandon
           ELSE IF verdict = "none" THEN NextRecord
           ELSE wpc' = "audit" /\ UNCHANGED <<queue, verdict>>
        /\ Count(o)
  BY Zenon DEF mark_expired
<1>2. wpc = "expire" /\ verdict # "none"
  BY Zenon DEF mark_expired, WorkerInv, HandInv
<1>3. /\ faults \in Nat /\ faults' \in 0..MaxFaults /\ o \in {"ok", "failed", "ack_lost"}
      /\ faults' = IF o = "ok" THEN faults ELSE faults + 1
  BY <1>1, Counted, Zenon DEF WorkerInv, FeedbackTypeOK
<1>4. record \in deployments /\ record.tenant = Public /\ record \in DeploymentRow
  BY <1>2, InHand, Zenon
<1>5. {IF d.id = record.id /\ d.tenant = Public THEN [d EXCEPT !.status = "expired"] ELSE d :
          d \in deployments} = (deployments \ {record}) \cup {Expired}
  <2>1. \A d \in deployments : (d.id = record.id /\ d.tenant = Public) <=> d = record
    BY <1>4, Zenon DEF WorkerInv, RowsInv
  <2> DEFINE F(d) == IF d.id = record.id /\ d.tenant = Public
                     THEN [d EXCEPT !.status = "expired"] ELSE d
  <2>2. \A d \in deployments : F(d) = IF d = record THEN Expired ELSE d
    BY <2>1, Zenon DEF Expired
  <2> HIDE DEF F
  <2>3. {F(d) : d \in deployments} = (deployments \ {record}) \cup {Expired}
    BY <1>4, <2>2
  <2> QED BY <2>3, Zenon DEF F
<1>6. /\ Expired.id = record.id /\ Expired.tenant = record.tenant
      /\ Expired.finding = record.finding /\ Expired.status = "expired"
      /\ Expired \in DeploymentRow
  BY <1>4 DEF Expired, DeploymentRow
<1>7. deployments' = IF o = "failed" THEN deployments ELSE (deployments \ {record}) \cup {Expired}
  BY <1>1, <1>5, Zenon
<1>8. IF o = "ok" THEN wpc' = "audit" /\ UNCHANGED <<queue, verdict>> ELSE Abandon
  BY <1>1, <1>2, Zenon
<1> QED BY <1>3, <1>6, <1>7, <1>8, Zenon

(* What stays of a row that is expired, and what the other tables need of    *)
(* it: a deployment of the same id, tenant and finding.                      *)
SameRow(d, e) == d.id = e.id /\ d.tenant = e.tenant /\ d.finding = e.finding

LEMMA ExpireShape ==
    ASSUME WorkerInv, mark_expired
    PROVE  /\ \A d \in deployments : \E e \in deployments' : SameRow(d, e)
           /\ \A e \in deployments' : \E d \in deployments : SameRow(d, e)
           /\ \A e \in deployments' :
                e \in deployments \/ (e.id = record.id /\ e.status = "expired" /\ e \in DeploymentRow)
           /\ \A d, e \in deployments' : d.id = e.id => d = e
<1>1. deployments' = deployments \/ deployments' = (deployments \ {record}) \cup {Expired}
  BY ExpireEffect, Zenon
<1>2. /\ Expired.id = record.id /\ Expired.tenant = record.tenant
      /\ Expired.finding = record.finding /\ Expired.status = "expired"
      /\ Expired \in DeploymentRow
  BY ExpireEffect, Zenon
<1>3. record \in deployments
  <2>1. wpc = "expire"
    BY Zenon DEF mark_expired
  <2> QED BY <2>1, InHand, Zenon
<1>4. \A d, e \in deployments : d.id = e.id => d = e
  BY Zenon DEF WorkerInv, RowsInv
<1>5. SameRow(record, Expired) /\ \A d : SameRow(d, d)
  BY <1>2, Zenon DEF SameRow
<1>6. CASE deployments' = deployments
  BY <1>4, <1>5, <1>6, Zenon
<1>7. CASE deployments' = (deployments \ {record}) \cup {Expired}
  <2>1. \A d \in deployments : \E e \in deployments' : SameRow(d, e)
    BY <1>5, <1>7
  <2>2. \A e \in deployments' : \E d \in deployments : SameRow(d, e)
    BY <1>3, <1>5, <1>7
  <2>3. \A e \in deployments' :
          e \in deployments \/ (e.id = record.id /\ e.status = "expired" /\ e \in DeploymentRow)
    BY <1>2, <1>7
  <2>4. ASSUME NEW d \in deployments', NEW e \in deployments', d.id = e.id PROVE d = e
    <3>1. \A x \in deployments \ {record} : x.id # Expired.id
      BY <1>2, <1>3, <1>4
    <3> QED BY <1>4, <1>7, <2>4, <3>1
  <2> QED BY <1>7, <2>1, <2>2, <2>3, <2>4, Zenon
<1> QED BY <1>1, <1>6, <1>7

(* mark_expired: the row it expires has its outcome, and the rows still in   *)
(* the worker's hands are other rows.                                        *)
LEMMA ExpireKeeps ==
    ASSUME IInv, WorkerInv, mark_expired, UNCHANGED loopVars
    PROVE  WorkerInv'
<1>1. PICK o \in {"ok", "failed", "ack_lost"} :
        /\ faults' \in 0..MaxFaults
        /\ IF o = "ok" THEN wpc' = "audit" /\ UNCHANGED <<queue, verdict>> ELSE Abandon
        /\ deployments' = IF o = "failed" THEN deployments
                          ELSE (deployments \ {record}) \cup {Expired}
  BY ExpireEffect, Zenon
<1>2. /\ UNCHANGED <<findings, policies, telemetry, outcomes, closed, collector, Members(closed)>>
      /\ wpc = "expire" /\ verdict # "none"
  BY Zenon DEF mark_expired, loopVars, Members, WorkerInv, HandInv
<1>3. /\ \A d \in deployments : \E e \in deployments' : SameRow(d, e)
      /\ \A e \in deployments' :
           e \in deployments \/ (e.id = record.id /\ e.status = "expired" /\ e \in DeploymentRow)
      /\ \A d, e \in deployments' : d.id = e.id => d = e
  BY ExpireShape, Zenon
<1>4. RowsInv'
  BY <1>2, <1>3, Zenon DEF WorkerInv, RowsInv
<1>5. OutcomesRegistered'
  <2>1. \A i \in 1..Len(outcomes) : \E d \in deployments : d.id = outcomes[i].id
    BY Zenon DEF WorkerInv, OutcomesRegistered
  <2>2. \A d \in deployments : \E e \in deployments' : d.id = e.id
    BY <1>3, Zenon DEF SameRow
  <2>3. ASSUME NEW i \in 1..Len(outcomes) PROVE \E e \in deployments' : e.id = outcomes[i].id
    <3>1. PICK d \in deployments : d.id = outcomes[i].id
      BY <2>1, <2>3, Zenon
    <3> QED BY <2>2, <3>1, Zenon
  <2> QED BY <1>2, <2>3, Zenon DEF OutcomesRegistered
<1>6. OutcomeLineage'
  <2>1. UNCHANGED <<findings, policies, collector, telemetry, Members(closed), outcomes>>
    BY <1>2
  <2> QED BY <2>1, LineageStays, Zenon DEF WorkerInv
<1>7. ExpiredHasOutcome'
  <2>1. record.id \in Members(closed) /\ OutcomesOf(record.id) # {}
    BY <1>2, InHand, Zenon DEF WorkerInv, HandInv
  <2>2. \A d \in deployments : d.status = "expired" => d.id \in Members(closed) /\ OutcomesOf(d.id) # {}
    BY Zenon DEF WorkerInv, ExpiredHasOutcome
  <2>3. \A id : OutcomesOf(id)' = OutcomesOf(id)
    BY <1>2, Zenon DEF OutcomesOf
  <2>4. SUFFICES ASSUME NEW e \in deployments', e.status = "expired"
                 PROVE  e.id \in Members(closed)' /\ OutcomesOf(e.id)' # {}
    BY Zenon DEF ExpiredHasOutcome
  <2>5. e.id \in Members(closed) /\ OutcomesOf(e.id) # {}
    BY <1>3, <2>1, <2>2, <2>4, ZenonT(60)
  <2> QED BY <1>2, <2>3, <2>5, Zenon
<1>8. QueueInv' /\ HandInv' /\ FeedbackTypeOK'
  <2>1. CASE o = "ok"
    <3>1. wpc' = "audit" /\ UNCHANGED <<queue, verdict>>
      BY <1>1, <2>1, Zenon
    <3>2. deployments' = (deployments \ {record}) \cup {Expired}
      BY <1>1, <2>1, Zenon
    <3>3. 1 \in 1..Len(queue) /\ record = queue[1]
      BY <1>2, InHand, Zenon
    <3>4. ASSUME NEW i \in 1..Len(queue) PROVE RowNow(i)' \in deployments'
      <4>1. CASE i = 1
        <5>1. RowNow(i)' = Expired
          BY <3>1, <3>3, <4>1, Zenon DEF RowNow, Expired
        <5> QED BY <3>2, <5>1
      <4>2. CASE i # 1
        <5>1. RowNow(i)' = queue[i] /\ RowNow(i) = queue[i]
          BY <1>2, <3>1, <4>2, Zenon DEF RowNow
        <5>2. queue[i] \in deployments
          BY <5>1, <3>4, Zenon DEF WorkerInv, QueueInv
        <5>3. queue[i] # record
          BY <3>3, <3>4, <4>2, Zenon DEF WorkerInv, QueueInv
        <5> QED BY <3>2, <5>1, <5>2, <5>3
      <4> QED BY <4>1, <4>2
    <3>5. QueueInv'
      BY <1>2, <3>1, <3>4, Zenon DEF WorkerInv, QueueInv
    <3>6. HandInv'
      BY <1>2, <3>1, Zenon DEF WorkerInv, HandInv, OutcomesOf, record
    <3>7. FeedbackTypeOK'
      BY <1>1, <1>2, <3>1, Zenon DEF WorkerInv, FeedbackTypeOK
    <3> QED BY <3>5, <3>6, <3>7
  <2>2. CASE o # "ok"
    <3>1. /\ QueueInv' /\ HandInv' /\ wpc' = "poll" /\ verdict' = "none"
          /\ queue' \in Seq(DeploymentRow)
      BY <1>1, <2>2, Abandoned, Zenon
    <3>2. FeedbackTypeOK'
      BY <1>1, <1>2, <3>1, Zenon DEF WorkerInv, FeedbackTypeOK
    <3> QED BY <3>1, <3>2
  <2> QED BY <2>1, <2>2
<1> QED BY <1>4, <1>5, <1>6, <1>7, <1>8, Zenon DEF WorkerInv

(* What the worker's audit write does. *)
LEMMA AuditEffect ==
    ASSUME WorkerInv, audit_outcome
    PROVE  \E o \in {"ok", "failed", "ack_lost"}, new \in AuditRow :
             /\ faults \in Nat /\ faults' \in 0..MaxFaults
             /\ faults' = IF o = "ok" THEN faults ELSE faults + 1
             /\ NextRecord \/ Abandon
             /\ new.kind = "outcome" /\ new.corr = record.id
             /\ audit' = audit \/ (audit' = audit \cup {new} /\ ~Conflicts(record.id, "outcome"))
             /\ o = "ok" => \E row \in audit' : row.corr = record.id /\ row.kind = "outcome"
<1> DEFINE new == [corr |-> record.id, kind |-> "outcome", tenant |-> record.tenant,
                   finding |-> record.finding, by |-> record.id, code |-> "none"]
<1>1. PICK o \in WorkerOutcome :
        /\ audit' = IF o = "failed" THEN audit ELSE AfterWrite(new)
        /\ IF o = "ok" /\ ~WriteRaises(new) THEN NextRecord ELSE Abandon
        /\ Count(o)
  BY Zenon DEF audit_outcome
<1>2. /\ faults \in Nat /\ faults' \in 0..MaxFaults /\ o \in {"ok", "failed", "ack_lost"}
      /\ faults' = IF o = "ok" THEN faults ELSE faults + 1
  BY <1>1, Counted, Zenon DEF WorkerInv, FeedbackTypeOK
<1>3. record \in DeploymentRow
  <2>1. wpc # "poll"
    BY Zenon DEF audit_outcome
  <2> QED BY <2>1, InHand, Zenon
<1>4. new \in AuditRow /\ new.kind = "outcome" /\ new.corr = record.id
  BY <1>3 DEF AuditRow, DeploymentRow, Kinds, Codes
<1> HIDE DEF new
<1>5. audit' = audit \/ (audit' = audit \cup {new} /\ ~Conflicts(record.id, "outcome"))
  BY <1>1, <1>4, Zenon DEF AfterWrite
<1>6. ASSUME o = "ok" PROVE \E row \in audit' : row.corr = record.id /\ row.kind = "outcome"
  <2>1. audit' = AfterWrite(new)
    BY <1>1, <1>6, Zenon
  <2>2. CASE Conflicts(record.id, "outcome")
    <3>1. audit' = audit
      BY <1>4, <2>1, <2>2, Zenon DEF AfterWrite
    <3> QED BY <2>2, <3>1, Zenon DEF Conflicts
  <2>3. CASE ~Conflicts(record.id, "outcome")
    <3>1. new \in audit'
      BY <1>4, <2>1, <2>3, Zenon DEF AfterWrite
    <3> QED BY <1>4, <3>1, Zenon
  <2> QED BY <2>2, <2>3
<1> QED BY <1>1, <1>2, <1>4, <1>5, <1>6, ZenonT(60)

(* audit_outcome is the last call for a record; the next one is taken up as  *)
(* it was.                                                                   *)
LEMMA AuditKeeps ==
    ASSUME IInv, WorkerInv, audit_outcome, UNCHANGED loopVars
    PROVE  WorkerInv'
<1>1. PICK o \in {"ok", "failed", "ack_lost"} :
        faults' \in 0..MaxFaults /\ (NextRecord \/ Abandon)
  BY AuditEffect, Zenon
<1>2. /\ UNCHANGED <<findings, policies, deployments, telemetry, outcomes, closed, collector>>
      /\ wpc = "audit"
  BY Zenon DEF audit_outcome, loopVars
<1>3. RowsInv'
  BY <1>2, Zenon DEF WorkerInv, RowsInv
<1>4. OutcomesRegistered'
  BY <1>2, Zenon DEF WorkerInv, OutcomesRegistered
<1>5. OutcomeLineage'
  BY <1>2, LineageStays, Zenon DEF WorkerInv, Members
<1>6. ExpiredHasOutcome'
  BY <1>2, Zenon DEF WorkerInv, ExpiredHasOutcome, Members, OutcomesOf
<1>7. /\ QueueInv' /\ HandInv' /\ wpc' \in {"poll", "policy"} /\ verdict' = "none"
      /\ queue' \in Seq(DeploymentRow) /\ (wpc' # "poll" => queue' # <<>>)
  <2>1. CASE NextRecord
    BY <1>2, <2>1, Advanced, Zenon
  <2>2. CASE Abandon
    BY <2>2, Abandoned, Zenon
  <2> QED BY <1>1, <2>1, <2>2
<1>8. FeedbackTypeOK'
  BY <1>1, <1>2, <1>7, Zenon DEF WorkerInv, FeedbackTypeOK
<1> QED BY <1>3, <1>4, <1>5, <1>6, <1>7, <1>8, Zenon DEF WorkerInv

(* A window closes once, and for a deployment the collector accepted. *)
LEMMA WindowKeeps ==
    ASSUME IInv, WorkerInv, CloseWindow(collector), UNCHANGED loopVars
    PROVE  WorkerInv'
<1>1. PICK id \in collector \ Members(closed) : closed' = Append(closed, id)
  BY Zenon DEF CloseWindow
<1>2. /\ UNCHANGED <<findings, policies, deployments, telemetry, collector>>
      /\ UNCHANGED <<outcomes, wpc, queue, verdict, faults>>
  BY Zenon DEF CloseWindow, tables, workerVars, loopVars
<1>3. closed \in Seq(Sessions) /\ id \in Sessions
  BY <1>1 DEF WorkerInv, FeedbackTypeOK, IInv, LoopTypeOK
<1>4. /\ closed' \in Seq(Sessions)
      /\ 1..Len(closed') = 1..Len(closed) \cup {Len(closed) + 1}
      /\ \A i \in 1..Len(closed) : closed'[i] = closed[i]
      /\ closed'[Len(closed) + 1] = id
  BY <1>1, <1>3, Appended
<1>5. Members(closed) \subseteq Members(closed)'
  BY <1>4, ZenonT(60) DEF Members
<1>6. \A i, j \in 1..Len(closed') : closed'[i] = closed'[j] => i = j
  <2>1. \A i, j \in 1..Len(closed) : closed[i] = closed[j] => i = j
    BY Zenon DEF WorkerInv, RowsInv
  <2>2. \A i \in 1..Len(closed) : closed[i] # id
    BY <1>1, Zenon DEF Members
  <2> DEFINE n == Len(closed) + 1
             D == 1..Len(closed)
  <2>3. /\ 1..Len(closed') = D \cup {n} /\ closed'[n] = id
        /\ \A i \in D : closed'[i] = closed[i] /\ closed[i] # id
        /\ \A i, j \in D : closed[i] = closed[j] => i = j
    BY <1>4, <2>1, <2>2, Zenon
  <2> HIDE DEF n, D
  <2> QED BY <2>3, SMTT(60)
<1>7. RowsInv'
  BY <1>2, <1>6, Zenon DEF WorkerInv, RowsInv
<1>8. QueueInv'
  <2>1. \A i : RowNow(i)' = RowNow(i)
    BY <1>2, Zenon DEF RowNow
  <2> QED BY <1>2, <1>5, <2>1, Zenon DEF WorkerInv, QueueInv
<1>9. HandInv'
  BY <1>2, Zenon DEF WorkerInv, HandInv, Witnessed, record, OutcomesOf
<1>10. OutcomesRegistered'
  BY <1>2, Zenon DEF WorkerInv, OutcomesRegistered
<1>11. OutcomeLineage'
  <2>1. UNCHANGED <<findings, policies, collector, telemetry, outcomes>>
    BY <1>2
  <2> QED BY <1>5, <2>1, LineageStays, Zenon DEF WorkerInv
<1>12. ExpiredHasOutcome'
  BY <1>2, <1>5, Zenon DEF WorkerInv, ExpiredHasOutcome, OutcomesOf
<1>13. FeedbackTypeOK'
  BY <1>2, <1>4, Zenon DEF WorkerInv, FeedbackTypeOK
<1> QED BY <1>7, <1>8, <1>9, <1>10, <1>11, <1>12, <1>13, ZenonT(60) DEF WorkerInv

(* The process dies: the worker's memory goes, its rows stay. *)
LEMMA CrashKeeps ==
    ASSUME IInv, WorkerInv, AppCrash
    PROVE  WorkerInv'
<1>1. Abandon /\ UNCHANGED <<tables, outcomes, closed, collector>>
  BY Zenon DEF AppCrash, LoseWorker, LoseTasks
<1>2. faults' \in 0..MaxFaults
  BY FeedbackAssumption DEF AppCrash, WorkerInv, FeedbackTypeOK
<1>3. /\ QueueInv' /\ HandInv' /\ wpc' = "poll" /\ verdict' = "none"
      /\ queue' \in Seq(DeploymentRow)
  BY <1>1, Abandoned, Zenon
<1>4. FeedbackTypeOK'
  BY <1>1, <1>2, <1>3, Zenon DEF WorkerInv, FeedbackTypeOK
<1> QED BY <1>1, <1>3, <1>4, ReadKeeps, Zenon

-----------------------------------------------------------------------------
(* The sessions' invariant under the worker's steps: it expires rows the     *)
(* sessions only look for by id, tenant and finding, and audits under        *)
(* correlation ids and a kind no session uses.                               *)
LEMMA ExpireKeepsLoop ==
    ASSUME IInv, WorkerInv, mark_expired, UNCHANGED loopVars
    PROVE  IInv'
<1>1. /\ UNCHANGED <<findings, policies, audit, telemetry, collector>>
      /\ UNCHANGED <<pc, req, answer, retry, final>>
  BY Zenon DEF mark_expired, loopVars
<1>2. /\ \A d \in deployments : \E e \in deployments' : SameRow(d, e)
      /\ \A e \in deployments' : \E d \in deployments : SameRow(d, e)
      /\ \A e \in deployments' : e \in deployments \/ e \in DeploymentRow
  BY ExpireShape, Zenon
<1>3. LoopTypeOK'
  <2>1. deployments' \subseteq DeploymentRow
    BY <1>2 DEF IInv, LoopTypeOK, TablesTypeOK
  <2> QED BY <1>1, <2>1, Zenon DEF IInv, LoopTypeOK, TablesTypeOK
<1>4. ASSUME NEW r \in Sessions PROVE ProgressAt(r)' /\ FreshAt(r)'
  <2>1. ProgressAt(r) /\ FreshAt(r)
    BY <1>4, Zenon DEF IInv, ProgressInv
  <2>2. FreshAt(r)'
    <3>1. SUFFICES ASSUME pc[r] \in Undeployed, NEW e \in deployments' PROVE e.id # r
      BY <1>1, Zenon DEF FreshAt
    <3>2. PICK d \in deployments : SameRow(d, e)
      BY <1>2, Zenon
    <3> QED BY <2>1, <3>1, <3>2, Zenon DEF FreshAt, SameRow
  <2>3. Deployed(r) => Deployed(r)'
    <3>1. SUFFICES ASSUME NEW d \in deployments, d.id = r, d.tenant = req[r].tenant,
                          d.finding = req[r].finding
                   PROVE  Deployed(r)'
      BY Zenon DEF Deployed
    <3>2. PICK e \in deployments' : SameRow(d, e)
      BY <1>2, ZenonT(60)
    <3>3. e.id = r /\ e.tenant = req'[r].tenant /\ e.finding = req'[r].finding
      BY <1>1, <3>1, <3>2 DEF SameRow
    <3> QED BY <3>3, Zenon DEF Deployed
  <2>4. /\ UNCHANGED <<Claimed(r), KeyOf(req[r]), pc[r], final[r], findings, collector>>
        /\ \A k : Trail(r, k)' = Trail(r, k)
    BY <1>1, ZenonT(30) DEF Claimed, KeyOf, Trail
  <2>5. ProgressAt(r)'
    BY <2>1, <2>3, <2>4, SMTT(60) DEF ProgressAt
  <2> QED BY <2>2, <2>5
<1>5. ProgressInv'
  BY <1>1, <1>4, Zenon DEF IInv, ProgressInv, KeyOf
<1>6. OneRecordPerFinding'
  <2>1. \A p, q \in policies : p.tenant = q.tenant /\ p.finding = q.finding => p = q
    BY Zenon DEF IInv, OneRecordPerFinding
  <2>2. ASSUME NEW e \in deployments', NEW p \in policies,
               p.tenant = e.tenant, p.finding = e.finding
        PROVE  p.session = e.id
    <3>1. PICK d \in deployments : SameRow(d, e)
      BY <1>2, Zenon
    <3>2. p.tenant = d.tenant /\ p.finding = d.finding /\ d.id = e.id
      BY <2>2, <3>1 DEF SameRow
    <3> QED BY <3>2, Zenon DEF IInv, OneRecordPerFinding
  <2> QED BY <1>1, <2>1, <2>2, Zenon DEF OneRecordPerFinding
<1>7. DeploymentLineage'
  <2>1. SUFFICES ASSUME NEW e \in deployments'
                 PROVE  /\ e.id \in collector
                        /\ [tenant |-> e.tenant, finding |-> e.finding, session |-> e.id] \in policies
                        /\ [tenant |-> e.tenant, finding |-> e.finding] \in findings
    BY <1>1, Zenon DEF DeploymentLineage
  <2>2. PICK d \in deployments : SameRow(d, e)
    BY <1>2, Zenon
  <2>3. d.id = e.id /\ d.tenant = e.tenant /\ d.finding = e.finding
    BY <2>2, Zenon DEF SameRow
  <2>4. /\ d.id \in collector
        /\ [tenant |-> d.tenant, finding |-> d.finding, session |-> d.id] \in policies
        /\ [tenant |-> d.tenant, finding |-> d.finding] \in findings
    BY <2>2, Zenon DEF IInv, DeploymentLineage
  <2> QED BY <2>3, <2>4
<1>8. AuditUnique'
  BY <1>1, ZenonT(60) DEF IInv, AuditUnique
<1>9. AuditChain'
  <2>1. SUFFICES ASSUME NEW a \in audit
                 PROVE  /\ a.kind = "deployed" =>
                             /\ {"accepted", "generated", "validated"}
                                  \subseteq AuditKinds(a.tenant, a.corr)
                             /\ \E e \in deployments' :
                                  e.id = a.by /\ e.tenant = a.tenant /\ e.finding = a.finding
                        /\ a.kind = "validated" =>
                             [tenant |-> a.tenant, finding |-> a.finding, session |-> a.by]
                               \in policies
    BY <1>1, Zenon DEF AuditChain, AuditKinds
  <2>2. /\ a.kind = "deployed" =>
             /\ {"accepted", "generated", "validated"} \subseteq AuditKinds(a.tenant, a.corr)
             /\ \E d \in deployments : d.id = a.by /\ d.tenant = a.tenant /\ d.finding = a.finding
        /\ a.kind = "validated" =>
             [tenant |-> a.tenant, finding |-> a.finding, session |-> a.by] \in policies
    BY <2>1, Zenon DEF IInv, AuditChain
  <2>3. ASSUME NEW d \in deployments, d.id = a.by, d.tenant = a.tenant, d.finding = a.finding
        PROVE  \E e \in deployments' : e.id = a.by /\ e.tenant = a.tenant /\ e.finding = a.finding
    <3>1. PICK e \in deployments' : SameRow(d, e)
      BY <1>2, Zenon
    <3> QED BY <2>3, <3>1 DEF SameRow
  <2> QED BY <2>2, <2>3
<1> QED BY <1>3, <1>5, <1>6, <1>7, <1>8, <1>9, ZenonT(60) DEF IInv

LEMMA AuditKeepsLoop ==
    ASSUME IInv, WorkerInv, audit_outcome, UNCHANGED loopVars
    PROVE  IInv'
<1>1. /\ UNCHANGED <<findings, policies, deployments, telemetry, collector>>
      /\ UNCHANGED <<pc, req, answer, retry, final>>
  BY Zenon DEF audit_outcome, loopVars
<1>2. PICK new \in AuditRow :
        /\ new.kind = "outcome" /\ new.corr = record.id
        /\ audit' = audit \/ (audit' = audit \cup {new} /\ ~Conflicts(record.id, "outcome"))
  BY AuditEffect, Zenon
<1>3. SUFFICES ASSUME audit' = audit \cup {new}, ~Conflicts(record.id, "outcome")
               PROVE  IInv'
  <2>1. CASE audit' = audit
    <3>1. UNCHANGED vars
      BY <1>1, <2>1, Zenon DEF vars, tables, loopVars
    <3> QED BY <3>1, StepIInv, Zenon
  <2> QED BY <1>2, <2>1
<1>4. LoopTypeOK'
  <2>1. audit' \subseteq AuditRow
    BY <1>3 DEF IInv, LoopTypeOK, TablesTypeOK
  <2> QED BY <1>1, <2>1, Zenon DEF IInv, LoopTypeOK, TablesTypeOK
<1>5. ASSUME NEW r \in Sessions PROVE ProgressAt(r)' /\ FreshAt(r)'
  <2>1. ProgressAt(r) /\ FreshAt(r)
    BY <1>5, Zenon DEF IInv, ProgressInv
  <2>2. FreshAt(r)'
    BY <1>1, <2>1, Zenon DEF FreshAt
  <2>3. \A k : Trail(r, k) => Trail(r, k)'
    BY <1>1, <1>3, Zenon DEF Trail
  <2>4. UNCHANGED <<Claimed(r), Deployed(r), KeyOf(req[r]), pc[r], final[r], findings, collector>>
    BY <1>1, ZenonT(30) DEF Claimed, KeyOf, Deployed
  <2>5. ProgressAt(r)'
    BY <2>1, <2>3, <2>4, SMTT(60) DEF ProgressAt
  <2> QED BY <2>2, <2>5
<1>6. ProgressInv'
  BY <1>1, <1>5, Zenon DEF IInv, ProgressInv, KeyOf
<1>7. OneRecordPerFinding' /\ DeploymentLineage'
  BY <1>1, Zenon DEF IInv, OneRecordPerFinding, DeploymentLineage
<1>8. AuditUnique'
  <2>1. \A a \in audit : ~(a.corr = new.corr /\ a.kind = new.kind)
    BY <1>2, <1>3, ZenonT(60) DEF Conflicts
  <2> QED BY <1>3, <2>1, Zenon DEF IInv, AuditUnique
<1>9. AuditChain'
  <2>1. SUFFICES ASSUME NEW a \in audit'
                 PROVE  /\ a.kind = "deployed" =>
                             /\ {"accepted", "generated", "validated"}
                                  \subseteq AuditKinds(a.tenant, a.corr)'
                             /\ \E d \in deployments :
                                  d.id = a.by /\ d.tenant = a.tenant /\ d.finding = a.finding
                        /\ a.kind = "validated" =>
                             [tenant |-> a.tenant, finding |-> a.finding, session |-> a.by]
                               \in policies
    BY <1>1, Zenon DEF AuditChain
  <2>2. CASE a = new
    BY <1>2, <2>2
  <2>3. CASE a \in audit
    <3>1. AuditKinds(a.tenant, a.corr) \subseteq AuditKinds(a.tenant, a.corr)'
      BY <1>3, Zenon DEF AuditKinds
    <3>2. /\ a.kind = "deployed" =>
               /\ {"accepted", "generated", "validated"} \subseteq AuditKinds(a.tenant, a.corr)
               /\ \E d \in deployments :
                    d.id = a.by /\ d.tenant = a.tenant /\ d.finding = a.finding
          /\ a.kind = "validated" =>
               [tenant |-> a.tenant, finding |-> a.finding, session |-> a.by] \in policies
      BY <2>3, Zenon DEF IInv, AuditChain
    <3> QED BY <3>1, <3>2, Zenon
  <2> QED BY <1>3, <2>1, <2>2, <2>3
<1> QED BY <1>4, <1>6, <1>7, <1>8, <1>9, Zenon DEF IInv

(* A crash of the application is, for the sessions, one of the loop. *)
LEMMA CrashKeepsLoop ==
    ASSUME IInv, AppCrash
    PROVE  IInv'
<1>1. "crash" \in Faults /\ LoseTasks /\ UNCHANGED tables
  BY Zenon DEF AppCrash
<1>2. CASE \E r \in Sessions : pc[r] \in HandlerAt \cup SessionAt
  <2>1. Next
    BY <1>1, <1>2, Zenon DEF Next, Crash
  <2> QED BY <2>1, StepIInv, Zenon
<1>3. CASE ~\E r \in Sessions : pc[r] \in HandlerAt \cup SessionAt
  <2>1. pc \in [Sessions -> Locations]
    BY Zenon DEF IInv, LoopTypeOK
  <2>2. pc' = pc
    BY <1>1, <1>3, <2>1 DEF LoseTasks
  <2>3. UNCHANGED vars
    BY <1>1, <2>2, Zenon DEF LoseTasks, vars, loopVars
  <2> QED BY <2>3, StepIInv, Zenon
<1> QED BY <1>2, <1>3

-----------------------------------------------------------------------------
(* The verdict rows: the worker writes neither kind, and a crash loses a     *)
(* session or leaves it.                                                     *)
LEMMA WorkerKeepsVerdict ==
    ASSUME IInv, VerdictInv, OneVerdict,
           \A r \in Sessions : pc'[r] = pc[r] \/ pc'[r] = "lost",
           \A a \in audit' : a \in audit \/ a.kind = "outcome"
    PROVE  VerdictInv' /\ OneVerdict'
<1>1. SUFFICES ASSUME "db" \notin Faults
               PROVE  /\ \A a \in audit' :
                           /\ a.kind = "deployed" => pc'[a.by] \in {"telemetry", "done", "lost"}
                           /\ a.kind = "rejected" => pc'[a.by] \in {"done", "lost"}
                      /\ \A a, b \in audit' :
                           a.by = b.by => {a.kind, b.kind} # {"deployed", "rejected"}
  BY Zenon DEF VerdictInv, OneVerdict
<1>2. /\ \A a \in audit :
           /\ a.kind = "deployed" => pc[a.by] \in {"telemetry", "done", "lost"}
           /\ a.kind = "rejected" => pc[a.by] \in {"done", "lost"}
      /\ \A a, b \in audit : a.by = b.by => {a.kind, b.kind} # {"deployed", "rejected"}
  BY <1>1, ZenonT(60) DEF VerdictInv, OneVerdict
<1>3. \A a \in audit : a.by \in Sessions
  BY DEF IInv, LoopTypeOK, TablesTypeOK, AuditRow
<1>4. ASSUME NEW a \in audit'
      PROVE  /\ a.kind = "deployed" => pc'[a.by] \in {"telemetry", "done", "lost"}
             /\ a.kind = "rejected" => pc'[a.by] \in {"done", "lost"}
  BY <1>2, <1>3, <1>4
<1>5. ASSUME NEW a \in audit', NEW b \in audit', a.by = b.by
      PROVE  {a.kind, b.kind} # {"deployed", "rejected"}
  <2>1. CASE a \in audit /\ b \in audit
    BY <1>2, <1>5, <2>1, Zenon
  <2>2. CASE a.kind = "outcome" \/ b.kind = "outcome"
    BY <2>2
  <2> QED BY <1>5, <2>1, <2>2
<1> QED BY <1>4, <1>5, Zenon

(* The bounded faults are only counted up. *)
LEMMA FaultsGrow ==
    ASSUME WorkerInv, WorkerStep \/ CloseWindow(collector)
    PROVE  faults \in Nat /\ faults' \in Nat /\ faults <= faults'
<1>1. faults \in 0..MaxFaults /\ faults \in Nat
  BY FeedbackAssumption DEF WorkerInv, FeedbackTypeOK
<1>2. CASE CloseWindow(collector)
  <2>1. faults' = faults
    BY <1>2, Zenon DEF CloseWindow
  <2> QED BY <1>1, <2>1
<1>3. CASE WorkerStep
  <2>1. \E o \in WorkerOutcome : Count(o)
    BY <1>3, Zenon DEF WorkerStep, list_due, get_policy, collect_telemetry, insert_outcome,
       mark_expired, audit_outcome
  <2>2. PICK o \in WorkerOutcome : Count(o)
    BY <2>1
  <2>3. faults' \in Nat /\ faults' = IF o = "ok" THEN faults ELSE faults + 1
    BY <1>1, <2>2, Counted, Zenon
  <2> QED BY <1>1, <2>3
<1> QED BY <1>2, <1>3

(* Only insert_outcome adds an outcome row, the one of the record in hand.   *)
LEMMA OutcomesStep ==
    ASSUME WorkerInv, [AppNext]_allVars, outcomes' # outcomes
    PROVE  /\ wpc = "outcome"
           /\ 1..Len(outcomes') = 1..Len(outcomes) \cup {Len(outcomes) + 1}
           /\ \A i \in 1..Len(outcomes) : outcomes'[i] = outcomes[i]
           /\ KeyOf(outcomes'[Len(outcomes) + 1]) = KeyOf(record)
<1>1. insert_outcome
  BY Zenon DEF AppNext, AppCrash, LoseWorker, WorkerStep, CloseWindow, list_due, get_policy,
     collect_telemetry, mark_expired, audit_outcome, allVars, feedbackVars
<1> DEFINE n == Len(outcomes) + 1
           new == [id |-> record.id, tenant |-> record.tenant,
                   finding |-> record.finding, state |-> verdict]
<1>2. PICK o :
        IF o = "failed" THEN outcomes' = outcomes
        ELSE /\ 1..Len(outcomes') = 1..Len(outcomes) \cup {n}
             /\ \A i \in 1..Len(outcomes) : outcomes'[i] = outcomes[i]
             /\ outcomes'[n] = new
  BY <1>1, InsertEffect, Zenon
<1>3. new.tenant = record.tenant /\ new.finding = record.finding
  OBVIOUS
<1> HIDE DEF n, new
<1>4. KeyOf(new) = KeyOf(record)
  BY <1>3, Zenon DEF KeyOf
<1>5. wpc = "outcome"
  BY <1>1, Zenon DEF insert_outcome
<1>6. o # "failed"
  BY <1>2, Zenon
<1> QED BY <1>2, <1>4, <1>5, <1>6, Zenon DEF n

-----------------------------------------------------------------------------
(* The worker's one step in the lifecycle: a deployment is closed once, from *)
(* active.                                                                   *)
LEMMA ExpireLifecycle ==
    ASSUME WorkerInv, mark_expired
    PROVE  [Lifecycle!LifeNext]_(Lifecycle!lifeVars)
<1>1. UNCHANGED <<findings, policies>> /\ wpc = "expire"
  BY Zenon DEF mark_expired
<1>2. /\ deployments' = deployments \/ deployments' = (deployments \ {record}) \cup {Expired}
      /\ Expired.id = record.id /\ Expired.status = "expired"
      /\ Expired.tenant = record.tenant /\ Expired.finding = record.finding
  BY ExpireEffect, Zenon
<1>3. CASE deployments' = deployments
  BY <1>1, <1>3, Zenon DEF Lifecycle!lifeVars, ClaimsIn
<1>4. CASE deployments' = (deployments \ {record}) \cup {Expired}
  <2>1. record \in deployments /\ record.status = "accepted" /\ record \in DeploymentRow
    BY <1>1, InHand, Zenon
  <2>2. \A d \in deployments : d.id = record.id => d = record
    BY <2>1, Zenon DEF WorkerInv, RowsInv
  <2> DEFINE k == KeyOf(record)
             s == record.id
  <2>3. k \in FindingRow /\ s \in Sessions
    BY <2>1 DEF DeploymentRow, FindingRow, KeyOf
  <2>4. KeyOf(Expired) = k /\ Expired.id = s
    BY <1>2, Zenon DEF KeyOf
  <2>5. <<k, s>> \in ClaimsIn("accepted")
    BY <2>1, Zenon DEF ClaimsIn
  <2>6. ClaimsIn("accepted")' = ClaimsIn("accepted") \ {<<k, s>>}
    <3>1. ASSUME NEW c \in ClaimsIn("accepted")' PROVE c \in ClaimsIn("accepted") \ {<<k, s>>}
      <4>1. PICK d \in deployments' : d.status = "accepted" /\ c = <<KeyOf(d), d.id>>
        BY <3>1, Zenon DEF ClaimsIn
      <4>2. d \in deployments /\ d # record
        BY <1>2, <1>4, <2>1, <4>1
      <4>3. d.id # s
        BY <2>2, <4>2, Zenon
      <4>4. c \in ClaimsIn("accepted")
        BY <4>1, <4>2, Zenon DEF ClaimsIn
      <4> QED BY <4>1, <4>3, <4>4
    <3>2. ASSUME NEW c \in ClaimsIn("accepted"), c # <<k, s>> PROVE c \in ClaimsIn("accepted")'
      <4>1. PICK d \in deployments : d.status = "accepted" /\ c = <<KeyOf(d), d.id>>
        BY <3>2, Zenon DEF ClaimsIn
      <4>2. d # record
        BY <3>2, <4>1, Zenon
      <4>3. d \in deployments'
        BY <1>4, <4>1, <4>2
      <4> QED BY <4>1, <4>3, Zenon DEF ClaimsIn
    <3> QED BY <3>1, <3>2
  <2>7. ClaimsIn("expired")' = ClaimsIn("expired") \cup {<<k, s>>}
    <3>1. ASSUME NEW c \in ClaimsIn("expired")' PROVE c \in ClaimsIn("expired") \cup {<<k, s>>}
      <4>1. PICK d \in deployments' : d.status = "expired" /\ c = <<KeyOf(d), d.id>>
        BY <3>1, Zenon DEF ClaimsIn
      <4>2. CASE d = Expired
        BY <2>4, <4>1, <4>2, Zenon
      <4>3. CASE d \in deployments
        BY <4>1, <4>3, Zenon DEF ClaimsIn
      <4> QED BY <1>4, <4>1, <4>2, <4>3
    <3>2. ASSUME NEW c \in ClaimsIn("expired") PROVE c \in ClaimsIn("expired")'
      <4>1. PICK d \in deployments : d.status = "expired" /\ c = <<KeyOf(d), d.id>>
        BY <3>2, Zenon DEF ClaimsIn
      <4>2. d \in deployments'
        BY <1>4, <2>1, <4>1
      <4> QED BY <4>1, <4>2, Zenon DEF ClaimsIn
    <3>3. <<k, s>> \in ClaimsIn("expired")'
      <4>1. Expired \in deployments'
        BY <1>4
      <4> QED BY <1>2, <2>4, <4>1, Zenon DEF ClaimsIn
    <3> QED BY <3>1, <3>2, <3>3
  <2>8. {<<KeyOf(p), p.session>> : p \in policies}' = {<<KeyOf(p), p.session>> : p \in policies}
    BY <1>1, Zenon DEF KeyOf
  <2>9. Lifecycle!Close(k, s)
    BY <1>1, <2>5, <2>6, <2>7, <2>8, Zenon DEF Lifecycle!Close
  <2> QED BY <2>3, <2>9, Zenon DEF Lifecycle!LifeNext
<1> QED BY <1>2, <1>3, <1>4

-----------------------------------------------------------------------------
(* The steps of the application keep its invariant.                          *)
LEMMA SessionKeepsCore ==
    ASSUME CoreInv, NEW r \in Sessions, RequestStep(r), UNCHANGED feedbackVars
    PROVE  CoreInv'
<1>0. IInv /\ WorkerInv /\ VerdictInv /\ OneVerdict
  BY Zenon DEF CoreInv
<1>1. Next
  BY Zenon DEF Next, LoopStep, RequestStep
<1>2. IInv'
  BY <1>0, <1>1, StepIInv, Zenon
<1>3. WorkerInv'
  BY <1>0, SessionKeepsWorker, Zenon
<1>4. VerdictInv' /\ OneVerdict'
  BY <1>0, SessionKeepsVerdict, Zenon
<1> QED BY <1>2, <1>3, <1>4, Zenon DEF CoreInv

LEMMA WorkerKeepsCore ==
    ASSUME CoreInv, SizesOK, WorkerStep \/ CloseWindow(collector), UNCHANGED loopVars
    PROVE  CoreInv'
<1>0. IInv /\ WorkerInv /\ VerdictInv /\ OneVerdict /\ LoopTypeOK
  BY Zenon DEF CoreInv, IInv
<1>1. pc' = pc
  BY Zenon DEF loopVars
<1>2. CASE mark_expired
  <2>1. audit' = audit
    BY <1>2, Zenon DEF mark_expired
  <2>2. VerdictInv' /\ OneVerdict'
    BY <1>0, <1>1, <2>1, WorkerKeepsVerdict, Zenon
  <2>3. WorkerInv' /\ IInv'
    BY <1>0, <1>2, ExpireKeeps, ExpireKeepsLoop, ZenonT(60)
  <2> QED BY <2>2, <2>3, Zenon DEF CoreInv
<1>3. CASE audit_outcome
  <2>1. \A a \in audit' : a \in audit \/ a.kind = "outcome"
    <3>1. PICK new : new.kind = "outcome" /\ (audit' = audit \/ audit' = audit \cup {new})
      BY <1>0, <1>3, AuditEffect, Zenon
    <3> QED BY <3>1, Zenon
  <2>2. VerdictInv' /\ OneVerdict'
    BY <1>0, <1>1, <2>1, WorkerKeepsVerdict, ZenonT(60)
  <2>3. WorkerInv' /\ IInv'
    BY <1>0, <1>3, AuditKeeps, AuditKeepsLoop, Zenon
  <2> QED BY <2>2, <2>3, Zenon DEF CoreInv
<1>4. CASE ~mark_expired /\ ~audit_outcome
  <2>1. list_due \/ get_policy \/ collect_telemetry \/ insert_outcome \/ CloseWindow(collector)
    BY <1>4, Zenon DEF WorkerStep
  <2>2. UNCHANGED tables
    BY <2>1, Zenon DEF list_due, get_policy, collect_telemetry, insert_outcome, CloseWindow
  <2>3. UNCHANGED vars /\ audit' = audit
    BY <2>2, Zenon DEF vars, tables
  <2>4. IInv'
    BY <1>0, <2>3, StepIInv, Zenon
  <2>5. VerdictInv' /\ OneVerdict'
    BY <1>0, <1>1, <2>3, WorkerKeepsVerdict, Zenon
  <2>6. WorkerInv'
    BY <1>0, <2>1, ListKeeps, GetKeeps, CollectKeeps, InsertKeeps, WindowKeeps, ZenonT(60) DEF SizesOK
  <2> QED BY <2>4, <2>5, <2>6, Zenon DEF CoreInv
<1> QED BY <1>2, <1>3, <1>4

LEMMA CrashKeepsCore ==
    ASSUME CoreInv, AppCrash
    PROVE  CoreInv'
<1>0. IInv /\ WorkerInv /\ VerdictInv /\ OneVerdict
  BY Zenon DEF CoreInv
<1>1. audit' = audit
  BY Zenon DEF AppCrash, tables
<1>2. \A r \in Sessions : pc'[r] = pc[r] \/ pc'[r] = "lost"
  BY DEF AppCrash, LoseTasks
<1>3. VerdictInv' /\ OneVerdict'
  BY <1>0, <1>1, <1>2, WorkerKeepsVerdict, Zenon
<1>4. WorkerInv' /\ IInv'
  BY <1>0, CrashKeeps, CrashKeepsLoop, Zenon
<1> QED BY <1>3, <1>4, Zenon DEF CoreInv

LEMMA StutterKeepsCore ==
    ASSUME CoreInv, UNCHANGED allVars
    PROVE  CoreInv'
<1>0. IInv /\ WorkerInv /\ VerdictInv /\ OneVerdict
  BY Zenon DEF CoreInv
<1>1. UNCHANGED vars /\ UNCHANGED feedbackVars
  BY Zenon DEF allVars
<1>2. /\ UNCHANGED <<tables, loopVars, outcomes, closed, wpc, queue, verdict, faults>>
      /\ UNCHANGED <<findings, policies, deployments, audit, telemetry, pc, collector>>
  BY <1>1, Zenon DEF vars, tables, loopVars, feedbackVars, workerVars
<1>3. IInv'
  BY <1>0, <1>1, StepIInv, Zenon
<1>4. VerdictInv' /\ OneVerdict'
  BY <1>0, <1>2, WorkerKeepsVerdict, Zenon
<1>5. FeedbackTypeOK'
  BY <1>0, <1>2, Zenon DEF WorkerInv, FeedbackTypeOK
<1>6. QueueInv'
  <2>1. \A i : RowNow(i)' = RowNow(i)
    BY <1>2, Zenon DEF RowNow
  <2> QED BY <1>0, <1>2, <2>1, ZenonT(60) DEF WorkerInv, QueueInv, Members
<1>7. HandInv'
  BY <1>0, <1>2, ZenonT(60) DEF WorkerInv, HandInv, Witnessed, OutcomesOf, record, KeyOf
<1>8. WorkerInv'
  BY <1>0, <1>2, <1>5, <1>6, <1>7, ReadKeeps, ZenonT(60)
<1> QED BY <1>3, <1>4, <1>8, Zenon DEF CoreInv

LEMMA StepCore == CoreInv /\ SizesOK /\ [AppNext]_allVars => CoreInv'
<1> SUFFICES ASSUME CoreInv, SizesOK, [AppNext]_allVars PROVE CoreInv'
  OBVIOUS
<1>1. CASE LoopStep /\ UNCHANGED feedbackVars
  BY <1>1, SessionKeepsCore, Zenon DEF LoopStep, RequestStep
<1>2. CASE (WorkerStep \/ CloseWindow(collector)) /\ UNCHANGED loopVars
  BY <1>2, WorkerKeepsCore, Zenon
<1>3. CASE AppCrash
  BY <1>3, CrashKeepsCore, Zenon
<1>4. CASE UNCHANGED allVars
  BY <1>4, StutterKeepsCore, Zenon
<1> QED BY <1>1, <1>2, <1>3, <1>4, Zenon DEF AppNext

(* Every step of the application is a step of FindingLifecycle or changes    *)
(* nothing it sees.                                                          *)
LEMMA AppLifecycle == CoreInv /\ [AppNext]_allVars => [Lifecycle!LifeNext]_(Lifecycle!lifeVars)
<1> SUFFICES ASSUME IInv, WorkerInv, [AppNext]_allVars
             PROVE  [Lifecycle!LifeNext]_(Lifecycle!lifeVars)
  BY Zenon DEF CoreInv
<1>1. CASE LoopStep
  BY <1>1, StepLifecycle, Zenon DEF LoopStep, RequestStep
<1>2. CASE mark_expired
  BY <1>2, ExpireLifecycle, Zenon
<1>3. CASE ~LoopStep /\ ~mark_expired
  <2>1. UNCHANGED <<findings, policies, deployments>>
    BY <1>3, Zenon DEF AppNext, AppCrash, WorkerStep, CloseWindow, list_due, get_policy,
       collect_telemetry, insert_outcome, audit_outcome, tables, allVars, vars
  <2> QED BY <2>1, Zenon DEF Lifecycle!lifeVars, ClaimsIn
<1> QED BY <1>1, <1>2, <1>3

-----------------------------------------------------------------------------
(* Duplicate rows and missing audits are paid for, step by step.             *)

(* No outcome row is added, and the record in hand is let go of only for a   *)
(* fault.                                                                    *)
LEMMA QuietRows ==
    ASSUME UNCHANGED <<deployments, outcomes>>, faults \in Nat, faults' \in Nat,
           faults <= faults',
           wpc # "expire" \/ UNCHANGED <<wpc, queue>> \/ faults < faults',
           NEW e \in deployments'
    PROVE  RowPaid(e)
<1>1. faults < faults' \/ faults = faults'
  OBVIOUS
<1>2. faults < faults' \/ (Spent(e) => Spent(e)')
  BY Zenon DEF Spent, record
<1>3. OutcomesOf(e.id)' = OutcomesOf(e.id) /\ e \in deployments
  BY Zenon DEF OutcomesOf
<1> QED BY <1>1, <1>2, <1>3, Zenon DEF RowPaid

(* A new deployment has no outcome row yet. *)
LEMMA SessionRows ==
    ASSUME IInv, WorkerInv, NEW r \in Sessions, RequestStep(r), UNCHANGED feedbackVars,
           NEW e \in deployments'
    PROVE  RowPaid(e)
<1>0. UNCHANGED <<outcomes, wpc, queue, faults>>
  BY Zenon DEF feedbackVars, workerVars
<1>1. \/ deployments' = deployments
      \/ \E new : /\ deployments' = deployments \cup {new}
                  /\ new.id = r /\ new.status = "accepted"
                  /\ \A d \in deployments : d.id # r
  BY DeploymentsGrow, Zenon
<1>2. CASE e \in deployments
  <2>1. OutcomesOf(e.id)' = OutcomesOf(e.id) /\ (Spent(e) => Spent(e)')
    BY <1>0, Zenon DEF OutcomesOf, Spent, record
  <2> QED BY <1>0, <1>2, <2>1, Zenon DEF RowPaid
<1>3. CASE e \notin deployments
  <2>1. e.id = r /\ \A d \in deployments : d.id # r
    BY <1>1, <1>3
  <2>2. OutcomesOf(r) = {}
    BY <2>1 DEF OutcomesOf, WorkerInv, OutcomesRegistered
  <2>3. OutcomesOf(e.id)' = {}
    BY <1>0, <2>1, <2>2, Zenon DEF OutcomesOf
  <2> QED BY <2>3, Zenon DEF RowPaid
<1> QED BY <1>2, <1>3

LEMMA ExpireRows ==
    ASSUME WorkerInv, mark_expired, NEW e \in deployments'
    PROVE  RowPaid(e)
<1>1. PICK o \in {"ok", "failed", "ack_lost"} :
        /\ faults \in Nat /\ faults' \in 0..MaxFaults
        /\ faults' = IF o = "ok" THEN faults ELSE faults + 1
        /\ deployments' = IF o = "failed" THEN deployments
                          ELSE (deployments \ {record}) \cup {Expired}
  BY ExpireEffect, Zenon
<1>2. /\ \E d \in deployments : SameRow(d, e)
      /\ e \in deployments \/ (e.id = record.id /\ e.status = "expired" /\ e \in DeploymentRow)
  BY ExpireShape, Zenon
<1>3. outcomes' = outcomes /\ wpc = "expire"
  BY Zenon DEF mark_expired
<1>4. (o = "ok" => faults = faults') /\ (o # "ok" => faults < faults')
  BY <1>1
<1>5. record \in deployments /\ \A d, g \in deployments : d.id = g.id => d = g
  BY <1>3, InHand, Zenon DEF WorkerInv, RowsInv
<1>6. PICK d \in deployments : d.id = e.id
  BY <1>2, Zenon DEF SameRow
<1>7. OutcomesOf(e.id)' = OutcomesOf(e.id)
  BY <1>3, Zenon DEF OutcomesOf
<1>8. CASE o # "ok"
  BY <1>4, <1>6, <1>7, <1>8, Zenon DEF RowPaid
<1>9. CASE o = "ok"
  <2>1. CASE e.status = "expired"
    <3>1. Spent(e)'
      BY <2>1, Zenon DEF Spent
    <3> QED BY <1>4, <1>6, <1>7, <1>9, <3>1, ZenonT(60) DEF RowPaid
  <2>2. CASE e.status # "expired"
    <3>1. e \in deployments /\ e = d
      BY <1>2, <1>5, <1>6, <2>2, ZenonT(60)
    <3>2. e # record
      <4>1. deployments' = (deployments \ {record}) \cup {Expired}
        BY <1>1, <1>9
      <4>2. Expired.status = "expired"
        BY ExpireEffect, Zenon
      <4> QED BY <2>2, <4>1, <4>2
    <3>3. ~Spent(d)
      BY <1>5, <2>2, <3>1, <3>2, ZenonT(60) DEF Spent
    <3> QED BY <1>4, <1>6, <1>7, <1>9, <3>3, ZenonT(60) DEF RowPaid
  <2> QED BY <2>1, <2>2
<1> QED BY <1>8, <1>9

LEMMA InsertRows ==
    ASSUME WorkerInv, insert_outcome, NEW d \in deployments'
    PROVE  RowPaid(d)
<1> DEFINE n == Len(outcomes) + 1
           new == [id |-> record.id, tenant |-> record.tenant,
                   finding |-> record.finding, state |-> verdict]
<1>1. PICK o \in {"ok", "failed", "ack_lost"} :
        /\ faults \in Nat /\ faults' \in 0..MaxFaults
        /\ faults' = IF o = "ok" THEN faults ELSE faults + 1
        /\ IF o = "ok" THEN wpc' = "expire" /\ UNCHANGED <<queue, verdict>> ELSE Abandon
        /\ IF o = "failed" THEN outcomes' = outcomes
           ELSE /\ outcomes' \in Seq(OutcomeRow)
                /\ 1..Len(outcomes') = 1..Len(outcomes) \cup {n}
                /\ n \notin 1..Len(outcomes)
                /\ \A i \in 1..Len(outcomes) : outcomes'[i] = outcomes[i]
                /\ outcomes'[n] = new
  BY InsertEffect, Zenon
<1>2. deployments' = deployments /\ wpc = "outcome"
  BY ZenonT(60) DEF insert_outcome, tables
<1>3. /\ faults \in Nat /\ faults' \in Nat /\ faults <= faults'
      /\ (o = "ok" => faults = faults') /\ (o # "ok" => faults < faults')
  BY <1>1
<1>4. record \in deployments /\ record.status = "accepted"
  BY <1>2, InHand, Zenon
<1>5. CASE o = "failed"
  <2>1. outcomes' = outcomes
    BY <1>1, <1>5, ZenonT(60)
  <2> QED BY <1>2, <1>3, <2>1, QuietRows, ZenonT(60)
<1>6. CASE o # "failed"
  <2>1. /\ 1..Len(outcomes') = 1..Len(outcomes) \cup {n}
        /\ n \notin 1..Len(outcomes)
        /\ \A i \in 1..Len(outcomes) : outcomes'[i] = outcomes[i]
        /\ outcomes'[n] = new
    BY <1>1, <1>6, ZenonT(60)
  <2>2. new.id = record.id
    OBVIOUS
  <2> HIDE DEF n, new
  <2>3. CASE d.id # record.id
    <3>1. OutcomesOf(d.id)' = OutcomesOf(d.id)
      BY <2>1, <2>2, <2>3, SMTT(30) DEF OutcomesOf
    <3>2. Spent(d) => Spent(d)'
      BY <1>2, Zenon DEF Spent
    <3> QED BY <1>2, <1>3, <3>1, <3>2, ZenonT(60) DEF RowPaid
  <2>4. CASE d.id = record.id
    <3>1. d = record
      BY <1>2, <1>4, <2>4, Zenon DEF WorkerInv, RowsInv
    <3>2. ~Spent(d)
      BY <1>2, <1>4, <3>1, ZenonT(60) DEF Spent
    <3>3. OutcomesOf(d.id)' = OutcomesOf(d.id) \cup {n} /\ n \notin OutcomesOf(d.id)
      BY <2>1, <2>2, <2>4, SMTT(30) DEF OutcomesOf
    <3>4. o = "ok" => Spent(d)'
      <4>1. o = "ok" => wpc' = "expire" /\ queue' = queue
        BY <1>1, Zenon
      <4> QED BY <2>4, <4>1, Zenon DEF Spent, record
    <3> QED BY <1>2, <1>3, <3>2, <3>3, <3>4, ZenonT(60) DEF RowPaid
  <2> QED BY <2>3, <2>4
<1> QED BY <1>5, <1>6

LEMMA StepRows ==
    ASSUME CoreInv, [AppNext]_allVars, NEW e \in deployments'
    PROVE  RowPaid(e)
<1>0. IInv /\ WorkerInv
  BY Zenon DEF CoreInv
<1>1. CASE LoopStep /\ UNCHANGED feedbackVars
  BY <1>0, <1>1, SessionRows, ZenonT(60) DEF LoopStep, RequestStep
<1>2. CASE WorkerStep \/ CloseWindow(collector)
  <2>1. CASE mark_expired \/ insert_outcome
    BY <1>0, <2>1, ExpireRows, InsertRows, ZenonT(60)
  <2>2. CASE ~mark_expired /\ ~insert_outcome
    <3>1. UNCHANGED <<deployments, outcomes>>
      BY <1>2, <2>2, Zenon DEF WorkerStep, list_due, get_policy, collect_telemetry,
         audit_outcome, CloseWindow, tables
    <3>2. wpc # "expire" \/ UNCHANGED <<wpc, queue>>
      BY <1>2, <2>2, Zenon DEF WorkerStep, list_due, get_policy, collect_telemetry,
         audit_outcome, CloseWindow, workerVars
    <3>3. faults \in Nat /\ faults' \in Nat /\ faults <= faults'
      BY <1>0, <1>2, FaultsGrow, ZenonT(60)
    <3> QED BY <3>1, <3>2, <3>3, QuietRows, ZenonT(60)
  <2> QED BY <2>1, <2>2
<1>3. CASE AppCrash \/ UNCHANGED allVars
  <2>1. UNCHANGED <<deployments, outcomes>>
    BY <1>3, Zenon DEF AppCrash, LoseWorker, tables, allVars, vars, feedbackVars
  <2>2. faults \in Nat
    BY <1>0, FeedbackAssumption DEF WorkerInv, FeedbackTypeOK
  <2>3. faults' = faults + 1 \/ UNCHANGED <<wpc, queue, faults>>
    BY <1>3, Zenon DEF AppCrash, LoseWorker, allVars, feedbackVars, workerVars
  <2>4. /\ faults' \in Nat /\ faults <= faults'
        /\ UNCHANGED <<wpc, queue>> \/ faults < faults'
    BY <2>2, <2>3
  <2> QED BY <2>1, <2>2, <2>4, QuietRows, ZenonT(60)
<1> QED BY <1>1, <1>2, <1>3, Zenon DEF AppNext

(* The audit log only grows, and expiring is not a session's business. *)
LEMMA SessionStrays ==
    ASSUME IInv, NEW r \in Sessions, RequestStep(r), UNCHANGED feedbackVars
    PROVE  Unaudited' \subseteq Unaudited /\ faults' = faults
<1>0. UNCHANGED <<wpc, queue, faults>>
  BY Zenon DEF feedbackVars, workerVars
<1>1. \A d \in deployments' : d \in deployments \/ d.status = "accepted"
  <2>1. \/ deployments' = deployments
        \/ \E new : deployments' = deployments \cup {new} /\ new.status = "accepted"
    BY DeploymentsGrow, Zenon
  <2> QED BY <2>1
<1>2. audit \subseteq audit'
  BY StepFrame, ZenonT(60) DEF IInv
<1>3. \A d : Conflicts(d.id, "outcome") => Conflicts(d.id, "outcome")'
  BY <1>2 DEF Conflicts
<1> QED BY <1>0, <1>1, <1>3 DEF Unaudited, record

(* The record in hand is given up at its audit write. *)
LEMMA CrashStrays ==
    ASSUME WorkerInv, UNCHANGED deployments, audit \subseteq audit'
    PROVE  Unaudited' \subseteq Unaudited \cup {Expired}
<1>1. \A d : Conflicts(d.id, "outcome") => Conflicts(d.id, "outcome")'
  BY Zenon DEF Conflicts
<1>2. CASE wpc # "audit"
  BY <1>1, <1>2, Zenon DEF Unaudited
<1>3. CASE wpc = "audit"
  <2>1. Expired \in deployments /\ record \in DeploymentRow
    BY <1>3, InHand, Zenon DEF Expired
  <2>2. Expired.id = record.id
    BY <2>1 DEF Expired, DeploymentRow
  <2>3. \A d \in deployments : d.id = record.id => d = Expired
    BY <2>1, <2>2, Zenon DEF WorkerInv, RowsInv
  <2> QED BY <1>1, <2>3, Zenon DEF Unaudited
<1> QED BY <1>2, <1>3

LEMMA ExpireStrays ==
    ASSUME WorkerInv, mark_expired
    PROVE  StrayPaid
<1>1. PICK o \in {"ok", "failed", "ack_lost"} :
        /\ faults \in Nat /\ faults' \in 0..MaxFaults
        /\ faults' = IF o = "ok" THEN faults ELSE faults + 1
        /\ IF o = "ok" THEN wpc' = "audit" /\ UNCHANGED <<queue, verdict>> ELSE Abandon
        /\ deployments' = IF o = "failed" THEN deployments
                          ELSE (deployments \ {record}) \cup {Expired}
  BY ExpireEffect, Zenon
<1>2. audit' = audit /\ wpc = "expire" /\ Expired.id = record.id
  BY ExpireEffect, Zenon DEF mark_expired
<1>3. (o = "ok" => faults <= faults') /\ (o # "ok" => faults' = faults + 1)
  BY <1>1
<1>4. \A e : Conflicts(e.id, "outcome")' <=> Conflicts(e.id, "outcome")
  BY <1>2, Zenon DEF Conflicts
<1>5. \A e \in deployments' : e \in deployments \/ e = Expired
  BY <1>1
<1>6. Unaudited' \subseteq Unaudited \cup {Expired}
  BY <1>2, <1>4, <1>5, Zenon DEF Unaudited
<1>7. ASSUME o = "ok" PROVE Unaudited' \subseteq Unaudited
  <2>1. wpc' = "audit" /\ queue' = queue
    BY <1>1, <1>7, Zenon
  <2>2. Expired \notin Unaudited'
    BY <1>2, <2>1, Zenon DEF Unaudited, record
  <2> QED BY <1>6, <2>2
<1> QED BY <1>3, <1>6, <1>7, Zenon DEF StrayPaid

LEMMA AuditStrays ==
    ASSUME WorkerInv, audit_outcome
    PROVE  StrayPaid
<1>1. PICK o \in {"ok", "failed", "ack_lost"}, new \in AuditRow :
        /\ faults \in Nat /\ faults' \in 0..MaxFaults
        /\ faults' = IF o = "ok" THEN faults ELSE faults + 1
        /\ audit' = audit \/ (audit' = audit \cup {new} /\ ~Conflicts(record.id, "outcome"))
        /\ o = "ok" => \E row \in audit' : row.corr = record.id /\ row.kind = "outcome"
  BY AuditEffect, Zenon
<1>2. deployments' = deployments /\ audit \subseteq audit'
  BY <1>1, Zenon DEF audit_outcome
<1>3. CASE o # "ok"
  <2>1. faults' = faults + 1
    BY <1>1, <1>3, Zenon
  <2> QED BY <1>2, <2>1, CrashStrays, Zenon DEF StrayPaid
<1>4. CASE o = "ok"
  <2>1. faults <= faults'
    BY <1>1, <1>4
  <2>2. PICK row \in audit' : row.corr = record.id /\ row.kind = "outcome"
    BY <1>1, <1>4, Zenon
  <2>3. SUFFICES ASSUME NEW d \in Unaudited' PROVE d \in Unaudited
    BY <2>1, Zenon DEF StrayPaid
  <2>4. d \in deployments /\ d.status = "expired" /\ ~Conflicts(d.id, "outcome")'
    BY <1>2, <2>3, Zenon DEF Unaudited
  <2>5. \A a \in audit' : ~(a.corr = d.id /\ a.kind = "outcome")
    BY <2>4, Zenon DEF Conflicts
  <2>6. d.id # record.id
    BY <2>2, <2>5, Zenon
  <2>7. ~Conflicts(d.id, "outcome")
    BY <1>2, <2>5, Zenon DEF Conflicts
  <2> QED BY <2>4, <2>6, <2>7, ZenonT(60) DEF Unaudited
<1> QED BY <1>3, <1>4

LEMMA StepStrays ==
    ASSUME CoreInv, [AppNext]_allVars
    PROVE  StrayPaid /\ faults \in Nat /\ faults' \in Nat
<1>0. IInv /\ WorkerInv /\ faults \in Nat
  BY FeedbackAssumption DEF CoreInv, WorkerInv, FeedbackTypeOK
<1>1. CASE LoopStep /\ UNCHANGED feedbackVars
  <2>1. Unaudited' \subseteq Unaudited /\ faults' = faults
    BY <1>0, <1>1, SessionStrays, Zenon DEF LoopStep, RequestStep
  <2>2. faults <= faults' /\ faults' \in Nat
    BY <1>0, <2>1
  <2> QED BY <1>0, <2>1, <2>2, Zenon DEF StrayPaid
<1>2. CASE WorkerStep \/ CloseWindow(collector)
  <2>0. faults' \in Nat /\ faults <= faults'
    BY <1>0, <1>2, FaultsGrow, Zenon
  <2>1. CASE mark_expired \/ audit_outcome
    BY <1>0, <2>0, <2>1, ExpireStrays, AuditStrays, Zenon
  <2>2. CASE ~mark_expired /\ ~audit_outcome
    <3>1. UNCHANGED <<deployments, audit>>
      BY <1>2, <2>2, Zenon DEF WorkerStep, list_due, get_policy, collect_telemetry,
         insert_outcome, CloseWindow, tables
    <3>2. wpc # "audit" \/ UNCHANGED <<wpc, queue>>
      BY <1>2, <2>2, ZenonT(60) DEF WorkerStep, list_due, get_policy, collect_telemetry,
         insert_outcome, CloseWindow, workerVars
    <3>3. Unaudited' \subseteq Unaudited
      <4>1. \A d : Conflicts(d.id, "outcome")' <=> Conflicts(d.id, "outcome")
        BY <3>1, Zenon DEF Conflicts
      <4> QED BY <3>1, <3>2, <4>1 DEF Unaudited, record
    <3> QED BY <1>0, <2>0, <3>3, Zenon DEF StrayPaid
  <2> QED BY <2>1, <2>2
<1>3. CASE AppCrash
  <2>1. UNCHANGED <<deployments, audit>> /\ faults' = faults + 1
    BY <1>3, Zenon DEF AppCrash, LoseWorker, tables
  <2>2. Unaudited' \subseteq Unaudited \cup {Expired} /\ faults' \in Nat
    <3>1. Unaudited' \subseteq Unaudited \cup {Expired}
      BY <1>0, <2>1, CrashStrays, Zenon
    <3> QED BY <1>0, <2>1, <3>1
  <2> QED BY <1>0, <2>1, <2>2, ZenonT(60) DEF StrayPaid
<1>4. CASE UNCHANGED allVars
  <2>1. UNCHANGED <<deployments, audit, wpc, queue, faults>>
    BY <1>4, Zenon DEF allVars, vars, tables, feedbackVars, workerVars
  <2>2. Unaudited' \subseteq Unaudited
    BY <2>1, Zenon DEF Unaudited, Conflicts, record
  <2>3. faults <= faults' /\ faults' \in Nat
    BY <1>0, <2>1
  <2> QED BY <1>0, <2>2, <2>3, Zenon DEF StrayPaid
<1> QED BY <1>1, <1>2, <1>3, <1>4, ZenonT(60) DEF AppNext

(* A step adds one row to deployments at most. *)
LEMMA StepDeployments ==
    ASSUME CoreInv, [AppNext]_allVars
    PROVE  \E new : deployments' \subseteq deployments \cup {new}
<1>0. IInv /\ WorkerInv
  BY Zenon DEF CoreInv
<1>1. CASE LoopStep
  BY <1>0, <1>1, DeploymentsGrow, Zenon DEF LoopStep, RequestStep
<1>2. CASE mark_expired
  <2>1. deployments' = deployments \/ deployments' = (deployments \ {record}) \cup {Expired}
    BY <1>0, <1>2, ExpireEffect, Zenon
  <2> QED BY <2>1, Zenon
<1>3. CASE ~LoopStep /\ ~mark_expired
  <2>1. deployments' = deployments
    BY <1>3, ZenonT(60) DEF AppNext, AppCrash, WorkerStep, CloseWindow, list_due, get_policy,
       collect_telemetry, insert_outcome, audit_outcome, tables, allVars, vars
  <2> QED BY <2>1, Zenon
<1> QED BY <1>1, <1>2, <1>3

LEMMA InitCore ==
    ASSUME LoopInit, FeedbackInit
    PROVE  CoreInv
<1>1. IInv
  BY InitIInv, Zenon
<1>2. /\ deployments = {} /\ audit = {}
      /\ outcomes = <<>> /\ closed = <<>> /\ wpc = "poll" /\ queue = <<>>
      /\ verdict = "none" /\ faults = 0
  BY Zenon DEF LoopInit, TablesInit, FeedbackInit
<1>3. 1..Len(outcomes) = {} /\ 1..Len(closed) = {} /\ 1..Len(queue) = {}
  BY <1>2
<1>4. FeedbackTypeOK
  <2>1. outcomes \in Seq(OutcomeRow) /\ closed \in Seq(Sessions) /\ queue \in Seq(DeploymentRow)
    BY <1>2
  <2>2. faults \in 0..MaxFaults
    BY <1>2, FeedbackAssumption
  <2> QED BY <1>2, <2>1, <2>2, Zenon DEF FeedbackTypeOK
<1>5. RowsInv
  BY <1>2, <1>3, Zenon DEF RowsInv
<1>6. QueueInv /\ HandInv /\ OutcomesRegistered /\ OutcomeLineage /\ ExpiredHasOutcome
  BY <1>2, <1>3, Zenon DEF QueueInv, HandInv, OutcomesRegistered, OutcomeLineage, ExpiredHasOutcome
<1>7. VerdictInv /\ OneVerdict
  BY <1>2, Zenon DEF VerdictInv, OneVerdict
<1> QED BY <1>1, <1>4, <1>5, <1>6, <1>7, Zenon DEF CoreInv, WorkerInv

-----------------------------------------------------------------------------
(* The counts.  The theorems on finite sets are needed from here on.         *)
INSTANCE FiniteSetTheorems

(* An accepted deployment has an outcome row for each fault at most; one     *)
(* more is the row that expires it.                                          *)
CountInv ==
    \A d \in deployments :
        Cardinality(OutcomesOf(d.id)) <= faults + (IF Spent(d) THEN 1 ELSE 0)

AuditInv == IsFiniteSet(deployments) /\ Cardinality(Unaudited) <= faults

AppInv ==
    /\ CoreInv
    /\ CountInv
    /\ AuditInv

-----------------------------------------------------------------------------
(* The sets whose sizes the worker and the invariant take are finite.        *)
(* Cardinality of the positions of a deployment's outcome rows. *)
LEMMA OutcomesFinite ==
    ASSUME outcomes \in Seq(OutcomeRow), NEW id
    PROVE  IsFiniteSet(OutcomesOf(id)) /\ Cardinality(OutcomesOf(id)) \in Nat
<1>1. Len(outcomes) \in Nat
  OBVIOUS
<1>2. IsFiniteSet(1..Len(outcomes))
  BY <1>1, FS_Interval
<1>3. OutcomesOf(id) \in SUBSET (1..Len(outcomes))
  BY DEF OutcomesOf
<1> QED BY <1>2, <1>3, FS_Subset, FS_CardinalityType, ZenonT(60)

(* A page of list_due, and the telemetry of one finding at one level. *)
LEMMA Sizes ==
    ASSUME CoreInv
    PROVE  SizesOK
<1>0. IInv /\ WorkerInv
  BY ZenonT(60) DEF CoreInv
<1>1. PageSize \in Nat
  <2>1. Len(closed) \in Nat
    BY <1>0 DEF WorkerInv, FeedbackTypeOK
  <2>2. IsFiniteSet(1..Len(closed))
    BY <2>1, FS_Interval
  <2>3. DueAt \in SUBSET (1..Len(closed))
    BY Zenon DEF DueAt
  <2>4. Cardinality(DueAt) \in Nat /\ Limit \in Nat
    BY <2>2, <2>3, FS_Subset, FS_CardinalityType, FeedbackAssumption, ZenonT(60)
  <2> QED BY <2>4 DEF PageSize
<1>2. ASSUME NEW l \in Levels
      PROVE  Cardinality(Observed(l)) \in Nat /\ (Observed(l) = {} => Cardinality(Observed(l)) = 0)
  <2> DEFINE x0 == [tenant |-> record.tenant, finding |-> record.finding, level |-> l]
  <2>1. Observed(l) \in SUBSET {x0}
    BY <1>0 DEF Observed, IInv, LoopTypeOK, TablesTypeOK, TelemetryRow
  <2> HIDE DEF x0
  <2>2. IsFiniteSet({x0})
    BY FS_Singleton, ZenonT(60)
  <2>3. IsFiniteSet(Observed(l))
    BY <2>1, <2>2, FS_Subset, ZenonT(60)
  <2> QED BY <2>3, FS_CardinalityType, FS_EmptySet, ZenonT(60)
<1> QED BY <1>1, <1>2, ZenonT(60) DEF SizesOK

-----------------------------------------------------------------------------
(* The counts.                                                               *)
LEMMA StepCount ==
    ASSUME CoreInv, CountInv, [AppNext]_allVars
    PROVE  CountInv'
<1>0. outcomes \in Seq(OutcomeRow)
  BY Zenon DEF CoreInv, WorkerInv, FeedbackTypeOK
<1>f. faults \in Nat /\ faults' \in Nat
  BY StepStrays, ZenonT(60)
<1>n. \A k \in Nat : 0 <= k + 0 /\ 0 <= k + 1
  OBVIOUS
<1>1. SUFFICES ASSUME NEW e \in deployments'
               PROVE  Cardinality(OutcomesOf(e.id)') <= faults' + (IF Spent(e)' THEN 1 ELSE 0)
  BY Zenon DEF CountInv
<1>2. RowPaid(e)
  BY <1>1, StepRows, ZenonT(60)
<1>3. IsFiniteSet(OutcomesOf(e.id)) /\ Cardinality(OutcomesOf(e.id)) \in Nat
  BY <1>0, OutcomesFinite, ZenonT(60)
<1>4. CASE OutcomesOf(e.id)' = {}
  <2>1. Cardinality(OutcomesOf(e.id)') = 0
    BY <1>4, FS_EmptySet, ZenonT(60)
  <2>2. 0 <= faults' + 0 /\ 0 <= faults' + 1
    BY <1>f, <1>n, ZenonT(60)
  <2> QED BY <2>1, <2>2, ZenonT(60)
<1>5. CASE OutcomesOf(e.id)' # {}
  <2>1. PICK d \in deployments :
          /\ d.id = e.id
          /\ \/ /\ OutcomesOf(e.id)' = OutcomesOf(e.id)
                /\ faults < faults' \/ (faults = faults' /\ (Spent(d) => Spent(e)'))
             \/ /\ ~Spent(d)
                /\ \E n : n \notin OutcomesOf(e.id) /\ OutcomesOf(e.id)' = OutcomesOf(e.id) \cup {n}
                /\ faults < faults' \/ (faults = faults' /\ Spent(e)')
    BY <1>2, <1>5, ZenonT(60) DEF RowPaid
  <2> DEFINE C == Cardinality(OutcomesOf(e.id))
             D == Cardinality(OutcomesOf(e.id)')
             s == IF Spent(d) THEN 1 ELSE 0
             t == IF Spent(e)' THEN 1 ELSE 0
  <2>2. C <= faults + s
    BY <2>1, ZenonT(60) DEF CountInv
  <2>3. \A n : n \notin OutcomesOf(e.id) => Cardinality(OutcomesOf(e.id) \cup {n}) = C + 1
    BY <1>3, FS_AddElement, ZenonT(60)
  <2>4. \/ D = C /\ (faults < faults' \/ (faults = faults' /\ (s = 0 \/ t = 1)))
        \/ D = C + 1 /\ s = 0 /\ (faults < faults' \/ (faults = faults' /\ t = 1))
    BY <2>1, <2>3, ZenonT(60)
  <2>5. C \in Nat /\ s \in {0, 1} /\ t \in {0, 1}
    BY <1>3, ZenonT(60)
  <2> HIDE DEF C, D, s, t
  <2>6. D <= faults' + t
    BY <1>f, <2>2, <2>4, <2>5, CountPaid, ZenonT(60)
  <2> QED BY <2>6, ZenonT(60) DEF D, t
<1> QED BY <1>4, <1>5, ZenonT(60)

LEMMA StepUnaudited ==
    ASSUME CoreInv, AuditInv, [AppNext]_allVars
    PROVE  AuditInv'
<1>0. StrayPaid /\ faults \in Nat /\ faults' \in Nat
  BY StepStrays, ZenonT(60)
<1>1. IsFiniteSet(Unaudited) /\ IsFiniteSet(deployments)
  <2>1. Unaudited \in SUBSET deployments
    BY DEF Unaudited
  <2> QED BY <2>1, FS_Subset, ZenonT(60) DEF AuditInv
<1>2. IsFiniteSet(deployments')
  <2>1. PICK new : deployments' \in SUBSET (deployments \cup {new})
    BY StepDeployments, ZenonT(60)
  <2> QED BY <1>1, <2>1, FS_AddElement, FS_Subset, ZenonT(60)
<1>3. Cardinality(Unaudited) \in Nat /\ Cardinality(Unaudited) <= faults
  BY <1>1, FS_CardinalityType, ZenonT(60) DEF AuditInv
<1>4. /\ IsFiniteSet(Unaudited \cup {Expired})
      /\ Cardinality(Unaudited \cup {Expired}) =
           IF Expired \in Unaudited THEN Cardinality(Unaudited) ELSE Cardinality(Unaudited) + 1
  BY <1>1, FS_AddElement, ZenonT(60)
<1>5. CASE Unaudited' \in SUBSET Unaudited /\ faults <= faults'
  <2>1. Cardinality(Unaudited') <= Cardinality(Unaudited) /\ Cardinality(Unaudited') \in Nat
    BY <1>1, <1>5, FS_Subset, FS_CardinalityType, ZenonT(60)
  <2>2. Cardinality(Unaudited') <= faults'
    BY <1>0, <1>3, <1>5, <2>1, AtMost, ZenonT(60)
  <2> QED BY <1>2, <2>2, ZenonT(60) DEF AuditInv
<1>6. CASE Unaudited' \in SUBSET (Unaudited \cup {Expired}) /\ faults' = faults + 1
  <2>1. /\ Cardinality(Unaudited') <= Cardinality(Unaudited \cup {Expired})
        /\ Cardinality(Unaudited') \in Nat
    BY <1>4, <1>6, FS_Subset, FS_CardinalityType, ZenonT(60)
  <2>2. Cardinality(Unaudited') <= faults'
    BY <1>0, <1>3, <1>4, <1>6, <2>1, AtMostOneMore, ZenonT(60)
  <2> QED BY <1>2, <2>2, ZenonT(60) DEF AuditInv
<1> QED BY <1>0, <1>5, <1>6, ZenonT(60) DEF StrayPaid

-----------------------------------------------------------------------------
(* The inductive invariant of the application.                               *)
LEMMA InitAppInv == AppInit => AppInv
<1> SUFFICES ASSUME LoopInit, FeedbackInit PROVE AppInv
  BY Zenon DEF AppInit
<1>1. CoreInv
  BY InitCore, ZenonT(60)
<1>2. deployments = {} /\ faults = 0
  BY ZenonT(60) DEF LoopInit, TablesInit, FeedbackInit
<1>3. CountInv
  BY <1>2, ZenonT(60) DEF CountInv
<1>4. AuditInv
  <2>1. Unaudited = {}
    BY <1>2 DEF Unaudited
  <2> QED BY <1>2, <2>1, FS_EmptySet, ZeroCount, ZenonT(60) DEF AuditInv
<1> QED BY <1>1, <1>3, <1>4, ZenonT(60) DEF AppInv

LEMMA StepAppInv == AppInv /\ [AppNext]_allVars => AppInv'
  BY Sizes, StepCore, StepCount, StepUnaudited, ZenonT(60) DEF AppInv

LEMMA AppInvariance == AppSpec => []AppInv
  BY InitAppInv, StepAppInv, PTL DEF AppSpec

-----------------------------------------------------------------------------
(* What the invariant says of the application, beside its own conjuncts.     *)

(* Types.  Every table, session and worker variable keeps its type for any   *)
(* constants; faults stays within MaxFaults, a record is in hand whenever    *)
(* the worker is not polling, and it has a verdict when one is written.      *)
THEOREM AppTyped == AppSpec => []AppTypeOK
<1>1. AppInv => AppTypeOK
  BY ZenonT(60) DEF AppInv, CoreInv, IInv, WorkerInv, AppTypeOK
<1> QED BY <1>1, AppInvariance, PTL

(* FR-009's link (feedback/worker.py _process): every outcome row has its    *)
(* finding, the policy its own session registered, a deployment the          *)
(* collector accepted and whose window is over, and the telemetry its        *)
(* verdict speaks of.                                                        *)
THEOREM OutcomesLinked == AppSpec => []OutcomeLineage
<1>1. AppInv => OutcomeLineage
  BY Zenon DEF AppInv, CoreInv, WorkerInv
<1> QED BY <1>1, AppInvariance, PTL

(* FR-009: no deployment leaves the worker's list without an outcome row,    *)
(* wherever a call of _process fails or the process dies.                    *)
THEOREM NoneDropped == AppSpec => []ExpiredHasOutcome
<1>1. AppInv => ExpiredHasOutcome
  BY ZenonT(60) DEF AppInv, CoreInv, WorkerInv
<1> QED BY <1>1, AppInvariance, PTL

(* While the database answers, no session audits both 'deployed' and         *)
(* 'rejected' (graph/runner.py run_async).                                   *)
THEOREM SingleVerdict == AppSpec => []OneVerdict
<1>1. AppInv => OneVerdict
  BY Zenon DEF AppInv, CoreInv
<1> QED BY <1>1, AppInvariance, PTL

(* What PolicyLoop promises of the registry holds with the feedback worker   *)
(* writing to the same tables: one record per finding, the lineage of a      *)
(* deployment, the audit chain and the unique audit key.                     *)
THEOREM RegistrySound ==
    AppSpec => [](OneRecordPerFinding /\ DeploymentLineage /\ AuditChain /\ AuditUnique)
<1>1. AppInv => OneRecordPerFinding /\ DeploymentLineage /\ AuditChain /\ AuditUnique
  BY ZenonT(60) DEF AppInv, CoreInv, IInv
<1> QED BY <1>1, AppInvariance, PTL

(* The price of a flaw.  A deployment has at most one outcome row more than  *)
(* there were failed calls, lost acknowledgements and crashes, and so many   *)
(* deployments at most are expired without their audit row, the one in the   *)
(* worker's hands aside.                                                     *)
THEOREM FlawsCostFaults == AppSpec => []OutcomeFlawsNeedFaults
<1>1. AppInv => OutcomeFlawsNeedFaults
  <2> SUFFICES ASSUME WorkerInv, CountInv, AuditInv PROVE OutcomeFlawsNeedFaults
    BY Zenon DEF AppInv, CoreInv
  <2>0. faults \in Nat /\ outcomes \in Seq(OutcomeRow)
    BY FeedbackAssumption DEF WorkerInv, FeedbackTypeOK
  <2>1. ASSUME NEW d \in deployments PROVE Cardinality(OutcomesOf(d.id)) <= 1 + faults
    <3>1. Cardinality(OutcomesOf(d.id)) \in Nat
      BY <2>0, OutcomesFinite, ZenonT(60)
    <3>2. Cardinality(OutcomesOf(d.id)) <= faults + (IF Spent(d) THEN 1 ELSE 0)
      BY <2>1, ZenonT(60) DEF CountInv
    <3> QED BY <2>0, <3>1, <3>2, AtMostMore, ZenonT(60)
  <2> DEFINE Missing == {d \in deployments : d.status = "expired" /\ ~Conflicts(d.id, "outcome")}
  <2>2. IsFiniteSet(Unaudited) /\ Cardinality(Unaudited) \in Nat
    <3>1. Unaudited \in SUBSET deployments
      BY DEF Unaudited
    <3> QED BY <3>1, FS_Subset, FS_CardinalityType, ZenonT(60) DEF AuditInv
  <2>3. Cardinality(Unaudited) <= faults
    BY Zenon DEF AuditInv
  <2>4. CASE wpc # "audit"
    <3>1. Missing = Unaudited
      BY <2>4 DEF Unaudited
    <3> HIDE DEF Missing
    <3>2. Cardinality(Missing) <= faults + (IF wpc = "audit" THEN 1 ELSE 0)
      BY <2>0, <2>2, <2>3, <2>4, <3>1, AtMostMore, ZenonT(60)
    <3> QED BY <2>1, <3>2, ZenonT(60) DEF OutcomeFlawsNeedFaults, Missing
  <2>5. CASE wpc = "audit"
    <3>1. Expired \in deployments /\ record \in DeploymentRow
      BY <2>5, InHand, ZenonT(60) DEF Expired
    <3>2. Expired.id = record.id
      BY <3>1 DEF Expired, DeploymentRow
    <3>3. \A d \in deployments : d.id = record.id => d = Expired
      BY <3>1, <3>2, ZenonT(60) DEF WorkerInv, RowsInv
    <3>4. Missing \in SUBSET (Unaudited \cup {Expired})
      BY <3>3 DEF Unaudited
    <3>5. /\ IsFiniteSet(Unaudited \cup {Expired})
          /\ Cardinality(Unaudited \cup {Expired}) =
               IF Expired \in Unaudited THEN Cardinality(Unaudited) ELSE Cardinality(Unaudited) + 1
      BY <2>2, FS_AddElement, ZenonT(60)
    <3>6. /\ Cardinality(Missing) <= Cardinality(Unaudited \cup {Expired})
          /\ Cardinality(Missing) \in Nat
      BY <3>4, <3>5, FS_Subset, FS_CardinalityType, ZenonT(60)
    <3> HIDE DEF Missing
    <3>7. Cardinality(Missing) <= faults + (IF wpc = "audit" THEN 1 ELSE 0)
      BY <2>0, <2>2, <2>3, <2>5, <3>5, <3>6, AtMostOneMore, ZenonT(60)
    <3> QED BY <2>1, <3>7, Zenon DEF OutcomeFlawsNeedFaults, Missing
  <2> QED BY <2>4, <2>5, ZenonT(60)
<1> QED BY <1>1, AppInvariance, PTL

-----------------------------------------------------------------------------
(* A set of positions has a last one.                                        *)
LEMMA Least ==
    ASSUME NEW S, S \subseteq Nat, S # {}
    PROVE  \E i \in S : \A j \in S : i <= j
<1> DEFINE R == OpToRel(<, Nat)
<1>1. IsWellFoundedOn(R, Nat)
  BY NatLessThanWellFounded, ZenonT(60)
<1>2. \A i, j \in Nat : j < i => <<j, i>> \in R
  BY DEF OpToRel
<1> HIDE DEF R
<1>3. PICK i \in S : \A j \in S : ~(<<j, i>> \in R)
  BY <1>1, WFMin, ZenonT(60)
<1>4. \A j \in S : ~(j < i)
  BY <1>2, <1>3, ZenonT(60)
<1> QED BY <1>4

LEMMA Latest ==
    ASSUME NEW n \in Nat, NEW S \in SUBSET (1..n), S # {}
    PROVE  \E i \in S : \A j \in S : j <= i
<1> DEFINE T == {k \in 0..n : n - k \in S}
<1>1. PICK i \in S : TRUE
  BY ZenonT(60)
<1>2. n - i \in 0..n /\ n - (n - i) = i
  BY <1>1
<1>3. n - i \in T
  BY <1>1, <1>2, ZenonT(60)
<1>4. T \subseteq Nat
  OBVIOUS
<1>5. PICK k \in T : \A j \in T : k <= j
  BY <1>3, <1>4, Least, ZenonT(60)
<1>6. n - k \in S
  BY Zenon
<1>7. ASSUME NEW j \in S PROVE j <= n - k
  <2>1. n - j \in 0..n /\ n - (n - j) = j
    BY <1>7
  <2>2. n - j \in T
    BY <1>7, <2>1, ZenonT(60)
  <2>3. k <= n - j
    BY <1>5, <2>2, ZenonT(60)
  <2> QED BY <1>7, <2>3
<1> QED BY <1>6, <1>7, ZenonT(60)

(* Without a fault so far, the finding of the record in hand has no outcome  *)
(* row: its policy, and so its deployment, is the finding's only one.        *)
LEMMA FirstOutcome ==
    ASSUME AppInv, faults = 0, wpc = "outcome", NEW i \in 1..Len(outcomes)
    PROVE  KeyOf(outcomes[i]) # KeyOf(record)
<1>0. IInv /\ WorkerInv /\ CountInv
  BY Zenon DEF AppInv, CoreInv
<1>1. record \in deployments /\ record.status = "accepted"
  BY <1>0, InHand, ZenonT(60)
<1>2. OutcomesOf(record.id) = {}
  <2>1. IsFiniteSet(OutcomesOf(record.id)) /\ Cardinality(OutcomesOf(record.id)) \in Nat
    <3>1. outcomes \in Seq(OutcomeRow)
      BY <1>0, ZenonT(60) DEF WorkerInv, FeedbackTypeOK
    <3> QED BY <3>1, OutcomesFinite, ZenonT(60)
  <2>2. ~Spent(record)
    BY <1>1 DEF Spent
  <2>3. Cardinality(OutcomesOf(record.id)) <= 0 + (IF Spent(record) THEN 1 ELSE 0)
    BY <1>0, <1>1, ZenonT(60) DEF CountInv
  <2>4. Cardinality(OutcomesOf(record.id)) = 0
    BY <2>1, <2>2, <2>3, ZeroCount, ZenonT(60)
  <2> QED BY <2>1, <2>4, FS_EmptySet, ZenonT(60)
<1>3. outcomes[i].id # record.id
  BY <1>2, ZenonT(60) DEF OutcomesOf
<1> DEFINE p == [tenant |-> record.tenant, finding |-> record.finding, session |-> record.id]
           q == [tenant |-> outcomes[i].tenant, finding |-> outcomes[i].finding,
                 session |-> outcomes[i].id]
<1>4. p \in policies
  BY <1>0, <1>1, ZenonT(60) DEF IInv, DeploymentLineage
<1>5. q \in policies
  BY <1>0, ZenonT(60) DEF WorkerInv, OutcomeLineage, Linked
<1>6. SUFFICES ASSUME KeyOf(outcomes[i]) = KeyOf(record) PROVE FALSE
  BY ZenonT(60)
<1>7. p.tenant = q.tenant /\ p.finding = q.finding
  BY <1>6, ZenonT(60) DEF KeyOf
<1>8. p.session # q.session
  BY <1>3, ZenonT(60)
<1> HIDE DEF p, q
<1>9. p = q
  BY <1>0, <1>4, <1>5, <1>7, ZenonT(60) DEF IInv, OneRecordPerFinding
<1> QED BY <1>8, <1>9, ZenonT(60)

(* OutcomeRepository.get_by_finding: until a fault happens, an answer other  *)
(* than 404 to GET /findings/{id}/outcome is never replaced by another,      *)
(* whatever telemetry arrives after the evaluation.                          *)
THEOREM VerdictStands == AppSpec => ServedVerdictFinal
<1>1. AppInv /\ [AppNext]_allVars =>
        [\A key \in findings :
           get_by_finding(key) \notin {"404", get_by_finding(key)'} => faults > 0]_allVars
  <2>1. SUFFICES ASSUME AppInv, [AppNext]_allVars, NEW key, faults = 0,
                        get_by_finding(key) # "404"
                 PROVE  get_by_finding(key)' = get_by_finding(key)
    <3>1. AppInv => faults \in Nat
      BY FeedbackAssumption DEF AppInv, CoreInv, WorkerInv, FeedbackTypeOK
    <3>2. AppInv => (faults = 0 \/ faults > 0)
      BY <3>1
    <3> QED BY <3>2, ZenonT(60)
  <2> DEFINE rows == {i \in 1..Len(outcomes) : KeyOf(outcomes[i]) = key}
  <2>2. rows # {}
    BY <2>1, ZenonT(60) DEF get_by_finding
  <2> DEFINE last == CHOOSE i \in rows : \A j \in rows : j <= i
             rowsAfter == {i \in 1..Len(outcomes') : KeyOf(outcomes'[i]) = key}
  <2>3. get_by_finding(key) = outcomes[last].state
    BY <2>2, ZenonT(60) DEF get_by_finding
  <2>4. rowsAfter = rows => get_by_finding(key)' = outcomes'[last].state
    BY <2>2, ZenonT(60) DEF get_by_finding
  <2>5. CASE outcomes' = outcomes
    <3>1. rowsAfter = rows
      BY <2>5
    <3> HIDE DEF rows, rowsAfter, last
    <3> QED BY <2>5, <2>3, <2>4, <3>1, ZenonT(60)
  <2>6. CASE outcomes' # outcomes
    <3>1. /\ wpc = "outcome"
          /\ 1..Len(outcomes') = 1..Len(outcomes) \cup {Len(outcomes) + 1}
          /\ \A i \in 1..Len(outcomes) : outcomes'[i] = outcomes[i]
          /\ KeyOf(outcomes'[Len(outcomes) + 1]) = KeyOf(record)
      BY <2>1, <2>6, OutcomesStep, ZenonT(60) DEF AppInv, CoreInv
    <3>2. key # KeyOf(record)
      BY <2>1, <2>2, <3>1, FirstOutcome, ZenonT(30)
    <3>3. rowsAfter = rows
      BY <3>1, <3>2
    <3>4. Len(outcomes) \in Nat
      <4>1. outcomes \in Seq(OutcomeRow)
        BY <2>1, ZenonT(60) DEF AppInv, CoreInv, WorkerInv, FeedbackTypeOK
      <4> QED BY <4>1
    <3>5. rows \in SUBSET (1..Len(outcomes))
      OBVIOUS
    <3>6. last \in 1..Len(outcomes)
      <4> HIDE DEF rows
      <4>1. \E i \in rows : \A j \in rows : j <= i
        BY <2>2, <3>4, <3>5, Latest, ZenonT(60)
      <4>2. last \in rows
        BY <4>1, ZenonT(60)
      <4> QED BY <3>5, <4>2, ZenonT(60)
    <3> HIDE DEF rows, rowsAfter, last
    <3> QED BY <2>3, <2>4, <3>1, <3>3, <3>6, ZenonT(60)
  <2> QED BY <2>5, <2>6
<1> QED BY <1>1, AppInvariance, PTL DEF AppSpec, ServedVerdictFinal

(* The application implements FindingLifecycle to its end: handlers,         *)
(* sessions and worker together, whatever fails, take each finding through   *)
(* received, claimed by one session, active and closed, skip no stage and    *)
(* undo none.                                                                *)
THEOREM AppRefinement == AppSpec => FollowsLifecycle
<1>1. AppInit => Lifecycle!LifeInit
  BY ZenonT(60) DEF AppInit, LoopInit, TablesInit, Lifecycle!LifeInit, ClaimsIn
<1>2. AppInv /\ [AppNext]_allVars => [Lifecycle!LifeNext]_(Lifecycle!lifeVars)
  BY AppLifecycle, Zenon DEF AppInv
<1> QED BY <1>1, <1>2, AppInvariance, PTL DEF AppSpec, FollowsLifecycle, Lifecycle!LifeSpec
=============================================================================
