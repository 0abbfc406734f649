---------------------------- MODULE PolicyGraph ----------------------------
(***************************************************************************)
(* CollectMindGraph.run on one session, with what PolicyLoop leaves        *)
(* abstract: the policy client behind SLM_PROFILE, the prompt and its      *)
(* retry context, the policy schema, the VSS and governance checks, and    *)
(* the signed deployment.  A signal name is the sequence of its dotted     *)
(* segments; a policy is the record of the fields that some check reads,   *)
(* its lists taken as sets.                                                *)
(***************************************************************************)
EXTENDS Integers, Sequences, TLC

CONSTANTS
    Vocabulary,     \* names in config/vss/v6.0/signals.yaml
    Branches,       \* the PII branches of pii_signals.yaml
    BrakeSignals,   \* _DEFAULT_BRAKE_SIGNALS
    DefaultVin,     \* "VIN-default-001"
    Bracketed,      \* names and vehicles whose text contains "]"
    Findings,       \* findings a session may be about
    Answers,        \* policies the model server may return
    RetryBudget,    \* PolicyGenerationSession.retry_budget
    Profiles        \* values of SLM_PROFILE

(* A dotted name has a segment at least. *)
Name == Seq(STRING) \ {<<>>}

CollectionPolicy ==
    [typed : BOOLEAN, signals : SUBSET Name, window : Int, consent : BOOLEAN, pii : BOOLEAN,
     scope : SUBSET STRING]

ASSUME PolicyGraphAssumption ==
    /\ RetryBudget \in Nat
    /\ Profiles \subseteq {"vllm", "cpu", "stub", "dev_default"}
    /\ Branches \subseteq Name /\ BrakeSignals \subseteq Name /\ DefaultVin \in STRING
    /\ Findings \subseteq [scope : SUBSET STRING, candidates : SUBSET Name]
    /\ Answers \subseteq CollectionPolicy

VARIABLES
    profile,    \* SLM_PROFILE of the process
    finding,    \* session.originating_finding
    state,      \* where run is, or how it ended
    retry,      \* session.retry_count
    errors,     \* session.validation_errors
    policy,     \* session.generated_policy
    rounds,     \* the prompts sent, each with the policy it brought
    record      \* session.deployment_record

vars == <<profile, finding, state, retry, errors, policy, rounds, record>>

NoPolicy == <<>>
NoRecord == <<>>
SessionKey == "dev-key-1"

Init ==
    /\ profile \in Profiles
    /\ finding \in Findings
    /\ state = "generate"
    /\ retry = 0
    /\ errors = {}
    /\ policy = NoPolicy
    /\ rounds = <<>>
    /\ record = NoRecord

-----------------------------------------------------------------------------
(* models/policy.py, CollectionPolicySpec.  `typed` stands for the fields no *)
(* later check reads.                                                        *)
_consent_required_when_pii(p) == p.pii => p.consent

(* The exception lists each field at fault, with the value it had.           *)
SchemaFaults(p) ==
    {<<"typed">> : x \in {p.typed} \ {TRUE}}
    \cup {<<"signals">> : x \in {p.signals} \cap {{}}}
    \cup {<<"window", ToString(w)>> : w \in {p.window} \ (1..168)}
    \cup {<<"scope">> : x \in {p.scope} \cap {{}}}
    \cup {<<"flags">> : x \in {_consent_required_when_pii(p)} \ {TRUE}}

CollectionPolicySpec(p) == SchemaFaults(p) = {}

(* validator/vss.py.                                                         *)
validate_signal(name) == name \in Vocabulary

(* Mutant: the branches are compared as whole names.                         *)
is_pii_exact(name) == name \in Branches

(* validator/governance.py: a listed branch, or anything below one.          *)
is_pii(name) ==
    \/ name \in Branches
    \/ \E b \in Branches : Len(b) < Len(name) /\ \A i \in 1..Len(b) : name[i] = b[i]

evaluate_signals(signals, consent) ==
    LET flagged == {s \in signals : is_pii(s)} IN
    [ok |-> flagged = {} \/ consent, flagged |-> flagged]

Error(code, names) == [code |-> code, names |-> names]

(* PolicyValidator.validate: the list of errors; no error is a valid policy. *)
PolicyValidator(p) ==
    LET invalid == {s \in p.signals : ~validate_signal(s)}
        decision == evaluate_signals(p.signals, p.consent)
    IN  {Error("VSS_INVALID_SIGNAL", n) : n \in {invalid} \ {{}}}
        \cup (IF ~decision.ok THEN {Error("PII_CONSENT_REQUIRED", decision.flagged)}
              ELSE IF decision.flagged # {} /\ ~p.pii
              THEN {Error("PII_FLAG_INCONSISTENT", decision.flagged)} ELSE {})
        \cup (IF p.window \in 1..168 THEN {} ELSE {Error("WINDOW_OUT_OF_BOUNDS", {})})

(* Mutant: a policy that does not fit the schema leaves the errors alone.    *)
validation_errors_kept(p) == IF CollectionPolicySpec(p) THEN PolicyValidator(p) ELSE errors

(* PolicyValidatorNode.validate: what session.validation_errors becomes.     *)
validation_errors(p) ==
    IF CollectionPolicySpec(p) THEN PolicyValidator(p)
    ELSE {Error("SCHEMA_VALIDATION_FAILED", SchemaFaults(p))}

-----------------------------------------------------------------------------
(* _render_prompt.  Finding and session id do not change within a session;   *)
(* the retry block is there exactly when there are errors.                   *)
_render_prompt == errors

(* The rounds in which a prompt was sent.                                    *)
Sent(prompt) == {i \in 1..Len(rounds) : rounds[i].prompt = prompt}

(* The model server: at temperature 0 and with a fixed seed it gives the     *)
(* same prompt the same completion.                                          *)
Decoded(prompt) ==
    IF Sent(prompt) = {} THEN Answers ELSE {rounds[i].policy : i \in Sent(prompt)}

(* Mutant: sampling at a positive temperature.                               *)
vllm_generate_sampled(prompt) == Answers

(* VLLMClient and LlamaCppClient: both send temperature 0 and the seed.      *)
vllm_generate(prompt) == Decoded(prompt)

llamacpp_generate(prompt) == Decoded(prompt)

(* dev_default_client.py: the lists are cut out of the prompt up to the      *)
(* first "]" and parsed; what does not parse gives way to the default.       *)
_extract_finding_from_prompt(f) ==
    [scope |-> IF f.scope \cap Bracketed = {} THEN f.scope ELSE {DefaultVin},
     candidates |-> IF f.candidates \cap Bracketed = {} THEN f.candidates ELSE {}]

_build_policy(f) ==
    LET x == _extract_finding_from_prompt(f) IN
    [typed |-> TRUE, window |-> 72, consent |-> FALSE, pii |-> FALSE, scope |-> x.scope,
     signals |-> IF x.candidates = {} THEN BrakeSignals ELSE x.candidates]

(* FingerprintStubClient: the prompt holds the session's fresh id, so no     *)
(* recorded fingerprint is that of a live session.                           *)
stub_generate == {}

Completions ==
    CASE profile = "vllm" -> vllm_generate(_render_prompt)
      [] profile = "cpu" -> llamacpp_generate(_render_prompt)
      [] profile = "dev_default" -> {_build_policy(finding)}
      [] OTHER -> stub_generate

(* The client raises: no fixture, an HTTP error, a completion that is not    *)
(* JSON.                                                                     *)
MayRaise == profile # "dev_default"

(* Mutant: the budget is exhausted one retry late.                           *)
retry_budget_exhausted_late == retry > RetryBudget

(* Orchestrator.                                                             *)
retry_budget_exhausted == retry >= RetryBudget

(* Mutant: a retry is not counted.                                           *)
route_after_validation_uncounted(valid) ==
    /\ state' = IF valid THEN "deploy" ELSE IF retry_budget_exhausted THEN "dead_letter" ELSE state
    /\ UNCHANGED retry

route_after_validation(valid) ==
    IF valid THEN state' = "deploy" /\ UNCHANGED retry
    ELSE IF retry_budget_exhausted THEN state' = "dead_letter" /\ UNCHANGED retry
    ELSE retry' = retry + 1 /\ UNCHANGED state

(* One round of run's loop: generate, validate, route.                       *)
generate ==
    /\ state = "generate"
    /\ \/ /\ \E p \in Completions :
              /\ policy' = p
              /\ errors' = validation_errors(p)
              /\ rounds' = Append(rounds, [prompt |-> _render_prompt, policy |-> p])
          /\ route_after_validation(errors' = {})
       \/ /\ MayRaise
          /\ state' = "raised"
          /\ UNCHANGED <<retry, errors, policy, rounds>>
    /\ UNCHANGED <<profile, finding, record>>

(* deployer/signing.py: Ed25519 over the canonical JSON of the payload.      *)
sign(payload) == [key |-> SessionKey, over |-> payload]
verify(payload, signature) == signature.key = SessionKey /\ signature.over = payload

(* SimulatorCollectorAIClient.deploy: an empty scope is rejected, another    *)
(* policy is accepted unless a failure is injected.                          *)
simulator_deploy(scope) == IF scope = {} THEN {"rejected"} ELSE {"accepted", "rejected"}

(* PolicyDeployer.deploy sends the policy as generated, not as parsed;       *)
(* route_after_deploy.                                                       *)
deploy ==
    /\ state = "deploy"
    /\ \E status \in simulator_deploy(policy.scope) :
        /\ record' = [payload |-> policy, signature |-> sign(policy), status |-> status]
        /\ state' = IF status = "accepted" THEN "completed" ELSE "dead_letter"
    /\ UNCHANGED <<profile, finding, retry, errors, policy, rounds>>

(* run has returned or raised. *)
Ended ==
    /\ state \in {"completed", "dead_letter", "raised"}
    /\ UNCHANGED vars

Next == generate \/ deploy \/ Ended

Spec == Init /\ [][Next]_vars
-----------------------------------------------------------------------------
(* The retry budget (Principle XII): a session asks the model at most        *)
(* retry_budget + 1 times, and every round but the last has spent a retry.   *)
GraphTypeOK ==
    /\ profile \in Profiles
    /\ finding \in Findings
    /\ state \in {"generate", "deploy", "completed", "dead_letter", "raised"}
    /\ retry \in 0..RetryBudget
    /\ Len(rounds) \in {retry, retry + 1}
    /\ state \in {"deploy", "completed", "dead_letter"} => Len(rounds) = retry + 1

(* FR-005, FR-006, stated without the validator: every signal is in the      *)
(* vocabulary, and a signal under a PII branch is declared and consented to. *)
Below(b, name) == \E n \in 1..Len(name) : SubSeq(name, 1, n) = b

Compliant(p) ==
    /\ p.signals # {} /\ p.signals \subseteq Vocabulary
    /\ (\E s \in p.signals, b \in Branches : Below(b, s)) => p.pii /\ p.consent
    /\ p.window >= 1 /\ p.window <= 168
    /\ p.scope # {}

(* What the collector is sent is compliant by that definition, whatever the  *)
(* model answered in whatever round; it is the policy the session ends with, *)
(* and its signature verifies for it.                                        *)
OnlyCompliantDeployed ==
    record # NoRecord =>
        /\ Compliant(record.payload)
        /\ record.payload = policy
        /\ verify(policy, record.signature)

(* What a policy must be told about, stated without the validator's order of *)
(* checks: the names a code complains of.                                    *)
Complaints(p) ==
    IF ~(p.typed /\ p.signals # {} /\ p.scope # {} /\ p.window \in 1..168 /\ (p.pii => p.consent))
    THEN {<<"SCHEMA_VALIDATION_FAILED", SchemaFaults(p)>>}
    ELSE LET below == {s \in p.signals : \E b \in Branches : Below(b, s)}
             unknown == p.signals \ Vocabulary IN
         {<<"VSS_INVALID_SIGNAL", unknown>> : x \in {1 : s \in unknown}}
         \cup {<<"PII_CONSENT_REQUIRED", below>> : x \in {1 : s \in {b \in below : ~p.consent}}}
         \cup {<<"PII_FLAG_INCONSISTENT", below>> :
                  x \in {1 : s \in {b \in below : p.consent /\ ~p.pii}}}

Told(prompt) == {<<e.code, e.names>> : e \in prompt}

(* What the code says was wrong is what was wrong with the last answer.      *)
(* Each prompt after the first (FR-005's retry context) tells the model that *)
(* and nothing of an older policy.  The dead-letter record, which the runner *)
(* writes into the 'rejected' row, does the same, and is empty exactly when  *)
(* it was the collector that said no.                                        *)
ComplaintsAreCurrent ==
    /\ \A i \in 1..Len(rounds) :
         Told(rounds[i].prompt) = IF i = 1 THEN {} ELSE Complaints(rounds[i - 1].policy)
    /\ state = "dead_letter" =>
         /\ Told(errors) = Complaints(rounds[Len(rounds)].policy)
         /\ errors = {} <=> record # NoRecord

(* Decoding is deterministic (Principle XIV), so a retry helps only while it *)
(* tells the model something new: a session that has sent one prompt twice,  *)
(* in whichever two rounds, never deploys.                                   *)
RepeatedPromptIsFinal ==
    (\E i, j \in 1..Len(rounds) : i < j /\ rounds[i].prompt = rounds[j].prompt) =>
        state \notin {"deploy", "completed"}

(* PolicyLoop's view of this session: one session of its own, with the       *)
(* tables and the handler left out.                                          *)
LoopAt ==
    CASE state \in {"generate", "deploy"} -> state
      [] state = "raised" -> "error"
      [] OTHER -> "generated"

LoopFinal ==
    IF state = "completed" THEN "completed"
    ELSE IF state # "dead_letter" THEN "running"
    ELSE IF record # NoRecord THEN "undeployed"
    ELSE IF \E e \in errors : e.code = "SCHEMA_VALIDATION_FAILED" THEN "malformed" ELSE "invalid"

LoopCollector == IF state = "completed" THEN {1} ELSE {}

Loop == INSTANCE PolicyLoop WITH
    Tenants <- {}, FindingIds <- {}, CorrIds <- {}, HeaderIds <- {}, NoRequest <- 0,
    Sessions <- {1}, Faults <- {"slm", "collector"},
    findings <- {}, policies <- {}, deployments <- {}, audit <- {}, telemetry <- {},
    req <- <<0>>, answer <- <<"accepted">>,
    pc <- <<LoopAt>>, retry <- <<retry>>, final <- <<LoopFinal>>, collector <- LoopCollector

(* Refinement: every round and every deployment of this graph, with its real *)
(* clients and checks, is a generate or deploy step of PolicyLoop.           *)
RefinesLoop == [][Loop!generate(1) \/ Loop!deploy(1)]_<<state, retry, record>>
=============================================================================
