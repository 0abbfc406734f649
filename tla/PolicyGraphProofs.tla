------------------------- MODULE PolicyGraphProofs -------------------------
(***************************************************************************)
(* Proofs about one session of the policy graph, for any vocabulary, PII   *)
(* branches, findings, retry budget and answers of the model server.       *)
(***************************************************************************)
EXTENDS PolicyGraph, TLAPS

-----------------------------------------------------------------------------
(* The checks against their statement without the validator's order.         *)

(* governance.is_pii is the branch test on segments. *)
LEMMA PiiIsBelow ==
    ASSUME NEW s \in Name
    PROVE  is_pii(s) <=> \E b \in Branches : Below(b, s)
<1>1. ASSUME NEW b \in Branches
      PROVE  b = s \/ (Len(b) < Len(s) /\ \A i \in 1..Len(b) : s[i] = b[i]) <=> Below(b, s)
  <2>0. b \in Seq(STRING) /\ b # <<>> /\ s \in Seq(STRING) /\ s # <<>>
    BY PolicyGraphAssumption DEF Name
  <2>1. Len(b) \in Nat \ {0} /\ Len(s) \in Nat \ {0}
    BY <2>0
  <2>2. ASSUME b = s PROVE Below(b, s)
    <3>1. Len(s) \in 1..Len(s) /\ SubSeq(s, 1, Len(s)) = s
      BY <2>0, <2>1
    <3> QED BY <2>2, <3>1, Zenon DEF Below
  <2>3. ASSUME Len(b) < Len(s), \A i \in 1..Len(b) : s[i] = b[i] PROVE Below(b, s)
    <3>1. Len(b) \in 1..Len(s)
      BY <2>1, <2>3
    <3>2. SubSeq(s, 1, Len(b)) = b
      BY <2>0, <2>1, <2>3
    <3> QED BY <3>1, <3>2, Zenon DEF Below
  <2>4. ASSUME NEW n \in 1..Len(s), SubSeq(s, 1, n) = b
        PROVE  b = s \/ (Len(b) < Len(s) /\ \A i \in 1..Len(b) : s[i] = b[i])
    <3>1. Len(b) = n /\ \A i \in 1..n : s[i] = b[i]
      BY <2>0, <2>4
    <3>2. CASE n = Len(s)
      BY <2>0, <2>4, <3>2
    <3>3. CASE n # Len(s)
      BY <2>1, <3>1, <3>3
    <3> QED BY <3>2, <3>3
  <2> QED BY <2>2, <2>3, <2>4, Zenon DEF Below
<1> QED BY <1>1, Zenon DEF is_pii

(* CollectionPolicySpec is the conjunction of its fields' conditions. *)
LEMMA SchemaHolds ==
    ASSUME NEW p \in CollectionPolicy
    PROVE  CollectionPolicySpec(p) <=>
             (p.typed /\ p.signals # {} /\ p.scope # {} /\ p.window \in 1..168 /\ (p.pii => p.consent))
<1>0. p.typed \in BOOLEAN /\ p.pii \in BOOLEAN /\ p.consent \in BOOLEAN
  BY DEF CollectionPolicy
<1>1. CollectionPolicySpec(p) <=>
        /\ {p.typed} \ {TRUE} = {}
        /\ {p.signals} \cap {{}} = {}
        /\ {p.window} \ (1..168) = {}
        /\ {p.scope} \cap {{}} = {}
        /\ {_consent_required_when_pii(p)} \ {TRUE} = {}
  <2> DEFINE A == {p.typed} \ {TRUE}
             B == {p.signals} \cap {{}}
             C == {p.window} \ (1..168)
             D == {p.scope} \cap {{}}
             E == {_consent_required_when_pii(p)} \ {TRUE}
  <2>1. SchemaFaults(p) = {<<"typed">> : x \in A} \cup {<<"signals">> : x \in B}
                          \cup {<<"window", ToString(w)>> : w \in C}
                          \cup {<<"scope">> : x \in D} \cup {<<"flags">> : x \in E}
    BY Zenon DEF SchemaFaults
  <2> HIDE DEF A, B, C, D, E
  <2>2. SchemaFaults(p) = {} <=> A = {} /\ B = {} /\ C = {} /\ D = {} /\ E = {}
    BY <2>1, Zenon
  <2> QED BY <2>2, Zenon DEF CollectionPolicySpec, A, B, C, D, E
<1>2. {p.typed} \ {TRUE} = {} <=> p.typed
  BY <1>0, Zenon
<1>3. {p.signals} \cap {{}} = {} <=> p.signals # {}
  BY Zenon
<1>4. {p.scope} \cap {{}} = {} <=> p.scope # {}
  BY Zenon
<1>5. {p.window} \ (1..168) = {} <=> p.window \in 1..168
  BY Zenon
<1>6. {_consent_required_when_pii(p)} \ {TRUE} = {} <=> (p.pii => p.consent)
  BY <1>0, Zenon DEF _consent_required_when_pii
<1> QED BY <1>1, <1>2, <1>3, <1>4, <1>5, <1>6, Zenon

LEMMA ToldOf ==
    /\ \A code, names : Told({Error(code, names)}) = {<<code, names>>}
    /\ \A S, T : Told(S \cup T) = Told(S) \cup Told(T)
    /\ \A S : Told(S) = {} <=> S = {}
<1>1. \A code, names : Error(code, names).code = code /\ Error(code, names).names = names
  BY DEF Error
<1>2. \A code, names : Told({Error(code, names)}) = {<<code, names>>}
  BY <1>1, Zenon DEF Told
<1>3. \A S, T : Told(S \cup T) = Told(S) \cup Told(T)
  BY Zenon DEF Told
<1>4. \A S : Told(S) = {} <=> S = {}
  BY Zenon DEF Told
<1> QED BY <1>2, <1>3, <1>4, Zenon

(* PolicyValidatorNode.validate reports what Complaints says. *)
LEMMA ToldIsComplaints ==
    ASSUME NEW p \in CollectionPolicy
    PROVE  Told(validation_errors(p)) = Complaints(p)
<1> DEFINE below == {s \in p.signals : \E b \in Branches : Below(b, s)}
           unknown == p.signals \ Vocabulary
<1>0. p.signals \subseteq Name /\ p.pii \in BOOLEAN /\ p.consent \in BOOLEAN
  BY DEF CollectionPolicy
<1>1. {s \in p.signals : is_pii(s)} = below
  <2>1. \A s \in p.signals : is_pii(s) <=> \E b \in Branches : Below(b, s)
    BY <1>0, PiiIsBelow, Zenon
  <2> QED BY <2>1, Zenon
<1>2. {s \in p.signals : ~validate_signal(s)} = unknown
  BY Zenon DEF validate_signal
<1>3. CASE ~CollectionPolicySpec(p)
  <2>1. Complaints(p) = {<<"SCHEMA_VALIDATION_FAILED", SchemaFaults(p)>>}
    BY <1>3, SchemaHolds, Zenon DEF Complaints
  <2>2. validation_errors(p) = {Error("SCHEMA_VALIDATION_FAILED", SchemaFaults(p))}
    BY <1>3, Zenon DEF validation_errors
  <2> QED BY <2>1, <2>2, ToldOf, Zenon
<1>4. CASE CollectionPolicySpec(p)
  <2> DEFINE V == {Error("VSS_INVALID_SIGNAL", n) : n \in {unknown} \ {{}}}
             G == IF ~(below = {} \/ p.consent) THEN {Error("PII_CONSENT_REQUIRED", below)}
                  ELSE IF below # {} /\ ~p.pii THEN {Error("PII_FLAG_INCONSISTENT", below)} ELSE {}
  <2>1. validation_errors(p) = V \cup G
    <3> DEFINE d == evaluate_signals(p.signals, p.consent)
    <3>1. d.ok = (below = {} \/ p.consent) /\ d.flagged = below
      BY <1>1 DEF evaluate_signals
    <3>2. p.window \in 1..168
      BY <1>4, SchemaHolds, Zenon
    <3>3. PolicyValidator(p) =
            {Error("VSS_INVALID_SIGNAL", n) : n \in {unknown} \ {{}}}
            \cup (IF ~d.ok THEN {Error("PII_CONSENT_REQUIRED", d.flagged)}
                  ELSE IF d.flagged # {} /\ ~p.pii
                  THEN {Error("PII_FLAG_INCONSISTENT", d.flagged)} ELSE {})
            \cup {}
      BY <1>2, <3>2, Zenon DEF PolicyValidator
    <3> HIDE DEF d, below, unknown
    <3> QED BY <1>4, <3>1, <3>3, Zenon DEF validation_errors
  <2> DEFINE U == {<<"VSS_INVALID_SIGNAL", unknown>> : x \in {1 : s \in unknown}}
             X == {<<"PII_CONSENT_REQUIRED", below>> : x \in {1 : s \in {b \in below : ~p.consent}}}
             Y == {<<"PII_FLAG_INCONSISTENT", below>> :
                     x \in {1 : s \in {b \in below : p.consent /\ ~p.pii}}}
  <2>2. Complaints(p) = U \cup X \cup Y
    BY <1>4, SchemaHolds, Zenon DEF Complaints
  <2> HIDE DEF below, unknown
  <2>3. Told(V) = U
    <3>1. CASE unknown = {}
      <4>1. V = {} /\ U = {}
        BY <3>1, Zenon
      <4> HIDE DEF V, U
      <4> QED BY <4>1, ToldOf, Zenon
    <3>2. CASE unknown # {}
      <4>1. V = {Error("VSS_INVALID_SIGNAL", unknown)} /\ U = {<<"VSS_INVALID_SIGNAL", unknown>>}
        BY <3>2, Zenon
      <4> HIDE DEF V, U
      <4> QED BY <4>1, ToldOf, Zenon
    <3> QED BY <3>1, <3>2, Zenon
  <2>4. Told(G) = X \cup Y
    <3>1. CASE below # {} /\ ~p.consent
      <4>1. G = {Error("PII_CONSENT_REQUIRED", below)}
        BY <3>1, Zenon
      <4>2. X = {<<"PII_CONSENT_REQUIRED", below>>} /\ Y = {}
        BY <3>1, Zenon
      <4> HIDE DEF G, X, Y
      <4>3. Told(G) = X
        BY <4>1, <4>2, ToldOf, Zenon
      <4> QED BY <4>2, <4>3, Zenon
    <3>2. CASE below # {} /\ p.consent /\ ~p.pii
      <4>1. G = {Error("PII_FLAG_INCONSISTENT", below)}
        BY <3>2, Zenon
      <4>2. X = {} /\ Y = {<<"PII_FLAG_INCONSISTENT", below>>}
        BY <3>2, Zenon
      <4> HIDE DEF G, X, Y
      <4>3. Told(G) = Y
        BY <4>1, <4>2, ToldOf, Zenon
      <4> QED BY <4>2, <4>3, Zenon
    <3>3. CASE below = {} \/ (p.consent /\ p.pii)
      <4>1. G = {} /\ X = {} /\ Y = {}
        BY <3>3, Zenon
      <4> HIDE DEF G, X, Y
      <4>2. Told(G) = {}
        BY <4>1, ToldOf, Zenon
      <4> QED BY <4>1, <4>2, Zenon
    <3> QED BY <3>1, <3>2, <3>3, Zenon
  <2> HIDE DEF V, G, U, X, Y
  <2>5. Told(V \cup G) = Told(V) \cup Told(G)
    BY ToldOf, Zenon
  <2> QED BY <2>1, <2>2, <2>3, <2>4, <2>5
<1> QED BY <1>3, <1>4

-----------------------------------------------------------------------------
(* The inductive invariant.  A prompt is what the validator said of some      *)
(* policy, or nothing.                                                        *)
Prompts == {validation_errors(p) : p \in CollectionPolicy} \cup {{}}
Round == [prompt : Prompts, policy : CollectionPolicy]

(* What the validator had said before round i of the rounds r.                *)
Before(r, i) == IF i = 1 THEN {} ELSE validation_errors(r[i - 1].policy)

Typed ==
    /\ profile \in Profiles
    /\ finding \in Findings
    /\ state \in {"generate", "deploy", "completed", "dead_letter", "raised"}
    /\ retry \in 0..RetryBudget
    /\ rounds \in Seq(Round)

(* The retry context follows the answers.                                     *)
Chained ==
    /\ \A i \in 1..Len(rounds) : rounds[i].prompt = Before(rounds, i)
    /\ errors = Before(rounds, Len(rounds) + 1)
    /\ rounds # <<>> => policy = rounds[Len(rounds)].policy

(* Each answer but that of the last round has been refused.                   *)
Refused ==
    \A i \in 1..Len(rounds) :
        i < Len(rounds) \/ state = "generate" => validation_errors(rounds[i].policy) # {}

(* Where run is says how many rounds there were and how the last one went.    *)
Staged ==
    /\ state \in {"generate", "raised"} => Len(rounds) = retry /\ record = NoRecord
    /\ state \in {"deploy", "completed", "dead_letter"} => Len(rounds) = retry + 1
    /\ state = "deploy" => errors = {} /\ record = NoRecord
    /\ state = "completed" => errors = {} /\ record # NoRecord
    /\ state = "dead_letter" => (errors = {} <=> record # NoRecord)
    /\ record # NoRecord => record.payload = policy /\ record.signature = sign(policy)

(* Decoding is a function of the prompt.                                      *)
Deterministic ==
    /\ \A i, j \in 1..Len(rounds) :
         rounds[i].prompt = rounds[j].prompt => rounds[i].policy = rounds[j].policy
    /\ profile = "dev_default" =>
         \A i \in 1..Len(rounds) : rounds[i].policy = _build_policy(finding)

(* A session that has sent one prompt twice is sending one again.             *)
Echo(r) ==
    (\E i, j \in 1..Len(r) : i < j /\ r[i].prompt = r[j].prompt) =>
        \E i \in 1..Len(r) : i < Len(r) /\ r[i].prompt = r[Len(r)].prompt

GraphInv ==
    Typed /\ Chained /\ Refused /\ Staged /\ Deterministic /\ Echo(rounds)

LEMMA InitInv == Init => GraphInv
<1> SUFFICES ASSUME Init PROVE GraphInv
  OBVIOUS
<1> USE DEF Init
<1>0. Len(rounds) = 0 /\ rounds \in Seq(Round)
  OBVIOUS
<1>1. Typed
  BY <1>0, PolicyGraphAssumption DEF Typed
<1>2. Chained
  BY <1>0 DEF Chained, Before
<1>3. Refused /\ Deterministic /\ Echo(rounds)
  BY <1>0 DEF Refused, Deterministic, Echo
<1>4. Staged
  BY <1>0 DEF Staged
<1> QED BY <1>1, <1>2, <1>3, <1>4 DEF GraphInv

(* An answer of a client: a policy, the one a prompt brought before when it   *)
(* was sent before.                                                           *)
LEMMA AnswerOf ==
    ASSUME Typed, Deterministic, NEW p \in Completions
    PROVE  /\ p \in CollectionPolicy
           /\ \A i \in 1..Len(rounds) : rounds[i].prompt = errors => rounds[i].policy = p
           /\ profile = "dev_default" => p = _build_policy(finding)
<1>0. /\ \A i \in 1..Len(rounds) : rounds[i] \in Round
      /\ finding \in Findings
  BY DEF Typed
<1>1. CASE profile = "dev_default"
  <2>1. p = _build_policy(finding)
    BY <1>1 DEF Completions
  <2> DEFINE x == _extract_finding_from_prompt(finding)
  <2>2. x.scope \subseteq STRING /\ x.candidates \subseteq Name
    BY <1>0, PolicyGraphAssumption DEF _extract_finding_from_prompt
  <2> HIDE DEF x
  <2>3. p = [typed |-> TRUE, window |-> 72, consent |-> FALSE, pii |-> FALSE, scope |-> x.scope,
             signals |-> IF x.candidates = {} THEN BrakeSignals ELSE x.candidates]
    BY <2>1, Zenon DEF _build_policy, x
  <2>4. (IF x.candidates = {} THEN BrakeSignals ELSE x.candidates) \subseteq Name
    BY <2>2, PolicyGraphAssumption, Zenon
  <2>5. p \in CollectionPolicy
    BY <2>2, <2>3, <2>4 DEF CollectionPolicy
  <2> QED BY <1>1, <2>1, <2>5 DEF Deterministic
<1>2. CASE profile # "dev_default"
  <2>1. p \in Decoded(errors)
    BY <1>2 DEF Completions, vllm_generate, llamacpp_generate, _render_prompt, stub_generate
  <2>2. CASE Sent(errors) = {}
    <3>1. p \in CollectionPolicy
      BY <2>1, <2>2, PolicyGraphAssumption, Zenon DEF Decoded
    <3> QED BY <1>2, <2>2, <3>1, Zenon DEF Sent
  <2>3. CASE Sent(errors) # {}
    <3>1. PICK k \in 1..Len(rounds) : rounds[k].prompt = errors /\ p = rounds[k].policy
      BY <2>1, <2>3, Zenon DEF Decoded, Sent
    <3>2. p \in CollectionPolicy
      BY <1>0, <3>1 DEF Round
    <3> QED BY <1>2, <3>1, <3>2, Zenon DEF Deterministic
  <2> QED BY <2>2, <2>3
<1> QED BY <1>1, <1>2

(* A round goes to the end.                                                   *)
Appended(r, x, r2) ==
    /\ r2 \in Seq(Round) /\ Len(r2) = Len(r) + 1
    /\ \A i \in 1..Len(r) : r2[i] = r[i]
    /\ r2[Len(r) + 1] = x
    /\ \A i \in 1..Len(r) + 1 : Before(r2, i) = Before(r, i)
    /\ Before(r2, Len(r) + 2) = validation_errors(x.policy)

LEMMA AppendRound ==
    ASSUME NEW r \in Seq(Round), NEW x \in Round
    PROVE  Appended(r, x, Append(r, x))
<1> DEFINE r2 == Append(r, x)
<1>1. /\ r2 \in Seq(Round) /\ Len(r) \in Nat /\ Len(r2) = Len(r) + 1
      /\ \A i \in 1..Len(r) : r2[i] = r[i]
      /\ r2[Len(r) + 1] = x
  OBVIOUS
<1> HIDE DEF r2
<1>2. ASSUME NEW i \in 1..Len(r) + 1 PROVE Before(r2, i) = Before(r, i)
  <2>1. i = 1 \/ i - 1 \in 1..Len(r)
    BY <1>1
  <2> QED BY <1>1, <2>1, Zenon DEF Before
<1>3. Before(r2, Len(r) + 2) = validation_errors(x.policy)
  <2>1. Len(r) + 2 # 1 /\ Len(r) + 2 - 1 = Len(r) + 1
    BY <1>1
  <2>2. r2[Len(r) + 2 - 1] = x
    BY <1>1, <2>1
  <2> QED BY <2>1, <2>2 DEF Before
<1>4. Appended(r, x, r2)
  BY <1>1, <1>2, <1>3, Zenon DEF Appended
<1> QED BY <1>4 DEF r2

(* One answered round of run's loop.                                          *)
LEMMA AnswerKeeps ==
    ASSUME GraphInv, state = "generate", NEW p \in Completions,
           policy' = p, errors' = validation_errors(p),
           rounds' = Append(rounds, [prompt |-> _render_prompt, policy |-> p]),
           route_after_validation(errors' = {}),
           UNCHANGED <<profile, finding, record>>
    PROVE  GraphInv'
<1> DEFINE n == Len(rounds)
           x == [prompt |-> errors, policy |-> p]
<1>i. Typed /\ Chained /\ Refused /\ Staged /\ Deterministic /\ Echo(rounds)
  BY DEF GraphInv
<1>r. rounds \in Seq(Round) /\ n \in Nat /\ retry \in 0..RetryBudget /\ RetryBudget \in Nat
  BY <1>i, PolicyGraphAssumption DEF Typed
<1>p. /\ p \in CollectionPolicy
      /\ \A i \in 1..n : rounds[i].prompt = errors => rounds[i].policy = p
      /\ profile = "dev_default" => p = _build_policy(finding)
  BY <1>i, AnswerOf, Zenon
<1>e. errors \in Prompts
  <2>1. CASE n = 0
    <3>1. n + 1 = 1
      BY <2>1
    <3> QED BY <1>i, <3>1, Zenon DEF Chained, Before, Prompts
  <2>2. CASE n # 0
    <3>1. n + 1 # 1 /\ rounds[n + 1 - 1] \in Round
      BY <1>r, <2>2
    <3>2. rounds[n + 1 - 1].policy \in CollectionPolicy
      BY <3>1 DEF Round
    <3>3. Before(rounds, n + 1) = validation_errors(rounds[n + 1 - 1].policy)
      BY <3>1 DEF Before
    <3> QED BY <1>i, <3>2, <3>3, Zenon DEF Chained, Prompts
  <2> QED BY <2>1, <2>2
<1>u. profile' = profile /\ finding' = finding /\ record' = record
  OBVIOUS
<1>x. x \in Round /\ x.prompt = errors /\ x.policy = p
  BY <1>p, <1>e DEF Round
<1>a. /\ rounds' \in Seq(Round) /\ Len(rounds') = n + 1
      /\ \A i \in 1..n : rounds'[i] = rounds[i]
      /\ rounds'[n + 1].prompt = errors /\ rounds'[n + 1].policy = p
      /\ \A i \in 1..n + 1 : Before(rounds', i) = Before(rounds, i)
      /\ Before(rounds', n + 2) = errors'
  <2>1. rounds' = Append(rounds, x)
    BY Zenon DEF _render_prompt
  <2>2. errors' = validation_errors(x.policy)
    BY <1>x, Zenon
  <2>3. rounds'[n + 1] = x => rounds'[n + 1].prompt = errors /\ rounds'[n + 1].policy = p
    BY <1>x, Zenon
  <2> HIDE DEF x
  <2>4. Appended(rounds, x, rounds')
    BY <1>r, <1>x, <2>1, AppendRound, Zenon
  <2> QED BY <2>2, <2>3, <2>4, Zenon DEF Appended
<1> HIDE DEF n, x
<1>n. \A i \in 1..n + 1 : i \in 1..n \/ i = n + 1
  BY <1>r
<1>s. /\ state' \in {"generate", "deploy", "dead_letter"}
      /\ errors' = {} => state' = "deploy" /\ retry' = retry
      /\ errors' # {} => \/ state' = "dead_letter" /\ retry' = retry
                         \/ state' = "generate" /\ retry' = retry + 1 /\ retry < RetryBudget
  BY <1>r DEF route_after_validation, retry_budget_exhausted
<1>1. Typed'
  BY <1>i, <1>r, <1>a, <1>s DEF Typed
<1>2. Chained'
  <2>1. \A i \in 1..n + 1 : rounds'[i].prompt = Before(rounds', i)
    BY <1>i, <1>a, <1>n, Zenon DEF Chained, n
  <2>2. n + 1 + 1 = n + 2
    BY <1>r
  <2> QED BY <1>a, <2>1, <2>2, Zenon DEF Chained
<1>3. Refused'
  <2>1. \A i \in 1..n : validation_errors(rounds[i].policy) # {}
    BY <1>i, Zenon DEF Refused, n
  <2>2. state' = "generate" => errors' # {}
    BY <1>s
  <2>3. ~(n + 1 < n + 1)
    BY <1>r
  <2> QED BY <1>a, <1>n, <2>1, <2>2, <2>3, Zenon DEF Refused
<1>4. Staged'
  <2>1. n = retry /\ record = NoRecord
    BY <1>i DEF Staged, n
  <2> QED BY <1>s, <1>a, <1>r, <2>1 DEF Staged
<1>5. Deterministic'
  <2>1. ASSUME NEW i \in 1..n + 1, NEW j \in 1..n + 1, rounds'[i].prompt = rounds'[j].prompt
        PROVE  rounds'[i].policy = rounds'[j].policy
    BY <1>i, <1>p, <1>a, <1>n, <2>1, ZenonT(60) DEF Deterministic, n
  <2>2. ASSUME profile = "dev_default", NEW i \in 1..n + 1
        PROVE  rounds'[i].policy = _build_policy(finding)
    BY <1>i, <1>p, <1>a, <1>n, <2>2, Zenon DEF Deterministic, n
  <2>3. Len(rounds') = n + 1
    BY <1>a
  <2>4. \A i, j \in 1..Len(rounds') :
          rounds'[i].prompt = rounds'[j].prompt => rounds'[i].policy = rounds'[j].policy
    BY <2>1, <2>3
  <2>5. profile' = "dev_default" =>
          \A i \in 1..Len(rounds') : rounds'[i].policy = _build_policy(finding')
    BY <1>u, <2>2, <2>3
  <2> QED BY <2>4, <2>5, Zenon DEF Deterministic
<1>6. Echo(rounds')
  <2> SUFFICES ASSUME NEW i \in 1..n + 1, NEW j \in 1..n + 1, i < j,
                      rounds'[i].prompt = rounds'[j].prompt
               PROVE  \E k \in 1..n : rounds'[k].prompt = errors
    <3>1. \A k \in 1..n : k \in 1..n + 1 /\ k < n + 1
      BY <1>r
    <3>2. Len(rounds') = n + 1 /\ rounds'[n + 1].prompt = errors
      BY <1>a
    <3> QED BY <3>1, <3>2, ZenonT(60) DEF Echo
  <2>1. i \in 1..n
    BY <1>r
  <2>2. CASE j = n + 1
    BY <1>a, <2>1, <2>2, Zenon
  <2>3. CASE j # n + 1
    <3>1. j \in 1..n /\ n \in 1..n
      BY <1>r, <2>3
    <3>2. rounds[i].prompt = rounds[j].prompt
      BY <1>a, <2>1, <3>1, Zenon
    <3>3. PICK k \in 1..n : k < n /\ rounds[k].prompt = rounds[n].prompt
      BY <1>i, <2>1, <3>1, <3>2, Zenon DEF Echo, n
    <3>4. k + 1 \in 1..n /\ k + 1 # 1 /\ k + 1 - 1 = k /\ n + 1 # 1 /\ n + 1 - 1 = n
      BY <1>r, <3>3
    <3>5. rounds[k].policy = rounds[n].policy
      BY <1>i, <3>1, <3>3, Zenon DEF Deterministic, n
    <3>6. rounds[k + 1].prompt = validation_errors(rounds[k].policy)
      <4>1. Before(rounds, k + 1) = validation_errors(rounds[k].policy)
        BY <3>4 DEF Before
      <4> QED BY <1>i, <3>4, <4>1, Zenon DEF Chained, n
    <3>7. errors = validation_errors(rounds[n].policy)
      <4>1. Before(rounds, n + 1) = validation_errors(rounds[n].policy)
        BY <1>r, <3>4 DEF Before
      <4> QED BY <1>i, <4>1, Zenon DEF Chained, n
    <3>8. rounds'[k + 1].prompt = errors
      BY <1>a, <3>4, <3>5, <3>6, <3>7, Zenon
    <3> QED BY <3>4, <3>8, Zenon
  <2> QED BY <2>2, <2>3, Zenon
<1> QED BY <1>1, <1>2, <1>3, <1>4, <1>5, <1>6, Zenon DEF GraphInv

LEMMA RecordIsRecord ==
    ASSUME NEW a, NEW b, NEW c
    PROVE  [payload |-> a, signature |-> b, status |-> c] # NoRecord
<1>1. "payload" \in DOMAIN [payload |-> a, signature |-> b, status |-> c]
  OBVIOUS
<1>2. DOMAIN NoRecord = {}
  BY DEF NoRecord
<1> QED BY <1>1, <1>2, Zenon

LEMMA StepInv == GraphInv /\ [Next]_vars => GraphInv'
<1> SUFFICES ASSUME GraphInv, [Next]_vars PROVE GraphInv'
  OBVIOUS
<1>i. Typed /\ Chained /\ Refused /\ Staged /\ Deterministic /\ Echo(rounds)
  BY DEF GraphInv
<1>1. ASSUME generate PROVE GraphInv'
  <2>1. CASE state' = "raised" /\ UNCHANGED <<retry, errors, policy, rounds>>
    <3>1. state = "generate" /\ UNCHANGED <<profile, finding, record>>
      BY <1>1 DEF generate
    <3>2. Typed' /\ Staged'
      BY <1>i, <2>1, <3>1 DEF Typed, Staged
    <3>3. Chained' /\ Deterministic' /\ Echo(rounds)'
      BY <1>i, <2>1, <3>1 DEF Chained, Deterministic
    <3>4. Refused'
      BY <1>i, <2>1, <3>1 DEF Refused
    <3> QED BY <3>2, <3>3, <3>4, Zenon DEF GraphInv
  <2>2. CASE \E p \in Completions :
               /\ policy' = p
               /\ errors' = validation_errors(p)
               /\ rounds' = Append(rounds, [prompt |-> _render_prompt, policy |-> p])
               /\ route_after_validation(errors' = {})
    <3>1. state = "generate" /\ UNCHANGED <<profile, finding, record>>
      BY <1>1 DEF generate
    <3> QED BY <2>2, <3>1, AnswerKeeps, Zenon
  <2> QED BY <1>1, <2>1, <2>2, Zenon DEF generate
<1>2. ASSUME deploy PROVE GraphInv'
  <2>1. PICK status \in simulator_deploy(policy.scope) :
          /\ record' = [payload |-> policy, signature |-> sign(policy), status |-> status]
          /\ state' = IF status = "accepted" THEN "completed" ELSE "dead_letter"
    BY <1>2, Zenon DEF deploy
  <2>2. state = "deploy" /\ UNCHANGED <<profile, finding, retry, errors, policy, rounds>>
    BY <1>2 DEF deploy
  <2>3. record' # NoRecord /\ record'.payload = policy /\ record'.signature = sign(policy)
    BY <2>1, RecordIsRecord
  <2>4. state' \in {"completed", "dead_letter"}
    BY <2>1
  <2>5. Typed' /\ Staged'
    BY <1>i, <2>2, <2>3, <2>4 DEF Typed, Staged
  <2>6. Chained' /\ Deterministic' /\ Echo(rounds)'
    BY <1>i, <2>2 DEF Chained, Deterministic
  <2>7. Refused'
    BY <1>i, <2>2, <2>4 DEF Refused
  <2> QED BY <2>5, <2>6, <2>7, Zenon DEF GraphInv
<1>3. ASSUME UNCHANGED vars PROVE GraphInv'
  <2>1. UNCHANGED <<profile, finding, state, retry, errors, policy, rounds, record>>
    BY <1>3 DEF vars
  <2>2. Typed' /\ Staged'
    BY <1>i, <2>1 DEF Typed, Staged
  <2>3. Chained' /\ Deterministic' /\ Echo(rounds)' /\ Refused'
    BY <1>i, <2>1 DEF Chained, Deterministic, Refused
  <2> QED BY <2>2, <2>3, Zenon DEF GraphInv
<1> QED BY <1>1, <1>2, <1>3, Zenon DEF Next, Ended

(* Every state of every run of the graph satisfies the invariant.             *)
THEOREM GraphInvariance == Spec => []GraphInv
  BY InitInv, StepInv, PTL DEF Spec

(* The last round, once there is no other to come.                            *)
LEMMA LastRound ==
    ASSUME GraphInv, state \in {"deploy", "completed", "dead_letter"}
    PROVE  /\ Len(rounds) \in 1..Len(rounds)
           /\ policy = rounds[Len(rounds)].policy
           /\ policy \in CollectionPolicy
           /\ errors = validation_errors(policy)
<1>1. rounds \in Seq(Round) /\ Len(rounds) = retry + 1 /\ retry \in Nat
  BY PolicyGraphAssumption DEF GraphInv, Typed, Staged
<1>2. Len(rounds) \in 1..Len(rounds) /\ rounds # <<>> /\ rounds[Len(rounds)] \in Round
  BY <1>1
<1>3. policy = rounds[Len(rounds)].policy
  BY <1>2, Zenon DEF GraphInv, Chained
<1>4. policy \in CollectionPolicy
  BY <1>2, <1>3 DEF Round
<1>5. Before(rounds, Len(rounds) + 1) = validation_errors(rounds[Len(rounds)].policy)
  BY <1>1, <1>2 DEF Before
<1>6. errors = validation_errors(policy)
  BY <1>3, <1>5, Zenon DEF GraphInv, Chained
<1> QED BY <1>2, <1>3, <1>4, <1>6

(* A policy of which nothing is said is compliant.                            *)
LEMMA NothingSaid ==
    ASSUME NEW p \in CollectionPolicy, validation_errors(p) = {}
    PROVE  Compliant(p)
<1> DEFINE below == {s \in p.signals : \E b \in Branches : Below(b, s)}
           unknown == p.signals \ Vocabulary
           U == {<<"VSS_INVALID_SIGNAL", unknown>> : x \in {1 : s \in unknown}}
           X == {<<"PII_CONSENT_REQUIRED", below>> : x \in {1 : s \in {b \in below : ~p.consent}}}
           Y == {<<"PII_FLAG_INCONSISTENT", below>> :
                   x \in {1 : s \in {b \in below : p.consent /\ ~p.pii}}}
<1>1. Complaints(p) = {}
  BY ToldIsComplaints, ToldOf, Zenon
<1>2. p.typed /\ p.signals # {} /\ p.scope # {} /\ p.window \in 1..168 /\ (p.pii => p.consent)
  BY <1>1, Zenon DEF Complaints
<1>3. U \cup X \cup Y = {}
  BY <1>1, <1>2, Zenon DEF Complaints
<1>4. U = {} /\ X = {} /\ Y = {}
  <2> HIDE DEF U, X, Y
  <2> QED BY <1>3
<1>5. unknown = {}
  BY <1>4, Zenon
<1>6. \A s \in below : p.consent /\ p.pii
  BY <1>4, Zenon
<1>7. p.signals \subseteq Vocabulary
  BY <1>5, Zenon
<1>8. (\E s \in p.signals, b \in Branches : Below(b, s)) => p.pii /\ p.consent
  BY <1>6, Zenon
<1>9. p.window >= 1 /\ p.window <= 168
  BY <1>2
<1> QED BY <1>2, <1>7, <1>8, <1>9, Zenon DEF Compliant

(* The retry budget: one question more than retries, whichever client the     *)
(* profile selects and whatever it answers.                                   *)
THEOREM GraphTyped == Spec => []GraphTypeOK
<1>1. GraphInv => GraphTypeOK
  BY PolicyGraphAssumption DEF GraphInv, Typed, Staged, GraphTypeOK
<1> QED BY <1>1, GraphInvariance, PTL

(* PolicyDeployer.deploy: only a compliant policy, signed as it is, reaches   *)
(* the collector, for every vocabulary, list of PII branches and set of       *)
(* answers.                                                                   *)
THEOREM CompliantOnly == Spec => []OnlyCompliantDeployed
<1>1. ASSUME GraphInv, record # NoRecord
      PROVE  Compliant(record.payload) /\ record.payload = policy /\ verify(policy, record.signature)
  <2>1. /\ state \in {"completed", "dead_letter"} /\ errors = {}
        /\ record.payload = policy /\ record.signature = sign(policy)
    BY <1>1 DEF GraphInv, Typed, Staged
  <2>2. policy \in CollectionPolicy /\ validation_errors(policy) = {}
    BY <1>1, <2>1, LastRound
  <2>3. Compliant(policy)
    BY <2>2, NothingSaid, Zenon
  <2>4. verify(policy, sign(policy))
    BY DEF verify, sign
  <2> QED BY <2>1, <2>3, <2>4, Zenon
<1>2. GraphInv => OnlyCompliantDeployed
  BY <1>1, Zenon DEF OnlyCompliantDeployed
<1> QED BY <1>2, GraphInvariance, PTL

(* PolicyGenerator's retry context and the dead-letter errors are about the   *)
(* answer just given and complete.                                            *)
THEOREM CurrentComplaints == Spec => []ComplaintsAreCurrent
<1>1. ASSUME GraphInv, NEW i \in 1..Len(rounds)
      PROVE  Told(rounds[i].prompt) = IF i = 1 THEN {} ELSE Complaints(rounds[i - 1].policy)
  <2>0. rounds \in Seq(Round)
    BY <1>1 DEF GraphInv, Typed
  <2>1. rounds[i].prompt = Before(rounds, i)
    BY <1>1, Zenon DEF GraphInv, Chained
  <2>2. CASE i = 1
    BY <2>1, <2>2, ToldOf, Zenon DEF Before
  <2>3. CASE i # 1
    <3>1. rounds[i - 1] \in Round
      BY <2>0, <2>3
    <3>2. rounds[i - 1].policy \in CollectionPolicy
      BY <3>1 DEF Round
    <3>3. rounds[i].prompt = validation_errors(rounds[i - 1].policy)
      BY <2>1, <2>3, Zenon DEF Before
    <3> QED BY <2>3, <3>2, <3>3, ToldIsComplaints, Zenon
  <2> QED BY <2>2, <2>3
<1>2. ASSUME GraphInv, state = "dead_letter"
      PROVE  /\ Told(errors) = Complaints(rounds[Len(rounds)].policy)
             /\ errors = {} <=> record # NoRecord
  <2>1. errors = {} <=> record # NoRecord
    BY <1>2, Zenon DEF GraphInv, Staged
  <2>2. /\ policy = rounds[Len(rounds)].policy /\ policy \in CollectionPolicy
        /\ errors = validation_errors(policy)
    BY <1>2, LastRound
  <2> QED BY <2>1, <2>2, ToldIsComplaints, Zenon
<1>3. GraphInv => ComplaintsAreCurrent
  BY <1>1, <1>2, Zenon DEF ComplaintsAreCurrent
<1> QED BY <1>3, GraphInvariance, PTL

(* At temperature 0 a retry that tells the model nothing new is lost: once a  *)
(* prompt is sent twice, for every retry budget, the session never deploys.   *)
THEOREM RepetitionIsFinal == Spec => []RepeatedPromptIsFinal
<1>1. ASSUME GraphInv, state \in {"deploy", "completed"},
             \E i, j \in 1..Len(rounds) : i < j /\ rounds[i].prompt = rounds[j].prompt
      PROVE  FALSE
  <2>1. errors = {}
    BY <1>1 DEF GraphInv, Staged
  <2>2. /\ Len(rounds) \in 1..Len(rounds) /\ policy = rounds[Len(rounds)].policy
        /\ errors = validation_errors(policy)
    BY <1>1, LastRound
  <2>3. PICK i \in 1..Len(rounds) :
          i < Len(rounds) /\ rounds[i].prompt = rounds[Len(rounds)].prompt
    BY <1>1, Zenon DEF GraphInv, Echo
  <2>4. rounds[i].policy = policy
    BY <1>1, <2>2, <2>3, Zenon DEF GraphInv, Deterministic
  <2>5. validation_errors(rounds[i].policy) # {}
    BY <1>1, <2>3, Zenon DEF GraphInv, Refused
  <2> QED BY <2>1, <2>2, <2>4, <2>5, Zenon
<1>2. GraphInv => RepeatedPromptIsFinal
  BY <1>1, Zenon DEF RepeatedPromptIsFinal
<1> QED BY <1>2, GraphInvariance, PTL

-----------------------------------------------------------------------------
(* The refinement.                                                            *)
LEMMA Single ==
    /\ \A a : <<a>>[1] = a
    /\ \A a, b : [<<a>> EXCEPT ![1] = b] = <<b>>
<1>1. \A a : <<a>>[1] = a
  OBVIOUS
<1>2. \A a, b : [<<a>> EXCEPT ![1] = b] = <<b>>
  OBVIOUS
<1> QED BY <1>1, <1>2

LEMMA RaiseStep ==
    ASSUME LoopAt = "generate", LoopAt' = "error", retry' = retry, LoopFinal' = LoopFinal,
           LoopCollector' = LoopCollector
    PROVE  Loop!generate(1)
<1>1. <<LoopAt>>[1] = "generate" /\ <<LoopAt>>' = [<<LoopAt>> EXCEPT ![1] = "error"]
  BY Single, Zenon
<1>2. UNCHANGED <<<<retry>>, <<LoopFinal>>>> /\ UNCHANGED LoopCollector
  OBVIOUS
<1>3. "raises" \in Loop!SlmAnswers
  BY DEF Loop!SlmAnswers
<1>4. UNCHANGED <<Loop!tables, <<0>>, <<"accepted">>, LoopCollector>>
  BY <1>2 DEF Loop!tables
<1> QED BY <1>1, <1>2, <1>3, <1>4, Zenon DEF Loop!generate, Loop!Goto

LEMMA AcceptStep ==
    ASSUME LoopAt = "generate", LoopCollector' = LoopCollector,
           LoopAt' = "deploy", retry' = retry, LoopFinal' = LoopFinal
    PROVE  Loop!generate(1)
<1> DEFINE answer == "policy"
<1>1. <<LoopAt>>[1] = "generate"
  BY Single, Zenon
<1>2. Loop!route_after_validation(1, answer, TRUE)
  <2>1. <<LoopAt>>' = [<<LoopAt>> EXCEPT ![1] = "deploy"] /\ UNCHANGED <<<<retry>>, <<LoopFinal>>>>
    BY Single, Zenon
  <2> QED BY <2>1, Zenon DEF Loop!route_after_validation, Loop!Goto
<1>3. answer \in Loop!SlmAnswers /\ answer # "raises" /\ TRUE \in Loop!validate(answer)
  BY Zenon DEF Loop!SlmAnswers, Loop!validate
<1>4. UNCHANGED <<Loop!tables, <<0>>, <<"accepted">>, LoopCollector>>
  BY DEF Loop!tables
<1> QED BY <1>1, <1>2, <1>3, <1>4, Zenon DEF Loop!generate

LEMMA DeadLetterStep ==
    ASSUME LoopAt = "generate", LoopCollector' = LoopCollector, NEW answer \in {"policy", "malformed"},
           retry >= RetryBudget, LoopAt' = "generated", retry' = retry,
           LoopFinal' = IF answer = "malformed" THEN answer ELSE "invalid"
    PROVE  Loop!generate(1)
<1>1. <<LoopAt>>[1] = "generate"
  BY Single, Zenon
<1>2. Loop!route_after_validation(1, answer, FALSE)
  <2>1. /\ <<LoopAt>>' = [<<LoopAt>> EXCEPT ![1] = "generated"]
        /\ <<LoopFinal>>' = [<<LoopFinal>> EXCEPT ![1] = IF answer = "malformed" THEN answer ELSE "invalid"]
        /\ UNCHANGED <<retry>>
    BY Single, Zenon
  <2>2. <<retry>>[1] >= RetryBudget
    BY Single, Zenon
  <2> QED BY <2>1, <2>2, Zenon
      DEF Loop!route_after_validation, Loop!retry_budget_exhausted, Loop!Goto
<1>3. answer \in Loop!SlmAnswers /\ answer # "raises" /\ FALSE \in Loop!validate(answer)
  BY Zenon DEF Loop!SlmAnswers, Loop!validate
<1>4. UNCHANGED <<Loop!tables, <<0>>, <<"accepted">>, LoopCollector>>
  BY DEF Loop!tables
<1> QED BY <1>1, <1>2, <1>3, <1>4, Zenon DEF Loop!generate

LEMMA RetryStep ==
    ASSUME LoopAt = "generate", LoopCollector' = LoopCollector, ~(retry >= RetryBudget),
           LoopAt' = LoopAt, retry' = retry + 1, LoopFinal' = LoopFinal
    PROVE  Loop!generate(1)
<1> DEFINE answer == "policy"
<1>1. <<LoopAt>>[1] = "generate"
  BY Single, Zenon
<1>2. Loop!route_after_validation(1, answer, FALSE)
  <2>1. /\ <<retry>>' = [<<retry>> EXCEPT ![1] = <<retry>>[1] + 1]
        /\ UNCHANGED <<<<LoopAt>>, <<LoopFinal>>>>
    BY Single, Zenon
  <2>2. ~(<<retry>>[1] >= RetryBudget)
    BY Single, Zenon
  <2> QED BY <2>1, <2>2, Zenon
      DEF Loop!route_after_validation, Loop!retry_budget_exhausted, Loop!Goto
<1>3. answer \in Loop!SlmAnswers /\ answer # "raises" /\ FALSE \in Loop!validate(answer)
  BY Zenon DEF Loop!SlmAnswers, Loop!validate
<1>4. UNCHANGED <<Loop!tables, <<0>>, <<"accepted">>, LoopCollector>>
  BY DEF Loop!tables
<1> QED BY <1>1, <1>2, <1>3, <1>4, Zenon DEF Loop!generate

LEMMA DeployStep ==
    ASSUME LoopAt = "deploy", LoopAt' = "generated", retry' = retry,
           NEW status \in {"accepted", "rejected"},
           LoopCollector' = IF status = "accepted" THEN LoopCollector \cup {1} ELSE LoopCollector,
           LoopFinal' = IF status = "accepted" THEN "completed" ELSE "undeployed"
    PROVE  Loop!deploy(1)
<1>1. /\ <<LoopAt>>[1] = "deploy" /\ <<LoopAt>>' = [<<LoopAt>> EXCEPT ![1] = "generated"]
      /\ <<LoopFinal>>' = [<<LoopFinal>> EXCEPT ![1] =
                             IF status = "accepted" THEN "completed" ELSE "undeployed"]
  BY Single, Zenon
<1>2. status \in Loop!CollectorStatus
  BY DEF Loop!CollectorStatus
<1>3. UNCHANGED <<Loop!tables, <<0>>, <<"accepted">>, <<retry>>>>
  BY DEF Loop!tables
<1> QED BY <1>1, <1>2, <1>3, Zenon DEF Loop!deploy, Loop!Goto

(* CollectMindGraph.run with its real clients, prompt and checks implements   *)
(* PolicyLoop's session: each answered or raised round is its generate, each  *)
(* deployment its deploy, for every vocabulary, answer set and budget.        *)
THEOREM GraphImplementsLoop == Spec => RefinesLoop
<1>1. ASSUME GraphInv, generate PROVE Loop!generate(1)
  <2>1. state = "generate" /\ record = NoRecord /\ UNCHANGED record
    BY <1>1 DEF GraphInv, Staged, generate
  <2>2. LoopAt = "generate" /\ LoopFinal = "running" /\ LoopCollector = {}
    BY <2>1 DEF LoopAt, LoopFinal, LoopCollector
  <2>3. CASE state' = "raised" /\ UNCHANGED retry
    <3>1. LoopAt' = "error" /\ LoopFinal' = "running" /\ LoopCollector' = {}
      BY <2>3 DEF LoopAt, LoopFinal, LoopCollector
    <3> QED BY <2>2, <2>3, <3>1, RaiseStep, Zenon
  <2>4. CASE route_after_validation(errors' = {})
    <3>1. CASE errors' = {}
      <4>1. state' = "deploy" /\ retry' = retry
        BY <2>4, <3>1 DEF route_after_validation
      <4>2. LoopAt' = "deploy" /\ LoopFinal' = "running" /\ LoopCollector' = {}
        BY <4>1 DEF LoopAt, LoopFinal, LoopCollector
      <4> QED BY <2>2, <4>1, <4>2, AcceptStep, Zenon
    <3>2. CASE errors' # {} /\ retry >= RetryBudget
      <4>1. state' = "dead_letter" /\ retry' = retry /\ record' = NoRecord
        BY <2>1, <2>4, <3>2 DEF route_after_validation, retry_budget_exhausted
      <4>2. LoopAt' = "generated" /\ LoopCollector' = {}
        BY <4>1 DEF LoopAt, LoopCollector
      <4>3. PICK answer \in {"policy", "malformed"} :
              LoopFinal' = IF answer = "malformed" THEN answer ELSE "invalid"
        BY <4>1 DEF LoopFinal
      <4> QED BY <2>2, <3>2, <4>1, <4>2, <4>3, DeadLetterStep, Zenon
    <3>3. CASE errors' # {} /\ ~(retry >= RetryBudget)
      <4>1. state' = state /\ retry' = retry + 1
        BY <2>4, <3>3 DEF route_after_validation, retry_budget_exhausted
      <4>2. LoopAt' = "generate" /\ LoopFinal' = "running" /\ LoopCollector' = {}
        BY <2>1, <4>1 DEF LoopAt, LoopFinal, LoopCollector
      <4> QED BY <2>2, <3>3, <4>1, <4>2, RetryStep, Zenon
    <3> QED BY <3>1, <3>2, <3>3, Zenon
  <2> QED BY <1>1, <2>3, <2>4, Zenon DEF generate
<1>2. ASSUME deploy PROVE Loop!deploy(1)
  <2>1. PICK status \in simulator_deploy(policy.scope) :
          /\ record' = [payload |-> policy, signature |-> sign(policy), status |-> status]
          /\ state' = IF status = "accepted" THEN "completed" ELSE "dead_letter"
    BY <1>2, Zenon DEF deploy
  <2>2. state = "deploy" /\ retry' = retry
    BY <1>2 DEF deploy
  <2>3. status \in {"accepted", "rejected"}
    BY <2>1, Zenon DEF simulator_deploy
  <2>4. record' # NoRecord
    BY <2>1, RecordIsRecord, Zenon
  <2>5. LoopAt = "deploy" /\ LoopAt' = "generated" /\ LoopCollector = {}
    BY <2>1, <2>2 DEF LoopAt, LoopCollector
  <2>6. LoopCollector' = IF status = "accepted" THEN LoopCollector \cup {1} ELSE LoopCollector
    BY <2>1, <2>5 DEF LoopCollector
  <2>7. LoopFinal' = IF status = "accepted" THEN "completed" ELSE "undeployed"
    BY <2>1, <2>4 DEF LoopFinal
  <2> QED BY <2>2, <2>3, <2>5, <2>6, <2>7, DeployStep, Zenon
<1>3. GraphInv /\ [Next]_vars => [Loop!generate(1) \/ Loop!deploy(1)]_<<state, retry, record>>
  <2>1. UNCHANGED vars => UNCHANGED <<state, retry, record>>
    BY DEF vars
  <2> QED BY <1>1, <1>2, <2>1, Zenon DEF Next, Ended
<1> QED BY <1>3, GraphInvariance, PTL DEF Spec, RefinesLoop
=============================================================================
