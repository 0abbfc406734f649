--------------------------- MODULE MCPolicyGraph ---------------------------
(* A small vocabulary and the answers that tell the checks apart, for TLC. *)
EXTENDS PolicyGraph

Speed == <<"Vehicle", "Speed">>
PadWear == <<"Vehicle", "Brake", "PadWear">>
Location == <<"Vehicle", "CurrentLocation">>
Latitude == <<"Vehicle", "CurrentLocation", "Latitude">>
Unknown == <<"Vehicle", "CurrentLocation", "Lattitude">>
Odd == <<"Vehicle", "Axle[1]">>

MCVocabulary == {Speed, PadWear, Location, Latitude}
MCBranches == {Location}
MCBrakeSignals == {PadWear}
MCBracketed == {Odd}
MCFindings == [scope : {{"VIN-1"}}, candidates : {{Latitude}, {Odd}}]

Policy(signals, window, consent, pii, scope, typed) ==
    [signals |-> signals, window |-> window, consent |-> consent, pii |-> pii,
     scope |-> scope, typed |-> typed]

(* Every choice of signals and flags, and the edges of the schema. *)
MCAnswers ==
    {Policy(signals, 168, consent, pii, {"VIN-1"}, TRUE) :
        signals \in {{}, {Speed}, {Location}, {Speed, Latitude}, {Unknown}, {Latitude, Unknown}},
        consent \in BOOLEAN, pii \in BOOLEAN}
    \cup {Policy({Speed}, window, FALSE, FALSE, {"VIN-1"}, TRUE) : window \in {0, 1, 169}}
    \cup {Policy({Speed}, 72, FALSE, FALSE, {}, TRUE), Policy({Speed}, 72, FALSE, FALSE, {"VIN-1"}, FALSE)}

MCProfiles == {"vllm", "cpu", "stub", "dev_default"}
=============================================================================
