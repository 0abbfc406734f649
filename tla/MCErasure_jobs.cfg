SPECIFICATION Spec
CONSTANTS
    v1 = v1  v2 = v2  p1 = p1  p2 = p2  r1 = r1  r2 = r2  f1 = f1  u1 = u1  o1 = o1
    None = None
    Vehicles <- MCVehicles
    Policies <- MCPolicies
    ScopeOf <- MCScopeOf
    FindingOf <- MCFindingOf
    Caller = u1
    Assigner = o1
    Requests <- MCRequests
    Payloads <- MCPayloads
    MaxFaults = 1
INVARIANTS CompletedCertifies ErasureAudited
PROPERTIES OnlySubjectErased EveryRequestReported
CHECK_DEADLOCK FALSE
