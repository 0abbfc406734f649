SPECIFICATION FairAppSpec
CONSTANTS
    t1 = t1  f1 = f1  f2 = f2  c1 = c1  c2 = c2  r1 = r1  r2 = r2
    NoRequest = NoRequest
    Tenants <- MCTenants
    FindingIds <- MCFindings
    CorrIds <- MCCorrIds
    Sessions <- MCSessions
    HeaderIds <- MCNoHeaderIds
    Faults <- MCFaults
    RetryBudget = 0
    Public <- MCPublic
    Limit = 1
    MaxFaults = 1
INVARIANTS AppTypeOK OutcomeLineage ExpiredHasOutcome OutcomeFlawsNeedFaults OneVerdict
PROPERTIES FollowsLifecycle ServedVerdictFinal EveryFindingConcludes
