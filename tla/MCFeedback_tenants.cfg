SPECIFICATION FairFeedbackSpec
CONSTANTS
    t1 = t1  t2 = t2  f1 = f1   r1 = r1  r2 = r2
    Tenants <- MCTenants
    FindingIds <- MCOneFinding
    CorrIds = {}
    Sessions <- MCSessions
    Faults <- MCNoFaults
    Public <- MCPublic
    Limit = 1
    MaxFaults = 0
PROPERTY EveryTenantEvaluated
