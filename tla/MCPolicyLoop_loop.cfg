SPECIFICATION FairSpec
CONSTANTS
    t1 = t1  t2 = t2  f1 = f1  c1 = c1  c2 = c2  r1 = r1  r2 = r2
    NoRequest = NoRequest
    Tenants <- MCTenants
    FindingIds <- MCOneFinding
    CorrIds <- MCCorrIds
    Sessions <- MCSessions
    Faults <- MCAllFaults
    HeaderIds <- MCHeaderIds
    RetryBudget = 1
INVARIANTS OneRecordPerFinding AuditChain UnrecordedIsRejected
PROPERTIES EverySessionEnds
