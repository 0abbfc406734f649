SPECIFICATION Spec
CONSTANTS
    t1 = t1  t2 = t2  f1 = f1  c1 = c1  c2 = c2  r1 = r1  r2 = r2
    NoRequest = NoRequest
    Tenants <- MCTenants
    FindingIds <- MCOneFinding
    CorrIds <- MCCorrIds
    Sessions <- MCSessions
    Faults <- MCOutage
    HeaderIds <- MCNoHeaderIds
    RetryBudget = 1
INVARIANT AcceptedIsProcessed
