SPECIFICATION Spec
CONSTANTS
    t1 = t1  t2 = t2  v1 = v1  v2 = v2  d1 = d1  d2 = d2  c1 = c1
    None = None
    Tenants <- MCTenants
    Vehicles <- MCVehicles
    Calls <- MCCalls
    Scopes <- MCScopes
    Requests <- MCRequests
    CorrIds <- MCCorrIds
    Ttl = 1
    Window = 1
    MaxClock = 3
    MaxAssignments = 3
INVARIANTS RejectionsAudited
PROPERTIES DeliveredInScope RejectedForCause
SYMMETRY Symmetry
CHECK_DEADLOCK FALSE
