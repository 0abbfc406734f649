SPECIFICATION Spec
CONSTANTS
    t1 = t1  t2 = t2  r1 = r1  r2 = r2  c1 = c1
    None = None
    Tenants <- MCTenants
    Readers <- MCReaders
    CorrIds <- MCCorrIds
    Ttl = 1
    ReadLag = 1
    Capacity = 1
    MaxClock = 3
    MaxChanges = 2
INVARIANTS NotifiedIsFresh ChangesAudited WithinCapacity
PROPERTY BoundedStale
SYMMETRY Symmetry
