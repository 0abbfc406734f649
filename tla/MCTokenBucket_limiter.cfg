SPECIFICATION LimiterSpec
CONSTANTS
    r1 = r1  r2 = r2  None = None
    Requests <- MCRequests
    Second = 4
    Rate = 2
    Burst = 2
    MaxLag = 2
    MaxClock = 11
    MaxRestarts = 1
    MaxDrops = 1
INVARIANTS RateBound RetryAfterHonoured RestartIsInvisible
SYMMETRY MCSymmetry
