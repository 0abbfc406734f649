SPECIFICATION FairSpec
CONSTANTS
    p1 = p1  p2 = p2  ops = ops
    Versions <- MCVersions
    Needs <- MCNeeds
    Reexecutable <- MCReexecutable
    Runners <- MCRunners
    Procs <- MCProcs
    Configs <- MCConfigs
    MaxFaults = 2
INVARIANTS SchemaMatchesRecord ReadyMeansMigrated OneSigningKey InitdbVolumeRefused
PROPERTIES StartsEventually
