SPECIFICATION Spec
CONSTANTS
    Issuers <- MCIssuers
    KeyIds <- MCKeyIds
    MaxKeys <- MCMaxKeys
    Requests <- MCRequests
    Tenants = {"a", "b"}
    CorrIds = {"c1"}
    OwnTenant = "a"
    Traced <- MCTraced
CHECK_DEADLOCK FALSE
INVARIANTS NotFoundMeansOtherScope
PROPERTIES DisclosureCommitsRow GenuineRefusedOnlyIfStale ChargedRequestKept
