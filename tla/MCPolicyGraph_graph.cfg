SPECIFICATION Spec
CONSTANTS
    Vocabulary <- MCVocabulary
    Branches <- MCBranches
    BrakeSignals <- MCBrakeSignals
    DefaultVin = "VIN-default-001"
    Bracketed <- MCBracketed
    Findings <- MCFindings
    Answers <- MCAnswers
    RetryBudget = 3
    Profiles <- MCProfiles
INVARIANTS GraphTypeOK OnlyCompliantDeployed ComplaintsAreCurrent RepeatedPromptIsFinal
PROPERTIES RefinesLoop
