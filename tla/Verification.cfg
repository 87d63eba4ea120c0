SPECIFICATION VerificationSpec
CONSTANTS
    VerifyAttempts = 3
    GradeAttempts = 4
    MaxCrashes = 1
    FetchAttempts = 2
    Fold <- MCFold
    InDirectory <- MCInDirectory
    ExactPatterns <- MCExact
    MaxFiles = 2
    MaxFileSize = 2
    MaxTotal = 3
    Sizes = {1, 3}
INVARIANTS
    GateOutageNotBlamed
    SuccessFullyEarned
    EveryRunExplained
    FeedbackAgrees
    OwnershipProven
    CleanAfterSuccess
    EvidenceIsRight
PROPERTIES
    RunEnds
    ImplementsRunContract
    DeletesOwnEntry
CHECK_DEADLOCK FALSE
