SPECIFICATION Spec
CONSTANTS
    Scripts <- MCScripts
    BeforeCount = 2
    AfterCount = 2
    Dkim2Chain = TRUE
    MaxApprovals = 2
INVARIANTS
    TypeOK
    ReputationProtected
    LastWordDecides
    NoForcedApproval
    ArchivedAsAsked
CHECK_DEADLOCK FALSE
