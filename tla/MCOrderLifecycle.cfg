CONSTANTS
    Amount = 2
    RevisionLimit = 1
    MaxDisputes = 2
    MaxRetries = 2
    MaxDue = 2
SPECIFICATION FairSpec
INVARIANTS
    OffersMatchCommands
    SideRecordsAgree
    MoneyFollowsOutcome
PROPERTIES
    MatrixRespected
    MoneyMovesRespected
    ReviewIsDecided
CHECK_DEADLOCK FALSE
