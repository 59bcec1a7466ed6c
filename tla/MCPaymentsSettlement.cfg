CONSTANTS
    Amount = 2
    MaxAttempts = 1
    MaxFaults = 1
    MaxInFlight = 2
    Follows = {"refund", "work"}
    Disputable = TRUE
SPECIFICATION Spec
CHECK_DEADLOCK FALSE
INVARIANTS
    OutcomeIsProviderFact
    BooksMatchRow
PROPERTY MoneyMovesRespected
