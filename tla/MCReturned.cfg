CONSTANTS
    Amount = 1
    MaxAttempts = 1
    MaxFaults = 0
    MaxInFlight = 2
    Follows = {}
    Disputable = FALSE
SPECIFICATION FairSpec
CHECK_DEADLOCK FALSE
PROPERTY ReturnedNeverFunds
