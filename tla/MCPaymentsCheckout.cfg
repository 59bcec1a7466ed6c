CONSTANTS
    Amount = 1
    MaxAttempts = 2
    MaxFaults = 1
    MaxInFlight = 2
    Follows = {}
    Disputable = FALSE
SPECIFICATION FairSpec
CHECK_DEADLOCK FALSE
INVARIANT OneOpenIntent
PROPERTIES
    HoldEndsUnlessOverwritten
    CaptureIsBooked
