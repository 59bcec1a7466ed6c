CONSTANTS
    Amount = 1
    MaxAttempts = 1
    MaxFaults = 1
    MaxInFlight = 2
    Follows = {"work"}
    Disputable = TRUE
SPECIFICATION Spec
CHECK_DEADLOCK FALSE
PROPERTY FrozenWhileDisputed
