CONSTANTS
    Amount = 1
    MaxAttempts = 1
    MaxFaults = 1
    MaxInFlight = 2
    Follows = {"work"}
    Disputable = FALSE
SPECIFICATION Spec
CHECK_DEADLOCK FALSE
INVARIANT PrincipalNotOverdrawn
