SPECIFICATION CardScenario
CONSTANTS
    Operations = {"f", "c", "r1", "r2", "b1", "b2", "v"}
    Asked <- MCAsked
    Configs <- MCConfigs
    MaxAtomic = 4
    Currencies = {"USD"}
    NoPayouts = {"q"}
    PayeeBalances = {1}
    NotMade = NotMade
    MaxCallFaults = 1
    MaxDisputes = 1
INVARIANT RefundedWithinCapture
CHECK_DEADLOCK FALSE
