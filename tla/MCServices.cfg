SPECIFICATION Spec
CONSTANTS
    Applicants = {"a", "b"}
    Quotes = {1, 2}
    Budgets <- MCBudgets
    BaseFee = 1
    BonusCap = 1
    MaxAppVersion <- MCMaxAppVersion
    MaxRequestEdits = 1
    PoolHires = {"h1", "h2"}
    Templates <- MCTemplates
    TargetHires = 1
    PoolDeposits <- MCPoolDeposits
    MaxPoolDeposits = 1
    MaxPoolRefunds = 1
    MaxReleases = 2
    Bidders = {"b1", "b2"}
    Starting = 2
    Increment = 1
    BuyNow = 5
    Collateral = 1
    MaxBid = 4
    Median = 2
    Multiplier = 300
    RpmRate = 1
    PerfFee = 2
    PerfCap = 2
    ViewsPerUnit = 2
    SoldPlatform = "X"
    Views = {0, 3, 4, 50}
    MaxPublish = 2
    Attempts = {"r1", "r2"}
    Transferred = 3
    AfterSums = {1, 2, 3}
    Buyers = {"b1", "b2"}
    Products <- MCProducts
    MaxVersions = 2
    ServiceTerms = {"t1", "t2"}
    Clients = {"b"}
    MaxEdits = 4
    Rows = {1, 2, 3}
    SortKeys <- MCSortKeys
    PageSizes = {1, 2}
    MaxMoves = 1
    Principal = 20
    FirstFee = 18
    CostFacts <- MCCostFacts
    CapBps = 1000
    Refunds = {0, 1, 20}
    Runs = {"r1", "r2"}
    Messages <- MCMessages
    Payload <- MCPayload
    Reminders = {"late"}
    MaxOutboxAttempts = 2
    MaxSinkFaults = 1
    Members = {"u1", "u2"}
    XSubjects = {"x1", "x2"}
    GoogleSubjects = {"g"}
    Handles = {"ann", "bea", "cat"}
    FirstHandle <- MCFirstHandle
    Flows = {"f1", "f2"}
    MaxLinked = 2
    ReadsCap = 2
    MaxRenames = 1
    MaxFailures = 1
    Files = {"f1"}
    Uses <- MCUses
    Finalizers = {"w1", "w2"}
    MaxCrashes = 1
    Events = {"e1", "e2"}
    FetchedFacts = {"f"}
    Tolerance = 0
    MaxClock = 1
    MaxInboxTries = 2
    MaxApplyFaults = 1
    Submits = {"s1", "s2"}
    Keys = {"k"}
    Inputs = {"i", "j"}
    MaxFaults = 1
    Operations = {"f", "c", "r1", "r2", "b1", "b2", "v"}
    Asked <- MCAsked
    Configs <- MCConfigs
    MaxAtomic = 4
    Currencies = {"USD"}
    NoPayouts = {"q"}
    PayeeBalances = {1}
    NotMade = NotMade
    MaxCallFaults = 1
    MaxDisputes = 1
    StartsFrom <- MCStartsFrom
    MaxSettings = 2
    Posts = {"p1", "p2"}
    Spellings <- MCSpellings
    Networks = {"n"}
    XHandles = {"ann"}
    RateMax = 1
    Window = 1
    HandleDays = 2
    MaxTicks = 2
    MaxStops = 1
    NoSignup = NoSignup
INVARIANTS
    BudgetHeld PoolConserved EscrowSettled BonusSplit RefundBackedOnce LicenceHonoured SoldAsSeen EachRowOnce CostSharesKept
    SentIsDelivered OneWayIn AppliedOnce OnceExecuted ChargeConserved DeployedAsChecked WelcomedOnce
PROPERTY AttachedKept
CHECK_DEADLOCK FALSE
