SPECIFICATION Spec
CONSTANTS
    Payouts <- MCPayouts
    Kind <- MCKind
    BucketOf <- MCBucketOf
    AmountOf <- MCAmountOf
    Deposit = 2
    Workers = {"w1", "w2"}
    MaxAttempts = 2
    MaxFaults = 1
    Deposits <- MCDeposits
    IntentOf <- MCIntentOf
    Flaw <- MCFlaw
    OrderIntents = {"i1", "i2"}
    PoolIntents = {"pool"}
    Finality = 2
    MaxBlocks = 3
    MaxReorgs = 1
    Bidders = {"b1", "b2"}
    Booked = {"booked"}
    Sale = "sale"
    Units <- MCUnits
    StartingPrice = 1
    MinimumIncrement = 1
    BuyNowPrice = 2
    Prices = {1, 2, 3}
    MaxBids = 3
    Focus = {"dispute", "batch", "incident", "same_intent", "two_intents", "pool", "flawed", "auction"}
INVARIANTS PaidAtMostOnce ConfirmedIsPaid CreditedIsFinal CountersMatchClaims SaleFollowsOrder SoldToHighest
PROPERTIES MoneySpec PayoutsEnd PendingDecided AuctionCloses
CHECK_DEADLOCK FALSE
