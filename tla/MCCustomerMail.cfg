SPECIFICATION ViewFairSpec
CONSTANTS
    px = px
    u1 = u1
    Orders = {o1}
    Products <- MCProducts
    Wanted <- MCWanted
    Stocked = {}
    InitialStock <- MCInitialStock
    Quantities <- MCQuantities
    MaxSupply = 1
    SweepBatch = 1
    Thresholds = {0}
    DefaultThreshold = 0
    Amount = 1
    MaxAttempts = 1
    MaxCrashes = 1
    RefundMayFail = TRUE
    Admins = {}
    CrossTopicOrder = {FALSE}
    Customer <- MCCustomer
    Undeliverable = {"admin"}
    MaxLosses = 1
    MaxAlerts = 2
INVARIANTS
    MailAccounted
    MailIsBacked
PROPERTIES
    MailKept
CHECK_DEADLOCK FALSE
