SPECIFICATION FairSpec
CONSTANTS
    px = px
    Orders = {o1}
    Products <- MCProducts
    Wanted <- MCWanted
    Stocked = {}
    InitialStock <- MCInitialStock
    Quantities <- MCQuantities
    MaxSupply = 1
    SweepBatch = 1
    Thresholds = {0}
    DefaultThreshold = 0
    Amount = 1
    MaxAttempts = 1
    MaxCrashes = 0
    RefundMayFail = FALSE
    Admins = {}
    CrossTopicOrder = {TRUE}
PROPERTIES
    CancelReturnsMoney
CHECK_DEADLOCK FALSE
