SPECIFICATION FairSpec
CONSTANTS
    px = px
    Orders = {o1}
    Products <- MCProducts
    Wanted <- MCWanted
    Stocked = {}
    InitialStock <- MCInitialStock
    Quantities <- MCQuantities
    MaxSupply = 1
    SweepBatch = 1
    Thresholds = {0}
    DefaultThreshold = 0
    Amount = 1
    MaxAttempts = 3
    MaxCrashes = 1
    RefundMayFail = TRUE
    Admins = {a1}
    CrossTopicOrder = {FALSE, TRUE}
INVARIANTS
    PaidMeansCaptured
    PaidCancelCompensated
    ChargedMeansReserved
    HistoryIsPath
    WasPaidIsTrue
    OutcomesPublished
    RechargedOnlyByCrash
PROPERTIES
    PendingEnds
    ReservedEndsInTurn
    CancelReturnsStockInTurn
CHECK_DEADLOCK FALSE
