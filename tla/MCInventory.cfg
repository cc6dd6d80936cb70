SPECIFICATION InvFairSpec
CONSTANTS
    oa = oa
    ob = ob
    oc = oc
    px = px
    py = py
    Orders <- MCOrders
    Products <- MCProducts
    Wanted <- MCWanted
    Stocked = {}
    InitialStock <- MCInitialStock
    Quantities <- MCQuantities
    MaxSupply = 2
    SweepBatch = 2
    Thresholds = {0, 1}
    DefaultThreshold = 1
INVARIANTS
    InvTypeOK
    ReservedIsHeld
    UnitsConserved
    LedgerNetsPerOrder
    AnnouncedIsCurrent
    OneAnswer
PROPERTIES
    ReservationLifecycle
    LowStockNotMissed
    HoldsEnd
