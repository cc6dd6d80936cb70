SPECIFICATION TxSpec
CONSTANTS
    oa = oa
    ob = ob
    oc = oc
    px = px
    py = py
    Orders = {ob, oc}
    Products = {px, py}
    Wanted <- MCWanted
    Stocked = {px, py}
    InitialStock <- MCInitialStock
    Quantities = {1}
    MaxSupply = 2
    SweepBatch = 2
    Thresholds = {0}
    DefaultThreshold = 0
    Workers = {w1, w2}
    Jobs = {"reserve", "commit", "release", "sweep", "upsert", "adjust"}
    ProductOrder <- MCProductOrder
    Nobody = nobody
SYMMETRY WorkerSymmetry
INVARIANTS
    LockedRowIsCurrent
    ReservesNeverCycle
PROPERTIES
    InvSpec
CHECK_DEADLOCK FALSE
