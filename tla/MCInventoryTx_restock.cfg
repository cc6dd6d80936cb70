SPECIFICATION RestockSpec
CONSTANTS
    oa = oa
    ob = ob
    oc = oc
    px = px
    py = py
    Orders = {oa}
    Products = {px, py}
    Wanted <- MCWanted
    Stocked = {px, py}
    InitialStock <- MCInitialStock
    Quantities = {1}
    MaxSupply = 2
    SweepBatch = 2
    Thresholds = {0}
    DefaultThreshold = 0
    Workers = {w1, w2}
    Jobs = {"reserve", "restock"}
    ProductOrder <- MCProductOrder
    Nobody = nobody
INVARIANTS
    UnitsConserved
CHECK_DEADLOCK FALSE
