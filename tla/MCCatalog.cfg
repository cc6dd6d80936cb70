SPECIFICATION CatSpec
CONSTANTS
    Admins = {a1, a2}
    Readers = {r1}
    Prices = {1, 2}
    Stocks = {0, 1}
    Movements <- MCMovements
    Seeded <- MCSeeded
    MaxWrites = 2
SYMMETRY AdminSymmetry
INVARIANTS
    StockFollows
    SnapshotFollows
    PagesFollow
CHECK_DEADLOCK FALSE
