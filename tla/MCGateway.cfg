SPECIFICATION GatewayFairSpec
CONSTANTS
    c1 = c1
    c2 = c2
    u1 = u1
    k1 = k1
    Orders = {o1, o2}
    Earlier = {o2}
    Handlers = {h1, h2}
    Keys = {k1}
    Clients <- MCClients
    Identities <- MCIdentities
    UserOf <- MCUserOf
    KeyFor <- MCKeyFor
    Limit = 2
    Window = 2
    MaxTries = 2
    MaxFaults = 1
INVARIANTS
    OneOrderPerKey
    WindowRespected
PROPERTIES
    RequestsEnd
CHECK_DEADLOCK FALSE
