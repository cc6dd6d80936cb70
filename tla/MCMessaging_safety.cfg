CONSTANTS
    NumEvents = 2
    Publishers = {p1, p2}
    BatchSize = 2
    Workers = {w1, w2}
    Collectors = {c1}
    Admins = {a1}
    MaxRetries = 1
    Broken = {}
    MaxFaults = 1
    MaxLostTasks = 0
    MaxGarbage = 1
    MaxLetters = 2
SPECIFICATION MsgSpec
INVARIANTS
    PublishedOnce
    PublishedIsInLog
    NothingSkipped
PROPERTIES
    DelSpec
SYMMETRY Replicas
CHECK_DEADLOCK FALSE
