CONSTANTS
    NumEvents = 2
    Publishers = {p1}
    BatchSize = 1
    Workers = {w1}
    Collectors = {c1}
    Admins = {}
    MaxRetries = 2
    Broken = {1}
    MaxFaults = 2
    MaxLostTasks = 1
    MaxGarbage = 0
    MaxLetters = 2
SPECIFICATION MsgFairSpec
PROPERTIES
    EventsSettle
    LettersCollected
CHECK_DEADLOCK FALSE
