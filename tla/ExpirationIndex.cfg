\* Two keys, a client that sets times to live, failing writes, crashes.
CONSTANTS
    Keys = {k1, k2}
    Clients = {c1}
    Expirers = {c1}
    Deleters = {}
    Loop = Loop
    MaxTime = 2
    BatchSize = 1
    PopLimit = 1
    WriteErrors = TRUE
SPECIFICATION Spec
INVARIANTS
    TTLIndexed
    WakesInTime
