\* Keys with a time to live, and commands and DEL, which give none.
CONSTANTS
    Keys = {k1, k2}
    Clients = {c1}
    Expirers = {}
    Deleters = {d1}
    Loop = Loop
    MaxTime = 1
    BatchSize = 1
    PopLimit = 1
    WriteErrors = FALSE
SPECIFICATION MCFairSpec
PROPERTIES
    DueKeysExpire
