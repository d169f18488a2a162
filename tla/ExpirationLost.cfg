\* A new time to live against the expire thread.
CONSTANTS
    Keys = {k1}
    Clients = {c1}
    Expirers = {c1}
    Deleters = {}
    Loop = Loop
    MaxTime = 2
    BatchSize = 2
    PopLimit = 2
    WriteErrors = FALSE
SPECIFICATION FairSpec
PROPERTIES
    DueKeysExpire
