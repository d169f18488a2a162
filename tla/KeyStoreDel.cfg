\* DEL runs without the lock of its keys and releases it.
CONSTANTS
    Keys = {k1}
    Fields = {f1}
    Clients = {c1}
    Deleters = {d1}
    Setters = {}
    MaxVersion = 2
    LoadLimit = 2
    DupArgs = {}
    VersionWraps = FALSE
    BgWriteErrors = FALSE
    ReadErrors = FALSE
SPECIFICATION Spec
INVARIANTS
    DumpMatches
