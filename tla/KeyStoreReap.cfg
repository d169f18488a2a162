\* The reaper against two clients, or against DEL and MSET, which release locks they
\* do not hold; wrapping versions, failing writes and reads.
CONSTANTS
    Keys = {k1}
    Fields = {f1, f2}
    Clients = {c1, c2}
    Deleters = {d1}
    Setters = {s1}
    MaxVersion = 1
    LoadLimit = 2
    DupArgs = {}
    VersionWraps = TRUE
    BgWriteErrors = TRUE
    ReadErrors = TRUE
SPECIFICATION MCFairSpec
INVARIANTS
    TypeOK
PROPERTIES
    MarksReaped
