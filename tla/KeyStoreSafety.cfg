\* One key through several incarnations: locked commands, the reaper, crashes.
CONSTANTS
    Keys = {k1}
    Fields = {f1, f2}
    Clients = {c1, c2}
    Deleters = {}
    Setters = {}
    MaxVersion = 3
    LoadLimit = 2
    DupArgs = {}
    VersionWraps = FALSE
    BgWriteErrors = FALSE
    ReadErrors = FALSE
SPECIFICATION Spec
SYMMETRY ClientSymmetry
INVARIANTS
    LengthMatches
    DumpMatches
    NoOrphanItems
    LiveNotMarked
PROPERTIES
    DeathIsMarked
