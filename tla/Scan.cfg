CONSTANTS
    Keys = {0, 1}
    Slots <- MCSlots
    Counts = {1, 2}
    Patterns <- MCPatterns
    HScans <- MCHScans
    MaxVersion <- MCMaxVersion
    MaxCursor = 8
    MaxOther = 1
    OtherAt = {0}
SPECIFICATION Spec
VIEW MCView
CHECK_DEADLOCK FALSE
INVARIANTS
    TypeOK
    ScanComplete
    OnlyWhatWas
    InOrder
PROPERTIES
    ScanEnds
