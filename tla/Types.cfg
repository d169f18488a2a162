CONSTANTS
    Values = {a, b}
    None = None
    W = 9
    MaxPush = 2
    MaxLength = 3
    MaxVersion = 1
    Indices <- MCIndices
    Forms = {"list", "ziplist", "quicklist"}
    Members = {0, 1, 2}
    Inf = 2
    Fine <- MCFine
    Bounds <- MCFine
    NoScore = NoScore
    ZaddArgs <- MCZaddArgs
    ZPayload <- MCPayload
    MaxZVersion = 1
    ByteBits = 2
    IntBits = 3
    MaxSize = 3
    MaxLen = 4
    FloatBuf = 4
    FloatDigits = 2
    LdMax = 4
    NoString = NoString
    Strings <- MCStrings
    IncrArgs <- MCIncrArgs
    FloatArgs <- MCFloatArgs
    MaxSVersion = 1
    Radix = 2
    Digits16 = 2
    Digits64 = 2
    Half = 2
    Names <- MCNames
    Fields <- MCFields
    CodeVersions = {1, 2}
    Doubles = {0, 1, 2, 3}
    Numbers = {1, 2}
    MaxRecords = 2
    HFields = {0, 1, 2}
    Texts = {0, 1}
    LLongMax = 3
    DblMax = 6
    HmsetArgs <- MCHmsetArgs
    HmgetArgs <- MCHmgetArgs
    SremArgs <- MCSremArgs
    HIncrs <- MCHIncrs
    PopCounts <- MCPopCounts
    HPayloads <- MCHPayloads
    MaxHVersion = 1
    Base = 16
    Bytes32 = 2
    Bytes64 = 3
    IntBytes <- MCIntBytes
    MaxIntText = 17
    LzfMin = 17
    Payload <- MCRdbStrings
    RdbMembers <- MCRdbMembers
    RdbDoubles = {0, 255, 256, 4095}
    MaxElements = 2
SPECIFICATION MCSpec
VIEW MCView
CHECK_DEADLOCK FALSE
INVARIANTS
    TypeOK
    ListShape
    UnusedClean
    ReadsAsAList
    ZTypeOK
    ZsetAgrees
    ZUnusedClean
    RankReads
    ScoreReads
    LexReads
    STypeOK
    ReadsAgree
    KeysDecode
    ScanOrder
    PrefixScan
    MetaDecodes
    DumpRestores
PROPERTIES
    BehavesAsAList
    BehavesAsAMap
    BehavesAsAString
    BehavesAsACollection
