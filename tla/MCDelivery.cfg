SPECIFICATION Spec
CONSTANTS
    CacheEnabled = TRUE
    MaxSizeBytes = 5
    MaxEntries = 1
    SegmentTtl = 1
    ManifestTtl = 2
    SegmentKeys = {"0.m4s"}
    Keys = {"media.m3u8", "0.m4s"}
    Requests = {r1, r2}
    Ranges <- TwoRanges
    NoRange = NoRange
    BadRange = BadRange
    NoAnswer = NoAnswer
    SegmentSize = 2
    ManifestGrowth = 2
    MaxVersion = 2
    MaxFetch = 1
    MaxRetries = 2
    TombstoneTicks = 3
    StoreMayFail = TRUE
SYMMETRY Symmetry
INVARIANTS
    CacheAccounts
    StalenessBounded
    RangeInside
    DeletedNotServed
CHECK_DEADLOCK FALSE
