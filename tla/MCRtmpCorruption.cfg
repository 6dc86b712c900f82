\* An encoder that keeps sending tags that do not demux.
SPECIFICATION SessionSpec
CONSTANTS
    MaxMessages = 6
    MaxTime = 0
    Offsets = {0}
    Sizes = {1}
    DefaultSize = 1
    MaxSize = 1
    Dimensions = {0, 1}
    MaxDimension = 1
    MaxErrors = 2
    NoPts = NoPts
INVARIANTS
    CorruptionDisconnects
CHECK_DEADLOCK FALSE
