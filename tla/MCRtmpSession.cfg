SPECIFICATION SessionSpec
CONSTANTS
    MaxMessages = 6
    MaxTime = 2
    Offsets = {0, 1}
    Sizes = {1, 2, 3}
    DefaultSize = 1
    MaxSize = 2
    Dimensions = {0, 1, 2}
    MaxDimension = 1
    MaxErrors = 2
    NoPts = NoPts
INVARIANTS
    ChunkSizesAgree
PROPERTIES
    TracksStayTogether
    StartsAtZero
    TransientErrorsTolerated
    SilenceEndsSession
CHECK_DEADLOCK FALSE
