SPECIFICATION Spec
CONSTANTS
    Ladders <- SmallLadders
    Sources = {0, 2, 3}
    MaxChunks = 4
    FrameCap = 2
    SegmentCap = 2
    EventCap = 2
INVARIANTS
    ReaderHasFile
    TempFileRemoved
    ReadyIsWhole
PROPERTIES
    FailureIsReported
    UploadSettles
CHECK_DEADLOCK FALSE
