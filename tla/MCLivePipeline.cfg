SPECIFICATION Spec
CONSTANTS
    RenditionList <- OneRendition
    Kinds = {"key", "inter"}
    IngestCap = 1
    SegmentCap = 1
    StorageCap = 1
    EventCap = 1
    MaxFrames = 3
    WithFfmpeg = TRUE
    StoreMayFail = TRUE
    Window = 2
    Target = 1
    NoPts = NoPts
    NoPlaylist = NoPlaylist
INVARIANTS
    TypeOK
    SegmentsConserved
    CompleteMeansPackaged
    ReadyIsPackaged
PROPERTIES
    Drains
CHECK_DEADLOCK FALSE
