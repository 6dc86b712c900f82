SPECIFICATION Spec
CONSTANTS
    RenditionList <- OneRendition
    Kinds = {"key"}
    IngestCap = 1
    SegmentCap = 1
    StorageCap = 1
    EventCap = 1
    MaxFrames = 1
    WithFfmpeg = FALSE
    StoreMayFail = FALSE
    Window = 1
    Target = 1
    NoPts = NoPts
    NoPlaylist = NoPlaylist
PROPERTIES
    DisconnectLeadsToReady
CHECK_DEADLOCK FALSE
