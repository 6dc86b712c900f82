SPECIFICATION Spec
CONSTANTS
    Streams = {"a", "b"}
    EventCap = 1
    IngestDrain = 3
    TranscodeDrain = 2
    StorageFlush = 1
    HttpDrain = 1
    Total = 6
INVARIANTS
    StreamsGetTheirTime
    ForcedExitMeansIngestStuck
PROPERTIES
    ProcessExits
CHECK_DEADLOCK FALSE
