\* Four connections for one stream that is created, published, deleted and
\* published again, its key rotated once; both limits are reached, and two
\* connections may still publish at the same time.
CONSTANTS
    StreamIds = {s1}
    Connections = {c1, c2, c3, c4}
    StaticKey = StaticKey
    WrongKey = WrongKey
    None = None
    MaxConnections = 3
    MaxStreams = 2
    EventCap = 2
    MaxKeys = 2
SPECIFICATION Spec
INVARIANTS TypeOK PermitsConserved LiveHasPublisher PendingHasConnection
SYMMETRY Symmetry
\* Every connection is used once: when all are closed nothing is left to do.
CHECK_DEADLOCK FALSE
