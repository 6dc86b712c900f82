SPECIFICATION Spec
CONSTANTS
    s1 = s1
    s2 = s2
    k1 = k1
    k2 = k2
    k3 = k3
    c1 = c1
    c2 = c2
    a1 = a1
    a2 = a2
    Configs <- SmallConfigs
    ApiKeys = {k1, k2, k3}
    HashOf <- SmallHash
    Streams = {"m"}
    Tokens = {"old", "new"}
    Admins = {a1, a2}
    Clients = {c1, c2}
    Addresses = {"ip"}
    IpOf <- OneAddress
    NoStream = NoStream
    NoToken = NoToken
    MaxAttempts = 2
    Window = 1
    Block = 2
INVARIANTS
    LookupCorrect
    ConfiguredKeysHold
    RotationReplaces
    OverrunBounded
PROPERTIES
    BlockLasts
SYMMETRY Symmetry
