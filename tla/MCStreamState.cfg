SPECIFICATION Spec
CONSTANTS
    s1 = s1
    s2 = s2
    r1 = r1
    r2 = r2
    w1 = w1
    w2 = w2
    StreamIds = {s1}
    Workers = {w1, w2}
    Handler = Handler
    Cleaner = Cleaner
    Renditions = {r1, r2}
    Selections = {1, 2}
    None = None
    Watched = {}
    MaxLost = 1
SYMMETRY Symmetry
INVARIANTS
    TypeOK
    CountersConserved
    ReadyOnlyWhenComplete
    TerminalRecords
PROPERTIES
    ImplementsLifecycle
