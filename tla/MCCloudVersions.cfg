SPECIFICATION ScenesSpec
CONSTANTS
    Files = {f1, f2}
    Paths = {p1, p2}
    Hashes = {h1, h2}
    Keys = {k1, k2}
    Retentions = {2, 3}
    Null = Null
    MaxVersion = 4
    MaxObjects = 3
    MaxInFlight = 3
SYMMETRY Symmetry
CHECK_DEADLOCK FALSE
INVARIANTS
    IInv
    IntentYieldsOneVersion
    
    HistoryIsServed
PROPERTY
    ImplementsHistory
