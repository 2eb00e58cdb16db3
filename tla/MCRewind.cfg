SPECIFICATION MCSpec
CONSTANTS
    f1 = f1
    f2 = f2
    f3 = f3
    p1 = p1
    p2 = p2
    e1 = e1
    e2 = e2
    Files = {f1, f2, f3}
    NewFiles = {f3}
    Paths = {p1, p2}
    Execs = {e1}
    Nothing = Nothing
    MaxWrites = 1
    MaxFaults = 1
CHECK_DEADLOCK FALSE
INVARIANTS CompletedIsRestored
PROPERTIES VersionsOnlyGrow 
