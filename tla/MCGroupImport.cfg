SPECIFICATION FairSpec
CONSTANTS
    p1 = p1
    p2 = p2
    Passes = {p1, p2}
    Null = Null
    Limit = 1
    MaxMessages = 3
    MaxFaults = 1
    Scenarios <- MCScenarios
CHECK_DEADLOCK FALSE
INVARIANTS NothingIsPassedOver ImportedIsOnDisk
PROPERTIES ImportedOnce EverythingIsImported
