SPECIFICATION MCSpec
CONSTANTS
    d1 = d1
    d2 = d2
    None = None
    Devices <- MCDevices
    ManagerDevices <- MCManagers
    MaxIds = 2
    MaxCalls = 2
CHECK_DEADLOCK FALSE
PROPERTIES ImplementsEditLock LeaseSurvivesOthers LostLeaseIsNoticed
