SPECIFICATION MCSpec
CONSTANTS
    o = o
    m = m
    d1 = d1
    d2 = d2
    s1 = s1
    s2 = s2
    s3 = s3
    i1 = i1
    i2 = i2
    c1 = c1
    c2 = c2
    Null = Null
    Users = {o, m}
    Devices = {d1, d2}
    Sessions = {s1, s2, s3}
    Invites = {i1, i2}
    Slots = {c1, c2}
    Limit <- MCLimit
    MaxClock = 1
    Scenarios <- MCScenarios
SYMMETRY Symmetry
CHECK_DEADLOCK FALSE
INVARIANTS SignOutCovers OnlyRacingSignInsSurvive LockedOutByFailures InvitesAreSpent
