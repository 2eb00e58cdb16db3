SPECIFICATION MCSpec
CONSTANTS
    a = a
    u = u
    v = v
    g1 = g1
    w1 = w1
    w2 = w2
    f1 = f1
    f2 = f2
    top = top
    deep = deep
    t1 = t1
    t2 = t2
    c1 = c1
    c2 = c2
    Null = Null
    Users = {a, u, v}
    Admins = {a}
    ExternalUsers = {v}
    Groups = {g1}
    Workspaces = {w1, w2}
    Files = {f1, f2}
    Storages = {t1, t2}
    Folders = {top, deep}
    FileAt <- MCFileAt
    Above <- MCAbove
    Slots = {c1, c2}
    Scenarios <- MCScenarios
SYMMETRY Symmetry
CHECK_DEADLOCK FALSE
INVARIANTS ReadersAgree  GrantsAreContained
