SPECIFICATION Spec
CONSTANTS
    u = u  v = v
    k1 = k1  k2 = k2
    l1 = l1  l2 = l2
    t1 = t1  t2 = t2
    d1 = d1  d2 = d2
    c1 = c1  c2 = c2
    Users = {u, v}
    Editors = {u, v}
    Managers = {v}
    Importer = u
    Comments = {k1, k2}
    Tasks = {t1, t2}
    Leases = {l1, l2}
    Owner <- MCOwner
    Dates = {d1, d2}
    Slots = {c1, c2}
    Null = Null
    Legacy <- MCLegacy
    ImportLimit = 2
    Scenarios <- MCScenarios
SYMMETRY Symmetry
CHECK_DEADLOCK FALSE
INVARIANTS MentionsAreTold  
PROPERTIES ToldOnce ResolvedIsClosed
