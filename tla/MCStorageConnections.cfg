SPECIFICATION Spec
CONSTANTS
    env = env
    own = own
    group = group
    alice = alice
    legacy = legacy
    k1 = k1
    Admins = {a1, a2}
    Workspaces = {w1, w2}
    WorkspaceOf <- MCWorkspaceOf
    Files = {f1}
    Hashes = {h1, h2}
    Null = Null
    Conns = {legacy, k1}
    Legacy = legacy
    Bots = {env, own}
    EnvBot = env
    Chats = {alice, group}
    Private = {alice}
    Slots = {s1, s2}
    Scenes <- MCScenes
SYMMETRY Symmetry
CHECK_DEADLOCK FALSE
INVARIANTS ActiveIsPaired RepairTellsTheTruth
PROPERTIES ChatIsPaired
