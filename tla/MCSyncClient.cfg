SPECIFICATION Spec
CONSTANTS
    Hashes = {h1, h2}
    Null = Null
    Scenes <- MCScenes
SYMMETRY Symmetry
INVARIANTS RowIsCloudVersion ConflictHasCopy SeenBeforeOverwritten  NoDuplicateVersion
