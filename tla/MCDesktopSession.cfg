SPECIFICATION MCSpec
CONSTANTS
    Slots = {s1, s2}
    MaxTokens = 2
    Users = {u1, u2}
    Nobody = Nobody
SYMMETRY Symmetry
INVARIANTS LoginSticks 
