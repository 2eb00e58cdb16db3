SPECIFICATION BridgeSpec
CONSTANTS
    Slots = {s1, s2}
    Bridges = {b1, b2}
    Chats = {c1, c2}
    Nothing = Nothing
    Scenes <- MCScenes
SYMMETRY Symmetry
INVARIANTS NoBridgeIsLost
 
