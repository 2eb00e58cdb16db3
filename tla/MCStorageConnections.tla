------------------------ MODULE MCStorageConnections ------------------------
(* Pairings of two administrators; the life of a connection, its health and the *)
(* default of a workspace; repairs among commits and changes of connections.    *)
EXTENDS StorageConnections, TLC

CONSTANTS env, own, group, alice, legacy, k1

MCWorkspaceOf == [f \in Files |-> CHOOSE w \in Workspaces : TRUE]

Scene(ops, requests, messages, last) ==
    [ops |-> ops, calls |-> requests, messages |-> messages, versions |-> last]
MCScenes == {Scene({"create", "rotate", "pair"}, 4, 1, 1),
             Scene({"create", "rotate", "pair"}, 3, 2, 1),
             Scene({"create", "rotate", "disable", "health", "workspace"}, 5, 0, 1),
             Scene({"create", "rotate", "disable", "repair", "commit"}, 5, 0, 3)}
Symmetry == Permutations(Slots) \cup Permutations(Admins) \cup Permutations(Hashes)
=============================================================================
