--------------------------- MODULE MCTelegramBridge ---------------------------
(* Two functions at a time, two bridges alive, two groups: two authorizations,   *)
(* transfers while another group takes the name or an authorization ends, a      *)
(* child that crashes, and the life of the child.                                *)
EXTENDS TelegramBridge, TLC

Scene(world, keys) == [world |-> world, keys |-> keys]
MCScenes == {Scene({"begin", "code"}, 2),
             Scene({"begin", "code", "transfer", "rename"}, 1),
             Scene({"begin", "transfer", "revoke"}, 1),
             Scene({"status", "begin", "code", "crash"}, 1),
             Scene({"status", "begin", "reauthorize", "restart", "crash",
                    "failure"}, 1)}
Symmetry == Permutations(Slots) \cup Permutations(Bridges) \cup Permutations(Chats)
=============================================================================
