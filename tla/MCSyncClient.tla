---------------------------- MODULE MCSyncClient ----------------------------
(* SyncClient for TLC. Contents are interchangeable. *)
EXTENDS SyncClient, TLC

Scene(what, high, rows) == [happens |-> what, versions |-> high, jobs |-> rows]

\* Another device and pulls; a user who decides; faults; a file that is locked.
MCScenes ==
    {Scene({"other", "pull", "remove"}, 2, 1),
     Scene({"other", "pull", "loss"}, 2, 1),
     Scene({"pull", "remove", "loss"}, 2, 1),
     Scene({"other", "refusal", "lease", "user"}, 3, 1),
     Scene({"loss", "late", "restart"}, 2, 2),
     Scene({"other", "busy"}, 2, 1)}

\* The scenes of the behaviours that the documentation does not expect.
PullScenes == {Scene({"other", "pull", "remove"}, 2, 1)}
LateScenes == {Scene({"loss", "late", "other"}, 3, 1)}
AloneScenes == {Scene({"other"}, 2, 2)}

DrainScenes == {Scene({"loss"}, 2, 2)}

Symmetry == Permutations(Hashes)
=============================================================================
