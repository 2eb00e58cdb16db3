---------------------------- MODULE MCFileLease ----------------------------
(* Two devices, one of a manager. A device has one call of a kind in flight. *)
EXTENDS FileLease

CONSTANTS d1, d2

MCDevices == {d1, d2}
MCManagers == {d1}

OneOfAKind == \A c, x \in requests : c.op = x.op /\ c.dev = x.dev => c = x

MCSpec == LeaseInit /\ [][LeaseNext /\ OneOfAKind']_leaseVars /\ Fairness
=============================================================================
