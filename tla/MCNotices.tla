----------------------------- MODULE MCNotices -----------------------------
EXTENDS Notices, TLC

CONSTANTS u, v, k1, k2, l1, l2, t1, t2, d1, d2, c1, c2

MCOwner == [l \in Leases |-> IF l = l1 THEN u ELSE v]

\* The second of three tasks has a file linked; two are sent.
MCLegacy == <<FALSE, TRUE, FALSE>>

Asks(status, who, due) == [status |-> status, who |-> who, due |-> due]

MCScenarios ==
    {[ops |-> {"comment", "resolve", "access"}, by |-> {u, v}, mentions |-> {{}, {v}}, changes |-> {}, calls |-> 3],
     [ops |-> {"comment", "resolve", "reopen"}, by |-> {u}, mentions |-> {{}}, changes |-> {}, calls |-> 4],
     [ops |-> {"comment", "takeover", "list", "access", "read"}, by |-> {u, v}, mentions |-> {{v}},
      changes |-> {}, calls |-> 3],
     [ops |-> {"takeover", "list", "lease", "clock", "read"}, by |-> {u, v}, mentions |-> {}, changes |-> {},
      calls |-> 3],
     [ops |-> {"create", "update", "list", "clock", "read"}, by |-> {u}, mentions |-> {},
      changes |-> {Asks("TODO", u, d1), Asks(Null, Null, d2), Asks("DONE", Null, Null)}, calls |-> 4],
     [ops |-> {"create", "update", "delete"}, by |-> {u, v}, mentions |-> {},
      changes |-> {Asks("TODO", Null, Null), Asks("DONE", Null, Null), Asks(Null, u, Null)}, calls |-> 3],
     [ops |-> {"import", "delete", "access"}, by |-> {u}, mentions |-> {}, changes |-> {}, calls |-> 4]}

Symmetry == Permutations(Slots)
=============================================================================
