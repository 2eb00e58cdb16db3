------------------------------ MODULE MCAccess ------------------------------
EXTENDS Access, TLC

CONSTANTS a, u, v, g1, w1, w2, f1, f2, top, deep, t1, t2, c1, c2

\* f1 lies in the folder deep, which is in top, and f2 in top; their storages differ.
MCFileAt == [f \in Files |-> [ws |-> w1, folders |-> IF f = f1 THEN {top, deep} ELSE {top},
                              storage |-> IF f = f1 THEN t1 ELSE t2]]
MCAbove == [d \in Folders |-> IF d = deep THEN {top, deep} ELSE {top}]

In(type, of) == [type |-> type, of |-> of]

MCScenarios ==
    {[ops |-> MemberOps, by |-> {a, u}, who |-> {v}, ws |-> {w1}, calls |-> 3,
      bodies |-> {{Whole}, {In("FOLDER", deep)}}],
     [ops |-> {"put", "replace"}, by |-> {u}, who |-> {u, v}, ws |-> {w1}, calls |-> 3,
      bodies |-> {{In("FOLDER", top)}, {In("FOLDER", deep), In("STORAGE", t1)}}],
     [ops |-> {"replace", "group members", "group access", "group archive", "group create"},
      by |-> {a, u}, who |-> {v}, ws |-> {w1}, calls |-> 3, bodies |-> {{In("FILE", f2)}}],
     [ops |-> {"workspace create", "workspace archive", "default", "delete"},
      by |-> {a, u}, who |-> {u}, ws |-> {w1, w2}, calls |-> 3, bodies |-> {}]}

\* u manages w1; the administrator a does too or is no member, and v is a member
\* or none. Where groups are used, v sees one folder and the group may exist.
MCInit ==
    /\ Init
    /\ member[w1][u] = "MANAGER"
    /\ member[w1][a] = IF "put" \in scene.ops /\ u \in scene.who THEN Null ELSE "MANAGER"
    /\ "put" \in scene.ops => status[w2] = "none"
    /\ "group create" \in scene.ops => status[w2] = "none" /\ member[w1][v] # Null
    /\ \A x \in Users : member[w2][x] # Null => x = a

GroupInit ==
    /\ scene \in Scenarios /\ "group create" \in scene.ops /\ left = scene.calls
    /\ status = [w \in Workspaces |-> IF w = w1 THEN "ACTIVE" ELSE "none"]
    /\ member = [w \in Workspaces |-> [x \in Users |->
           IF w # w1 THEN Null ELSE IF x = v THEN "EDITOR" ELSE "MANAGER"]]
    /\ rules = {RuleOf(w1, a, Whole, "MANAGER"), RuleOf(w1, u, Whole, "MANAGER"),
                RuleOf(w1, v, In("FOLDER", deep), "EDITOR")}
    /\ groups = [g \in Groups |-> "ACTIVE"] /\ inGroup = [g \in Groups |-> {}]
    /\ external = {} /\ torn = {}
    /\ pref = [x \in Users |-> Null]
    /\ calls = [c \in Slots |-> Null]

MCSpec == (MCInit \/ GroupInit) /\ [][Next]_vars

Symmetry == Permutations(Slots)
=============================================================================
