----------------------------- MODULE AccessProofs -----------------------------
(***************************************************************************)
(* Who has access, for any users, groups, workspaces, rules and calls.     *)
(*                                                                         *)
(* A check changes nothing but its own call (Checked), a write of a member *)
(* its row and its rules (WriteStep), and marks the calls that have read   *)
(* that row.  So a call that is not marked writes rules that fit the role  *)
(* it leaves behind.                                                       *)
(***************************************************************************)
EXTENDS Access, FiniteSetTheorems, TLAPS

LEMMA SceneFacts ==
    ASSUME IInv
    PROVE  /\ scene \in Scenario /\ scene.ops \subseteq Ops /\ scene.by \subseteq Users
           /\ scene.who \subseteq Users /\ scene.ws \subseteq Workspaces
           /\ scene.bodies \subseteq SUBSET Scope /\ scene.calls \in Nat
  BY AccessAssumption DEF IInv, TypeOK, Scenario

LEMMA CallFacts ==
    ASSUME IInv, NEW c \in Slots, calls[c] # Null
    PROVE  calls[c] \in Call /\ CallOK(calls[c])
  BY DEF IInv, TypeOK

LEMMA RoleFacts ==
    /\ Null \notin Roles /\ Null \notin Permissions
    /\ \A role \in Roles : PermissionFor(role) \in Permissions
    /\ \A role \in Roles : PermissionFor(role) = "MANAGE" <=> role = "MANAGER"
    /\ PermissionFor(Null) \in Permissions
  BY AccessAssumption DEF Roles, Permissions, PermissionFor

\* A role or permission suffices for a lesser one.
LEMMA RankFacts ==
    /\ \A x \in Roles \cup Permissions : AtLeast(x, "VIEWER")
    /\ \A x \in Roles : AtLeast("MANAGER", x) /\ (AtLeast(x, "MANAGER") <=> x = "MANAGER")
    /\ \A x \in Permissions : AtLeast(x, "MANAGER") <=> x = "MANAGE"
    /\ \A x : AtLeast(Null, x) = FALSE
  BY AccessAssumption DEF AtLeast, Rank, Roles, Permissions

-----------------------------------------------------------------------------
(* Checks and the beginning of a call                                      *)

LEMMA Goes ==
    ASSUME IInv, NEW c \in Slots, NEW next \in Call \cup {Null},
           calls' = [calls EXCEPT ![c] = next], UNCHANGED <<scene, Store>>,
           left' \in 0 .. scene.calls, next # Null => CallOK(next)
    PROVE  IInv'
  <1>1. UNCHANGED <<scene, status, member, rules, groups, inGroup, external, pref, torn>>
    BY DEF Store
  <1>2. /\ calls' \in [Slots -> Call \cup {Null}] /\ calls'[c] = next
        /\ \A k \in Slots \ {c} : calls'[k] = calls[k]
    BY DEF IInv, TypeOK
  <1>3. TypeOK'
    BY <1>1, <1>2 DEF IInv, TypeOK
  <1>4. NothingBefore' /\ RulesFollowMembers'
    BY <1>1 DEF IInv, NothingBefore, RulesFollowMembers
  <1>5. ASSUME NEW k \in Slots, calls'[k] # Null
        PROVE  CallOK(calls[k])'
    <2>1. CallOK(calls'[k])
      BY <1>2, <1>5, CallFacts
    <2> QED BY <1>1, <2>1 DEF CallOK
  <1> QED BY <1>3, <1>4, <1>5 DEF IInv

LEMMA Checked ==
    ASSUME IInv, NEW c \in Slots, NEW at, NEW passes, NEW next, Check(c, at, passes, next),
           passes => next \in Call /\ CallOK(next)
    PROVE  IInv'
  <1>1. UNCHANGED <<scene, left, Store>> /\ left \in 0 .. scene.calls
    BY DEF Check, IInv, TypeOK
  <1>2. CASE passes
    BY <1>1, <1>2, Goes DEF Check, To
  <1>3. CASE ~passes
    <2>1. calls' = [calls EXCEPT ![c] = Null]
      BY <1>3 DEF Check, Finish, To
    <2> QED BY <1>1, <2>1, Goes
  <1> QED BY <1>2, <1>3

LEMMA IdleType ==
    ASSUME NEW u \in Users, NEW w \in Workspaces
    PROVE  /\ Idle \in Call /\ Idle.at = "caller" /\ Idle.todo = {} /\ Idle.scopes = {}
           /\ ~Idle.raced
  BY DEF Idle, Call, Ops, MemberOps

LEMMA Begins ==
    ASSUME IInv, NEW c \in Slots, NEW call \in Call, Begin(c, call), CallOK(call)
    PROVE  IInv'
  <1>1. left' \in 0 .. scene.calls
    BY SceneFacts DEF Begin, IInv, TypeOK
  <1> QED BY <1>1, Goes DEF Begin, To

LEMMA CallMemberStep ==
    ASSUME IInv, NEW c \in Slots, CallMember(c)
    PROVE  IInv'
  <1>1. PICK u \in scene.by, who \in scene.who, w \in scene.ws, role \in Roles :
           \/ Begin(c, [Idle EXCEPT !.op = "put", !.by = u, !.ws = w, !.who = who, !.role = role])
           \/ Begin(c, [Idle EXCEPT !.op = "delete", !.by = u, !.ws = w, !.who = who])
           \/ \E scopes \in scene.bodies :
                  Begin(c, [Idle EXCEPT !.op = "replace", !.by = u, !.ws = w, !.who = who,
                                        !.role = role, !.scopes = scopes, !.todo = scopes])
    BY DEF CallMember
  <1>2. u \in Users /\ who \in Users /\ w \in Workspaces
    BY SceneFacts
  <1> DEFINE put == [Idle EXCEPT !.op = "put", !.by = u, !.ws = w, !.who = who, !.role = role]
             delete == [Idle EXCEPT !.op = "delete", !.by = u, !.ws = w, !.who = who]
             replace(scopes) == [Idle EXCEPT !.op = "replace", !.by = u, !.ws = w, !.who = who,
                                             !.role = role, !.scopes = scopes, !.todo = scopes]
  <1>3. CASE Begin(c, put)
    <2>1. put \in Call /\ put.op = "put" /\ put.who = who /\ put.role = role /\ put.at = "caller"
      BY <1>2, IdleType DEF Call, Ops, MemberOps
    <2> HIDE DEF put
    <2>2. CallOK(put)
      BY <1>2, <2>1 DEF CallOK
    <2> QED BY <1>3, <2>1, <2>2, Begins
  <1>4. CASE Begin(c, delete)
    <2>1. delete \in Call /\ delete.op = "delete" /\ delete.who = who /\ delete.at = "caller"
      BY <1>2, IdleType DEF Call, Ops, MemberOps
    <2> HIDE DEF delete
    <2>2. CallOK(delete)
      BY <1>2, <2>1 DEF CallOK
    <2> QED BY <1>4, <2>1, <2>2, Begins
  <1>5. ASSUME NEW scopes \in scene.bodies, Begin(c, replace(scopes))
        PROVE  IInv'
    <2> DEFINE call == replace(scopes)
    <2>1. scopes \in SUBSET Scope
      BY SceneFacts
    <2>2. /\ call \in Call /\ call.op = "replace" /\ call.who = who /\ call.role = role
          /\ call.at = "caller" /\ call.todo = scopes /\ call.scopes = scopes
      BY <1>2, <2>1, IdleType DEF Call, Ops, MemberOps
    <2>3. Begin(c, call)
      BY <1>5
    <2> HIDE DEF call
    <2>4. CallOK(call)
      BY <1>2, <2>2 DEF CallOK
    <2> QED BY <2>2, <2>3, <2>4, Begins
  <1> QED BY <1>1, <1>3, <1>4, <1>5

LEMMA CallGroupStep ==
    ASSUME IInv, NEW c \in Slots, CallGroup(c)
    PROVE  IInv'
  <1>1. PICK u \in scene.by, w \in scene.ws, g \in Groups :
           \/ \E op \in {"group archive", "group create"} :
                  Begin(c, [Idle EXCEPT !.op = op, !.by = u, !.who = g])
           \/ \E us \in SUBSET scene.who :
                  Begin(c, [Idle EXCEPT !.op = "group members", !.by = u, !.who = g, !.users = us])
           \/ \E scopes \in scene.bodies, role \in Roles :
                  Begin(c, [Idle EXCEPT !.op = "group access", !.by = u, !.ws = w, !.who = g,
                                        !.role = role, !.scopes = scopes])
    BY DEF CallGroup
  <1>2. u \in Users /\ w \in Workspaces
    BY SceneFacts
  <1>3. ASSUME NEW op \in {"group archive", "group create"},
               Begin(c, [Idle EXCEPT !.op = op, !.by = u, !.who = g])
        PROVE  IInv'
    <2> DEFINE call == [Idle EXCEPT !.op = op, !.by = u, !.who = g]
    <2>1. call \in Call /\ call.op = op /\ call.who = g /\ call.at = "caller"
      BY <1>2, IdleType DEF Call, Ops
    <2>2. Begin(c, call)
      BY <1>3
    <2> HIDE DEF call
    <2>3. CallOK(call)
      BY <2>1 DEF CallOK, MemberOps
    <2> QED BY <2>1, <2>2, <2>3, Begins
  <1>4. ASSUME NEW us \in SUBSET scene.who,
               Begin(c, [Idle EXCEPT !.op = "group members", !.by = u, !.who = g, !.users = us])
        PROVE  IInv'
    <2> DEFINE call == [Idle EXCEPT !.op = "group members", !.by = u, !.who = g, !.users = us]
    <2>1. us \in SUBSET Users
      BY SceneFacts
    <2>2. call \in Call /\ call.op = "group members" /\ call.who = g /\ call.at = "caller"
      BY <1>2, <2>1, IdleType DEF Call, Ops
    <2>3. Begin(c, call)
      BY <1>4
    <2> HIDE DEF call
    <2>4. CallOK(call)
      BY <2>2 DEF CallOK, MemberOps
    <2> QED BY <2>2, <2>3, <2>4, Begins
  <1>5. ASSUME NEW scopes \in scene.bodies, NEW role \in Roles,
               Begin(c, [Idle EXCEPT !.op = "group access", !.by = u, !.ws = w, !.who = g,
                                     !.role = role, !.scopes = scopes])
        PROVE  IInv'
    <2> DEFINE call == [Idle EXCEPT !.op = "group access", !.by = u, !.ws = w, !.who = g,
                                    !.role = role, !.scopes = scopes]
    <2>1. scopes \in SUBSET Scope
      BY SceneFacts
    <2>2. call \in Call /\ call.op = "group access" /\ call.who = g /\ call.at = "caller"
      BY <1>2, <2>1, IdleType DEF Call, Ops
    <2>3. Begin(c, call)
      BY <1>5
    <2> HIDE DEF call
    <2>4. CallOK(call)
      BY <2>2 DEF CallOK, MemberOps
    <2> QED BY <2>2, <2>3, <2>4, Begins
  <1> QED BY <1>1, <1>3, <1>4, <1>5

LEMMA CallWorkspaceStep ==
    ASSUME IInv, NEW c \in Slots, CallWorkspace(c)
    PROVE  IInv'
  <1>1. PICK u \in scene.by, w \in scene.ws,
             op \in {"default", "workspace create", "workspace archive"} :
           Begin(c, [Idle EXCEPT !.op = op, !.by = u, !.ws = w])
    BY DEF CallWorkspace
  <1>2. u \in Users /\ w \in Workspaces
    BY SceneFacts
  <1> DEFINE call == [Idle EXCEPT !.op = op, !.by = u, !.ws = w]
  <1>3. call \in Call /\ call.op = op /\ call.at = "caller"
    BY <1>2, IdleType DEF Call, Ops
  <1> HIDE DEF call
  <1>4. CallOK(call)
    BY <1>3 DEF CallOK, MemberOps
  <1> QED BY <1>1, <1>3, <1>4, Begins DEF call

-----------------------------------------------------------------------------
(* The checks                                                              *)

LEMMA CheckCallerStep ==
    ASSUME IInv, NEW c \in Slots, CheckCaller(c)
    PROVE  IInv'
  <1> DEFINE call == calls[c]
             role == EffectiveRole(call.by, call.ws)
             at == CASE call.op \in {"put", "replace", "group access"} -> "target"
                     [] call.op \in {"delete", "workspace archive"} -> "managers"
                     [] OTHER -> "write"
             next == [call EXCEPT !.at = at]
             passes ==
                 CASE call.op \in {"put", "delete"} ->
                          status[call.ws] # "none" /\ (IsAdmin(call.by) \/ AtLeast(role, "MANAGER"))
                   [] call.op \in {"replace", "group access"} -> AtLeast(role, "MANAGER")
                   [] call.op = "default" -> AtLeast(role, "VIEWER")
                   [] call.op = "workspace archive" -> status[call.ws] # "none"
                   [] call.op = "group members" -> groups[call.who] = "ACTIVE"
                   [] call.op = "group archive" -> groups[call.who] # "none"
                   [] OTHER -> TRUE
  <1>1. Check(c, "caller", passes, next)
    BY DEF CheckCaller
  <1>2. call \in Call /\ CallOK(call) /\ call.at = "caller"
    BY <1>1, CallFacts DEF Check, At
  <1>3. call.op \in MemberOps \cup {"group access", "workspace archive"} /\ passes =>
            status[call.ws] # "none"
    BY RankFacts, AccessAssumption DEF MemberOps, EffectiveRole, Membership
  <1>4. at \in {"target", "managers", "write"} /\ (call.op \in {"put", "replace"} => at = "target")
    OBVIOUS
  <1> HIDE DEF passes, at
  <1>5. /\ next \in Call /\ next.op = call.op /\ next.at = at /\ next.who = call.who
        /\ next.ws = call.ws /\ next.role = call.role /\ next.todo = call.todo
        /\ next.scopes = call.scopes
    BY <1>2, <1>4 DEF Call
  <1> HIDE DEF next, call
  <1>6. passes => CallOK(next)
    BY <1>2, <1>3, <1>4, <1>5 DEF CallOK
  <1> QED BY <1>1, <1>5, <1>6, Checked

LEMMA CheckTargetStep ==
    ASSUME IInv, NEW c \in Slots, CheckTarget(c)
    PROVE  IInv'
  <1> DEFINE call == calls[c]
  <1>1. call \in Call /\ CallOK(call) /\ call.at = "target"
    BY CallFacts DEF CheckTarget, Check, At
  <1>2. CASE Is(c, {"put"}) /\ Check(c, "target", NoExternalManager(call), [call EXCEPT !.at = "existing"])
    <2> DEFINE next == [call EXCEPT !.at = "existing"]
    <2>1. /\ next \in Call /\ next.op = "put" /\ call.op = "put" /\ next.at = "existing"
          /\ next.who = call.who /\ next.ws = call.ws /\ next.role = call.role
      BY <1>1, <1>2 DEF Call, Is
    <2>3. Check(c, "target", NoExternalManager(call), next)
      BY <1>2
    <2> HIDE DEF next
    <2>2. CallOK(next)
      BY <1>1, <2>1 DEF CallOK, MemberOps
    <2> QED BY <2>1, <2>2, <2>3, Checked
  <1>3. CASE Is(c, {"replace"}) /\
               Check(c, "target", member[call.ws][call.who] # Null /\ ~IsAdmin(call.who) /\ NoExternalManager(call),
                     [call EXCEPT !.at = "grant", !.saw = member[call.ws][call.who]])
    <2> DEFINE next == [call EXCEPT !.at = "grant", !.saw = member[call.ws][call.who]]
               passes == member[call.ws][call.who] # Null /\ ~IsAdmin(call.who) /\ NoExternalManager(call)
    <2>1. call.op = "replace" /\ call.who \in Users /\ call.ws \in Workspaces
      BY <1>1, <1>3 DEF Is, CallOK, MemberOps, Call
    <2>2. member[call.ws][call.who] \in Roles \cup {Null}
      BY <2>1 DEF IInv, TypeOK
    <2>3. /\ next \in Call /\ next.op = "replace" /\ next.at = "grant"
          /\ next.who = call.who /\ next.ws = call.ws /\ next.role = call.role
          /\ next.todo = call.todo /\ next.scopes = call.scopes /\ next.saw = member[call.ws][call.who]
      BY <1>1, <2>1, <2>2 DEF Call
    <2>4. Check(c, "target", passes, next)
      BY <1>3
    <2> HIDE DEF next
    <2>5. passes => CallOK(next)
      BY <1>1, <2>1, <2>3 DEF CallOK, MemberOps
    <2> HIDE DEF passes
    <2> QED BY <2>3, <2>4, <2>5, Checked
  <1>4. CASE Is(c, {"group access"}) /\ Check(c, "target", groups[call.who] = "ACTIVE", [call EXCEPT !.at = "write"])
    <2> DEFINE next == [call EXCEPT !.at = "write"]
    <2>1. /\ next \in Call /\ next.op = "group access" /\ call.op = "group access" /\ next.at = "write"
          /\ next.who = call.who /\ next.ws = call.ws
      BY <1>1, <1>4 DEF Call, Is
    <2>3. Check(c, "target", groups[call.who] = "ACTIVE", next)
      BY <1>4
    <2> HIDE DEF next
    <2>2. CallOK(next)
      BY <1>1, <2>1 DEF CallOK, MemberOps
    <2> QED BY <2>1, <2>2, <2>3, Checked
  <1> QED BY <1>2, <1>3, <1>4 DEF CheckTarget

LEMMA CountManagersStep ==
    ASSUME IInv, NEW c \in Slots, CountManagers(c)
    PROVE  IInv'
  <1> DEFINE call == calls[c]
             managers == {u \in Users : member[call.ws][u] = "MANAGER"}
             active == {w \in Workspaces : status[w] = "ACTIVE"}
  <1>1. call \in Call /\ CallOK(call) /\ call.at = "managers"
    BY CallFacts DEF CountManagers, Check, At
  <1>2. CASE Is(c, {"delete"}) /\
               Check(c, "managers", TRUE, [call EXCEPT !.at = "existing", !.count = Cardinality(managers)])
    <2> DEFINE next == [call EXCEPT !.at = "existing", !.count = Cardinality(managers)]
    <2>1. Cardinality(managers) \in Nat
      <3>1. IsFiniteSet(managers)
        BY FS_Subset, AccessAssumption
      <3> QED BY <3>1, FS_CardinalityType
    <2>2. /\ next \in Call /\ next.op = "delete" /\ call.op = "delete" /\ next.at = "existing"
          /\ next.who = call.who /\ next.ws = call.ws
      BY <1>1, <1>2, <2>1 DEF Call, Is
    <2>3. Check(c, "managers", TRUE, next)
      BY <1>2
    <2> HIDE DEF next
    <2>4. CallOK(next)
      BY <1>1, <2>2 DEF CallOK, MemberOps
    <2> QED BY <2>2, <2>3, <2>4, Checked
  <1>3. CASE Is(c, {"workspace archive"}) /\
               Check(c, "managers", Cardinality(active) > 1, [call EXCEPT !.at = "write"])
    <2> DEFINE next == [call EXCEPT !.at = "write"]
               passes == Cardinality(active) > 1
    <2>1. /\ next \in Call /\ next.op = "workspace archive" /\ call.op = "workspace archive"
          /\ next.at = "write" /\ next.ws = call.ws
      BY <1>1, <1>3 DEF Call, Is
    <2>2. Check(c, "managers", passes, next)
      BY <1>3
    <2> HIDE DEF next, passes
    <2>3. CallOK(next)
      BY <1>1, <2>1 DEF CallOK, MemberOps
    <2> QED BY <2>1, <2>2, <2>3, Checked
  <1> QED BY <1>2, <1>3 DEF CountManagers

LEMMA ReadExistingStep ==
    ASSUME IInv, NEW c \in Slots, ReadExisting(c)
    PROVE  IInv'
  <1> DEFINE call == calls[c]
             target == Membership(call.who, call.ws)
  <1>1. call \in Call /\ CallOK(call) /\ call.at = "existing"
    BY CallFacts DEF ReadExisting, Check, At
  <1>2. CASE Is(c, {"put"}) /\
               Check(c, "existing", TRUE, [call EXCEPT !.at = "write", !.saw = member[call.ws][call.who]])
    <2> DEFINE next == [call EXCEPT !.at = "write", !.saw = member[call.ws][call.who]]
    <2>1. call.op = "put" /\ call.who \in Users /\ call.ws \in Workspaces
      BY <1>1, <1>2 DEF Is, CallOK, MemberOps, Call
    <2>2. member[call.ws][call.who] \in Roles \cup {Null}
      BY <2>1 DEF IInv, TypeOK
    <2>3. /\ next \in Call /\ next.op = "put" /\ next.at = "write" /\ next.who = call.who
          /\ next.ws = call.ws /\ next.role = call.role /\ next.saw = member[call.ws][call.who]
      BY <1>1, <2>1, <2>2 DEF Call
    <2>4. Check(c, "existing", TRUE, next)
      BY <1>2
    <2> HIDE DEF next
    <2>5. CallOK(next)
      BY <1>1, <2>1, <2>3 DEF CallOK, MemberOps
    <2> QED BY <2>3, <2>4, <2>5, Checked
  <1>3. CASE Is(c, {"delete"}) /\
               Check(c, "existing", target # Null /\ ~(target = "MANAGER" /\ call.count <= 1),
                     [call EXCEPT !.at = "write"])
    <2> DEFINE next == [call EXCEPT !.at = "write"]
               passes == target # Null /\ ~(target = "MANAGER" /\ call.count <= 1)
    <2>1. /\ next \in Call /\ next.op = "delete" /\ call.op = "delete" /\ next.at = "write"
          /\ next.who = call.who /\ next.ws = call.ws
      BY <1>1, <1>3 DEF Call, Is
    <2>2. Check(c, "existing", passes, next)
      BY <1>3
    <2> HIDE DEF next, passes
    <2>3. CallOK(next)
      BY <1>1, <2>1 DEF CallOK, MemberOps
    <2> QED BY <2>1, <2>2, <2>3, Checked
  <1> QED BY <1>2, <1>3 DEF ReadExisting

LEMMA CheckGrantStep ==
    ASSUME IInv, NEW c \in Slots, CheckGrant(c)
    PROVE  IInv'
  <1> DEFINE call == calls[c]
             managed == {f \in Files : FileAccess(call.by, f, "MANAGER")}
  <1>1. PICK scope \in call.todo :
           LET todo == call.todo \ {scope}
           IN  Check(c, "grant", CanGrant(call.by, call.ws, scope) /\
                                 (scope.type = "FILE" => FileAt[scope.of].ws = call.ws),
                     [call EXCEPT !.todo = todo, !.at = IF todo = {} THEN "write" ELSE "grant",
                                  !.granted = @ \cup managed])
    BY DEF CheckGrant
  <1>2. call \in Call /\ CallOK(call) /\ call.at = "grant"
    BY CallFacts DEF CheckGrant, At
  <1> DEFINE todo == call.todo \ {scope}
             at == IF todo = {} THEN "write" ELSE "grant"
             granted == call.granted \cup managed
             next == [call EXCEPT !.todo = todo, !.at = at, !.granted = granted]
             passes == CanGrant(call.by, call.ws, scope) /\
                       (scope.type = "FILE" => FileAt[scope.of].ws = call.ws)
  <1>3. Check(c, "grant", passes, next)
    BY <1>1
  <1>4. granted \in SUBSET Files /\ todo \in SUBSET Scope
    BY <1>2 DEF Call
  <1>5. at \in {"grant", "write"} /\ (at = "write" => todo = {})
    OBVIOUS
  <1>6. scope \in call.todo /\ todo \subseteq call.todo
    BY <1>1
  <1> HIDE DEF granted, todo, at
  <1>7. /\ next \in Call /\ next.op = call.op /\ next.at = at /\ next.todo = todo
        /\ next.scopes = call.scopes /\ next.who = call.who /\ next.ws = call.ws
        /\ next.role = call.role /\ next.saw = call.saw /\ next.raced = call.raced
    BY <1>2, <1>4, <1>5 DEF Call
  <1> HIDE DEF next, passes
  <1>8. CallOK(next)
    <2>1. call.op = "replace" /\ todo \subseteq call.scopes /\ call.scopes # {}
      BY <1>2, <1>6 DEF CallOK
    <2> QED BY <1>2, <1>5, <1>7, <2>1 DEF CallOK, MemberOps
  <1> QED BY <1>3, <1>7, <1>8, Checked

-----------------------------------------------------------------------------
(* The writes                                                              *)

CallsRight == /\ calls \in [Slots -> Call \cup {Null}]
              /\ \A c \in Slots : calls[c] # Null => CallOK(calls[c])

\* A call that does not write a member leaves what the others know: it writes the members
\* of no workspace but one that did not exist.
LEMMA FinishRight ==
    ASSUME IInv, NEW c \in Slots, Finish(c),
           \A w \in Workspaces : status[w] # "none" => status'[w] # "none" /\ member'[w] = member[w]
    PROVE  CallsRight'
  <1>1. calls' = [calls EXCEPT ![c] = Null] /\ calls \in [Slots -> Call \cup {Null}]
    BY DEF Finish, To, IInv, TypeOK
  <1>2. ASSUME NEW k \in Slots, calls'[k] # Null
        PROVE  CallOK(calls[k])'
    <2>1. calls'[k] = calls[k] /\ calls[k] \in Call /\ CallOK(calls[k]) /\ calls[k].ws \in Workspaces
      BY <1>1, <1>2, CallFacts DEF Call
    <2>2. calls[k].op \in MemberOps \cup {"group access", "workspace archive"} /\ calls[k].at # "caller" =>
              /\ status'[calls[k].ws] # "none" /\ member'[calls[k].ws] = member[calls[k].ws]
      BY <2>1 DEF CallOK
    <2> QED BY <2>1, <2>2 DEF CallOK, MemberOps
  <1>3. calls' \in [Slots -> Call \cup {Null}]
    BY <1>1
  <1> QED BY <1>2, <1>3 DEF CallsRight

\* A call that writes a member marks the others that have read it.
LEMMA OvertakesRight ==
    ASSUME IInv, NEW c \in Slots, calls[c] # Null, calls[c].op \in MemberOps, NEW role,
           calls' = Overtakes(c), member' = [member EXCEPT ![calls[c].ws][calls[c].who] = role],
           status' = status
    PROVE  CallsRight'
  <1> DEFINE Met(k) == /\ calls[k] # Null /\ calls[k].op \in MemberOps /\ calls[k].ws = calls[c].ws
                       /\ calls[k].who = calls[c].who /\ calls[k].at \in {"grant", "write"}
             Raced(call) == [call EXCEPT !.raced = TRUE]
  <1>1. calls' = [k \in Slots |-> IF k = c THEN Null ELSE IF Met(k) THEN Raced(calls[k]) ELSE calls[k]]
    BY DEF Overtakes
  <1>2. \A call \in Call : /\ Raced(call) \in Call /\ Raced(call).op = call.op /\ Raced(call).at = call.at
                           /\ Raced(call).ws = call.ws /\ Raced(call).who = call.who
                           /\ Raced(call).role = call.role /\ Raced(call).todo = call.todo
                           /\ Raced(call).scopes = call.scopes /\ Raced(call).raced
    BY DEF Call
  <1>3. \A k \in Slots : Met(k) => calls[k] \in Call /\ CallOK(calls[k])
    BY CallFacts
  <1> HIDE DEF Raced
  <1>4. ASSUME NEW k \in Slots, calls'[k] # Null
        PROVE  CallOK(calls[k])'
    <2>1. k # c
      BY <1>1, <1>4
    <2>2. CASE Met(k)
      <3>1. calls'[k] = Raced(calls[k]) /\ calls[k] \in Call /\ CallOK(calls[k])
        BY <1>1, <1>3, <2>1, <2>2
      <3> HIDE DEF Met
      <3>2. /\ calls'[k].op = calls[k].op /\ calls'[k].at = calls[k].at /\ calls'[k].ws = calls[k].ws
            /\ calls'[k].who = calls[k].who /\ calls'[k].role = calls[k].role
            /\ calls'[k].todo = calls[k].todo /\ calls'[k].scopes = calls[k].scopes /\ calls'[k].raced
        BY <1>2, <3>1
      <3> QED BY <3>1, <3>2 DEF CallOK
    <2>3. CASE ~Met(k)
      <3>1. calls'[k] = calls[k] /\ calls[k] \in Call /\ CallOK(calls[k])
        BY <1>1, <1>4, <2>1, <2>3, CallFacts
      <3>2. /\ calls[k].op \in {"put", "replace"} => calls[k].who \in Users
            /\ calls[k].ws \in Workspaces
        BY <3>1 DEF CallOK, MemberOps, Call
      <3>3. calls[k].op \in {"put", "replace"} /\ calls[k].at \in {"grant", "write"} =>
                ~(calls[k].ws = calls[c].ws /\ calls[k].who = calls[c].who)
        BY <2>3, <3>1, <1>4, <1>1 DEF MemberOps
      <3>4. calls[k].op \in {"put", "replace"} /\ calls[k].at \in {"grant", "write"} =>
                member'[calls[k].ws][calls[k].who] = member[calls[k].ws][calls[k].who]
        BY <3>2, <3>3 DEF IInv, TypeOK
      <3> HIDE DEF Met
      <3> QED BY <3>1, <3>4 DEF CallOK
    <2> QED BY <2>2, <2>3
  <1>5. calls' \in [Slots -> Call \cup {Null}]
    <2>1. \A k \in Slots : calls'[k] \in Call \cup {Null}
      BY <1>1, <1>2, <1>3 DEF IInv, TypeOK
    <2> HIDE DEF Met
    <2> QED BY <1>1, <2>1
  <1> QED BY <1>4, <1>5 DEF CallsRight

LEMMA RuleType ==
    ASSUME NEW w \in Workspaces, NEW who \in Users \cup Groups, NEW scope \in Scope,
           NEW role \in Roles \cup {Null}
    PROVE  /\ RuleOf(w, who, scope, role) \in Rule
           /\ RuleOf(w, who, scope, role).ws = w /\ RuleOf(w, who, scope, role).who = who
           /\ RuleOf(w, who, scope, role).scope = scope
           /\ RuleOf(w, who, scope, role).perm = PermissionFor(role)
  BY RoleFacts DEF RuleOf, Rule

Indexed(set) ==
    /\ set \subseteq Rule
    /\ \A r, q \in set : r.ws = q.ws /\ r.who = q.who /\ r.scope = q.scope => r = q

\* The rules that a call gives, on distinct scopes.
RulesOf(w, who, scopes, role) == {RuleOf(w, who, s, role) : s \in scopes}

LEMMA RulesFor ==
    ASSUME NEW w \in Workspaces, NEW who \in Users \cup Groups, NEW scopes \in SUBSET Scope,
           NEW role \in Roles \cup {Null}
    PROVE  /\ Indexed(RulesOf(w, who, scopes, role))
           /\ scopes # {} => RulesOf(w, who, scopes, role) # {}
           /\ \A r \in RulesOf(w, who, scopes, role) :
                 r.ws = w /\ r.who = who /\ r.perm = PermissionFor(role)
  <1> DEFINE set == RulesOf(w, who, scopes, role)
  <1>1. \A r \in set : \E s \in scopes : r = RuleOf(w, who, s, role)
    BY DEF RulesOf
  <1>2. \A r \in set : /\ r \in Rule /\ r.ws = w /\ r.who = who /\ r.perm = PermissionFor(role)
                       /\ r = RuleOf(w, who, r.scope, role)
    BY <1>1, RuleType
  <1>3. scopes # {} => set # {}
    BY DEF RulesOf
  <1>4. Indexed(set)
    BY <1>2 DEF Indexed
  <1> QED BY <1>2, <1>3, <1>4

LEMMA RulesGiven ==
    ASSUME NEW call, call.ws \in Workspaces, call.who \in Users \cup Groups,
           call.scopes \in SUBSET Scope, call.role \in Roles \cup {Null}
    PROVE  /\ Indexed(RulesOf(call.ws, call.who, call.scopes, call.role))
           /\ call.scopes # {} => RulesOf(call.ws, call.who, call.scopes, call.role) # {}
           /\ \A r \in RulesOf(call.ws, call.who, call.scopes, call.role) :
                 r.ws = call.ws /\ r.who = call.who /\ r.perm = PermissionFor(call.role)
  <1> DEFINE w == call.ws
             who == call.who
             scopes == call.scopes
             role == call.role
  <1>1. /\ w \in Workspaces /\ who \in Users \cup Groups /\ scopes \in SUBSET Scope
        /\ role \in Roles \cup {Null}
    OBVIOUS
  <1> HIDE DEF w, who, scopes, role
  <1>2. /\ Indexed(RulesOf(w, who, scopes, role)) /\ (scopes # {} => RulesOf(w, who, scopes, role) # {})
        /\ \A r \in RulesOf(w, who, scopes, role) :
              r.ws = w /\ r.who = who /\ r.perm = PermissionFor(role)
    BY <1>1, RulesFor
  <1> QED BY <1>2 DEF w, who, scopes, role

\* The rules of one principal in one workspace are replaced.
LEMMA Replaced ==
    ASSUME IInv, NEW w, NEW who, NEW set, Indexed(set), \A r \in set : r.ws = w /\ r.who = who,
           rules' = (rules \ {r \in rules : r.ws = w /\ r.who = who}) \cup set
    PROVE  /\ Indexed(rules')
           /\ \A r \in rules' : (r.ws # w \/ r.who # who) => r \in rules
           /\ \A r \in rules : (r.ws # w \/ r.who # who) => r \in rules'
           /\ \A r \in rules' : r.ws = w /\ r.who = who => r \in set
           /\ set \subseteq rules'
  BY DEF Indexed, IInv, TypeOK

LEMMA WriteStep ==
    ASSUME IInv, NEW c \in Slots, calls[c] # Null, calls[c].op \in MemberOps, calls[c].at = "write",
           NEW role \in Roles \cup {Null}, NEW set, WriteMember(c, role, set), Indexed(set),
           \A r \in set : r.ws = calls[c].ws /\ r.who = calls[c].who,
           <<calls[c].ws, calls[c].who>> \notin torn' =>
               IF role = Null THEN set = {}
               ELSE set # {} /\ \A r \in set : r.perm = PermissionFor(role)
    PROVE  IInv'
  <1> DEFINE w == calls[c].ws
             u == calls[c].who
  <1>1. w \in Workspaces /\ u \in Users /\ status[w] # "none"
    BY CallFacts DEF Call, CallOK
  <1>2. /\ member' = [member EXCEPT ![w][u] = role]
        /\ rules' = (rules \ {r \in rules : r.ws = w /\ r.who = u}) \cup set
        /\ UNCHANGED <<scene, left, status, groups, inGroup, external, pref>>
        /\ calls' = Overtakes(c) /\ torn' \in {torn \ {<<w, u>>}, torn \cup {<<w, u>>}, torn}
    BY DEF WriteMember, Own
  <1> HIDE DEF w, u
  <1>3. CallsRight'
    BY <1>2, OvertakesRight DEF w, u
  <1>4. /\ Indexed(rules')
        /\ \A r \in rules' : (r.ws # w \/ r.who # u) => r \in rules
        /\ \A r \in rules : (r.ws # w \/ r.who # u) => r \in rules'
        /\ \A r \in rules' : r.ws = w /\ r.who = u => r \in set
        /\ set \subseteq rules'
    <2>1. \A r \in set : r.ws = w /\ r.who = u
      BY DEF w, u
    <2> QED BY <1>2, <2>1, Replaced, SMTT(60)
  <1>5. /\ member' \in [Workspaces -> [Users -> Roles \cup {Null}]] /\ member'[w][u] = role
        /\ \A x \in Workspaces, y \in Users : (x # w \/ y # u) => member'[x][y] = member[x][y]
    BY <1>1, <1>2 DEF IInv, TypeOK
  <1>6. torn' \subseteq (Workspaces \X Users)
    BY <1>1, <1>2 DEF IInv, TypeOK
  <1>7. TypeOK'
    BY <1>2, <1>3, <1>4, <1>5, <1>6 DEF IInv, TypeOK, Indexed, CallsRight
  <1>8. NothingBefore'
    BY <1>1, <1>2, <1>4, <1>5 DEF IInv, NothingBefore
  <1>9. ASSUME NEW x \in Workspaces, NEW y \in Users, <<x, y>> \notin torn'
        PROVE  LET own == {r \in rules' : r.ws = x /\ r.who = y}
               IN IF member'[x][y] = Null THEN own = {}
                  ELSE own # {} /\ \A r \in own : r.perm = PermissionFor(member'[x][y])
    <2>1. CASE x = w /\ y = u
      <3>1. {r \in rules' : r.ws = x /\ r.who = y} = set
        BY <1>4, <2>1 DEF w, u
      <3>2. <<w, u>> \notin torn'
        BY <1>9, <2>1
      <3> QED BY <1>5, <2>1, <3>1, <3>2 DEF w, u
    <2>2. CASE x # w \/ y # u
      <3>1. {r \in rules' : r.ws = x /\ r.who = y} = {r \in rules : r.ws = x /\ r.who = y}
        BY <1>4, <2>2
      <3>2. <<x, y>> \notin torn /\ member'[x][y] = member[x][y]
        BY <1>2, <1>5, <1>9, <2>2
      <3> QED BY <3>1, <3>2 DEF IInv, RulesFollowMembers
    <2> QED BY <2>1, <2>2
  <1>10. RulesFollowMembers'
    BY <1>9 DEF RulesFollowMembers
  <1> QED BY <1>3, <1>7, <1>8, <1>10 DEF IInv, CallsRight

LEMMA PutMemberStep ==
    ASSUME IInv, NEW c \in Slots, PutMember(c)
    PROVE  IInv'
  <1> DEFINE call == calls[c]
             own == Own(call)
  <1>1. /\ call \in Call /\ CallOK(call) /\ call # Null /\ call.op = "put" /\ call.at = "write"
        /\ call.op \in MemberOps
    BY CallFacts DEF PutMember, Is, At, MemberOps
  <1>2. call.ws \in Workspaces /\ call.who \in Users /\ call.role \in Roles
    BY <1>1 DEF Call, CallOK
  <1>3. CASE PutFails(call)
    BY <1>3, Goes DEF PutMember, Finish, To, IInv, TypeOK
  <1>4. CASE ~PutFails(call)
    <2>1. WriteMember(c, call.role, PutRules(call))
      BY <1>4 DEF PutMember
    <2>2. Indexed(own) /\ own \subseteq rules /\ \A r \in own : r.ws = call.ws /\ r.who = call.who
      BY DEF Own, Indexed, IInv, TypeOK
    <2>3. <<call.ws, call.who>> \notin torn' =>
              /\ ~call.raced /\ call.saw = member[call.ws][call.who]
              /\ <<call.ws, call.who>> \notin torn
      BY <1>1, <2>1 DEF WriteMember, CallOK
    <2>4. <<call.ws, call.who>> \notin torn' =>
              (IF call.saw = Null THEN own = {} ELSE own # {})
      BY <1>2, <2>3 DEF IInv, RulesFollowMembers, Own
    <2>5. CASE call.saw = Null
      <3> DEFINE new == RuleOf(call.ws, call.who, Whole, call.role)
                 set == own \cup {new}
      <3>1. /\ new \in Rule /\ new.ws = call.ws /\ new.who = call.who /\ new.scope = Whole
            /\ new.perm = PermissionFor(call.role)
        BY <1>2, RuleType DEF Scope, Whole
      <3>2. \A r \in own : r.scope # Whole
        BY <1>4, <2>5 DEF PutFails
      <3>3. PutRules(call) = set
        BY <2>5 DEF PutRules
      <3> HIDE DEF new, own
      <3>4. Indexed(set) /\ \A r \in set : r.ws = call.ws /\ r.who = call.who
        BY <2>2, <3>1, <3>2 DEF Indexed
      <3>5. <<call.ws, call.who>> \notin torn' =>
                set # {} /\ \A r \in set : r.perm = PermissionFor(call.role)
        BY <2>4, <2>5, <3>1
      <3> HIDE DEF set
      <3> QED BY <1>1, <1>2, <2>1, <3>3, <3>4, <3>5, RoleFacts, WriteStep
    <2>6. CASE call.saw # Null
      <3> DEFINE scopes == {r.scope : r \in own}
                 set == RulesOf(call.ws, call.who, scopes, call.role)
      <3>1. PutRules(call) = set
        BY <2>6 DEF PutRules, RulesOf
      <3>2. scopes \in SUBSET Scope /\ (own # {} => scopes # {})
        BY <2>2 DEF IInv, TypeOK, Rule
      <3> HIDE DEF scopes, own
      <3>3. /\ Indexed(set) /\ (scopes # {} => set # {})
            /\ \A r \in set : r.ws = call.ws /\ r.who = call.who /\ r.perm = PermissionFor(call.role)
        BY <1>2, <3>2, RulesFor
      <3> HIDE DEF set
      <3>4. <<call.ws, call.who>> \notin torn' => set # {}
        BY <2>4, <2>6, <3>2, <3>3
      <3> QED BY <1>1, <1>2, <2>1, <3>1, <3>3, <3>4, RoleFacts, WriteStep
    <2> QED BY <2>5, <2>6
  <1> QED BY <1>3, <1>4

LEMMA DeleteMemberStep ==
    ASSUME IInv, NEW c \in Slots, DeleteMember(c)
    PROVE  IInv'
  <1>1. /\ calls[c] # Null /\ calls[c].op \in MemberOps /\ calls[c].at = "write"
        /\ WriteMember(c, Null, {})
    BY DEF DeleteMember, Is, At, MemberOps
  <1>2. Indexed({})
    BY DEF Indexed
  <1> QED BY <1>1, <1>2, WriteStep

LEMMA ReplaceAccessStep ==
    ASSUME IInv, NEW c \in Slots, ReplaceAccess(c)
    PROVE  IInv'
  <1> DEFINE call == calls[c]
             role == IF member[call.ws][call.who] = Null THEN Null ELSE call.role
             set == RulesOf(call.ws, call.who, call.scopes, call.role)
  <1>1. /\ call \in Call /\ CallOK(call) /\ call # Null /\ call.op = "replace" /\ call.at = "write"
        /\ call.op \in MemberOps
    BY CallFacts DEF ReplaceAccess, Is, At, MemberOps
  <1>2. /\ call.ws \in Workspaces /\ call.who \in Users /\ call.role \in Roles
        /\ call.scopes \in SUBSET Scope /\ call.scopes # {}
    BY <1>1 DEF Call, CallOK
  <1>3. WriteMember(c, role, set)
    BY DEF ReplaceAccess, RulesOf
  <1> HIDE DEF call
  <1>4. /\ Indexed(set) /\ set # {}
        /\ \A r \in set : r.ws = call.ws /\ r.who = call.who /\ r.perm = PermissionFor(call.role)
    <2>1. call.who \in Users \cup Groups /\ call.role \in Roles \cup {Null}
      BY <1>2
    <2> QED BY <1>2, <2>1, RulesGiven
  <1> USE DEF call
  <1>5. <<call.ws, call.who>> \notin torn' => ~call.raced
    BY <1>1, <1>3 DEF WriteMember
  <1>6. ~call.raced => role = call.role /\ role # Null
    BY <1>1, <1>2, RoleFacts DEF CallOK
  <1>7. role \in Roles \cup {Null}
    BY <1>2
  <1> HIDE DEF set, role
  <1> QED BY <1>1, <1>3, <1>4, <1>5, <1>6, <1>7, WriteStep

\* A call that writes neither members nor the state of a workspace.
LEMMA OtherWrite ==
    ASSUME IInv, NEW c \in Slots, Finish(c), UNCHANGED <<scene, left, status, member, external, torn>>,
           Indexed(rules'), groups' \in [Groups -> {"none", "ACTIVE", "ARCHIVED"}],
           inGroup' \in [Groups -> SUBSET Users], pref' \in [Users -> Workspaces \cup {Null}],
           \A r \in rules' : r \in rules \/ (r.who \notin Users /\ status[r.ws] # "none"),
           \A r \in rules : r.who \in Users => r \in rules'
    PROVE  IInv'
  <1>1. CallsRight'
    BY FinishRight
  <1>2. TypeOK'
    BY <1>1 DEF IInv, TypeOK, Indexed, CallsRight
  <1>3. NothingBefore'
    BY DEF IInv, NothingBefore
  <1>4. \A w \in Workspaces, u \in Users :
            {r \in rules' : r.ws = w /\ r.who = u} = {r \in rules : r.ws = w /\ r.who = u}
    OBVIOUS
  <1>5. RulesFollowMembers'
    BY <1>4 DEF IInv, RulesFollowMembers
  <1> QED BY <1>1, <1>2, <1>3, <1>5 DEF IInv, CallsRight

LEMMA WriteGroupStep ==
    ASSUME IInv, NEW c \in Slots, WriteGroup(c)
    PROVE  IInv'
  <1> DEFINE call == calls[c]
  <1>1. /\ call \in Call /\ CallOK(call) /\ call.at = "write"
        /\ Finish(c) /\ UNCHANGED <<scene, left, status, member, external, pref, torn>>
    BY CallFacts DEF WriteGroup, At
  <1>2. /\ Indexed(rules) /\ groups \in [Groups -> {"none", "ACTIVE", "ARCHIVED"}]
        /\ inGroup \in [Groups -> SUBSET Users] /\ pref \in [Users -> Workspaces \cup {Null}]
    BY DEF IInv, TypeOK, Indexed
  <1>3. CASE /\ call.op = "group members" /\ inGroup' = [inGroup EXCEPT ![call.who] = call.users]
             /\ UNCHANGED <<rules, groups>>
    <2>1. call.users \in SUBSET Users
      BY <1>1 DEF Call
    <2>2. inGroup' \in [Groups -> SUBSET Users]
      BY <1>2, <1>3, <2>1
    <2> QED BY <1>1, <1>2, <1>3, <2>2, OtherWrite
  <1>4. CASE /\ call.op = "group access"
             /\ rules' = (rules \ Own(call)) \cup
                         {RuleOf(call.ws, call.who, s, call.role) : s \in call.scopes}
             /\ UNCHANGED <<inGroup, groups>>
    <2> DEFINE set == RulesOf(call.ws, call.who, call.scopes, call.role)
    <2>1. /\ call.who \in Groups /\ call.ws \in Workspaces /\ status[call.ws] # "none"
          /\ call.scopes \in SUBSET Scope /\ call.role \in Roles \cup {Null} /\ call.who \notin Users
      BY <1>1, <1>4, AccessAssumption DEF CallOK, Call
    <2> HIDE DEF call
    <2>2. Indexed(set) /\ \A r \in set : r.ws = call.ws /\ r.who = call.who
      <3>1. call.who \in Users \cup Groups
        BY <2>1
      <3> QED BY <2>1, <3>1, RulesGiven
    <2> USE DEF call
    <2> HIDE DEF set
    <2>3. rules' = (rules \ {r \in rules : r.ws = call.ws /\ r.who = call.who}) \cup set
      BY <1>4 DEF Own, set, RulesOf
    <2>4. /\ Indexed(rules')
          /\ \A r \in rules' : r \in rules \/ r \in set
          /\ \A r \in rules : r.who # call.who => r \in rules'
      BY <2>2, <2>3, Replaced
    <2>5. \A r \in rules' : r \in rules \/ (r.who \notin Users /\ status[r.ws] # "none")
      BY <2>1, <2>2, <2>4
    <2>6. \A r \in rules : r.who \in Users => r \in rules'
      BY <2>1, <2>4
    <2> QED BY <1>1, <1>2, <1>4, <2>4, <2>5, <2>6, OtherWrite
  <1>5. CASE /\ call.op \in {"group archive", "group create"}
             /\ \E new \in {"ACTIVE", "ARCHIVED"} : groups' = [groups EXCEPT ![call.who] = new]
             /\ UNCHANGED <<rules, inGroup>>
    BY <1>1, <1>2, <1>5, OtherWrite
  <1> QED BY <1>3, <1>4, <1>5 DEF WriteGroup

LEMMA SetDefaultStep ==
    ASSUME IInv, NEW c \in Slots, SetDefault(c)
    PROVE  IInv'
  <1>1. /\ Finish(c) /\ UNCHANGED <<scene, left, status, member, rules, groups, inGroup, external, torn>>
        /\ pref' = [pref EXCEPT ![calls[c].by] = calls[c].ws] /\ calls[c] \in Call
    BY CallFacts DEF SetDefault, setDefaultWorkspace, Is
  <1>2. pref' \in [Users -> Workspaces \cup {Null}]
    BY <1>1 DEF IInv, TypeOK, Call
  <1>3. Indexed(rules)
    BY DEF IInv, TypeOK, Indexed
  <1>4. groups \in [Groups -> {"none", "ACTIVE", "ARCHIVED"}] /\ inGroup \in [Groups -> SUBSET Users]
    BY DEF IInv, TypeOK
  <1> QED BY <1>1, <1>2, <1>3, <1>4, OtherWrite

LEMMA ArchiveWorkspaceStep ==
    ASSUME IInv, NEW c \in Slots, ArchiveWorkspace(c)
    PROVE  IInv'
  <1>1. /\ Finish(c) /\ UNCHANGED <<scene, left, member, rules, groups, inGroup, external, pref, torn>>
        /\ status' = [status EXCEPT ![calls[c].ws] = "ARCHIVED"] /\ calls[c] \in Call
        /\ calls[c].op = "workspace archive" /\ calls[c].at = "write" /\ CallOK(calls[c])
    BY CallFacts DEF ArchiveWorkspace, Is, At
  <1>2. /\ status' \in [Workspaces -> {"none", "ACTIVE", "ARCHIVED"}]
        /\ \A w \in Workspaces : status'[w] = "none" <=> status[w] = "none"
    BY <1>1 DEF IInv, TypeOK, Call, CallOK
  <1>3. CallsRight'
    BY <1>1, <1>2, FinishRight
  <1>4. TypeOK'
    BY <1>1, <1>2, <1>3 DEF IInv, TypeOK, CallsRight
  <1>5. NothingBefore'
    BY <1>1, <1>2 DEF IInv, NothingBefore
  <1>6. RulesFollowMembers'
    BY <1>1 DEF IInv, RulesFollowMembers
  <1> QED BY <1>3, <1>4, <1>5, <1>6 DEF IInv, CallsRight

LEMMA CreateWorkspaceStep ==
    ASSUME IInv, NEW c \in Slots, CreateWorkspace(c)
    PROVE  IInv'
  <1> DEFINE w == calls[c].ws
             by == calls[c].by
             new == RuleOf(w, by, Whole, "MANAGER")
  <1>1. /\ Finish(c) /\ UNCHANGED <<scene, left, groups, inGroup, external, pref, torn>>
        /\ status[w] = "none" /\ status' = [status EXCEPT ![w] = "ACTIVE"]
        /\ member' = [member EXCEPT ![w][by] = "MANAGER"] /\ rules' = rules \cup {new}
        /\ w \in Workspaces /\ by \in Users
    BY CallFacts DEF CreateWorkspace, Is, Call
  <1>2. /\ new \in Rule /\ new.ws = w /\ new.who = by /\ new.perm = PermissionFor("MANAGER")
    BY <1>1, RuleType DEF Scope, Whole, Roles
  <1> HIDE DEF new, w, by
  <1>3. \A r \in rules : r.ws # w
    BY <1>1 DEF IInv, NothingBefore
  <1>4. /\ member' \in [Workspaces -> [Users -> Roles \cup {Null}]]
        /\ status' \in [Workspaces -> {"none", "ACTIVE", "ARCHIVED"}]
        /\ \A x \in Workspaces \ {w} : member'[x] = member[x] /\ status'[x] = status[x]
        /\ \A y \in Users : member'[w][y] = IF y = by THEN "MANAGER" ELSE Null
        /\ status'[w] = "ACTIVE"
    BY <1>1 DEF IInv, TypeOK, NothingBefore, Roles
  <1>5. CallsRight'
    BY <1>1, <1>4, FinishRight
  <1>6. Indexed(rules')
    BY <1>1, <1>2, <1>3 DEF IInv, TypeOK, Indexed
  <1>7. TypeOK'
    BY <1>1, <1>4, <1>5, <1>6 DEF IInv, TypeOK, CallsRight, Indexed
  <1>8. NothingBefore'
    BY <1>1, <1>2, <1>4 DEF IInv, NothingBefore
  <1>9. ASSUME NEW x \in Workspaces, NEW y \in Users, <<x, y>> \notin torn'
        PROVE  LET own == {r \in rules' : r.ws = x /\ r.who = y}
               IN IF member'[x][y] = Null THEN own = {}
                  ELSE own # {} /\ \A r \in own : r.perm = PermissionFor(member'[x][y])
    <2>1. CASE x = w
      <3>1. {r \in rules' : r.ws = x /\ r.who = y} = IF y = by THEN {new} ELSE {}
        BY <1>1, <1>2, <1>3, <2>1
      <3>2. member'[x][y] = IF y = by THEN "MANAGER" ELSE Null
        BY <1>4, <2>1
      <3> QED BY <1>2, <3>1, <3>2, RoleFacts DEF Roles
    <2>2. CASE x # w
      <3>1. {r \in rules' : r.ws = x /\ r.who = y} = {r \in rules : r.ws = x /\ r.who = y}
        BY <1>1, <1>2, <2>2
      <3>2. <<x, y>> \notin torn /\ member'[x][y] = member[x][y]
        BY <1>1, <1>4, <1>9, <2>2
      <3> QED BY <3>1, <3>2 DEF IInv, RulesFollowMembers
    <2> QED BY <2>1, <2>2
  <1>10. RulesFollowMembers'
    BY <1>9 DEF RulesFollowMembers
  <1> QED BY <1>5, <1>7, <1>8, <1>10 DEF IInv, CallsRight

LEMMA SetPolicyStep ==
    ASSUME IInv, NEW u \in ExternalUsers, SetPolicy(u)
    PROVE  IInv'
  <1>1. /\ UNCHANGED <<scene, status, member, rules, groups, inGroup, pref, torn, calls>>
        /\ external' \subseteq ExternalUsers /\ left' \in 0 .. scene.calls
    BY SceneFacts DEF SetPolicy, IInv, TypeOK
  <1>2. TypeOK'
    BY <1>1 DEF IInv, TypeOK
  <1>3. NothingBefore' /\ RulesFollowMembers'
    BY <1>1 DEF IInv, NothingBefore, RulesFollowMembers
  <1>4. ASSUME NEW c \in Slots, calls'[c] # Null
        PROVE  CallOK(calls[c])'
    BY <1>1, <1>4, CallFacts DEF CallOK
  <1> QED BY <1>2, <1>3, <1>4 DEF IInv

-----------------------------------------------------------------------------
(* The invariant                                                           *)

LEMMA InitIsRight ==
    ASSUME Init
    PROVE  IInv
  <1>1. /\ scene \in Scenarios /\ left = scene.calls
        /\ status \in [Workspaces -> {"none", "ACTIVE"}]
        /\ member \in [Workspaces -> [Users -> Roles \cup {Null}]]
        /\ \A w \in Workspaces : status[w] = "none" => \A u \in Users : member[w][u] = Null
        /\ groups = [g \in Groups |-> "none"] /\ inGroup = [g \in Groups |-> {}]
        /\ external = {} /\ torn = {} /\ pref = [u \in Users |-> Null]
        /\ calls = [c \in Slots |-> Null]
    BY DEF Init
  <1>2. rules = {r \in [ws : Workspaces, who : Users, scope : {Whole}, perm : Permissions] :
                    member[r.ws][r.who] # Null /\ r.perm = PermissionFor(member[r.ws][r.who])}
    BY DEF Init
  <1>3. Indexed(rules)
    BY <1>2 DEF Indexed, Rule, Whole, Scope
  <1>4. left \in 0 .. scene.calls
    BY <1>1, AccessAssumption DEF Scenario
  <1>5. TypeOK
    BY <1>1, <1>3, <1>4 DEF TypeOK, Indexed
  <1>6. NothingBefore
    BY <1>1, <1>2 DEF NothingBefore
  <1>7. ASSUME NEW w \in Workspaces, NEW u \in Users
        PROVE  LET own == {r \in rules : r.ws = w /\ r.who = u}
               IN IF member[w][u] = Null THEN own = {}
                  ELSE own # {} /\ \A r \in own : r.perm = PermissionFor(member[w][u])
    <2>1. CASE member[w][u] = Null
      BY <1>2, <2>1
    <2>2. CASE member[w][u] # Null
      <3> DEFINE r == [ws |-> w, who |-> u, scope |-> Whole, perm |-> PermissionFor(member[w][u])]
      <3>1. PermissionFor(member[w][u]) \in Permissions
        BY <1>1, RoleFacts
      <3>2. r \in rules /\ r.ws = w /\ r.who = u
        BY <1>2, <2>2, <3>1
      <3> QED BY <1>2, <2>2, <3>2
    <2> QED BY <2>1, <2>2
  <1>8. RulesFollowMembers
    BY <1>7 DEF RulesFollowMembers
  <1> QED BY <1>1, <1>5, <1>6, <1>8 DEF IInv

LEMMA StepIsRight ==
    ASSUME IInv, [Next]_vars
    PROVE  IInv'
  <1>1. CASE UNCHANGED vars
    <2>1. UNCHANGED <<scene, left, status, member, rules, groups, inGroup, external, pref, torn, calls>>
      BY <1>1 DEF vars
    <2>2. TypeOK'
      BY <2>1 DEF IInv, TypeOK
    <2>3. NothingBefore' /\ RulesFollowMembers'
      BY <2>1 DEF IInv, NothingBefore, RulesFollowMembers
    <2>4. \A c \in Slots : calls'[c] # Null => CallOK(calls[c])'
      BY <2>1, CallFacts DEF CallOK
    <2> QED BY <2>2, <2>3, <2>4 DEF IInv
  <1>2. ASSUME NEW c \in Slots, Step(c)
        PROVE  IInv'
    BY <1>2, CallMemberStep, CallGroupStep, CallWorkspaceStep, CheckCallerStep, CheckTargetStep,
       CountManagersStep, ReadExistingStep, CheckGrantStep, PutMemberStep, DeleteMemberStep,
       ReplaceAccessStep, WriteGroupStep, CreateWorkspaceStep, ArchiveWorkspaceStep, SetDefaultStep
       DEF Step
  <1> QED BY <1>1, <1>2, SetPolicyStep DEF Next

\* IInv is an invariant: a call that no other has overtaken knows the member it writes.
THEOREM Inductive == Spec => []IInv
  BY InitIsRight, StepIsRight, PTL DEF Spec

\* Every variable holds a value of its type; no two rules give one principal the same scope.
THEOREM TypeCorrect == Spec => []TypeOK
  <1>1. IInv => TypeOK
    BY DEF IInv
  <1> QED BY <1>1, Inductive, PTL

\* The rules of a member carry the permission of his role, and who is no member has none,
\* as long as the calls on him did not overlap.
THEOREM RulesAreOfMembers == Spec => []RulesFollowMembers
  <1>1. IInv => RulesFollowMembers
    BY DEF IInv
  <1> QED BY <1>1, Inductive, PTL

-----------------------------------------------------------------------------
(* The readers agree                                                       *)

LEMMA RulesFound ==
    ASSUME IInv, NEW u \in Users, NEW f \in Files
    PROVE  /\ \A perm \in RulesOn(u, f) : perm \in Permissions
           /\ RulesOn(u, f) # {} <=>
                 \E r \in rules : r.ws = FileAt[f].ws /\ r.who \in Principals(u) /\ InScope(r.scope, f)
           /\ \A required : (\E perm \in RulesOn(u, f) : AtLeast(perm, required)) <=>
                 \E r \in rules : /\ r.ws = FileAt[f].ws /\ r.who \in Principals(u)
                                  /\ InScope(r.scope, f) /\ AtLeast(r.perm, required)
           /\ \A r \in rules : r.perm \in Permissions /\ r.scope \in Scope
  BY DEF RulesOn, IInv, TypeOK, Rule

LEMMA Agreement ==
    ASSUME IInv
    PROVE  ReadersAgree
  <1> SUFFICES ASSUME NEW u \in Users
               PROVE  /\ UsableBy(u) = {w \in Shown(u) : status[w] = "ACTIVE"}
                      /\ DefaultOf(u) \subseteq UsableBy(u) \cup {Null}
                      /\ \A f \in Files :
                             LET at == FileAt[f]
                             IN status[at.ws] = "ACTIVE" =>
                                 /\ Listed(u, f) <=> FileAccess(u, f, "VIEWER")
                                 /\ Searched(u, f) <=> Listed(u, f)
                                 /\ SeesEvent(u, at.ws, f) => SeesEvent(u, at.ws, Null)
                                 /\ Offered(u, f) <=> FileAccess(u, f, "MANAGER")
                                 /\ \A role \in Roles :
                                        FileAccess(u, f, role)
                                            <=> CanCreateAt(u, at.ws, at.folders, at.storage, f, role)
    BY DEF ReadersAgree
  <1>1. \A w \in Workspaces : EffectiveRole(u, w) # Null <=>
            status[w] = "ACTIVE" /\ (IsAdmin(u) \/ member[w][u] # Null)
    BY RoleFacts DEF EffectiveRole, Membership, Roles
  <1>2. UsableBy(u) = {w \in Shown(u) : status[w] = "ACTIVE"}
    BY <1>1 DEF UsableBy, Shown, Memberships
  <1>3. DefaultOf(u) \subseteq UsableBy(u) \cup {Null}
    BY DEF DefaultOf
  <1>4. ASSUME NEW f \in Files, status[FileAt[f].ws] = "ACTIVE"
        PROVE  /\ Listed(u, f) <=> FileAccess(u, f, "VIEWER")
               /\ Searched(u, f) <=> Listed(u, f)
               /\ SeesEvent(u, FileAt[f].ws, f) => SeesEvent(u, FileAt[f].ws, Null)
               /\ Offered(u, f) <=> FileAccess(u, f, "MANAGER")
               /\ \A role \in Roles :
                      FileAccess(u, f, role)
                          <=> CanCreateAt(u, FileAt[f].ws, FileAt[f].folders, FileAt[f].storage, f, role)
    <2> DEFINE w == FileAt[f].ws
               role == member[w][u]
    <2>1. w \in Workspaces /\ role \in Roles \cup {Null} /\ Null \notin Files
      BY AccessAssumption DEF IInv, TypeOK
    <2>2. Membership(u, w) = role /\ EffectiveRole(u, w) = IF IsAdmin(u) THEN "MANAGER" ELSE role
      BY <1>4 DEF Membership, EffectiveRole
    <2>3. \A required : FileAccess(u, f, required) <=>
              \/ IsAdmin(u)
              \/ /\ AtLeast(role, required)
                 /\ \E r \in rules : /\ r.ws = w /\ r.who \in Principals(u)
                                     /\ InScope(r.scope, f) /\ AtLeast(r.perm, required)
      BY <1>4, <2>2, RulesFound DEF FileAccess
    <2>4. Searched(u, f) <=> FileAccess(u, f, "VIEWER")
      <3>1. \A r \in rules : AtLeast(r.perm, "VIEWER")
        BY RulesFound, RankFacts
      <3>2. AtLeast(role, "VIEWER") <=> role # Null
        BY <2>1, RankFacts
      <3> QED BY <2>3, <3>1, <3>2 DEF Searched
    <2>5. \A r \in rules : r.who \in Principals(u) <=>
              (r.who = u \/ \E g \in Groups : r.who = g /\ groups[g] = "ACTIVE" /\ u \in inGroup[g])
      BY DEF Principals
    <2>6. Searched(u, f) <=> Listed(u, f)
      BY <2>5 DEF Searched, Listed
    <2>7. SeesEvent(u, w, f) => SeesEvent(u, w, Null)
      BY <1>1, <1>4, <2>1, <2>3, <2>4 DEF SeesEvent, Searched
    <2>8. Offered(u, f) <=> FileAccess(u, f, "MANAGER")
      <3>1. "MANAGE" \in RulesOn(u, f) <=> \E perm \in RulesOn(u, f) : AtLeast(perm, "MANAGER")
        BY RulesFound, RankFacts
      <3>2. AtLeast(EffectiveRole(u, w), "MANAGER") <=> IsAdmin(u) \/ AtLeast(role, "MANAGER")
        BY <2>2, RankFacts DEF Roles
      <3> QED BY <1>4, <2>2, <3>1, <3>2 DEF Offered, FileAccess
    <2>9. ASSUME NEW needed \in Roles
          PROVE  FileAccess(u, f, needed) <=>
                     CanCreateAt(u, w, FileAt[f].folders, FileAt[f].storage, f, needed)
      <3>1. AtLeast(EffectiveRole(u, w), needed) <=> IsAdmin(u) \/ AtLeast(role, needed)
        BY <2>2, RankFacts
      <3>2. \A r \in rules : InScope(r.scope, f) <=>
                \/ r.scope.type = "WORKSPACE"
                \/ r.scope.type = "FOLDER" /\ r.scope.of \in FileAt[f].folders
                \/ r.scope.type = "STORAGE" /\ r.scope.of = FileAt[f].storage
                \/ r.scope.type = "FILE" /\ r.scope.of = f
        <4>1. \A r \in rules : r.scope.type \in {"WORKSPACE", "FOLDER", "STORAGE", "FILE"}
          BY RulesFound DEF Scope
        <4> QED BY <4>1 DEF InScope
      <3> QED BY <2>3, <3>1, <3>2 DEF CanCreateAt
    <2> QED BY <2>4, <2>6, <2>7, <2>8, <2>9
  <1> QED BY <1>2, <1>3, <1>4

\* The listings, the search, the activity log, what a manager is offered and the check of
\* a path agree about who may do what with a file, whatever the rules and the groups are.
THEOREM AccessIsOne == Spec => []ReadersAgree
  BY Inductive, Agreement, PTL

-----------------------------------------------------------------------------
(* What is granted                                                         *)

\* Who may grant a scope manages the files in it, in a workspace that is not archived,
\* unless calls on the giver overlapped.
LEMMA GrantIsContained ==
    ASSUME IInv, NEW u \in Users, NEW w \in Workspaces, NEW scope \in Scope, status[w] = "ACTIVE",
           <<w, u>> \notin torn, CanGrant(u, w, scope)
    PROVE  \A f \in FilesIn(w, scope) : FileAccess(u, f, "MANAGER")
  <1> SUFFICES ASSUME NEW f \in Files, FileAt[f].ws = w, InScope(scope, f)
               PROVE  FileAccess(u, f, "MANAGER")
    BY DEF FilesIn
  <1>1. CASE IsAdmin(u)
    BY <1>1 DEF FileAccess
  <1>2. CASE scope.type = "FILE" /\ FileAccess(u, scope.of, "MANAGER")
    BY <1>2 DEF InScope
  <1>3. CASE ~IsAdmin(u) /\ scope.type # "FILE"
    <2>1. PICK r \in rules :
             /\ r.ws = w /\ r.who = u /\ r.perm = "MANAGE"
             /\ \/ r.scope.type = "WORKSPACE"
                \/ scope.type = "STORAGE" /\ r.scope = scope
                \/ scope.type = "FOLDER" /\ r.scope.type = "FOLDER" /\ r.scope.of \in Above[scope.of]
      BY <1>3 DEF CanGrant
    <2>2. InScope(r.scope, f)
      BY <2>1, AccessAssumption DEF InScope
    <2>3. AtLeast(Membership(u, w), "MANAGER")
      <3>1. member[w][u] \in Roles \cup {Null}
        BY DEF IInv, TypeOK
      <3>2. member[w][u] # Null /\ r.perm = PermissionFor(member[w][u])
        BY <2>1 DEF IInv, RulesFollowMembers
      <3> QED BY <2>1, <3>1, <3>2, RoleFacts, RankFacts DEF Membership, Roles
    <2>4. AtLeast(r.perm, "MANAGER")
      BY <2>1, RankFacts DEF Permissions
    <2> QED BY <2>1, <2>2, <2>3, <2>4, RulesFound DEF FileAccess, Principals
  <1> QED BY <1>1, <1>2, <1>3 DEF CanGrant

Granted(call) ==
    call.op = "replace" /\ call.at \in {"grant", "write"} =>
        \A s \in call.scopes \ call.todo : FilesIn(call.ws, s) \subseteq call.granted

\* A call is as it was, overtaken at the most, or it is over.
Kept(k) ==
    \/ calls'[k] = calls[k] \/ calls'[k] = Null
    \/ calls[k] # Null /\ calls'[k] = [calls[k] EXCEPT !.raced = TRUE]

LEMMA KeptGranted ==
    ASSUME IInv, CheckedIsManaged, NEW k \in Slots, Kept(k), calls'[k] # Null
    PROVE  Granted(calls'[k])
  <1>1. calls[k] # Null /\ calls[k] \in Call
    BY CallFacts DEF Kept
  <1>2. Granted(calls[k])
    BY <1>1 DEF CheckedIsManaged, Granted, Is
  <1>3. /\ calls'[k].op = calls[k].op /\ calls'[k].at = calls[k].at /\ calls'[k].scopes = calls[k].scopes
        /\ calls'[k].todo = calls[k].todo /\ calls'[k].ws = calls[k].ws
        /\ calls'[k].granted = calls[k].granted
    BY <1>1 DEF Kept, Call
  <1> QED BY <1>2, <1>3 DEF Granted

\* A step leaves the other calls as they were; its own begins, fails or passes a check,
\* or is over.
LEMMA OneCall ==
    ASSUME IInv, CheckedIsManaged, NEW c \in Slots, NEW call,
           calls' = [calls EXCEPT ![c] = call], call # Null => Granted(call)
    PROVE  \A k \in Slots : calls'[k] # Null => Granted(calls'[k])
  <1>1. calls'[c] = call /\ \A k \in Slots \ {c} : calls'[k] = calls[k]
    BY DEF IInv, TypeOK
  <1> QED BY <1>1, KeptGranted DEF Kept

LEMMA CheckedGrants ==
    ASSUME IInv, CheckedIsManaged, NEW c \in Slots, NEW at, NEW passes, NEW next,
           Check(c, at, passes, next), passes => Granted(next)
    PROVE  \A k \in Slots : calls'[k] # Null => Granted(calls'[k])
  <1>1. CASE passes
    BY <1>1, OneCall DEF Check, To
  <1>2. CASE ~passes
    <2>1. calls' = [calls EXCEPT ![c] = Null]
      BY <1>2 DEF Check, Finish, To
    <2> QED BY <2>1, OneCall
  <1> QED BY <1>1, <1>2

LEMMA GrantChecked ==
    ASSUME IInv, CheckedIsManaged, NEW c \in Slots, CheckGrant(c), torn = {},
           \A w \in Workspaces : status[w] # "ARCHIVED"
    PROVE  \A k \in Slots : calls'[k] # Null => Granted(calls'[k])
  <1> DEFINE call == calls[c]
             managed == {f \in Files : FileAccess(call.by, f, "MANAGER")}
  <1>1. PICK scope \in call.todo :
           LET todo == call.todo \ {scope}
           IN  Check(c, "grant", CanGrant(call.by, call.ws, scope) /\
                                 (scope.type = "FILE" => FileAt[scope.of].ws = call.ws),
                     [call EXCEPT !.todo = todo, !.at = IF todo = {} THEN "write" ELSE "grant",
                                  !.granted = @ \cup managed])
    BY DEF CheckGrant
  <1>2. /\ call \in Call /\ CallOK(call) /\ call.at = "grant" /\ call.op = "replace"
        /\ Granted(call)
    BY CallFacts DEF CheckGrant, At, CheckedIsManaged, Is, Granted, CallOK
  <1> DEFINE todo == call.todo \ {scope}
             granted == call.granted \cup managed
             next == [call EXCEPT !.todo = todo, !.at = IF todo = {} THEN "write" ELSE "grant",
                                  !.granted = granted]
             passes == CanGrant(call.by, call.ws, scope) /\
                       (scope.type = "FILE" => FileAt[scope.of].ws = call.ws)
  <1>3. Check(c, "grant", passes, next)
    BY <1>1
  <1>4. /\ next.op = "replace" /\ next.scopes = call.scopes /\ next.todo = todo
        /\ next.ws = call.ws /\ next.granted = granted
    BY <1>2 DEF Call
  <1>5. call.by \in Users /\ call.ws \in Workspaces /\ scope \in Scope /\ status[call.ws] = "ACTIVE"
    <2>1. call.by \in Users /\ call.ws \in Workspaces /\ call.todo \in SUBSET Scope
      BY <1>2 DEF Call
    <2>2. status[call.ws] # "none"
      BY <1>2 DEF CallOK, MemberOps
    <2> QED BY <1>1, <2>1, <2>2 DEF IInv, TypeOK
  <1>6. passes => FilesIn(call.ws, scope) \subseteq managed
    <2>1. FilesIn(call.ws, scope) \subseteq Files
      BY DEF FilesIn
    <2>2. passes => \A f \in FilesIn(call.ws, scope) : FileAccess(call.by, f, "MANAGER")
      BY <1>5, GrantIsContained
    <2> QED BY <2>1, <2>2
  <1> HIDE DEF next, passes, managed
  <1>7. passes => Granted(next)
    BY <1>2, <1>4, <1>6 DEF Granted
  <1> QED BY <1>3, <1>7, CheckedGrants

\* Neither a call that begins nor a check other than that of the scopes grants anything.
LEMMA OthersGrantNothing ==
    ASSUME IInv, CheckedIsManaged, NEW c \in Slots, Step(c), ~CheckGrant(c)
    PROVE  \A k \in Slots : calls'[k] # Null => Granted(calls'[k])
  <1>1. CASE CallMember(c) \/ CallGroup(c) \/ CallWorkspace(c)
    <2>1. ASSUME NEW call, Begin(c, call), call.at = "caller"
          PROVE  \A k \in Slots : calls'[k] # Null => Granted(calls'[k])
      BY <2>1, OneCall DEF Begin, To, Granted
    <2>2. CASE CallMember(c)
      BY <2>1, <2>2, ZenonT(60) DEF CallMember, Idle
    <2>3. CASE CallGroup(c)
      BY <2>1, <2>3 DEF CallGroup, Idle
    <2>4. CASE CallWorkspace(c)
      BY <2>1, <2>4 DEF CallWorkspace, Idle
    <2> QED BY <1>1, <2>2, <2>3, <2>4
  <1>2. CASE CheckCaller(c)
    <2> DEFINE at == CASE calls[c].op \in {"put", "replace", "group access"} -> "target"
                       [] calls[c].op \in {"delete", "workspace archive"} -> "managers"
                       [] OTHER -> "write"
               next == [calls[c] EXCEPT !.at = at]
    <2>1. PICK passes : Check(c, "caller", passes, next)
      BY <1>2 DEF CheckCaller
    <2>2. calls[c] \in Call
      BY <2>1, CallFacts DEF Check, At
    <2>3. calls[c].op = "replace" => at = "target"
      OBVIOUS
    <2> HIDE DEF at
    <2>4. next.op = calls[c].op /\ next.at = at
      BY <2>2 DEF Call
    <2> HIDE DEF next
    <2>5. Granted(next)
      BY <2>3, <2>4 DEF Granted
    <2> QED BY <2>1, <2>5, CheckedGrants
  <1>3. CASE CheckTarget(c)
    <2>1. PICK passes, next : /\ Check(c, "target", passes, next)
                              /\ \/ next = [calls[c] EXCEPT !.at = "existing"]
                                 \/ next = [calls[c] EXCEPT !.at = "grant",
                                                            !.saw = member[calls[c].ws][calls[c].who]]
                                 \/ next = [calls[c] EXCEPT !.at = "write"] /\ calls[c].op = "group access"
      BY <1>3 DEF CheckTarget, Is
    <2>2. calls[c] \in Call /\ CallOK(calls[c]) /\ calls[c].at = "target"
      BY <2>1, CallFacts DEF Check, At
    <2>3. next.op = calls[c].op /\ next.todo = calls[c].todo /\ next.scopes = calls[c].scopes
          /\ (next.at = "existing" \/ next.at = "grant" \/ next.op = "group access")
      BY <2>1, <2>2 DEF Call
    <2>4. Granted(next)
      BY <2>2, <2>3 DEF Granted, CallOK
    <2> QED BY <2>1, <2>4, CheckedGrants
  <1>4. CASE CountManagers(c) \/ ReadExisting(c)
    <2>1. ASSUME NEW at, NEW passes, NEW next, Check(c, at, passes, next), next.op # "replace"
          PROVE  \A k \in Slots : calls'[k] # Null => Granted(calls'[k])
      BY <2>1, CheckedGrants DEF Granted
    <2>2. calls[c] \in Call
      BY <1>4, CallFacts DEF CountManagers, ReadExisting, Is
    <2>3. PICK next : /\ \E at, passes : Check(c, at, passes, next)
                      /\ \/ \E n : next = [calls[c] EXCEPT !.at = "existing", !.count = n]
                         \/ \E role : next = [calls[c] EXCEPT !.at = "write", !.saw = role]
                         \/ next = [calls[c] EXCEPT !.at = "write"]
                      /\ calls[c].op # "replace"
      <3>1. CASE CountManagers(c)
        BY <3>1, Zenon DEF CountManagers, Is
      <3>2. CASE ReadExisting(c)
        BY <3>2, Zenon DEF ReadExisting, Is
      <3> QED BY <1>4, <3>1, <3>2
    <2>4. next.op # "replace"
      BY <2>2, <2>3 DEF Call
    <2> QED BY <2>1, <2>3, <2>4
  <1>5. CASE PutMember(c) \/ DeleteMember(c) \/ ReplaceAccess(c)
    <2>1. CASE Finish(c)
      BY <2>1, OneCall DEF Finish, To
    <2>2. CASE calls' = Overtakes(c)
      <3>1. \A k \in Slots : Kept(k)
        BY <2>2 DEF Overtakes, Kept
      <3> QED BY <3>1, KeptGranted
    <2> QED BY <1>5, <2>1, <2>2 DEF PutMember, DeleteMember, ReplaceAccess, WriteMember
  <1>6. CASE WriteGroup(c) \/ CreateWorkspace(c) \/ ArchiveWorkspace(c) \/ SetDefault(c)
    <2>1. Finish(c)
      BY <1>6 DEF WriteGroup, CreateWorkspace, ArchiveWorkspace, SetDefault
    <2> QED BY <2>1, OneCall DEF Finish, To
  <1> QED BY <1>1, <1>2, <1>3, <1>4, <1>5, <1>6 DEF Step

\* No two calls on a member have overlapped, and no workspace was archived.
Quiet == torn = {} /\ \A w \in Workspaces : status[w] # "ARCHIVED"

LEMMA StepIsManaged ==
    ASSUME IInv, CheckedIsManaged, Quiet, [Next]_vars
    PROVE  CheckedIsManaged'
  <1>1. \A k \in Slots : calls'[k] # Null => Granted(calls'[k])
    <2>1. CASE calls' = calls
      <3>1. \A k \in Slots : Kept(k)
        BY <2>1 DEF Kept
      <3> QED BY <3>1, KeptGranted
    <2>2. ASSUME NEW c \in Slots, Step(c)
          PROVE  \A k \in Slots : calls'[k] # Null => Granted(calls'[k])
      BY <2>2, GrantChecked, OthersGrantNothing DEF Quiet
    <2> QED BY <2>1, <2>2 DEF Next, SetPolicy, vars
  <1> QED BY <1>1 DEF CheckedIsManaged, Granted, Is, FilesIn, InScope

\* Nobody is given more than the giver manages, in a history where no calls on a member
\* overlap and no workspace is archived while scopes are being checked.
THEOREM GivenIsManaged == Spec /\ []Quiet => []GrantsAreContained
  <1>1. Init => CheckedIsManaged
    BY DEF Init, CheckedIsManaged, Is
  <1>2. IInv /\ CheckedIsManaged => GrantsAreContained
    <2> SUFFICES ASSUME IInv, CheckedIsManaged, NEW c \in Slots, Is(c, {"replace"}), At(c, "write"),
                        NEW s \in calls[c].scopes
                 PROVE  FilesIn(calls[c].ws, s) \subseteq calls[c].granted
      BY DEF GrantsAreContained
    <2>1. calls[c].todo = {}
      BY CallFacts DEF CallOK, Is, At
    <2> QED BY <2>1 DEF CheckedIsManaged, At
  <1> QED BY <1>1, <1>2, StepIsManaged, Inductive, PTL DEF Spec

=============================================================================
