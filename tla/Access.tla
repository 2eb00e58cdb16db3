------------------------------- MODULE Access -------------------------------
(* Who may do what in a workspace: memberships, resource rules, groups and   *)
(* the default workspace. The rules are read by worker/src/access.ts and by  *)
(* the listings of index.ts, and written by the administration handlers of   *)
(* enterprise.ts and collaboration.ts. A handler checks with some statements *)
(* and writes with one batch; each is a step, and calls interleave.          *)
(* Where a file is (folders, home storage) does not change here. A folder    *)
(* stands for its path, and "under it" for the prefix test of the queries.   *)
EXTENDS Naturals, FiniteSets

CONSTANTS
    Users, Groups, Workspaces, Files, Storages,
    Admins,          \* users whose system role is OWNER or ADMIN
    Folders,
    FileAt,          \* FileAt[f]: its workspace, folders from the root and home storage
    Above,           \* Above[d]: folders d lies under, itself included
    Slots, Null,
    ExternalUsers,   \* users who may be made EXTERNAL by the account policy
    Scenarios        \* each bounds a behaviour: the operations called together, by
                     \* whom, on whom and where, the scopes asked for, and the calls

Roles == {"VIEWER", "EDITOR", "MANAGER"}
Permissions == {"VIEW", "EDIT", "MANAGE"}
Scope == [type : {"WORKSPACE"}, of : {Null}] \cup [type : {"FOLDER"}, of : Folders]
         \cup [type : {"STORAGE"}, of : Storages] \cup [type : {"FILE"}, of : Files]
MemberOps == {"put", "delete", "replace"}
Ops == MemberOps \cup {"group members", "group access", "group archive", "group create",
                       "workspace create", "workspace archive", "default"}

Scenario == [ops : SUBSET Ops, by : SUBSET Users, who : SUBSET Users, ws : SUBSET Workspaces,
             bodies : SUBSET SUBSET Scope, calls : Nat]

ASSUME AccessAssumption ==
    /\ Admins \subseteq Users /\ ExternalUsers \subseteq Users \ Admins
    /\ Null \notin Users \cup Groups \cup Workspaces \cup Files \cup Folders \cup Storages
    /\ Null \notin Roles \cup Permissions
    /\ Users \cap Groups = {} /\ IsFiniteSet(Users)
    /\ FileAt \in [Files -> [ws : Workspaces, folders : SUBSET Folders, storage : Storages]]
    /\ Above \in [Folders -> SUBSET Folders]
    /\ \A f \in Files : \A d \in FileAt[f].folders : Above[d] \subseteq FileAt[f].folders
    /\ Scenarios \subseteq Scenario

VARIABLES
    scene, left,    \* the scenario, and the calls it still has
    status,         \* workspaces.status, or "none"
    member,         \* workspace_members: a role, or Null
    rules,          \* resource_access_rules
    groups,         \* groups.status, or "none"
    inGroup,        \* group_members
    external,       \* users whose account_type is EXTERNAL
    pref,           \* user_preferences.default_workspace_id
    torn,           \* ghost: members written by calls that overlapped
    calls

vars == <<scene, left, status, member, rules, groups, inGroup, external, pref, torn, calls>>

Rule == [ws : Workspaces, who : Users \cup Groups, scope : Scope, perm : Permissions]

\* `saw` is the role the handler read of its target, `count` the managers it
\* counted; `todo` are the scopes to be checked. `raced`: another call wrote
\* the member since this one read it. `granted`: the files the caller managed
\* at the checks.
Call == [op : Ops, by : Users, ws : Workspaces, who : Users \cup Groups \cup {Null},
         role : Roles \cup {Null}, users : SUBSET Users, scopes : SUBSET Scope,
         at : {"caller", "target", "existing", "managers", "grant", "write"},
         saw : Roles \cup {Null}, count : Nat, todo : SUBSET Scope,
         raced : BOOLEAN, granted : SUBSET Files]

TypeOK ==
    /\ scene \in Scenarios /\ left \in 0 .. scene.calls
    /\ status \in [Workspaces -> {"none", "ACTIVE", "ARCHIVED"}]
    /\ member \in [Workspaces -> [Users -> Roles \cup {Null}]]
    /\ rules \subseteq Rule
    /\ \A r, q \in rules : r.ws = q.ws /\ r.who = q.who /\ r.scope = q.scope => r = q
    /\ groups \in [Groups -> {"none", "ACTIVE", "ARCHIVED"}]
    /\ inGroup \in [Groups -> SUBSET Users]
    /\ external \subseteq ExternalUsers
    /\ pref \in [Users -> Workspaces \cup {Null}]
    /\ torn \subseteq (Workspaces \X Users)
    /\ calls \in [Slots -> Call \cup {Null}]

-----------------------------------------------------------------------------
(* Reading: access.ts. *)

Rank == [r \in Roles \cup Permissions |->
    CASE r \in {"VIEWER", "VIEW"} -> 1 [] r \in {"EDITOR", "EDIT"} -> 2 [] OTHER -> 3]

AtLeast(actual, required) == actual # Null /\ Rank[actual] >= Rank[required]

PermissionFor(role) ==
    CASE role = "MANAGER" -> "MANAGE" [] role = "EDITOR" -> "EDIT" [] OTHER -> "VIEW"

IsAdmin(u) == u \in Admins

Membership(u, w) == IF status[w] = "ACTIVE" THEN member[w][u] ELSE Null

\* getEffectiveWorkspaceRole.
EffectiveRole(u, w) ==
    IF ~IsAdmin(u) THEN Membership(u, w)
    ELSE IF status[w] = "ACTIVE" THEN "MANAGER" ELSE Null

\* Faulty variant: the groups a user is in, archived ones too.
PrincipalsOfAllGroups(u) == {u} \cup {g \in Groups : u \in inGroup[g]}

Principals(u) == {u} \cup {g \in Groups : groups[g] = "ACTIVE" /\ u \in inGroup[g]}

InScope(scope, f) ==
    CASE scope.type = "WORKSPACE" -> TRUE
      [] scope.type = "FOLDER" -> scope.of \in FileAt[f].folders
      [] scope.type = "STORAGE" -> scope.of = FileAt[f].storage
      [] OTHER -> scope.of = f

\* The permissions the query of resolveFileAccess returns.
RulesOn(u, f) ==
    {r.perm : r \in {r \in rules : r.ws = FileAt[f].ws /\ r.who \in Principals(u) /\ InScope(r.scope, f)}}

\* resolveFileAccess: the membership and the best rule both have to suffice.
FileAccess(u, f, required) ==
    /\ status[FileAt[f].ws] = "ACTIVE"
    /\ \/ IsAdmin(u)
       \/ /\ AtLeast(Membership(u, FileAt[f].ws), required)
          /\ \E perm \in RulesOn(u, f) : AtLeast(perm, required)

\* canCreateResourceAtPath, asked about the place of a file that may exist.
CanCreateAt(u, w, folders, storage, f, required) ==
    /\ AtLeast(EffectiveRole(u, w), required)
    /\ \/ IsAdmin(u)
       \/ \E r \in rules :
              /\ r.ws = w /\ r.who \in Principals(u) /\ AtLeast(r.perm, required)
              /\ \/ r.scope.type = "WORKSPACE"
                 \/ r.scope.type = "FOLDER" /\ r.scope.of \in folders
                 \/ r.scope.type = "STORAGE" /\ r.scope.of = storage
                 \/ r.scope.type = "FILE" /\ r.scope.of = f

\* handleFilesList and handleTrashList: one query, which asks for a member and
\* any rule, and not for the state of the workspace.
Listed(u, f) ==
    \/ IsAdmin(u)
    \/ /\ member[FileAt[f].ws][u] # Null
       /\ \E r \in rules : r.ws = FileAt[f].ws /\ InScope(r.scope, f) /\
              (r.who = u \/ \E g \in Groups : r.who = g /\ groups[g] = "ACTIVE" /\ u \in inGroup[g])

\* handleAdvancedSearch: clauses of its query, like those of the listings.
Searched(u, f) ==
    \/ IsAdmin(u)
    \/ /\ member[FileAt[f].ws][u] # Null
       /\ \E r \in rules : r.ws = FileAt[f].ws /\ r.who \in Principals(u) /\ InScope(r.scope, f)

\* handleResourceAccessGet: the files offered to a manager who gives access.
Offered(u, f) ==
    /\ AtLeast(EffectiveRole(u, FileAt[f].ws), "MANAGER")
    /\ IsAdmin(u) \/ "MANAGE" \in RulesOn(u, f)

\* handleUnifiedActivity: an event names a file, or only a workspace (f = Null).
SeesEvent(u, w, f) ==
    IF f # Null THEN FileAccess(u, f, "VIEWER") ELSE EffectiveRole(u, w) # Null

\* getMemberships, of archived workspaces too; handleWorkspacesList shows the same.
Memberships(u) == {w \in Workspaces : status[w] # "none" /\ (IsAdmin(u) \/ member[w][u] # Null)}
Shown(u) == Memberships(u)

\* getDefaultWorkspaceId: the preferred one if it can be used, else any that can;
\* its order among those (role, age) is left out.
UsableBy(u) == {w \in Workspaces : EffectiveRole(u, w) # Null}

DefaultOf(u) ==
    IF pref[u] # Null /\ pref[u] \in UsableBy(u) THEN {pref[u]}
    ELSE IF UsableBy(u) = {} THEN {Null} ELSE UsableBy(u)

-----------------------------------------------------------------------------
(* Calls. *)

Idle == [op |-> "put", by |-> CHOOSE u \in Users : TRUE, ws |-> CHOOSE w \in Workspaces : TRUE,
         who |-> Null, role |-> Null, users |-> {}, scopes |-> {}, at |-> "caller",
         saw |-> Null, count |-> 0, todo |-> {}, raced |-> FALSE, granted |-> {}]

At(c, at) == calls[c] # Null /\ calls[c].at = at
Is(c, ops) == calls[c] # Null /\ calls[c].op \in ops
To(c, call) == calls' = [calls EXCEPT ![c] = call]
Goto(c, at) == To(c, [calls[c] EXCEPT !.at = at])
Finish(c) == To(c, Null)

Store == <<status, member, rules, groups, inGroup, external, pref, torn>>

Begin(c, call) ==
    /\ calls[c] = Null /\ call.op \in scene.ops
    /\ left > 0 /\ left' = left - 1
    /\ To(c, call)
    /\ UNCHANGED <<scene, Store>>

CallMember(c) ==
    \E u \in scene.by, who \in scene.who, w \in scene.ws, role \in Roles :
        \/ Begin(c, [Idle EXCEPT !.op = "put", !.by = u, !.ws = w, !.who = who, !.role = role])
        \/ Begin(c, [Idle EXCEPT !.op = "delete", !.by = u, !.ws = w, !.who = who])
        \/ \E scopes \in scene.bodies :
               Begin(c, [Idle EXCEPT !.op = "replace", !.by = u, !.ws = w, !.who = who,
                                     !.role = role, !.scopes = scopes, !.todo = scopes])

CallGroup(c) ==
    \E u \in scene.by, w \in scene.ws, g \in Groups :
        \/ \E op \in {"group archive", "group create"} :
               IsAdmin(u) /\ Begin(c, [Idle EXCEPT !.op = op, !.by = u, !.who = g])
        \/ \E us \in SUBSET scene.who :
               IsAdmin(u) /\ Begin(c, [Idle EXCEPT !.op = "group members", !.by = u, !.who = g, !.users = us])
        \/ \E scopes \in scene.bodies, role \in Roles :
               Begin(c, [Idle EXCEPT !.op = "group access", !.by = u, !.ws = w, !.who = g,
                                     !.role = role, !.scopes = scopes])

CallWorkspace(c) ==
    \E u \in scene.by, w \in scene.ws :
        \/ Begin(c, [Idle EXCEPT !.op = "default", !.by = u, !.ws = w])
        \/ \E op \in {"workspace create", "workspace archive"} :
               IsAdmin(u) /\ Begin(c, [Idle EXCEPT !.op = op, !.by = u, !.ws = w])

-----------------------------------------------------------------------------
(* Checks. Each is a statement; a call that fails one is answered an error.  *)

Check(c, at, passes, next) ==
    /\ At(c, at)
    /\ IF passes THEN To(c, next) ELSE Finish(c)
    /\ UNCHANGED <<scene, left, Store>>

CheckCaller(c) ==
    LET call == calls[c]
        role == EffectiveRole(call.by, call.ws)
        next == CASE call.op \in {"put", "replace", "group access"} -> "target"
                  [] call.op \in {"delete", "workspace archive"} -> "managers"
                  [] OTHER -> "write"
        passes ==
            CASE call.op \in {"put", "delete"} ->
                     status[call.ws] # "none" /\ (IsAdmin(call.by) \/ AtLeast(role, "MANAGER"))
              [] call.op \in {"replace", "group access"} -> AtLeast(role, "MANAGER")
              [] call.op = "default" -> AtLeast(role, "VIEWER")
              [] call.op = "workspace archive" -> status[call.ws] # "none"
              [] call.op = "group members" -> groups[call.who] = "ACTIVE"
              [] call.op = "group archive" -> groups[call.who] # "none"
              [] OTHER -> TRUE
    IN Check(c, "caller", passes, [call EXCEPT !.at = next])

NoExternalManager(call) == ~(call.who \in external /\ call.role = "MANAGER")

CheckTarget(c) ==
    LET call == calls[c]
    IN \/ Is(c, {"put"}) /\ Check(c, "target", NoExternalManager(call), [call EXCEPT !.at = "existing"])
       \/ Is(c, {"replace"}) /\
              Check(c, "target", member[call.ws][call.who] # Null /\ ~IsAdmin(call.who) /\ NoExternalManager(call),
                    [call EXCEPT !.at = "grant", !.saw = member[call.ws][call.who]])
       \/ Is(c, {"group access"}) /\ Check(c, "target", groups[call.who] = "ACTIVE", [call EXCEPT !.at = "write"])

CountManagers(c) ==
    LET call == calls[c]
        managers == {u \in Users : member[call.ws][u] = "MANAGER"}
        active == {w \in Workspaces : status[w] = "ACTIVE"}
    IN \/ Is(c, {"delete"}) /\
              Check(c, "managers", TRUE, [call EXCEPT !.at = "existing", !.count = Cardinality(managers)])
       \/ Is(c, {"workspace archive"}) /\
              Check(c, "managers", Cardinality(active) > 1, [call EXCEPT !.at = "write"])

ReadExisting(c) ==
    LET call == calls[c]
        target == Membership(call.who, call.ws)
    IN \/ Is(c, {"put"}) /\
              Check(c, "existing", TRUE, [call EXCEPT !.at = "write", !.saw = member[call.ws][call.who]])
       \/ Is(c, {"delete"}) /\
              Check(c, "existing", target # Null /\ ~(target = "MANAGER" /\ call.count <= 1),
                    [call EXCEPT !.at = "write"])

\* Faulty variant: a rule on a folder covers its parents too.
CanGrantAbove(u, w, scope) ==
    \/ IsAdmin(u)
    \/ \E r \in rules : r.ws = w /\ r.who = u /\ r.perm = "MANAGE" /\
           \/ r.scope.type = "WORKSPACE"
           \/ r.scope = scope
           \/ {r.scope.type, scope.type} = {"FOLDER"} /\ scope.of \in Above[r.scope.of]

\* callerCanGrantScope: the caller's own rules, those of his groups count for a
\* file only.
CanGrant(u, w, scope) ==
    LET own == {r.scope : r \in {r \in rules : r.ws = w /\ r.who = u /\ r.perm = "MANAGE"}}
    IN \/ IsAdmin(u)
       \/ scope.type = "FILE" /\ FileAccess(u, scope.of, "MANAGER")
       \/ scope.type # "FILE" /\
              \/ \E s \in own : s.type = "WORKSPACE"
              \/ scope.type = "STORAGE" /\ scope \in own
              \/ scope.type = "FOLDER" /\ \E s \in own : s.type = "FOLDER" /\ s.of \in Above[scope.of]

FilesIn(w, scope) == {f \in Files : FileAt[f].ws = w /\ InScope(scope, f)}

CheckGrant(c) ==
    At(c, "grant") /\ \E scope \in calls[c].todo :
        LET call == calls[c]
            todo == call.todo \ {scope}
            managed == {f \in Files : FileAccess(call.by, f, "MANAGER")}
        IN Check(c, "grant", CanGrant(call.by, call.ws, scope) /\
                             (scope.type = "FILE" => FileAt[scope.of].ws = call.ws),
                 [call EXCEPT !.todo = todo, !.at = IF todo = {} THEN "write" ELSE "grant",
                              !.granted = @ \cup managed])

-----------------------------------------------------------------------------
(* Writes. The batch of a call on a member is done whole or not at all.      *)

Whole == [type |-> "WORKSPACE", of |-> Null]

RuleOf(w, who, scope, role) == [ws |-> w, who |-> who, scope |-> scope, perm |-> PermissionFor(role)]

Own(call) == {r \in rules : r.ws = call.ws /\ r.who = call.who}

\* Calls on the same member that have read it find it written.
Overtakes(c) ==
    [k \in Slots |->
        IF k = c THEN Null
        ELSE IF calls[k] # Null /\ calls[k].op \in MemberOps /\ calls[k].ws = calls[c].ws
                /\ calls[k].who = calls[c].who /\ calls[k].at \in {"grant", "write"}
        THEN [calls[k] EXCEPT !.raced = TRUE] ELSE calls[k]]

WriteMember(c, role, itsRules) ==
    LET call == calls[c]
        row == <<call.ws, call.who>>
    IN /\ member' = [member EXCEPT ![call.ws][call.who] = role]
       /\ rules' = (rules \ Own(call)) \cup itsRules
       /\ torn' = IF call.op # "put" /\ (call.op = "delete" \/ ~call.raced) THEN torn \ {row}
                  ELSE IF call.raced THEN torn \cup {row} ELSE torn
       /\ calls' = Overtakes(c)
       /\ UNCHANGED <<scene, left, status, groups, inGroup, external, pref>>

\* Faulty variant: the rules of a member keep their permission.
PutKeepingRules(call) ==
    Own(call) \cup (IF call.saw = Null THEN {RuleOf(call.ws, call.who, Whole, call.role)} ELSE {})

\* A new member gets a rule on the whole workspace; of an old one, each rule
\* gets the permission of the role.
PutRules(call) ==
    IF call.saw = Null THEN Own(call) \cup {RuleOf(call.ws, call.who, Whole, call.role)}
    ELSE {RuleOf(call.ws, call.who, r.scope, call.role) : r \in Own(call)}

\* Faulty variant: no unique index on the rules.
PutGoesThrough(call) == FALSE

\* A second rule on the whole workspace breaks the unique index.
PutFails(call) == call.saw = Null /\ \E r \in Own(call) : r.scope = Whole

PutMember(c) ==
    /\ Is(c, {"put"}) /\ At(c, "write")
    /\ IF PutFails(calls[c]) THEN Finish(c) /\ UNCHANGED <<scene, left, Store>>
       ELSE WriteMember(c, calls[c].role, PutRules(calls[c]))

DeleteMember(c) ==
    /\ Is(c, {"delete"}) /\ At(c, "write")
    /\ WriteMember(c, Null, {})

\* The role is set by an UPDATE, which finds nobody when the member has gone.
ReplaceAccess(c) ==
    /\ Is(c, {"replace"}) /\ At(c, "write")
    /\ LET call == calls[c]
           role == IF member[call.ws][call.who] = Null THEN Null ELSE call.role
       IN WriteMember(c, role, {RuleOf(call.ws, call.who, s, call.role) : s \in call.scopes})

WriteGroup(c) ==
    /\ At(c, "write")
    /\ LET call == calls[c]
       IN \/ /\ call.op = "group members"
             /\ inGroup' = [inGroup EXCEPT ![call.who] = call.users]
             /\ UNCHANGED <<rules, groups>>
          \/ /\ call.op = "group access"
             /\ rules' = (rules \ Own(call)) \cup
                         {RuleOf(call.ws, call.who, s, call.role) : s \in call.scopes}
             /\ UNCHANGED <<inGroup, groups>>
          \/ /\ call.op = "group archive"
             /\ groups' = [groups EXCEPT ![call.who] = "ARCHIVED"]
             /\ UNCHANGED <<rules, inGroup>>
          \/ /\ call.op = "group create" /\ groups[call.who] = "none"
             /\ groups' = [groups EXCEPT ![call.who] = "ACTIVE"]
             /\ UNCHANGED <<rules, inGroup>>
    /\ Finish(c)
    /\ UNCHANGED <<scene, left, status, member, external, pref, torn>>

CreateWorkspace(c) ==
    /\ Is(c, {"workspace create"}) /\ At(c, "write")
    /\ LET w == calls[c].ws
           by == calls[c].by
       IN /\ status[w] = "none"
          /\ status' = [status EXCEPT ![w] = "ACTIVE"]
          /\ member' = [member EXCEPT ![w][by] = "MANAGER"]
          /\ rules' = rules \cup {RuleOf(w, by, Whole, "MANAGER")}
    /\ Finish(c)
    /\ UNCHANGED <<scene, left, groups, inGroup, external, pref, torn>>

ArchiveWorkspace(c) ==
    /\ Is(c, {"workspace archive"}) /\ At(c, "write")
    /\ status' = [status EXCEPT ![calls[c].ws] = "ARCHIVED"]
    /\ Finish(c)
    /\ UNCHANGED <<scene, left, member, rules, groups, inGroup, external, pref, torn>>

setDefaultWorkspace(u, w) == pref' = [pref EXCEPT ![u] = w]
SetDefault(c) ==
    /\ Is(c, {"default"}) /\ At(c, "write")
    /\ setDefaultWorkspace(calls[c].by, calls[c].ws)
    /\ Finish(c)
    /\ UNCHANGED <<scene, left, status, member, rules, groups, inGroup, external, torn>>

\* The account policy of a user (module Accounts) looks at no membership.
SetPolicy(u) ==
    /\ left > 0 /\ left' = left - 1
    /\ external' = IF u \in external THEN external \ {u} ELSE external \cup {u}
    /\ UNCHANGED <<scene, status, member, rules, groups, inGroup, pref, torn, calls>>

-----------------------------------------------------------------------------
Step(c) ==
    \/ CallMember(c) \/ CallGroup(c) \/ CallWorkspace(c)
    \/ CheckCaller(c) \/ CheckTarget(c) \/ CountManagers(c) \/ ReadExisting(c) \/ CheckGrant(c)
    \/ PutMember(c) \/ DeleteMember(c) \/ ReplaceAccess(c) \/ WriteGroup(c)
    \/ CreateWorkspace(c) \/ ArchiveWorkspace(c) \/ SetDefault(c)

Next == (\E c \in Slots : Step(c)) \/ (\E u \in ExternalUsers : SetPolicy(u))

Init ==
    /\ scene \in Scenarios /\ left = scene.calls
    /\ status \in [Workspaces -> {"none", "ACTIVE"}]
    /\ \E w \in Workspaces : status[w] = "ACTIVE"
    /\ member \in [Workspaces -> [Users -> Roles \cup {Null}]]
    /\ \A w \in Workspaces : status[w] = "none" => \A u \in Users : member[w][u] = Null
    /\ rules = {r \in [ws : Workspaces, who : Users, scope : {Whole}, perm : Permissions] :
                   member[r.ws][r.who] # Null /\ r.perm = PermissionFor(member[r.ws][r.who])}
    /\ groups = [g \in Groups |-> "none"]
    /\ inGroup = [g \in Groups |-> {}]
    /\ external = {} /\ torn = {}
    /\ pref = [u \in Users |-> Null]
    /\ calls = [c \in Slots |-> Null]

Spec == Init /\ [][Next]_vars

-----------------------------------------------------------------------------
(* Properties. *)

\* In an active workspace the listings, the search, the activity log, the files
\* offered to a manager and the check of a path agree with resolveFileAccess about
\* who may do what, though each asks with a query of its own; and a default
\* workspace is one that the user is shown and can use.
ReadersAgree ==
    \A u \in Users :
        /\ UsableBy(u) = {w \in Shown(u) : status[w] = "ACTIVE"}
        /\ DefaultOf(u) \subseteq UsableBy(u) \cup {Null}
        /\ \A f \in Files :
               LET at == FileAt[f]
               IN status[at.ws] = "ACTIVE" =>
                   /\ Listed(u, f) <=> FileAccess(u, f, "VIEWER")
                   /\ Searched(u, f) <=> Listed(u, f)
                   /\ SeesEvent(u, at.ws, f) => SeesEvent(u, at.ws, Null)
                   /\ Offered(u, f) <=> FileAccess(u, f, "MANAGER")
                   /\ \A role \in Roles :
                          FileAccess(u, f, role)
                              <=> CanCreateAt(u, at.ws, at.folders, at.storage, f, role)

\* The rules of a member carry the permission of the role, a member has at least
\* one, and who is not a member has none, unless calls on the member overlapped
\* (enterprise.ts, the handlers of members and of resource access).
RulesFollowMembers ==
    \A w \in Workspaces, u \in Users : <<w, u>> \notin torn =>
        LET own == {r \in rules : r.ws = w /\ r.who = u}
        IN IF member[w][u] = Null THEN own = {}
           ELSE own # {} /\ \A r \in own : r.perm = PermissionFor(member[w][u])

\* Nobody is given more than the giver manages: the scopes about to be written
\* cover files that the caller managed when they were checked (enterprise.ts,
\* callerCanGrantScope).
GrantsAreContained ==
    \A c \in Slots : Is(c, {"replace"}) /\ At(c, "write") =>
        \A s \in calls[c].scopes : FilesIn(calls[c].ws, s) \subseteq calls[c].granted

\* An external collaborator manages no workspace. Only the handlers that give
\* the role look at the account type.
ExternalIsNoManager ==
    \A w \in Workspaces, u \in external : member[w][u] # "MANAGER"

\* A workspace that had a manager keeps one.
ManagerRemains ==
    [][\A w \in Workspaces :
        (\E u \in Users : member[w][u] = "MANAGER") => (\E u \in Users : member'[w][u] = "MANAGER")]_vars
-----------------------------------------------------------------------------
(* The inductive invariant. *)

\* A workspace that is not yet created has no members and no rules.
NothingBefore ==
    \A w \in Workspaces : status[w] = "none" =>
        (\A u \in Users : member[w][u] = Null) /\ (\A r \in rules : r.ws # w)

\* A call past its first check is about a workspace that exists; one on a member that
\* no other call has overtaken knows the member; what is replaced was asked for and
\* checked scope by scope.
CallOK(call) ==
    /\ call.op \in MemberOps => call.who \in Users
    /\ call.op \in {"put", "replace"} => call.role \in Roles
    /\ call.op \in {"group members", "group access", "group archive", "group create"} => call.who \in Groups
    /\ call.op \in MemberOps \cup {"group access", "workspace archive"} /\ call.at # "caller" =>
           status[call.ws] # "none"
    /\ call.at = "grant" => call.op = "replace"
    /\ call.op = "put" /\ call.at = "write" /\ ~call.raced => call.saw = member[call.ws][call.who]
    /\ call.op = "replace" =>
           /\ call.at \in {"caller", "target"} => call.todo = call.scopes
           /\ call.at \in {"grant", "write"} =>
                  /\ call.todo \subseteq call.scopes
                  /\ ~call.raced => call.saw = member[call.ws][call.who] /\ call.saw # Null
           /\ call.at = "write" => call.todo = {} /\ call.scopes # {}

IInv ==
    /\ TypeOK /\ NothingBefore /\ RulesFollowMembers
    /\ \A c \in Slots : calls[c] # Null => CallOK(calls[c])

\* What the calls have checked so far is of files that the caller managed.
CheckedIsManaged ==
    \A c \in Slots : Is(c, {"replace"}) /\ calls[c].at \in {"grant", "write"} =>
        \A s \in calls[c].scopes \ calls[c].todo : FilesIn(calls[c].ws, s) \subseteq calls[c].granted

=============================================================================
