------------------------------ MODULE Accounts ------------------------------
(* Users, invites, sessions, devices and the throttle of failed attempts, in *)
(* the Worker: index.ts (requireAuth, sign-in, bootstrap), enterprise.ts     *)
(* (activation, invites, the administration of users) and collaboration.ts   *)
(* (devices and their sign-outs). A call is a slot; each statement or batch  *)
(* it awaits is a step, and what it has read travels in the slot.            *)
(* A user id and a username are one name, because the username is unique.    *)
(* Passwords, audit rows and presence are left out; `status`, which follows  *)
(* lifecycle_status in every statement, is not kept apart.                   *)
EXTENDS Naturals, FiniteSets

CONSTANTS
    Users,        \* usernames
    Devices,      \* stable device ids
    Sessions,     \* names of session rows; the name of a dead row is used again
    Invites,      \* invite codes
    Slots,        \* calls the Worker runs at a time
    Null,
    Limit,        \* LOGIN_USER_FAILURE_LIMIT, and the like, of each throttle key
    MaxClock,     \* the clock ticks once per window of 15 minutes
    Scenarios     \* each bounds a behaviour: the operations called, on which users
                  \* and devices, how many calls, and whether the clock ticks

Statuses == {"ACTIVE", "SUSPENDED", "DEACTIVATED"}
Roles == {"OWNER", "ADMIN", "MEMBER"}
Until == 1 .. MaxClock + 1
ActivationKey == "activation ip"
Keys == Users \cup {"login ip", ActivationKey}
AdminOps == {"lifecycle", "force", "role", "policy"}
InviteOps == {"create", "revoke", "regenerate"}
SignOuts == {"logout", "device", "others", "all"}
Entries == {"login", "activate", "bootstrap"}
Ops == Entries \cup SignOuts \cup AdminOps \cup InviteOps
\* The statement a call is at.
Stages == {"auth", "seen", "go", "throttle", "read", "fail", "count", "lapse",
           "clear", "device", "upsert", "session", "revoke", "mark", "legacy", "done",
           "apply", "unmark", "withdraw", "issue", "expire", "exists", "join",
           "count users", "nonce", "found"}
Scenario == [ops : SUBSET Ops, users : SUBSET Users, devices : SUBSET (Devices \cup {Null}),
             calls : Nat, ticks : BOOLEAN]

ASSUME AccountsAssumption ==
    /\ Null \notin Users \cup Devices \cup Sessions \cup Invites \cup Keys \cup Statuses \cup Roles
    /\ Limit \in [Keys -> Nat \ {0}]
    /\ MaxClock \in Nat
    /\ Scenarios \subseteq Scenario

VARIABLES
    clock,
    scene, left,  \* the scenario, and the calls it still has
    users,        \* the row of each username, or Null
    devices,      \* devices[u][d]: status of the row, or "none"
    sessions, invites,
    throttle,     \* the app_settings row of each key, or Null
    failed,       \* ghost: failures recorded under each key in this window
    nonce,        \* setup_nonce_hash is there
    calls

vars == <<clock, scene, left, users, devices, sessions, invites, throttle, failed, nonce, calls>>

Account == [status : Statuses, sys : Roles, external : BOOLEAN,
            expires : Until \cup {Null}, from : Invites \cup {Null}]
SessionRow == [user : Users, dev : Devices \cup {Null}, live : BOOLEAN,
               until : Until, raced : BOOLEAN]
Invite == [name : Users, status : {"PENDING", "USED", "REVOKED", "EXPIRED"},
           until : Until, external : BOOLEAN, expires : Until \cup {Null}]
Count == [n : Nat, start : 0 .. MaxClock, until : 0 .. MaxClock + 1]

\* `by` is the user who calls and `sys` the role requireAuth read for it; `acc`,
\* `row`, `list`, `known` are what the handler read of a user, a throttle row,
\* the devices and the device row. `raced`: the user was disabled after a
\* sign-in read it. `before`: the sessions there when a sign-out began.
Call == [op : Ops, at : Stages, sid : Sessions \cup {Null}, by : Users \cup {Null},
         sys : Roles \cup {Null}, tgt : Users \cup {Null}, dev : Devices \cup {Null},
         inv : Invites \cup {Null}, key : Keys \cup {Null},
         status : Statuses \cup {Null}, role : Roles \cup {Null}, external : BOOLEAN,
         expires : Until \cup {Null}, acc : Account \cup {Null}, row : Count \cup {Null},
         now : 0 .. MaxClock, list : SUBSET Devices, known : BOOLEAN,
         good : BOOLEAN, raced : BOOLEAN, before : SUBSET Sessions]

ASSUME NullAssumption == Null \notin Account \cup SessionRow \cup Invite \cup Count \cup Call

TypeOK ==
    /\ clock \in 0 .. MaxClock
    /\ scene \in Scenarios
    /\ left \in 0 .. scene.calls
    /\ users \in [Users -> Account \cup {Null}]
    /\ devices \in [Users -> [Devices -> {"none", "ACTIVE", "REVOKED"}]]
    /\ sessions \in [Sessions -> SessionRow \cup {Null}]
    /\ \A s \in Sessions : sessions[s] # Null => users[sessions[s].user] # Null
    /\ \A s \in Sessions : sessions[s] # Null /\ sessions[s].dev # Null =>
           devices[sessions[s].user][sessions[s].dev] # "none"
    /\ invites \in [Invites -> Invite \cup {Null}]
    /\ throttle \in [Keys -> Count \cup {Null}]
    /\ failed \in [Keys -> Nat]
    /\ nonce \in BOOLEAN
    /\ calls \in [Slots -> Call \cup {Null}]

NewAccount(sys, external, expires, from) ==
    [status |-> "ACTIVE", sys |-> sys, external |-> external, expires |-> expires, from |-> from]

Init ==
    /\ clock = 0 /\ nonce = TRUE
    /\ scene \in Scenarios /\ left = scene.calls
    /\ users = [u \in Users |-> Null]
    /\ devices = [u \in Users |-> [d \in Devices |-> "none"]]
    /\ sessions = [s \in Sessions |-> Null]
    /\ invites = [i \in Invites |-> Null]
    /\ throttle = [k \in Keys |-> Null]
    /\ failed = [k \in Keys |-> 0]
    /\ calls = [c \in Slots |-> Null]

-----------------------------------------------------------------------------
(* Rows. *)

Live(s) == sessions[s] # Null /\ sessions[s].live
Valid(s) == Live(s) /\ sessions[s].until > clock
Lapsed(acc) == acc.expires # Null /\ acc.expires <= clock
Active(u) == users[u] # Null /\ users[u].status = "ACTIVE"

\* UPDATE sessions SET revoked_at ... of the sessions of u on the devices devs;
\* Null stands for the sessions that have no device.
Revoked(u, devs) ==
    [s \in Sessions |->
        IF Live(s) /\ sessions[s].user = u /\ sessions[s].dev \in devs
        THEN [sessions[s] EXCEPT !.live = FALSE] ELSE sessions[s]]

AnyDevice == Devices \cup {Null}

MarkRevoked(u, list) ==
    [devices EXCEPT ![u] = [d \in Devices |->
        IF d \in list /\ devices[u][d] # "none" THEN "REVOKED" ELSE devices[u][d]]]

Free(s) ==
    /\ sessions[s] = Null \/ ~Valid(s)
    /\ \A c \in Slots : calls[c] # Null => calls[c].sid # s /\ s \notin calls[c].before

-----------------------------------------------------------------------------
(* Calls. *)

Idle == [op |-> "logout", at |-> "auth", sid |-> Null, by |-> Null, sys |-> Null,
         tgt |-> Null, dev |-> Null, inv |-> Null, key |-> Null, status |-> Null,
         role |-> Null, external |-> FALSE, expires |-> Null, acc |-> Null,
         row |-> Null, now |-> 0, list |-> {}, known |-> FALSE, good |-> TRUE,
         raced |-> FALSE, before |-> {}]

At(c, at) == calls[c] # Null /\ calls[c].at = at
To(c, call) == calls' = [calls EXCEPT ![c] = call]
Goto(c, at) == To(c, [calls[c] EXCEPT !.at = at])
Finish(c) == To(c, Null)

Begin(c, call) ==
    /\ calls[c] = Null /\ call.op \in scene.ops
    /\ left > 0 /\ left' = left - 1
    /\ To(c, call)

-----------------------------------------------------------------------------
(* The throttle of failed attempts: the one of sign-ins has two keys, the    *)
(* one of activations has one.                                               *)

Stale(row, now) == row # Null /\ row.start < now /\ row.until <= now

\* loadLoginThrottle and loadInviteActivationThrottle: a row out of its window is deleted.
Loaded(k, now) == IF Stale(throttle[k], now) THEN Null ELSE throttle[k]

KeysOf(call) == IF call.op = "login" THEN {call.tgt, "login ip"} ELSE {ActivationKey}
Blocked(k, now) == throttle[k] # Null /\ throttle[k].until > now

\* Faulty variant: the attempt under way is counted as well as its failure.
CountedEarly(row, now, limit) ==
    LET n == IF row # Null /\ row.start >= now THEN row.n + 1 ELSE 1
    IN [n |-> n, start |-> now, until |-> IF n + 1 >= limit THEN now + 1 ELSE 0]

Counted(row, now, limit) ==
    LET same == row # Null /\ row.start >= now
        n == IF same THEN row.n + 1 ELSE 1
    IN [n |-> n, start |-> IF same THEN row.start ELSE now,
        until |-> IF n >= limit THEN now + 1 ELSE 0]

AssertNotThrottled(c) ==
    /\ At(c, "throttle")
    /\ throttle' = [k \in Keys |->
           IF k \in KeysOf(calls[c]) THEN Loaded(k, clock) ELSE throttle[k]]
    /\ IF \E k \in KeysOf(calls[c]) : Blocked(k, clock)
       THEN Finish(c) ELSE Goto(c, "read")
    /\ UNCHANGED <<clock, scene, left, users, devices, sessions, invites, failed, nonce>>

Fail(c, key) == To(c, [calls[c] EXCEPT !.at = "fail", !.key = key, !.now = clock])

LoadFailures(c) ==
    /\ At(c, "fail")
    /\ LET k == calls[c].key
           row == Loaded(k, calls[c].now)
       IN /\ throttle' = [throttle EXCEPT ![k] = row]
          /\ To(c, [calls[c] EXCEPT !.at = "count", !.row = row])
    /\ UNCHANGED <<clock, scene, left, users, devices, sessions, invites, failed, nonce>>

RecordFailure(c) ==
    /\ At(c, "count")
    /\ LET call == calls[c]
           k == call.key
           row == Counted(call.row, call.now, Limit[k])
       IN /\ throttle' = [throttle EXCEPT ![k] = row]
          /\ failed' = [failed EXCEPT ![k] = IF row.start = clock THEN @ + 1 ELSE @]
          /\ IF k \in Users
             THEN To(c, [call EXCEPT !.at = "fail", !.key = "login ip", !.row = Null])
             ELSE Finish(c)
    /\ UNCHANGED <<clock, scene, left, users, devices, sessions, invites, nonce>>

-----------------------------------------------------------------------------
(* A user who is disabled: by an administrator, or when access has expired.  *)

RacingEntry(call, u) == call.op \in Entries /\ call.tgt = u /\ call.acc # Null

Marked(u, call) == IF call # Null /\ RacingEntry(call, u) THEN [call EXCEPT !.raced = TRUE] ELSE call

\* Faulty variant: the statement on the sessions is dropped from the batch.
DisableUserOnly(c, u, status) ==
    /\ users' = [users EXCEPT ![u].status = status]
    /\ UNCHANGED sessions
    /\ calls' = [k \in Slots |-> IF k = c THEN Null ELSE Marked(u, calls[k])]

Disable(c, u, status) ==
    /\ users' = [users EXCEPT ![u].status = status]
    /\ sessions' = Revoked(u, AnyDevice)
    /\ calls' = [k \in Slots |-> IF k = c THEN Null ELSE Marked(u, calls[k])]

Lapse(c) ==
    /\ At(c, "lapse")
    /\ Disable(c, IF calls[c].op = "login" THEN calls[c].tgt ELSE calls[c].by, "SUSPENDED")
    /\ UNCHANGED <<clock, scene, left, devices, invites, throttle, failed, nonce>>

-----------------------------------------------------------------------------
(* Sign-in: handleLogin and sessionResponse with upsertLoginDevice.          *)

Login(c) ==
    /\ \E u \in scene.users, d \in scene.devices, good \in BOOLEAN :
           Begin(c, [Idle EXCEPT !.op = "login", !.at = "throttle", !.tgt = u,
                                 !.dev = d, !.good = good])
    /\ UNCHANGED <<clock, scene, users, devices, sessions, invites, throttle, failed, nonce>>

LoginRead(c) ==
    /\ At(c, "read") /\ calls[c].op = "login"
    /\ LET u == calls[c].tgt
       IN IF calls[c].good /\ Active(u)
          THEN To(c, [calls[c] EXCEPT !.at = "clear", !.acc = users[u]])
          ELSE Fail(c, u)
    /\ UNCHANGED <<clock, scene, left, users, devices, sessions, invites, throttle, failed, nonce>>

ClearThrottle(c) ==
    /\ At(c, "clear")
    /\ LET call == calls[c]
           login == call.op = "login"
       IN /\ throttle' = [throttle EXCEPT ![IF login THEN call.tgt ELSE ActivationKey] = Null]
          /\ Goto(c, IF login /\ Lapsed(call.acc) THEN "lapse"
                     ELSE IF call.dev = Null THEN "session" ELSE "device")
    /\ UNCHANGED <<clock, scene, left, users, devices, sessions, invites, failed, nonce>>

ReadDevice(c) ==
    /\ At(c, "device")
    /\ To(c, [calls[c] EXCEPT !.at = "upsert",
                              !.known = devices[calls[c].tgt][calls[c].dev] # "none"])
    /\ UNCHANGED <<clock, scene, left, users, devices, sessions, invites, throttle, failed, nonce>>

\* Faulty variant: the row is updated, and not inserted when there is none.
UpdateDevice(c) ==
    /\ At(c, "upsert")
    /\ LET call == calls[c]
       IN /\ devices' = [devices EXCEPT ![call.tgt][call.dev] = IF @ = "none" THEN @ ELSE "ACTIVE"]
          /\ To(c, [call EXCEPT !.at = "session", !.known = TRUE])
    /\ UNCHANGED <<clock, scene, left, users, sessions, invites, throttle, failed, nonce>>

\* The row keeps its id on a conflict: the id drawn by a call that had found no
\* row is then an id of nothing.
UpsertDevice(c) ==
    /\ At(c, "upsert")
    /\ LET call == calls[c]
       IN /\ devices' = [devices EXCEPT ![call.tgt][call.dev] = "ACTIVE"]
          /\ To(c, [call EXCEPT !.at = "session",
                                !.known = @ \/ devices[call.tgt][call.dev] = "none"])
    /\ UNCHANGED <<clock, scene, left, users, sessions, invites, throttle, failed, nonce>>

\* The batch fails on the foreign key of an id of nothing.
OpenSession(c) ==
    /\ At(c, "session")
    /\ LET call == calls[c]
       IN IF call.dev # Null /\ ~call.known THEN UNCHANGED sessions
          ELSE \E s \in Sessions : Free(s) /\
                   sessions' = [sessions EXCEPT ![s] =
                       [user |-> call.tgt, dev |-> call.dev, live |-> TRUE,
                        until |-> clock + 1, raced |-> call.raced]]
    /\ Finish(c)
    /\ UNCHANGED <<clock, scene, left, users, devices, invites, throttle, failed, nonce>>

-----------------------------------------------------------------------------
(* Calls under a session: requireAuth comes first.                           *)

Signed(c, op, call) ==
    \E s \in Sessions :
        /\ Live(s)
        /\ Begin(c, [call EXCEPT !.op = op, !.sid = s, !.by = sessions[s].user])

ReadSession(c) ==
    /\ At(c, "auth")
    /\ LET s == calls[c].sid
           acc == users[calls[c].by]
       IN IF ~Valid(s) \/ acc.status # "ACTIVE" THEN Finish(c)
          ELSE To(c, [calls[c] EXCEPT !.sys = acc.sys,
                                      !.at = IF Lapsed(acc) THEN "lapse" ELSE "seen"])
    /\ UNCHANGED <<clock, scene, left, users, devices, sessions, invites, throttle, failed, nonce>>

Seen(c) ==
    /\ At(c, "seen")
    /\ LET s == sessions[calls[c].sid]
       IN devices' = IF s.dev = Null THEN devices
                     ELSE [devices EXCEPT ![s.user][s.dev] = "ACTIVE"]
    /\ Goto(c, "go")
    /\ UNCHANGED <<clock, scene, left, users, sessions, invites, throttle, failed, nonce>>

-----------------------------------------------------------------------------
(* Signing out: one session, one device, the other devices, all devices.     *)

SignOut(c) ==
    /\ \/ \E op \in SignOuts \ {"device"} : Signed(c, op, Idle)
       \/ \E d \in scene.devices \ {Null} : Signed(c, "device", [Idle EXCEPT !.dev = d])
    /\ UNCHANGED <<clock, scene, users, devices, sessions, invites, throttle, failed, nonce>>

Logout(c) ==
    /\ At(c, "go") /\ calls[c].op = "logout"
    /\ sessions' = [sessions EXCEPT ![calls[c].sid].live = FALSE]
    /\ Finish(c)
    /\ UNCHANGED <<clock, scene, left, users, devices, invites, throttle, failed, nonce>>

OwnDevice(call) == sessions[call.sid].dev

\* The devices a sign-out is about.
Listed(call) ==
    LET rows == {d \in Devices : devices[call.by][d] # "none"}
    IN CASE call.op = "device" -> rows \cap {call.dev}
         [] call.op = "others" -> rows \ {OwnDevice(call)}
         [] OTHER -> rows

ListDevices(c) ==
    /\ At(c, "go") /\ calls[c].op \in SignOuts \ {"logout"}
    /\ IF Listed(calls[c]) = {} /\ calls[c].op = "device" THEN Finish(c)
       ELSE To(c, [calls[c] EXCEPT !.at = "revoke", !.list = Listed(calls[c]),
                       !.before = {s \in Sessions : Live(s) /\ sessions[s].user = calls[c].by}])
    /\ UNCHANGED <<clock, scene, left, users, devices, sessions, invites, throttle, failed, nonce>>

\* revokeDeviceSessions, its two statements.
RevokeListed(c) ==
    /\ At(c, "revoke")
    /\ sessions' = Revoked(calls[c].by, calls[c].list)
    /\ Goto(c, "mark")
    /\ UNCHANGED <<clock, scene, left, users, devices, invites, throttle, failed, nonce>>

MarkListed(c) ==
    /\ At(c, "mark")
    /\ devices' = MarkRevoked(calls[c].by, calls[c].list)
    /\ Goto(c, IF calls[c].op = "device" THEN "done" ELSE "legacy")
    /\ UNCHANGED <<clock, scene, left, users, sessions, invites, throttle, failed, nonce>>

\* Faulty variant: only signing out all devices ends the sessions without one.
LegacyOfAll(call) == call.op = "all"

\* Signing out the others leaves sessions without a device alone when the
\* caller's own has none.
LegacyToo(call) == call.op = "all" \/ OwnDevice(call) # Null

RevokeLegacy(c) ==
    /\ At(c, "legacy")
    /\ sessions' = IF LegacyToo(calls[c]) THEN Revoked(calls[c].by, {Null}) ELSE sessions
    /\ Goto(c, "done")
    /\ UNCHANGED <<clock, scene, left, users, devices, invites, throttle, failed, nonce>>

Answer(c) ==
    /\ At(c, "done")
    /\ Finish(c)
    /\ UNCHANGED <<clock, scene, left, users, devices, sessions, invites, throttle, failed, nonce>>

-----------------------------------------------------------------------------
(* Administration of users. *)

Admin(call) == call.sys \in {"OWNER", "ADMIN"}

Administer(c) ==
    /\ \E u \in scene.users :
        \/ \E status \in Statuses : Signed(c, "lifecycle", [Idle EXCEPT !.tgt = u, !.status = status])
        \/ Signed(c, "force", [Idle EXCEPT !.tgt = u])
        \/ \E role \in {"ADMIN", "MEMBER"} : Signed(c, "role", [Idle EXCEPT !.tgt = u, !.role = role])
        \/ \E external \in BOOLEAN, expires \in {Null, clock + 1} :
               Signed(c, "policy", [Idle EXCEPT !.tgt = u, !.external = external, !.expires = expires])
    /\ UNCHANGED <<clock, scene, users, devices, sessions, invites, throttle, failed, nonce>>

Allowed(call, acc) ==
    /\ Admin(call) /\ acc # Null
    /\ call.op = "lifecycle" =>
           /\ acc.sys = "OWNER" => call.tgt = call.by
           /\ call.tgt = call.by => call.status = "ACTIVE"
    /\ call.op = "force" /\ acc.sys = "OWNER" => call.sys = "OWNER"
    /\ call.op = "role" =>
           /\ call.sys = "OWNER" /\ call.tgt # call.by /\ acc.sys # "OWNER"
           /\ ~(acc.external /\ call.role = "ADMIN")
    /\ call.op = "policy" =>
           /\ call.external => acc.sys = "MEMBER"
           /\ ~Lapsed(call)

ReadTarget(c) ==
    /\ At(c, "go") /\ calls[c].op \in AdminOps
    /\ IF Allowed(calls[c], users[calls[c].tgt])
       THEN To(c, [calls[c] EXCEPT !.at = "apply", !.acc = users[calls[c].tgt]]) ELSE Finish(c)
    /\ UNCHANGED <<clock, scene, left, users, devices, sessions, invites, throttle, failed, nonce>>

ApplyLifecycle(c) ==
    /\ At(c, "apply") /\ calls[c].op = "lifecycle"
    /\ LET call == calls[c]
       IN IF call.status = "ACTIVE"
          THEN /\ users' = [users EXCEPT ![call.tgt].status = "ACTIVE"]
               /\ Finish(c)
               /\ UNCHANGED <<sessions, devices>>
          ELSE /\ Disable(c, call.tgt, call.status)
               /\ devices' = MarkRevoked(call.tgt, Devices)
    /\ UNCHANGED <<clock, scene, left, invites, throttle, failed, nonce>>

ApplyForceLogout(c) ==
    /\ At(c, "apply") /\ calls[c].op = "force"
    /\ sessions' = Revoked(calls[c].tgt, AnyDevice)
    /\ To(c, [calls[c] EXCEPT !.at = "unmark"])
    /\ UNCHANGED <<clock, scene, left, users, devices, invites, throttle, failed, nonce>>

ForceDevices(c) ==
    /\ At(c, "unmark")
    /\ devices' = MarkRevoked(calls[c].tgt, Devices)
    /\ Finish(c)
    /\ UNCHANGED <<clock, scene, left, users, sessions, invites, throttle, failed, nonce>>

ApplyRole(c) ==
    /\ At(c, "apply") /\ calls[c].op = "role"
    /\ users' = [users EXCEPT ![calls[c].tgt].sys = IF @ = "OWNER" THEN @ ELSE calls[c].role]
    /\ Finish(c)
    /\ UNCHANGED <<clock, scene, left, devices, sessions, invites, throttle, failed, nonce>>

ApplyPolicy(c) ==
    /\ At(c, "apply") /\ calls[c].op = "policy"
    /\ users' = [users EXCEPT ![calls[c].tgt].external = calls[c].external,
                              ![calls[c].tgt].expires = calls[c].expires]
    /\ Finish(c)
    /\ UNCHANGED <<clock, scene, left, devices, sessions, invites, throttle, failed, nonce>>

-----------------------------------------------------------------------------
(* Invites: handleInviteCreate, handleInviteRevoke, handleInviteRegenerate.  *)

Withdrawn(i) == IF invites[i] # Null /\ invites[i].status = "PENDING"
                THEN [invites[i] EXCEPT !.status = "REVOKED"] ELSE invites[i]

ManageInvites(c) ==
    /\ \/ \E u \in scene.users, external \in BOOLEAN :
              Signed(c, "create", [Idle EXCEPT !.tgt = u, !.external = external])
       \/ \E op \in {"revoke", "regenerate"}, i \in Invites :
              invites[i] # Null /\ Signed(c, op, [Idle EXCEPT !.inv = i])
    /\ UNCHANGED <<clock, scene, users, devices, sessions, invites, throttle, failed, nonce>>

CheckInvitee(c) ==
    /\ At(c, "go") /\ calls[c].op = "create"
    /\ IF Admin(calls[c]) /\ users[calls[c].tgt] = Null THEN Goto(c, "withdraw") ELSE Finish(c)
    /\ UNCHANGED <<clock, scene, left, users, devices, sessions, invites, throttle, failed, nonce>>

\* A new code is for the invitee of the old one, whatever became of that.
CheckInvite(c) ==
    /\ At(c, "go") /\ calls[c].op \in {"revoke", "regenerate"}
    /\ IF ~Admin(calls[c]) THEN Finish(c)
       ELSE To(c, [calls[c] EXCEPT !.at = "withdraw", !.tgt = invites[calls[c].inv].name,
                                   !.external = invites[calls[c].inv].external])
    /\ UNCHANGED <<clock, scene, left, users, devices, sessions, invites, throttle, failed, nonce>>

Withdraw(c) ==
    /\ At(c, "withdraw")
    /\ LET call == calls[c]
           Old(i) == IF call.op = "create" THEN invites[i] # Null /\ invites[i].name = call.tgt
                     ELSE i = call.inv
       IN invites' = [i \in Invites |-> IF Old(i) THEN Withdrawn(i) ELSE invites[i]]
    /\ IF calls[c].op = "revoke" THEN Finish(c) ELSE Goto(c, "issue")
    /\ UNCHANGED <<clock, scene, left, users, devices, sessions, throttle, failed, nonce>>

Pending(u) == \E i \in Invites : invites[i] # Null /\ invites[i].name = u /\ invites[i].status = "PENDING"

\* The unique index on pending usernames refuses a second one.
Issue(c) ==
    /\ At(c, "issue")
    /\ LET call == calls[c]
       IN IF Pending(call.tgt) THEN UNCHANGED invites
          ELSE \E i \in Invites : invites[i] = Null /\
                   invites' = [invites EXCEPT ![i] =
                       [name |-> call.tgt, status |-> "PENDING", until |-> clock + 1,
                        external |-> call.external, expires |-> call.expires]]
    /\ Finish(c)
    /\ UNCHANGED <<clock, scene, left, users, devices, sessions, throttle, failed, nonce>>

-----------------------------------------------------------------------------
(* activateInvite: the code is right, of any status, or of no invite.        *)

Activate(c) ==
    /\ \E i \in Invites, d \in scene.devices, good \in BOOLEAN :
           /\ good => invites[i] # Null
           /\ Begin(c, [Idle EXCEPT !.op = "activate", !.at = "throttle", !.inv = i,
                                    !.dev = d, !.good = good])
    /\ UNCHANGED <<clock, scene, users, devices, sessions, invites, throttle, failed, nonce>>

ReadInvite(c) ==
    /\ At(c, "read") /\ calls[c].op = "activate"
    /\ LET invite == invites[calls[c].inv]
       IN IF ~calls[c].good \/ invite.status # "PENDING" THEN Fail(c, ActivationKey)
          ELSE To(c, [calls[c] EXCEPT !.at = IF invite.until <= clock THEN "expire" ELSE "exists",
                                      !.tgt = invite.name])
    /\ UNCHANGED <<clock, scene, left, users, devices, sessions, invites, throttle, failed, nonce>>

ExpireInvite(c) ==
    /\ At(c, "expire")
    /\ invites' = [invites EXCEPT ![calls[c].inv].status = IF @ = "PENDING" THEN "EXPIRED" ELSE @]
    /\ Finish(c)
    /\ UNCHANGED <<clock, scene, left, users, devices, sessions, throttle, failed, nonce>>

CheckUsername(c) ==
    /\ At(c, "exists")
    /\ IF users[calls[c].tgt] # Null THEN Finish(c) ELSE Goto(c, "join")
    /\ UNCHANGED <<clock, scene, left, users, devices, sessions, invites, throttle, failed, nonce>>

\* Faulty variant: the invite is not used up.
UsedUpLater(i) == invites[i]

UsedUp(i) == [invites[i] EXCEPT !.status = IF @ = "PENDING" THEN "USED" ELSE @]

\* The batch: it fails as a whole when the username is taken by now.
Join(c) ==
    /\ At(c, "join")
    /\ LET call == calls[c]
           invite == invites[call.inv]
           acc == NewAccount("MEMBER", invite.external, invite.expires, call.inv)
       IN IF users[call.tgt] # Null THEN Finish(c) /\ UNCHANGED <<users, invites>>
          ELSE /\ users' = [users EXCEPT ![call.tgt] = acc]
               /\ invites' = [invites EXCEPT ![call.inv] = UsedUp(call.inv)]
               /\ To(c, [call EXCEPT !.at = "clear", !.acc = acc])
    /\ UNCHANGED <<clock, scene, left, devices, sessions, throttle, failed, nonce>>

-----------------------------------------------------------------------------
(* handleBootstrap: the first user, with the one-time setup nonce. *)

Bootstrap(c) ==
    /\ \E u \in scene.users, good \in BOOLEAN :
           Begin(c, [Idle EXCEPT !.op = "bootstrap", !.at = "count users", !.tgt = u, !.good = good])
    /\ UNCHANGED <<clock, scene, users, devices, sessions, invites, throttle, failed, nonce>>

CountUsers(c) ==
    /\ At(c, "count users")
    /\ IF \A u \in Users : users[u] = Null THEN Goto(c, "nonce") ELSE Finish(c)
    /\ UNCHANGED <<clock, scene, left, users, devices, sessions, invites, throttle, failed, nonce>>

CheckNonce(c) ==
    /\ At(c, "nonce")
    /\ IF nonce /\ calls[c].good THEN Goto(c, "found") ELSE Finish(c)
    /\ UNCHANGED <<clock, scene, left, users, devices, sessions, invites, throttle, failed, nonce>>

Found(c) ==
    /\ At(c, "found")
    /\ IF users[calls[c].tgt] # Null THEN UNCHANGED <<users, nonce>>
       ELSE /\ users' = [users EXCEPT ![calls[c].tgt] = NewAccount("OWNER", FALSE, Null, Null)]
            /\ nonce' = FALSE
    /\ Finish(c)
    /\ UNCHANGED <<clock, scene, left, devices, sessions, invites, throttle, failed>>

-----------------------------------------------------------------------------
Tick ==
    /\ scene.ticks /\ clock < MaxClock
    /\ clock' = clock + 1
    /\ failed' = [k \in Keys |-> 0]
    /\ UNCHANGED <<scene, left, users, devices, sessions, invites, throttle, nonce, calls>>

Receive(c) ==
    \/ Login(c) \/ SignOut(c) \/ Administer(c) \/ ManageInvites(c) \/ Activate(c) \/ Bootstrap(c)

Step(c) ==
    \/ AssertNotThrottled(c) \/ LoadFailures(c) \/ RecordFailure(c) \/ Lapse(c)
    \/ LoginRead(c) \/ ClearThrottle(c) \/ ReadDevice(c) \/ UpsertDevice(c) \/ OpenSession(c)
    \/ ReadSession(c) \/ Seen(c) \/ Logout(c) \/ ListDevices(c) \/ RevokeListed(c)
    \/ MarkListed(c) \/ RevokeLegacy(c) \/ Answer(c)
    \/ ReadTarget(c) \/ ApplyLifecycle(c) \/ ApplyForceLogout(c) \/ ForceDevices(c)
    \/ ApplyRole(c) \/ ApplyPolicy(c)
    \/ CheckInvitee(c) \/ CheckInvite(c) \/ Withdraw(c) \/ Issue(c)
    \/ ReadInvite(c) \/ ExpireInvite(c) \/ CheckUsername(c) \/ Join(c)
    \/ CountUsers(c) \/ CheckNonce(c) \/ Found(c)

Next == Tick \/ \E c \in Slots : Receive(c) \/ Step(c)

Spec == Init /\ [][Next]_vars

-----------------------------------------------------------------------------
(* The inductive invariant: what the calls in flight hold, and the rows. *)

\* What a call refers to is there.
ReadOK(call) ==
    /\ call.op \notin Entries => call.sid # Null
    /\ call.sid # Null => sessions[call.sid] # Null /\ sessions[call.sid].user = call.by
    /\ \A s \in call.before : sessions[s] # Null /\ sessions[s].user = call.by
    /\ call.op \in {"login", "bootstrap", "create"} \cup AdminOps => call.tgt # Null
    /\ call.op \in {"activate", "revoke", "regenerate"} => call.inv # Null
    /\ call.op = "activate" /\ call.good => invites[call.inv] # Null
    /\ call.op \in {"revoke", "regenerate"} => invites[call.inv] # Null
    /\ call.acc # Null => call.tgt # Null /\ users[call.tgt] # Null
    /\ call.op = "lifecycle" => call.status # Null
    /\ call.op = "role" => call.role # Null
    /\ call.op = "device" => call.dev # Null

\* Where each kind of call can be.
StageOK(call) ==
    /\ call.at \in {"throttle", "read"} => call.op \in {"login", "activate"}
    /\ call.at \in {"auth", "seen", "go"} => call.op \notin Entries
    /\ call.at \in {"throttle", "read", "auth", "seen", "go"} => call.acc = Null
    /\ call.at \in {"clear", "device", "upsert", "session"} =>
           call.op \in {"login", "activate"} /\ call.acc # Null
    /\ call.at \in {"device", "upsert"} => call.dev # Null
    /\ call.at \in {"upsert", "session"} /\ call.dev # Null /\ call.known =>
           devices[call.tgt][call.dev] # "none"
    /\ call.at = "lapse" => (call.op = "login" /\ call.acc # Null) \/ call.op \notin Entries
    /\ call.at \in {"fail", "count"} => call.key # Null
    /\ call.at \in {"revoke", "mark", "legacy", "done"} => call.op \in SignOuts \ {"logout"}
    /\ call.at = "apply" => call.op \in AdminOps /\ call.acc # Null
    /\ call.at = "unmark" => call.op = "force"
    /\ call.at \in {"withdraw", "issue"} => call.op \in InviteOps /\ call.tgt # Null
    /\ call.at \in {"expire", "exists", "join"} =>
           call.op = "activate" /\ call.good /\ call.tgt = invites[call.inv].name
    /\ call.at \in {"count users", "nonce", "found"} => call.op = "bootstrap"

\* The session of a sign-out stays, and so does what it is not about.
Spared(call, s) ==
    \/ call.op = "device" /\ sessions[s].dev # call.dev
    \/ call.op = "others" /\ sessions[s].dev = OwnDevice(call)

\* A session that was there when a sign-out listed the devices is over by now, or
\* among those still to come.
CoverOK(call) ==
    /\ call.op = "others" /\ call.at = "revoke" => OwnDevice(call) \notin call.list
    /\ \A s \in call.before : Live(s) =>
          \/ Spared(call, s)
          \/ call.at = "revoke" /\ sessions[s].dev \in call.list
          \/ call.at \in {"revoke", "mark", "legacy"} /\ call.op # "device" /\ sessions[s].dev = Null

\* A sign-in whose user was disabled after it was read knows it.
RaceOK(call) ==
    call.op \in Entries /\ call.acc # Null =>
        (users[call.tgt].status # "ACTIVE" => call.raced)

\* The row a failure will be added to counts failures of its window only.
CountOK(call) ==
    /\ call.at \in {"fail", "count"} => call.now <= clock
    /\ call.at = "count" /\ call.row # Null =>
           call.row.start <= clock /\ (call.row.start = clock => call.row.n <= failed[call.key])

CallOK(call) ==
    ReadOK(call) /\ StageOK(call) /\ CoverOK(call) /\ RaceOK(call) /\ CountOK(call)

CallsOK == \A c \in Slots : calls[c] # Null => CallOK(calls[c])

ThrottleOK ==
    \A k \in Keys : throttle[k] # Null =>
        /\ throttle[k].start <= clock /\ throttle[k].until <= clock + 1
        /\ throttle[k].start = clock => throttle[k].n <= failed[k]
        /\ throttle[k].until > clock => failed[k] >= Limit[k]

\* An account and the invite it came from know each other.
JoinedOK ==
    /\ \A u \in Users : users[u] # Null /\ users[u].from # Null =>
          LET i == users[u].from
          IN invites[i] # Null /\ invites[i].name = u /\ invites[i].status # "PENDING"
    /\ \A i \in Invites : invites[i] # Null /\ invites[i].status = "USED" =>
          users[invites[i].name] # Null /\ users[invites[i].name].from = i

SessionsOK ==
    \A s \in Sessions : Live(s) /\ users[sessions[s].user].status # "ACTIVE" => sessions[s].raced

IInv == TypeOK /\ CallsOK /\ ThrottleOK /\ JoinedOK /\ SessionsOK

-----------------------------------------------------------------------------
(* Properties. *)

\* When a sign-out answers, the sessions of the user that were there when it
\* listed the devices are over, as far as it is about them: those of the listed
\* devices and, unless the caller signs out others from a session without a
\* device, those without one (collaboration.ts, handleLogoutAllDevices and its
\* like, whose statements are not one batch).
SignOutCovers ==
    \A c \in Slots : At(c, "done") =>
        \A s \in calls[c].before :
            \/ ~sessions[s].live
            \/ calls[c].op = "device" /\ sessions[s].dev # calls[c].dev
            \/ calls[c].op = "others" /\ sessions[s].dev = OwnDevice(calls[c])

\* Signing out the other devices never ends the session that asked for it.
OthersKeepsOwn ==
    [][\A c \in Slots :
        calls[c] # Null /\ calls[c].op = "others" /\ (RevokeListed(c) \/ RevokeLegacy(c)) =>
            sessions'[calls[c].sid] = sessions[calls[c].sid]]_vars

\* A user who is suspended or deactivated has no session, except those of a
\* sign-in that had read the user before (enterprise.ts, handleUserLifecycle;
\* index.ts, the expiry in requireAuth and handleLogin).
OnlyRacingSignInsSurvive ==
    \A s \in Sessions : Live(s) /\ users[sessions[s].user].status # "ACTIVE" => sessions[s].raced

\* Nobody is locked out before the limit: a key counts no failure of an earlier
\* window and no failure twice, and a block that holds was earned within the
\* window, whatever calls overlap (index.ts, recordLoginFailure; enterprise.ts,
\* recordInviteActivationFailure).
LockedOutByFailures ==
    \A k \in Keys : throttle[k] # Null =>
        /\ throttle[k].start = clock => throttle[k].n <= failed[k]
        /\ throttle[k].until > clock => failed[k] >= Limit[k]

\* An invite that is USED has made its account, and one that has made an account
\* is pending no more: no code makes a second (enterprise.ts, activateInvite).
InvitesAreSpent ==
    \A i \in Invites :
        LET joined == {u \in Users : users[u] # Null /\ users[u].from = i}
        IN /\ Cardinality(joined) <= 1
           /\ invites[i] # Null /\ invites[i].status = "USED" => joined # {}
           /\ joined # {} => invites[i].status # "PENDING"

\* An external collaborator is never an administrator. The code refuses both
\* orders, but on what it read before the update.
ExternalIsNoAdmin ==
    \A u \in Users : ~(users[u] # Null /\ users[u].external /\ users[u].sys = "ADMIN")

\* The owner, whom no administrator may suspend, can always be reached.
OwnerIsActive ==
    \A u \in Users : users[u] # Null /\ users[u].sys = "OWNER" => users[u].status = "ACTIVE"
=============================================================================
