--------------------------- MODULE AccountsProofs ---------------------------
(***************************************************************************)
(* Proofs about Accounts, for every set of users, devices, sessions,       *)
(* invites and calls at a time, every limit and every scenario: IInv is    *)
(* inductive, and what follows from it about sign-outs, disabled users,    *)
(* the throttle and invites.                                               *)
(***************************************************************************)
EXTENDS Accounts, FiniteSetTheorems, TLAPS

-----------------------------------------------------------------------------
(* Calls in flight. *)

LEMMA IdleCall == Idle \in Call
BY AccountsAssumption DEF Idle, Call, Stages, Ops, SignOuts

\* Each field of a call can be set to each value of its type.
LEMMA FieldUpdates ==
    ASSUME NEW call \in Call
    PROVE  /\ \A v \in Ops : [call EXCEPT !.op = v] \in Call
           /\ \A v \in Stages : [call EXCEPT !.at = v] \in Call
           /\ \A v \in Sessions \cup {Null} : [call EXCEPT !.sid = v] \in Call
           /\ \A v \in Users \cup {Null} : [call EXCEPT !.by = v] \in Call
           /\ \A v \in Roles \cup {Null} : [call EXCEPT !.sys = v] \in Call
           /\ \A v \in Users \cup {Null} : [call EXCEPT !.tgt = v] \in Call
           /\ \A v \in Devices \cup {Null} : [call EXCEPT !.dev = v] \in Call
           /\ \A v \in Invites \cup {Null} : [call EXCEPT !.inv = v] \in Call
           /\ \A v \in Keys \cup {Null} : [call EXCEPT !.key = v] \in Call
           /\ \A v \in Statuses \cup {Null} : [call EXCEPT !.status = v] \in Call
           /\ \A v \in Roles \cup {Null} : [call EXCEPT !.role = v] \in Call
           /\ \A v \in BOOLEAN : [call EXCEPT !.external = v] \in Call
           /\ \A v \in Until \cup {Null} : [call EXCEPT !.expires = v] \in Call
           /\ \A v \in Account \cup {Null} : [call EXCEPT !.acc = v] \in Call
           /\ \A v \in Count \cup {Null} : [call EXCEPT !.row = v] \in Call
           /\ \A v \in 0 .. MaxClock : [call EXCEPT !.now = v] \in Call
           /\ \A v \in SUBSET Devices : [call EXCEPT !.list = v] \in Call
           /\ \A v \in BOOLEAN : [call EXCEPT !.known = v] \in Call
           /\ \A v \in BOOLEAN : [call EXCEPT !.raced = v] \in Call
           /\ \A v \in SUBSET Sessions : [call EXCEPT !.before = v] \in Call
           /\ \A v \in BOOLEAN : [call EXCEPT !.good = v] \in Call
<1>1. \A v \in Ops : [call EXCEPT !.op = v] \in Call
  BY DEF Call
<1>2. \A v \in Stages : [call EXCEPT !.at = v] \in Call
  BY DEF Call
<1>3. \A v \in Sessions \cup {Null} : [call EXCEPT !.sid = v] \in Call
  BY DEF Call
<1>4. \A v \in Users \cup {Null} : [call EXCEPT !.by = v] \in Call
  BY DEF Call
<1>5. \A v \in Roles \cup {Null} : [call EXCEPT !.sys = v] \in Call
  BY DEF Call
<1>6. \A v \in Users \cup {Null} : [call EXCEPT !.tgt = v] \in Call
  BY DEF Call
<1>7. \A v \in Devices \cup {Null} : [call EXCEPT !.dev = v] \in Call
  BY DEF Call
<1>8. \A v \in Invites \cup {Null} : [call EXCEPT !.inv = v] \in Call
  BY DEF Call
<1>9. \A v \in Keys \cup {Null} : [call EXCEPT !.key = v] \in Call
  BY DEF Call
<1>10. \A v \in Statuses \cup {Null} : [call EXCEPT !.status = v] \in Call
  BY DEF Call
<1>11. \A v \in Roles \cup {Null} : [call EXCEPT !.role = v] \in Call
  BY DEF Call
<1>12. \A v \in BOOLEAN : [call EXCEPT !.external = v] \in Call
  BY DEF Call
<1>13. \A v \in Until \cup {Null} : [call EXCEPT !.expires = v] \in Call
  BY DEF Call
<1>14. \A v \in Account \cup {Null} : [call EXCEPT !.acc = v] \in Call
  BY DEF Call
<1>15. \A v \in Count \cup {Null} : [call EXCEPT !.row = v] \in Call
  BY DEF Call
<1>16. \A v \in 0 .. MaxClock : [call EXCEPT !.now = v] \in Call
  BY DEF Call
<1>17. \A v \in SUBSET Devices : [call EXCEPT !.list = v] \in Call
  BY DEF Call
<1>18. \A v \in BOOLEAN : [call EXCEPT !.known = v] \in Call
  BY DEF Call
<1>19. \A v \in BOOLEAN : [call EXCEPT !.raced = v] \in Call
  BY DEF Call
<1>20. \A v \in SUBSET Sessions : [call EXCEPT !.before = v] \in Call
  BY DEF Call
<1>21. \A v \in BOOLEAN : [call EXCEPT !.good = v] \in Call
  BY DEF Call
<1> QED BY <1>1, <1>2, <1>3, <1>4, <1>5, <1>6, <1>7, <1>8, <1>9, <1>10, <1>11, <1>12, <1>13, <1>14, <1>15, <1>16, <1>17, <1>18, <1>19, <1>20, <1>21

LEMMA CallTyped ==
    ASSUME IInv, NEW c \in Slots, calls[c] # Null
    PROVE  calls[c] \in Call /\ CallOK(calls[c])
BY DEF IInv, TypeOK, CallsOK

\* What the rest of a call is judged by.
SameCall(x, call) ==
    /\ x.op = call.op /\ x.sid = call.sid /\ x.by = call.by /\ x.dev = call.dev
    /\ x.inv = call.inv /\ x.status = call.status /\ x.role = call.role /\ x.good = call.good
    /\ x.raced = call.raced

tables == <<users, devices, sessions, invites>>

\* A step that only moves a call, or begins or ends one, preserves the invariant
\* if the call is in order.
LEMMA QuietStep ==
    ASSUME IInv, NEW c \in Slots, NEW x,
           calls' = [calls EXCEPT ![c] = x], x = Null \/ (x \in Call /\ CallOK(x)),
           UNCHANGED <<clock, scene, tables, throttle, failed, nonce>>,
           left' \in 0 .. scene.calls
    PROVE  IInv'
<1>1. calls \in [Slots -> Call \cup {Null}] /\ \A k \in Slots : calls'[k] = IF k = c THEN x ELSE calls[k]
  BY DEF IInv, TypeOK
<1>2. TypeOK'
  BY DEF IInv, TypeOK, tables
<1>3. CallsOK'
  <2>1. ASSUME NEW k \in Slots, calls'[k] # Null
        PROVE  CallOK(calls[k])'
    <3>1. CallOK(calls'[k])
      BY <1>1, <2>1 DEF IInv, CallsOK
    <3>2. ReadOK(calls[k])'
      BY <3>1 DEF CallOK, ReadOK, tables
    <3>3. StageOK(calls[k])'
      BY <3>1 DEF CallOK, StageOK, tables
    <3>4. CoverOK(calls[k])'
      BY <3>1 DEF CallOK, CoverOK, Spared, OwnDevice, Live, tables
    <3>5. RaceOK(calls[k])' /\ CountOK(calls[k])'
      BY <3>1 DEF CallOK, RaceOK, CountOK, tables
    <3> QED BY <3>2, <3>3, <3>4, <3>5 DEF CallOK
  <2> QED BY <2>1 DEF CallsOK
<1>4. ThrottleOK' /\ JoinedOK' /\ SessionsOK'
  BY DEF IInv, ThrottleOK, JoinedOK, SessionsOK, Live, tables
<1> QED BY <1>2, <1>3, <1>4 DEF IInv

\* A call ends without a change.
LEMMA QuietFinish ==
    ASSUME IInv, NEW c \in Slots, Finish(c),
           UNCHANGED <<clock, scene, left, tables, throttle, failed, nonce>>
    PROVE  IInv'
BY QuietStep DEF Finish, To, IInv, TypeOK

\* A call that is no sign-out under way goes on, without a change of its fields.
LEMMA QuietGoto ==
    ASSUME IInv, NEW c \in Slots, calls[c] # Null, NEW at \in Stages, Goto(c, at),
           at \notin {"fail", "count", "revoke", "mark", "legacy", "done"},
           calls[c].at \notin {"revoke", "mark", "legacy", "done"},
           \A x \in Call : SameCall(x, calls[c]) /\ x.at = at /\ x.tgt = calls[c].tgt
                           /\ x.acc = calls[c].acc /\ x.key = calls[c].key => StageOK(x),
           UNCHANGED <<clock, scene, left, tables, throttle, failed, nonce>>
    PROVE  IInv'
<1> DEFINE x == [calls[c] EXCEPT !.at = at]
<1>1. calls[c] \in Call /\ CallOK(calls[c])
  BY CallTyped
<1>2. x \in Call
  BY <1>1, FieldUpdates
<1>3. /\ SameCall(x, calls[c]) /\ x.at = at /\ x.tgt = calls[c].tgt /\ x.acc = calls[c].acc
      /\ x.before = calls[c].before /\ x.key = calls[c].key
  BY <1>1 DEF Call, SameCall
<1> HIDE DEF x
<1>4. CallOK(x)
  BY <1>1, <1>2, <1>3 DEF CallOK, ReadOK, CoverOK, RaceOK, CountOK, SameCall, Spared, OwnDevice
<1> QED BY <1>2, <1>4, QuietStep DEF Goto, To, IInv, TypeOK, x

-----------------------------------------------------------------------------
(* Calls that begin. *)

\* A call as it arrives refers to nothing but what its caller may know.
LEMMA NewCallOK ==
    ASSUME NEW x \in Call, x.before = {}, x.acc = Null,
           \/ x.at = "throttle" /\ x.op \in {"login", "activate"} /\ x.sid = Null
           \/ x.at = "count users" /\ x.op = "bootstrap" /\ x.sid = Null
           \/ /\ x.at = "auth" /\ x.op \notin Entries
              /\ x.sid # Null /\ sessions[x.sid] # Null /\ sessions[x.sid].user = x.by,
           x.op \in {"login", "bootstrap", "create"} \cup AdminOps => x.tgt # Null,
           x.op \in {"activate", "revoke", "regenerate"} => x.inv # Null,
           x.op = "activate" /\ x.good => invites[x.inv] # Null,
           x.op \in {"revoke", "regenerate"} => invites[x.inv] # Null,
           x.op = "lifecycle" => x.status # Null, x.op = "role" => x.role # Null,
           x.op = "device" => x.dev # Null
    PROVE  CallOK(x)
<1>1. ReadOK(x)
  BY DEF ReadOK, Entries, AdminOps
<1>2. StageOK(x)
  BY DEF StageOK
<1>3. CoverOK(x) /\ RaceOK(x) /\ CountOK(x)
  BY DEF CoverOK, RaceOK, CountOK
<1> QED BY <1>1, <1>2, <1>3 DEF CallOK

LEMMA BeginStep ==
    ASSUME IInv, NEW c \in Slots, NEW x \in Call, CallOK(x), Begin(c, x),
           UNCHANGED <<clock, scene, tables, throttle, failed, nonce>>
    PROVE  IInv'
<1>1. scene \in Scenario /\ scene.calls \in Nat
  BY AccountsAssumption DEF IInv, TypeOK, Scenario
<1>2. left' \in 0 .. scene.calls
  BY <1>1 DEF IInv, TypeOK, Begin
<1> QED BY <1>2, QuietStep DEF Begin, To

\* A call under a live session.
LEMMA SignedStep ==
    ASSUME IInv, NEW c \in Slots, NEW op \in Ops \ Entries, NEW call \in Call,
           call.at = "auth", call.before = {}, call.acc = Null,
           op \in {"create"} \cup AdminOps => call.tgt # Null,
           op \in {"revoke", "regenerate"} => call.inv # Null,
           call.inv # Null => invites[call.inv] # Null,
           op = "lifecycle" => call.status # Null, op = "role" => call.role # Null,
           op = "device" => call.dev # Null,
           Signed(c, op, call),
           UNCHANGED <<clock, scene, tables, throttle, failed, nonce>>
    PROVE  IInv'
<1>1. PICK s \in Sessions :
          Live(s) /\ Begin(c, [call EXCEPT !.op = op, !.sid = s, !.by = sessions[s].user])
  BY DEF Signed
<1> DEFINE x == [call EXCEPT !.op = op, !.sid = s, !.by = sessions[s].user]
<1>2. sessions[s] # Null /\ sessions[s].user \in Users
  BY <1>1 DEF Live, IInv, TypeOK, SessionRow
<1>3. x \in Call
  BY <1>2, FieldUpdates
<1>4. /\ x.op = op /\ x.sid = s /\ x.by = sessions[s].user /\ x.at = "auth" /\ x.before = {}
      /\ x.acc = Null /\ x.tgt = call.tgt /\ x.inv = call.inv /\ x.status = call.status
      /\ x.role = call.role /\ x.dev = call.dev /\ x.good = call.good
  BY DEF Call
<1>5. s # Null
  BY AccountsAssumption
<1> HIDE DEF x
<1>6. CallOK(x)
  <2>1. op \notin Entries /\ op # "login" /\ op # "bootstrap" /\ op # "activate"
    BY DEF Entries
  <2> QED BY <1>2, <1>3, <1>4, <1>5, <2>1, NewCallOK
<1> QED BY <1>1, <1>3, <1>6, BeginStep DEF x

LEMMA ReceiveInv ==
    ASSUME IInv, NEW c \in Slots, Receive(c)
    PROVE  IInv'
<1>1. scene \in Scenario /\ scene.users \subseteq Users /\ scene.devices \subseteq Devices \cup {Null}
  BY AccountsAssumption DEF IInv, TypeOK, Scenario
<1>2. /\ {"throttle", "auth", "count users"} \subseteq Stages
      /\ Entries \subseteq Ops /\ SignOuts \subseteq Ops \ Entries
      /\ AdminOps \subseteq Ops \ Entries /\ InviteOps \subseteq Ops \ Entries
  BY DEF Stages, Ops, Entries, SignOuts, AdminOps, InviteOps
<1>3. CASE Login(c)
  <2>1. PICK u \in scene.users, d \in scene.devices, good \in BOOLEAN :
            Begin(c, [Idle EXCEPT !.op = "login", !.at = "throttle", !.tgt = u,
                                  !.dev = d, !.good = good])
    BY <1>3 DEF Login
  <2> DEFINE x == [Idle EXCEPT !.op = "login", !.at = "throttle", !.tgt = u, !.dev = d, !.good = good]
  <2>2. x \in Call
    BY <1>1, <1>2, IdleCall, FieldUpdates DEF Entries
  <2>3. /\ x.op = "login" /\ x.at = "throttle" /\ x.tgt = u /\ x.sid = Null /\ x.before = {}
        /\ x.acc = Null /\ x.inv = Null
    BY DEF Idle
  <2>4. u # Null
    BY <1>1, AccountsAssumption
  <2> HIDE DEF x
  <2>5. CallOK(x)
    BY <2>2, <2>3, <2>4, NewCallOK
  <2> QED BY <1>3, <2>1, <2>2, <2>5, BeginStep DEF Login, tables, x
<1>4. CASE SignOut(c)
  <2>1. CASE \E op \in SignOuts \ {"device"} : Signed(c, op, Idle)
    <3>1. PICK op \in SignOuts \ {"device"} : Signed(c, op, Idle)
      BY <2>1
    <3>2. /\ Idle.at = "auth" /\ Idle.before = {} /\ Idle.acc = Null /\ Idle.inv = Null
      BY DEF Idle
    <3>3. op \in {"logout", "others", "all"}
      BY DEF SignOuts
    <3> QED BY <1>2, <1>4, <3>1, <3>2, <3>3, IdleCall, SignedStep DEF SignOut, tables, AdminOps
  <2>2. CASE \E d \in scene.devices \ {Null} : Signed(c, "device", [Idle EXCEPT !.dev = d])
    <3>1. PICK d \in scene.devices \ {Null} : Signed(c, "device", [Idle EXCEPT !.dev = d])
      BY <2>2
    <3> DEFINE x == [Idle EXCEPT !.dev = d]
    <3>2. x \in Call
      BY <1>1, IdleCall, FieldUpdates
    <3>3. x.at = "auth" /\ x.before = {} /\ x.acc = Null /\ x.inv = Null /\ x.dev = d
      BY DEF Idle
    <3> HIDE DEF x
    <3>4. Signed(c, "device", x)
      BY <3>1 DEF x
    <3>5. "device" \in Ops \ Entries /\ "device" \notin {"create"} \cup AdminOps
      BY <1>2 DEF SignOuts, AdminOps
    <3> QED BY <1>4, <3>2, <3>3, <3>4, <3>5, SignedStep DEF SignOut, tables
  <2> QED BY <1>4, <2>1, <2>2 DEF SignOut
<1>5. CASE Administer(c)
  <2> DEFINE frame == UNCHANGED <<clock, scene, tables, throttle, failed, nonce>>
  <2>1. PICK u \in scene.users :
            \/ \E status \in Statuses : Signed(c, "lifecycle", [Idle EXCEPT !.tgt = u, !.status = status])
            \/ Signed(c, "force", [Idle EXCEPT !.tgt = u])
            \/ \E role \in {"ADMIN", "MEMBER"} : Signed(c, "role", [Idle EXCEPT !.tgt = u, !.role = role])
            \/ \E external \in BOOLEAN, expires \in {Null, clock + 1} :
                   Signed(c, "policy", [Idle EXCEPT !.tgt = u, !.external = external, !.expires = expires])
    BY <1>5 DEF Administer
  <2>2. frame
    BY <1>5 DEF Administer, tables
  <2>3. u \in Users /\ u # Null
    BY <1>1, AccountsAssumption
  <2>4. ASSUME NEW x \in Call, NEW op \in AdminOps, x.at = "auth", x.before = {}, x.acc = Null,
               x.inv = Null, x.tgt = u, op = "lifecycle" => x.status # Null,
               op = "role" => x.role # Null, Signed(c, op, x)
        PROVE  IInv'
    <3>1. op \in Ops \ Entries /\ op \notin {"revoke", "regenerate", "device"}
      BY <1>2 DEF AdminOps
    <3> QED BY <2>2, <2>3, <2>4, <3>1, SignedStep
  <2>5. ASSUME NEW status \in Statuses, Signed(c, "lifecycle", [Idle EXCEPT !.tgt = u, !.status = status])
        PROVE  IInv'
    <3> DEFINE x == [Idle EXCEPT !.tgt = u, !.status = status]
    <3>1. x \in Call
      BY <2>3, IdleCall, FieldUpdates
    <3>2. /\ x.at = "auth" /\ x.before = {} /\ x.acc = Null /\ x.inv = Null /\ x.tgt = u
          /\ x.status = status
      BY DEF Idle
    <3>3. status # Null /\ "lifecycle" \in AdminOps
      BY AccountsAssumption DEF AdminOps
    <3> HIDE DEF x
    <3>4. Signed(c, "lifecycle", x)
      BY <2>5 DEF x
    <3> QED BY <2>4, <3>1, <3>2, <3>3, <3>4
  <2>6. ASSUME Signed(c, "force", [Idle EXCEPT !.tgt = u])
        PROVE  IInv'
    <3> DEFINE x == [Idle EXCEPT !.tgt = u]
    <3>1. x \in Call
      BY <2>3, IdleCall, FieldUpdates
    <3>2. /\ x.at = "auth" /\ x.before = {} /\ x.acc = Null /\ x.inv = Null /\ x.tgt = u
          /\ "force" \in AdminOps
      BY DEF Idle, AdminOps
    <3> HIDE DEF x
    <3>3. Signed(c, "force", x)
      BY <2>6 DEF x
    <3> QED BY <2>4, <3>1, <3>2, <3>3
  <2>7. ASSUME NEW role \in {"ADMIN", "MEMBER"}, Signed(c, "role", [Idle EXCEPT !.tgt = u, !.role = role])
        PROVE  IInv'
    <3> DEFINE x == [Idle EXCEPT !.tgt = u, !.role = role]
    <3>1. role \in Roles /\ role # Null /\ "role" \in AdminOps
      BY AccountsAssumption DEF Roles, AdminOps
    <3>2. x \in Call
      BY <2>3, <3>1, IdleCall, FieldUpdates
    <3>3. /\ x.at = "auth" /\ x.before = {} /\ x.acc = Null /\ x.inv = Null /\ x.tgt = u
          /\ x.role = role
      BY DEF Idle
    <3> HIDE DEF x
    <3>4. Signed(c, "role", x)
      BY <2>7 DEF x
    <3> QED BY <2>4, <3>1, <3>2, <3>3, <3>4
  <2>8. ASSUME NEW external \in BOOLEAN, NEW expires \in {Null, clock + 1},
               Signed(c, "policy", [Idle EXCEPT !.tgt = u, !.external = external, !.expires = expires])
        PROVE  IInv'
    <3> DEFINE x == [Idle EXCEPT !.tgt = u, !.external = external, !.expires = expires]
    <3>1. expires \in Until \cup {Null} /\ "policy" \in AdminOps
      BY AccountsAssumption DEF Until, IInv, TypeOK, AdminOps
    <3>2. x \in Call
      BY <2>3, <3>1, IdleCall, FieldUpdates
    <3>3. /\ x.at = "auth" /\ x.before = {} /\ x.acc = Null /\ x.inv = Null /\ x.tgt = u
      BY DEF Idle
    <3> HIDE DEF x
    <3>4. Signed(c, "policy", x)
      BY <2>8 DEF x
    <3> QED BY <2>4, <3>1, <3>2, <3>3, <3>4
  <2> QED BY <2>1, <2>5, <2>6, <2>7, <2>8
<1>6. CASE ManageInvites(c)
  <2>1. UNCHANGED <<clock, scene, tables, throttle, failed, nonce>>
    BY <1>6 DEF ManageInvites, tables
  <2>2. ASSUME NEW u \in scene.users, NEW external \in BOOLEAN,
               Signed(c, "create", [Idle EXCEPT !.tgt = u, !.external = external])
        PROVE  IInv'
    <3> DEFINE x == [Idle EXCEPT !.tgt = u, !.external = external]
    <3>1. x \in Call /\ u # Null
      BY <1>1, AccountsAssumption, IdleCall, FieldUpdates
    <3>2. /\ x.at = "auth" /\ x.before = {} /\ x.acc = Null /\ x.inv = Null /\ x.tgt = u
      BY DEF Idle
    <3> HIDE DEF x
    <3>3. Signed(c, "create", x) /\ "create" \in Ops \ Entries
      BY <1>2, <2>2 DEF x, InviteOps
    <3> QED BY <2>1, <3>1, <3>2, <3>3, SignedStep
  <2>3. ASSUME NEW op \in {"revoke", "regenerate"}, NEW i \in Invites, invites[i] # Null,
               Signed(c, op, [Idle EXCEPT !.inv = i])
        PROVE  IInv'
    <3> DEFINE x == [Idle EXCEPT !.inv = i]
    <3>1. x \in Call /\ i # Null
      BY AccountsAssumption, IdleCall, FieldUpdates
    <3>2. /\ x.at = "auth" /\ x.before = {} /\ x.acc = Null /\ x.inv = i
      BY DEF Idle
    <3> HIDE DEF x
    <3>3. Signed(c, op, x) /\ op \in Ops \ Entries
      BY <1>2, <2>3 DEF x, InviteOps
    <3>4. op \notin {"create"} \cup AdminOps
      BY DEF AdminOps
    <3> QED BY <2>1, <2>3, <3>1, <3>2, <3>3, <3>4, SignedStep
  <2> QED BY <1>6, <2>2, <2>3 DEF ManageInvites
<1>7. CASE Activate(c)
  <2>1. PICK i \in Invites, d \in scene.devices, good \in BOOLEAN :
            /\ good => invites[i] # Null
            /\ Begin(c, [Idle EXCEPT !.op = "activate", !.at = "throttle", !.inv = i,
                                     !.dev = d, !.good = good])
    BY <1>7 DEF Activate
  <2> DEFINE x == [Idle EXCEPT !.op = "activate", !.at = "throttle", !.inv = i, !.dev = d, !.good = good]
  <2>2. x \in Call
    BY <1>1, <1>2, IdleCall, FieldUpdates DEF Entries
  <2>3. /\ x.op = "activate" /\ x.at = "throttle" /\ x.inv = i /\ x.sid = Null /\ x.before = {}
        /\ x.acc = Null /\ x.good = good
    BY DEF Idle
  <2>4. i # Null /\ "activate" \notin {"login", "bootstrap", "create"} \cup AdminOps
    BY AccountsAssumption DEF AdminOps
  <2> HIDE DEF x
  <2>5. CallOK(x)
    BY <2>1, <2>2, <2>3, <2>4, NewCallOK
  <2> QED BY <1>7, <2>1, <2>2, <2>5, BeginStep DEF Activate, tables, x
<1>8. CASE Bootstrap(c)
  <2>1. PICK u \in scene.users, good \in BOOLEAN :
            Begin(c, [Idle EXCEPT !.op = "bootstrap", !.at = "count users", !.tgt = u, !.good = good])
    BY <1>8 DEF Bootstrap
  <2> DEFINE x == [Idle EXCEPT !.op = "bootstrap", !.at = "count users", !.tgt = u, !.good = good]
  <2>2. x \in Call
    BY <1>1, <1>2, IdleCall, FieldUpdates DEF Entries
  <2>3. /\ x.op = "bootstrap" /\ x.at = "count users" /\ x.inv = Null /\ x.sid = Null
        /\ x.before = {} /\ x.acc = Null /\ x.tgt = u
    BY DEF Idle
  <2>4. u # Null
    BY <1>1, AccountsAssumption
  <2> HIDE DEF x
  <2>5. CallOK(x)
    BY <2>2, <2>3, <2>4, NewCallOK
  <2> QED BY <1>8, <2>1, <2>2, <2>5, BeginStep DEF Bootstrap, tables, x
<1> QED BY <1>3, <1>4, <1>5, <1>6, <1>7, <1>8 DEF Receive

-----------------------------------------------------------------------------
(* The throttle. *)

\* A step that moves a call and writes the throttle preserves the invariant if the
\* call and the rows are in order, and no failure is forgotten.
LEMMA ThrottleStep ==
    ASSUME IInv, NEW c \in Slots, NEW x,
           calls' = [calls EXCEPT ![c] = x], x = Null \/ (x \in Call /\ CallOK(x)),
           UNCHANGED <<clock, scene, left, tables, nonce>>,
           throttle' \in [Keys -> Count \cup {Null}], failed' \in [Keys -> Nat],
           \A k \in Keys : failed'[k] >= failed[k], ThrottleOK'
    PROVE  IInv'
<1>1. calls \in [Slots -> Call \cup {Null}] /\ \A k \in Slots : calls'[k] = IF k = c THEN x ELSE calls[k]
  BY DEF IInv, TypeOK
<1>2. TypeOK'
  BY DEF IInv, TypeOK, tables
<1>3. CallsOK'
  <2>1. ASSUME NEW k \in Slots, calls'[k] # Null
        PROVE  CallOK(calls[k])'
    <3>1. CallOK(calls'[k]) /\ calls'[k] \in Call
      BY <1>1, <2>1 DEF IInv, CallsOK
    <3>2. ReadOK(calls[k])'
      BY <3>1 DEF CallOK, ReadOK, tables
    <3>3. StageOK(calls[k])'
      BY <3>1 DEF CallOK, StageOK, tables
    <3>4. CoverOK(calls[k])'
      BY <3>1 DEF CallOK, CoverOK, Spared, OwnDevice, Live, tables
    <3>5. RaceOK(calls[k])'
      BY <3>1 DEF CallOK, RaceOK, tables
    <3>6. CountOK(calls[k])'
      <4>1. calls'[k].at = "count" => calls'[k].key \in Keys
        BY <3>1 DEF CallOK, StageOK, Call
      <4>2. calls'[k].row # Null => calls'[k].row.n \in Nat
        BY <3>1 DEF Call, Count
      <4>3. \A y \in Keys : failed[y] \in Nat /\ failed'[y] \in Nat
        BY DEF IInv, TypeOK
      <4> QED BY <3>1, <4>1, <4>2, <4>3 DEF CallOK, CountOK
    <3> QED BY <3>2, <3>3, <3>4, <3>5, <3>6 DEF CallOK
  <2> QED BY <2>1 DEF CallsOK
<1>4. JoinedOK' /\ SessionsOK'
  BY DEF IInv, JoinedOK, SessionsOK, Live, tables
<1> QED BY <1>2, <1>3, <1>4 DEF IInv

\* A key whose row is loaded has that row, or none.
LEMMA LoadedRow ==
    ASSUME NEW k \in Keys, NEW now
    PROVE  Loaded(k, now) \in {throttle[k], Null}
BY DEF Loaded

\* A counted failure is within the window it is counted in, and blocks for one
\* window.
LEMMA CountedRow ==
    ASSUME NEW row \in Count \cup {Null}, NEW now \in 0 .. MaxClock, NEW limit \in Nat
    PROVE  LET new == Counted(row, now, limit)
               same == row # Null /\ row.start >= now
           IN  /\ new \in Count
               /\ new.start = (IF same THEN row.start ELSE now)
               /\ new.n = (IF same THEN row.n + 1 ELSE 1)
               /\ new.until \in {0, now + 1}
               /\ new.until = now + 1 => new.n >= limit \/ now + 1 = 0
<1> DEFINE same == row # Null /\ row.start >= now
           n == IF same THEN row.n + 1 ELSE 1
           start == IF same THEN row.start ELSE now
           until == IF n >= limit THEN now + 1 ELSE 0
<1>1. n \in Nat /\ start \in 0 .. MaxClock
  BY DEF Count
<1>2. until \in 0 .. MaxClock + 1 /\ (until = now + 1 => n >= limit)
  BY AccountsAssumption
<1> HIDE DEF n, start, until
<1>3. [n |-> n, start |-> start, until |-> until] \in Count
  BY <1>1, <1>2 DEF Count
<1>4. Counted(row, now, limit) = [n |-> n, start |-> start, until |-> until]
  BY DEF Counted, n, start, until
<1> QED BY <1>2, <1>3, <1>4 DEF n, start, until

LEMMA AssertNotThrottledInv ==
    ASSUME IInv, NEW c \in Slots, AssertNotThrottled(c)
    PROVE  IInv'
<1>1. calls[c] \in Call /\ CallOK(calls[c]) /\ calls[c].at = "throttle"
  BY CallTyped DEF AssertNotThrottled, At
<1>2. throttle' \in [Keys -> Count \cup {Null}] /\ \A k \in Keys : throttle'[k] \in {throttle[k], Null}
  BY LoadedRow DEF AssertNotThrottled, IInv, TypeOK
<1>3. ThrottleOK' /\ UNCHANGED <<clock, scene, left, tables, nonce, failed>>
  BY <1>2 DEF AssertNotThrottled, tables, IInv, ThrottleOK
<1>4. failed' \in [Keys -> Nat] /\ \A k \in Keys : failed'[k] >= failed[k]
  BY <1>3 DEF IInv, TypeOK
<1> DEFINE x == [calls[c] EXCEPT !.at = "read"]
<1>5. x \in Call
  BY <1>1, FieldUpdates DEF Stages
<1>6. CallOK(x)
  <2>1. SameCall(x, calls[c]) /\ x.at = "read" /\ x.tgt = calls[c].tgt /\ x.acc = calls[c].acc
        /\ x.before = calls[c].before
    BY <1>1 DEF Call, SameCall
  <2> HIDE DEF x
  <2> QED BY <1>1, <2>1 DEF CallOK, ReadOK, StageOK, CoverOK, RaceOK, CountOK, SameCall, Spared, OwnDevice
<1>7. calls' = [calls EXCEPT ![c] = Null] \/ calls' = [calls EXCEPT ![c] = x]
  BY DEF AssertNotThrottled, Finish, Goto, To
<1> HIDE DEF x
<1> QED BY <1>2, <1>3, <1>4, <1>5, <1>6, <1>7, ThrottleStep

LEMMA LoadFailuresInv ==
    ASSUME IInv, NEW c \in Slots, LoadFailures(c)
    PROVE  IInv'
<1> DEFINE k == calls[c].key
           row == Loaded(k, calls[c].now)
           x == [calls[c] EXCEPT !.at = "count", !.row = row]
<1>1. calls[c] \in Call /\ CallOK(calls[c]) /\ calls[c].at = "fail"
  BY CallTyped DEF LoadFailures, At
<1>2. k \in Keys
  BY <1>1 DEF CallOK, StageOK, Call
<1>3. throttle' = [throttle EXCEPT ![k] = row] /\ calls' = [calls EXCEPT ![c] = x]
      /\ UNCHANGED <<clock, scene, left, tables, nonce, failed>>
  BY DEF LoadFailures, To, tables
<1>4. row \in {throttle[k], Null} /\ row \in Count \cup {Null}
  BY <1>2, LoadedRow DEF IInv, TypeOK
<1>5. row # Null => row.start <= clock /\ (row.start = clock => row.n <= failed[k])
  BY <1>2, <1>4 DEF IInv, ThrottleOK
<1>6. x \in Call
  BY <1>1, <1>4, FieldUpdates DEF Stages
<1>7. SameCall(x, calls[c]) /\ x.at = "count" /\ x.row = row /\ x.tgt = calls[c].tgt
      /\ x.acc = calls[c].acc /\ x.before = calls[c].before /\ x.key = k /\ x.now = calls[c].now
  BY <1>1 DEF Call, SameCall
<1> HIDE DEF row, x
<1>8. CallOK(x)
  BY <1>1, <1>2, <1>5, <1>7, AccountsAssumption
  DEF CallOK, ReadOK, StageOK, CoverOK, RaceOK, CountOK, SameCall, Spared, OwnDevice
<1>9. throttle' \in [Keys -> Count \cup {Null}] /\ \A y \in Keys : throttle'[y] \in {throttle[y], Null}
  BY <1>2, <1>3, <1>4 DEF IInv, TypeOK
<1>10. ThrottleOK'
  BY <1>3, <1>9 DEF IInv, ThrottleOK
<1>11. failed' \in [Keys -> Nat] /\ \A y \in Keys : failed'[y] >= failed[y]
  BY <1>3 DEF IInv, TypeOK
<1> QED BY <1>3, <1>6, <1>8, <1>9, <1>10, <1>11, ThrottleStep

\* The failure is counted for the window it was in when it happened: a late one
\* counts for no window, and blocks nobody any more.
LEMMA RecordFailureInv ==
    ASSUME IInv, NEW c \in Slots, RecordFailure(c)
    PROVE  IInv'
<1> DEFINE call == calls[c]
           k == call.key
           row == Counted(call.row, call.now, Limit[k])
           x == [call EXCEPT !.at = "fail", !.key = "login ip", !.row = Null]
<1>1. call \in Call /\ CallOK(call) /\ call.at = "count"
  BY CallTyped DEF RecordFailure, At
<1>2. k \in Keys /\ Limit[k] \in Nat /\ Limit[k] >= 1 /\ call.now \in 0 .. MaxClock /\ call.now <= clock
      /\ call.row \in Count \cup {Null}
  BY <1>1, AccountsAssumption DEF CallOK, StageOK, CountOK, Call
<1>3. call.row # Null => /\ call.row.n \in Nat /\ call.row.start \in 0 .. MaxClock /\ call.row.start <= clock
                         /\ call.row.start = clock => call.row.n <= failed[k]
  BY <1>1, <1>2 DEF CallOK, CountOK, Count
<1>4. /\ throttle' = [throttle EXCEPT ![k] = row]
      /\ failed' = [failed EXCEPT ![k] = IF row.start = clock THEN @ + 1 ELSE @]
      /\ UNCHANGED <<clock, scene, left, tables, nonce>>
      /\ calls' = [calls EXCEPT ![c] = Null] \/ calls' = [calls EXCEPT ![c] = x]
  BY DEF RecordFailure, To, Finish, tables
<1>5. x \in Call
  BY <1>1, FieldUpdates DEF Stages, Keys
<1>6. SameCall(x, call) /\ x.at = "fail" /\ x.tgt = call.tgt /\ x.acc = call.acc
      /\ x.before = call.before /\ x.key = "login ip" /\ x.now = call.now
  BY <1>1 DEF Call, SameCall
<1>7. clock \in Nat /\ failed \in [Keys -> Nat] /\ throttle \in [Keys -> Count \cup {Null}]
  BY AccountsAssumption DEF IInv, TypeOK
<1>8. LET same == call.row # Null /\ call.row.start >= call.now
      IN  /\ row \in Count
          /\ row.start = (IF same THEN call.row.start ELSE call.now)
          /\ row.n = (IF same THEN call.row.n + 1 ELSE 1)
          /\ row.until \in {0, call.now + 1}
          /\ row.until = call.now + 1 => row.n >= Limit[k] \/ call.now + 1 = 0
  BY <1>2, CountedRow
<1> HIDE DEF row, x
<1>9. CallOK(x)
  <2>1. "login ip" # Null
    BY AccountsAssumption DEF Keys
  <2> QED BY <1>1, <1>2, <1>6, <2>1, ZenonT(60)
          DEF CallOK, ReadOK, StageOK, CoverOK, RaceOK, CountOK, SameCall, Spared, OwnDevice
<1>10. /\ failed' \in [Keys -> Nat]
       /\ \A y \in Keys : failed'[y] >= failed[y]
       /\ \A y \in Keys \ {k} : failed'[y] = failed[y] /\ throttle'[y] = throttle[y]
       /\ failed'[k] = (IF row.start = clock THEN failed[k] + 1 ELSE failed[k])
       /\ throttle'[k] = row
  BY <1>2, <1>4, <1>7
<1>11. /\ row.start <= clock /\ row.until <= clock + 1
       /\ row.start = clock => row.n <= failed'[k]
       /\ row.until > clock => failed'[k] >= Limit[k]
  <2>1. row.start <= clock /\ row.until <= clock + 1
    BY <1>2, <1>3, <1>7, <1>8
  <2>2. row.start = clock => row.n <= failed[k] + 1
    BY <1>2, <1>3, <1>7, <1>8
  <2>3. row.until > clock => row.start = clock /\ row.n >= Limit[k]
    BY <1>2, <1>3, <1>7, <1>8
  <2>4. row.n \in Nat /\ failed[k] \in Nat
    BY <1>2, <1>7, <1>8 DEF Count
  <2>5. row.start = clock => failed'[k] = failed[k] + 1
    BY <1>2, <1>7, <1>10
  <2> QED BY <1>2, <2>1, <2>2, <2>3, <2>4, <2>5
<1>12. throttle' \in [Keys -> Count \cup {Null}]
  BY <1>2, <1>4, <1>7, <1>8
<1>13. ThrottleOK'
  <2>1. \A y \in Keys \ {k} : throttle'[y] # Null =>
            /\ throttle'[y].start <= clock /\ throttle'[y].until <= clock + 1
            /\ throttle'[y].start = clock => throttle'[y].n <= failed'[y]
            /\ throttle'[y].until > clock => failed'[y] >= Limit[y]
    BY <1>10 DEF IInv, ThrottleOK
  <2>2. clock' = clock
    BY <1>4
  <2>3. ASSUME NEW y \in Keys, throttle'[y] # Null
        PROVE  /\ throttle'[y].start <= clock' /\ throttle'[y].until <= clock' + 1
               /\ throttle'[y].start = clock' => throttle'[y].n <= failed'[y]
               /\ throttle'[y].until > clock' => failed'[y] >= Limit[y]
    <3>1. CASE y = k
      <4>1. throttle'[y] = row /\ failed'[y] = failed'[k] /\ Limit[y] = Limit[k]
        BY <1>10, <3>1
      <4> QED BY <1>11, <2>2, <4>1
    <3>2. CASE y # k
      BY <2>1, <2>2, <2>3, <3>2
    <3> QED BY <3>1, <3>2
  <2> QED BY <2>3 DEF ThrottleOK
<1> QED BY <1>4, <1>5, <1>9, <1>10, <1>12, <1>13, ThrottleStep

LEMMA ClearThrottleInv ==
    ASSUME IInv, NEW c \in Slots, ClearThrottle(c)
    PROVE  IInv'
<1> DEFINE call == calls[c]
           at == IF call.op = "login" /\ Lapsed(call.acc) THEN "lapse"
                 ELSE IF call.dev = Null THEN "session" ELSE "device"
           x == [call EXCEPT !.at = at]
<1>1. call \in Call /\ CallOK(call) /\ call.at = "clear"
  BY CallTyped DEF ClearThrottle, At
<1>2. /\ throttle' = [throttle EXCEPT ![IF call.op = "login" THEN call.tgt ELSE ActivationKey] = Null]
      /\ calls' = [calls EXCEPT ![c] = x]
      /\ UNCHANGED <<clock, scene, left, tables, nonce, failed>>
  BY DEF ClearThrottle, Goto, To, tables
<1>3. throttle' \in [Keys -> Count \cup {Null}] /\ \A k \in Keys : throttle'[k] \in {throttle[k], Null}
  BY <1>2 DEF IInv, TypeOK
<1>4. /\ ThrottleOK'
      /\ failed' \in [Keys -> Nat] /\ \A k \in Keys : failed'[k] >= failed[k]
  <2>1. ThrottleOK'
    BY <1>2, <1>3 DEF IInv, ThrottleOK
  <2>2. failed' = failed /\ failed \in [Keys -> Nat]
    BY <1>2 DEF IInv, TypeOK
  <2>3. failed' \in [Keys -> Nat] /\ \A k \in Keys : failed'[k] >= failed[k]
    BY <2>2
  <2> QED BY <2>1, <2>3
<1>5. at \in {"lapse", "session", "device"} /\ (at = "lapse" => call.op = "login")
      /\ (at = "device" => call.dev # Null) /\ (at = "session" => call.dev = Null)
  OBVIOUS
<1> HIDE DEF at
<1>6. x \in Call
  BY <1>1, <1>5, FieldUpdates DEF Stages
<1>7. SameCall(x, call) /\ x.at = at /\ x.tgt = call.tgt /\ x.acc = call.acc /\ x.before = call.before
  BY <1>1 DEF Call, SameCall
<1> HIDE DEF x
<1>8. CallOK(x)
  <2>1. StageOK(x)
    BY <1>1, <1>5, <1>7 DEF CallOK, StageOK, SameCall
  <2>2. ReadOK(x) /\ CoverOK(x)
    BY <1>1, <1>5, <1>7 DEF CallOK, ReadOK, CoverOK, SameCall, Spared, OwnDevice
  <2>3. RaceOK(x) /\ CountOK(x)
    BY <1>1, <1>5, <1>7 DEF CallOK, RaceOK, CountOK, SameCall
  <2> QED BY <2>1, <2>2, <2>3 DEF CallOK
<1> QED BY <1>2, <1>3, <1>4, <1>6, <1>8, ThrottleStep

-----------------------------------------------------------------------------
(* Calls that only read. *)

quiet == <<clock, scene, left, tables, throttle, failed, nonce>>

\* The failure of a call is going to be counted.
LEMMA FailStep ==
    ASSUME IInv, NEW c \in Slots, calls[c] # Null, NEW key \in Keys, Fail(c, key),
           calls[c].at \notin {"revoke", "mark", "legacy", "done"}, UNCHANGED quiet
    PROVE  IInv'
<1> DEFINE x == [calls[c] EXCEPT !.at = "fail", !.key = key, !.now = clock]
<1>1. calls[c] \in Call /\ CallOK(calls[c])
  BY CallTyped
<1>2. clock \in 0 .. MaxClock /\ clock \in Nat /\ key # Null
  BY AccountsAssumption DEF IInv, TypeOK
<1>3. x \in Call
  BY <1>1, <1>2, FieldUpdates DEF Stages
<1>4. SameCall(x, calls[c]) /\ x.at = "fail" /\ x.key = key /\ x.now = clock
      /\ x.tgt = calls[c].tgt /\ x.acc = calls[c].acc /\ x.before = calls[c].before
  BY <1>1 DEF Call, SameCall
<1>5. calls' = [calls EXCEPT ![c] = x] /\ left' \in 0 .. scene.calls
  BY DEF Fail, To, quiet, IInv, TypeOK
<1> HIDE DEF x
<1>6. CallOK(x)
  <2>1. ReadOK(x)
    BY <1>1, <1>4 DEF CallOK, ReadOK, SameCall
  <2>2. StageOK(x) /\ CountOK(x)
    BY <1>2, <1>4 DEF StageOK, CountOK
  <2>3. CoverOK(x)
    BY <1>1, <1>4 DEF CallOK, CoverOK, SameCall, Spared, OwnDevice
  <2>4. RaceOK(x)
    BY <1>1, <1>4 DEF CallOK, RaceOK, SameCall
  <2> QED BY <2>1, <2>2, <2>3, <2>4 DEF CallOK
<1> QED BY <1>3, <1>5, <1>6, QuietStep DEF quiet

\* A call goes on with the account it has read, at a stage of its kind.
LEMMA AccountStep ==
    ASSUME IInv, NEW c \in Slots, calls[c] # Null, NEW at \in Stages,
           calls[c].at \notin {"revoke", "mark", "legacy", "done"},
           \/ at = "clear" /\ calls[c].op = "login" /\ Active(calls[c].tgt)
           \/ at = "apply" /\ calls[c].op \in AdminOps,
           users[calls[c].tgt] # Null, calls[c].tgt # Null,
           To(c, [calls[c] EXCEPT !.at = at, !.acc = users[calls[c].tgt]]), UNCHANGED quiet
    PROVE  IInv'
<1> DEFINE acc == users[calls[c].tgt]
           x == [calls[c] EXCEPT !.at = at, !.acc = acc]
<1>1. calls[c] \in Call /\ CallOK(calls[c])
  BY CallTyped
<1>2. acc \in Account /\ acc # Null
  BY <1>1, NullAssumption DEF IInv, TypeOK, Call
<1>3. x \in Call
  BY <1>1, <1>2, FieldUpdates
<1>4. SameCall(x, calls[c]) /\ x.at = at /\ x.acc = acc
      /\ x.tgt = calls[c].tgt /\ x.before = calls[c].before
  BY <1>1 DEF Call, SameCall
<1>5. calls' = [calls EXCEPT ![c] = x] /\ left' \in 0 .. scene.calls
  BY DEF To, quiet, IInv, TypeOK
<1>6. calls[c].op \in AdminOps => calls[c].op \notin Entries
  BY DEF AdminOps, Entries
<1> HIDE DEF x
<1>7. CallOK(x)
  <2>1. ReadOK(x)
    BY <1>1, <1>4 DEF CallOK, ReadOK, SameCall
  <2>2. StageOK(x)
    BY <1>2, <1>4 DEF StageOK, SameCall
  <2>3. CoverOK(x) /\ CountOK(x)
    BY <1>1, <1>4 DEF CallOK, CoverOK, CountOK, SameCall, Spared, OwnDevice
  <2>4. RaceOK(x)
    BY <1>4, <1>6 DEF RaceOK, SameCall, Active
  <2> QED BY <2>1, <2>2, <2>3, <2>4 DEF CallOK
<1> QED BY <1>3, <1>5, <1>7, QuietStep DEF quiet

\* The reads of a sign-in.
LEMMA SignInReadInv ==
    ASSUME IInv, NEW c \in Slots, LoginRead(c) \/ ReadDevice(c)
    PROVE  IInv'
<1>1. CASE LoginRead(c)
  <2>1. calls[c] \in Call /\ CallOK(calls[c]) /\ calls[c].at = "read" /\ calls[c].op = "login"
        /\ calls[c] # Null /\ UNCHANGED quiet
    BY <1>1, CallTyped DEF LoginRead, At, quiet, tables
  <2>2. calls[c].tgt \in Users
    BY <2>1 DEF CallOK, ReadOK, Call
  <2>3. CASE calls[c].good /\ Active(calls[c].tgt)
    BY <1>1, <2>1, <2>2, <2>3, AccountStep, AccountsAssumption DEF LoginRead, Stages, Active
  <2>4. CASE ~(calls[c].good /\ Active(calls[c].tgt))
    <3>1. Fail(c, calls[c].tgt) /\ calls[c].tgt \in Keys
      BY <1>1, <2>2, <2>4 DEF LoginRead, Keys
    <3> QED BY <2>1, <3>1, FailStep
  <2> QED BY <2>3, <2>4
<1>2. CASE ReadDevice(c)
  <2> DEFINE known == devices[calls[c].tgt][calls[c].dev] # "none"
             x == [calls[c] EXCEPT !.at = "upsert", !.known = known]
  <2>1. calls[c] \in Call /\ CallOK(calls[c]) /\ calls[c].at = "device" /\ known \in BOOLEAN
    BY <1>2, CallTyped DEF ReadDevice, At
  <2> HIDE DEF known
  <2>2. x \in Call
    BY <2>1, FieldUpdates DEF Stages
  <2>3. SameCall(x, calls[c]) /\ x.at = "upsert" /\ x.known = known /\ x.tgt = calls[c].tgt
        /\ x.acc = calls[c].acc /\ x.before = calls[c].before
    BY <2>1 DEF Call, SameCall
  <2>4. calls' = [calls EXCEPT ![c] = x] /\ UNCHANGED quiet /\ left' \in 0 .. scene.calls
    BY <1>2 DEF ReadDevice, To, quiet, tables, known, IInv, TypeOK
  <2> HIDE DEF x
  <2>5. CallOK(x)
    <3>1. StageOK(x)
      BY <2>1, <2>3 DEF CallOK, StageOK, SameCall, known
    <3>2. ReadOK(x) /\ CoverOK(x)
      BY <2>1, <2>3 DEF CallOK, ReadOK, CoverOK, SameCall, Spared, OwnDevice
    <3>3. RaceOK(x) /\ CountOK(x)
      BY <2>1, <2>3 DEF CallOK, RaceOK, CountOK, SameCall
    <3> QED BY <3>1, <3>2, <3>3 DEF CallOK
  <2> QED BY <2>2, <2>4, <2>5, QuietStep DEF quiet
<1> QED BY <1>1, <1>2

\* requireAuth, and the list of devices a sign-out is about.
LEMMA SessionReadInv ==
    ASSUME IInv, NEW c \in Slots, ReadSession(c) \/ ListDevices(c) \/ Answer(c)
    PROVE  IInv'
<1>1. CASE ReadSession(c)
  <2> DEFINE s == calls[c].sid
             acc == users[calls[c].by]
             at == IF Lapsed(acc) THEN "lapse" ELSE "seen"
             x == [calls[c] EXCEPT !.sys = acc.sys, !.at = at]
  <2>1. calls[c] \in Call /\ CallOK(calls[c]) /\ calls[c].at = "auth" /\ UNCHANGED quiet
    BY <1>1, CallTyped DEF ReadSession, At, quiet, tables
  <2>2. CASE Finish(c)
    BY <2>1, <2>2, QuietFinish DEF quiet
  <2>3. CASE To(c, x)
    <3>1. calls[c].op \notin Entries /\ s \in Sessions /\ sessions[s] # Null /\ sessions[s].user = calls[c].by
      BY <2>1 DEF CallOK, StageOK, ReadOK, Call
    <3>2. acc \in Account
      BY <3>1, NullAssumption DEF IInv, TypeOK, SessionRow
    <3>3. acc.sys \in Roles \cup {Null} /\ at \in {"lapse", "seen"}
      BY <3>2 DEF Account
    <3> HIDE DEF acc, at
    <3>4. x \in Call
      BY <2>1, <3>3, FieldUpdates DEF Stages
    <3>5. SameCall(x, calls[c]) /\ x.at = at /\ x.tgt = calls[c].tgt
          /\ x.acc = calls[c].acc /\ x.before = calls[c].before
      BY <2>1 DEF Call, SameCall
    <3>6. calls' = [calls EXCEPT ![c] = x] /\ left' \in 0 .. scene.calls
      BY <2>1, <2>3 DEF To, quiet, IInv, TypeOK
    <3> HIDE DEF x
    <3>7. CallOK(x)
      BY <2>1, <3>1, <3>3, <3>5, ZenonT(60)
      DEF CallOK, ReadOK, StageOK, CoverOK, RaceOK, CountOK, SameCall, Spared, OwnDevice
    <3> QED BY <2>1, <3>4, <3>6, <3>7, QuietStep DEF quiet
  <2> QED BY <1>1, <2>2, <2>3 DEF ReadSession
<1>2. CASE ListDevices(c)
  <2> DEFINE list == Listed(calls[c])
             before == {s \in Sessions : Live(s) /\ sessions[s].user = calls[c].by}
             x == [calls[c] EXCEPT !.at = "revoke", !.list = list, !.before = before]
  <2>1. /\ calls[c] \in Call /\ CallOK(calls[c]) /\ calls[c].at = "go" /\ UNCHANGED quiet
        /\ calls[c].op \in SignOuts \ {"logout"}
    BY <1>2, CallTyped DEF ListDevices, At, quiet, tables
  <2>2. CASE Finish(c)
    BY <2>1, <2>2, QuietFinish DEF quiet
  <2>3. CASE To(c, x)
    <3>1. list \in SUBSET Devices /\ before \in SUBSET Sessions
      BY DEF Listed
    <3>2. x \in Call
      BY <2>1, <3>1, FieldUpdates DEF Stages
    <3>3. SameCall(x, calls[c]) /\ x.at = "revoke" /\ x.tgt = calls[c].tgt
          /\ x.acc = calls[c].acc /\ x.before = before /\ x.list = list
      BY <2>1 DEF Call, SameCall
    <3>4. calls' = [calls EXCEPT ![c] = x] /\ left' \in 0 .. scene.calls
      BY <2>1, <2>3 DEF To, quiet, IInv, TypeOK
    <3> HIDE DEF x
    <3>5. calls[c].op \in {"device", "others", "all"} /\ calls[c].op \notin Entries
      BY <2>1 DEF SignOuts, Entries
    <3>6. CoverOK(x)
      <4>1. x.op = calls[c].op /\ x.sid = calls[c].sid /\ x.by = calls[c].by /\ x.dev = calls[c].dev
        BY <3>3 DEF SameCall
      <4>2. x.op = "others" => OwnDevice(x) \notin x.list
        BY <3>3, <4>1 DEF Listed, OwnDevice
      <4>3. ASSUME NEW s \in before
            PROVE  Spared(x, s) \/ sessions[s].dev \in list \/ (x.op # "device" /\ sessions[s].dev = Null)
        <5>1. s \in Sessions /\ sessions[s] \in SessionRow /\ sessions[s].user = calls[c].by
          BY NullAssumption DEF IInv, TypeOK, Live
        <5>2. CASE sessions[s].dev = Null
          <6>1. calls[c].op = "device" => calls[c].dev # Null
            BY <2>1 DEF CallOK, ReadOK
          <6> QED BY <4>1, <5>2, <6>1 DEF Spared
        <5>3. CASE sessions[s].dev # Null
          <6>1. sessions[s].dev \in Devices /\ devices[calls[c].by][sessions[s].dev] # "none"
            BY <5>1, <5>3, NullAssumption DEF IInv, TypeOK, SessionRow
          <6> QED BY <3>5, <4>1, <6>1 DEF Listed, Spared, OwnDevice
        <5> QED BY <5>2, <5>3
      <4> QED BY <3>3, <4>2, <4>3 DEF CoverOK
    <3>7. CallOK(x)
      <4>1. \A s \in before : sessions[s] # Null /\ sessions[s].user = calls[c].by
        BY DEF Live
      <4>2. ReadOK(x)
        BY <2>1, <3>3, <4>1 DEF CallOK, ReadOK, SameCall
      <4>3. StageOK(x) /\ RaceOK(x) /\ CountOK(x)
        BY <2>1, <3>3, <3>5 DEF CallOK, StageOK, RaceOK, CountOK, SameCall
      <4> QED BY <3>6, <4>2, <4>3 DEF CallOK
    <3> QED BY <2>1, <3>2, <3>4, <3>7, QuietStep DEF quiet
  <2> QED BY <1>2, <2>2, <2>3 DEF ListDevices
<1>3. CASE Answer(c)
  BY <1>3, QuietFinish DEF Answer, tables
<1> QED BY <1>1, <1>2, <1>3

\* The reads of administration, activation and bootstrap.
LEMMA OtherReadInv ==
    ASSUME IInv, NEW c \in Slots,
           \/ ReadTarget(c) \/ CheckInvitee(c) \/ CheckInvite(c)
           \/ ReadInvite(c) \/ CheckUsername(c) \/ CountUsers(c) \/ CheckNonce(c)
    PROVE  IInv'
<1>1. CASE Finish(c)
  BY <1>1, QuietFinish
  DEF ReadTarget, CheckInvitee, CheckInvite, ReadInvite, CheckUsername, CountUsers, CheckNonce, tables
<1>2. UNCHANGED quiet /\ calls[c] # Null /\ calls[c] \in Call /\ CallOK(calls[c])
  BY CallTyped
  DEF ReadTarget, CheckInvitee, CheckInvite, ReadInvite, CheckUsername, CountUsers, CheckNonce,
      At, tables, quiet
<1>3. CASE ReadTarget(c) /\ ~Finish(c)
  <2>1. /\ calls[c].at = "go" /\ calls[c].op \in AdminOps /\ users[calls[c].tgt] # Null
        /\ To(c, [calls[c] EXCEPT !.at = "apply", !.acc = users[calls[c].tgt]])
    BY <1>3 DEF ReadTarget, Allowed, At
  <2>2. calls[c].tgt # Null
    BY <1>2, <2>1 DEF CallOK, ReadOK
  <2> QED BY <1>2, <2>1, <2>2, AccountStep DEF Stages
<1>4. CASE CheckInvitee(c) /\ ~Finish(c)
  <2>1. calls[c].at = "go" /\ calls[c].op = "create" /\ Goto(c, "withdraw") /\ calls[c].tgt # Null
    BY <1>2, <1>4 DEF CheckInvitee, At, CallOK, ReadOK
  <2>2. \A x \in Call : SameCall(x, calls[c]) /\ x.at = "withdraw" /\ x.tgt = calls[c].tgt => StageOK(x)
    BY <2>1 DEF SameCall, StageOK, InviteOps
  <2> QED BY <1>2, <2>1, <2>2, QuietGoto, ZenonT(60) DEF quiet, Stages
<1>5. CASE CheckInvite(c) /\ ~Finish(c)
  <2> DEFINE i == calls[c].inv
             tgt == invites[i].name
             external == invites[i].external
             x == [calls[c] EXCEPT !.at = "withdraw", !.tgt = tgt, !.external = external]
  <2>1. /\ calls[c].at = "go" /\ calls[c].op \in {"revoke", "regenerate"}
        /\ To(c, x)
    BY <1>5 DEF CheckInvite, At
  <2>2. invites[i] \in Invite
    BY <1>2, <2>1, NullAssumption DEF CallOK, ReadOK, Call, IInv, TypeOK
  <2>3. tgt \in Users /\ external \in BOOLEAN /\ tgt # Null
    BY <2>2, AccountsAssumption DEF Invite
  <2> HIDE DEF tgt, external
  <2>4. x \in Call
    BY <1>2, <2>3, FieldUpdates DEF Stages
  <2>5. SameCall(x, calls[c]) /\ x.at = "withdraw" /\ x.tgt = tgt
        /\ x.acc = calls[c].acc /\ x.before = calls[c].before
    BY <1>2 DEF Call, SameCall
  <2>6. calls' = [calls EXCEPT ![c] = x] /\ left' \in 0 .. scene.calls
    BY <1>2, <2>1 DEF To, quiet, IInv, TypeOK
  <2> HIDE DEF x
  <2>7. CallOK(x)
    BY <1>2, <2>1, <2>3, <2>5
    DEF CallOK, ReadOK, StageOK, CoverOK, RaceOK, CountOK, SameCall, Spared, OwnDevice, InviteOps
  <2> QED BY <1>2, <2>4, <2>6, <2>7, QuietStep DEF quiet
<1>6. CASE ReadInvite(c) /\ ~Finish(c)
  <2> DEFINE invite == invites[calls[c].inv]
             at == IF invite.until <= clock THEN "expire" ELSE "exists"
             tgt == invite.name
             x == [calls[c] EXCEPT !.at = at, !.tgt = tgt]
  <2>1. calls[c].at = "read" /\ calls[c].op = "activate"
    BY <1>6 DEF ReadInvite, At
  <2>2. CASE Fail(c, ActivationKey)
    BY <1>2, <2>1, <2>2, FailStep DEF Keys
  <2>3. CASE calls[c].good /\ To(c, x)
    <3>1. invite \in Invite
      BY <1>2, <2>1, <2>3, NullAssumption DEF CallOK, ReadOK, Call, IInv, TypeOK
    <3>2. tgt \in Users /\ at \in {"expire", "exists"}
      BY <3>1 DEF Invite
    <3> HIDE DEF at
    <3>3. x \in Call
      BY <1>2, <3>2, FieldUpdates DEF Stages
    <3>4. SameCall(x, calls[c]) /\ x.at = at /\ x.tgt = tgt
          /\ x.acc = calls[c].acc /\ x.before = calls[c].before
      BY <1>2 DEF Call, SameCall
    <3>5. calls' = [calls EXCEPT ![c] = x] /\ left' \in 0 .. scene.calls
      BY <1>2, <2>3 DEF To, quiet, IInv, TypeOK
    <3> HIDE DEF x
    <3>6. CallOK(x)
      <4>1. x.acc = Null /\ x.op = "activate" /\ x.good
        BY <1>2, <2>1, <2>3, <3>4 DEF CallOK, StageOK, SameCall
      <4>2. ReadOK(x)
        <5>1. ReadOK(calls[c])
          BY <1>2 DEF CallOK
        <5>2. x.op \notin {"login", "bootstrap", "create", "revoke", "regenerate"} \cup AdminOps
          BY <4>1 DEF AdminOps
        <5>3. x.op \notin {"lifecycle", "role", "device"}
          BY <4>1
        <5>4. /\ x.sid = calls[c].sid /\ x.by = calls[c].by /\ x.inv = calls[c].inv
              /\ x.before = calls[c].before /\ x.op = calls[c].op /\ x.good = calls[c].good
          BY <3>4 DEF SameCall
        <5> QED BY <4>1, <5>1, <5>2, <5>3, <5>4 DEF ReadOK
      <4>3. StageOK(x)
        <5>1. x.inv = calls[c].inv
          BY <3>4 DEF SameCall
        <5> QED BY <3>2, <3>4, <4>1, <5>1 DEF StageOK
      <4>4. CoverOK(x) /\ CountOK(x) /\ RaceOK(x)
        BY <1>2, <2>1, <3>2, <3>4, <4>1
        DEF CallOK, CoverOK, CountOK, RaceOK, SameCall, Spared, OwnDevice
      <4> QED BY <4>2, <4>3, <4>4 DEF CallOK
    <3> QED BY <1>2, <3>3, <3>5, <3>6, QuietStep DEF quiet
  <2> QED BY <1>6, <2>2, <2>3 DEF ReadInvite
<1>7. CASE CheckUsername(c) /\ ~Finish(c)
  <2>1. calls[c].at = "exists" /\ Goto(c, "join")
    BY <1>7 DEF CheckUsername, At
  <2>2. \A x \in Call : SameCall(x, calls[c]) /\ x.at = "join" /\ x.tgt = calls[c].tgt => StageOK(x)
    BY <1>2, <2>1 DEF SameCall, StageOK, CallOK
  <2> QED BY <1>2, <2>1, <2>2, QuietGoto, ZenonT(60) DEF quiet, Stages
<1>8. CASE CountUsers(c) /\ ~Finish(c)
  <2>1. calls[c].at = "count users" /\ Goto(c, "nonce")
    BY <1>8 DEF CountUsers, At
  <2>2. \A x \in Call : SameCall(x, calls[c]) /\ x.at = "nonce" => StageOK(x)
    BY <1>2, <2>1 DEF SameCall, StageOK, CallOK
  <2> QED BY <1>2, <2>1, <2>2, QuietGoto, ZenonT(60) DEF quiet, Stages
<1>9. CASE CheckNonce(c) /\ ~Finish(c)
  <2>1. calls[c].at = "nonce" /\ Goto(c, "found")
    BY <1>9 DEF CheckNonce, At
  <2>2. \A x \in Call : SameCall(x, calls[c]) /\ x.at = "found" => StageOK(x)
    BY <1>2, <2>1 DEF SameCall, StageOK, CallOK
  <2> QED BY <1>2, <2>1, <2>2, QuietGoto, ZenonT(60) DEF quiet, Stages
<1> QED BY <1>1, <1>3, <1>4, <1>5, <1>6, <1>7, <1>8, <1>9

-----------------------------------------------------------------------------
(* Steps that write the tables. *)

LEMMA Rows ==
    ASSUME IInv
    PROVE  /\ \A u \in Users : users[u] # Null => users[u] \in Account
           /\ \A s \in Sessions : sessions[s] # Null => sessions[s] \in SessionRow
           /\ \A i \in Invites : invites[i] # Null => invites[i] \in Invite
           /\ Null \notin Account /\ Null \notin SessionRow /\ Null \notin Invite /\ Null \notin Call
BY NullAssumption DEF IInv, TypeOK

\* No row that a call refers to goes, or changes in what it says of others, and
\* no session comes back to life.
Kept ==
    /\ \A u \in Users : users[u] # Null => users'[u] # Null
    /\ \A u \in Users, d \in Devices : devices[u][d] # "none" => devices'[u][d] # "none"
    /\ \A i \in Invites : invites[i] # Null =>
           invites'[i] # Null /\ invites'[i].name = invites[i].name
    /\ \A s \in Sessions : sessions[s] # Null =>
           \/ Free(s)
           \/ /\ sessions'[s] # Null /\ sessions'[s].user = sessions[s].user
              /\ sessions'[s].dev = sessions[s].dev
              /\ sessions'[s].live => sessions[s].live

\* What a call refers to is kept.
LEMMA KeptRead ==
    ASSUME IInv, Kept, NEW c \in Slots, calls[c] # Null, SameCall(calls'[c], calls[c]) \/
               SameCall(calls'[c], [calls[c] EXCEPT !.raced = TRUE]),
           calls'[c].tgt = calls[c].tgt, calls'[c].before = calls[c].before,
           \/ calls'[c].acc = calls[c].acc
           \/ calls[c].tgt # Null /\ users'[calls[c].tgt] # Null
    PROVE  ReadOK(calls[c])'
<1>1. calls[c] \in Call /\ ReadOK(calls[c])
  BY CallTyped DEF CallOK
<1>2. /\ calls'[c].op = calls[c].op /\ calls'[c].sid = calls[c].sid /\ calls'[c].by = calls[c].by
      /\ calls'[c].dev = calls[c].dev /\ calls'[c].inv = calls[c].inv
      /\ calls'[c].status = calls[c].status /\ calls'[c].role = calls[c].role
      /\ calls'[c].good = calls[c].good
  BY <1>1 DEF SameCall, Call
<1>3. ASSUME NEW s \in Sessions, s = calls[c].sid \/ s \in calls[c].before
      PROVE  sessions[s] # Null =>
                 sessions'[s] # Null /\ sessions'[s].user = sessions[s].user
  BY <1>3 DEF Kept, Free
<1>4. calls'[c].sid # Null => sessions'[calls'[c].sid] # Null /\ sessions'[calls'[c].sid].user = calls'[c].by
  BY <1>1, <1>2, <1>3 DEF ReadOK, Call
<1>5. \A s \in calls'[c].before : sessions'[s] # Null /\ sessions'[s].user = calls'[c].by
  BY <1>1, <1>2, <1>3 DEF ReadOK, Call
<1>6. \A i \in Invites : i = calls[c].inv /\ invites[i] # Null => invites'[i] # Null
  BY DEF Kept
<1>7. calls'[c].op = "activate" /\ calls'[c].good => invites'[calls'[c].inv] # Null
  BY <1>1, <1>2, <1>6 DEF ReadOK, Call
<1>8. calls'[c].op \in {"revoke", "regenerate"} => invites'[calls'[c].inv] # Null
  BY <1>1, <1>2, <1>6 DEF ReadOK, Call
<1>9. calls'[c].acc # Null => calls'[c].tgt # Null /\ users'[calls'[c].tgt] # Null
  BY <1>1 DEF ReadOK, Call, Kept
<1> QED BY <1>1, <1>2, <1>4, <1>5, <1>7, <1>8, <1>9 DEF ReadOK

\* A call that is not between its statements owes no session more than before.
LEMMA KeptCover ==
    ASSUME IInv, Kept, NEW c \in Slots, calls[c] # Null,
           \/ SameCall(calls'[c], calls[c])
           \/ SameCall(calls'[c], [calls[c] EXCEPT !.raced = TRUE]),
           calls'[c].before = calls[c].before, calls'[c].list = calls[c].list,
           \/ calls'[c].at = calls[c].at
           \/ calls[c].at \notin {"revoke", "mark", "legacy"} /\ calls'[c].at # "revoke"
    PROVE  CoverOK(calls[c])'
<1>1. calls[c] \in Call /\ ReadOK(calls[c]) /\ CoverOK(calls[c])
  BY CallTyped DEF CallOK
<1>2. /\ calls'[c].op = calls[c].op /\ calls'[c].sid = calls[c].sid /\ calls'[c].by = calls[c].by
      /\ calls'[c].dev = calls[c].dev
  BY <1>1 DEF SameCall, Call
<1>3. ASSUME NEW s \in Sessions, s = calls[c].sid \/ s \in calls[c].before, sessions[s] # Null
      PROVE  sessions'[s] # Null /\ sessions'[s].dev = sessions[s].dev
             /\ (sessions'[s].live => sessions[s].live)
  BY <1>3 DEF Kept, Free
<1>4. calls'[c].sid # Null => OwnDevice(calls[c])' = OwnDevice(calls[c])
  BY <1>1, <1>2, <1>3 DEF ReadOK, Call, OwnDevice
<1>5. calls[c].op = "others" => calls[c].sid # Null
  BY <1>1 DEF ReadOK, Entries
<1>6. (calls[c].op = "others" /\ calls[c].at = "revoke" => OwnDevice(calls[c]) \notin calls[c].list)'
  BY <1>1, <1>2, <1>4, <1>5 DEF CoverOK
<1>7. ASSUME NEW s \in Sessions, s \in calls[c].before, Live(s)'
      PROVE  (\/ Spared(calls[c], s)
              \/ calls[c].at = "revoke" /\ sessions[s].dev \in calls[c].list
              \/ /\ calls[c].at \in {"revoke", "mark", "legacy"} /\ calls[c].op # "device"
                 /\ sessions[s].dev = Null)'
  <2>1. sessions[s] # Null
    BY <1>1, <1>7 DEF ReadOK
  <2>2. sessions'[s].dev = sessions[s].dev /\ Live(s)
    BY <1>3, <1>7, <2>1 DEF Live
  <2>3. Spared(calls[c], s) => Spared(calls[c], s)'
    BY <1>2, <1>4, <1>5, <2>2 DEF Spared
  <2>4. \/ Spared(calls[c], s)
        \/ calls[c].at = "revoke" /\ sessions[s].dev \in calls[c].list
        \/ calls[c].at \in {"revoke", "mark", "legacy"} /\ calls[c].op # "device" /\ sessions[s].dev = Null
    BY <1>1, <1>7, <2>2 DEF CoverOK
  <2> QED BY <1>2, <2>2, <2>3, <2>4
<1>8. calls'[c].before = calls[c].before /\ calls[c].before \subseteq Sessions
  BY <1>1 DEF Call
<1> QED BY <1>6, <1>7, <1>8 DEF CoverOK

\* A call that a step of another does no more than tell of its race is in order,
\* up to that race.
LEMMA KeptCall ==
    ASSUME IInv, Kept, NEW c \in Slots, calls[c] # Null, UNCHANGED <<clock, failed>>,
           calls'[c] \in {calls[c], [calls[c] EXCEPT !.raced = TRUE]}
    PROVE  (ReadOK(calls[c]) /\ StageOK(calls[c]) /\ CoverOK(calls[c]) /\ CountOK(calls[c]))'
<1>1. calls[c] \in Call /\ CallOK(calls[c])
  BY CallTyped
<1>2. /\ calls'[c].at = calls[c].at /\ calls'[c].tgt = calls[c].tgt /\ calls'[c].acc = calls[c].acc
      /\ calls'[c].before = calls[c].before /\ calls'[c].list = calls[c].list
      /\ calls'[c].key = calls[c].key /\ calls'[c].now = calls[c].now /\ calls'[c].row = calls[c].row
      /\ calls'[c].op = calls[c].op /\ calls'[c].dev = calls[c].dev /\ calls'[c].inv = calls[c].inv
      /\ calls'[c].good = calls[c].good
  BY <1>1 DEF Call
<1>3. \/ SameCall(calls'[c], calls[c])
      \/ SameCall(calls'[c], [calls[c] EXCEPT !.raced = TRUE])
  BY DEF SameCall
<1>4. ReadOK(calls[c])' /\ CoverOK(calls[c])'
  BY <1>2, <1>3, KeptRead, KeptCover
<1>5. StageOK(calls[c])'
  <2>1. calls[c].at \in {"expire", "exists", "join"} =>
            invites[calls[c].inv] # Null /\ calls[c].inv \in Invites
    BY <1>1 DEF CallOK, StageOK, ReadOK, Call
  <2>2. calls[c].at \in {"expire", "exists", "join"} =>
            invites'[calls[c].inv].name = invites[calls[c].inv].name
    BY <2>1 DEF Kept
  <2>3. StageOK(calls[c])
    BY <1>1 DEF CallOK
  <2>4. calls[c].at \in {"expire", "exists", "join"} =>
            calls'[c].op = "activate" /\ calls'[c].good /\ calls'[c].tgt = invites'[calls'[c].inv].name
    BY <1>2, <2>2, <2>3 DEF StageOK
  <2>5. calls[c].at \in {"upsert", "session"} /\ calls[c].dev # Null /\ calls[c].known =>
            devices'[calls[c].tgt][calls[c].dev] # "none"
    <3>1. calls[c].at \in {"upsert", "session"} /\ calls[c].dev # Null =>
              calls[c].tgt \in Users /\ calls[c].dev \in Devices
      BY <1>1, <2>3 DEF CallOK, StageOK, ReadOK, Call
    <3> QED BY <2>3, <3>1 DEF Kept, StageOK
  <2>6. calls'[c].known = calls[c].known
    BY <1>1 DEF Call
  <2> QED BY ONLY <1>2, <2>3, <2>4, <2>5, <2>6, ZenonT(60) DEF StageOK
<1>6. CountOK(calls[c])'
  BY <1>1, <1>2 DEF CallOK, CountOK
<1> QED BY <1>4, <1>5, <1>6

\* A step that writes the tables preserves the invariant if the rows keep what
\* the calls rely on, no active user is disabled, and the call that makes the
\* step and the rows are in order.
LEMMA TableStep ==
    ASSUME IInv, NEW c \in Slots, NEW x,
           calls' = [calls EXCEPT ![c] = x],
           UNCHANGED <<clock, scene, left, throttle, failed>>, Kept,
           \A u \in Users : Active(u) => Active(u)',
           calls'[c] # Null => CallOK(calls[c])',
           TypeOK', JoinedOK', SessionsOK'
    PROVE  IInv'
<1>1. ASSUME NEW k \in Slots, calls'[k] # Null
      PROVE  CallOK(calls[k])'
  <2>1. CASE k = c
    BY <1>1, <2>1
  <2>2. CASE k # c
    <3>1. calls'[k] = calls[k] /\ calls[k] \in Call /\ CallOK(calls[k])
      BY <1>1, <2>2, CallTyped DEF IInv, TypeOK
    <3>2. (ReadOK(calls[k]) /\ StageOK(calls[k]) /\ CoverOK(calls[k]) /\ CountOK(calls[k]))'
      BY <1>1, <3>1, KeptCall
    <3>3. RaceOK(calls[k])'
      <4>1. calls[k].acc # Null => calls[k].tgt \in Users /\ users[calls[k].tgt] # Null
        BY <3>1 DEF CallOK, ReadOK, Call
      <4> QED BY <3>1, <4>1 DEF CallOK, RaceOK, Active
    <3> QED BY <3>2, <3>3 DEF CallOK
  <2> QED BY <2>1, <2>2
<1>2. CallsOK'
  BY <1>1 DEF CallsOK
<1>3. ThrottleOK'
  BY DEF IInv, ThrottleOK
<1> QED BY <1>2, <1>3 DEF IInv

\* The sessions that a statement revokes are over, and the others as they were.
LEMMA RevokedRows ==
    ASSUME IInv, NEW u, NEW devs
    PROVE  /\ Revoked(u, devs) \in [Sessions -> SessionRow \cup {Null}]
           /\ \A s \in Sessions : sessions[s] = Null => Revoked(u, devs)[s] = Null
           /\ \A s \in Sessions : sessions[s] # Null =>
                  /\ Revoked(u, devs)[s] # Null
                  /\ Revoked(u, devs)[s].user = sessions[s].user
                  /\ Revoked(u, devs)[s].dev = sessions[s].dev
                  /\ Revoked(u, devs)[s].raced = sessions[s].raced
                  /\ Revoked(u, devs)[s].live =
                         (sessions[s].live /\ ~(sessions[s].user = u /\ sessions[s].dev \in devs))
<1>1. ASSUME NEW s \in Sessions, sessions[s] # Null
      PROVE  LET t == [sessions[s] EXCEPT !.live = FALSE]
             IN  /\ t \in SessionRow /\ t # Null /\ t.user = sessions[s].user /\ t.dev = sessions[s].dev
                 /\ t.raced = sessions[s].raced /\ t.live = FALSE
  BY <1>1, Rows DEF SessionRow
<1>2. \A s \in Sessions : sessions[s] # Null => sessions[s] \in SessionRow /\ sessions[s].live \in BOOLEAN
  BY Rows DEF SessionRow
<1>3. Revoked(u, devs) \in [Sessions -> SessionRow \cup {Null}]
  BY <1>1, Rows DEF Revoked, Live, IInv, TypeOK
<1>4. \A s \in Sessions : sessions[s] = Null => Revoked(u, devs)[s] = Null
  BY DEF Revoked, Live
<1>5. ASSUME NEW s \in Sessions, sessions[s] # Null
      PROVE  /\ Revoked(u, devs)[s] # Null
             /\ Revoked(u, devs)[s].user = sessions[s].user
             /\ Revoked(u, devs)[s].dev = sessions[s].dev
             /\ Revoked(u, devs)[s].raced = sessions[s].raced
             /\ Revoked(u, devs)[s].live =
                    (sessions[s].live /\ ~(sessions[s].user = u /\ sessions[s].dev \in devs))
  <2>1. CASE sessions[s].live /\ sessions[s].user = u /\ sessions[s].dev \in devs
    <3>1. Revoked(u, devs)[s] = [sessions[s] EXCEPT !.live = FALSE]
      BY <1>5, <2>1 DEF Revoked, Live
    <3> QED BY <1>1, <1>5, <2>1, <3>1
  <2>2. CASE ~(sessions[s].live /\ sessions[s].user = u /\ sessions[s].dev \in devs)
    <3>1. Revoked(u, devs)[s] = sessions[s]
      BY <2>2 DEF Revoked, Live
    <3> QED BY <1>2, <1>5, <2>2, <3>1
  <2> QED BY <2>1, <2>2
<1> QED BY <1>3, <1>4, <1>5

\* A step that only ends sessions, and does so for c's call.
LEMMA SessionsStep ==
    ASSUME IInv, NEW c \in Slots, NEW x, calls' = [calls EXCEPT ![c] = x],
           x = Null \/ x \in Call,
           UNCHANGED <<clock, scene, left, users, devices, invites, throttle, failed, nonce>>,
           sessions' \in [Sessions -> SessionRow \cup {Null}],
           \A s \in Sessions : sessions[s] = Null => sessions'[s] = Null,
           \A s \in Sessions : sessions[s] # Null =>
               /\ sessions'[s] # Null /\ sessions'[s].user = sessions[s].user
               /\ sessions'[s].dev = sessions[s].dev /\ sessions'[s].raced = sessions[s].raced
               /\ sessions'[s].live => sessions[s].live,
           calls'[c] # Null => CallOK(calls[c])'
    PROVE  IInv'
<1>1. Kept
  BY DEF Kept
<1>2. TypeOK'
  <2>1. calls' \in [Slots -> Call \cup {Null}]
    BY DEF IInv, TypeOK
  <2>2. (\A s \in Sessions : sessions[s] # Null => users[sessions[s].user] # Null)'
    BY DEF IInv, TypeOK
  <2>3. (\A s \in Sessions : sessions[s] # Null /\ sessions[s].dev # Null =>
           devices[sessions[s].user][sessions[s].dev] # "none")'
    BY DEF IInv, TypeOK
  <2> QED BY <2>1, <2>2, <2>3 DEF IInv, TypeOK
<1>3. SessionsOK'
  BY DEF IInv, SessionsOK, Live
<1>4. JoinedOK'
  BY DEF IInv, JoinedOK
<1>5. \A u \in Users : Active(u) => Active(u)'
  BY DEF Active
<1> QED BY <1>1, <1>2, <1>3, <1>4, <1>5, TableStep

LEMMA GotoFields ==
    ASSUME IInv, NEW c \in Slots, calls[c] # Null, NEW at \in Stages, Goto(c, at)
    PROVE  /\ calls' = [calls EXCEPT ![c] = [calls[c] EXCEPT !.at = at]]
           /\ [calls[c] EXCEPT !.at = at] \in Call /\ calls'[c] \in Call
           /\ SameCall(calls'[c], calls[c]) /\ calls'[c].at = at
           /\ calls'[c].tgt = calls[c].tgt /\ calls'[c].acc = calls[c].acc
           /\ calls'[c].before = calls[c].before /\ calls'[c].list = calls[c].list
           /\ calls'[c].key = calls[c].key /\ calls'[c].now = calls[c].now
           /\ calls'[c].row = calls[c].row /\ calls'[c].known = calls[c].known
<1> DEFINE x == [calls[c] EXCEPT !.at = at]
<1>1. calls[c] \in Call
  BY CallTyped
<1>2. x \in Call
  BY <1>1, FieldUpdates
<1>3. SameCall(x, calls[c]) /\ x.at = at /\ x.tgt = calls[c].tgt /\ x.acc = calls[c].acc
      /\ x.before = calls[c].before /\ x.list = calls[c].list /\ x.key = calls[c].key
      /\ x.now = calls[c].now /\ x.row = calls[c].row /\ x.known = calls[c].known
  BY <1>1 DEF Call, SameCall
<1>4. calls' = [calls EXCEPT ![c] = x] /\ calls'[c] = x
  BY DEF Goto, To, IInv, TypeOK
<1> HIDE DEF x
<1> QED BY <1>2, <1>3, <1>4 DEF x

LEMMA LogoutInv ==
    ASSUME IInv, NEW c \in Slots, Logout(c)
    PROVE  IInv'
<1>1. calls[c] # Null /\ calls[c] \in Call /\ CallOK(calls[c]) /\ calls[c].op = "logout"
  BY CallTyped DEF Logout, At
<1>2. calls[c].sid \in Sessions /\ sessions[calls[c].sid] # Null
  BY <1>1 DEF CallOK, ReadOK, Entries, Call
<1> DEFINE t == [sessions[calls[c].sid] EXCEPT !.live = FALSE]
<1>3. /\ t \in SessionRow /\ t # Null /\ t.user = sessions[calls[c].sid].user
      /\ t.dev = sessions[calls[c].sid].dev /\ t.raced = sessions[calls[c].sid].raced /\ t.live = FALSE
  BY <1>2, Rows DEF SessionRow
<1>4. sessions' = [sessions EXCEPT ![calls[c].sid] = t] /\ calls' = [calls EXCEPT ![c] = Null]
  BY DEF Logout, Finish, To
<1> HIDE DEF t
<1>5. sessions' \in [Sessions -> SessionRow \cup {Null}]
  BY <1>2, <1>3, <1>4 DEF IInv, TypeOK
<1>6. ASSUME NEW s \in Sessions
      PROVE  sessions'[s] = IF s = calls[c].sid THEN t ELSE sessions[s]
  BY <1>2, <1>4 DEF IInv, TypeOK
<1>7. calls'[c] = Null
  BY <1>4 DEF IInv, TypeOK
<1>8. UNCHANGED <<clock, scene, left, users, devices, invites, throttle, failed, nonce>>
  BY DEF Logout
<1>9. \A s \in Sessions : sessions[s] # Null =>
               /\ sessions'[s] # Null /\ sessions'[s].user = sessions[s].user
               /\ sessions'[s].dev = sessions[s].dev /\ sessions'[s].raced = sessions[s].raced
               /\ sessions'[s].live => sessions[s].live
  BY <1>3, <1>6
<1>10. \A s \in Sessions : sessions[s] = Null => sessions'[s] = Null
  BY <1>2, <1>6
<1> QED BY <1>4, <1>5, <1>7, <1>8, <1>9, <1>10, SessionsStep

\* The sessions of the listed devices are over, and what is left to be done by
\* the statements still to come is the sessions without a device.
LEMMA RevokeListedInv ==
    ASSUME IInv, NEW c \in Slots, RevokeListed(c)
    PROVE  IInv'
<1>1. calls[c] # Null /\ calls[c] \in Call /\ CallOK(calls[c]) /\ calls[c].at = "revoke"
  BY CallTyped DEF RevokeListed, At
<1>2. sessions' = Revoked(calls[c].by, calls[c].list) /\ Goto(c, "mark")
      /\ UNCHANGED <<clock, scene, left, users, devices, invites, throttle, failed, nonce>>
  BY DEF RevokeListed
<1>3. \A s \in Sessions : sessions[s] # Null =>
          /\ sessions'[s] # Null /\ sessions'[s].user = sessions[s].user
          /\ sessions'[s].dev = sessions[s].dev /\ sessions'[s].raced = sessions[s].raced
          /\ sessions'[s].live =
                 (sessions[s].live /\ ~(sessions[s].user = calls[c].by /\ sessions[s].dev \in calls[c].list))
  BY <1>2, RevokedRows
<1>4. sessions' \in [Sessions -> SessionRow \cup {Null}]
      /\ \A s \in Sessions : sessions[s] = Null => sessions'[s] = Null
  BY <1>2, RevokedRows
<1>5. Kept
  BY <1>2, <1>3 DEF Kept
<1>6. /\ calls' = [calls EXCEPT ![c] = [calls[c] EXCEPT !.at = "mark"]]
      /\ [calls[c] EXCEPT !.at = "mark"] \in Call
      /\ SameCall(calls'[c], calls[c]) /\ calls'[c].at = "mark"
      /\ calls'[c].tgt = calls[c].tgt /\ calls'[c].acc = calls[c].acc
      /\ calls'[c].before = calls[c].before /\ calls'[c].list = calls[c].list
  BY <1>1, <1>2, GotoFields DEF Stages
<1>7. ReadOK(calls[c])'
  BY <1>1, <1>5, <1>6, KeptRead
<1>8. StageOK(calls[c])'
  BY <1>1, <1>6 DEF CallOK, StageOK, SameCall
<1>9. (RaceOK(calls[c]) /\ CountOK(calls[c]))'
  BY <1>1, <1>2, <1>6 DEF CallOK, StageOK, RaceOK, CountOK, SameCall, SignOuts, Entries
<1>10. CoverOK(calls[c])'
  <2>1. ASSUME NEW s \in calls[c].before, Live(s)'
        PROVE  Spared(calls[c], s)' \/ (calls[c].op # "device" /\ sessions[s].dev = Null)'
    <3>1. s \in Sessions /\ sessions[s] # Null /\ sessions[s].user = calls[c].by
      BY <1>1 DEF CallOK, ReadOK, Call
    <3>2. Live(s) /\ sessions[s].dev \notin calls[c].list /\ sessions'[s].dev = sessions[s].dev
      BY <1>3, <2>1, <3>1 DEF Live
    <3>3. Spared(calls[c], s) \/ (calls[c].op # "device" /\ sessions[s].dev = Null)
      BY <1>1, <3>2 DEF CallOK, CoverOK
    <3>4. calls[c].op = "others" => OwnDevice(calls[c])' = OwnDevice(calls[c])
      <4>1. calls[c].op = "others" => calls[c].sid \in Sessions /\ sessions[calls[c].sid] # Null
        BY <1>1 DEF CallOK, ReadOK, Entries, Call
      <4> QED BY <1>3, <1>6, <4>1 DEF OwnDevice, SameCall
    <3> QED BY <1>6, <3>2, <3>3, <3>4 DEF Spared, SameCall
  <2> QED BY <1>6, <2>1 DEF CoverOK
<1> QED BY <1>2, <1>3, <1>4, <1>6, <1>7, <1>8, <1>9, <1>10, SessionsStep DEF CallOK

\* The sessions without a device are over, or the caller's own is one of them.
LEMMA RevokeLegacyInv ==
    ASSUME IInv, NEW c \in Slots, RevokeLegacy(c)
    PROVE  IInv'
<1>1. calls[c] # Null /\ calls[c] \in Call /\ CallOK(calls[c]) /\ calls[c].at = "legacy"
      /\ calls[c].op \in {"device", "others", "all"}
  BY CallTyped DEF RevokeLegacy, At, CallOK, StageOK, SignOuts
<1>2. Goto(c, "done") /\ UNCHANGED <<clock, scene, left, users, devices, invites, throttle, failed, nonce>>
  BY DEF RevokeLegacy
<1>3. sessions' = IF LegacyToo(calls[c]) THEN Revoked(calls[c].by, {Null}) ELSE sessions
  BY DEF RevokeLegacy
<1>4. /\ sessions' \in [Sessions -> SessionRow \cup {Null}]
      /\ \A s \in Sessions : sessions[s] = Null => sessions'[s] = Null
      /\ \A s \in Sessions : sessions[s] # Null =>
             /\ sessions'[s] # Null /\ sessions'[s].user = sessions[s].user
             /\ sessions'[s].dev = sessions[s].dev /\ sessions'[s].raced = sessions[s].raced
             /\ sessions'[s].live => sessions[s].live
             /\ sessions'[s].live /\ LegacyToo(calls[c]) =>
                    ~(sessions[s].user = calls[c].by /\ sessions[s].dev = Null)
  <2>1. CASE LegacyToo(calls[c])
    <3>1. sessions' = Revoked(calls[c].by, {Null})
      BY <1>3, <2>1
    <3>2. \A s \in Sessions : sessions[s] # Null =>
              /\ sessions'[s] # Null /\ sessions'[s].user = sessions[s].user
              /\ sessions'[s].dev = sessions[s].dev /\ sessions'[s].raced = sessions[s].raced
              /\ sessions'[s].live =
                     (sessions[s].live /\ ~(sessions[s].user = calls[c].by /\ sessions[s].dev \in {Null}))
      BY <3>1, RevokedRows
    <3>3. sessions' \in [Sessions -> SessionRow \cup {Null}]
          /\ \A s \in Sessions : sessions[s] = Null => sessions'[s] = Null
      BY <3>1, RevokedRows
    <3> QED BY <3>2, <3>3
  <2>2. CASE ~LegacyToo(calls[c])
    BY <1>3, <2>2 DEF IInv, TypeOK
  <2> QED BY <2>1, <2>2
<1>5. Kept
  BY <1>2, <1>4 DEF Kept
<1>6. /\ calls' = [calls EXCEPT ![c] = [calls[c] EXCEPT !.at = "done"]]
      /\ [calls[c] EXCEPT !.at = "done"] \in Call
      /\ SameCall(calls'[c], calls[c]) /\ calls'[c].at = "done"
      /\ calls'[c].tgt = calls[c].tgt /\ calls'[c].acc = calls[c].acc
      /\ calls'[c].before = calls[c].before /\ calls'[c].list = calls[c].list
  BY <1>1, <1>2, GotoFields DEF Stages
<1>7. ReadOK(calls[c])'
  BY <1>1, <1>5, <1>6, KeptRead
<1>8. StageOK(calls[c])'
  BY <1>1, <1>6 DEF CallOK, StageOK, SameCall
<1>9. (RaceOK(calls[c]) /\ CountOK(calls[c]))'
  BY <1>1, <1>2, <1>6 DEF CallOK, RaceOK, CountOK, SameCall, Entries
<1>10. CoverOK(calls[c])'
  <2>1. ASSUME NEW s \in calls[c].before, Live(s)'
        PROVE  Spared(calls[c], s)'
    <3>1. s \in Sessions /\ sessions[s] # Null /\ sessions[s].user = calls[c].by
      BY <1>1 DEF CallOK, ReadOK, Call
    <3>2. Live(s) /\ sessions'[s].dev = sessions[s].dev
          /\ ~(LegacyToo(calls[c]) /\ sessions[s].dev = Null)
      BY <1>4, <2>1, <3>1 DEF Live
    <3>3. Spared(calls[c], s) \/ (calls[c].op # "device" /\ sessions[s].dev = Null)
      BY <1>1, <3>2 DEF CallOK, CoverOK
    <3>4. Spared(calls[c], s)
      BY <1>1, <3>2, <3>3 DEF Spared, LegacyToo
    <3>5. calls[c].op = "others" => OwnDevice(calls[c])' = OwnDevice(calls[c])
      <4>1. calls[c].op = "others" => calls[c].sid \in Sessions /\ sessions[calls[c].sid] # Null
        BY <1>1 DEF CallOK, ReadOK, Entries, Call
      <4> QED BY <1>4, <1>6, <4>1 DEF OwnDevice, SameCall
    <3> QED BY <1>6, <3>2, <3>4, <3>5 DEF Spared, SameCall
  <2> QED BY <1>6, <2>1 DEF CoverOK
<1> QED BY <1>2, <1>4, <1>6, <1>7, <1>8, <1>9, <1>10, SessionsStep DEF CallOK

LEMMA ApplyForceLogoutInv ==
    ASSUME IInv, NEW c \in Slots, ApplyForceLogout(c)
    PROVE  IInv'
<1>1. calls[c] # Null /\ calls[c] \in Call /\ CallOK(calls[c]) /\ calls[c].at = "apply"
      /\ calls[c].op = "force"
  BY CallTyped DEF ApplyForceLogout, At
<1>2. sessions' = Revoked(calls[c].tgt, AnyDevice) /\ Goto(c, "unmark")
      /\ UNCHANGED <<clock, scene, left, users, devices, invites, throttle, failed, nonce>>
  BY DEF ApplyForceLogout, Goto
<1>3. /\ sessions' \in [Sessions -> SessionRow \cup {Null}]
      /\ \A s \in Sessions : sessions[s] = Null => sessions'[s] = Null
      /\ \A s \in Sessions : sessions[s] # Null =>
             /\ sessions'[s] # Null /\ sessions'[s].user = sessions[s].user
             /\ sessions'[s].dev = sessions[s].dev /\ sessions'[s].raced = sessions[s].raced
             /\ sessions'[s].live => sessions[s].live
  <2>1. \A s \in Sessions : sessions[s] # Null =>
            /\ sessions'[s] # Null /\ sessions'[s].user = sessions[s].user
            /\ sessions'[s].dev = sessions[s].dev /\ sessions'[s].raced = sessions[s].raced
            /\ sessions'[s].live =
                   (sessions[s].live /\ ~(sessions[s].user = calls[c].tgt /\ sessions[s].dev \in AnyDevice))
    BY <1>2, RevokedRows
  <2>2. sessions' \in [Sessions -> SessionRow \cup {Null}]
        /\ \A s \in Sessions : sessions[s] = Null => sessions'[s] = Null
    BY <1>2, RevokedRows
  <2> QED BY <2>1, <2>2
<1>4. Kept
  BY <1>2, <1>3 DEF Kept
<1>5. /\ calls' = [calls EXCEPT ![c] = [calls[c] EXCEPT !.at = "unmark"]]
      /\ [calls[c] EXCEPT !.at = "unmark"] \in Call
      /\ SameCall(calls'[c], calls[c]) /\ calls'[c].at = "unmark"
      /\ calls'[c].tgt = calls[c].tgt /\ calls'[c].acc = calls[c].acc
      /\ calls'[c].before = calls[c].before /\ calls'[c].list = calls[c].list
  BY <1>1, <1>2, GotoFields DEF Stages
<1>6. (ReadOK(calls[c]) /\ CoverOK(calls[c]))'
  BY <1>1, <1>4, <1>5, KeptRead, KeptCover
<1>7. StageOK(calls[c])'
  BY <1>1, <1>5 DEF StageOK, SameCall
<1>8. (RaceOK(calls[c]) /\ CountOK(calls[c]))'
  BY <1>1, <1>5 DEF RaceOK, CountOK, SameCall, Entries
<1> QED BY <1>2, <1>3, <1>5, <1>6, <1>7, <1>8, SessionsStep DEF CallOK

-----------------------------------------------------------------------------
(* Steps that write the devices. *)

LEMMA DevicesStep ==
    ASSUME IInv, NEW c \in Slots, NEW x, calls' = [calls EXCEPT ![c] = x],
           x = Null \/ x \in Call,
           UNCHANGED <<clock, scene, left, users, sessions, invites, throttle, failed, nonce>>,
           devices' \in [Users -> [Devices -> {"none", "ACTIVE", "REVOKED"}]],
           \A u \in Users, d \in Devices : devices[u][d] # "none" => devices'[u][d] # "none",
           calls'[c] # Null => (StageOK(calls[c]) /\ RaceOK(calls[c]) /\ CountOK(calls[c]))',
           calls'[c] # Null =>
               /\ calls[c] # Null
               /\ SameCall(calls'[c], calls[c])
               /\ calls'[c].tgt = calls[c].tgt /\ calls'[c].acc = calls[c].acc
               /\ calls'[c].before = calls[c].before /\ calls'[c].list = calls[c].list,
           calls'[c] # Null /\ calls[c].at # calls'[c].at =>
               \/ calls[c].at \notin {"revoke", "mark", "legacy"} /\ calls'[c].at # "revoke"
               \/ CoverOK(calls[c])'
    PROVE  IInv'
<1>1. Kept
  BY DEF Kept
<1>2. TypeOK'
  <2>1. calls' \in [Slots -> Call \cup {Null}]
    BY DEF IInv, TypeOK
  <2>2. (\A s \in Sessions : sessions[s] # Null /\ sessions[s].dev # Null =>
           devices[sessions[s].user][sessions[s].dev] # "none")'
    BY Rows DEF IInv, TypeOK, SessionRow
  <2> QED BY <2>1, <2>2 DEF IInv, TypeOK
<1>3. SessionsOK'
  BY DEF IInv, SessionsOK, Live
<1>4. JoinedOK'
  BY DEF IInv, JoinedOK
<1>5. \A u \in Users : Active(u) => Active(u)'
  BY DEF Active
<1>6. calls'[c] # Null => (ReadOK(calls[c]) /\ CoverOK(calls[c]))'
  BY <1>1, KeptRead, KeptCover
<1>7. calls'[c] # Null => CallOK(calls[c])'
  BY <1>6 DEF CallOK
<1> QED BY <1>1, <1>2, <1>3, <1>4, <1>5, <1>7, TableStep

\* The device rows a statement marks stay rows.
LEMMA MarkedRows ==
    ASSUME IInv, NEW user, NEW list
    PROVE  /\ MarkRevoked(user, list) \in [Users -> [Devices -> {"none", "ACTIVE", "REVOKED"}]]
           /\ \A u \in Users, d \in Devices : devices[u][d] # "none" => MarkRevoked(user, list)[u][d] # "none"
<1> DEFINE row == [d \in Devices |->
        IF d \in list /\ devices[user][d] # "none" THEN "REVOKED" ELSE devices[user][d]]
<1>1. devices \in [Users -> [Devices -> {"none", "ACTIVE", "REVOKED"}]]
  BY DEF IInv, TypeOK
<1>2. user \in Users => row \in [Devices -> {"none", "ACTIVE", "REVOKED"}]
  BY <1>1
<1>3. \A d \in Devices : user \in Users /\ devices[user][d] # "none" => row[d] # "none"
  OBVIOUS
<1>4. MarkRevoked(user, list) = [devices EXCEPT ![user] = row]
  BY DEF MarkRevoked
<1> HIDE DEF row
<1> QED BY <1>1, <1>2, <1>3, <1>4

LEMMA UpsertDeviceInv ==
    ASSUME IInv, NEW c \in Slots, UpsertDevice(c)
    PROVE  IInv'
<1> DEFINE call == calls[c]
           known == call.known \/ devices[call.tgt][call.dev] = "none"
           x == [call EXCEPT !.at = "session", !.known = known]
<1>1. call # Null /\ call \in Call /\ CallOK(call) /\ call.at = "upsert"
  BY CallTyped DEF UpsertDevice, At
<1>2. call.tgt \in Users /\ call.dev \in Devices /\ known \in BOOLEAN
  BY <1>1 DEF CallOK, StageOK, ReadOK, Call
<1>3. devices' = [devices EXCEPT ![call.tgt][call.dev] = "ACTIVE"] /\ calls' = [calls EXCEPT ![c] = x]
      /\ UNCHANGED <<clock, scene, left, users, sessions, invites, throttle, failed, nonce>>
  BY <1>1 DEF UpsertDevice, To, Call
<1> HIDE DEF known
<1>4. x \in Call
  BY <1>1, <1>2, FieldUpdates DEF Stages
<1>5. /\ SameCall(x, call) /\ x.at = "session" /\ x.tgt = call.tgt /\ x.acc = call.acc
      /\ x.before = call.before /\ x.list = call.list
  BY <1>1 DEF Call, SameCall
<1>6. calls'[c] = x
  BY <1>3 DEF IInv, TypeOK
<1> HIDE DEF x
<1>7. StageOK(calls[c])'
  <2>1. devices'[call.tgt][call.dev] # "none"
    BY <1>2, <1>3 DEF IInv, TypeOK
  <2> QED BY <1>1, <1>5, <1>6, <2>1 DEF CallOK, StageOK, SameCall
<1>8. RaceOK(calls[c])' /\ CountOK(calls[c])'
  BY <1>1, <1>3, <1>5, <1>6 DEF CallOK, RaceOK, CountOK, SameCall
<1>9. devices' \in [Users -> [Devices -> {"none", "ACTIVE", "REVOKED"}]]
      /\ \A u \in Users, d \in Devices : devices[u][d] # "none" => devices'[u][d] # "none"
  BY <1>2, <1>3 DEF IInv, TypeOK
<1> QED BY <1>1, <1>3, <1>4, <1>5, <1>6, <1>7, <1>8, <1>9, DevicesStep

LEMMA SeenInv ==
    ASSUME IInv, NEW c \in Slots, Seen(c)
    PROVE  IInv'
<1>1. calls[c] # Null /\ calls[c] \in Call /\ CallOK(calls[c]) /\ calls[c].at = "seen"
  BY CallTyped DEF Seen, At
<1>2. calls[c].sid \in Sessions /\ sessions[calls[c].sid] \in SessionRow /\ calls[c].op \notin Entries
  BY <1>1, Rows DEF CallOK, StageOK, ReadOK, Call
<1>3. Goto(c, "go") /\ UNCHANGED <<clock, scene, left, users, sessions, invites, throttle, failed, nonce>>
  BY DEF Seen
<1>4. devices' \in [Users -> [Devices -> {"none", "ACTIVE", "REVOKED"}]]
      /\ \A u \in Users, d \in Devices : devices[u][d] # "none" => devices'[u][d] # "none"
  BY <1>2 DEF Seen, SessionRow, IInv, TypeOK
<1>5. /\ calls' = [calls EXCEPT ![c] = [calls[c] EXCEPT !.at = "go"]]
      /\ [calls[c] EXCEPT !.at = "go"] \in Call
      /\ SameCall(calls'[c], calls[c]) /\ calls'[c].at = "go"
      /\ calls'[c].tgt = calls[c].tgt /\ calls'[c].acc = calls[c].acc
      /\ calls'[c].before = calls[c].before /\ calls'[c].list = calls[c].list
  BY <1>1, <1>3, GotoFields DEF Stages
<1>6. StageOK(calls[c])'
  BY <1>1, <1>5 DEF CallOK, StageOK, SameCall
<1>7. RaceOK(calls[c])' /\ CountOK(calls[c])'
  BY <1>2, <1>5 DEF RaceOK, CountOK, SameCall
<1> QED BY <1>1, <1>3, <1>4, <1>5, <1>6, <1>7, DevicesStep

LEMMA MarkListedInv ==
    ASSUME IInv, NEW c \in Slots, MarkListed(c)
    PROVE  IInv'
<1> DEFINE at == IF calls[c].op = "device" THEN "done" ELSE "legacy"
<1>1. calls[c] # Null /\ calls[c] \in Call /\ CallOK(calls[c]) /\ calls[c].at = "mark"
  BY CallTyped DEF MarkListed, At
<1>2. Goto(c, at) /\ devices' = MarkRevoked(calls[c].by, calls[c].list)
      /\ UNCHANGED <<clock, scene, left, users, sessions, invites, throttle, failed, nonce>>
  BY DEF MarkListed
<1>3. devices' \in [Users -> [Devices -> {"none", "ACTIVE", "REVOKED"}]]
      /\ \A u \in Users, d \in Devices : devices[u][d] # "none" => devices'[u][d] # "none"
  BY <1>2, MarkedRows
<1>4. at \in {"done", "legacy"} /\ at \in Stages /\ (at = "done" <=> calls[c].op = "device")
  BY DEF Stages
<1> HIDE DEF at
<1>5. /\ calls' = [calls EXCEPT ![c] = [calls[c] EXCEPT !.at = at]]
      /\ [calls[c] EXCEPT !.at = at] \in Call
      /\ SameCall(calls'[c], calls[c]) /\ calls'[c].at = at
      /\ calls'[c].tgt = calls[c].tgt /\ calls'[c].acc = calls[c].acc
      /\ calls'[c].before = calls[c].before /\ calls'[c].list = calls[c].list
  BY <1>1, <1>2, <1>4, GotoFields
<1>6. StageOK(calls[c])'
  BY <1>1, <1>4, <1>5 DEF CallOK, StageOK, SameCall
<1>7. RaceOK(calls[c])' /\ CountOK(calls[c])'
  BY <1>1, <1>4, <1>5 DEF CallOK, StageOK, RaceOK, CountOK, SameCall, SignOuts, Entries
<1>8. CoverOK(calls[c])'
  <2>1. CoverOK(calls[c]) /\ calls'[c].op = calls[c].op /\ calls'[c].sid = calls[c].sid
        /\ calls'[c].dev = calls[c].dev
    BY <1>1, <1>5 DEF CallOK, SameCall
  <2>2. ASSUME NEW s \in calls[c].before, Live(s)'
        PROVE  (\/ Spared(calls[c], s)
                \/ calls[c].at \in {"revoke", "mark", "legacy"} /\ calls[c].op # "device" /\ sessions[s].dev = Null)'
    <3>1. Live(s)
      BY <1>2, <2>2 DEF Live
    <3>2. Spared(calls[c], s) \/ (calls[c].op # "device" /\ sessions[s].dev = Null)
      BY <1>1, <2>1, <3>1 DEF CoverOK
    <3> QED BY <1>2, <1>4, <1>5, <2>1, <3>2 DEF Spared, OwnDevice
  <2> QED BY <1>4, <1>5, <2>2 DEF CoverOK
<1> QED BY <1>1, <1>2, <1>3, <1>5, <1>6, <1>7, <1>8, DevicesStep

LEMMA ForceDevicesInv ==
    ASSUME IInv, NEW c \in Slots, ForceDevices(c)
    PROVE  IInv'
<1>1. calls' = [calls EXCEPT ![c] = Null] /\ calls'[c] = Null
      /\ UNCHANGED <<clock, scene, left, users, sessions, invites, throttle, failed, nonce>>
  BY DEF ForceDevices, Finish, To, IInv, TypeOK
<1>2. devices' \in [Users -> [Devices -> {"none", "ACTIVE", "REVOKED"}]]
      /\ \A u \in Users, d \in Devices : devices[u][d] # "none" => devices'[u][d] # "none"
  BY MarkedRows DEF ForceDevices
<1> QED BY <1>1, <1>2, DevicesStep

-----------------------------------------------------------------------------
(* Steps that write the users. *)

\* A user who is disabled has no session, and the sign-ins that have read the
\* user know that they are late.
LEMMA DisableInv ==
    ASSUME IInv, NEW c \in Slots, NEW u \in Users, users[u] # Null,
           NEW status \in Statuses, status # "ACTIVE", Disable(c, u, status),
           devices' \in [Users -> [Devices -> {"none", "ACTIVE", "REVOKED"}]],
           \A v \in Users, d \in Devices : devices[v][d] # "none" => devices'[v][d] # "none",
           UNCHANGED <<clock, scene, left, invites, throttle, failed, nonce>>
    PROVE  IInv'
<1> DEFINE acc == [users[u] EXCEPT !.status = status]
<1>1. acc \in Account /\ acc # Null /\ acc.from = users[u].from /\ acc.status = status
  BY Rows DEF Account
<1>2. users' = [users EXCEPT ![u] = acc]
  BY DEF Disable
<1> HIDE DEF acc
<1>3. /\ users' \in [Users -> Account \cup {Null}]
      /\ \A v \in Users : users'[v] = IF v = u THEN acc ELSE users[v]
  BY <1>1, <1>2 DEF IInv, TypeOK
<1>4. \A s \in Sessions : sessions[s] # Null =>
          /\ sessions'[s] # Null /\ sessions'[s].user = sessions[s].user
          /\ sessions'[s].dev = sessions[s].dev /\ sessions'[s].raced = sessions[s].raced
          /\ sessions'[s].live =
                 (sessions[s].live /\ ~(sessions[s].user = u /\ sessions[s].dev \in AnyDevice))
  BY RevokedRows DEF Disable
<1>5. sessions' \in [Sessions -> SessionRow \cup {Null}]
      /\ \A s \in Sessions : sessions[s] = Null => sessions'[s] = Null
  BY RevokedRows DEF Disable
<1>6. Kept
  BY <1>1, <1>3, <1>4 DEF Kept
<1>7. ASSUME NEW k \in Slots
      PROVE  calls'[k] \in {Null, calls[k], [calls[k] EXCEPT !.raced = TRUE]}
             /\ (calls'[k] # Null => calls[k] # Null /\ calls'[k] = Marked(u, calls[k]))
  BY DEF Disable, Marked
<1>8. TypeOK'
  <2>1. \A k \in Slots : calls[k] # Null => [calls[k] EXCEPT !.raced = TRUE] \in Call
    BY CallTyped, FieldUpdates
  <2>2. calls' \in [Slots -> Call \cup {Null}]
    BY <2>1 DEF Disable, Marked, IInv, TypeOK
  <2>3. (\A s \in Sessions : sessions[s] # Null => users[sessions[s].user] # Null)'
    BY <1>1, <1>3, <1>4, <1>5, Rows DEF IInv, TypeOK, SessionRow
  <2>4. (\A s \in Sessions : sessions[s] # Null /\ sessions[s].dev # Null =>
           devices[sessions[s].user][sessions[s].dev] # "none")'
    BY <1>4, <1>5, Rows DEF IInv, TypeOK, SessionRow
  <2> QED BY <1>3, <1>5, <2>2, <2>3, <2>4 DEF IInv, TypeOK
<1>9. CallsOK'
  <2>1. ASSUME NEW k \in Slots, calls'[k] # Null
        PROVE  CallOK(calls[k])'
    <3>1. calls[k] # Null /\ calls'[k] \in {calls[k], [calls[k] EXCEPT !.raced = TRUE]}
          /\ calls'[k] = Marked(u, calls[k]) /\ calls[k] \in Call /\ CallOK(calls[k])
      BY <1>7, <2>1, CallTyped
    <3>2. (ReadOK(calls[k]) /\ StageOK(calls[k]) /\ CoverOK(calls[k]) /\ CountOK(calls[k]))'
      BY <1>6, <3>1, KeptCall
    <3>3. RaceOK(calls[k])'
      <4>1. calls'[k].op = calls[k].op /\ calls'[k].acc = calls[k].acc /\ calls'[k].tgt = calls[k].tgt
            /\ (calls'[k].raced \/ calls'[k] = calls[k])
        BY <3>1 DEF Call
      <4>2. CASE RacingEntry(calls[k], u)
        <5>1. calls'[k].raced
          BY <3>1, <4>2 DEF Marked, Call
        <5> QED BY <5>1 DEF RaceOK
      <4>3. CASE ~RacingEntry(calls[k], u)
        <5>1. calls'[k] = calls[k]
          BY <3>1, <4>3 DEF Marked
        <5>2. calls[k].op \in Entries /\ calls[k].acc # Null => calls[k].tgt \in Users /\ calls[k].tgt # u
          BY <3>1, <4>3 DEF RacingEntry, CallOK, ReadOK, Call
        <5> QED BY <1>3, <3>1, <5>1, <5>2 DEF CallOK, RaceOK
      <4> QED BY <4>2, <4>3
    <3> QED BY <3>2, <3>3 DEF CallOK
  <2> QED BY <2>1 DEF CallsOK
<1>10. ThrottleOK'
  BY DEF IInv, ThrottleOK
<1>11. JoinedOK'
  <2>1. \A v \in Users : (users'[v] # Null <=> users[v] # Null)
            /\ (users[v] # Null => users'[v].from = users[v].from)
    BY <1>1, <1>3
  <2>2. \A i \in Invites : invites[i] # Null => invites[i].name \in Users
    BY Rows DEF Invite
  <2> QED BY <2>1, <2>2 DEF IInv, JoinedOK
<1>12. SessionsOK'
  <2>1. ASSUME NEW s \in Sessions, Live(s)', users'[sessions'[s].user].status # "ACTIVE"
        PROVE  sessions'[s].raced
    <3>1. sessions[s] \in SessionRow /\ sessions[s] # Null /\ sessions[s].live
      BY <1>4, <1>5, <2>1, Rows DEF Live
    <3>2. sessions'[s].user = sessions[s].user /\ sessions[s].user # u
      BY <1>4, <2>1, <3>1 DEF Live, AnyDevice, SessionRow
    <3>3. users'[sessions[s].user] = users[sessions[s].user]
      BY <1>3, <3>1, <3>2 DEF SessionRow
    <3>4. sessions[s].raced
      BY <2>1, <3>1, <3>2, <3>3 DEF IInv, SessionsOK, Live
    <3> QED BY <1>4, <3>1, <3>4
  <2> QED BY <2>1 DEF SessionsOK
<1> QED BY <1>8, <1>9, <1>10, <1>11, <1>12 DEF IInv

LEMMA LapseInv ==
    ASSUME IInv, NEW c \in Slots, Lapse(c)
    PROVE  IInv'
<1> DEFINE u == IF calls[c].op = "login" THEN calls[c].tgt ELSE calls[c].by
<1>1. calls[c] # Null /\ calls[c] \in Call /\ CallOK(calls[c]) /\ calls[c].at = "lapse"
  BY CallTyped DEF Lapse, At
<1>2. u \in Users /\ users[u] # Null
  <2>1. CASE calls[c].op = "login" /\ calls[c].acc # Null
    BY <1>1, <2>1 DEF CallOK, ReadOK, Call
  <2>2. CASE calls[c].op \notin Entries
    <3>1. calls[c].sid \in Sessions /\ sessions[calls[c].sid] \in SessionRow
          /\ sessions[calls[c].sid] # Null /\ sessions[calls[c].sid].user = calls[c].by
      BY <1>1, <2>2, Rows DEF CallOK, ReadOK, Call
    <3> QED BY <2>2, <3>1 DEF IInv, TypeOK, SessionRow, Entries
  <2> QED BY <1>1, <2>1, <2>2 DEF CallOK, StageOK
<1>3. Disable(c, u, "SUSPENDED") /\ UNCHANGED <<clock, scene, left, devices, invites, throttle, failed, nonce>>
  BY DEF Lapse
<1>4. devices' \in [Users -> [Devices -> {"none", "ACTIVE", "REVOKED"}]] /\ "SUSPENDED" \in Statuses
  BY <1>3 DEF IInv, TypeOK, Statuses
<1> HIDE DEF u
<1> QED BY <1>2, <1>3, <1>4, DisableInv

\* A call ends with a change of a user who stays as active as before.
LEMMA UserStep ==
    ASSUME IInv, NEW c \in Slots, NEW u \in Users, users[u] # Null, NEW acc \in Account,
           users' = [users EXCEPT ![u] = acc], acc.from = users[u].from,
           users[u].status = "ACTIVE" => acc.status = "ACTIVE",
           Finish(c),
           UNCHANGED <<clock, scene, left, devices, sessions, invites, throttle, failed, nonce>>
    PROVE  IInv'
<1>1. /\ users' \in [Users -> Account \cup {Null}] /\ acc # Null
      /\ \A v \in Users : users'[v] = IF v = u THEN acc ELSE users[v]
  BY Rows DEF IInv, TypeOK
<1>2. Kept
  BY <1>1 DEF Kept
<1>3. calls' = [calls EXCEPT ![c] = Null] /\ calls'[c] = Null /\ calls' \in [Slots -> Call \cup {Null}]
  BY DEF Finish, To, IInv, TypeOK
<1>4. TypeOK'
  <2>1. (\A s \in Sessions : sessions[s] # Null => users[sessions[s].user] # Null)'
    BY <1>1, Rows DEF IInv, TypeOK, SessionRow
  <2> QED BY <1>1, <1>3, <2>1 DEF IInv, TypeOK
<1>5. JoinedOK'
  <2>1. \A v \in Users : (users'[v] # Null <=> users[v] # Null)
            /\ (users[v] # Null => users'[v].from = users[v].from)
    BY <1>1
  <2>2. \A i \in Invites : invites[i] # Null => invites[i].name \in Users
    BY Rows DEF Invite
  <2> QED BY <2>1, <2>2 DEF IInv, JoinedOK
<1>6. SessionsOK'
  <2>1. \A s \in Sessions : sessions[s] # Null => sessions[s].user \in Users
    BY Rows DEF SessionRow
  <2> QED BY <1>1, <2>1 DEF IInv, SessionsOK, Live
<1>7. \A v \in Users : Active(v) => Active(v)'
  BY <1>1 DEF Active
<1> QED BY <1>2, <1>3, <1>4, <1>5, <1>6, <1>7, TableStep

LEMMA AdministerInv ==
    ASSUME IInv, NEW c \in Slots, ApplyLifecycle(c) \/ ApplyRole(c) \/ ApplyPolicy(c)
    PROVE  IInv'
<1> DEFINE call == calls[c]
           u == call.tgt
<1>1. call # Null /\ call \in Call /\ CallOK(call) /\ call.at = "apply"
  BY CallTyped DEF ApplyLifecycle, ApplyRole, ApplyPolicy, At
<1>2. u \in Users /\ users[u] # Null /\ users[u] \in Account
  BY <1>1, Rows DEF CallOK, StageOK, ReadOK, Call
<1>3. CASE ApplyLifecycle(c)
  <2>1. call.status \in Statuses
    BY <1>1, <1>3 DEF ApplyLifecycle, CallOK, ReadOK, Call
  <2>2. CASE call.status = "ACTIVE"
    <3> DEFINE acc == [users[u] EXCEPT !.status = "ACTIVE"]
    <3>1. acc \in Account /\ acc.from = users[u].from /\ acc.status = "ACTIVE"
      BY <1>2 DEF Account, Statuses
    <3>2. users' = [users EXCEPT ![u] = acc] /\ Finish(c)
          /\ UNCHANGED <<clock, scene, left, devices, sessions, invites, throttle, failed, nonce>>
      BY <1>3, <2>2 DEF ApplyLifecycle
    <3> HIDE DEF acc
    <3> QED BY <1>2, <3>1, <3>2, UserStep
  <2>3. CASE call.status # "ACTIVE"
    <3>1. Disable(c, u, call.status) /\ devices' = MarkRevoked(u, Devices)
          /\ UNCHANGED <<clock, scene, left, invites, throttle, failed, nonce>>
      BY <1>3, <2>3 DEF ApplyLifecycle
    <3>2. devices' \in [Users -> [Devices -> {"none", "ACTIVE", "REVOKED"}]]
          /\ \A v \in Users, d \in Devices : devices[v][d] # "none" => devices'[v][d] # "none"
      BY <3>1, MarkedRows
    <3> QED BY <1>2, <2>1, <2>3, <3>1, <3>2, DisableInv
  <2> QED BY <2>2, <2>3
<1>4. CASE ApplyRole(c)
  <2> DEFINE role == IF users[u].sys = "OWNER" THEN users[u].sys ELSE call.role
             acc == [users[u] EXCEPT !.sys = role]
  <2>1. role \in Roles
    BY <1>1, <1>2, <1>4 DEF ApplyRole, CallOK, ReadOK, Call, Account
  <2>2. users' = [users EXCEPT ![u] = [users[u] EXCEPT !.sys = role]] /\ Finish(c)
        /\ UNCHANGED <<clock, scene, left, devices, sessions, invites, throttle, failed, nonce>>
    BY <1>4 DEF ApplyRole
  <2> HIDE DEF role
  <2>3. acc \in Account /\ acc.from = users[u].from /\ acc.status = users[u].status
    BY <1>2, <2>1 DEF Account
  <2> HIDE DEF acc
  <2> QED BY <1>2, <2>2, <2>3, UserStep DEF acc
<1>5. CASE ApplyPolicy(c)
  <2> DEFINE acc == [users[u] EXCEPT !.external = call.external, !.expires = call.expires]
  <2>1. users' = [users EXCEPT ![u] = acc] /\ Finish(c)
        /\ UNCHANGED <<clock, scene, left, devices, sessions, invites, throttle, failed, nonce>>
    BY <1>5 DEF ApplyPolicy, Finish, To, IInv, TypeOK
  <2>2. call.external \in BOOLEAN /\ call.expires \in Until \cup {Null}
    BY <1>1 DEF Call
  <2>3. acc \in Account /\ acc.from = users[u].from /\ acc.status = users[u].status
    BY <1>2, <2>2 DEF Account
  <2> HIDE DEF acc
  <2> QED BY <1>2, <2>1, <2>3, UserStep
<1> QED BY <1>3, <1>4, <1>5

-----------------------------------------------------------------------------
(* Steps that write invites and open sessions. *)

\* A call writes invites: each keeps its name, and leaves PENDING at most.
LEMMA InvitesStep ==
    ASSUME IInv, NEW c \in Slots, NEW x, calls' = [calls EXCEPT ![c] = x],
           x = Null \/ x \in Call,
           UNCHANGED <<clock, scene, left, users, devices, sessions, throttle, failed, nonce>>,
           invites' \in [Invites -> Invite \cup {Null}],
           \A i \in Invites : invites[i] # Null =>
               /\ invites'[i] # Null /\ invites'[i].name = invites[i].name
               /\ \/ invites'[i].status = invites[i].status
                  \/ invites[i].status = "PENDING" /\ invites'[i].status # "USED"
                     /\ invites'[i].status # "PENDING",
           \A i \in Invites : invites[i] = Null =>
               invites'[i] = Null \/ invites'[i].status = "PENDING",
           calls'[c] # Null => CallOK(calls[c])'
    PROVE  IInv'
<1>1. Kept
  BY DEF Kept
<1>2. TypeOK'
  <2>1. calls' \in [Slots -> Call \cup {Null}]
    BY DEF IInv, TypeOK
  <2> QED BY <2>1 DEF IInv, TypeOK
<1>3. JoinedOK'
  <2>1. ASSUME NEW u \in Users, users[u] # Null, users[u].from # Null
        PROVE  invites'[users[u].from] # Null /\ invites'[users[u].from].name = u
               /\ invites'[users[u].from].status # "PENDING"
    <3>1. users[u].from \in Invites
      BY <2>1, Rows DEF Account
    <3> QED BY <2>1, <3>1 DEF IInv, JoinedOK
  <2>2. ASSUME NEW i \in Invites, invites'[i] # Null, invites'[i].status = "USED"
        PROVE  users[invites'[i].name] # Null /\ users[invites'[i].name].from = i
    <3>1. invites[i] # Null /\ invites[i].status = "USED" /\ invites'[i].name = invites[i].name
      BY <2>2
    <3> QED BY <3>1 DEF IInv, JoinedOK
  <2> QED BY <2>1, <2>2 DEF JoinedOK
<1>4. SessionsOK' /\ \A u \in Users : Active(u) => Active(u)'
  BY DEF IInv, SessionsOK, Live, Active
<1> QED BY <1>1, <1>2, <1>3, <1>4, TableStep

LEMMA WithdrawInv ==
    ASSUME IInv, NEW c \in Slots, Withdraw(c)
    PROVE  IInv'
<1>1. calls[c] # Null /\ calls[c] \in Call /\ CallOK(calls[c]) /\ calls[c].at = "withdraw"
  BY CallTyped DEF Withdraw, At
<1>2. UNCHANGED <<clock, scene, left, users, devices, sessions, throttle, failed, nonce>>
  BY DEF Withdraw
<1>3. ASSUME NEW i \in Invites, invites[i] # Null
      PROVE  /\ Withdrawn(i) \in Invite /\ Withdrawn(i) # Null /\ Withdrawn(i).name = invites[i].name
             /\ \/ Withdrawn(i).status = invites[i].status
                \/ invites[i].status = "PENDING" /\ Withdrawn(i).status = "REVOKED"
  BY <1>3, Rows DEF Withdrawn, Invite
<1>4. \A i \in Invites : invites[i] = Null => Withdrawn(i) = Null
  BY DEF Withdrawn
<1>5. \A i \in Invites : invites'[i] \in {invites[i], Withdrawn(i)}
  BY DEF Withdraw
<1>6. invites' \in [Invites -> Invite \cup {Null}]
  BY <1>3, <1>4, Rows DEF Withdraw, IInv, TypeOK
<1>7. /\ \A i \in Invites : invites[i] # Null =>
             /\ invites'[i] # Null /\ invites'[i].name = invites[i].name
             /\ \/ invites'[i].status = invites[i].status
                \/ invites[i].status = "PENDING" /\ invites'[i].status # "USED"
                   /\ invites'[i].status # "PENDING"
      /\ \A i \in Invites : invites[i] = Null => invites'[i] = Null
  BY <1>3, <1>4, <1>5
<1>8. CASE Finish(c)
  <2>1. calls' = [calls EXCEPT ![c] = Null] /\ calls'[c] = Null
    BY <1>8 DEF Finish, To, IInv, TypeOK
  <2> QED BY <1>2, <1>6, <1>7, <2>1, InvitesStep
<1>9. CASE Goto(c, "issue")
  <2>1. /\ calls' = [calls EXCEPT ![c] = [calls[c] EXCEPT !.at = "issue"]]
        /\ [calls[c] EXCEPT !.at = "issue"] \in Call
        /\ SameCall(calls'[c], calls[c]) /\ calls'[c].at = "issue"
        /\ calls'[c].tgt = calls[c].tgt /\ calls'[c].acc = calls[c].acc
        /\ calls'[c].before = calls[c].before /\ calls'[c].list = calls[c].list
    BY <1>1, <1>9, GotoFields DEF Stages
  <2>2. Kept
    BY <1>2, <1>7 DEF Kept
  <2>3. (ReadOK(calls[c]) /\ CoverOK(calls[c]))'
    BY <1>1, <2>1, <2>2, KeptRead, KeptCover
  <2>4. (StageOK(calls[c]) /\ CountOK(calls[c]))'
    BY <1>1, <2>1 DEF CallOK, StageOK, CountOK, SameCall
  <2>5. RaceOK(calls[c])'
    BY <1>1, <1>2, <2>1 DEF CallOK, RaceOK, SameCall
  <2>6. CallOK(calls[c])'
    BY <2>3, <2>4, <2>5 DEF CallOK
  <2> QED BY <1>2, <1>6, <1>7, <2>1, <2>6, InvitesStep
<1> QED BY <1>8, <1>9 DEF Withdraw

LEMMA IssueInv ==
    ASSUME IInv, NEW c \in Slots, Issue(c) \/ ExpireInvite(c)
    PROVE  IInv'
<1>1. calls[c] # Null /\ calls[c] \in Call /\ CallOK(calls[c])
  BY CallTyped DEF Issue, ExpireInvite, At
<1>2. calls' = [calls EXCEPT ![c] = Null] /\ calls'[c] = Null
      /\ UNCHANGED <<clock, scene, left, users, devices, sessions, throttle, failed, nonce>>
  BY DEF Issue, ExpireInvite, Finish, To, IInv, TypeOK
<1>3. ASSUME NEW i \in Invites, NEW row \in Invite, invites' = [invites EXCEPT ![i] = row],
             \/ invites[i] = Null /\ row.status = "PENDING"
             \/ /\ invites[i] # Null /\ row.name = invites[i].name
                /\ \/ row.status = invites[i].status
                   \/ invites[i].status = "PENDING" /\ row.status = "EXPIRED"
      PROVE  IInv'
  <2>1. invites' \in [Invites -> Invite \cup {Null}] /\ row # Null
        /\ \A j \in Invites : invites'[j] = IF j = i THEN row ELSE invites[j]
    BY <1>3, Rows DEF IInv, TypeOK
  <2>2. \A j \in Invites : invites[j] # Null =>
               /\ invites'[j] # Null /\ invites'[j].name = invites[j].name
               /\ \/ invites'[j].status = invites[j].status
                  \/ invites[j].status = "PENDING" /\ invites'[j].status # "USED"
                     /\ invites'[j].status # "PENDING"
    BY <1>3, <2>1
  <2>3. \A j \in Invites : invites[j] = Null => invites'[j] = Null \/ invites'[j].status = "PENDING"
    BY <1>3, <2>1
  <2> QED BY <1>2, <2>1, <2>2, <2>3, InvitesStep
<1>4. CASE Issue(c)
  <2>1. CASE UNCHANGED invites
    <3>1. Kept /\ TypeOK' /\ JoinedOK' /\ SessionsOK' /\ \A u \in Users : Active(u) => Active(u)'
      BY <1>2, <2>1 DEF Kept, IInv, TypeOK, JoinedOK, SessionsOK, Live, Active
    <3> QED BY <1>2, <3>1, TableStep
  <2>2. CASE ~UNCHANGED invites
    <3> DEFINE row == [name |-> calls[c].tgt, status |-> "PENDING", until |-> clock + 1,
                       external |-> calls[c].external, expires |-> calls[c].expires]
    <3>1. PICK i \in Invites : invites[i] = Null /\ invites' = [invites EXCEPT ![i] = row]
      BY <1>4, <2>2 DEF Issue
    <3>2. calls[c].tgt \in Users /\ calls[c].external \in BOOLEAN /\ calls[c].expires \in Until \cup {Null}
      BY <1>1, <1>4 DEF Issue, At, CallOK, StageOK, Call
    <3>3. clock + 1 \in Until
      BY AccountsAssumption DEF Until, IInv, TypeOK
    <3>4. row \in Invite /\ row.status = "PENDING"
      BY <3>2, <3>3 DEF Invite
    <3> HIDE DEF row
    <3> QED BY <1>3, <3>1, <3>4
  <2> QED BY <2>1, <2>2
<1>5. CASE ExpireInvite(c)
  <2> DEFINE i == calls[c].inv
             row == [invites[i] EXCEPT !.status = IF @ = "PENDING" THEN "EXPIRED" ELSE @]
  <2>1. i \in Invites /\ invites[i] # Null /\ invites[i] \in Invite
    BY <1>1, <1>5, Rows DEF ExpireInvite, At, CallOK, StageOK, ReadOK, Call
  <2>2. /\ row \in Invite /\ row.name = invites[i].name
        /\ \/ row.status = invites[i].status
           \/ invites[i].status = "PENDING" /\ row.status = "EXPIRED"
    BY <2>1 DEF Invite
  <2>3. invites' = [invites EXCEPT ![i] = row]
    BY <1>5 DEF ExpireInvite
  <2> HIDE DEF row
  <2> QED BY <1>3, <2>1, <2>2, <2>3
<1> QED BY <1>4, <1>5

\* The code is used up by the account it makes.
LEMMA JoinInv ==
    ASSUME IInv, NEW c \in Slots, Join(c)
    PROVE  IInv'
<1> DEFINE call == calls[c]
           i == call.inv
           u == call.tgt
           acc == NewAccount("MEMBER", invites[i].external, invites[i].expires, i)
           x == [call EXCEPT !.at = "clear", !.acc = acc]
<1>1. call # Null /\ call \in Call /\ CallOK(call) /\ call.at = "join"
  BY CallTyped DEF Join, At
<1>2. /\ i \in Invites /\ i # Null /\ invites[i] # Null /\ invites[i] \in Invite
      /\ invites[i].name = u /\ u \in Users /\ u # Null
      /\ call.op = "activate"
  BY <1>1, Rows, AccountsAssumption DEF CallOK, StageOK, ReadOK, Call, Invite
<1>3. UNCHANGED <<clock, scene, left, devices, sessions, throttle, failed, nonce>>
  BY DEF Join
<1>4. CASE users[u] # Null
  BY <1>3, <1>4, QuietFinish DEF Join, tables
<1>5. CASE users[u] = Null
  <2> DEFINE row == UsedUp(i)
  <2>1. users' = [users EXCEPT ![u] = acc] /\ invites' = [invites EXCEPT ![i] = row]
        /\ calls' = [calls EXCEPT ![c] = x]
    BY <1>5 DEF Join, To
  <2>2. row \in Invite /\ row.name = u /\ row.status # "PENDING"
    BY <1>2 DEF UsedUp, Invite
  <2>3. acc \in Account /\ acc # Null /\ acc.from = i /\ acc.status = "ACTIVE"
    <3>1. acc \in Account
      BY <1>2 DEF NewAccount, Account, Statuses, Roles, Invite
    <3> QED BY <3>1, Rows DEF NewAccount
  <2> HIDE DEF acc, row
  <2>4. x \in Call
    BY <1>1, <2>3, FieldUpdates DEF Stages
  <2>5. SameCall(x, call) /\ x.at = "clear" /\ x.tgt = u /\ x.acc = acc
        /\ x.before = call.before /\ x.list = call.list
    BY <1>1 DEF Call, SameCall
  <2>6. calls'[c] = x
    BY <2>1 DEF IInv, TypeOK
  <2> HIDE DEF x
  <2>7. /\ users' \in [Users -> Account \cup {Null}]
        /\ \A v \in Users : users'[v] = IF v = u THEN acc ELSE users[v]
        /\ invites' \in [Invites -> Invite \cup {Null}] /\ row # Null
        /\ \A j \in Invites : invites'[j] = IF j = i THEN row ELSE invites[j]
    BY <1>2, <2>1, <2>2, <2>3, Rows DEF IInv, TypeOK
  <2>8. Kept
    BY <1>2, <1>3, <2>2, <2>3, <2>7 DEF Kept
  <2>9. TypeOK'
    <3>1. calls' \in [Slots -> Call \cup {Null}]
      BY <2>1, <2>4 DEF IInv, TypeOK
    <3>2. (\A s \in Sessions : sessions[s] # Null => users[sessions[s].user] # Null)'
      BY <1>3, <2>3, <2>7, Rows DEF IInv, TypeOK, SessionRow
    <3> QED BY <1>3, <2>7, <3>1, <3>2 DEF IInv, TypeOK
  <2>10. JoinedOK'
    <3>1. ASSUME NEW v \in Users, users'[v] # Null, users'[v].from # Null
          PROVE  invites'[users'[v].from] # Null /\ invites'[users'[v].from].name = v
                 /\ invites'[users'[v].from].status # "PENDING"
      <4>1. CASE v = u
        BY <1>2, <2>2, <2>3, <2>7, <4>1
      <4>2. CASE v # u
        <5>1. users'[v] = users[v] /\ users[v].from \in Invites
          BY <2>7, <3>1, <4>2, Rows DEF Account
        <5>2. invites[users[v].from] # Null /\ invites[users[v].from].name = v
              /\ invites[users[v].from].status # "PENDING"
          BY <3>1, <5>1 DEF IInv, JoinedOK
        <5>3. users[v].from # i
          BY <1>2, <4>2, <5>2
        <5> QED BY <2>7, <5>1, <5>2, <5>3
      <4> QED BY <4>1, <4>2
    <3>2. ASSUME NEW j \in Invites, invites'[j] # Null, invites'[j].status = "USED"
          PROVE  users'[invites'[j].name] # Null /\ users'[invites'[j].name].from = j
      <4>1. CASE j = i
        BY <1>2, <2>2, <2>3, <2>7, <4>1
      <4>2. CASE j # i
        <5>1. invites'[j] = invites[j] /\ invites[j].name \in Users
          BY <2>7, <3>2, <4>2, Rows DEF Invite
        <5>2. users[invites[j].name] # Null /\ users[invites[j].name].from = j
          BY <3>2, <5>1 DEF IInv, JoinedOK
        <5> QED BY <1>5, <2>7, <5>1, <5>2
      <4> QED BY <4>1, <4>2
    <3> QED BY <3>1, <3>2 DEF JoinedOK
  <2>11. SessionsOK'
    <3>1. \A s \in Sessions : sessions[s] # Null =>
              sessions[s].user \in Users /\ users[sessions[s].user] # Null
      BY Rows DEF SessionRow, IInv, TypeOK
    <3> QED BY <1>3, <1>5, <2>7, <3>1 DEF IInv, SessionsOK, Live
  <2>12. \A v \in Users : Active(v) => Active(v)'
    BY <1>5, <2>7 DEF Active
  <2>13. CallOK(calls[c])'
    <3>1. ReadOK(calls[c])'
      BY <1>1, <1>2, <2>3, <2>5, <2>6, <2>7, <2>8, KeptRead
    <3>2. CoverOK(calls[c])'
      BY <1>1, <2>5, <2>6, <2>8, KeptCover
    <3>3. (StageOK(calls[c]) /\ CountOK(calls[c]))'
      BY <1>2, <2>3, <2>5, <2>6 DEF StageOK, CountOK, SameCall
    <3>4. RaceOK(calls[c])'
      BY <1>2, <2>3, <2>5, <2>6, <2>7 DEF RaceOK
    <3> QED BY <3>1, <3>2, <3>3, <3>4 DEF CallOK
  <2> QED BY <1>3, <2>1, <2>8, <2>9, <2>10, <2>11, <2>12, <2>13, TableStep
<1> QED BY <1>4, <1>5

LEMMA FoundInv ==
    ASSUME IInv, NEW c \in Slots, Found(c)
    PROVE  IInv'
<1> DEFINE u == calls[c].tgt
           acc == NewAccount("OWNER", FALSE, Null, Null)
<1>1. calls[c] # Null /\ calls[c] \in Call /\ CallOK(calls[c]) /\ calls[c].at = "found"
  BY CallTyped DEF Found, At
<1>2. u \in Users
  BY <1>1 DEF CallOK, StageOK, ReadOK, Call
<1>3. UNCHANGED <<clock, scene, left, devices, sessions, invites, throttle, failed>> /\ Finish(c)
  BY DEF Found
<1>4. CASE users[u] # Null
  BY <1>3, <1>4, QuietFinish DEF Found, tables
<1>5. CASE users[u] = Null
  <2>1. users' = [users EXCEPT ![u] = acc] /\ nonce' = FALSE
    BY <1>5 DEF Found
  <2>2. acc \in Account /\ acc # Null /\ acc.from = Null /\ acc.status = "ACTIVE"
    <3>1. acc \in Account
      BY DEF NewAccount, Account, Statuses, Roles
    <3> QED BY <3>1, Rows DEF NewAccount
  <2> HIDE DEF acc
  <2>3. /\ users' \in [Users -> Account \cup {Null}]
        /\ \A v \in Users : users'[v] = IF v = u THEN acc ELSE users[v]
    BY <1>2, <2>1, <2>2 DEF IInv, TypeOK
  <2>4. calls' = [calls EXCEPT ![c] = Null] /\ calls'[c] = Null /\ calls' \in [Slots -> Call \cup {Null}]
    BY <1>3 DEF Finish, To, IInv, TypeOK
  <2>5. Kept
    BY <1>3, <2>2, <2>3 DEF Kept
  <2>6. TypeOK'
    <3>1. (\A s \in Sessions : sessions[s] # Null => users[sessions[s].user] # Null)'
      BY <1>3, <2>2, <2>3, Rows DEF IInv, TypeOK, SessionRow
    <3> QED BY <1>3, <2>1, <2>3, <2>4, <3>1 DEF IInv, TypeOK
  <2>7. JoinedOK'
    <3>1. \A i \in Invites : invites[i] # Null => invites[i].name \in Users
      BY Rows DEF Invite
    <3> QED BY <1>3, <1>5, <2>2, <2>3, <3>1 DEF IInv, JoinedOK
  <2>8. SessionsOK'
    <3>1. \A s \in Sessions : sessions[s] # Null =>
              sessions[s].user \in Users /\ users[sessions[s].user] # Null
      BY Rows DEF SessionRow, IInv, TypeOK
    <3> QED BY <1>3, <1>5, <2>3, <3>1 DEF IInv, SessionsOK, Live
  <2>9. \A v \in Users : Active(v) => Active(v)'
    BY <1>5, <2>3 DEF Active
  <2> QED BY <1>3, <2>4, <2>5, <2>6, <2>7, <2>8, <2>9, TableStep
<1> QED BY <1>4, <1>5

\* The new session takes a name that no call refers to; that its user was
\* disabled meanwhile is known to its call.
LEMMA OpenSessionInv ==
    ASSUME IInv, NEW c \in Slots, OpenSession(c)
    PROVE  IInv'
<1> DEFINE call == calls[c]
<1>1. call # Null /\ call \in Call /\ CallOK(call) /\ call.at = "session"
  BY CallTyped DEF OpenSession, At
<1>2. UNCHANGED <<clock, scene, left, users, devices, invites, throttle, failed, nonce>> /\ Finish(c)
  BY DEF OpenSession
<1>3. CASE UNCHANGED sessions
  BY <1>2, <1>3, QuietFinish DEF tables
<1>4. CASE ~UNCHANGED sessions
  <2> DEFINE row == [user |-> call.tgt, dev |-> call.dev, live |-> TRUE,
                     until |-> clock + 1, raced |-> call.raced]
  <2>1. PICK s \in Sessions : Free(s) /\ sessions' = [sessions EXCEPT ![s] = row]
    BY <1>4 DEF OpenSession
  <2>2. call.dev # Null => call.known
    BY <1>4 DEF OpenSession
  <2>3. /\ call.tgt \in Users /\ users[call.tgt] # Null /\ call.dev \in Devices \cup {Null}
        /\ call.raced \in BOOLEAN /\ call.op \in Entries
        /\ call.dev # Null => devices[call.tgt][call.dev] # "none"
    BY <1>1, <2>2 DEF CallOK, StageOK, ReadOK, Call, Entries
  <2>4. clock + 1 \in Until
    BY AccountsAssumption DEF Until, IInv, TypeOK
  <2>5. row \in SessionRow /\ row.user = call.tgt /\ row.dev = call.dev /\ row.raced = call.raced
    BY <2>3, <2>4 DEF SessionRow
  <2> HIDE DEF row
  <2>6. /\ sessions' \in [Sessions -> SessionRow \cup {Null}]
        /\ \A t \in Sessions : sessions'[t] = IF t = s THEN row ELSE sessions[t]
    BY <2>1, <2>5 DEF IInv, TypeOK
  <2>7. calls' = [calls EXCEPT ![c] = Null] /\ calls'[c] = Null /\ calls' \in [Slots -> Call \cup {Null}]
    BY <1>2 DEF Finish, To, IInv, TypeOK
  <2>8. Kept
    BY <1>2, <2>1, <2>6 DEF Kept
  <2>9. TypeOK'
    <3>1. (\A t \in Sessions : sessions[t] # Null => users[sessions[t].user] # Null)'
      BY <1>2, <2>3, <2>5, <2>6 DEF IInv, TypeOK
    <3>2. (\A t \in Sessions : sessions[t] # Null /\ sessions[t].dev # Null =>
             devices[sessions[t].user][sessions[t].dev] # "none")'
      BY <1>2, <2>3, <2>5, <2>6 DEF IInv, TypeOK
    <3> QED BY <1>2, <2>6, <2>7, <3>1, <3>2 DEF IInv, TypeOK
  <2>10. SessionsOK'
    <3>1. users[call.tgt].status # "ACTIVE" => call.raced
      BY <1>1, <2>3 DEF CallOK, StageOK, RaceOK
    <3> QED BY <1>2, <2>5, <2>6, <3>1 DEF IInv, SessionsOK, Live
  <2>11. JoinedOK' /\ \A v \in Users : Active(v) => Active(v)'
    BY <1>2 DEF IInv, JoinedOK, Active
  <2> QED BY <1>2, <2>7, <2>8, <2>9, <2>10, <2>11, TableStep
<1> QED BY <1>3, <1>4

\* A window ends: what was counted in it counts no more, and blocks no more.
LEMMA TickInv ==
    ASSUME IInv, Tick
    PROVE  IInv'
<1>1. clock \in Nat /\ clock < MaxClock /\ clock' = clock + 1 /\ MaxClock \in Nat
  BY AccountsAssumption DEF Tick, IInv, TypeOK
<1>2. failed' = [k \in Keys |-> 0] /\ failed' \in [Keys -> Nat]
  BY DEF Tick
<1>3. UNCHANGED <<scene, left, users, devices, sessions, invites, throttle, nonce, calls>>
  BY DEF Tick
<1>4. TypeOK'
  BY <1>1, <1>2, <1>3 DEF IInv, TypeOK
<1>5. CallsOK'
  <2>1. ASSUME NEW k \in Slots, calls'[k] # Null
        PROVE  CallOK(calls[k])'
    <3>1. CallOK(calls'[k]) /\ calls'[k] \in Call
      BY <1>3, <2>1, CallTyped
    <3>2. ReadOK(calls[k])'
      BY <1>3, <3>1 DEF CallOK, ReadOK
    <3>3. StageOK(calls[k])'
      BY <1>3, <3>1 DEF CallOK, StageOK
    <3>4. CoverOK(calls[k])'
      BY <1>3, <3>1 DEF CallOK, CoverOK, Spared, OwnDevice, Live
    <3>5. RaceOK(calls[k])'
      BY <1>3, <3>1 DEF CallOK, RaceOK
    <3>6. CountOK(calls[k])'
      <4>1. calls'[k].now \in Nat /\ (calls'[k].row # Null => calls'[k].row.start \in Nat)
        BY <3>1, <1>1 DEF Call, Count
      <4> QED BY <1>1, <3>1, <4>1 DEF CallOK, CountOK
    <3> QED BY <3>2, <3>3, <3>4, <3>5, <3>6 DEF CallOK
  <2> QED BY <2>1 DEF CallsOK
<1>6. ThrottleOK'
  <2>1. ASSUME NEW k \in Keys, throttle'[k] # Null
        PROVE  /\ throttle'[k].start <= clock' /\ throttle'[k].until <= clock' + 1
               /\ throttle'[k].start = clock' => throttle'[k].n <= failed'[k]
               /\ throttle'[k].until > clock' => failed'[k] >= Limit[k]
    <3>1. throttle[k].start <= clock /\ throttle[k].until <= clock + 1
      BY <1>3, <2>1 DEF IInv, ThrottleOK
    <3>2. throttle[k] \in Count
      BY <1>3, <2>1 DEF IInv, TypeOK
    <3>3. throttle[k].start \in Nat /\ throttle[k].until \in Nat
      BY <1>1, <3>2 DEF Count
    <3> QED BY <1>1, <1>3, <3>1, <3>3
  <2> QED BY <2>1 DEF ThrottleOK
<1>7. JoinedOK' /\ SessionsOK'
  BY <1>3 DEF IInv, JoinedOK, SessionsOK, Live
<1> QED BY <1>4, <1>5, <1>6, <1>7 DEF IInv

-----------------------------------------------------------------------------
(* The theorems. *)

LEMMA InitInv ==
    ASSUME Init
    PROVE  IInv
<1>1. scene \in Scenario /\ scene.calls \in Nat /\ MaxClock \in Nat
  BY AccountsAssumption DEF Init, Scenario
<1>2. TypeOK
  BY <1>1 DEF Init, TypeOK
<1>3. CallsOK /\ ThrottleOK
  BY DEF Init, CallsOK, ThrottleOK
<1>4. JoinedOK /\ SessionsOK
  BY DEF Init, JoinedOK, SessionsOK, Live
<1> QED BY <1>2, <1>3, <1>4 DEF IInv

LEMMA NextInv ==
    ASSUME IInv, [Next]_vars
    PROVE  IInv'
<1>1. CASE UNCHANGED vars
  <2>1. UNCHANGED <<clock, scene, left, users, devices, sessions, invites, throttle, failed, nonce, calls>>
    BY <1>1 DEF vars
  <2>2. TypeOK' /\ ThrottleOK' /\ JoinedOK' /\ SessionsOK'
    BY <2>1 DEF IInv, TypeOK, ThrottleOK, JoinedOK, SessionsOK, Live
  <2>3. ASSUME NEW c \in Slots, calls'[c] # Null
        PROVE  CallOK(calls[c])'
    <3>1. calls'[c] = calls[c] /\ CallOK(calls[c])
      BY <2>1, <2>3, CallTyped
    <3>2. ReadOK(calls[c])'
      BY <2>1, <3>1 DEF CallOK, ReadOK
    <3>3. StageOK(calls[c])'
      BY <2>1, <3>1, ZenonT(60) DEF CallOK, StageOK
    <3>4. (CoverOK(calls[c]) /\ RaceOK(calls[c]) /\ CountOK(calls[c]))'
      BY <2>1, <3>1 DEF CallOK, CoverOK, Spared, OwnDevice, Live, RaceOK, CountOK
    <3> QED BY <3>2, <3>3, <3>4 DEF CallOK
  <2> QED BY <2>2, <2>3 DEF IInv, CallsOK
<1>2. CASE Tick
  BY <1>2, TickInv
<1>3. ASSUME NEW c \in Slots, Receive(c)
      PROVE  IInv'
  BY <1>3, ReceiveInv
<1>4. ASSUME NEW c \in Slots, Step(c)
      PROVE  IInv'
  BY <1>4, AssertNotThrottledInv, LoadFailuresInv, RecordFailureInv, LapseInv, SignInReadInv,
     ClearThrottleInv, UpsertDeviceInv, OpenSessionInv, SessionReadInv, SeenInv, LogoutInv,
     RevokeListedInv, MarkListedInv, RevokeLegacyInv, OtherReadInv, AdministerInv,
     ApplyForceLogoutInv, ForceDevicesInv, WithdrawInv, IssueInv, JoinInv, FoundInv DEF Step
<1> QED BY <1>1, <1>2, <1>3, <1>4 DEF Next

\* What the calls in flight hold of the rows they read, and the rows of each
\* other, is true in every state.
THEOREM Inductive == Spec => []IInv
<1>1. Init => IInv
  BY InitInv
<1>2. IInv /\ [Next]_vars => IInv'
  BY NextInv
<1> QED BY <1>1, <1>2, PTL DEF Spec

\* Every row and every call in flight has its type, and no session is without
\* its user or device.
THEOREM TypeCorrect == Spec => []TypeOK
<1>1. IInv => TypeOK
  BY DEF IInv
<1> QED BY <1>1, Inductive, PTL

\* A sign-out that answers has ended what it was about, whatever other sign-ins
\* and sign-outs overlapped (collaboration.ts, revokeDeviceSessions).
THEOREM SignedOutIsOver == Spec => []SignOutCovers
<1>1. IInv => SignOutCovers
  <2> SUFFICES ASSUME IInv, NEW c \in Slots, At(c, "done"), NEW s \in calls[c].before
               PROVE  \/ ~sessions[s].live
                      \/ calls[c].op = "device" /\ sessions[s].dev # calls[c].dev
                      \/ calls[c].op = "others" /\ sessions[s].dev = OwnDevice(calls[c])
    BY DEF SignOutCovers
  <2>1. calls[c] # Null /\ CallOK(calls[c]) /\ calls[c].at = "done"
    BY CallTyped DEF At
  <2>2. sessions[s] # Null
    BY <2>1 DEF CallOK, ReadOK
  <2> QED BY <2>1, <2>2 DEF CallOK, CoverOK, Spared, Live
<1> QED BY <1>1, Inductive, PTL

\* A disabled user has no session but those of sign-ins that were under way when
\* the user was disabled (enterprise.ts, handleUserLifecycle).
THEOREM DisabledHasNoSession == Spec => []OnlyRacingSignInsSurvive
<1>1. IInv => OnlyRacingSignInsSurvive
  BY DEF IInv, SessionsOK, OnlyRacingSignInsSurvive
<1> QED BY <1>1, Inductive, PTL

\* Whatever sign-ins overlap, a block was earned by as many failures within the
\* window as the limit says (index.ts, recordLoginFailure).
THEOREM BlocksAreEarned == Spec => []LockedOutByFailures
<1>1. IInv => LockedOutByFailures
  BY DEF IInv, ThrottleOK, LockedOutByFailures
<1> QED BY <1>1, Inductive, PTL

\* A code makes one account at most, and is spent by it (enterprise.ts,
\* activateInvite).
THEOREM CodesAreSpent == Spec => []InvitesAreSpent
<1>1. IInv => InvitesAreSpent
  <2> SUFFICES ASSUME IInv, NEW i \in Invites
               PROVE  LET joined == {u \in Users : users[u] # Null /\ users[u].from = i}
                      IN /\ Cardinality(joined) <= 1
                         /\ invites[i] # Null /\ invites[i].status = "USED" => joined # {}
                         /\ joined # {} => invites[i].status # "PENDING"
    BY DEF InvitesAreSpent
  <2> DEFINE joined == {u \in Users : users[u] # Null /\ users[u].from = i}
  <2>1. i # Null
    BY AccountsAssumption
  <2>2. \A u \in joined : invites[i] # Null /\ invites[i].name = u /\ invites[i].status # "PENDING"
    BY <2>1 DEF IInv, JoinedOK
  <2>3. Cardinality(joined) <= 1
    <3>1. CASE joined = {}
      BY <3>1, FS_EmptySet
    <3>2. CASE joined # {}
      <4>1. joined = {invites[i].name}
        BY <2>2, <3>2
      <4>2. Cardinality({invites[i].name}) = 1
        BY FS_Singleton
      <4> HIDE DEF joined
      <4> QED BY <4>1, <4>2
    <3> QED BY <3>1, <3>2
  <2>4. invites[i] # Null /\ invites[i].status = "USED" => joined # {}
    <3>1. invites[i] # Null => invites[i].name \in Users
      BY Rows DEF Invite
    <3> QED BY <3>1 DEF IInv, JoinedOK
  <2> QED BY <2>2, <2>3, <2>4
<1> QED BY <1>1, Inductive, PTL

\* Signing out the other devices leaves the caller's own session as it is
\* (collaboration.ts, handleLogoutOtherDevices).
THEOREM OwnSessionStays == Spec => OthersKeepsOwn
<1>1. IInv /\ [Next]_vars =>
          [\A c \in Slots :
              calls[c] # Null /\ calls[c].op = "others" /\ (RevokeListed(c) \/ RevokeLegacy(c)) =>
                  sessions'[calls[c].sid] = sessions[calls[c].sid]]_vars
  <2> SUFFICES ASSUME IInv, NEW c \in Slots, calls[c] # Null, calls[c].op = "others",
                      RevokeListed(c) \/ RevokeLegacy(c)
               PROVE  sessions'[calls[c].sid] = sessions[calls[c].sid]
    OBVIOUS
  <2> DEFINE s == calls[c].sid
  <2>1. CallOK(calls[c]) /\ s \in Sessions
    BY CallTyped DEF CallOK, ReadOK, Entries, Call
  <2>2. CASE RevokeListed(c)
    <3>1. sessions[s].dev \notin calls[c].list
      BY <2>1, <2>2 DEF RevokeListed, At, CallOK, CoverOK, OwnDevice
    <3> QED BY <2>1, <2>2, <3>1 DEF RevokeListed, Revoked
  <2>3. CASE RevokeLegacy(c)
    <3>1. CASE LegacyToo(calls[c])
      <4>1. sessions[s].dev # Null
        BY <3>1 DEF LegacyToo, OwnDevice
      <4> QED BY <2>1, <2>3, <3>1, <4>1 DEF RevokeLegacy, Revoked
    <3>2. CASE ~LegacyToo(calls[c])
      BY <2>3, <3>2 DEF RevokeLegacy
    <3> QED BY <3>1, <3>2
  <2> QED BY <2>2, <2>3
<1> QED BY <1>1, Inductive, PTL DEF Spec, OthersKeepsOwn

=============================================================================
