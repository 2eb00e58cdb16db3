----------------------------- MODULE MCAccounts -----------------------------
EXTENDS Accounts, TLC

CONSTANTS o, m, d1, d2, s1, s2, s3, i1, i2, c1, c2

MCLimit == [k \in Keys |-> 2]

\* What is called together. The owner is there, with a session, in all of them
\* but the first.
MCScenarios ==
    {[ops |-> {"bootstrap", "login"}, users |-> {o, m}, devices |-> {d1}, calls |-> 4, ticks |-> FALSE],
     [ops |-> {"login", "activate"}, users |-> {m}, devices |-> {Null}, calls |-> 4, ticks |-> TRUE],
     [ops |-> {"login"} \cup SignOuts, users |-> {m}, devices |-> {Null, d1, d2}, calls |-> 4, ticks |-> FALSE],
     [ops |-> {"login", "lifecycle", "force", "policy"}, users |-> {m}, devices |-> {d1}, calls |-> 4, ticks |-> TRUE],
     [ops |-> {"role", "policy"}, users |-> {o, m}, devices |-> {}, calls |-> 4, ticks |-> TRUE],
     [ops |-> InviteOps \cup {"activate"}, users |-> {m}, devices |-> {Null}, calls |-> 4, ticks |-> TRUE]}

Owner == NewAccount("OWNER", FALSE, Null, Null)
Member == NewAccount("MEMBER", FALSE, Null, Null)
OwnerSession == [user |-> o, dev |-> Null, live |-> TRUE, until |-> MaxClock + 1, raced |-> FALSE]

MCInit ==
    /\ clock = 0
    /\ scene \in Scenarios /\ left = scene.calls
    /\ nonce = ("bootstrap" \in scene.ops)
    /\ users = [u \in Users |->
           IF nonce THEN Null
           ELSE IF u = o THEN Owner
           ELSE IF "activate" \in scene.ops THEN Null ELSE Member]
    /\ devices = [u \in Users |-> [d \in Devices |-> "none"]]
    /\ sessions = [s \in Sessions |->
           IF s = s1 /\ scene.ops \cap (AdminOps \cup InviteOps) # {} THEN OwnerSession ELSE Null]
    /\ invites = [i \in Invites |->
           IF i = i1 /\ scene.ops = {"login", "activate"}
           THEN [name |-> m, status |-> "PENDING", until |-> 1, external |-> TRUE, expires |-> 1]
           ELSE Null]
    /\ throttle = [k \in Keys |-> Null]
    /\ failed = [k \in Keys |-> 0]
    /\ calls = [c \in Slots |-> Null]

MCSpec == MCInit /\ [][Next]_vars

Symmetry == Permutations(Slots)
=============================================================================
