--------------------------- MODULE MCDesktopSession ---------------------------
(* Two calls at a time and two sign-ins: of one user, who may quit while he     *)
(* signs in or out, or of two users who do nothing else than sign in and out.   *)
EXTENDS DesktopSession, TLC

SigningOnly == {"none", "login", "logout", "state"}

OneUser == Cardinality({owner[t] : t \in DOMAIN owner}) <= 1

Within ==
    \/ \A s \in Slots : calls[s].kind \in SigningOnly
    \/ /\ OneUser
       /\ \A s \in Slots : calls[s].kind = "quit" =>
              \A r \in Slots \ {s} : calls[r].kind \in SigningOnly \ {"state"}

MCSpec == Init /\ [][Next /\ Within']_vars

Symmetry == Permutations(Slots) \cup Permutations(Users)
=============================================================================
