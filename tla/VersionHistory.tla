--------------------------- MODULE VersionHistory ---------------------------
(***************************************************************************)
(* What ExcelSync promises about one logical file, whoever writes it and   *)
(* whatever is lost on the way: its history of contents only grows, one    *)
(* version at a time, and its life is the recycle bin's.  Version n of a   *)
(* file is history[f][n]; the last one is current.                         *)
(***************************************************************************)
EXTENDS Sequences

CONSTANTS Files, Hashes

VARIABLES
    history,   \* the contents of each file's versions, oldest first
    life       \* "none" before the file exists, then active, trashed, deleted

hvars == <<history, life>>

Init ==
    /\ history = [f \in Files |-> <<>>]
    /\ life = [f \in Files |-> "none"]

\* A file appears without a version: its first upload is still to be committed.
Create(f) ==
    /\ life[f] = "none"
    /\ life' = [life EXCEPT ![f] = "active"]
    /\ UNCHANGED history

\* A content is added on top of the history; the file is active afterwards.
Publish(f, h) ==
    /\ history' = [history EXCEPT ![f] = Append(@, h)]
    /\ life' = [life EXCEPT ![f] = "active"]

\* The recycle bin touches no content.
Trash(f) ==
    /\ life[f] = "active"
    /\ life' = [life EXCEPT ![f] = "trashed"]
    /\ UNCHANGED history

Purge(f) ==
    /\ life[f] = "trashed"
    /\ life' = [life EXCEPT ![f] = "deleted"]
    /\ UNCHANGED history

Recover(f) ==
    /\ life[f] = "trashed"
    /\ life' = [life EXCEPT ![f] = "active"]
    /\ UNCHANGED history

Next ==
    \E f \in Files :
        \/ Create(f) \/ Trash(f) \/ Purge(f) \/ Recover(f)
        \/ \E h \in Hashes : Publish(f, h)

Spec == Init /\ [][Next]_hvars

=============================================================================
