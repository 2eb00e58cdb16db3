------------------------------ MODULE EditLock ------------------------------
(* What the edit lease of a file promises: one device at a time has it, it   *)
(* is granted only while nobody has it, and only a manager may take it from  *)
(* the device that has it.                                                   *)
CONSTANTS Devices, Managers, Nobody

VARIABLE owner

Init == owner = Nobody

\* A device gets the lock of a file nobody has locked.
Grant(d) == owner = Nobody /\ owner' = d

\* The lock is given back or lapses.
End == owner' = Nobody

\* A manager takes the lock over.
TakeOver(d) == d \in Managers /\ owner' = d

Next == End \/ \E d \in Devices : Grant(d) \/ TakeOver(d)

Spec == Init /\ [][Next]_owner
=============================================================================
