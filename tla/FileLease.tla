------------------------------ MODULE FileLease ------------------------------
(* The edit lease of one file: the handlers of worker/src/collab-upgrade.ts  *)
(* on its row of file_edit_leases, the lease check of the upload handlers,   *)
(* and the part of the desktop engine (sync-engine.ts) that asks for the     *)
(* lease when Office locks the document, keeps it alive and gives it back.   *)
(* A handler is a call in flight; each statement it awaits is a step, so     *)
(* that calls of several devices, and late calls of one, interleave.         *)
(* Presence, which warns of others without a lease, is left out.             *)
EXTENDS Naturals, FiniteSets

CONSTANTS
    Devices,         \* devices with edit access to the file
    ManagerDevices,  \* devices whose user may force a takeover
    None,
    MaxIds,          \* bound on the lease ids drawn
    MaxCalls         \* bound on the calls in flight

ASSUME LeaseAssumption ==
    /\ ManagerDevices \subseteq Devices
    /\ None \notin Devices
    /\ MaxIds \in Nat /\ MaxCalls \in Nat

VARIABLES
    lock,        \* the row of file_edit_leases, or None
    ids,         \* lease ids drawn so far
    requests,    \* calls the Worker has not finished or the client not heard
    held,        \* SyncEngine.fileLeases: the id a device keeps
    editing      \* SyncEngine.presenceFiles has the file

leaseVars == <<lock, ids, requests, held, editing>>

Ids == 1 .. MaxIds

LeaseRow == [owner : Devices, id : Ids, fresh : BOOLEAN]

ASSUME NullAssumption == None \notin LeaseRow

\* `at` is the next statement of the handler, `ok` and `mine` are the status of
\* the answer and its field currentDevice. `raced` is history: a lease was granted
\* since a commit had checked it.
LeaseCall == [dev : Devices, op : {"acquire", "heartbeat", "release", "commit"},
              id : Ids \cup {None}, at : {"start", "write", "payload", "answer"},
              ok : BOOLEAN, mine : BOOLEAN, raced : BOOLEAN]

LeaseTypeOK ==
    /\ lock \in LeaseRow \cup {None}
    /\ ids \in 0 .. MaxIds
    /\ requests \subseteq LeaseCall
    /\ held \in [Devices -> Ids \cup {None}]
    /\ editing \in [Devices -> BOOLEAN]

LeaseInit ==
    /\ lock = None /\ ids = 0 /\ requests = {}
    /\ held = [d \in Devices |-> None]
    /\ editing = [d \in Devices |-> FALSE]

-----------------------------------------------------------------------------
(* Rows and calls. *)

\* pruneExpiredLeases: what is left of the row.
Pruned == IF lock # None /\ ~lock.fresh THEN None ELSE lock

Mine(row, d) == row # None /\ row.owner = d

\* Faulty variant: the id of the lease alone.
MatchesId(row, c) == row # None /\ row.id = c.id

Matches(row, c) == Mine(row, c.dev) /\ row.id = c.id

Row(d, id) == [owner |-> d, id |-> id, fresh |-> TRUE]

Renewed(row) == [row EXCEPT !.fresh = TRUE]

\* Faulty variant: the upsert without its WHERE.
UpsertedAnyway(c) ==
    IF lock = None THEN Row(c.dev, c.id) ELSE [Renewed(lock) EXCEPT !.owner = c.dev]

\* The upsert of an acquire: it inserts, or renews a row of the same device.
Upserted(c) ==
    IF lock = None THEN Row(c.dev, c.id)
    ELSE IF lock.owner = c.dev THEN Renewed(lock) ELSE lock

NewLeaseCall(d, op, id) ==
    [dev |-> d, op |-> op, id |-> id, at |-> "start", ok |-> TRUE, mine |-> FALSE,
     raced |-> FALSE]

Room == Cardinality(requests) < MaxCalls

Request(call) == requests' = requests \cup {call}

Go(c, next) == requests' = (requests \ {c}) \cup {next}

\* History: a new lease comes between the check and the batch of these commits.
Raced(cs) == {IF c.op = "commit" THEN [c EXCEPT !.raced = TRUE] ELSE c : c \in cs}
Done(c) == requests' = requests \ {c}

\* The 90 seconds of the lease pass without a heartbeat.
Expire ==
    /\ lock # None /\ lock.fresh
    /\ lock' = [lock EXCEPT !.fresh = FALSE]
    /\ UNCHANGED <<ids, requests, held, editing>>

-----------------------------------------------------------------------------
(* The Worker: handleFileLeaseAcquire. *)

\* Faulty variant: the id the client sends, which may be none.
LeaseIdAsked(c) == c.id

LeaseId(c) ==
    CASE Pruned # None -> Pruned.id [] Pruned = None /\ c.id # None -> c.id [] OTHER -> ids + 1

AcquireRead(c) ==
    /\ c.op = "acquire" /\ c.at = "start"
    /\ lock' = Pruned
    /\ IF Pruned # None /\ ~Mine(Pruned, c.dev)
       THEN Go(c, [c EXCEPT !.at = "answer", !.ok = FALSE, !.id = None]) /\ UNCHANGED ids
       ELSE /\ Go(c, [c EXCEPT !.at = "write", !.id = LeaseId(c)])
            /\ ids' = IF LeaseId(c) = ids + 1 THEN ids + 1 ELSE ids
            /\ ids' <= MaxIds
    /\ UNCHANGED <<held, editing>>

AcquireWrite(c) ==
    /\ c.op = "acquire" /\ c.at = "write"
    /\ lock' = Upserted(c)
    /\ LET others == IF lock = None THEN Raced(requests \ {c}) ELSE requests \ {c}
       IN requests' = others \cup {[c EXCEPT !.at = "payload", !.id = None]}
    /\ UNCHANGED <<ids, held, editing>>

\* leasePayload: the answer carries the id of whatever row is there now.
Payload(c) ==
    /\ c.at = "payload"
    /\ lock' = Pruned
    /\ Go(c, [c EXCEPT !.at = "answer", !.mine = Mine(Pruned, c.dev),
                       !.id = IF Pruned = None THEN None ELSE Pruned.id])
    /\ UNCHANGED <<ids, held, editing>>

(* handleFileLeaseHeartbeat: nobody can see the lease lapse between the      *)
(* pruning and the update, because whoever looks at it prunes.               *)

Heartbeat(c) ==
    /\ c.op = "heartbeat" /\ c.at = "start"
    /\ lock' = IF Matches(Pruned, c) THEN Renewed(Pruned) ELSE Pruned
    /\ Go(c, [c EXCEPT !.at = IF Matches(Pruned, c) THEN "payload" ELSE "answer",
                       !.ok = Matches(Pruned, c), !.id = None])
    /\ UNCHANGED <<ids, held, editing>>

(* handleFileLeaseRelease: the row it reads first decides nothing that the   *)
(* condition of its batch does not decide again.                             *)

Release(c) ==
    /\ c.op = "release"
    /\ lock' = IF Matches(lock, c) THEN None ELSE lock
    /\ Done(c)
    /\ UNCHANGED <<ids, held, editing>>

(* handleFileLeaseTakeoverRequest, handleFileLeaseGet and                    *)
(* handleAdminActiveLocks only prune; what the request tells the owner is in *)
(* module Notices.                                                           *)

Prune ==
    /\ lock' = Pruned
    /\ UNCHANGED <<ids, requests, held, editing>>

(* handleFileLeaseForceTakeover.  The renderer asks for the takeover, so     *)
(* that the engine keeps no id of the lease; the batch depends on nothing    *)
(* the handler has read before.                                              *)

ForceTakeover(d) ==
    /\ d \in ManagerDevices
    /\ ids < MaxIds
    /\ lock' = Row(d, ids + 1)
    /\ ids' = ids + 1
    /\ requests' = Raced(requests)
    /\ UNCHANGED <<held, editing>>

(* assertFileLeaseCompatible, then the batch of a commit. *)

\* Faulty variant: a commit is refused only while its own device has the lease.
CompatibleWithOthers(row, d) == row # None => row.owner # d

Compatible(row, d) == row # None => row.owner = d

CommitCheck(d) ==
    /\ lock' = Pruned
    /\ Compatible(Pruned, d) /\ Room
    /\ Request([NewLeaseCall(d, "commit", None) EXCEPT !.at = "write"])
    /\ UNCHANGED <<ids, held, editing>>

CommitWrite(c) ==
    /\ c.op = "commit" /\ c.at = "write"
    /\ Done(c)
    /\ UNCHANGED <<lock, ids, held, editing>>

-----------------------------------------------------------------------------
(* The desktop engine. *)

Forget(d) == held' = [held EXCEPT ![d] = None] /\ editing' = [editing EXCEPT ![d] = FALSE]

\* handleOfficeLock: Office has locked the document.
OfficeLocks(d) ==
    /\ Room /\ Request(NewLeaseCall(d, "acquire", held[d]))
    /\ UNCHANGED <<lock, ids, held, editing>>

\* handleOfficeLock: the lock file is gone; or stop: everything is given up.
OfficeUnlocks(d) ==
    /\ Forget(d)
    /\ IF held[d] = None THEN UNCHANGED requests
       ELSE Room /\ Request(NewLeaseCall(d, "release", held[d]))
    /\ UNCHANGED <<lock, ids>>

\* refreshPresence, on its timer: one file after the other.
Refresh(d) ==
    /\ editing[d] /\ held[d] # None
    /\ \A c \in requests : ~(c.dev = d /\ c.op = "heartbeat")
    /\ Room
    /\ Request(NewLeaseCall(d, "heartbeat", held[d]))
    /\ UNCHANGED <<lock, ids, held, editing>>

\* The engine hears the answer of an acquire.
HearAcquire(c) ==
    /\ c.op = "acquire" /\ c.at = "answer"
    /\ held' = IF c.id # None THEN [held EXCEPT ![c.dev] = c.id] ELSE held
    /\ editing' = [editing EXCEPT ![c.dev] = c.ok]
    /\ Done(c)
    /\ UNCHANGED <<lock, ids>>

\* Faulty variant: LEASE_LOST is logged like every other failure.
HearHeartbeatLogged(c) ==
    /\ c.op = "heartbeat" /\ c.at = "answer"
    /\ IF c.mine \/ ~c.ok THEN UNCHANGED <<held, editing>> ELSE Forget(c.dev)
    /\ Done(c)
    /\ UNCHANGED <<lock, ids>>

\* The engine hears that its heartbeat was served, or that the lease is lost.
HearHeartbeat(c) ==
    /\ c.op = "heartbeat" /\ c.at = "answer"
    /\ IF c.ok /\ c.mine THEN UNCHANGED <<held, editing>> ELSE Forget(c.dev)
    /\ Done(c)
    /\ UNCHANGED <<lock, ids>>

\* The request or its answer is lost: an acquire has failed for the engine, the
\* failure of a heartbeat is only logged.
Lose(c) ==
    /\ c.at \in {"start", "answer"}
    /\ editing' = IF c.op = "acquire" THEN [editing EXCEPT ![c.dev] = FALSE] ELSE editing
    /\ Done(c)
    /\ UNCHANGED <<lock, ids, held>>

\* The application of a device dies: what a handler has begun it finishes.
Crash(d) ==
    /\ Forget(d)
    /\ requests' = {c \in requests : c.dev # d \/ c.at = "write"}
    /\ UNCHANGED <<lock, ids>>

-----------------------------------------------------------------------------

Serve(c) ==
    \/ AcquireRead(c) \/ AcquireWrite(c) \/ Payload(c)
    \/ Heartbeat(c) \/ Release(c) \/ CommitWrite(c)

Hear(c) == HearAcquire(c) \/ HearHeartbeat(c)

LeaseNext ==
    \/ Expire \/ Prune
    \/ \E c \in requests : Serve(c) \/ Hear(c) \/ Lose(c)
    \/ \E d \in Devices :
          \/ OfficeLocks(d) \/ OfficeUnlocks(d) \/ Refresh(d) \/ Crash(d)
          \/ ForceTakeover(d) \/ CommitCheck(d)

LeaseSpec == LeaseInit /\ [][LeaseNext]_leaseVars

(* The timer of a device runs, not every heartbeat and not every answer to   *)
(* one is lost, and calls do not stay in flight for ever.                    *)
Beats(d) == {c \in requests : c.dev = d /\ c.op = "heartbeat"}

Fairness ==
    /\ WF_leaseVars(\E c \in requests : Serve(c) \/ Hear(c) \/ Lose(c))
    /\ \A d \in Devices :
          /\ SF_leaseVars(Refresh(d))
          /\ SF_leaseVars(\E c \in Beats(d) : Serve(c))
          /\ SF_leaseVars(\E c \in Beats(d) : Hear(c))

FairSpec == LeaseSpec /\ Fairness

-----------------------------------------------------------------------------
(* Properties. *)

LiveOwner == IF lock # None /\ lock.fresh THEN lock.owner ELSE None

Lock == INSTANCE EditLock WITH owner <- LiveOwner, Nobody <- None, Managers <- ManagerDevices

\* However acquires, heartbeats, late releases and takeovers interleave, the
\* live lease behaves as the abstract lock: it never passes from one device to
\* another unless a manager takes it.
ImplementsEditLock == Lock!Spec

\* A device whose lease is live loses it only when it lapses, when a release it
\* sent itself for this lease is served, or to a manager; never through what
\* another device does, although the answer of an acquire that lost the race
\* tells that device the winner's lease id (collab-upgrade.ts:279).
LeaseSurvivesOthers ==
    [][\A d \in Devices : (LiveOwner = d /\ LiveOwner' # d) =>
          \/ lock' = [lock EXCEPT !.fresh = FALSE]
          \/ LiveOwner' \in ManagerDevices
          \/ \E c \in requests : /\ c.dev = d /\ c.op = "release" /\ c.id = lock.id
                                 /\ lock' = None]_leaseVars

\* When the batch of a commit runs against a live lease of another device, that
\* lease was granted after the commit had checked it: the window between
\* assertFileLeaseCompatible and the batch is the only one.
CommitUnderLease ==
    \A c \in requests : c.op = "commit" /\ LiveOwner \notin {None, c.dev} => c.raced

\* The inductive invariant: an acquire inserts with an id, and a lease that a
\* checked commit would not pass, lapsed or not, was granted after its check.
WriteHasId == \A c \in requests : c.op = "acquire" /\ c.at = "write" => c.id \in Ids

CheckedOrRaced ==
    \A c \in requests : c.op = "commit" => Compatible(lock, c.dev) \/ c.raced

LeaseIInv == LeaseTypeOK /\ WriteHasId /\ CheckedOrRaced

\* A device that goes on editing under an id it keeps finds out that the lease
\* is not its own, also when the id was another device's all along.
LostLeaseIsNoticed ==
    \A d \in Devices : (editing[d] /\ held[d] # None /\ LiveOwner # d)
                          ~> (~editing[d] \/ held[d] = None \/ LiveOwner = d)
=============================================================================
