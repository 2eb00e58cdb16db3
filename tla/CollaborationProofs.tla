------------------------ MODULE CollaborationProofs ------------------------
(***************************************************************************)
(* Proofs about FileLease, Notices and Rewind, the three models of         *)
(* worker/src/collab-upgrade.ts.                                           *)
(*                                                                         *)
(* FileLease, for every set of devices and managers and every number of    *)
(* lease ids and calls in flight: LeaseIInv is inductive, a commit passes  *)
(* another device's lease only when that lease was granted after its       *)
(* check, no device loses its lease through another, and the live lease    *)
(* implements the abstract EditLock.                                       *)
(*                                                                         *)
(* Notices, for any users, comments, tasks, dates, leases and calls: IInv  *)
(* is inductive; nobody is told twice, everybody is told who has to be,    *)
(* and an import brings each task of the desktop once.                     *)
(*                                                                         *)
(* Rewind, for any files, paths, writes of people and deaths of the        *)
(* Worker: RewindIInv is inductive and no version is ever replaced,        *)
(* however many requests execute the operation; with one request at a time *)
(* a completed operation has put back each file nobody has touched.        *)
(***************************************************************************)
EXTENDS FileLease, Notices, Rewind, SequenceTheorems, FiniteSetTheorems, TLAPS

-----------------------------------------------------------------------------
(* FileLease: the row of the lease.                                         *)

\* Pruning leaves a live lease alone and keeps the type of the row.
LEMMA PrunedRow ==
    ASSUME lock \in LeaseRow \cup {None}
    PROVE  /\ Pruned \in {lock, None}
           /\ Pruned \in LeaseRow \cup {None}
           /\ Pruned # None => Pruned = lock /\ lock.fresh
           /\ lock # None /\ lock.fresh => Pruned = lock
BY DEF Pruned, LeaseRow

\* A renewed row is live and keeps its owner and id.
LEMMA RenewedRow ==
    ASSUME NEW row \in LeaseRow
    PROVE  /\ Renewed(row) \in LeaseRow
           /\ Renewed(row).owner = row.owner /\ Renewed(row).id = row.id
           /\ Renewed(row).fresh
BY DEF Renewed, LeaseRow

\* The upsert of an acquire with an id grants a free lease to its device, renews
\* one of its device, and leaves every other alone.
LEMMA UpsertedRow ==
    ASSUME lock \in LeaseRow \cup {None}, NEW c \in LeaseCall, c.id \in Ids
    PROVE  /\ Upserted(c) \in LeaseRow \cup {None}
           /\ lock = None => Upserted(c) = Row(c.dev, c.id)
           /\ lock # None /\ lock.owner = c.dev => Upserted(c) = Renewed(lock)
           /\ lock # None /\ lock.owner # c.dev => Upserted(c) = lock
           /\ lock # None => Upserted(c) # None /\ Upserted(c).owner = lock.owner
<1>1. c.dev \in Devices
  BY DEF LeaseCall
<1>2. Row(c.dev, c.id) \in LeaseRow
  BY <1>1 DEF Row, LeaseRow
<1>3. lock # None => Renewed(lock) \in LeaseRow /\ Renewed(lock).owner = lock.owner
  BY RenewedRow
<1> QED BY <1>2, <1>3, NullAssumption DEF Upserted

-----------------------------------------------------------------------------
(* Calls. *)

\* A call that goes on, and a new one, keep their device and their kind.
LEMMA CallKept ==
    ASSUME NEW c \in LeaseCall, NEW at \in {"start", "write", "payload", "answer"},
           NEW ok \in BOOLEAN, NEW mine \in BOOLEAN, NEW id \in Ids \cup {None}
    PROVE  /\ [c EXCEPT !.at = at, !.ok = ok, !.mine = mine, !.id = id] \in LeaseCall
           /\ [c EXCEPT !.at = at, !.ok = ok, !.mine = mine, !.id = id].op = c.op
BY DEF LeaseCall

\* A grant marks the checked commits and leaves every other call alone.
LEMMA RacedCalls ==
    ASSUME NEW cs \in SUBSET LeaseCall
    PROVE  /\ Raced(cs) \subseteq LeaseCall
           /\ \A x \in Raced(cs) : x.op = "commit" => x.raced
           /\ \A x \in Raced(cs) : x.op # "commit" => x \in cs
<1>1. ASSUME NEW c \in LeaseCall, c.op = "commit"
      PROVE  /\ [c EXCEPT !.raced = TRUE] \in LeaseCall
             /\ [c EXCEPT !.raced = TRUE].raced
             /\ [c EXCEPT !.raced = TRUE].op = "commit"
  BY <1>1 DEF LeaseCall
<1>2. ASSUME NEW x \in Raced(cs)
      PROVE  /\ x \in LeaseCall
             /\ x.op = "commit" => x.raced
             /\ x.op # "commit" => x \in cs
  <2>1. PICK c \in cs : x = IF c.op = "commit" THEN [c EXCEPT !.raced = TRUE] ELSE c
    BY <1>2 DEF Raced
  <2>2. CASE c.op = "commit"
    BY <1>1, <2>1, <2>2
  <2>3. CASE c.op # "commit"
    BY <2>1, <2>3
  <2> QED BY <2>2, <2>3
<1> QED BY <1>2

-----------------------------------------------------------------------------
(* The inductive invariant. *)

\* What a call that a step adds has to satisfy.
NewCallOK(x) ==
    /\ x \in LeaseCall
    /\ x.op = "acquire" /\ x.at = "write" => x.id \in Ids
    /\ x.op = "commit" => Compatible(lock, x.dev) \/ x.raced

\* A step that excludes no more devices than before, and adds only good calls,
\* preserves the invariant.
LEMMA GentleStep ==
    ASSUME LeaseIInv,
           lock' \in LeaseRow \cup {None}, ids' \in 0 .. MaxIds,
           held' \in [Devices -> Ids \cup {None}], editing' \in [Devices -> BOOLEAN],
           \A d \in Devices : Compatible(lock, d) => Compatible(lock', d),
           \A x \in requests' : x \in requests \/ NewCallOK(x)'
    PROVE  LeaseIInv'
<1>1. \A x \in requests : x \in LeaseCall /\ x.dev \in Devices
  BY DEF LeaseIInv, LeaseTypeOK, LeaseCall
<1>2. LeaseTypeOK'
  BY <1>1 DEF LeaseTypeOK, NewCallOK
<1>3. WriteHasId'
  BY DEF LeaseIInv, WriteHasId, NewCallOK
<1>4. CheckedOrRaced'
  BY <1>1 DEF LeaseIInv, CheckedOrRaced, NewCallOK
<1> QED BY <1>2, <1>3, <1>4 DEF LeaseIInv

\* Pruning, renewing and deleting the row exclude no more devices than before.
LEMMA GentleRows ==
    ASSUME lock \in LeaseRow \cup {None}
    PROVE  /\ \A d : Compatible(lock, d) => Compatible(Pruned, d)
           /\ \A d : Compatible(lock, d) => Compatible(None, d)
           /\ lock # None => \A d : Compatible(lock, d) => Compatible(Renewed(lock), d)
BY PrunedRow, RenewedRow DEF Compatible

\* The handlers of the Worker preserve the invariant.
LEMMA ServeInv == ASSUME LeaseIInv, NEW c \in requests, Serve(c) PROVE LeaseIInv'
<1> USE DEF LeaseIInv, LeaseTypeOK
<1>1. c \in LeaseCall /\ c.dev \in Devices /\ c.id \in Ids \cup {None}
      /\ c.ok \in BOOLEAN /\ c.mine \in BOOLEAN
  BY DEF LeaseCall
<1>2. CASE AcquireRead(c)
  <2>1. lock' = Pruned /\ UNCHANGED <<held, editing>> /\ c.op = "acquire"
    BY <1>2 DEF AcquireRead
  <2>2. CASE Pruned # None /\ ~Mine(Pruned, c.dev)
    <3> DEFINE n == [c EXCEPT !.at = "answer", !.ok = FALSE, !.id = None]
    <3>1. requests' = (requests \ {c}) \cup {n} /\ ids' = ids
      BY <1>2, <2>2 DEF AcquireRead, Go
    <3>2. n \in LeaseCall /\ n.op = "acquire" /\ n.at = "answer"
      BY <1>1, <2>1 DEF LeaseCall
    <3> QED BY <2>1, <3>1, <3>2, PrunedRow, GentleRows, GentleStep DEF NewCallOK
  <2>3. CASE ~(Pruned # None /\ ~Mine(Pruned, c.dev))
    <3> DEFINE n == [c EXCEPT !.at = "write", !.id = LeaseId(c)]
    <3>1. /\ requests' = (requests \ {c}) \cup {n}
          /\ ids' = IF LeaseId(c) = ids + 1 THEN ids + 1 ELSE ids
          /\ ids' <= MaxIds
      BY <1>2, <2>3 DEF AcquireRead, Go
    <3>2. ids' \in 0 .. MaxIds
      BY <3>1, LeaseAssumption
    <3>3. LeaseId(c) \in Ids
      <4>1. CASE Pruned # None
        BY <4>1, PrunedRow DEF LeaseId, LeaseRow
      <4>2. CASE Pruned = None /\ c.id # None
        BY <1>1, <4>2 DEF LeaseId
      <4>3. CASE Pruned = None /\ c.id = None
        <5>1. LeaseId(c) = ids + 1
          BY <4>3 DEF LeaseId
        <5> QED BY <3>1, <5>1, LeaseAssumption DEF Ids
      <4> QED BY <4>1, <4>2, <4>3
    <3>4. n \in LeaseCall /\ n.op = "acquire" /\ n.id \in Ids
      BY <1>1, <2>1, <3>3 DEF LeaseCall
    <3> QED BY <2>1, <3>1, <3>2, <3>4, PrunedRow, GentleRows, GentleStep DEF NewCallOK
  <2> QED BY <2>2, <2>3
<1>3. CASE AcquireWrite(c)
  <2> DEFINE n == [c EXCEPT !.at = "payload", !.id = None]
  <2>1. c.op = "acquire" /\ c.id \in Ids /\ lock' = Upserted(c) /\ UNCHANGED <<ids, held, editing>>
    BY <1>3 DEF AcquireWrite, WriteHasId
  <2>2. n \in LeaseCall /\ n.op = "acquire" /\ n.at = "payload"
    BY <1>1, <2>1 DEF LeaseCall
  <2>3. CASE lock # None
    <3>1. requests' = (requests \ {c}) \cup {n}
      BY <1>3, <2>3 DEF AcquireWrite
    <3>2. \A d \in Devices : Compatible(lock, d) => Compatible(lock', d)
      BY <1>1, <2>1, <2>3, UpsertedRow DEF Compatible
    <3> QED BY <1>1, <2>1, <2>2, <3>1, <3>2, UpsertedRow, GentleStep DEF NewCallOK
  <2>4. CASE lock = None
    <3>1. requests' = Raced(requests \ {c}) \cup {n}
      BY <1>3, <2>4 DEF AcquireWrite
    <3>2. \A x \in requests' : /\ x \in LeaseCall
                               /\ x.op = "commit" => x.raced
                               /\ x.op = "acquire" => x \in requests \/ x.at = "payload"
      <4>1. requests \ {c} \in SUBSET LeaseCall
        OBVIOUS
      <4> QED BY <2>2, <3>1, <4>1, RacedCalls
    <3>3. lock' \in LeaseRow \cup {None}
      BY <1>1, <2>1, UpsertedRow
    <3>4. LeaseTypeOK'
      BY <2>1, <3>2, <3>3
    <3> QED BY <3>2, <3>4 DEF WriteHasId, CheckedOrRaced
  <2> QED BY <2>3, <2>4
<1>4. CASE Payload(c)
  <2> DEFINE n == [c EXCEPT !.at = "answer", !.mine = Mine(Pruned, c.dev),
                            !.id = IF Pruned = None THEN None ELSE Pruned.id]
  <2>1. lock' = Pruned /\ requests' = (requests \ {c}) \cup {n} /\ UNCHANGED <<ids, held, editing>>
    BY <1>4 DEF Payload, Go
  <2>2. Mine(Pruned, c.dev) \in BOOLEAN
    BY DEF Mine
  <2>3. (IF Pruned = None THEN None ELSE Pruned.id) \in Ids \cup {None}
    BY PrunedRow DEF LeaseRow
  <2>4. /\ n \in LeaseCall /\ n.op = c.op /\ n.at = "answer"
        /\ n.dev = c.dev /\ n.raced = c.raced
    BY <1>1, <2>2, <2>3 DEF LeaseCall
  <2>5. \A d \in Devices : Compatible(lock, d) => Compatible(lock', d)
    BY <2>1, GentleRows
  <2>6. \A x : x = n => NewCallOK(x)'
    BY <1>1, <2>1, <2>4, <2>5 DEF NewCallOK, CheckedOrRaced
  <2> QED BY <2>1, <2>5, <2>6, PrunedRow, GentleStep
<1>5. CASE Heartbeat(c)
  <2> DEFINE n == [c EXCEPT !.at = IF Matches(Pruned, c) THEN "payload" ELSE "answer",
                            !.ok = Matches(Pruned, c), !.id = None]
  <2>1. /\ lock' = IF Matches(Pruned, c) THEN Renewed(Pruned) ELSE Pruned
        /\ requests' = (requests \ {c}) \cup {n} /\ UNCHANGED <<ids, held, editing>>
        /\ c.op = "heartbeat"
    BY <1>5 DEF Heartbeat, Go
  <2>2. Matches(Pruned, c) \in BOOLEAN
    BY DEF Matches, Mine
  <2>3. n \in LeaseCall /\ n.op = "heartbeat"
    BY <1>1, <2>1, <2>2 DEF LeaseCall
  <2>4. lock' \in LeaseRow \cup {None}
        /\ \A d \in Devices : Compatible(lock, d) => Compatible(lock', d)
    <3>1. CASE Matches(Pruned, c)
      BY <2>1, <3>1, PrunedRow, RenewedRow, GentleRows DEF Matches, Mine
    <3>2. CASE ~Matches(Pruned, c)
      BY <2>1, <3>2, PrunedRow, GentleRows
    <3> QED BY <3>1, <3>2
  <2> QED BY <2>1, <2>3, <2>4, GentleStep DEF NewCallOK
<1>6. CASE Release(c)
  BY <1>6, GentleRows, GentleStep DEF Release, Done
<1>7. CASE CommitWrite(c)
  BY <1>7, GentleStep DEF CommitWrite, Done
<1> QED BY <1>2, <1>3, <1>4, <1>5, <1>6, <1>7 DEF Serve

\* The desktop engines preserve the invariant.
LEMMA EngineInv ==
    ASSUME LeaseIInv, NEW d \in Devices,
           OfficeLocks(d) \/ OfficeUnlocks(d) \/ Refresh(d) \/ Crash(d)
    PROVE  LeaseIInv'
<1> USE DEF LeaseIInv, LeaseTypeOK
<1>1. ASSUME NEW op \in {"acquire", "heartbeat", "release"}
      PROVE  \A x : x = NewLeaseCall(d, op, held[d]) => NewCallOK(x)'
  BY DEF NewLeaseCall, NewCallOK, LeaseCall
<1>2. /\ [held EXCEPT ![d] = None] \in [Devices -> Ids \cup {None}]
      /\ [editing EXCEPT ![d] = FALSE] \in [Devices -> BOOLEAN]
  OBVIOUS
<1>3. CASE OfficeLocks(d)
  BY <1>1, <1>3, GentleStep DEF OfficeLocks, Request
<1>4. CASE OfficeUnlocks(d)
  BY <1>1, <1>2, <1>4, GentleStep DEF OfficeUnlocks, Forget, Request
<1>5. CASE Refresh(d)
  BY <1>1, <1>5, GentleStep DEF Refresh, Request
<1>6. CASE Crash(d)
  BY <1>2, <1>6, GentleStep DEF Crash, Forget
<1> QED BY <1>3, <1>4, <1>5, <1>6

\* An answer that is heard or lost preserves the invariant.
LEMMA HearInv == ASSUME LeaseIInv, NEW c \in requests, Hear(c) \/ Lose(c) PROVE LeaseIInv'
<1> USE DEF LeaseIInv, LeaseTypeOK
<1>1. /\ c.dev \in Devices /\ c.id \in Ids \cup {None} /\ c.ok \in BOOLEAN
      /\ requests' \subseteq requests /\ lock' = lock /\ ids' = ids
  BY DEF Hear, HearAcquire, HearHeartbeat, Lose, Done, LeaseCall
<1>2. held' \in [Devices -> Ids \cup {None}] /\ editing' \in [Devices -> BOOLEAN]
  <2>1. CASE HearAcquire(c)
    BY <1>1, <2>1 DEF HearAcquire
  <2>2. CASE HearHeartbeat(c)
    BY <1>1, <2>2 DEF HearHeartbeat, Forget
  <2>3. CASE Lose(c)
    BY <1>1, <2>3 DEF Lose
  <2> QED BY <2>1, <2>2, <2>3 DEF Hear
<1> QED BY <1>1, <1>2, GentleStep

\* Every step preserves the invariant.
LEMMA LeaseNextInv == ASSUME LeaseIInv, [LeaseNext]_leaseVars PROVE LeaseIInv'
<1> USE DEF LeaseIInv, LeaseTypeOK
<1>1. CASE Expire
  <2>1. lock' \in LeaseRow /\ lock # None /\ lock'.owner = lock.owner
    BY <1>1 DEF Expire, LeaseRow
  <2> QED BY <1>1, <2>1, GentleStep DEF Expire, Compatible
<1>2. CASE Prune
  BY <1>2, PrunedRow, GentleRows, GentleStep DEF Prune
<1>3. ASSUME NEW d \in Devices, ForceTakeover(d)
      PROVE  LeaseIInv'
  <2>1. ids' \in 0 .. MaxIds /\ ids + 1 \in Ids
    BY <1>3, LeaseAssumption DEF ForceTakeover, Ids
  <2>2. lock' \in LeaseRow
    BY <1>3, <2>1 DEF ForceTakeover, Row, LeaseRow
  <2>3. /\ requests' \subseteq LeaseCall
        /\ \A x \in requests' : x.op = "commit" => x.raced
        /\ \A x \in requests' : x.op # "commit" => x \in requests
    BY <1>3, RacedCalls DEF ForceTakeover
  <2> QED BY <1>3, <2>1, <2>2, <2>3 DEF ForceTakeover, WriteHasId, CheckedOrRaced
<1>4. ASSUME NEW d \in Devices, CommitCheck(d)
      PROVE  LeaseIInv'
  <2> DEFINE n == [NewLeaseCall(d, "commit", None) EXCEPT !.at = "write"]
  <2>1. n \in LeaseCall /\ n.op = "commit" /\ n.dev = d
    BY DEF NewLeaseCall, LeaseCall
  <2> HIDE DEF n
  <2>2. /\ lock' = Pruned /\ Compatible(Pruned, d) /\ requests' = requests \cup {n}
        /\ UNCHANGED <<ids, held, editing>>
    BY <1>4 DEF CommitCheck, Request, n
  <2>3. \A x : x = n => NewCallOK(x)'
    BY <2>1, <2>2 DEF NewCallOK
  <2> QED BY <2>2, <2>3, PrunedRow, GentleRows, GentleStep
<1>5. CASE UNCHANGED leaseVars
  BY <1>5, GentleStep DEF leaseVars
<1> QED BY <1>1, <1>2, <1>3, <1>4, <1>5, ServeInv, HearInv, EngineInv DEF LeaseNext

\* The empty lease satisfies the invariant.
LEMMA LeaseInitInv == LeaseInit => LeaseIInv
BY LeaseAssumption DEF LeaseInit, LeaseIInv, LeaseTypeOK, WriteHasId, CheckedOrRaced

\* In every reachable state the rows, ids and calls are well formed, an acquire
\* inserts with an id, and a commit whose check the lease no longer passes was
\* overtaken by a grant.
THEOREM LeaseInductive == LeaseSpec => []LeaseIInv
BY LeaseInitInv, LeaseNextInv, PTL DEF LeaseSpec

\* The lease, its ids, the calls in flight and what the engines keep are well
\* formed (file_edit_leases, SyncEngine.fileLeases and presenceFiles).
THEOREM LeaseTypeCorrect == LeaseSpec => []LeaseTypeOK
BY LeaseInductive, PTL DEF LeaseIInv

\* The batch of a commit meets a live lease of another device only if that
\* lease was granted between assertFileLeaseCompatible and the batch.
THEOREM CommitsAreChecked == LeaseSpec => []CommitUnderLease
<1>1. LeaseIInv => CommitUnderLease
  BY DEF LeaseIInv, CheckedOrRaced, CommitUnderLease, Compatible, LiveOwner
<1> QED BY <1>1, LeaseInductive, PTL

-----------------------------------------------------------------------------
(* The live lease. *)

\* What a step does to the owner of the live lease: it keeps it, grants a free
\* lease, ends it by its lapse or by a release its owner sent for it, or gives
\* it to a manager.
OwnerStep ==
    \/ LiveOwner' = LiveOwner
    \/ \E d \in Devices : LiveOwner = None /\ LiveOwner' = d
    \/ lock # None /\ lock' = [lock EXCEPT !.fresh = FALSE] /\ LiveOwner' = None
    \/ \E c \in requests : /\ c.dev = LiveOwner /\ c.op = "release" /\ c.id = lock.id
                           /\ lock' = None /\ LiveOwner' = None
    \/ LiveOwner' \in ManagerDevices

\* Pruning and renewing do not change who has the live lease.
LEMMA OwnerKept ==
    ASSUME lock \in LeaseRow \cup {None}, lock' \in {lock, Pruned}
    PROVE  LiveOwner' = LiveOwner
BY DEF LiveOwner, Pruned

\* Every step does one of these to the owner.
LEMMA OwnerSteps == ASSUME LeaseIInv, [LeaseNext]_leaseVars PROVE OwnerStep
<1>1. lock \in LeaseRow \cup {None} /\ requests \subseteq LeaseCall
  BY DEF LeaseIInv, LeaseTypeOK
<1>2. CASE Expire
  <2>1. lock # None /\ lock' = [lock EXCEPT !.fresh = FALSE] /\ lock' \in LeaseRow
        /\ ~lock'.fresh
    BY <1>1, <1>2 DEF Expire, LeaseRow
  <2> QED BY <2>1 DEF OwnerStep, LiveOwner
<1>3. ASSUME NEW c \in requests, AcquireWrite(c)
      PROVE  OwnerStep
  <2>1. c \in LeaseCall /\ c.dev \in Devices /\ c.id \in Ids /\ lock' = Upserted(c)
    BY <1>1, <1>3 DEF AcquireWrite, LeaseIInv, WriteHasId, LeaseCall
  <2>2. CASE lock = None
    <3>1. lock' = Row(c.dev, c.id)
      BY <1>1, <2>1, <2>2, UpsertedRow
    <3>2. lock' \in LeaseRow /\ lock'.owner = c.dev /\ lock'.fresh
      BY <2>1, <3>1 DEF Row, LeaseRow
    <3>3. LiveOwner = None /\ LiveOwner' = c.dev
      BY <2>2, <3>2, NullAssumption DEF LiveOwner
    <3> QED BY <2>1, <3>3 DEF OwnerStep
  <2>3. CASE lock # None /\ lock.owner = c.dev
    <3>1. lock' = Renewed(lock)
      BY <1>1, <2>1, <2>3, UpsertedRow
    <3>2. LiveOwner' = c.dev
      BY <1>1, <2>3, <3>1, RenewedRow, NullAssumption DEF LiveOwner
    <3>3. LiveOwner \in {c.dev, None}
      BY <2>3 DEF LiveOwner
    <3> QED BY <2>1, <3>2, <3>3 DEF OwnerStep
  <2>4. CASE lock # None /\ lock.owner # c.dev
    BY <1>1, <2>1, <2>4, UpsertedRow, OwnerKept DEF OwnerStep
  <2> QED BY <2>2, <2>3, <2>4
<1>4. ASSUME NEW c \in requests, Heartbeat(c)
      PROVE  OwnerStep
  <2>1. CASE Matches(Pruned, c)
    <3>1. Pruned = lock /\ lock \in LeaseRow /\ lock.fresh /\ lock' = Renewed(lock)
      BY <1>1, <1>4, <2>1, PrunedRow DEF Heartbeat, Matches, Mine
    <3>2. LiveOwner' = lock.owner /\ LiveOwner = lock.owner
      BY <3>1, RenewedRow, NullAssumption DEF LiveOwner
    <3> QED BY <3>2 DEF OwnerStep
  <2>2. CASE ~Matches(Pruned, c)
    BY <1>1, <1>4, <2>2, OwnerKept DEF Heartbeat, OwnerStep
  <2> QED BY <2>1, <2>2
<1>5. ASSUME NEW c \in requests, Release(c)
      PROVE  OwnerStep
  <2>1. CASE Matches(lock, c)
    <3>1. lock' = None /\ lock # None /\ lock.owner = c.dev /\ lock.id = c.id
          /\ c.op = "release"
      BY <1>5, <2>1 DEF Release, Matches, Mine
    <3>2. LiveOwner' = None /\ LiveOwner \in {c.dev, None}
      BY <3>1 DEF LiveOwner
    <3> QED BY <3>1, <3>2 DEF OwnerStep
  <2>2. CASE ~Matches(lock, c)
    BY <1>1, <1>5, <2>2, OwnerKept DEF Release, OwnerStep
  <2> QED BY <2>1, <2>2
<1>6. ASSUME NEW d \in Devices, ForceTakeover(d)
      PROVE  OwnerStep
  <2>1. d \in ManagerDevices /\ lock' = Row(d, ids + 1) /\ ids + 1 \in Ids
    BY <1>6, LeaseAssumption DEF ForceTakeover, Ids, LeaseIInv, LeaseTypeOK
  <2>2. lock' \in LeaseRow /\ lock'.owner = d /\ lock'.fresh
    BY <2>1 DEF Row, LeaseRow
  <2>3. LiveOwner' = d
    BY <2>2, NullAssumption DEF LiveOwner
  <2> QED BY <2>1, <2>3 DEF OwnerStep
<1>7. CASE lock' \in {lock, Pruned}
  BY <1>1, <1>7, OwnerKept DEF OwnerStep
<1>8. ASSUME NEW c \in requests,
             AcquireRead(c) \/ Payload(c) \/ CommitWrite(c) \/ Hear(c) \/ Lose(c)
      PROVE  lock' \in {lock, Pruned}
  BY <1>8 DEF AcquireRead, Payload, CommitWrite, Hear, HearAcquire, HearHeartbeat, Lose
<1>9. ASSUME NEW d \in Devices,
             OfficeLocks(d) \/ OfficeUnlocks(d) \/ Refresh(d) \/ Crash(d) \/ CommitCheck(d)
      PROVE  lock' \in {lock, Pruned}
  BY <1>9 DEF OfficeLocks, OfficeUnlocks, Refresh, Crash, CommitCheck
<1>10. Prune \/ UNCHANGED leaseVars => lock' \in {lock, Pruned}
  BY DEF Prune, leaseVars
<1> QED BY <1>2, <1>3, <1>4, <1>5, <1>6, <1>7, <1>8, <1>9, <1>10 DEF LeaseNext, Serve

\* A device loses its live lease only when it lapses, when a release it sent
\* for it is served, or to a manager (collab-upgrade.ts, the lease handlers).
THEOREM NoThirdPartyLoss == LeaseSpec => LeaseSurvivesOthers
<1>1. ASSUME OwnerStep, NEW d \in Devices, LiveOwner = d, LiveOwner' # d
      PROVE  \/ lock' = [lock EXCEPT !.fresh = FALSE]
             \/ LiveOwner' \in ManagerDevices
             \/ \E c \in requests : /\ c.dev = d /\ c.op = "release" /\ c.id = lock.id
                                    /\ lock' = None
  BY <1>1, LeaseAssumption DEF OwnerStep
<1>2. OwnerStep =>
        [\A d \in Devices : (LiveOwner = d /\ LiveOwner' # d) =>
            \/ lock' = [lock EXCEPT !.fresh = FALSE]
            \/ LiveOwner' \in ManagerDevices
            \/ \E c \in requests : /\ c.dev = d /\ c.op = "release" /\ c.id = lock.id
                                   /\ lock' = None]_leaseVars
  BY <1>1
<1> QED BY <1>2, LeaseInductive, OwnerSteps, PTL DEF LeaseSpec, LeaseSurvivesOthers

\* The live lease behaves as the abstract lock of EditLock.
THEOREM LeaseRefinement == LeaseSpec => ImplementsEditLock
<1>1. LeaseInit => Lock!Init
  BY DEF LeaseInit, Lock!Init, LiveOwner
<1>2. OwnerStep => [Lock!Next]_LiveOwner
  BY LeaseAssumption DEF OwnerStep, Lock!Next, Lock!Grant, Lock!End, Lock!TakeOver
<1> QED BY <1>1, <1>2, LeaseInductive, OwnerSteps, PTL DEF LeaseSpec, ImplementsEditLock, Lock!Spec


-----------------------------------------------------------------------------
(* Notices: values.                                                         *)

\* One import sends no more tasks than there are.
LEMMA SentFits == Len(Legacy) \in Nat /\ Sent \in 0 .. Len(Legacy)
  BY NoticesAssumption DEF Sent

\* A new call, with whatever it asks for.
LEMMA NewCallFits ==
    ASSUME TypeOK, NEW op \in Ops, NEW by \in Users
    PROVE  NewCall(op, by) \in Call
  <1>1. 1 \in 1 .. Len(Legacy) + 1
    BY SentFits
  <1> QED BY <1>1 DEF NewCall, Call, TypeOK

\* The causes of a notification.
LEMMA CauseFits ==
    /\ \A k \in Comments : [type |-> "comment", of |-> k] \in Cause
    /\ \A l \in Leases, u \in Users : [type |-> "takeover", of |-> l, by |-> u] \in Cause
    /\ \A t \in Tasks, d \in Dates : Due(t, d) \in Cause
  BY DEF Cause, Due

-----------------------------------------------------------------------------
(* Calls that a step leaves alone.                                          *)

\* What the tables keep when the rows of X change: what is told and imported only grows,
\* comments stay, and a task or a thread that is not of X is as it was.
Grown(X) ==
    /\ readers' = readers /\ made \subseteq made' /\ arrived \subseteq arrived'
    /\ \A k \in Comments : comments[k] # Null =>
           comments'[k] # Null /\ (comments'[k].resolved => comments[k].resolved \/ k \in X)
    /\ \A t \in Tasks : t \notin X =>
           /\ tasks'[t] = tasks[t]
           /\ tasks[t] # Null /\ tasks[t].due # Null => phase'[tasks[t].due] = phase[tasks[t].due]

SameMentions(k) == \A u \in Users : <<k, u>> \in mentions' <=> <<k, u>> \in mentions

LEMMA OtherComment ==
    ASSUME NEW X, Grown(X), NEW call \in Call, NEW new,
           new = [call EXCEPT !.changed = call.changed \cup X],
           HasComment(call) => SameMentions(call.id),
           call.op = "comment", CommentOK(call)
    PROVE  CommentOK(new)'
  <1>1. /\ new.at = call.at /\ new.parent = call.parent /\ new.id = call.id /\ new.todo = call.todo
        /\ new.asked = call.asked /\ new.found = call.found /\ new.by = call.by
        /\ new.could = call.could /\ new.couldNot = call.couldNot
        /\ new.changed = call.changed \cup X
        /\ call.parent \in Comments \cup {Null}
    BY DEF Call
  <1>2. HasComment(call) => Mentioned(call.id)' = Mentioned(call.id)
    BY DEF SameMentions, Mentioned
  <1>3. HasComment(call) => ToldOf(call.id) \subseteq ToldOf(call.id)'
    BY <1>2 DEF ToldOf, Grown
  <1>4. MustTell(new) = MustTell(call)
    BY <1>1 DEF MustTell
  <1>5. call.at \in {"parse", "tell", "answer"} <=> HasComment(call)
    BY DEF HasComment
  <1>6. new.at = "write" /\ new.parent # Null =>
           /\ comments'[new.parent] # Null
           /\ comments'[new.parent].resolved => new.parent \in new.changed
    BY <1>1 DEF CommentOK, Grown
  <1>7. HasComment(call) =>
           /\ call.id \in Comments /\ comments'[call.id] # Null
           /\ Mentioned(call.id)' \subseteq call.asked \cap call.could
    BY <1>2, <1>5 DEF CommentOK, Grown
  <1>8. MustTell(new)' = MustTell(call)
    BY <1>1 DEF MustTell
  <1> QED BY <1>1, <1>3, <1>5, <1>6, <1>7, <1>8 DEF CommentOK

LEMMA OtherList ==
    ASSUME NEW X, Grown(X), NEW call \in Call, NEW new,
           new = [call EXCEPT !.changed = call.changed \cup X],
           ListOK(call)
    PROVE  ListOK(new)'
  <1>1. /\ new.at = call.at /\ new.todo = call.todo /\ new.by = call.by
        /\ new.changed = call.changed \cup X
    BY DEF Call
  <1>2. ASSUME NEW t \in DueOf(new.by)' \ new.changed
        PROVE  t \in DueOf(call.by) \ call.changed /\ tasks'[t] = tasks[t]
    BY <1>1, <1>2 DEF DueOf, Grown
  <1>3. \A t \in Tasks, d \in Dates : Due(t, d)' = Due(t, d)
    BY DEF Due
  <1>4. ASSUME NEW t \in DueOf(new.by)' \ new.changed, call.at # "enter"
        PROVE  \/ <<new.by, Due(t, tasks'[t].due)>> \in made'
               \/ new.at = "tell" /\ Due(t, tasks'[t].due) \in new.todo
    BY <1>1, <1>2, <1>4 DEF ListOK, Grown
  <1> QED BY <1>1, <1>4 DEF ListOK, Due

LEMMA OtherImport ==
    ASSUME NEW X, Grown(X), NEW call \in Call, NEW new,
           new = [call EXCEPT !.changed = call.changed \cup X],
           ImportOK(call)
    PROVE  ImportOK(new)'
  BY DEF ImportOK, Call, Grown, Sent

LEMMA OtherCall ==
    ASSUME NEW X, Grown(X), NEW call \in Call, NEW new,
           new = [call EXCEPT !.changed = call.changed \cup X],
           HasComment(call) => SameMentions(call.id),
           CallOK(call)
    PROVE  CallOK(new)'
  <1>1. /\ new.at = call.at /\ new.op = call.op /\ new.id = call.id /\ new.could = call.could
        /\ new.couldNot = call.couldNot /\ new.change = call.change
    BY DEF Call
  <1>2. /\ call.op = "comment" => CommentOK(new)'
        /\ call.op = "list" => ListOK(new)'
        /\ call.op = "import" => ImportOK(new)'
    BY OtherComment, OtherList, OtherImport DEF CallOK
  <1>3. readers' \subseteq new.could /\ Users \ readers' \subseteq new.couldNot
    BY <1>1 DEF CallOK, Grown
  <1>4. call.op \in {"resolve", "reopen"} =>
           new.at \in {"enter", "write"} /\ new.id \in Comments /\ comments'[new.id] # Null
    BY <1>1 DEF CallOK, Grown
  <1> QED BY <1>1, <1>2, <1>3, <1>4 DEF CallOK

-----------------------------------------------------------------------------
(* What a step has to show: what it leaves alone, and its own call.         *)

\* The calls besides c, under way, remember that the rows of X changed.
Others(c, X) ==
    \A d \in Slots : d # c =>
        calls'[d] = IF calls[d] = Null THEN Null
                    ELSE [calls[d] EXCEPT !.changed = calls[d].changed \cup X]

\* A call c says nothing of what is over that it did not say before, and has a comment of
\* its own.
Modest(c) ==
    calls'[c] # Null =>
        /\ \A cause : Past(cause) /\ Tells(calls'[c], cause)
                          => calls[c] # Null /\ Tells(calls[c], cause)
        /\ HasComment(calls'[c]) =>
               \A d \in Slots : d # c /\ calls[d] # Null /\ HasComment(calls[d])
                                    => calls[d].id # calls'[c].id

\* What was told stays told: a notification goes only when it is old.
NoticesStay ==
    /\ \A n \in notices' : /\ n.event = n.cause /\ <<n.to, n.cause>> \in made'
                           /\ n.old => \E m \in notices : m.old /\ m.cause = n.cause
    /\ \A n \in notices : n.old \/ \E m \in notices' : m.to = n.to /\ m.cause = n.cause
    /\ \A u \in Users, cause \in Cause : <<u, cause>> \in made' =>
           \/ <<u, cause>> \in made
           \/ /\ \E n \in notices' : n.to = u /\ n.cause = cause
              /\ cause.type = "comment" => comments'[cause.of] # Null

PastStays == ended \subseteq ended' /\ \A d \in Dates : phase[d] = "past" => phase'[d] = "past"

LEMMA NothingAdded ==
    ASSUME NEW call \in Call PROVE [call EXCEPT !.changed = call.changed \cup {}] = call
  BY DEF Call

LEMMA OverStays ==
    ASSUME IInv, NEW c \in Slots, NEW X, Grown(X), Others(c, X), Modest(c), PastStays,
           NEW cause \in Cause, Over(cause)
    PROVE  Over(cause)'
  <1>1. /\ cause.type = "comment" => cause.of \in Comments
        /\ cause.type = "due" => cause.on \in Dates
    BY DEF Cause
  <1>2. Past(cause) /\ Past(cause)'
    BY <1>1 DEF Over, Past, PastStays, Grown
  <1>3. ASSUME NEW d \in Slots, calls'[d] # Null, Tells(calls'[d], cause) PROVE FALSE
    <2>1. CASE d = c
      BY <2>1, <1>2, <1>3 DEF Modest, Over
    <2>2. CASE d # c
      <3>1. calls[d] # Null /\ calls[d] \in Call
        BY <2>2, <1>3 DEF Others, IInv, TypeOK
      <3>2. Tells(calls[d], cause)
        BY <2>2, <1>3, <3>1 DEF Others, Tells, Call
      <3> QED BY <3>1, <3>2 DEF Over
    <2> QED BY <2>1, <2>2
  <1> QED BY <1>2, <1>3 DEF Over

LEMMA Assembled ==
    ASSUME IInv, NEW c \in Slots, NEW X, Grown(X), Others(c, X), Modest(c), NoticesStay, PastStays,
           TypeOK',
           \A d \in Slots : d # c /\ calls[d] # Null /\ HasComment(calls[d])
                                => SameMentions(calls[d].id),
           calls'[c] # Null => CallOK(calls[c])',
           MentionsOK', ArrivedOK', lease' \notin ended'
    PROVE  IInv'
  <1>1. ASSUME NEW d \in Slots, d # c, calls'[d] # Null
        PROVE  /\ calls[d] # Null /\ calls[d] \in Call /\ CallOK(calls[d])
               /\ calls'[d] = [calls[d] EXCEPT !.changed = calls[d].changed \cup X]
               /\ HasComment(calls'[d]) <=> HasComment(calls[d])
               /\ calls'[d].id = calls[d].id
    <2>1. calls[d] # Null /\ calls[d] \in Call /\ CallOK(calls[d])
      BY <1>1 DEF Others, IInv, TypeOK, CallsOK
    <2>2. calls'[d] = [calls[d] EXCEPT !.changed = calls[d].changed \cup X]
      BY <1>1, <2>1 DEF Others
    <2> QED BY <2>1, <2>2 DEF HasComment, Call
  <1>2. ASSUME NEW d \in Slots, calls'[d] # Null PROVE CallOK(calls[d])'
    <2>1. CASE d = c
      BY <2>1, <1>2
    <2>2. CASE d # c
      <3>1. PICK call, new : call = calls[d] /\ new = calls'[d]
        OBVIOUS
      <3>2. CallOK(new)'
        BY <3>1, <2>2, <1>1, <1>2, OtherCall
      <3>3. CallOK(calls[d])' = CallOK(new)'
        BY <3>1 DEF CallOK, CommentOK, ListOK, ImportOK, MustTell
      <3> QED BY <3>2, <3>3
    <2> QED BY <2>1, <2>2
  <1>3. CallsOK'
    BY <1>2 DEF CallsOK
  <1>4. CommentsApart'
    <2> SUFFICES ASSUME NEW d \in Slots, NEW e \in Slots, calls'[d] # Null, calls'[e] # Null,
                        HasComment(calls'[d]), HasComment(calls'[e]), calls'[d].id = calls'[e].id
                 PROVE  d = e
      BY DEF CommentsApart
    <2>1. CASE d # c /\ e # c
      BY <2>1, <1>1 DEF IInv, CommentsApart
    <2>2. CASE d = c /\ e # c
      BY <2>2, <1>1 DEF Modest
    <2>3. CASE d # c /\ e = c
      BY <2>3, <1>1 DEF Modest
    <2> QED BY <2>1, <2>2, <2>3
  <1>5. ASSUME NEW cause \in Cause, Over(cause) PROVE Over(cause)'
    BY <1>5, OverStays
  <1>6. NoticesOK'
    <2> SUFFICES ASSUME NEW n \in notices'
                 PROVE  n.event = n.cause /\ <<n.to, n.cause>> \in made' /\ (n.old => Over(n.cause)')
      BY DEF NoticesOK, Over, Past
    <2>1. n.event = n.cause /\ <<n.to, n.cause>> \in made'
      BY DEF NoticesStay
    <2>2. ASSUME n.old PROVE Over(n.cause)'
      <3>1. PICK m \in notices : m.old /\ m.cause = n.cause
        BY <2>2 DEF NoticesStay
      <3>2. m.cause \in Cause /\ Over(m.cause)
        BY <3>1 DEF IInv, TypeOK, Notice, NoticesOK
      <3> QED BY <3>1, <3>2, <1>5
    <2> QED BY <2>1, <2>2
  <1>7. MadeOK'
    <2> SUFFICES ASSUME NEW u \in Users, NEW cause \in Cause, <<u, cause>> \in made'
                 PROVE  /\ (\E n \in notices' : n.to = u /\ n.cause = cause) \/ Over(cause)'
                        /\ cause.type = "comment" => comments'[cause.of] # Null
      BY DEF MadeOK
    <2>1. CASE <<u, cause>> \in made
      <3>1. /\ (\E n \in notices : n.to = u /\ n.cause = cause) \/ Over(cause)
            /\ cause.type = "comment" => comments[cause.of] # Null
        BY <2>1 DEF IInv, MadeOK
      <3>2. ASSUME NEW n \in notices, n.to = u, n.cause = cause
            PROVE  (\E m \in notices' : m.to = u /\ m.cause = cause) \/ Over(cause)
        BY <3>2 DEF NoticesStay, IInv, NoticesOK
      <3>3. cause.type = "comment" => cause.of \in Comments
        BY DEF Cause
      <3>4. cause.type = "comment" => comments'[cause.of] # Null
        BY <3>1, <3>3 DEF Grown
      <3> QED BY <3>1, <3>2, <3>4, <1>5
    <2> QED BY <2>1 DEF NoticesStay
  <1> QED BY <1>3, <1>4, <1>6, <1>7 DEF IInv

Tables == <<readers, lease, ended, comments, mentions, notices, tasks, phase, made, arrived>>

LEMMA SameRows ==
    ASSUME UNCHANGED Tables, NEW call PROVE CallOK(call)' <=> CallOK(call)
  <1>1. CommentOK(call)' <=> CommentOK(call)
    BY DEF Tables, CommentOK, Mentioned, ToldOf, MustTell
  <1>2. ListOK(call)' <=> ListOK(call)
    BY DEF Tables, ListOK, DueOf, Due
  <1>3. ImportOK(call)' <=> ImportOK(call)
    BY DEF Tables, ImportOK, Sent
  <1> QED BY <1>1, <1>2, <1>3 DEF Tables, CallOK

\* A step of one call that leaves the tables alone.
LEMMA QuietStep ==
    ASSUME IInv, NEW c \in Slots, NEW new \in Call \cup {Null},
           calls' = [calls EXCEPT ![c] = new], UNCHANGED <<scene, Tables>>,
           left' \in 0 .. scene.calls, migrating' \in BOOLEAN, local' \in BOOLEAN,
           \A i \in 1 .. Len(Legacy) : ~local' /\ i <= Sent => i \in arrived,
           new # Null =>
               /\ CallOK(new)
               /\ \A cause : Past(cause) /\ Tells(new, cause) => calls[c] # Null /\ Tells(calls[c], cause)
               /\ HasComment(new) =>
                      calls[c] # Null /\ HasComment(calls[c]) /\ calls[c].id = new.id
    PROVE  IInv'
  <1>1. /\ UNCHANGED <<scene, readers, lease, ended, comments, mentions, notices, tasks, phase, made,
                       arrived>>
        /\ calls \in [Slots -> Call \cup {Null}]
    BY DEF Tables, IInv, TypeOK
  <1>2. TypeOK'
    BY <1>1 DEF IInv, TypeOK
  <1>3. Grown({})
    BY <1>1 DEF Grown
  <1>4. Others(c, {})
    BY <1>1, NothingAdded DEF Others
  <1>5. calls'[c] = new
    BY <1>1
  <1>6. Modest(c)
    BY <1>5 DEF Modest, IInv, CommentsApart
  <1>7. NoticesStay
    BY <1>1 DEF NoticesStay, IInv, NoticesOK
  <1>8. PastStays
    BY <1>1 DEF PastStays
  <1>9. \A d \in Slots : SameMentions(calls[d].id)
    BY <1>1 DEF SameMentions
  <1>10. ASSUME calls'[c] # Null PROVE CallOK(calls[c])'
    <2>1. CallOK(new)'
      BY <1>5, <1>10, SameRows
    <2>2. PICK same : same = new /\ same = calls'[c]
      BY <1>5
    <2>3. CallOK(same)'
      BY <2>1, <2>2
    <2>4. CallOK(calls[c])' = CallOK(same)'
      BY <2>2 DEF CallOK, CommentOK, ListOK, ImportOK, MustTell
    <2> QED BY <2>3, <2>4
  <1>11. MentionsOK' /\ ArrivedOK' /\ lease' \notin ended'
    BY <1>1 DEF IInv, MentionsOK, ArrivedOK, Sent
  <1> QED BY <1>2, <1>3, <1>4, <1>6, <1>7, <1>8, <1>9, <1>10, <1>11, Assembled

\* A handler checks something, and goes on as `new` or fails.
LEMMA CheckStep ==
    ASSUME IInv, NEW c \in Slots, calls[c] # Null, NEW new, calls' = [calls EXCEPT ![c] = new],
           UNCHANGED <<scene, left, Store, Desk, History>>,
           new # Null =>
               /\ new \in Call /\ CallOK(new)
               /\ \A cause : Past(cause) /\ Tells(new, cause) => Tells(calls[c], cause)
               /\ HasComment(new) => HasComment(calls[c]) /\ calls[c].id = new.id
    PROVE  IInv'
  <1>1. UNCHANGED <<scene, Tables, left, local, migrating>>
    BY DEF Tables, Store, File, Desk, History
  <1>2. /\ left' \in 0 .. scene.calls /\ migrating' \in BOOLEAN /\ local' \in BOOLEAN
        /\ \A i \in 1 .. Len(Legacy) : ~local' /\ i <= Sent => i \in arrived
    BY <1>1 DEF IInv, TypeOK, ArrivedOK
  <1> QED BY <1>1, <1>2, QuietStep

LEMMA TheCall ==
    ASSUME IInv, NEW c \in Slots, calls[c] # Null
    PROVE  calls[c] \in Call /\ CallOK(calls[c])
  BY DEF IInv, TypeOK, CallsOK

\* A request arrives.
LEMMA SendStep ==
    ASSUME IInv, NEW c \in Slots, NEW new \in Call, Send(c, new), migrating' \in BOOLEAN, CallOK(new),
           ~HasComment(new), new.at = "enter"
    PROVE  IInv'
  <1>1. /\ calls' = [calls EXCEPT ![c] = new] /\ UNCHANGED <<scene, Tables, local>>
        /\ left > 0 /\ left' = left - 1
    BY DEF Send, Tables, Store, File, History
  <1>2. left' \in 0 .. scene.calls /\ local' \in BOOLEAN
    <2>1. scene.calls \in Nat
      BY NoticesAssumption DEF IInv, TypeOK
    <2> QED BY <1>1, <2>1 DEF IInv, TypeOK
  <1>3. \A i \in 1 .. Len(Legacy) : ~local' /\ i <= Sent => i \in arrived
    BY <1>1 DEF IInv, ArrivedOK
  <1>4. \A cause : ~Tells(new, cause)
    BY DEF Tells
  <1> QED BY <1>1, <1>2, <1>3, <1>4, QuietStep

-----------------------------------------------------------------------------
(* Requests.                                                                *)

LEMMA FreshCall ==
    ASSUME IInv, NEW op \in Ops, NEW by \in Users
    PROVE  LET call == NewCall(op, by)
           IN  /\ call \in Call /\ call.op = op /\ call.by = by /\ call.at = "enter"
               /\ call.found = {} /\ call.next = 1 /\ call.parent = Null
               /\ readers \subseteq call.could /\ Users \ readers \subseteq call.couldNot
  BY NewCallFits DEF IInv, NewCall

LEMMA SendCommentStep == ASSUME IInv, NEW c \in Slots, SendComment(c) PROVE IInv'
  <1>1. PICK u \in Users, asked \in scene.mentions, parent \in Comments \cup {Null} :
            /\ parent # Null => comments[parent] # Null
            /\ Send(c, [NewCall("comment", u) EXCEPT !.parent = parent, !.asked = asked])
            /\ UNCHANGED migrating
    BY DEF SendComment
  <1>2. asked \subseteq Users
    BY NoticesAssumption DEF IInv, TypeOK
  <1>3. PICK fresh : fresh = NewCall("comment", u)
    OBVIOUS
  <1>4. PICK new : new = [fresh EXCEPT !.parent = parent, !.asked = asked]
    OBVIOUS
  <1>5. /\ fresh \in Call /\ fresh.op = "comment" /\ fresh.at = "enter" /\ fresh.found = {}
        /\ readers \subseteq fresh.could /\ Users \ readers \subseteq fresh.couldNot
    BY <1>3, FreshCall DEF Ops
  <1>6. /\ new \in Call /\ new.op = "comment" /\ new.at = "enter" /\ new.found = {}
        /\ readers \subseteq new.could /\ Users \ readers \subseteq new.couldNot
    BY <1>2, <1>4, <1>5 DEF Call
  <1>7. CallOK(new)
    BY <1>6 DEF CallOK, CommentOK
  <1>8. ~HasComment(new)
    BY <1>6 DEF HasComment
  <1>9. Send(c, new) /\ migrating' \in BOOLEAN
    BY <1>1, <1>3, <1>4 DEF IInv, TypeOK
  <1> QED BY <1>6, <1>7, <1>8, <1>9, SendStep

LEMMA SendResolveStep == ASSUME IInv, NEW c \in Slots, SendResolve(c) PROVE IInv'
  <1>1. PICK op \in {"resolve", "reopen"}, u \in Users, k \in Comments :
            /\ comments[k] # Null
            /\ Send(c, [NewCall(op, u) EXCEPT !.id = k]) /\ UNCHANGED migrating
    BY DEF SendResolve
  <1>3. PICK fresh : fresh = NewCall(op, u)
    OBVIOUS
  <1>4. PICK new : new = [fresh EXCEPT !.id = k]
    OBVIOUS
  <1>5. /\ fresh \in Call /\ fresh.op = op /\ fresh.at = "enter"
        /\ readers \subseteq fresh.could /\ Users \ readers \subseteq fresh.couldNot
    BY <1>3, FreshCall DEF Ops
  <1>6. /\ new \in Call /\ new.op = op /\ new.at = "enter" /\ new.id = k
        /\ readers \subseteq new.could /\ Users \ readers \subseteq new.couldNot
    BY <1>4, <1>5 DEF Call
  <1>7. CallOK(new)
    BY <1>1, <1>6 DEF CallOK
  <1>8. ~HasComment(new)
    BY <1>6 DEF HasComment
  <1>9. Send(c, new) /\ migrating' \in BOOLEAN
    BY <1>1, <1>3, <1>4 DEF IInv, TypeOK
  <1> QED BY <1>6, <1>7, <1>8, <1>9, SendStep

LEMMA SendPlainStep ==
    ASSUME IInv, NEW c \in Slots, SendTakeover(c) \/ SendList(c) \/ SendImport(c) PROVE IInv'
  <1>1. PICK op \in {"takeover", "list", "import"}, u \in Users :
            /\ Send(c, NewCall(op, u)) /\ migrating' \in BOOLEAN
            /\ op = "import" => u = Importer
    BY NoticesAssumption DEF SendTakeover, SendList, SendImport, IInv, TypeOK
  <1>2. PICK new : new = NewCall(op, u)
    OBVIOUS
  <1>3. /\ new \in Call /\ new.op = op /\ new.at = "enter" /\ new.by = u /\ new.next = 1
        /\ readers \subseteq new.could /\ Users \ readers \subseteq new.couldNot
    BY <1>2, FreshCall DEF Ops
  <1>4. op = "import" => ImportOK(new)
    BY <1>1, <1>3, SentFits DEF ImportOK
  <1>5. op = "list" => ListOK(new)
    BY <1>3 DEF ListOK
  <1>6. CallOK(new)
    BY <1>3, <1>4, <1>5 DEF CallOK
  <1>7. ~HasComment(new)
    BY <1>3 DEF HasComment
  <1> QED BY <1>1, <1>2, <1>3, <1>6, <1>7, SendStep

LEMMA SendCreateStep == ASSUME IInv, NEW c \in Slots, SendCreate(c) PROVE IInv'
  <1>1. PICK u \in Users, change \in scene.changes :
            /\ change.status # Null
            /\ Send(c, [NewCall("create", u) EXCEPT !.change = change]) /\ UNCHANGED migrating
    BY DEF SendCreate
  <1>2. change \in Change
    BY NoticesAssumption DEF IInv, TypeOK
  <1>3. PICK fresh : fresh = NewCall("create", u)
    OBVIOUS
  <1>4. PICK new : new = [fresh EXCEPT !.change = change]
    OBVIOUS
  <1>5. /\ fresh \in Call /\ fresh.op = "create" /\ fresh.at = "enter"
        /\ readers \subseteq fresh.could /\ Users \ readers \subseteq fresh.couldNot
    BY <1>3, FreshCall DEF Ops
  <1>6. /\ new \in Call /\ new.op = "create" /\ new.at = "enter" /\ new.change = change
        /\ readers \subseteq new.could /\ Users \ readers \subseteq new.couldNot
    BY <1>2, <1>4, <1>5 DEF Call
  <1>7. CallOK(new)
    BY <1>1, <1>2, <1>6 DEF CallOK
  <1>8. ~HasComment(new)
    BY <1>6 DEF HasComment
  <1>9. Send(c, new) /\ migrating' \in BOOLEAN
    BY <1>1, <1>3, <1>4 DEF IInv, TypeOK
  <1> QED BY <1>6, <1>7, <1>8, <1>9, SendStep

LEMMA SendChangeStep == ASSUME IInv, NEW c \in Slots, SendChange(c) PROVE IInv'
  <1>1. PICK op \in {"update", "delete"}, u \in Users, t \in Tasks, change \in Change \cup {Null} :
            /\ op = "update" => change \in Change
            /\ Send(c, [NewCall(op, u) EXCEPT !.id = t, !.change = change]) /\ UNCHANGED migrating
    <2>1. PICK u \in Users, t \in Tasks :
            /\ UNCHANGED migrating
            /\ \/ Send(c, [NewCall("delete", u) EXCEPT !.id = t])
               \/ \E change \in scene.changes :
                      Send(c, [NewCall("update", u) EXCEPT !.id = t, !.change = change])
      BY DEF SendChange
    <2>2. scene.changes \subseteq Change
      BY NoticesAssumption DEF IInv, TypeOK
    <2>3. [NewCall("delete", u) EXCEPT !.id = t] = [NewCall("delete", u) EXCEPT !.id = t, !.change = Null]
      <3>1. PICK fresh : fresh = NewCall("delete", u)
        OBVIOUS
      <3>2. fresh \in Call /\ fresh.change = Null
        BY <3>1, FreshCall DEF Ops, NewCall
      <3>3. [fresh EXCEPT !.id = t] = [fresh EXCEPT !.id = t, !.change = Null]
        BY <3>2 DEF Call
      <3> QED BY <3>1, <3>3
    <2> QED BY <2>1, <2>2, <2>3
  <1>3. PICK fresh : fresh = NewCall(op, u)
    OBVIOUS
  <1>4. PICK new : new = [fresh EXCEPT !.id = t, !.change = change]
    OBVIOUS
  <1>5. /\ fresh \in Call /\ fresh.op = op /\ fresh.at = "enter"
        /\ readers \subseteq fresh.could /\ Users \ readers \subseteq fresh.couldNot
    BY <1>3, FreshCall DEF Ops
  <1>6. /\ new \in Call /\ new.op = op /\ new.at = "enter" /\ new.change = change /\ new.id = t
        /\ readers \subseteq new.could /\ Users \ readers \subseteq new.couldNot
    BY <1>4, <1>5 DEF Call
  <1>7. CallOK(new)
    BY <1>1, <1>6 DEF CallOK
  <1>8. ~HasComment(new)
    BY <1>6 DEF HasComment
  <1>9. Send(c, new) /\ migrating' \in BOOLEAN
    BY <1>1, <1>3, <1>4 DEF IInv, TypeOK
  <1> QED BY <1>6, <1>7, <1>8, <1>9, SendStep

-----------------------------------------------------------------------------
(* Statements that write nothing.                                           *)

\* A handler passes on from one statement to another at which it knows no more.
LEMMA DieStep == ASSUME IInv, NEW c \in Slots, Die(c) \/ Answer(c) PROVE IInv'
  <1>1. /\ calls[c] # Null /\ calls' = [calls EXCEPT ![c] = Null]
        /\ UNCHANGED <<scene, left, Store, Desk, History>>
    BY DEF Die, Answer, At, Check, To
  <1> QED BY <1>1, CheckStep

LEMMA EnterCommentStep == ASSUME IInv, NEW c \in Slots, EnterComment(c) PROVE IInv'
  <1>1. PICK call : call = calls[c]
    OBVIOUS
  <1>2. PICK new : new = IF call.by \in readers
                         THEN [call EXCEPT !.at = IF call.parent = Null THEN "write" ELSE "parent"]
                         ELSE Null
    OBVIOUS
  <1>3. /\ call # Null /\ call.op = "comment" /\ call.at = "enter" /\ calls' = [calls EXCEPT ![c] = new]
        /\ UNCHANGED <<scene, left, Store, Desk, History>>
    BY <1>1, <1>2 DEF EnterComment, Is, At, Check
  <1>4. call \in Call /\ CallOK(call)
    BY <1>1, <1>3, TheCall
  <1>5. ASSUME new # Null
        PROVE  /\ new \in Call /\ new.op = "comment" /\ new.could = call.could
               /\ new.couldNot = call.couldNot /\ new.found = {}
               /\ \/ new.at = "write" /\ new.parent = Null
                  \/ new.at = "parent" /\ new.parent # Null
    <2>1. new = [call EXCEPT !.at = IF call.parent = Null THEN "write" ELSE "parent"]
      BY <1>2, <1>5
    <2>2. call.found = {}
      BY <1>3, <1>4 DEF CallOK, CommentOK
    <2> QED BY <2>1, <2>2, <1>3, <1>4 DEF Call
  <1>6. ASSUME new # Null PROVE CallOK(new)
    BY <1>4, <1>5, <1>6 DEF CallOK, CommentOK
  <1>7. ASSUME new # Null PROVE (\A cause : ~Tells(new, cause)) /\ ~HasComment(new)
    BY <1>5, <1>7 DEF Tells, HasComment
  <1> QED BY <1>1, <1>3, <1>5, <1>6, <1>7, CheckStep

LEMMA CheckParentStep == ASSUME IInv, NEW c \in Slots, CheckParent(c) PROVE IInv'
  <1>1. PICK call : call = calls[c]
    OBVIOUS
  <1>2. PICK new : new = IF ParentOpen(call.parent) THEN [call EXCEPT !.at = "write"] ELSE Null
    OBVIOUS
  <1>3. /\ call # Null /\ call.at = "parent" /\ calls' = [calls EXCEPT ![c] = new]
        /\ UNCHANGED <<scene, left, Store, Desk, History>>
    BY <1>1, <1>2 DEF CheckParent, At, Check
  <1>4. call \in Call /\ CallOK(call)
    BY <1>1, <1>3, TheCall
  <1>5. call.op = "comment" /\ call.found = {}
    BY <1>3, <1>4 DEF CallOK, CommentOK, ListOK, ImportOK
  <1>6. ASSUME new # Null
        PROVE  /\ new \in Call /\ new.op = "comment" /\ new.could = call.could
               /\ new.couldNot = call.couldNot /\ new.found = {} /\ new.at = "write"
               /\ comments[new.parent] # Null /\ ~comments[new.parent].resolved
    BY <1>2, <1>4, <1>5, <1>6 DEF Call, ParentOpen
  <1>7. ASSUME new # Null PROVE CallOK(new)
    BY <1>4, <1>6, <1>7 DEF CallOK, CommentOK
  <1>8. ASSUME new # Null PROVE (\A cause : ~Tells(new, cause)) /\ ~HasComment(new)
    BY <1>6, <1>8 DEF Tells, HasComment
  <1> QED BY <1>1, <1>3, <1>6, <1>7, <1>8, CheckStep

\* What a comment's call is when it has looked at one of those it mentions, or at all.
Parsed(call, new) ==
    /\ new \in Call /\ new.op = "comment" /\ new.could = call.could /\ new.couldNot = call.couldNot
    /\ new.asked = call.asked /\ new.by = call.by /\ new.id = call.id
    /\ \/ /\ new.at = "parse" /\ new.todo \subseteq call.asked
          /\ new.found \subseteq call.asked \cap call.could
          /\ MustTell(call) \subseteq new.todo \cup new.found
       \/ /\ new.at = "tell" /\ new.todo \subseteq call.asked \cap call.could
          /\ MustTell(call) \subseteq new.todo

\* Who can read the file could read it at some moment of the call, and who cannot could not.
LEMMA ParseMentionStep == ASSUME IInv, NEW c \in Slots, ParseMention(c) PROVE IInv'
  <1>1. PICK call : call = calls[c]
    OBVIOUS
  <1>2. PICK new :
            /\ \/ \E u \in call.todo :
                      new = [call EXCEPT !.todo = call.todo \ {u},
                                         !.found = IF Readable(c, u) THEN call.found \cup {u} ELSE call.found]
               \/ call.todo = {} /\ new = [call EXCEPT !.at = "tell", !.todo = call.found]
            /\ calls' = [calls EXCEPT ![c] = new]
    BY <1>1 DEF ParseMention, At, Check
  <1>3. /\ call # Null /\ call.at = "parse" /\ UNCHANGED <<scene, left, Store, Desk, History>>
    BY <1>1 DEF ParseMention, At, Check
  <1>4. call \in Call /\ CallOK(call)
    BY <1>1, <1>3, TheCall
  <1>5. call.op = "comment"
    BY <1>3, <1>4 DEF CallOK, ListOK, ImportOK
  <1>6. /\ call.todo \subseteq call.asked /\ call.found \subseteq call.asked \cap call.could
        /\ MustTell(call) \subseteq call.todo \cup call.found
        /\ call.id \in Comments /\ comments[call.id] # Null
        /\ Mentioned(call.id) \subseteq call.asked \cap call.could
        /\ readers \subseteq call.could /\ Users \ readers \subseteq call.couldNot
        /\ call.asked \subseteq Users
    BY <1>3, <1>4, <1>5 DEF CallOK, CommentOK, Call
  <1>7. Parsed(call, new)
    <2>1. ASSUME NEW u \in call.todo,
                 new = [call EXCEPT !.todo = call.todo \ {u},
                                    !.found = IF Readable(c, u) THEN call.found \cup {u} ELSE call.found]
          PROVE  Parsed(call, new)
      <3>1. PICK found : found = IF Readable(c, u) THEN call.found \cup {u} ELSE call.found
        OBVIOUS
      <3>2. /\ found \subseteq call.asked \cap call.could /\ call.found \subseteq found
            /\ u \in MustTell(call) => u \in found
        BY <3>1, <1>6 DEF Readable, MustTell
      <3>3. /\ new = [call EXCEPT !.todo = call.todo \ {u}, !.found = found]
            /\ found \subseteq Users
        BY <2>1, <3>1, <3>2, <1>6
      <3>4. /\ new \in Call /\ new.op = "comment" /\ new.could = call.could
            /\ new.couldNot = call.couldNot /\ new.asked = call.asked /\ new.by = call.by
            /\ new.id = call.id /\ new.at = "parse" /\ new.todo = call.todo \ {u} /\ new.found = found
        BY <1>3, <1>4, <1>5, <3>3 DEF Call
      <3> QED BY <1>6, <3>2, <3>4 DEF Parsed
    <2>2. ASSUME call.todo = {}, new = [call EXCEPT !.at = "tell", !.todo = call.found]
          PROVE  Parsed(call, new)
      <3>1. /\ new \in Call /\ new.op = "comment" /\ new.could = call.could
            /\ new.couldNot = call.couldNot /\ new.asked = call.asked /\ new.by = call.by
            /\ new.id = call.id /\ new.at = "tell" /\ new.todo = call.found
        BY <1>4, <1>5, <1>6, <2>2 DEF Call
      <3> QED BY <1>6, <2>2, <3>1 DEF Parsed
    <2> QED BY <1>2, <2>1, <2>2
  <1>8. MustTell(new) = MustTell(call)
    BY <1>7 DEF MustTell, Parsed
  <1>9. CallOK(new)
    BY <1>6, <1>7, <1>8 DEF CallOK, CommentOK, Parsed
  <1>10. /\ \A cause : Tells(new, cause) => Tells(call, cause)
         /\ HasComment(call)
    BY <1>3, <1>5, <1>7 DEF Tells, HasComment, Parsed
  <1> QED BY <1>1, <1>2, <1>3, <1>7, <1>9, <1>10, CheckStep DEF Parsed

LEMMA MentionEndStep ==
    ASSUME IInv, NEW c \in Slots, Is(c, {"comment"}), At(c, "tell"), calls[c].todo = {},
           Check(c, TRUE, [calls[c] EXCEPT !.at = "answer"])
    PROVE  IInv'
  <1>1. PICK call : call = calls[c]
    OBVIOUS
  <1>2. PICK new : new = [call EXCEPT !.at = "answer"]
    OBVIOUS
  <1>3. /\ call # Null /\ call.op = "comment" /\ call.at = "tell" /\ calls' = [calls EXCEPT ![c] = new]
        /\ UNCHANGED <<scene, left, Store, Desk, History>>
    BY <1>1, <1>2 DEF Is, At, Check
  <1>4. call \in Call /\ CallOK(call)
    BY <1>1, <1>3, TheCall
  <1>5. /\ new \in Call /\ new.op = "comment" /\ new.could = call.could /\ new.couldNot = call.couldNot
        /\ new.asked = call.asked /\ new.by = call.by /\ new.id = call.id /\ new.at = "answer"
    BY <1>2, <1>3, <1>4 DEF Call
  <1>6. MustTell(new) = MustTell(call)
    BY <1>5 DEF MustTell
  <1>7. call.todo = {}
    BY <1>1
  <1>8. CallOK(new)
    BY <1>3, <1>4, <1>5, <1>6, <1>7 DEF CallOK, CommentOK
  <1>9. (\A cause : ~Tells(new, cause)) /\ HasComment(call)
    BY <1>3, <1>5 DEF Tells, HasComment
  <1> QED BY <1>1, <1>3, <1>5, <1>8, <1>9, CheckStep

\* The same for the handlers that only look whether they may.
LEMMA EnterStep ==
    ASSUME IInv, NEW c \in Slots, EnterResolve(c) \/ EnterTakeover(c) \/ EnterCreate(c) PROVE IInv'
  <1>1. PICK call : call = calls[c]
    OBVIOUS
  <1>2. PICK new, at :
            /\ \/ call.op \in {"resolve", "reopen", "create"} /\ at = "write"
               \/ call.op = "takeover" /\ at = "rows"
            /\ calls' = [calls EXCEPT ![c] = new]
            /\ new # Null => new = [call EXCEPT !.at = at]
    <2>1. CASE EnterResolve(c)
      BY <2>1, <1>1 DEF EnterResolve, Is, At, Check
    <2>2. CASE EnterTakeover(c)
      BY <2>2, <1>1 DEF EnterTakeover, Is, At, Check
    <2>3. CASE EnterCreate(c)
      BY <2>3, <1>1 DEF EnterCreate, Is, At, Check
    <2> QED BY <2>1, <2>2, <2>3
  <1>3. call # Null /\ UNCHANGED <<scene, left, Store, Desk, History>>
    BY <1>1 DEF EnterResolve, EnterTakeover, EnterCreate, Is, At, Check
  <1>4. call \in Call /\ CallOK(call)
    BY <1>1, <1>3, TheCall
  <1>5. ASSUME new # Null
        PROVE  /\ new \in Call /\ new.op = call.op /\ new.at = at /\ new.id = call.id
               /\ new.could = call.could /\ new.couldNot = call.couldNot /\ new.change = call.change
    BY <1>2, <1>4, <1>5 DEF Call
  <1>6. ASSUME new # Null PROVE CallOK(new)
    BY <1>2, <1>4, <1>5, <1>6 DEF CallOK
  <1>7. ASSUME new # Null PROVE (\A cause : ~Tells(new, cause)) /\ ~HasComment(new)
    BY <1>2, <1>5, <1>7 DEF Tells, HasComment
  <1> QED BY <1>1, <1>2, <1>3, <1>5, <1>6, <1>7, CheckStep

\* The lease that is read has not ended, so that nobody was told of it and forgot.
LEMMA ReadLeaseStep == ASSUME IInv, NEW c \in Slots, ReadLease(c) PROVE IInv'
  <1>1. PICK call : call = calls[c]
    OBVIOUS
  <1>2. PICK new : new = IF lease # Null /\ Owner[lease] # call.by
                         THEN [call EXCEPT !.at = "tell", !.id = lease] ELSE Null
    OBVIOUS
  <1>3. /\ call # Null /\ call.op = "takeover" /\ calls' = [calls EXCEPT ![c] = new]
        /\ UNCHANGED <<scene, left, Store, Desk, History>>
    BY <1>1, <1>2 DEF ReadLease, Is, At, Check
  <1>4. call \in Call /\ CallOK(call)
    BY <1>1, <1>3, TheCall
  <1>5. ASSUME new # Null
        PROVE  /\ new \in Call /\ new.op = "takeover" /\ new.at = "tell" /\ new.id = lease
               /\ new.could = call.could /\ new.couldNot = call.couldNot /\ lease \in Leases
    <2>1. lease \in Leases /\ new = [call EXCEPT !.at = "tell", !.id = lease]
      BY <1>2, <1>5 DEF IInv, TypeOK
    <2> QED BY <2>1, <1>3, <1>4 DEF Call
  <1>6. ASSUME new # Null PROVE CallOK(new)
    BY <1>4, <1>5, <1>6 DEF CallOK
  <1>7. ASSUME new # Null PROVE ~HasComment(new) /\ \A cause : ~(Past(cause) /\ Tells(new, cause))
    BY <1>5, <1>7 DEF Tells, HasComment, Past, IInv
  <1> QED BY <1>1, <1>3, <1>5, <1>6, <1>7, CheckStep

LEMMA ListEndStep ==
    ASSUME IInv, NEW c \in Slots, Is(c, {"list"}), At(c, "tell"), calls[c].todo = {},
           Check(c, TRUE, [calls[c] EXCEPT !.at = "rows", !.todo = {n \in notices : n.to = calls[c].by}])
    PROVE  IInv'
  <1>1. PICK call, todo : call = calls[c] /\ todo = {n \in notices : n.to = calls[c].by}
    OBVIOUS
  <1>2. PICK new : new = [call EXCEPT !.at = "rows", !.todo = todo]
    OBVIOUS
  <1>3. /\ call # Null /\ call.op = "list" /\ call.at = "tell" /\ call.todo = {}
        /\ calls' = [calls EXCEPT ![c] = new]
        /\ UNCHANGED <<scene, left, Store, Desk, History>>
    BY <1>1, <1>2 DEF Is, At, Check
  <1>4. call \in Call /\ CallOK(call) /\ todo \subseteq Notice
    BY <1>1, <1>3, TheCall DEF IInv, TypeOK
  <1>5. /\ new \in Call /\ new.op = "list" /\ new.could = call.could /\ new.couldNot = call.couldNot
        /\ new.by = call.by /\ new.changed = call.changed /\ new.at = "rows" /\ new.todo = todo
    BY <1>2, <1>3, <1>4 DEF Call
  <1>6. ListOK(new)
    BY <1>3, <1>4, <1>5 DEF CallOK, ListOK
  <1>7. CallOK(new)
    BY <1>4, <1>5, <1>6 DEF CallOK
  <1>8. (\A cause : ~Tells(new, cause)) /\ ~HasComment(new)
    BY <1>5 DEF Tells, HasComment
  <1> QED BY <1>1, <1>3, <1>5, <1>7, <1>8, CheckStep

LEMMA CheckRowStep == ASSUME IInv, NEW c \in Slots, CheckRow(c) PROVE IInv'
  <1>1. PICK call : call = calls[c]
    OBVIOUS
  <1>2. call # Null /\ call.op = "list" /\ call.at = "rows" /\ UNCHANGED <<scene, left, Store, Desk, History>>
    BY <1>1 DEF CheckRow, Is, At, Check
  <1>3. call \in Call /\ CallOK(call)
    BY <1>1, <1>2, TheCall
  <1>4. call.todo \subseteq Notice
    BY <1>2, <1>3 DEF CallOK, ListOK
  <1>5. PICK new, found :
            /\ calls' = [calls EXCEPT ![c] = new] /\ found \subseteq Users \cup Notice
            /\ \/ \E n \in call.todo : new = [call EXCEPT !.todo = call.todo \ {n}, !.found = found]
               \/ new = [call EXCEPT !.at = "answer"]
    <2>1. CASE call.todo = {} /\ Check(c, TRUE, [call EXCEPT !.at = "answer"])
      BY <2>1 DEF Check
    <2>2. ASSUME NEW n \in call.todo,
                 Check(c, TRUE, [call EXCEPT !.todo = @ \ {n},
                                             !.found = IF CanRead(call.by, n) THEN @ \cup {n} ELSE @])
          PROVE  \E new, found :
                     /\ calls' = [calls EXCEPT ![c] = new] /\ found \subseteq Users \cup Notice
                     /\ \E m \in call.todo : new = [call EXCEPT !.todo = call.todo \ {m}, !.found = found]
      <3>1. PICK found : found = IF CanRead(call.by, n) THEN call.found \cup {n} ELSE call.found
        OBVIOUS
      <3>2. found \subseteq Users \cup Notice
        BY <1>3, <1>4, <3>1 DEF Call
      <3> QED BY <2>2, <3>1, <3>2 DEF Check
    <2> QED BY <1>1, <2>1, <2>2 DEF CheckRow
  <1>6. /\ new \in Call /\ new.op = "list" /\ new.could = call.could /\ new.couldNot = call.couldNot
        /\ new.by = call.by /\ new.changed = call.changed /\ new.at \in {"rows", "answer"}
        /\ new.todo \subseteq call.todo
    <2>1. CASE new = [call EXCEPT !.at = "answer"]
      BY <2>1, <1>2, <1>3 DEF Call
    <2>2. ASSUME NEW n \in call.todo, new = [call EXCEPT !.todo = call.todo \ {n}, !.found = found]
          PROVE  /\ new \in Call /\ new.op = "list" /\ new.could = call.could /\ new.couldNot = call.couldNot
                 /\ new.by = call.by /\ new.changed = call.changed /\ new.at = "rows"
                 /\ new.todo \subseteq call.todo
      <3>1. PICK rest : rest = call.todo \ {n}
        OBVIOUS
      <3>2. rest \subseteq call.todo /\ rest \subseteq Users \cup Cause \cup Notice
        BY <1>3, <3>1 DEF Call
      <3> QED BY <2>2, <1>2, <1>3, <1>5, <3>1, <3>2 DEF Call
    <2> QED BY <1>5, <2>1, <2>2
  <1>7. ListOK(new)
    BY <1>2, <1>3, <1>4, <1>6 DEF CallOK, ListOK
  <1>8. CallOK(new)
    BY <1>3, <1>6, <1>7 DEF CallOK
  <1>9. (\A cause : ~Tells(new, cause)) /\ ~HasComment(new)
    BY <1>6 DEF Tells, HasComment
  <1> QED BY <1>1, <1>2, <1>5, <1>6, <1>8, <1>9, CheckStep

\* What an update has read of the status may be stale when it writes; it is a status.
LEMMA EnterChangeStep == ASSUME IInv, NEW c \in Slots, EnterChange(c) PROVE IInv'
  <1>1. PICK call : call = calls[c]
    OBVIOUS
  <1>2. /\ call # Null /\ call.op \in {"update", "delete"}
        /\ UNCHANGED <<scene, left, Store, Desk, History>>
    BY <1>1 DEF EnterChange, Is, At, Check
  <1>3. call \in Call /\ CallOK(call)
    BY <1>1, <1>2, TheCall
  <1>4. PICK new, saw :
            /\ calls' = [calls EXCEPT ![c] = new]
            /\ new # Null => saw \in Statuses /\ new = [call EXCEPT !.at = "write", !.saw = saw, !.changed = {}]
    <2>1. PICK task : task = tasks[call.id]
      OBVIOUS
    <2>2. PICK saw : saw = IF task = Null THEN Null ELSE task.status
      OBVIOUS
    <2>3. PICK new :
            /\ calls' = [calls EXCEPT ![c] = new]
            /\ new # Null => task # Null /\ new = [call EXCEPT !.at = "write", !.saw = saw, !.changed = {}]
      BY <1>1, <2>1, <2>2 DEF EnterChange, Check
    <2>4. task # Null => saw \in Statuses
      BY <1>2, <1>3, <2>1, <2>2 DEF CallOK, IInv, TypeOK, Task
    <2> QED BY <2>3, <2>4
  <1>5. ASSUME new # Null
        PROVE  /\ new \in Call /\ new.op = call.op /\ new.at = "write" /\ new.id = call.id
               /\ new.could = call.could /\ new.couldNot = call.couldNot /\ new.change = call.change
    BY <1>3, <1>4, <1>5 DEF Call
  <1>6. ASSUME new # Null PROVE CallOK(new)
    BY <1>2, <1>3, <1>5, <1>6 DEF CallOK
  <1>7. ASSUME new # Null PROVE (\A cause : ~Tells(new, cause)) /\ ~HasComment(new)
    BY <1>2, <1>5, <1>7 DEF Tells, HasComment
  <1> QED BY <1>1, <1>2, <1>4, <1>5, <1>6, <1>7, CheckStep

\* A task of the desktop that is found has arrived.
LEMMA LookForImportedStep == ASSUME IInv, NEW c \in Slots, LookForImported(c) PROVE IInv'
  <1>1. PICK call : call = calls[c]
    OBVIOUS
  <1>2. /\ call # Null /\ call.op = "import" /\ call.at = "enter" /\ call.next <= Sent
        /\ UNCHANGED <<scene, left, Store, Desk, History>>
    BY <1>1 DEF LookForImported, Is, At, Check
  <1>3. call \in Call /\ CallOK(call) /\ ImportOK(call) /\ call.next \in 1 .. Len(Legacy) + 1
    BY <1>1, <1>2, TheCall DEF CallOK, Call
  <1>4. PICK new :
            /\ calls' = [calls EXCEPT ![c] = new]
            /\ \/ /\ \E t \in Tasks : tasks[t] # Null /\ tasks[t].legacy = call.next
                  /\ new = [call EXCEPT !.next = call.next + 1]
               \/ new = [call EXCEPT !.at = "write"]
    BY <1>1 DEF LookForImported, Check
  <1>5. /\ new \in Call /\ new.op = "import" /\ new.by = call.by /\ new.could = call.could
        /\ new.couldNot = call.couldNot /\ new.at \in {"enter", "write"}
        /\ \/ new.next = call.next
           \/ new.at = "enter" /\ new.next = call.next + 1 /\ call.next \in arrived
    <2>1. CASE new = [call EXCEPT !.at = "write"]
      BY <2>1, <1>2, <1>3 DEF Call
    <2>2. ASSUME NEW t \in Tasks, tasks[t] # Null, tasks[t].legacy = call.next,
                 new = [call EXCEPT !.next = call.next + 1]
          PROVE  /\ new \in Call /\ new.op = "import" /\ new.by = call.by /\ new.could = call.could
                 /\ new.couldNot = call.couldNot /\ new.at = "enter"
                 /\ new.next = call.next + 1 /\ call.next \in arrived
      <3>1. call.next # 0 /\ call.next + 1 \in 1 .. Len(Legacy) + 1
        BY <1>2, <1>3, SentFits
      <3>2. call.next \in arrived
        BY <2>2, <3>1 DEF IInv, ArrivedOK
      <3> QED BY <2>2, <1>2, <1>3, <3>1, <3>2 DEF Call
    <2> QED BY <1>4, <2>1, <2>2
  <1>6. ImportOK(new)
    BY <1>2, <1>3, <1>5, SentFits DEF ImportOK
  <1>7. CallOK(new)
    BY <1>3, <1>5, <1>6 DEF CallOK
  <1>8. (\A cause : ~Tells(new, cause)) /\ ~HasComment(new)
    BY <1>5 DEF Tells, HasComment
  <1> QED BY <1>1, <1>2, <1>4, <1>5, <1>7, <1>8, CheckStep

\* When an import ends well, what it sent has arrived, whether or not the page still waits.
LEMMA ImportEndStep == ASSUME IInv, NEW c \in Slots, FailImport(c) \/ EndImport(c) PROVE IInv'
  <1>1. PICK call : call = calls[c]
    OBVIOUS
  <1>2. /\ call # Null /\ call.op = "import" /\ calls' = [calls EXCEPT ![c] = Null]
        /\ UNCHANGED <<scene, Tables>> /\ left' = left
    BY <1>1 DEF FailImport, EndImport, Is, To, Tables, Store, File, History
  <1>3. call \in Call /\ CallOK(call) /\ ImportOK(call)
    BY <1>1, <1>2, TheCall DEF CallOK
  <1>4. /\ left' \in 0 .. scene.calls /\ migrating' \in BOOLEAN /\ local' \in BOOLEAN
        /\ ~local' => ~local \/ call.next > Sent
    BY <1>1, <1>2 DEF FailImport, EndImport, HearImport, Kept, IInv, TypeOK
  <1>5. call.next > Sent => \A i \in 1 .. Len(Legacy) : i <= Sent => i \in arrived
    BY <1>3, SentFits DEF ImportOK, Call
  <1>6. \A i \in 1 .. Len(Legacy) : ~local' /\ i <= Sent => i \in arrived
    BY <1>4, <1>5 DEF IInv, ArrivedOK
  <1> QED BY <1>2, <1>4, <1>6, QuietStep

-----------------------------------------------------------------------------
(* Telling.                                                                 *)

\* Telling adds the notification unless it is there; what is told is made, and once.
LEMMA TellNotices ==
    ASSUME IInv, NEW c, NEW u \in Users, NEW cause \in Cause, Tell(c, u, cause),
           cause.type = "comment" => comments'[cause.of] # Null
    PROVE  /\ NoticesStay /\ made \subseteq made' /\ <<u, cause>> \in made'
           /\ notices' \subseteq Notice /\ made' \subseteq Users \X Cause /\ UNCHANGED arrived
  <1> DEFINE notice == [to |-> u, cause |-> cause, event |-> cause, read |-> FALSE, old |-> FALSE]
  <1>1. notices \subseteq Notice /\ made \subseteq Users \X Cause
    BY DEF IInv, TypeOK
  <1>2. notice \in Notice /\ notice.to = u /\ notice.cause = cause /\ notice.event = cause /\ ~notice.old
    BY DEF Notice
  <1>3. \A n \in notices : n.event = n.cause /\ <<n.to, n.cause>> \in made
    BY DEF IInv, NoticesOK
  <1>4. notices' = IF \E n \in notices : n.to = u /\ n.event = cause THEN notices
                   ELSE notices \cup {notice}
    BY DEF Tell, Told, EventOf
  <1>5. made' = made \cup {<<n.to, n.cause>> : n \in notices' \ notices}
    BY DEF Tell
  <1> HIDE DEF notice
  <1>6. CASE \E n \in notices : n.to = u /\ n.event = cause
    <2>1. notices' = notices /\ made' = made
      BY <1>4, <1>5, <1>6
    <2>2. <<u, cause>> \in made
      BY <1>3, <1>6
    <2>3. NoticesStay
      BY <1>3, <2>1 DEF NoticesStay
    <2> QED BY <1>1, <2>1, <2>2, <2>3 DEF Tell
  <1>7. CASE ~\E n \in notices : n.to = u /\ n.event = cause
    <2>1. notices' = notices \cup {notice} /\ notice \notin notices
      BY <1>2, <1>4, <1>7
    <2>2. made' = made \cup {<<u, cause>>}
      BY <1>2, <1>5, <2>1
    <2>3. NoticesStay
      <3>1. \A n \in notices' : /\ n.event = n.cause /\ <<n.to, n.cause>> \in made'
                                /\ n.old => \E m \in notices : m.old /\ m.cause = n.cause
        BY <1>2, <1>3, <2>1, <2>2
      <3>2. \A x \in Users, z \in Cause : <<x, z>> \in made' =>
               \/ <<x, z>> \in made
               \/ /\ \E n \in notices' : n.to = x /\ n.cause = z
                  /\ z.type = "comment" => comments'[z.of] # Null
        BY <1>2, <2>1, <2>2
      <3> QED BY <2>1, <3>1, <3>2 DEF NoticesStay
    <2> QED BY <1>1, <1>2, <2>1, <2>2, <2>3 DEF Tell
  <1> QED BY <1>6, <1>7

\* At most one mention is added, of u by the comment of the call c.
MentionsOnly(c, u) ==
    /\ mentions' \subseteq Comments \X Users
    /\ \A k \in Comments, x \in Users :
           <<k, x>> \in mentions' <=>
               <<k, x>> \in mentions \/ (HasComment(calls[c]) /\ k = calls[c].id /\ x = u)

LEMMA TellStep ==
    ASSUME IInv, NEW c \in Slots, calls[c] # Null, NEW u \in Users, NEW cause \in Cause,
           Tell(c, u, cause), cause.type = "comment" => comments[cause.of] # Null,
           NEW new \in Call \cup {Null}, calls' = [calls EXCEPT ![c] = new],
           UNCHANGED <<scene, left, File, comments, tasks, phase, Desk>>,
           MentionsOnly(c, u),
           new # Null =>
               /\ CallOK(new)'
               /\ \A z : Past(z) /\ Tells(new, z) => Tells(calls[c], z)
               /\ HasComment(new) => HasComment(calls[c]) /\ calls[c].id = new.id
    PROVE  IInv'
  <1>1. /\ UNCHANGED <<scene, left, readers, lease, ended, comments, tasks, phase, local, migrating>>
        /\ calls \in [Slots -> Call \cup {Null}]
    BY DEF File, Desk, IInv, TypeOK
  <1>2. /\ NoticesStay /\ made \subseteq made' /\ notices' \subseteq Notice
        /\ made' \subseteq Users \X Cause /\ UNCHANGED arrived
    BY <1>1, TellNotices
  <1>3. TypeOK'
    BY <1>1, <1>2 DEF IInv, TypeOK, MentionsOnly
  <1>4. Grown({})
    BY <1>1, <1>2 DEF Grown
  <1>5. Others(c, {})
    BY <1>1, NothingAdded DEF Others
  <1>6. calls'[c] = new
    BY <1>1
  <1>7. Modest(c)
    BY <1>6 DEF Modest, IInv, CommentsApart
  <1>8. PastStays
    BY <1>1 DEF PastStays
  <1>9. ASSUME NEW d \in Slots, d # c, calls[d] # Null, HasComment(calls[d])
        PROVE  SameMentions(calls[d].id)
    <2>1. HasComment(calls[c]) => calls[c].id # calls[d].id
      BY <1>9 DEF IInv, CommentsApart
    <2>2. calls[d].id \in Comments
      BY <1>9 DEF HasComment, IInv, CallsOK, CallOK, CommentOK
    <2> QED BY <2>1, <2>2 DEF SameMentions, MentionsOnly
  <1>10. ASSUME calls'[c] # Null PROVE CallOK(calls[c])'
    <2>1. PICK same : same = new /\ same = calls'[c]
      BY <1>6
    <2>2. CallOK(same)'
      BY <1>10, <2>1
    <2>3. CallOK(calls[c])' = CallOK(same)'
      BY <2>1 DEF CallOK, CommentOK, ListOK, ImportOK, MustTell
    <2> QED BY <2>2, <2>3
  <1>11. MentionsOK'
    <2>1. HasComment(calls[c]) => comments[calls[c].id] # Null
      BY DEF HasComment, IInv, CallsOK, CallOK, CommentOK
    <2> QED BY <1>1, <2>1 DEF IInv, MentionsOK, MentionsOnly
  <1>12. ArrivedOK' /\ lease' \notin ended'
    BY <1>1, <1>2 DEF IInv, ArrivedOK, Sent
  <1> QED BY <1>2, <1>3, <1>4, <1>5, <1>7, <1>8, <1>9, <1>10, <1>11, <1>12, Assembled

\* One who is mentioned is told: he could read at some moment, and counts as told.
LEMMA MentionTellStep ==
    ASSUME IInv, NEW c \in Slots, Is(c, {"comment"}), At(c, "tell"), NEW u \in calls[c].todo,
           mentions' = mentions \cup {<<calls[c].id, u>>},
           Tell(c, u, [type |-> "comment", of |-> calls[c].id]),
           calls' = To(c, [calls[c] EXCEPT !.todo = calls[c].todo \ {u}]),
           UNCHANGED <<scene, left, File, comments, tasks, phase, Desk>>
    PROVE  IInv'
  <1>1. PICK call, cause, rest : /\ call = calls[c] /\ cause = [type |-> "comment", of |-> calls[c].id]
                                 /\ rest = calls[c].todo \ {u}
    OBVIOUS
  <1>2. PICK new : new = [call EXCEPT !.todo = rest]
    OBVIOUS
  <1>3. /\ call # Null /\ call.op = "comment" /\ call.at = "tell" /\ calls' = [calls EXCEPT ![c] = new]
        /\ Tell(c, u, cause) /\ u \in call.todo /\ rest = call.todo \ {u}
        /\ cause = [type |-> "comment", of |-> call.id]
        /\ mentions' = mentions \cup {<<call.id, u>>}
    BY <1>1, <1>2 DEF Is, At, To
  <1>4. call \in Call /\ CallOK(call) /\ HasComment(call)
    BY <1>1, <1>3, TheCall DEF HasComment
  <1>5. /\ call.id \in Comments /\ comments[call.id] # Null
        /\ Mentioned(call.id) \subseteq call.asked \cap call.could
        /\ call.todo \subseteq call.asked \cap call.could
        /\ MustTell(call) \subseteq call.todo \cup ToldOf(call.id)
        /\ readers \subseteq call.could /\ Users \ readers \subseteq call.couldNot
        /\ call.asked \subseteq Users
    BY <1>3, <1>4 DEF CallOK, CommentOK, Call
  <1>6. u \in Users /\ cause \in Cause /\ cause.type = "comment" /\ cause.of = call.id
    BY <1>3, <1>5, CauseFits
  <1>7. /\ new \in Call /\ new.op = "comment" /\ new.could = call.could /\ new.couldNot = call.couldNot
        /\ new.asked = call.asked /\ new.by = call.by /\ new.id = call.id /\ new.at = "tell"
        /\ new.todo = rest
    BY <1>2, <1>3, <1>4, <1>5 DEF Call
  <1>8. /\ UNCHANGED <<readers, comments>>
        /\ mentions' \subseteq Comments \X Users
    BY <1>3, <1>5, <1>6 DEF File, IInv, TypeOK
  <1>9. made \subseteq made' /\ <<u, cause>> \in made'
    BY <1>3, <1>5, <1>6, <1>8, TellNotices
  <1>10. Mentioned(call.id)' = Mentioned(call.id) \cup {u}
    BY <1>3, <1>6 DEF Mentioned
  <1>11. ToldOf(call.id) \cup {u} \subseteq ToldOf(call.id)'
    BY <1>3, <1>9, <1>10 DEF ToldOf
  <1>12. MustTell(new)' \subseteq rest \cup ToldOf(call.id)'
    BY <1>3, <1>5, <1>7, <1>11 DEF MustTell
  <1>13. CommentOK(new)'
    BY <1>3, <1>5, <1>7, <1>8, <1>10, <1>12 DEF CommentOK
  <1>14. CallOK(new)'
    BY <1>5, <1>7, <1>8, <1>13 DEF CallOK
  <1>15. MentionsOnly(c, u)
    BY <1>1, <1>3, <1>4, <1>8 DEF MentionsOnly
  <1>16. \A z : Tells(new, z) => Tells(call, z)
    BY <1>3, <1>7 DEF Tells
  <1>17. /\ calls[c] # Null /\ (cause.type = "comment" => comments[cause.of] # Null)
         /\ HasComment(calls[c]) /\ calls[c].id = new.id
         /\ \A z : Tells(new, z) => Tells(calls[c], z)
    BY <1>1, <1>3, <1>4, <1>5, <1>6, <1>7, <1>16
  <1> QED BY <1>3, <1>6, <1>7, <1>8, <1>14, <1>15, <1>17, TellStep

LEMMA MentionStep == ASSUME IInv, NEW c \in Slots, Mention(c) PROVE IInv'
  <1>1. Is(c, {"comment"}) /\ At(c, "tell")
    BY DEF Mention
  <1>2. CASE calls[c].todo = {} /\ Check(c, TRUE, [calls[c] EXCEPT !.at = "answer"])
    BY <1>1, <1>2, MentionEndStep
  <1>3. CASE \E u \in calls[c].todo :
               /\ mentions' = mentions \cup {<<calls[c].id, u>>}
               /\ Tell(c, u, [type |-> "comment", of |-> calls[c].id])
               /\ calls' = To(c, [calls[c] EXCEPT !.todo = calls[c].todo \ {u}])
               /\ UNCHANGED <<scene, left, File, comments, tasks, phase, Desk>>
    BY <1>1, <1>3, MentionTellStep
  <1> QED BY <1>2, <1>3 DEF Mention

LEMMA TellOwnerStep == ASSUME IInv, NEW c \in Slots, TellOwner(c) PROVE IInv'
  <1>1. PICK call, cause, u :
            /\ call = calls[c] /\ u = Owner[calls[c].id]
            /\ cause = [type |-> "takeover", of |-> calls[c].id, by |-> calls[c].by]
    OBVIOUS
  <1>2. /\ call # Null /\ call.op = "takeover" /\ call.at = "tell" /\ Tell(c, u, cause)
        /\ calls' = [calls EXCEPT ![c] = Null]
        /\ UNCHANGED <<scene, left, File, comments, mentions, tasks, phase, Desk>>
    BY <1>1 DEF TellOwner, Is, At, To
  <1>3. call \in Call /\ CallOK(call)
    BY <1>1, <1>2, TheCall
  <1>4. call.id \in Leases /\ call.by \in Users
    BY <1>2, <1>3 DEF CallOK, Call
  <1>5. u \in Users /\ cause \in Cause /\ cause.type = "takeover"
    BY <1>1, <1>4, CauseFits, NoticesAssumption
  <1>6. ~HasComment(calls[c]) /\ MentionsOnly(c, u)
    BY <1>1, <1>2 DEF HasComment, IInv, TypeOK, MentionsOnly
  <1> QED BY <1>1, <1>2, <1>5, <1>6, TellStep

LEMMA TellDueOne ==
    ASSUME IInv, NEW c \in Slots, Is(c, {"list"}), At(c, "tell"), NEW cause \in calls[c].todo,
           Tell(c, calls[c].by, cause),
           calls' = To(c, [calls[c] EXCEPT !.todo = calls[c].todo \ {cause}]),
           UNCHANGED <<scene, left, File, comments, mentions, tasks, phase, Desk>>
    PROVE  IInv'
  <1>1. PICK call, u, rest : call = calls[c] /\ u = calls[c].by /\ rest = calls[c].todo \ {cause}
    OBVIOUS
  <1>2. PICK new : new = [call EXCEPT !.todo = rest]
    OBVIOUS
  <1>3. /\ call # Null /\ call.op = "list" /\ call.at = "tell" /\ calls' = [calls EXCEPT ![c] = new]
        /\ Tell(c, u, cause) /\ cause \in call.todo /\ rest = call.todo \ {cause} /\ u = call.by
    BY <1>1, <1>2 DEF Is, At, To
  <1>4. call \in Call /\ CallOK(call) /\ ListOK(call)
    BY <1>1, <1>3, TheCall DEF CallOK
  <1>5. PICK t \in Tasks, d \in Dates : cause = Due(t, d)
    BY <1>3, <1>4 DEF ListOK
  <1>6. u \in Users /\ cause \in Cause /\ cause.type = "due"
    BY <1>3, <1>4, <1>5, CauseFits DEF Call, Due
  <1>7. /\ new \in Call /\ new.op = "list" /\ new.could = call.could /\ new.couldNot = call.couldNot
        /\ new.by = call.by /\ new.at = "tell" /\ new.todo = rest /\ new.changed = call.changed
    BY <1>2, <1>3, <1>4 DEF Call
  <1>8. UNCHANGED <<readers, tasks, phase>> /\ MentionsOnly(c, u)
    BY <1>1, <1>3 DEF File, IInv, TypeOK, MentionsOnly, HasComment
  <1>9. made \subseteq made' /\ <<u, cause>> \in made'
    BY <1>3, <1>6, TellNotices
  <1>10. DueOf(new.by)' = DueOf(call.by)
    BY <1>7, <1>8 DEF DueOf
  <1>11. \A x \in Tasks, e \in Dates : Due(x, e)' = Due(x, e)
    BY DEF Due
  <1>12. ListOK(new)'
    <2>1. rest \subseteq {Due(x, e) : x \in Tasks, e \in Dates}
      BY <1>3, <1>4 DEF ListOK
    <2>2. ASSUME NEW x \in DueOf(call.by) \ call.changed
          PROVE  <<u, Due(x, tasks[x].due)>> \in made' \/ Due(x, tasks[x].due) \in rest
      BY <1>3, <1>4, <1>9 DEF ListOK
    <2> QED BY <1>3, <1>7, <1>8, <1>10, <1>11, <2>1, <2>2 DEF ListOK, Due
  <1>13. CallOK(new)'
    BY <1>4, <1>7, <1>8, <1>12 DEF CallOK
  <1>14. ~HasComment(call) /\ ~HasComment(new) /\ \A z : Tells(new, z) => Tells(call, z)
    BY <1>3, <1>7 DEF HasComment, Tells
  <1> QED BY <1>1, <1>3, <1>6, <1>7, <1>8, <1>13, <1>14, TellStep

LEMMA TellDueStep == ASSUME IInv, NEW c \in Slots, TellDue(c) PROVE IInv'
  <1>1. Is(c, {"list"}) /\ At(c, "tell")
    BY DEF TellDue
  <1>2. CASE /\ calls[c].todo = {}
             /\ Check(c, TRUE, [calls[c] EXCEPT !.at = "rows", !.todo = {n \in notices : n.to = calls[c].by}])
    BY <1>1, <1>2, ListEndStep
  <1>3. CASE \E cause \in calls[c].todo :
               /\ Tell(c, calls[c].by, cause)
               /\ calls' = To(c, [calls[c] EXCEPT !.todo = calls[c].todo \ {cause}])
               /\ UNCHANGED <<scene, left, File, comments, mentions, tasks, phase, Desk>>
    BY <1>1, <1>3, TellDueOne
  <1> QED BY <1>2, <1>3 DEF TellDue

-----------------------------------------------------------------------------
(* Notifications that are read, pruned or grow old.                         *)

\* A listing takes up all that is due, of which nothing is past.
LEMMA EnterListStep == ASSUME IInv, NEW c \in Slots, EnterList(c) PROVE IInv'
  <1>1. PICK call, todo : /\ call = calls[c]
                          /\ todo = {Due(t, tasks[t].due) : t \in DueOf(calls[c].by)}
    OBVIOUS
  <1>2. PICK new : new = [call EXCEPT !.at = "tell", !.todo = todo]
    OBVIOUS
  <1>3. /\ call # Null /\ call.op = "list" /\ call.at = "enter" /\ calls' = [calls EXCEPT ![c] = new]
        /\ notices' = {n \in notices : n.to = call.by => ~n.old}
        /\ UNCHANGED <<scene, left, readers, lease, ended, comments, mentions, tasks, phase, local,
                       migrating, made, arrived>>
    BY <1>1, <1>2 DEF EnterList, Is, At, To, File, Desk, History
  <1>4. call \in Call /\ CallOK(call) /\ call.by \in Users
    BY <1>1, <1>3, TheCall DEF Call
  <1>5. \A t \in DueOf(call.by) : t \in Tasks /\ tasks[t].due \in Dates /\ phase[tasks[t].due] = "soon"
    BY DEF DueOf, IInv, TypeOK, Task
  <1>6. /\ todo \subseteq {Due(t, d) : t \in Tasks, d \in Dates}
        /\ todo \subseteq Users \cup Cause \cup Notice
    BY <1>1, <1>5, CauseFits
  <1>7. /\ new \in Call /\ new.op = "list" /\ new.could = call.could /\ new.couldNot = call.couldNot
        /\ new.by = call.by /\ new.at = "tell" /\ new.todo = todo /\ new.changed = call.changed
    <2>1. todo \in SUBSET (Users \cup Cause \cup Notice)
      BY <1>6
    <2>2. call.op = "list"
      BY <1>3
    <2> QED BY <2>1, <2>2, <1>2, <1>4 DEF Call
  <1>8. TypeOK'
    BY <1>3, <1>7 DEF IInv, TypeOK
  <1>9. Grown({}) /\ Others(c, {}) /\ PastStays /\ \A d \in Slots : SameMentions(calls[d].id)
    BY <1>3, NothingAdded DEF Grown, Others, PastStays, SameMentions, IInv, TypeOK
  <1>10. calls'[c] = new
    BY <1>3 DEF IInv, TypeOK
  <1>11. \A z : ~(Past(z) /\ Tells(new, z))
    <2> SUFFICES ASSUME NEW z, Past(z), Tells(new, z) PROVE FALSE
      OBVIOUS
    <2>1. PICK t \in DueOf(call.by) : z = Due(t, tasks[t].due)
      BY <1>1, <1>7 DEF Tells
    <2>2. phase[z.on] = "soon" /\ z.type = "due"
      BY <1>5, <2>1 DEF Due
    <2> QED BY <2>2 DEF Past
  <1>12. Modest(c)
    BY <1>7, <1>10, <1>11 DEF Modest, HasComment
  <1>13. NoticesStay
    BY <1>3 DEF NoticesStay, IInv, NoticesOK
  <1>14. ASSUME calls'[c] # Null PROVE CallOK(calls[c])'
    <2>1. ListOK(new)
      BY <1>1, <1>6, <1>7 DEF ListOK
    <2>2. CallOK(new)
      BY <1>4, <1>7, <2>1 DEF CallOK
    <2>3. ListOK(new)' <=> ListOK(new)
      BY <1>3 DEF ListOK, DueOf, Due
    <2>4. CallOK(new)'
      BY <1>3, <1>7, <2>2, <2>3 DEF CallOK
    <2>5. PICK same : same = new /\ same = calls'[c]
      BY <1>10
    <2>6. CallOK(same)'
      BY <2>4, <2>5
    <2>7. CallOK(calls[c])' = CallOK(same)'
      BY <2>5 DEF CallOK, CommentOK, ListOK, ImportOK, MustTell
    <2> QED BY <2>6, <2>7
  <1>15. MentionsOK' /\ ArrivedOK' /\ lease' \notin ended'
    BY <1>3 DEF IInv, MentionsOK, ArrivedOK, Sent
  <1> QED BY <1>8, <1>9, <1>12, <1>13, <1>14, <1>15, Assembled

-----------------------------------------------------------------------------
(* What happens besides the calls.                                          *)

\* A step in which no call moves: the calls under way learn of the rows of X.
LEMMA NobodyMoves ==
    ASSUME IInv, NEW X, Grown(X), NoticesStay, PastStays, TypeOK', MentionsOK', ArrivedOK',
           lease' \notin ended', UNCHANGED mentions,
           \A d \in Slots :
               calls'[d] = IF calls[d] = Null THEN Null
                           ELSE [calls[d] EXCEPT !.changed = calls[d].changed \cup X]
    PROVE  IInv'
  <1>1. PICK c \in Slots : TRUE
    BY NoticesAssumption
  <1>2. Others(c, X) /\ \A d \in Slots : SameMentions(calls[d].id)
    BY DEF Others, SameMentions
  <1>3. ASSUME calls'[c] # Null
        PROVE  /\ calls[c] # Null /\ calls[c] \in Call /\ CallOK(calls[c])
               /\ calls'[c] = [calls[c] EXCEPT !.changed = calls[c].changed \cup X]
    BY <1>3 DEF IInv, TypeOK, CallsOK
  <1>4. Modest(c)
    <2> SUFFICES ASSUME calls'[c] # Null PROVE Modest(c)
      BY DEF Modest
    <2>1. /\ calls'[c].op = calls[c].op /\ calls'[c].at = calls[c].at /\ calls'[c].id = calls[c].id
          /\ calls'[c].todo = calls[c].todo
      BY <1>3 DEF Call
    <2>2. \A z : Tells(calls'[c], z) => Tells(calls[c], z)
      BY <2>1 DEF Tells
    <2>3. HasComment(calls'[c]) => HasComment(calls[c])
      BY <2>1 DEF HasComment
    <2> QED BY <1>3, <2>1, <2>2, <2>3 DEF Modest, IInv, CommentsApart
  <1>5. ASSUME calls'[c] # Null PROVE CallOK(calls[c])'
    <2>1. PICK call, new : call = calls[c] /\ new = calls'[c]
      OBVIOUS
    <2>2. HasComment(call) => SameMentions(call.id)
      BY <1>2, <2>1
    <2>3. CallOK(new)'
      BY <2>1, <2>2, <1>3, <1>5, OtherCall
    <2>4. CallOK(calls[c])' = CallOK(new)'
      BY <2>1 DEF CallOK, CommentOK, ListOK, ImportOK, MustTell
    <2> QED BY <2>3, <2>4
  <1> QED BY <1>2, <1>4, <1>5, Assembled

LEMMA ReadStep ==
    ASSUME IInv, NEW u, NEW which, Read(u, which) PROVE IInv'
  <1>1. /\ which \subseteq notices
        /\ notices' = (notices \ which) \cup {[n EXCEPT !.read = TRUE] : n \in which}
        /\ UNCHANGED <<scene, left, readers, lease, ended, comments, mentions, tasks, phase, local,
                       migrating, calls, made, arrived>>
    BY DEF Read, File, Desk, History
  <1>2. ASSUME NEW n \in which
        PROVE  LET m == [n EXCEPT !.read = TRUE]
               IN  m \in Notice /\ m.to = n.to /\ m.cause = n.cause /\ m.event = n.event /\ m.old = n.old
    BY <1>1 DEF IInv, TypeOK, Notice
  <1>3. notices' \subseteq Notice
    BY <1>1, <1>2 DEF IInv, TypeOK
  <1>4. TypeOK'
    BY <1>1, <1>3 DEF IInv, TypeOK
  <1>5. NoticesStay
    <2>1. ASSUME NEW n \in notices'
          PROVE  \E m \in notices : m.to = n.to /\ m.cause = n.cause /\ m.event = n.event /\ m.old = n.old
      BY <1>1, <1>2, <2>1
    <2>2. ASSUME NEW n \in notices PROVE \E m \in notices' : m.to = n.to /\ m.cause = n.cause
      <3>1. CASE n \in which
        BY <3>1, <1>1, <1>2
      <3>2. CASE n \notin which
        BY <3>2, <1>1
      <3> QED BY <3>1, <3>2
    <2>3. \A n \in notices : n.event = n.cause /\ <<n.to, n.cause>> \in made
      BY DEF IInv, NoticesOK
    <2>4. \A n \in notices' : /\ n.event = n.cause /\ <<n.to, n.cause>> \in made'
                              /\ n.old => \E m \in notices : m.old /\ m.cause = n.cause
      <3> SUFFICES ASSUME NEW n \in notices'
                   PROVE  /\ n.event = n.cause /\ <<n.to, n.cause>> \in made'
                          /\ n.old => \E m \in notices : m.old /\ m.cause = n.cause
        OBVIOUS
      <3>1. made' = made
        BY <1>1
      <3> QED BY <2>1, <2>3, <3>1
    <2> QED BY <1>1, <2>2, <2>4 DEF NoticesStay
  <1>6. /\ Grown({}) /\ PastStays /\ MentionsOK' /\ ArrivedOK' /\ lease' \notin ended'
        /\ UNCHANGED mentions
    BY <1>1 DEF Grown, PastStays, IInv, MentionsOK, ArrivedOK, Sent
  <1>7. \A d \in Slots :
               calls'[d] = IF calls[d] = Null THEN Null
                           ELSE [calls[d] EXCEPT !.changed = calls[d].changed \cup {}]
    BY <1>1, NothingAdded DEF IInv, TypeOK
  <1> QED BY <1>4, <1>5, <1>6, <1>7, NobodyMoves

LEMMA ChangeLeaseStep == ASSUME IInv, ChangeLease PROVE IInv'
  <1>1. /\ lease' \in (Leases \ ended) \cup {Null} /\ left > 0 /\ left' = left - 1
        /\ UNCHANGED <<scene, readers, ended, comments, mentions, notices, tasks, phase, local,
                       migrating, calls, made, arrived>>
    BY DEF ChangeLease, Desk, History
  <1>2. left' \in 0 .. scene.calls
    <2>1. scene.calls \in Nat
      BY NoticesAssumption DEF IInv, TypeOK
    <2> QED BY <1>1, <2>1 DEF IInv, TypeOK
  <1>3. TypeOK'
    BY <1>1, <1>2 DEF IInv, TypeOK
  <1>4. /\ Grown({}) /\ PastStays /\ MentionsOK' /\ ArrivedOK' /\ NoticesStay /\ UNCHANGED mentions
    BY <1>1 DEF Grown, PastStays, IInv, MentionsOK, ArrivedOK, Sent, NoticesStay, NoticesOK
  <1>5. Null \notin ended
    BY NoticesAssumption DEF IInv, TypeOK
  <1>6. \A d \in Slots :
               calls'[d] = IF calls[d] = Null THEN Null
                           ELSE [calls[d] EXCEPT !.changed = calls[d].changed \cup {}]
    BY <1>1, NothingAdded DEF IInv, TypeOK
  <1> QED BY <1>1, <1>3, <1>4, <1>5, <1>6, NobodyMoves

\* When a date comes near or passes, the calls learn of the tasks that have it.
LEMMA TickStep == ASSUME IInv, NEW d \in Dates, Tick(d) PROVE IInv'
  <1>1. PICK X : X = {t \in Tasks : tasks[t] # Null /\ tasks[t].due = d}
    OBVIOUS
  <1>2. /\ phase[d] # "past" /\ phase' = [phase EXCEPT ![d] = IF @ = "far" THEN "soon" ELSE "past"]
        /\ UNCHANGED <<scene, left, readers, lease, ended, comments, mentions, notices, tasks, local,
                       migrating, made, arrived>>
        /\ calls' = [c \in Slots |-> IF calls[c] = Null THEN Null
                       ELSE [calls[c] EXCEPT !.changed = calls[c].changed \cup X]]
    BY <1>1 DEF Tick, File, Desk, History
  <1>3. \A c \in Slots : calls[c] # Null =>
               [calls[c] EXCEPT !.changed = calls[c].changed \cup X] \in Call
    <2> SUFFICES ASSUME NEW c \in Slots, calls[c] # Null
                 PROVE  [calls[c] EXCEPT !.changed = calls[c].changed \cup X] \in Call
      OBVIOUS
    <2>1. PICK changed : changed = calls[c].changed \cup X
      OBVIOUS
    <2>2. calls[c] \in Call /\ changed \subseteq Comments \cup Tasks
      BY <1>1, <2>1 DEF IInv, TypeOK, Call
    <2>3. [calls[c] EXCEPT !.changed = changed] \in Call
      BY <2>2 DEF Call
    <2> QED BY <2>1, <2>3
  <1>4. TypeOK'
    BY <1>2, <1>3 DEF IInv, TypeOK
  <1>5. Grown(X)
    BY <1>1, <1>2 DEF Grown, IInv, TypeOK
  <1>6. PastStays /\ NoticesStay /\ UNCHANGED mentions
    BY <1>2 DEF PastStays, IInv, TypeOK, NoticesStay, NoticesOK
  <1>7. MentionsOK' /\ ArrivedOK' /\ lease' \notin ended'
    BY <1>2 DEF IInv, MentionsOK, ArrivedOK, Sent
  <1> QED BY <1>2, <1>4, <1>5, <1>6, <1>7, NobodyMoves

\* A step that changes no row: the calls know of what they know of, and as much of it.
LEMMA NoRowChanges ==
    ASSUME IInv, TypeOK', UNCHANGED <<comments, mentions, notices, tasks, phase, made, arrived, lease,
                                      ended, local>>,
           \A d \in Slots :
               /\ calls'[d] = Null <=> calls[d] = Null
               /\ calls[d] # Null =>
                      /\ calls'[d].op = calls[d].op /\ calls'[d].at = calls[d].at
                      /\ calls'[d].id = calls[d].id /\ calls'[d].todo = calls[d].todo
                      /\ CallOK(calls[d])'
    PROVE  IInv'
  <1>1. \A d \in Slots : calls[d] # Null =>
            /\ \A z : Tells(calls'[d], z) => Tells(calls[d], z)
            /\ HasComment(calls'[d]) <=> HasComment(calls[d])
            /\ calls'[d].id = calls[d].id
    BY DEF Tells, HasComment
  <1>2. CallsOK'
    BY DEF CallsOK
  <1>3. CommentsApart'
    BY <1>1 DEF IInv, CommentsApart
  <1>4. ASSUME NEW cause, Over(cause) PROVE Over(cause)'
    BY <1>1, <1>4 DEF Over, Past
  <1>5. NoticesOK'
    <2>1. \A n \in notices : n.event = n.cause /\ <<n.to, n.cause>> \in made /\ (n.old => Over(n.cause))
      BY DEF IInv, NoticesOK
    <2>2. \A n \in notices : n.event = n.cause /\ <<n.to, n.cause>> \in made /\ (n.old => Over(n.cause)')
      BY <1>4, <2>1
    <2> QED BY <2>2 DEF NoticesOK, Over, Past
  <1>6. MadeOK'
    <2>1. \A u \in Users, cause \in Cause : <<u, cause>> \in made =>
              /\ (\E n \in notices : n.to = u /\ n.cause = cause) \/ Over(cause)'
              /\ cause.type = "comment" => comments[cause.of] # Null
      BY <1>4 DEF IInv, MadeOK
    <2> QED BY <2>1 DEF MadeOK, Over, Past
  <1>7. MentionsOK' /\ ArrivedOK' /\ lease' \notin ended'
    BY DEF IInv, MentionsOK, ArrivedOK, Sent
  <1> QED BY <1>2, <1>3, <1>5, <1>6, <1>7 DEF IInv

\* A page that is loaded waits no more for what was asked before.
LEMMA LoadPageStep == ASSUME IInv, LoadPage PROVE IInv'
  <1>1. /\ migrating' = FALSE
        /\ UNCHANGED <<scene, left, readers, lease, ended, comments, mentions, notices, tasks, phase,
                       local, made, arrived>>
        /\ calls' = [c \in Slots |-> IF Is(c, {"import"}) THEN [calls[c] EXCEPT !.heard = FALSE] ELSE calls[c]]
    BY DEF LoadPage, Store, File, History
  <1>2. ASSUME NEW d \in Slots, calls[d] # Null
        PROVE  /\ calls'[d] # Null /\ calls'[d] \in Call
               /\ calls'[d].op = calls[d].op /\ calls'[d].at = calls[d].at
               /\ calls'[d].id = calls[d].id /\ calls'[d].todo = calls[d].todo
               /\ CallOK(calls[d])'
    <2>1. PICK call, new : call = calls[d] /\ new = calls'[d]
      OBVIOUS
    <2>2. call \in Call /\ call # Null /\ CallOK(call)
      BY <1>2, <2>1 DEF IInv, TypeOK, CallsOK
    <2>3. \/ new = call
          \/ new = [call EXCEPT !.heard = FALSE] /\ call.op = "import"
      BY <1>1, <2>1, <2>2 DEF Is
    <2>4. /\ new \in Call /\ new.op = call.op /\ new.at = call.at /\ new.id = call.id
          /\ new.todo = call.todo /\ new.by = call.by /\ new.next = call.next
          /\ new.could = call.could /\ new.couldNot = call.couldNot
          /\ new = call \/ call.op = "import"
      BY <2>2, <2>3 DEF Call
    <2>5. new # Null
      BY <2>3, <2>2, <2>4, RowAssumption
    <2>6. call.op = "import" => ImportOK(new)'
      BY <1>1, <2>2, <2>4 DEF CallOK, ImportOK, Sent
    <2>7. UNCHANGED Tables
      BY <1>1 DEF Tables
    <2>8. CallOK(new)'
      <3>1. CASE new = call
        BY <3>1, <2>2, <2>7, SameRows
      <3>2. CASE call.op = "import"
        BY <3>2, <1>1, <2>2, <2>4, <2>6 DEF CallOK
      <3> QED BY <3>1, <3>2, <2>4
    <2>9. CallOK(calls[d])' = CallOK(new)'
      BY <2>1 DEF CallOK, CommentOK, ListOK, ImportOK, MustTell
    <2> QED BY <2>1, <2>4, <2>5, <2>8, <2>9
  <1>3. \A d \in Slots : calls[d] = Null => calls'[d] = Null
    BY <1>1 DEF Is
  <1>4. \A d \in Slots : calls'[d] \in Call \cup {Null}
    BY <1>2, <1>3
  <1>5. calls' \in [Slots -> Call \cup {Null}]
    BY <1>1, <1>4
  <1>6. TypeOK'
    BY <1>1, <1>5 DEF IInv, TypeOK
  <1> QED BY <1>1, <1>2, <1>3, <1>6, NoRowChanges

\* Who could and who could not read, at some moment of a call, may only become more.
LEMMA ChangeAccessStep == ASSUME IInv, NEW u \in Users, ChangeAccess(u) PROVE IInv'
  <1>1. /\ left > 0 /\ left' = left - 1 /\ readers' = (readers \ {u}) \cup ({u} \ readers)
        /\ UNCHANGED <<scene, lease, ended, comments, mentions, notices, tasks, phase, local,
                       migrating, made, arrived>>
        /\ calls' = [c \in Slots |-> IF calls[c] = Null THEN Null
                       ELSE [calls[c] EXCEPT !.could = calls[c].could \cup readers',
                                             !.couldNot = calls[c].couldNot \cup (Users \ readers')]]
    BY DEF ChangeAccess, Desk, History
  <1>2. readers' \subseteq Users
    BY <1>1 DEF IInv, TypeOK
  <1>3. ASSUME NEW d \in Slots, calls[d] # Null
        PROVE  /\ calls'[d] # Null /\ calls'[d] \in Call
               /\ calls'[d].op = calls[d].op /\ calls'[d].at = calls[d].at
               /\ calls'[d].id = calls[d].id /\ calls'[d].todo = calls[d].todo
               /\ CallOK(calls[d])'
    <2>1. PICK call, new, could, couldNot :
              /\ call = calls[d] /\ new = calls'[d] /\ could = call.could \cup readers'
              /\ couldNot = call.couldNot \cup (Users \ readers')
      OBVIOUS
    <2>2. call \in Call /\ call # Null /\ CallOK(call)
      BY <1>3, <2>1 DEF IInv, TypeOK, CallsOK
    <2>3. new = [call EXCEPT !.could = could, !.couldNot = couldNot]
      BY <1>1, <2>1, <2>2
    <2>4. could \in SUBSET Users /\ couldNot \in SUBSET Users
      BY <1>2, <2>1, <2>2 DEF Call
    <2>5. /\ new \in Call /\ new.op = call.op /\ new.at = call.at /\ new.id = call.id
          /\ new.todo = call.todo /\ new.by = call.by /\ new.next = call.next
          /\ new.could = could /\ new.couldNot = couldNot /\ new.change = call.change
          /\ new.asked = call.asked /\ new.found = call.found /\ new.parent = call.parent
          /\ new.changed = call.changed
      BY <2>2, <2>3, <2>4 DEF Call
    <2>6. readers' \subseteq new.could /\ Users \ readers' \subseteq new.couldNot
          /\ call.could \subseteq new.could
      BY <2>1, <2>5
    <2>7. MustTell(new) \subseteq MustTell(call) /\ MustTell(new)' = MustTell(new)
      BY <2>1, <2>5 DEF MustTell
    <2>8. call.op = "comment" => CommentOK(new)'
      <3>1. Mentioned(call.id)' = Mentioned(call.id) /\ ToldOf(call.id)' = ToldOf(call.id)
        BY <1>1 DEF Mentioned, ToldOf
      <3> QED BY <1>1, <2>2, <2>5, <2>6, <2>7, <3>1 DEF CallOK, CommentOK
    <2>9. call.op = "list" => ListOK(new)'
      <3>1. DueOf(new.by)' = DueOf(call.by)
        BY <1>1, <2>5 DEF DueOf
      <3>2. UNCHANGED <<tasks, made>>
        BY <1>1
      <3> QED BY <2>2, <2>5, <3>1, <3>2 DEF CallOK, ListOK, Due
    <2>10. call.op = "import" => ImportOK(new)'
      BY <1>1, <2>2, <2>5 DEF CallOK, ImportOK, Sent
    <2>11. CallOK(new)'
      BY <1>1, <2>2, <2>5, <2>6, <2>8, <2>9, <2>10 DEF CallOK
    <2>12. CallOK(calls[d])' = CallOK(new)'
      BY <2>1 DEF CallOK, CommentOK, ListOK, ImportOK, MustTell
    <2>13. new # Null
      BY <2>5, RowAssumption
    <2> QED BY <2>1, <2>5, <2>11, <2>12, <2>13
  <1>4. \A d \in Slots : calls[d] = Null => calls'[d] = Null
    BY <1>1
  <1>5. calls' \in [Slots -> Call \cup {Null}]
    BY <1>1, <1>3, <1>4
  <1>6. left' \in 0 .. scene.calls
    <2>1. scene.calls \in Nat /\ left \in 0 .. scene.calls
      BY NoticesAssumption DEF IInv, TypeOK
    <2>2. left > 0 /\ left' = left - 1
      BY <1>1
    <2> QED BY <2>1, <2>2
  <1>7. TypeOK'
    BY <1>1, <1>2, <1>5, <1>6 DEF IInv, TypeOK
  <1> QED BY <1>1, <1>3, <1>4, <1>7, NoRowChanges

\* What grows old is over: a comment that is there, a date that is past, a lease that has
\* ended and does not come back; and no call is under way that would tell of it.
LEMMA AgeStep == ASSUME IInv, Age PROVE IInv'
  <1>1. PICK n \in notices :
            /\ n.cause.type = "due" => phase[n.cause.on] = "past"
            /\ n.cause.type = "takeover" => n.cause.of # lease
            /\ notices' = (notices \ {n}) \cup {[n EXCEPT !.old = TRUE]}
            /\ ended' = IF n.cause.type = "takeover" THEN ended \cup {n.cause.of} ELSE ended
    BY DEF Age
  <1>2. /\ UNCHANGED <<scene, left, readers, lease, comments, mentions, tasks, phase, local, migrating,
                       calls, made, arrived>>
        /\ \A c \in Slots : calls[c] = Null
    BY DEF Age, Desk, History
  <1>3. PICK m : m = [n EXCEPT !.old = TRUE]
    OBVIOUS
  <1>4. /\ m \in Notice /\ m.to = n.to /\ m.cause = n.cause /\ m.event = n.event /\ m.old
        /\ n.cause \in Cause /\ n.to \in Users
    BY <1>3 DEF IInv, TypeOK, Notice
  <1>5. n.cause.type = "takeover" => n.cause.of \in Leases
    BY <1>4 DEF Cause
  <1>6. TypeOK'
    BY <1>1, <1>2, <1>3, <1>4, <1>5 DEF IInv, TypeOK
  <1>7. CallsOK' /\ CommentsApart'
    BY <1>2 DEF CallsOK, CommentsApart
  <1>8. ASSUME NEW cause, Past(cause) PROVE Over(cause)'
    BY <1>1, <1>2, <1>8 DEF Over, Past
  <1>9. Over(n.cause)'
    <2>1. n.event = n.cause /\ <<n.to, n.cause>> \in made
      BY DEF IInv, NoticesOK
    <2>2. n.cause.type = "comment" => comments[n.cause.of] # Null
      BY <1>4, <2>1 DEF IInv, MadeOK
    <2> QED BY <1>1, <1>2, <2>2 DEF Over, Past
  <1>10. NoticesOK'
    <2>1. \A k \in notices : k.event = k.cause /\ <<k.to, k.cause>> \in made /\ (k.old => Past(k.cause))
      BY DEF IInv, NoticesOK, Over
    <2>2. \A k \in notices' : k.event = k.cause /\ <<k.to, k.cause>> \in made' /\ (k.old => Over(k.cause)')
      BY <1>1, <1>2, <1>3, <1>4, <1>8, <1>9, <2>1
    <2> QED BY <2>2 DEF NoticesOK, Over, Past
  <1>11. MadeOK'
    <2>1. \A u \in Users, cause \in Cause : <<u, cause>> \in made =>
              /\ (\E k \in notices : k.to = u /\ k.cause = cause) \/ Past(cause)
              /\ cause.type = "comment" => comments[cause.of] # Null
      BY DEF IInv, MadeOK, Over
    <2>2. \A k \in notices : \E x \in notices' : x.to = k.to /\ x.cause = k.cause
      BY <1>1, <1>3, <1>4
    <2>3. \A u \in Users, cause \in Cause : <<u, cause>> \in made' =>
              /\ (\E k \in notices' : k.to = u /\ k.cause = cause) \/ Over(cause)'
              /\ cause.type = "comment" => comments'[cause.of] # Null
      BY <1>2, <1>8, <2>1, <2>2
    <2> QED BY <2>3 DEF MadeOK, Over, Past
  <1>12. MentionsOK' /\ ArrivedOK' /\ lease' \notin ended'
    BY <1>1, <1>2 DEF IInv, MentionsOK, ArrivedOK, Sent
  <1> QED BY <1>6, <1>7, <1>10, <1>11, <1>12 DEF IInv

-----------------------------------------------------------------------------
(* Rows that change.                                                        *)

\* The calls besides c when the row x changes.
LEMMA NotedOthers ==
    ASSUME IInv, NEW c \in Slots, NEW x, NEW rest \in [Slots -> Call \cup {Null}],
           rest = [calls EXCEPT ![c] = rest[c]], calls' = Noting(x, rest)
    PROVE  /\ Others(c, {x})
           /\ rest[c] = Null => calls'[c] = Null
           /\ rest[c] # Null => calls'[c] = [rest[c] EXCEPT !.changed = rest[c].changed \cup {x}]
  <1>1. \A d \in Slots : d # c => rest[d] = calls[d]
    BY DEF IInv, TypeOK
  <1>2. \A d \in Slots : calls'[d] = IF rest[d] = Null THEN Null
                                     ELSE [rest[d] EXCEPT !.changed = rest[d].changed \cup {x}]
    BY DEF Noting
  <1>3. Others(c, {x})
    BY <1>1, <1>2 DEF Others
  <1> QED BY <1>2, <1>3

\* All the calls have their types when the other ones noted that rows of X changed.
LEMMA NotedFit ==
    ASSUME IInv, NEW c \in Slots, NEW X \in SUBSET (Comments \cup Tasks), Others(c, X),
           calls'[c] \in Call \cup {Null}
    PROVE  \A d \in Slots : calls'[d] \in Call \cup {Null}
  <1> SUFFICES ASSUME NEW d \in Slots, d # c, calls[d] # Null PROVE calls'[d] \in Call
    BY DEF Others
  <1>1. PICK call, changed : call = calls[d] /\ changed = call.changed \cup X
    OBVIOUS
  <1>2. call \in Call /\ changed \subseteq Comments \cup Tasks
    BY <1>1 DEF IInv, TypeOK, Call
  <1>3. calls'[d] = [call EXCEPT !.changed = changed]
    BY <1>1 DEF Others
  <1> QED BY <1>2, <1>3 DEF Call

\* A step of a call c that ends it and changes one task.
LEMMA TaskStep ==
    ASSUME IInv, NEW c \in Slots, NEW t \in Tasks, calls' = Noting(t, To(c, Null)),
           NEW row \in Task \cup {Null}, tasks' = [tasks EXCEPT ![t] = row],
           row # Null => row.legacy = 0 \/ (tasks[t] # Null /\ row.legacy = tasks[t].legacy
                                             /\ row.by = tasks[t].by),
           UNCHANGED <<scene, left, File, comments, mentions, notices, phase, Desk, History>>
    PROVE  IInv'
  <1>1. UNCHANGED <<scene, left, readers, lease, ended, comments, mentions, notices, phase, local,
                    migrating, made, arrived>>
    BY DEF File, Desk, History
  <1>2. PICK rest : rest = To(c, Null)
    OBVIOUS
  <1>3. rest \in [Slots -> Call \cup {Null}] /\ rest[c] = Null /\ rest = [calls EXCEPT ![c] = rest[c]]
    BY <1>2 DEF To, IInv, TypeOK
  <1>4. Others(c, {t}) /\ calls'[c] = Null
    BY <1>2, <1>3, NotedOthers
  <1>5. calls' \in [Slots -> Call \cup {Null}]
    <2>1. \A d \in Slots : calls'[d] \in Call \cup {Null}
      BY <1>4, NotedFit
    <2>2. calls' = [d \in Slots |-> calls'[d]]
      BY DEF Noting
    <2> QED BY <2>1, <2>2
  <1>6. tasks \in [Tasks -> Task \cup {Null}]
    BY DEF IInv, TypeOK
  <1>7. TypeOK'
    <2>1. tasks' \in [Tasks -> Task \cup {Null}]
      BY <1>6
    <2> QED BY <1>1, <1>5, <2>1 DEF IInv, TypeOK
  <1>8. Grown({t})
    BY <1>1, <1>6 DEF Grown
  <1>9. Modest(c) /\ PastStays /\ \A d \in Slots : SameMentions(calls[d].id)
    BY <1>1, <1>4 DEF Modest, PastStays, SameMentions
  <1>10. NoticesStay
    BY <1>1 DEF NoticesStay, IInv, NoticesOK
  <1>11. MentionsOK' /\ lease' \notin ended'
    BY <1>1 DEF IInv, MentionsOK
  <1>12. ArrivedOK'
    <2>1. \A x \in Tasks : tasks'[x] # Null /\ tasks'[x].legacy # 0 =>
              tasks[x] # Null /\ tasks'[x].legacy = tasks[x].legacy /\ tasks'[x].by = tasks[x].by
      BY <1>6
    <2>2. ArrivedOK
      BY DEF IInv
    <2> QED BY <1>1, <2>1, <2>2 DEF ArrivedOK, Sent
  <1> QED BY <1>4, <1>7, <1>8, <1>9, <1>10, <1>11, <1>12, Assembled

LEMMA InsertTaskStep == ASSUME IInv, NEW c \in Slots, InsertTask(c) PROVE IInv'
  <1>1. PICK call : call = calls[c]
    OBVIOUS
  <1>2. PICK t, row :
            /\ t \in Tasks /\ tasks[t] = Null /\ row = Inserted(call) /\ tasks' = [tasks EXCEPT ![t] = row]
            /\ calls' = Noting(t, To(c, Null))
            /\ UNCHANGED <<scene, left, File, comments, mentions, notices, phase, Desk, History>>
    BY <1>1 DEF InsertTask
  <1>3. call # Null /\ call.op = "create"
    BY <1>1 DEF InsertTask, Is
  <1>4. call \in Call /\ CallOK(call)
    BY <1>1, <1>3, TheCall
  <1>5. call.change \in Change /\ call.change.status # Null /\ call.by \in Users
    BY <1>3, <1>4 DEF CallOK, Call
  <1>6. row = [by |-> call.by, who |-> call.change.who, status |-> call.change.status,
               due |-> call.change.due, completed |-> call.change.status = "DONE", legacy |-> 0]
    BY <1>2, <1>3 DEF Inserted
  <1>7. row \in Task /\ row.legacy = 0
    BY <1>5, <1>6, SentFits DEF Task, Change
  <1> QED BY <1>2, <1>7, TaskStep

LEMMA UpdateTaskStep == ASSUME IInv, NEW c \in Slots, UpdateTask(c) PROVE IInv'
  <1>1. PICK call, t, task : call = calls[c] /\ t = calls[c].id /\ task = tasks[calls[c].id]
    OBVIOUS
  <1>2. /\ call # Null /\ call.op = "update" /\ calls' = Noting(t, To(c, Null))
        /\ UNCHANGED <<scene, left, File, comments, mentions, notices, phase, Desk, History>>
    BY <1>1 DEF UpdateTask, Is
  <1>3. call \in Call /\ CallOK(call)
    BY <1>1, <1>2, TheCall
  <1>4. t \in Tasks /\ call.change \in Change
    BY <1>1, <1>2, <1>3 DEF CallOK
  <1>5. PICK row :
            row = IF task = Null THEN Null
                  ELSE [task EXCEPT !.status = Or(call.change.status, task.status),
                                    !.who = Or(call.change.who, task.who),
                                    !.due = Or(call.change.due, task.due),
                                    !.completed = Completed(call, task)]
    OBVIOUS
  <1>6. tasks \in [Tasks -> Task \cup {Null}] /\ task = tasks[t]
    BY <1>1 DEF IInv, TypeOK
  <1>7. tasks' = [tasks EXCEPT ![t] = row]
    <2>1. CASE task = Null
      BY <2>1, <1>1, <1>4, <1>5, <1>6 DEF UpdateTask
    <2>2. CASE task # Null
      BY <2>2, <1>1, <1>5 DEF UpdateTask
    <2> QED BY <2>1, <2>2
  <1>8. row # Null => row \in Task /\ task # Null /\ row.legacy = task.legacy /\ row.by = task.by
    <2> SUFFICES ASSUME row # Null
                 PROVE  row \in Task /\ task # Null /\ row.legacy = task.legacy /\ row.by = task.by
      OBVIOUS
    <2>1. task \in Task /\ task # Null
      BY <1>4, <1>5, <1>6
    <2>2. PICK status, who, due, completed :
              /\ status = Or(call.change.status, task.status) /\ who = Or(call.change.who, task.who)
              /\ due = Or(call.change.due, task.due) /\ completed = Completed(call, task)
      OBVIOUS
    <2>3. row = [task EXCEPT !.status = status, !.who = who, !.due = due, !.completed = completed]
      BY <1>5, <2>1, <2>2
    <2>4. completed \in BOOLEAN
      BY <2>2 DEF Completed
    <2>5. status \in Statuses /\ who \in Users \cup {Null} /\ due \in Dates \cup {Null}
      BY <1>4, <2>1, <2>2 DEF Or, Change, Task
    <2> QED BY <2>1, <2>3, <2>4, <2>5 DEF Task
  <1> QED BY <1>2, <1>4, <1>6, <1>7, <1>8, TaskStep

LEMMA DeleteTaskStep == ASSUME IInv, NEW c \in Slots, DeleteTask(c) PROVE IInv'
  <1>1. PICK call, t : call = calls[c] /\ t = calls[c].id
    OBVIOUS
  <1>2. /\ call # Null /\ call.op = "delete" /\ calls' = Noting(t, To(c, Null))
        /\ tasks' = [tasks EXCEPT ![t] = Null]
        /\ UNCHANGED <<scene, left, File, comments, mentions, notices, phase, Desk, History>>
    BY <1>1 DEF DeleteTask, Is
  <1>3. call \in Call /\ CallOK(call)
    BY <1>1, <1>2, TheCall
  <1>4. t \in Tasks
    BY <1>1, <1>2, <1>3 DEF CallOK
  <1> QED BY <1>2, <1>4, TaskStep

\* A comment that is resolved or opened again: the calls that answer it learn of it.
LEMMA ResolveStep == ASSUME IInv, NEW c \in Slots, Resolve(c) PROVE IInv'
  <1>1. PICK call, k, rest, resolved :
            /\ call = calls[c] /\ k = calls[c].id /\ rest = To(c, Null)
            /\ resolved = (calls[c].op = "resolve")
    OBVIOUS
  <1>2. /\ call # Null /\ call.op \in {"resolve", "reopen"} /\ calls' = Noting(k, rest)
        /\ comments' = [comments EXCEPT ![k].resolved = resolved]
        /\ UNCHANGED <<scene, left, readers, lease, ended, mentions, notices, tasks, phase, local,
                       migrating, made, arrived>>
    BY <1>1 DEF Resolve, Is, File, Desk, History
  <1>3. call \in Call /\ CallOK(call)
    BY <1>1, <1>2, TheCall
  <1>4. k \in Comments /\ comments[k] # Null
    BY <1>1, <1>2, <1>3 DEF CallOK
  <1>5. comments \in [Comments -> Comment \cup {Null}] /\ comments[k] \in Comment /\ resolved \in BOOLEAN
    BY <1>1, <1>4 DEF IInv, TypeOK
  <1>6. /\ comments' \in [Comments -> Comment \cup {Null}] /\ comments'[k] # Null
        /\ \A j \in Comments : j # k => comments'[j] = comments[j]
    <2>1. PICK row : row = [comments[k] EXCEPT !.resolved = resolved]
      OBVIOUS
    <2>2. row \in Comment /\ row # Null
      BY <1>5, <2>1, RowAssumption DEF Comment
    <2>3. comments' = [comments EXCEPT ![k] = row]
      BY <1>2, <2>1
    <2> QED BY <1>4, <1>5, <2>2, <2>3
  <1>7. rest \in [Slots -> Call \cup {Null}] /\ rest[c] = Null /\ rest = [calls EXCEPT ![c] = rest[c]]
    BY <1>1 DEF To, IInv, TypeOK
  <1>8. Others(c, {k}) /\ calls'[c] = Null
    BY <1>2, <1>7, NotedOthers
  <1>9. calls' \in [Slots -> Call \cup {Null}]
    <2>1. \A d \in Slots : calls'[d] \in Call \cup {Null}
      BY <1>4, <1>8, NotedFit
    <2>2. calls' = [d \in Slots |-> calls'[d]]
      BY <1>2 DEF Noting
    <2> QED BY <2>1, <2>2
  <1>10. TypeOK'
    BY <1>2, <1>6, <1>9 DEF IInv, TypeOK
  <1>11. Grown({k})
    BY <1>2, <1>6 DEF Grown
  <1>12. Modest(c) /\ PastStays /\ \A d \in Slots : SameMentions(calls[d].id)
    BY <1>2, <1>8 DEF Modest, PastStays, SameMentions
  <1>13. NoticesStay
    BY <1>2 DEF NoticesStay, IInv, NoticesOK
  <1>14. MentionsOK' /\ ArrivedOK' /\ lease' \notin ended'
    BY <1>2, <1>6 DEF IInv, MentionsOK, ArrivedOK, Sent
  <1> QED BY <1>8, <1>10, <1>11, <1>12, <1>13, <1>14, Assembled

\* A comment that is new: nobody was mentioned by it and nobody told of it.
LEMMA InsertCommentStep == ASSUME IInv, NEW c \in Slots, InsertComment(c) PROVE IInv'
  <1>1. PICK call, todo : call = calls[c] /\ todo = calls[c].asked \ {calls[c].by}
    OBVIOUS
  <1>2. PICK k, row, new :
            /\ k \in Comments /\ comments[k] = Null /\ row = [by |-> call.by, parent |-> call.parent, resolved |-> FALSE]
            /\ new = [call EXCEPT !.at = "parse", !.id = k, !.todo = todo]
            /\ comments' = [comments EXCEPT ![k] = row] /\ calls' = [calls EXCEPT ![c] = new]
            /\ UNCHANGED <<scene, left, readers, lease, ended, mentions, notices, tasks, phase, local,
                           migrating, made, arrived>>
    BY <1>1 DEF InsertComment, To, File, Desk, History
  <1>3. call # Null /\ call.op = "comment" /\ call.at = "write"
    BY <1>1 DEF InsertComment, Is, At
  <1>4. call \in Call /\ CallOK(call) /\ call.found = {} /\ todo \subseteq call.asked /\ call.asked \subseteq Users
    BY <1>1, <1>3, TheCall DEF CallOK, CommentOK, Call
  <1>5. row \in Comment /\ row # Null
    <2>1. call.by \in Users /\ call.parent \in Comments \cup {Null}
      BY <1>4 DEF Call
    <2>2. row \in Comment
      BY <1>2, <2>1 DEF Comment
    <2> QED BY <2>2, RowAssumption
  <1>6. /\ comments' \in [Comments -> Comment \cup {Null}] /\ comments'[k] # Null
        /\ \A j \in Comments : j # k => comments'[j] = comments[j]
    BY <1>2, <1>5 DEF IInv, TypeOK
  <1>7. /\ new \in Call /\ new.op = "comment" /\ new.at = "parse" /\ new.id = k /\ new.todo = todo
        /\ new.asked = call.asked /\ new.by = call.by /\ new.found = {}
        /\ new.could = call.could /\ new.couldNot = call.couldNot
    BY <1>2, <1>3, <1>4 DEF Call
  <1>8. calls'[c] = new
    BY <1>2 DEF IInv, TypeOK
  <1>9. TypeOK'
    BY <1>2, <1>6, <1>7 DEF IInv, TypeOK
  <1>10. Grown({})
    BY <1>2, <1>6 DEF Grown
  <1>11. Others(c, {}) /\ PastStays /\ \A d \in Slots : SameMentions(calls[d].id)
    BY <1>2, NothingAdded DEF Others, PastStays, SameMentions, IInv, TypeOK
  <1>12. Modest(c)
    <2>1. \A z : Tells(new, z) => z.type = "comment" /\ z.of = k
      BY <1>7 DEF Tells
    <2>2. \A z : ~(Past(z) /\ Tells(new, z))
      BY <1>2, <2>1 DEF Past
    <2>3. \A d \in Slots : calls[d] # Null /\ HasComment(calls[d]) => calls[d].id # k
      BY <1>2 DEF HasComment, IInv, CallsOK, CallOK, CommentOK
    <2> QED BY <1>7, <1>8, <2>2, <2>3 DEF Modest
  <1>13. NoticesStay
    BY <1>2 DEF NoticesStay, IInv, NoticesOK
  <1>14. MentionsOK' /\ ArrivedOK' /\ lease' \notin ended'
    BY <1>2, <1>6 DEF IInv, MentionsOK, ArrivedOK, Sent
  <1>15. Mentioned(k)' = {}
    BY <1>2 DEF Mentioned, IInv, MentionsOK
  <1>16. CommentOK(new)'
    <2>1. MustTell(new)' \subseteq todo
      BY <1>1, <1>7 DEF MustTell
    <2> QED BY <1>2, <1>4, <1>6, <1>7, <1>15, <2>1 DEF CommentOK
  <1>17. CallOK(new)'
    BY <1>2, <1>4, <1>7, <1>16 DEF CallOK
  <1>18. CallOK(calls[c])'
    <2>1. PICK same : same = new /\ same = calls'[c]
      BY <1>8
    <2>2. CallOK(same)'
      BY <1>17, <2>1
    <2>3. CallOK(calls[c])' = CallOK(same)'
      BY <2>1 DEF CallOK, CommentOK, ListOK, ImportOK, MustTell
    <2> QED BY <2>2, <2>3
  <1> QED BY <1>9, <1>10, <1>11, <1>12, <1>13, <1>14, <1>18, Assembled

\* A task of the desktop that is not on the server arrives.
LEMMA InsertImportedStep == ASSUME IInv, NEW c \in Slots, InsertImported(c) PROVE IInv'
  <1>1. PICK call, moved : call = calls[c] /\ moved = [calls[c] EXCEPT !.at = "enter", !.next = @ + 1]
    OBVIOUS
  <1>2. PICK t, row, rest :
            /\ t \in Tasks /\ tasks[t] = Null /\ row = Inserted(call) /\ tasks' = [tasks EXCEPT ![t] = row]
            /\ rest = To(c, moved) /\ calls' = Noting(t, rest)
            /\ arrived' = arrived \cup {call.next}
            /\ UNCHANGED <<scene, left, readers, lease, ended, comments, mentions, notices, phase, local,
                           migrating, made>>
    BY <1>1 DEF InsertImported, File, Desk
  <1>3. /\ call # Null /\ call.op = "import" /\ call.at = "write" /\ ~RefusedByIndex(call)
    BY <1>1 DEF InsertImported, Is, At
  <1>4. /\ call \in Call /\ CallOK(call) /\ ImportOK(call) /\ call.next \in 1 .. Len(Legacy) + 1
        /\ call.by = Importer /\ call.by \in Users
    BY <1>1, <1>3, TheCall DEF CallOK, ImportOK, Call
  <1>5. /\ call.next \in 1 .. Len(Legacy) /\ call.next <= Sent /\ call.next + 1 \in 1 .. Len(Legacy) + 1
        /\ call.next # 0
    BY <1>3, <1>4, SentFits DEF ImportOK
  <1>6. row = [by |-> call.by, who |-> Null, status |-> "TODO", due |-> Null, completed |-> FALSE,
               legacy |-> call.next]
    BY <1>2, <1>3 DEF Inserted
  <1>7. /\ row \in Task /\ row # Null /\ row.legacy = call.next /\ row.by = Importer
        /\ row.due = Null
    <2>1. call.next \in 0 .. Len(Legacy)
      BY <1>5, SentFits
    <2>2. row \in Task
      BY <1>4, <1>6, <2>1 DEF Task, Statuses
    <2>3. row.legacy = call.next /\ row.by = Importer /\ row.due = Null
      BY <1>4, <1>6
    <2> QED BY <2>2, <2>3, RowAssumption
  <1>8. tasks \in [Tasks -> Task \cup {Null}]
    BY DEF IInv, TypeOK
  <1>9. tasks' \in [Tasks -> Task \cup {Null}] /\ tasks'[t] = row
        /\ \A x \in Tasks : x # t => tasks'[x] = tasks[x]
    BY <1>2, <1>7, <1>8
  <1>10. /\ moved \in Call /\ moved.op = "import" /\ moved.at = "enter" /\ moved.next = call.next + 1
         /\ moved.by = call.by /\ moved.could = call.could /\ moved.couldNot = call.couldNot
    BY <1>1, <1>3, <1>4, <1>5 DEF Call
  <1>11. PICK new, changed : new = [moved EXCEPT !.changed = changed] /\ changed = moved.changed \cup {t}
    OBVIOUS
  <1>12. changed \subseteq Comments \cup Tasks
    BY <1>2, <1>10, <1>11 DEF Call
  <1>13. /\ new \in Call /\ new.op = "import" /\ new.at = "enter" /\ new.next = call.next + 1
         /\ new.by = call.by /\ new.could = call.could /\ new.couldNot = call.couldNot
    BY <1>10, <1>11, <1>12 DEF Call
  <1>14. moved # Null
    BY <1>10, RowAssumption
  <1>15. rest \in [Slots -> Call \cup {Null}] /\ rest[c] = moved /\ rest = [calls EXCEPT ![c] = rest[c]]
    BY <1>2, <1>10 DEF To, IInv, TypeOK
  <1>16. Others(c, {t}) /\ calls'[c] = new
    BY <1>2, <1>11, <1>14, <1>15, NotedOthers
  <1>17. calls' \in [Slots -> Call \cup {Null}]
    <2>1. \A d \in Slots : calls'[d] \in Call \cup {Null}
      BY <1>2, <1>13, <1>16, NotedFit
    <2>2. calls' = [d \in Slots |-> calls'[d]]
      BY <1>2 DEF Noting
    <2> QED BY <2>1, <2>2
  <1>18. TypeOK'
    BY <1>2, <1>5, <1>9, <1>17 DEF IInv, TypeOK
  <1>19. Grown({t})
    BY <1>2, <1>9 DEF Grown
  <1>20. Modest(c) /\ PastStays /\ \A d \in Slots : SameMentions(calls[d].id)
    BY <1>2, <1>13, <1>16 DEF Modest, PastStays, SameMentions, Tells, HasComment
  <1>21. NoticesStay
    BY <1>2 DEF NoticesStay, IInv, NoticesOK
  <1>22. MentionsOK' /\ lease' \notin ended'
    BY <1>2 DEF IInv, MentionsOK
  <1>23. ArrivedOK'
    <2>1. ArrivedOK
      BY DEF IInv
    <2>2. \A x \in Tasks : tasks[x] # Null /\ tasks[x].legacy # 0 => tasks[x].legacy # call.next
      BY <1>3, <1>4, <2>1 DEF ArrivedOK, RefusedByIndex
    <2>3. \A x \in Tasks : tasks'[x] # Null /\ tasks'[x].legacy # 0 =>
              tasks'[x].by = Importer /\ tasks'[x].legacy \in arrived'
      BY <1>2, <1>7, <1>9, <2>1 DEF ArrivedOK
    <2>4. ASSUME NEW x \in Tasks, NEW y \in Tasks, tasks'[x] # Null, tasks'[y] # Null,
                 tasks'[x].legacy # 0, tasks'[x].legacy = tasks'[y].legacy
          PROVE  x = y
      BY <1>7, <1>9, <2>1, <2>2, <2>4 DEF ArrivedOK
    <2>5. \A i \in 1 .. Len(Legacy) : ~local' /\ i <= Sent => i \in arrived'
      BY <1>2, <2>1 DEF ArrivedOK
    <2> QED BY <2>3, <2>4, <2>5 DEF ArrivedOK, Sent
  <1>24. ImportOK(new)'
    BY <1>2, <1>4, <1>5, <1>13, SentFits DEF ImportOK, Sent
  <1>25. CallOK(new)'
    BY <1>2, <1>4, <1>13, <1>24 DEF CallOK
  <1>26. CallOK(calls[c])'
    <2>1. PICK same : same = new /\ same = calls'[c]
      BY <1>16
    <2>2. CallOK(same)'
      BY <1>25, <2>1
    <2>3. CallOK(calls[c])' = CallOK(same)'
      BY <2>1 DEF CallOK, CommentOK, ListOK, ImportOK, MustTell
    <2> QED BY <2>2, <2>3
  <1> QED BY <1>16, <1>18, <1>19, <1>20, <1>21, <1>22, <1>23, <1>26, Assembled

-----------------------------------------------------------------------------
(* The invariant holds.                                                     *)

LEMMA InitHolds == Init => IInv
  <1> SUFFICES ASSUME Init PROVE IInv
    OBVIOUS
  <1>1. /\ scene \in Scenarios /\ left = scene.calls /\ readers = Users
        /\ lease \in Leases \cup {Null} /\ ended = {} /\ comments = [k \in Comments |-> Null]
        /\ mentions = {} /\ notices = {} /\ tasks = [t \in Tasks |-> Null]
        /\ phase = [d \in Dates |-> "far"] /\ local = TRUE /\ migrating = FALSE
        /\ calls = [c \in Slots |-> Null] /\ made = {} /\ arrived = {}
    BY DEF Init
  <1>2. scene.calls \in Nat
    BY <1>1, NoticesAssumption
  <1>3. TypeOK
    <2>1. left \in 0 .. scene.calls /\ scene \in Scenarios
      BY <1>1, <1>2
    <2>2. /\ comments \in [Comments -> Comment \cup {Null}] /\ tasks \in [Tasks -> Task \cup {Null}]
          /\ calls \in [Slots -> Call \cup {Null}] /\ phase \in [Dates -> {"far", "soon", "past"}]
      BY <1>1
    <2>3. /\ readers \subseteq Users /\ lease \in Leases \cup {Null} /\ mentions \subseteq Comments \X Users
          /\ notices \subseteq Notice /\ local \in BOOLEAN /\ migrating \in BOOLEAN
          /\ made \subseteq Users \X Cause /\ ended \subseteq Leases /\ arrived \subseteq 1 .. Len(Legacy)
      BY <1>1
    <2> QED BY <2>1, <2>2, <2>3 DEF TypeOK
  <1>4. CallsOK /\ CommentsApart
    BY <1>1 DEF CallsOK, CommentsApart
  <1>5. NoticesOK /\ MadeOK /\ MentionsOK /\ ArrivedOK
    BY <1>1 DEF NoticesOK, MadeOK, MentionsOK, ArrivedOK
  <1> QED BY <1>1, <1>3, <1>4, <1>5 DEF IInv

LEMMA StepKeeps == ASSUME IInv, NEW c \in Slots, Step(c) PROVE IInv'
  <1>1. CASE SendComment(c) \/ SendResolve(c) \/ SendTakeover(c) \/ SendList(c) \/ SendCreate(c)
                \/ SendChange(c) \/ SendImport(c)
    BY <1>1, SendCommentStep, SendResolveStep, SendPlainStep, SendCreateStep, SendChangeStep
  <1>2. CASE EnterComment(c) \/ CheckParent(c) \/ InsertComment(c) \/ ParseMention(c) \/ Mention(c)
    BY <1>2, EnterCommentStep, CheckParentStep, InsertCommentStep, ParseMentionStep, MentionStep
  <1>3. CASE EnterResolve(c) \/ EnterTakeover(c) \/ EnterCreate(c) \/ Resolve(c) \/ ReadLease(c)
                \/ TellOwner(c)
    BY <1>3, EnterStep, ResolveStep, ReadLeaseStep, TellOwnerStep
  <1>4. CASE EnterList(c) \/ TellDue(c) \/ CheckRow(c) \/ Answer(c) \/ Die(c)
    BY <1>4, EnterListStep, TellDueStep, CheckRowStep, DieStep
  <1>5. CASE InsertTask(c) \/ EnterChange(c) \/ UpdateTask(c) \/ DeleteTask(c)
    BY <1>5, InsertTaskStep, EnterChangeStep, UpdateTaskStep, DeleteTaskStep
  <1>6. CASE LookForImported(c) \/ InsertImported(c) \/ FailImport(c) \/ EndImport(c)
    BY <1>6, LookForImportedStep, InsertImportedStep, ImportEndStep
  <1> QED BY <1>1, <1>2, <1>3, <1>4, <1>5, <1>6 DEF Step

LEMMA StutterKeeps == ASSUME IInv, UNCHANGED vars PROVE IInv'
  <1>1. PICK c \in Slots : TRUE
    BY NoticesAssumption
  <1>2. UNCHANGED <<scene, left, readers, lease, ended, comments, mentions, notices, tasks, phase, local,
                    migrating, calls, made, arrived>>
    BY DEF vars, History
  <1>3. /\ Grown({}) /\ PastStays /\ MentionsOK' /\ ArrivedOK' /\ NoticesStay /\ lease' \notin ended'
        /\ TypeOK'
    BY <1>2 DEF Grown, PastStays, IInv, MentionsOK, ArrivedOK, Sent, NoticesStay, NoticesOK, TypeOK
  <1>4. \A d \in Slots :
               calls'[d] = IF calls[d] = Null THEN Null
                           ELSE [calls[d] EXCEPT !.changed = calls[d].changed \cup {}]
    BY <1>2, NothingAdded DEF IInv, TypeOK
  <1> QED BY <1>2, <1>3, <1>4, NobodyMoves

LEMMA NextKeeps == IInv /\ [Next]_vars => IInv'
  <1> SUFFICES ASSUME IInv, [Next]_vars PROVE IInv'
    OBVIOUS
  <1>1. CASE \E c \in Slots : Step(c)
    BY <1>1, StepKeeps
  <1>2. CASE ReadOne \/ ReadAll
    BY <1>2, ReadStep DEF ReadOne, ReadAll
  <1>3. CASE LoadPage \/ ChangeLease \/ Age
    BY <1>3, LoadPageStep, ChangeLeaseStep, AgeStep
  <1>4. CASE (\E u \in Users : ChangeAccess(u)) \/ (\E d \in Dates : Tick(d))
    BY <1>4, ChangeAccessStep, TickStep
  <1>5. CASE UNCHANGED vars
    BY <1>5, StutterKeeps
  <1> QED BY <1>1, <1>2, <1>3, <1>4, <1>5 DEF Next

\* The invariant of the handlers of comments, tasks and notifications: what a call under way
\* relies on holds whatever the other calls, the deaths and the clock do between two statements.
THEOREM NoticesInductive == Spec => []IInv
  <1>1. Init => IInv
    BY InitHolds
  <1>2. IInv /\ [Next]_vars => IInv'
    BY NextKeeps
  <1> QED BY <1>1, <1>2, PTL DEF Spec

\* The rows of the tables and the calls under way keep their types.
THEOREM NoticesTypeCorrect == Spec => []TypeOK
  <1>1. IInv => TypeOK
    BY DEF IInv
  <1> QED BY <1>1, NoticesInductive, PTL

-----------------------------------------------------------------------------
(* What the users see.                                                      *)

\* handleComments tells everybody a comment mentions who could read the file all the while,
\* and nobody who could not at any time, however access changes between its statements.
THEOREM EveryMentionIsTold == Spec => []MentionsAreTold
  <1>1. IInv => MentionsAreTold
    <2> SUFFICES ASSUME IInv, NEW c \in Slots, Is(c, {"comment"}), At(c, "answer")
                 PROVE  LET call == calls[c]
                            told == {u \in Users : <<call.id, u>> \in mentions
                                        /\ <<u, [type |-> "comment", of |-> call.id]>> \in made}
                        IN /\ (call.asked \ {call.by}) \ call.couldNot \subseteq told
                           /\ told \subseteq call.asked \cap call.could
      BY DEF MentionsAreTold
    <2>1. PICK call : call = calls[c]
      OBVIOUS
    <2>2. call # Null /\ call.op = "comment" /\ call.at = "answer"
      BY <2>1 DEF Is, At
    <2>3. CommentOK(call)
      BY <2>1, <2>2, TheCall DEF CallOK
    <2>4. MustTell(call) \subseteq ToldOf(call.id) /\ Mentioned(call.id) \subseteq call.asked \cap call.could
      BY <2>2, <2>3 DEF CommentOK
    <2> QED BY <2>1, <2>4 DEF MustTell, ToldOf, Mentioned
  <1> QED BY <1>1, NoticesInductive, PTL

\* A listing has told its user of each of his tasks that is due within a day and stayed so.
THEOREM EveryDueTaskIsTold == Spec => []DueIsTold
  <1>1. IInv => DueIsTold
    <2> SUFFICES ASSUME IInv, NEW c \in Slots, Is(c, {"list"}), At(c, "answer"),
                        NEW t \in DueOf(calls[c].by) \ calls[c].changed
                 PROVE  <<calls[c].by, [type |-> "due", of |-> t, on |-> tasks[t].due]>> \in made
      BY DEF DueIsTold
    <2>1. calls[c] # Null /\ calls[c].op = "list" /\ calls[c].at = "answer"
      BY DEF Is, At
    <2>2. ListOK(calls[c])
      BY <2>1, TheCall DEF CallOK
    <2> QED BY <2>1, <2>2 DEF ListOK, Due
  <1> QED BY <1>1, NoticesInductive, PTL

\* A task of the desktop is on the server once at most, however many imports run together and
\* are repeated, and the desktop forgets its tasks only when each it sent has arrived.
THEOREM ImportsAreExact == Spec => []ImportIsExact
  <1>1. IInv => ImportIsExact
    <2> SUFFICES ASSUME IInv, NEW i \in 1 .. Len(Legacy)
                 PROVE  Cardinality(Imported(i)) <= 1 /\ (~local /\ i <= Sent => i \in arrived)
      BY DEF ImportIsExact
    <2>1. \A t, x \in Imported(i) : t = x
      BY SentFits DEF IInv, ArrivedOK, Imported
    <2>2. Cardinality(Imported(i)) <= 1
      <3>1. CASE Imported(i) = {}
        BY <3>1, FS_EmptySet
      <3>2. CASE Imported(i) # {}
        <4>1. PICK t : Imported(i) = {t}
          BY <2>1, <3>2
        <4>2. Cardinality({t}) = 1
          BY FS_Singleton
        <4>3. Cardinality(Imported(i)) = 1
          BY <4>1, <4>2
        <4> QED BY <4>3
      <3> QED BY <3>1, <3>2
    <2>3. ~local /\ i <= Sent => i \in arrived
      BY DEF IInv, ArrivedOK
    <2> QED BY <2>2, <2>3
  <1> QED BY <1>1, NoticesInductive, PTL

\* A notification is one that was there, or a call under way was to tell of its cause.
LEMMA WhoTold ==
    ASSUME IInv, Next, NEW n \in notices'
    PROVE  \/ \E m \in notices : m.to = n.to /\ m.cause = n.cause /\ m.event = n.event
           \/ \E c \in Slots : calls[c] # Null /\ Tells(calls[c], n.cause)
  <1>1. CASE notices' \subseteq notices
    BY <1>1
  <1>2. ASSUME NEW c \in Slots, NEW u, NEW cause, Tell(c, u, cause), calls[c] # Null, Tells(calls[c], cause)
        PROVE  \/ n \in notices
               \/ \E d \in Slots : calls[d] # Null /\ Tells(calls[d], n.cause)
    BY <1>2 DEF Tell, Told
  <1>3. ASSUME NEW c \in Slots, Mention(c) \/ TellOwner(c) \/ TellDue(c)
        PROVE  \/ n \in notices
               \/ \E d \in Slots : calls[d] # Null /\ Tells(calls[d], n.cause)
    <2>1. ASSUME Mention(c), n \notin notices
          PROVE  \E d \in Slots : calls[d] # Null /\ Tells(calls[d], n.cause)
      <3>1. PICK u : Tell(c, u, [type |-> "comment", of |-> calls[c].id])
        BY <2>1 DEF Mention, Check, Store
      <3>2. PICK cause : cause = [type |-> "comment", of |-> calls[c].id]
        OBVIOUS
      <3>3. calls[c] # Null /\ Tells(calls[c], cause)
        BY <2>1, <3>2 DEF Mention, Is, At, Tells
      <3> QED BY <2>1, <3>1, <3>2, <3>3, <1>2
    <2>2. ASSUME TellOwner(c)
          PROVE  \/ n \in notices
                 \/ \E d \in Slots : calls[d] # Null /\ Tells(calls[d], n.cause)
      <3>1. PICK cause : cause = [type |-> "takeover", of |-> calls[c].id, by |-> calls[c].by]
        OBVIOUS
      <3>2. calls[c] # Null /\ Tells(calls[c], cause) /\ Tell(c, Owner[calls[c].id], cause)
        BY <2>2, <3>1 DEF TellOwner, Is, At, Tells
      <3> QED BY <3>2, <1>2
    <2>3. ASSUME TellDue(c), n \notin notices
          PROVE  \E d \in Slots : calls[d] # Null /\ Tells(calls[d], n.cause)
      <3>1. PICK cause \in calls[c].todo : Tell(c, calls[c].by, cause)
        BY <2>3 DEF TellDue, Check, Store
      <3>2. calls[c] # Null /\ Tells(calls[c], cause)
        BY <2>3, <3>1 DEF TellDue, Is, At, Tells
      <3> QED BY <2>3, <3>1, <3>2, <1>2
    <2> QED BY <1>3, <2>1, <2>2, <2>3
  <1>4. CASE \E c \in Slots : SendComment(c) \/ SendResolve(c) \/ SendTakeover(c) \/ SendList(c)
                \/ SendCreate(c) \/ SendChange(c) \/ SendImport(c)
    BY <1>4, <1>1 DEF SendComment, SendResolve, SendTakeover, SendList, SendCreate, SendChange,
                      SendImport, Send, Store
  <1>5. CASE \E c \in Slots : EnterComment(c) \/ CheckParent(c) \/ ParseMention(c) \/ EnterResolve(c)
                \/ EnterTakeover(c) \/ ReadLease(c) \/ CheckRow(c) \/ Answer(c) \/ EnterCreate(c)
                \/ EnterChange(c) \/ LookForImported(c)
    <2>1. UNCHANGED Store
      BY <1>5 DEF EnterComment, CheckParent, ParseMention, EnterResolve, EnterTakeover, ReadLease,
                  CheckRow, Answer, EnterCreate, EnterChange, LookForImported, Check
    <2> QED BY <2>1, <1>1 DEF Store
  <1>6. CASE \E c \in Slots : InsertComment(c) \/ Resolve(c) \/ EnterList(c) \/ InsertTask(c)
                \/ UpdateTask(c) \/ DeleteTask(c) \/ InsertImported(c) \/ FailImport(c) \/ EndImport(c)
                \/ Die(c)
    BY <1>6, <1>1 DEF InsertComment, Resolve, EnterList, InsertTask, UpdateTask, DeleteTask,
                      InsertImported, FailImport, EndImport, Die, Store
  <1>7. CASE LoadPage \/ ChangeLease \/ (\E u \in Users : ChangeAccess(u)) \/ (\E d \in Dates : Tick(d))
    BY <1>7, <1>1 DEF LoadPage, ChangeLease, ChangeAccess, Tick, Store
  <1>8. CASE ReadOne \/ ReadAll
    <2>1. PICK u, which : Read(u, which)
      BY <1>8 DEF ReadOne, ReadAll
    <2>2. \A m \in which : LET x == [m EXCEPT !.read = TRUE]
                           IN  x.to = m.to /\ x.cause = m.cause /\ x.event = m.event
      BY <2>1 DEF Read, IInv, TypeOK, Notice
    <2> QED BY <2>1, <2>2 DEF Read
  <1>9. CASE Age
    <2>1. PICK m \in notices : notices' = (notices \ {m}) \cup {[m EXCEPT !.old = TRUE]}
      BY <1>9 DEF Age
    <2>2. LET x == [m EXCEPT !.old = TRUE]
          IN  x.to = m.to /\ x.cause = m.cause /\ x.event = m.event
      BY DEF IInv, TypeOK, Notice
    <2> QED BY <2>1, <2>2
  <1> QED BY <1>1, <1>3, <1>4, <1>5, <1>6, <1>7, <1>8, <1>9 DEF Next, Step

\* createNotification makes one notification for a user and a cause, ever: also after it was
\* read or pruned, and when several calls find the same thing at once.
THEOREM NobodyIsToldTwice == Spec => ToldOnce
  <1>1. IInv /\ IInv' /\ [Next]_vars =>
            [\A n \in notices' : (\A m \in notices : <<m.to, m.cause>> # <<n.to, n.cause>>
                                     \/ m.event # n.event) => <<n.to, n.cause>> \notin made]_vars
    <2> SUFFICES ASSUME IInv, IInv', Next, NEW n \in notices',
                        \A m \in notices : <<m.to, m.cause>> # <<n.to, n.cause>> \/ m.event # n.event,
                        <<n.to, n.cause>> \in made
                 PROVE  FALSE
      OBVIOUS
    <2>1. PICK c \in Slots : calls[c] # Null /\ Tells(calls[c], n.cause)
      BY WhoTold
    <2>2. n.to \in Users /\ n.cause \in Cause
      BY DEF IInv, TypeOK, Notice
    <2>3. n.event = n.cause
      BY DEF IInv, NoticesOK
    <2>4. \A m \in notices : m.event = m.cause
      BY DEF IInv, NoticesOK
    <2>5. ~\E m \in notices : m.to = n.to /\ m.cause = n.cause
      BY <2>3, <2>4
    <2>6. Over(n.cause)
      BY <2>2, <2>5 DEF IInv, MadeOK
    <2> QED BY <2>1, <2>6 DEF Over
  <1> QED BY <1>1, NoticesInductive, PTL DEF Spec, ToldOnce

\* handleComments refuses an answer to a resolved comment: when one gets in nevertheless, it
\* was resolved after the answer had been sent.
THEOREM AnswersToResolved == Spec => ResolvedIsClosed
  <1>1. IInv /\ [Next]_vars =>
            [\A k \in Comments : comments[k] = Null /\ comments'[k] # Null =>
                 LET parent == comments'[k].parent
                 IN parent # Null /\ comments[parent].resolved =>
                        \E c \in Slots : Is(c, {"comment"}) /\ parent \in calls[c].changed]_vars
    <2> SUFFICES ASSUME IInv, Next, NEW k \in Comments, comments[k] = Null, comments'[k] # Null,
                        comments'[k].parent # Null, comments[comments'[k].parent].resolved
                 PROVE  \E c \in Slots : Is(c, {"comment"}) /\ comments'[k].parent \in calls[c].changed
      OBVIOUS
    <2>1. comments' # comments
      OBVIOUS
    <2>2. \E c \in Slots : InsertComment(c) \/ Resolve(c)
      <3>1. CASE \E c \in Slots : SendComment(c) \/ SendResolve(c) \/ SendTakeover(c) \/ SendList(c)
                    \/ SendCreate(c) \/ SendChange(c) \/ SendImport(c)
        BY <3>1, <2>1 DEF SendComment, SendResolve, SendTakeover, SendList, SendCreate, SendChange,
                          SendImport, Send, Store
      <3>2. CASE \E c \in Slots : EnterComment(c) \/ CheckParent(c) \/ ParseMention(c) \/ EnterResolve(c)
                    \/ EnterTakeover(c) \/ ReadLease(c) \/ CheckRow(c) \/ Answer(c) \/ EnterCreate(c)
                    \/ EnterChange(c) \/ LookForImported(c)
        <4>1. UNCHANGED Store
          BY <3>2 DEF EnterComment, CheckParent, ParseMention, EnterResolve, EnterTakeover, ReadLease,
                      CheckRow, Answer, EnterCreate, EnterChange, LookForImported, Check
        <4> QED BY <4>1, <2>1 DEF Store
      <3>3. CASE \E c \in Slots : Mention(c) \/ TellOwner(c) \/ TellDue(c)
        BY <3>3, <2>1 DEF Mention, TellOwner, TellDue, Check, Store
      <3>4. CASE \E c \in Slots : EnterList(c) \/ InsertTask(c)
                    \/ UpdateTask(c) \/ DeleteTask(c) \/ InsertImported(c) \/ FailImport(c) \/ EndImport(c)
                    \/ Die(c)
        BY <3>4, <2>1 DEF EnterList, InsertTask, UpdateTask, DeleteTask,
                          InsertImported, FailImport, EndImport, Die, Store
      <3>5. CASE LoadPage \/ ChangeLease \/ (\E u \in Users : ChangeAccess(u)) \/ (\E d \in Dates : Tick(d))
        BY <3>5, <2>1 DEF LoadPage, ChangeLease, ChangeAccess, Tick, Store
      <3>6. CASE ReadOne \/ ReadAll \/ Age
        BY <3>6, <2>1 DEF ReadOne, ReadAll, Read, Age
      <3> QED BY <3>1, <3>2, <3>3, <3>4, <3>5, <3>6 DEF Next, Step
    <2>3. PICK c \in Slots : InsertComment(c) \/ Resolve(c)
      BY <2>2
    <2>4. PICK call : call = calls[c]
      OBVIOUS
    <2>5. comments \in [Comments -> Comment \cup {Null}]
      BY DEF IInv, TypeOK
    <2>6. CASE InsertComment(c)
      <3>1. PICK j \in Comments :
                comments' = [comments EXCEPT ![j] = [by |-> call.by, parent |-> call.parent, resolved |-> FALSE]]
        BY <2>4, <2>6 DEF InsertComment
      <3>2. comments'[k].parent = call.parent
        BY <2>5, <3>1
      <3>3. call # Null /\ call.op = "comment" /\ call.at = "write"
        BY <2>4, <2>6 DEF InsertComment, Is, At
      <3>4. CommentOK(call)
        BY <2>4, <3>3, TheCall DEF CallOK
      <3>5. call.parent \in call.changed
        BY <3>2, <3>3, <3>4 DEF CommentOK
      <3> QED BY <2>4, <3>2, <3>3, <3>5 DEF Is
    <2>7. CASE Resolve(c)
      <3>1. call # Null /\ call.op \in {"resolve", "reopen"}
        BY <2>4, <2>7 DEF Resolve, Is
      <3>2. call.id \in Comments /\ comments[call.id] # Null
        BY <2>4, <3>1, TheCall DEF CallOK
      <3>3. comments' = [comments EXCEPT ![call.id].resolved = (call.op = "resolve")]
        BY <2>4, <2>7 DEF Resolve
      <3>4. comments'[k] = comments[k]
        BY <2>5, <3>2, <3>3
      <3> QED BY <3>4
    <2> QED BY <2>3, <2>6, <2>7
  <1> QED BY <1>1, NoticesInductive, PTL DEF Spec, ResolvedIsClosed

-----------------------------------------------------------------------------
(* Rewind: the items of an operation and the versions of a file.            *)

LEMMA ItemParts ==
    /\ \A i \in Items : /\ i[1] \in Files /\ i = <<i[1], i[2]>>
                        /\ i[2] \in {"NOOP", "RESTORE_PATH", "RESTORE_STATUS", "RESTORE_VERSION", "TRASH_NEW"}
    /\ \A f \in Files : /\ <<f, "RESTORE_PATH">> \in Items /\ <<f, "RESTORE_STATUS">> \in Items
                        /\ <<f, "RESTORE_VERSION">> \in Items /\ <<f, "TRASH_NEW">> \in Items
                        /\ <<f, "NOOP">> \in Items
  <1>1. {Actions[i] : i \in DOMAIN Actions}
            = {"NOOP", "RESTORE_PATH", "RESTORE_STATUS", "RESTORE_VERSION", "TRASH_NEW"}
    <2>1. DOMAIN Actions = 1 .. 5
      BY DEF Actions
    <2>2. /\ Actions[1] = "NOOP" /\ Actions[2] = "RESTORE_PATH" /\ Actions[3] = "RESTORE_STATUS"
          /\ Actions[4] = "RESTORE_VERSION" /\ Actions[5] = "TRASH_NEW"
      BY DEF Actions
    <2>3. \A i \in 1 .. 5 : i = 1 \/ i = 2 \/ i = 3 \/ i = 4 \/ i = 5
      OBVIOUS
    <2> HIDE DEF Actions
    <2> QED BY <2>1, <2>2, <2>3
  <1> QED BY <1>1 DEF Items

\* An append is one version more.
LEMMA Appended ==
    ASSUME NEW s \in Seq(Nat), NEW x \in Nat
    PROVE  /\ Append(s, x) \in Seq(Nat) /\ Len(Append(s, x)) = Len(s) + 1
           /\ DOMAIN s = 1 .. Len(s) /\ Len(s) \in Nat
           /\ \A n \in DOMAIN s : n \in DOMAIN Append(s, x) /\ Append(s, x)[n] = s[n]
  OBVIOUS

\* A version with the next number is appended.
LEMMA NextNumber ==
    ASSUME NEW s \in Seq(Nat), NEW x \in Nat, NEW n \in Nat, n \notin DOMAIN s, 1 <= n, n <= Len(s) + 1
    PROVE  n = Len(s) + 1 /\ [k \in DOMAIN s \cup {n} |-> IF k = n THEN x ELSE s[k]] = Append(s, x)
  <1>1. DOMAIN s = 1 .. Len(s) /\ Len(s) \in Nat
    OBVIOUS
  <1>2. n = Len(s) + 1
    BY <1>1
  <1>3. DOMAIN s \cup {n} = 1 .. Len(s) + 1
    BY <1>1, <1>2
  <1>4. /\ DOMAIN Append(s, x) = 1 .. Len(s) + 1
        /\ \A k \in 1 .. Len(s) + 1 : Append(s, x)[k] = IF k = n THEN x ELSE s[k]
    BY <1>2
  <1>5. Append(s, x) = [k \in 1 .. Len(s) + 1 |-> Append(s, x)[k]]
    <2>1. Append(s, x) \in [1 .. Len(s) + 1 -> Nat]
      BY Appended, LenProperties
    <2> QED BY <2>1
  <1>6. [k \in 1 .. Len(s) + 1 |-> Append(s, x)[k]] = [k \in 1 .. Len(s) + 1 |-> IF k = n THEN x ELSE s[k]]
    BY <1>4
  <1> QED BY <1>2, <1>3, <1>5, <1>6

-----------------------------------------------------------------------------
(* What an executor and people do to the rows.                              *)

\* Rows and versions only come to be, and versions are only appended.
RowsGrow ==
    /\ UNCHANGED snap
    /\ files' \in [Files -> FileRow \cup {Nothing}] /\ versions' \in [Files -> Seq(Nat)]
    /\ \A f \in Files :
           /\ files[f] # Nothing => files'[f] # Nothing
           /\ Len(versions[f]) <= Len(versions'[f])
           /\ \A n \in DOMAIN versions[f] : n \in DOMAIN versions'[f] /\ versions'[f][n] = versions[f][n]
           /\ files'[f] = Nothing => versions'[f] = <<>>
           /\ files'[f] # Nothing => files'[f].version = Len(versions'[f])
           /\ busy'[f] => files'[f] # Nothing

\* The items that are there stay, and the operation.
ItemsStay ==
    /\ operation' \in {Nothing, "PLANNED", "RUNNING"} \cup Outcomes
    /\ operation # Nothing => operation' # Nothing
    /\ items' \in [Items -> {"none", "PENDING", "RUNNING", "DONE", "FAILED"}]
    /\ \A i \in Items : items[i] # "none" => items'[i] # "none"
    /\ \A i \in Items : items'[i] # "none" => operation' # Nothing /\ CanBePlanned(i)

LEMMA RowsHold ==
    ASSUME RewindIInv, RowsGrow, ItemsStay PROVE VersionsOK' /\ ItemsOK'
  <1>1. VersionsOK'
    <2> SUFFICES ASSUME NEW f \in Files
                 PROVE  /\ files'[f] = Nothing => versions'[f] = <<>>
                        /\ files'[f] # Nothing => files'[f].version = Len(versions'[f])
                        /\ snap'[f] # Nothing => files'[f] # Nothing /\ snap'[f].version \in 1 .. Len(versions'[f])
                        /\ busy'[f] => files'[f] # Nothing
      BY DEF VersionsOK
    <2>1. snap[f] # Nothing => files[f] # Nothing /\ snap[f].version \in 1 .. Len(versions[f])
      BY DEF RewindIInv, VersionsOK
    <2>2. Len(versions[f]) \in Nat /\ Len(versions'[f]) \in Nat
      BY DEF RewindIInv, RewindTypeOK, RowsGrow
    <2> QED BY <2>1, <2>2 DEF RowsGrow
  <1>2. \A i : i[1] \in Files /\ CanBePlanned(i) => CanBePlanned(i)'
    BY DEF CanBePlanned, RowsGrow
  <1>3. ItemsOK'
    BY <1>2, ItemParts DEF ItemsOK, ItemsStay
  <1> QED BY <1>1, <1>3

\* An executor that waits meanwhile.
LEMMA OtherExec ==
    ASSUME RewindIInv, RowsGrow, ItemsStay, NEW d \in Execs, execs'[d] = execs[d]
    PROVE  ExecOK(execs[d])'
  <1>1. PICK exec : exec = execs[d]
    OBVIOUS
  <1>2. exec \in Exec /\ ExecOK(exec) /\ exec = execs'[d]
    BY <1>1 DEF RewindIInv, RewindTypeOK
  <1>3. exec.todo \subseteq Items /\ (exec.read \in FileRow => exec.read.version \in Nat)
    BY <1>2 DEF Exec, FileRow
  <1>4. \A i : i[1] \in Files /\ CanBePlanned(i) => CanBePlanned(i)'
    BY DEF CanBePlanned, RowsGrow
  <1>5. exec.pc = "insert" => \A i \in exec.todo : CanBePlanned(i)'
    BY <1>2, <1>3, <1>4, ItemParts DEF ExecOK
  <1>6. exec.pc \in {"item", "read", "write", "fail"} => \A i \in exec.todo : items'[i] # "none"
    BY <1>2, <1>3 DEF ExecOK, ItemsStay
  <1>7. exec.pc \in {"read", "write", "fail"} =>
            exec.item \in Items /\ items'[exec.item] # "none" /\ exec.item[2] # "NOOP"
    BY <1>2 DEF ExecOK, ItemsStay
  <1>8. exec.pc = "write" => exec.read \in FileRow /\ exec.read.version <= Len(versions'[exec.item[1]])
    <2> SUFFICES ASSUME exec.pc = "write"
                 PROVE  exec.read \in FileRow /\ exec.read.version <= Len(versions'[exec.item[1]])
      OBVIOUS
    <2>1. exec.item \in Items /\ exec.read \in FileRow /\ exec.read.version <= Len(versions[exec.item[1]])
      BY <1>2 DEF ExecOK
    <2>2. exec.item[1] \in Files
      BY <2>1, ItemParts
    <2>3. /\ Len(versions[exec.item[1]]) <= Len(versions'[exec.item[1]])
          /\ Len(versions[exec.item[1]]) \in Nat /\ Len(versions'[exec.item[1]]) \in Nat
      BY <2>2 DEF RowsGrow, RewindIInv, RewindTypeOK
    <2> QED BY <1>3, <2>1, <2>3
  <1>9. /\ exec.pc \notin {"idle", "insert"} => operation' # Nothing
        /\ exec.pc = "finish" => exec.status \in Outcomes
    BY <1>2 DEF ExecOK, ItemsStay
  <1>10. ExecOK(exec)'
    BY <1>5, <1>6, <1>7, <1>8, <1>9 DEF ExecOK
  <1>11. PICK same : same = exec /\ same = execs'[d]
    BY <1>2
  <1>12. ExecOK(same)'
    BY <1>10, <1>11
  <1>13. ExecOK(execs[d])' = ExecOK(same)'
    BY <1>11 DEF ExecOK, CanBePlanned
  <1> QED BY <1>12, <1>13

\* An executor goes on as new, the others wait.
LEMMA ExecStep ==
    ASSUME RewindIInv, RowsGrow, ItemsStay, busy' \in [Files -> BOOLEAN], touched' \subseteq Files,
           NEW e \in Execs, NEW new \in Exec, execs' = [execs EXCEPT ![e] = new], ExecOK(new)'
    PROVE  RewindIInv'
  <1>1. /\ execs' \in [Execs -> Exec] /\ execs'[e] = new
        /\ \A d \in Execs : d # e => execs'[d] = execs[d]
    BY DEF RewindIInv, RewindTypeOK
  <1>2. RewindTypeOK'
    BY <1>1 DEF RewindIInv, RewindTypeOK, RowsGrow, ItemsStay
  <1>3. ASSUME NEW d \in Execs, d # e PROVE ExecOK(execs[d])'
    BY <1>1, <1>3, OtherExec
  <1>4. ExecOK(execs[e])'
    <2>1. PICK same : same = new /\ same = execs'[e]
      BY <1>1
    <2>2. ExecOK(same)'
      BY <2>1
    <2>3. ExecOK(execs[e])' = ExecOK(same)'
      BY <2>1 DEF ExecOK, CanBePlanned
    <2> QED BY <2>2, <2>3
  <1> QED BY <1>2, <1>3, <1>4, RowsHold DEF RewindIInv

LEMMA NoExecMoves ==
    ASSUME RewindIInv, RowsGrow, ItemsStay, busy' \in [Files -> BOOLEAN], touched' \subseteq Files,
           UNCHANGED execs
    PROVE  RewindIInv'
  <1>1. RewindTypeOK'
    BY DEF RewindIInv, RewindTypeOK, RowsGrow, ItemsStay
  <1>2. \A d \in Execs : ExecOK(execs[d])'
    BY OtherExec
  <1> QED BY <1>1, <1>2, RowsHold DEF RewindIInv

-----------------------------------------------------------------------------
(* People.                                                                  *)

\* One row is written, with the versions of its file.
LEMMA OneRow ==
    ASSUME RewindIInv, UNCHANGED snap, NEW f \in Files, \A g \in Files : g # f /\ busy'[g] => busy[g], NEW row \in FileRow, NEW list \in Seq(Nat),
           files' = [files EXCEPT ![f] = row], versions' = [versions EXCEPT ![f] = list],
           row.version = Len(list), Len(versions[f]) <= Len(list),
           \A n \in DOMAIN versions[f] : n \in DOMAIN list /\ list[n] = versions[f][n]
    PROVE  RowsGrow
  <1>1. /\ files \in [Files -> FileRow \cup {Nothing}] /\ versions \in [Files -> Seq(Nat)]
        /\ \A g \in Files : versions[g] \in Seq(Nat) /\ Len(versions[g]) \in Nat
    BY DEF RewindIInv, RewindTypeOK
  <1>2. /\ files' \in [Files -> FileRow \cup {Nothing}] /\ versions' \in [Files -> Seq(Nat)]
        /\ files'[f] = row /\ versions'[f] = list /\ row # Nothing
        /\ \A g \in Files : g # f => files'[g] = files[g] /\ versions'[g] = versions[g]
    BY <1>1, NothingAssumption
  <1>3. \A g \in Files : /\ files[g] = Nothing => versions[g] = <<>>
                         /\ files[g] # Nothing => files[g].version = Len(versions[g])
                         /\ busy[g] => files[g] # Nothing
    BY DEF RewindIInv, VersionsOK
  <1> HIDE DEF RowsGrow
  <1>4. ASSUME NEW g \in Files
        PROVE  /\ files[g] # Nothing => files'[g] # Nothing
               /\ Len(versions[g]) <= Len(versions'[g])
               /\ \A n \in DOMAIN versions[g] : n \in DOMAIN versions'[g] /\ versions'[g][n] = versions[g][n]
               /\ files'[g] = Nothing => versions'[g] = <<>>
               /\ files'[g] # Nothing => files'[g].version = Len(versions'[g])
               /\ busy'[g] => files'[g] # Nothing
    <2>1. CASE g = f
      BY <1>2, <2>1
    <2>2. CASE g # f
      <3>1. files'[g] = files[g] /\ versions'[g] = versions[g]
        BY <1>2, <2>2
      <3>2. Len(versions[g]) <= Len(versions[g])
        BY <1>1
      <3> QED BY <1>3, <2>2, <3>1, <3>2
    <2> QED BY <2>1, <2>2
  <1> QED BY <1>2, <1>4 DEF RowsGrow

\* A row is written that leaves the versions alone.
LEMMA RowOnly ==
    ASSUME RewindIInv, UNCHANGED <<snap, versions>>, NEW f \in Files,
           \A g \in Files : g # f /\ busy'[g] => busy[g], NEW row \in FileRow,
           files' = [files EXCEPT ![f] = row], row.version = Len(versions[f])
    PROVE  RowsGrow
  <1>1. versions[f] \in Seq(Nat) /\ versions \in [Files -> Seq(Nat)] /\ Len(versions[f]) \in Nat
    BY DEF RewindIInv, RewindTypeOK
  <1>2. versions' = [versions EXCEPT ![f] = versions[f]] /\ Len(versions[f]) <= Len(versions[f])
    BY <1>1
  <1>3. PICK list : list = versions[f]
    OBVIOUS
  <1> QED BY <1>1, <1>2, <1>3, OneRow

LEMMA NoRow ==
    ASSUME RewindIInv, UNCHANGED <<snap, versions, files>>, \A g \in Files : busy'[g] => busy[g] PROVE RowsGrow
  <1>1. /\ files \in [Files -> FileRow \cup {Nothing}] /\ versions \in [Files -> Seq(Nat)]
        /\ \A g \in Files : Len(versions[g]) \in Nat
    BY DEF RewindIInv, RewindTypeOK
  <1>2. \A g \in Files : /\ files[g] = Nothing => versions[g] = <<>>
                         /\ files[g] # Nothing => files[g].version = Len(versions[g])
                         /\ busy[g] => files[g] # Nothing
    BY DEF RewindIInv, VersionsOK
  <1>3. \A g \in Files : Len(versions[g]) <= Len(versions[g])
    BY <1>1
  <1> QED BY <1>1, <1>2, <1>3 DEF RowsGrow

LEMMA NoItem ==
    ASSUME RewindIInv, UNCHANGED <<operation, items>> PROVE ItemsStay
  BY DEF RewindIInv, RewindTypeOK, ItemsOK, ItemsStay

\* The row of a file that is there.
LEMMA RowParts ==
    ASSUME RewindIInv, NEW f \in Files
    PROVE  /\ files[f] # Nothing => files[f] \in FileRow /\ files[f].version = Len(versions[f])
           /\ files[f] = Nothing => versions[f] = <<>> /\ ~busy[f]
           /\ versions[f] \in Seq(Nat)
  BY DEF RewindIInv, RewindTypeOK, VersionsOK

\* A row with another field is a row.
LEMMA RowWith ==
    ASSUME NEW row \in FileRow
    PROVE  /\ \A p \in Paths : /\ [row EXCEPT !.path = p] \in FileRow
                               /\ [row EXCEPT !.path = p].version = row.version
           /\ \A s \in {"active", "trashed", "deleted"} :
                 /\ [row EXCEPT !.status = s] \in FileRow
                 /\ [row EXCEPT !.status = s].version = row.version
           /\ \A n \in Nat : [row EXCEPT !.version = n] \in FileRow
           /\ row.path \in Paths /\ row.status \in {"active", "trashed", "deleted"} /\ row.version \in Nat
  BY DEF FileRow

\* People change rows, and upload; they leave the operation alone.
LEMMA PeopleStep ==
    ASSUME RewindIInv, People
    PROVE  RowsGrow /\ ItemsStay /\ busy' \in [Files -> BOOLEAN] /\ touched' \subseteq Files /\ UNCHANGED execs
  <1>1. /\ files \in [Files -> FileRow \cup {Nothing}] /\ versions \in [Files -> Seq(Nat)]
        /\ busy \in [Files -> BOOLEAN] /\ touched \subseteq Files
    BY DEF RewindIInv, RewindTypeOK
  <1>2. PICK f \in Files :
            \/ \E p \in Paths : Rename(f, p) \/ Reserve(f, p)
            \/ Bin(f, "active", "trashed") \/ Bin(f, "trashed", "active") \/ Bin(f, "trashed", "deleted")
            \/ Commit(f) \/ Abandon(f)
    BY DEF People
  <1>3. UNCHANGED <<snap, operation, items, execs>>
    BY <1>2 DEF Rename, Reserve, Bin, Commit, Abandon, Write
  <1>4. touched' \subseteq Files
    BY <1>1, <1>2 DEF Rename, Reserve, Bin, Commit, Abandon, Write
  <1>5. busy' \in [Files -> BOOLEAN]
    BY <1>1, <1>2 DEF Rename, Reserve, Bin, Commit, Abandon, Write
  <1>6. \A g \in Files : g # f /\ busy'[g] => busy[g]
    BY <1>1, <1>2 DEF Rename, Reserve, Bin, Commit, Abandon, Write
  <1>7. RowsGrow
    <2>1. ASSUME NEW p \in Paths, Rename(f, p) PROVE RowsGrow
      <3>1. PICK row : row = [files[f] EXCEPT !.path = p]
        OBVIOUS
      <3>2. row \in FileRow /\ row.version = Len(versions[f])
        BY <2>1, <3>1, RowParts, RowWith DEF Rename
      <3> QED BY <1>3, <1>6, <2>1, <3>1, <3>2, RowOnly DEF Rename, Write
    <2>2. ASSUME NEW p \in Paths, Reserve(f, p) PROVE RowsGrow
      <3>1. PICK row : /\ row \in FileRow /\ row.version = Len(versions[f])
                       /\ files' = [files EXCEPT ![f] = row]
        <4>1. CASE files[f] = Nothing
          <5>1. Len(versions[f]) = 0
            BY <4>1, RowParts
          <5>2. [path |-> p, status |-> "active", version |-> 0] \in FileRow
            BY DEF FileRow
          <5> QED BY <2>2, <4>1, <5>1, <5>2 DEF Reserve, Write
        <4>2. CASE files[f] # Nothing
          BY <2>2, <4>2, RowParts DEF Reserve, Write
        <4> QED BY <4>1, <4>2
      <3>2. UNCHANGED versions
        BY <2>2 DEF Reserve
      <3> QED BY <1>3, <1>6, <3>1, <3>2, RowOnly
    <2>3. ASSUME NEW from, NEW to \in {"active", "trashed", "deleted"}, Bin(f, from, to)
          PROVE  RowsGrow
      <3>1. PICK row : row = [files[f] EXCEPT !.status = to]
        OBVIOUS
      <3>2. row \in FileRow /\ row.version = Len(versions[f])
        BY <2>3, <3>1, RowParts, RowWith DEF Bin
      <3> QED BY <1>3, <1>6, <2>3, <3>1, <3>2, RowOnly DEF Bin, Write
    <2>4. ASSUME Commit(f) PROVE RowsGrow
      <3>1. files[f] \in FileRow /\ files[f].version = Len(versions[f]) /\ versions[f] \in Seq(Nat)
        BY <2>4, RowParts DEF Commit
      <3>2. PICK n : n = Len(versions[f]) + 1
        OBVIOUS
      <3>3. PICK row : row = [files[f] EXCEPT !.version = n, !.status = "active"]
        OBVIOUS
      <3>4. PICK list : list = Append(versions[f], n)
        OBVIOUS
      <3>5. n \in Nat /\ n = files[f].version + 1
        BY <3>1, <3>2
      <3>6. row \in FileRow /\ row.version = n
        BY <3>1, <3>3, <3>5 DEF FileRow
      <3>7. /\ list \in Seq(Nat) /\ Len(list) = n /\ Len(versions[f]) <= Len(list)
            /\ \A k \in DOMAIN versions[f] : k \in DOMAIN list /\ list[k] = versions[f][k]
        BY <3>1, <3>2, <3>4, <3>5, Appended
      <3>8. files' = [files EXCEPT ![f] = row] /\ versions' = [versions EXCEPT ![f] = list]
        BY <1>1, <2>4, <3>2, <3>3, <3>4, <3>5 DEF Commit
      <3>9. \A g \in Files : g # f /\ busy'[g] => busy[g]
        BY <1>1, <2>4 DEF Commit
      <3> QED BY <1>3, <3>6, <3>7, <3>8, <3>9, OneRow
    <2>5. ASSUME Abandon(f) PROVE RowsGrow
      BY <1>1, <1>3, <2>5, NoRow DEF Abandon
    <2> QED BY <1>2, <2>1, <2>2, <2>3, <2>4, <2>5
  <1> QED BY <1>3, <1>4, <1>5, <1>7, NoItem

-----------------------------------------------------------------------------
(* The executor.                                                            *)

LEMMA IdleExec == Idle \in Exec /\ ExecOK(Idle)'
  BY DEF Idle, Exec, ExecOK

LEMMA ExecParts ==
    ASSUME RewindIInv, NEW e \in Execs
    PROVE  execs[e] \in Exec /\ ExecOK(execs[e])
  BY DEF RewindIInv, RewindTypeOK

\* An executor goes on, and the rows stay as they are.
LEMMA RewindQuiet ==
    ASSUME RewindIInv, UNCHANGED <<files, versions, people>>, ItemsStay,
           NEW e \in Execs, NEW new \in Exec, Become(e, new), ExecOK(new)'
    PROVE  RewindIInv'
  <1>1. RowsGrow /\ busy' \in [Files -> BOOLEAN] /\ touched' \subseteq Files
    BY NoRow DEF people, RewindIInv, RewindTypeOK
  <1> QED BY <1>1, ExecStep DEF Become

\* An item takes another status.
LEMMA ItemSet ==
    ASSUME RewindIInv, UNCHANGED operation, NEW i \in Items, items[i] # "none",
           NEW status \in {"PENDING", "RUNNING", "DONE", "FAILED"}, Set(i, status)
    PROVE  ItemsStay /\ items'[i] = status /\ \A j \in Items : j # i => items'[j] = items[j]
  BY DEF RewindIInv, RewindTypeOK, ItemsOK, ItemsStay, Set

LEMMA PlanStep ==
    ASSUME RewindIInv, NEW e \in Execs, Plan(e) PROVE RewindIInv'
  <1>1. planRewind \subseteq Items
    BY DEF planRewind
  <1>2. PICK new : new = [Idle EXCEPT !.pc = "insert", !.todo = planRewind]
    OBVIOUS
  <1>3. new \in Exec /\ new.pc = "insert" /\ new.todo = planRewind
    BY <1>1, <1>2 DEF Idle, Exec
  <1>4. \A i \in planRewind : CanBePlanned(i)
    BY NothingAssumption DEF planRewind, PlanOf, Changes, CanBePlanned
  <1>5. UNCHANGED <<files, versions, operation, items, people>> /\ Become(e, new)
    BY <1>2 DEF Plan
  <1>6. \A i \in new.todo : CanBePlanned(i)'
    BY <1>3, <1>4, <1>5 DEF CanBePlanned, people
  <1>7. ExecOK(new)'
    BY <1>3, <1>6 DEF ExecOK
  <1> QED BY <1>3, <1>5, <1>7, RewindQuiet, NoItem

LEMMA InsertStep ==
    ASSUME RewindIInv, NEW e \in Execs, Insert(e) PROVE RewindIInv'
  <1>1. execs[e] \in Exec /\ ExecOK(execs[e]) /\ execs[e].pc = "insert"
    BY ExecParts DEF Insert
  <1>2. PICK todo : todo = execs[e].todo
    OBVIOUS
  <1>3. todo \subseteq Items /\ \A i \in todo : CanBePlanned(i)
    BY <1>1, <1>2 DEF Exec, ExecOK
  <1>4. UNCHANGED <<files, versions, people>>
    BY DEF Insert
  <1>5. CASE operation = Nothing
    <2>1. \A i \in Items : items[i] = "none"
      BY <1>5 DEF RewindIInv, ItemsOK
    <2>2. /\ operation' = "PLANNED" /\ Become(e, [Idle EXCEPT !.pc = "start"])
          /\ items' = [i \in Items |-> IF i \in todo THEN "PENDING" ELSE "none"]
      BY <1>2, <1>5 DEF Insert
    <2>3. "PLANNED" # Nothing
      BY NothingAssumption
    <2>4. ItemsStay
      BY <1>3, <2>1, <2>2, <2>3 DEF ItemsStay
    <2>5. PICK new : new = [Idle EXCEPT !.pc = "start"]
      OBVIOUS
    <2>6. new \in Exec /\ new.pc = "start"
      BY <2>5 DEF Idle, Exec
    <2>7. ExecOK(new)'
      BY <2>2, <2>3, <2>6 DEF ExecOK
    <2> QED BY <1>4, <2>2, <2>4, <2>5, <2>6, <2>7, RewindQuiet
  <1>6. CASE operation # Nothing
    <2>1. Become(e, Idle) /\ UNCHANGED <<operation, items>>
      BY <1>6 DEF Insert
    <2> QED BY <1>4, <2>1, IdleExec, RewindQuiet, NoItem
  <1> QED BY <1>5, <1>6

LEMMA AgainStep ==
    ASSUME RewindIInv, NEW e \in Execs, NEW retry \in BOOLEAN, Again(e, retry) PROVE RewindIInv'
  <1>1. /\ UNCHANGED <<files, versions, operation, people>> /\ operation # Nothing
        /\ Become(e, [Idle EXCEPT !.pc = "start"])
    BY DEF Again
  <1>2. ItemsStay
    BY DEF Again, RewindIInv, RewindTypeOK, ItemsOK, ItemsStay
  <1>3. PICK new : new = [Idle EXCEPT !.pc = "start"]
    OBVIOUS
  <1>4. new \in Exec /\ new.pc = "start"
    BY <1>3 DEF Idle, Exec
  <1>5. ExecOK(new)'
    BY <1>1, <1>4 DEF ExecOK
  <1> QED BY <1>1, <1>2, <1>3, <1>4, <1>5, RewindQuiet

LEMMA StartStep ==
    ASSUME RewindIInv, NEW e \in Execs, Start(e) PROVE RewindIInv'
  <1>1. execs[e] \in Exec /\ ExecOK(execs[e]) /\ execs[e].pc = "start"
    BY ExecParts DEF Start
  <1>2. UNCHANGED <<files, versions, operation, items, people>> /\ operation # Nothing
    BY <1>1 DEF Start, ExecOK
  <1>3. PICK new : new = [execs[e] EXCEPT !.pc = IF operation = "COMPLETED" THEN "idle" ELSE "run"]
    OBVIOUS
  <1>4. new \in Exec /\ new.pc \in {"idle", "run"}
    BY <1>1, <1>3 DEF Exec
  <1>5. ExecOK(new)'
    BY <1>2, <1>4 DEF ExecOK
  <1>6. Become(e, new)
    BY <1>3 DEF Start, Proceed
  <1> QED BY <1>2, <1>4, <1>5, <1>6, RewindQuiet, NoItem

LEMMA RunStep ==
    ASSUME RewindIInv, NEW e \in Execs, Run(e) PROVE RewindIInv'
  <1>1. execs[e] \in Exec /\ ExecOK(execs[e]) /\ execs[e].pc = "run"
    BY ExecParts DEF Run
  <1>2. /\ UNCHANGED <<files, versions, items, people>>
        /\ operation' = "RUNNING" /\ operation' # Nothing
    BY NothingAssumption DEF Run
  <1>3. PICK new : new = [execs[e] EXCEPT !.pc = "list"]
    OBVIOUS
  <1>4. new \in Exec /\ new.pc = "list" /\ Become(e, new)
    BY <1>1, <1>3 DEF Exec, Run, Proceed
  <1>5. ExecOK(new)'
    BY <1>2, <1>4 DEF ExecOK
  <1>6. ItemsStay
    BY <1>2 DEF RewindIInv, RewindTypeOK, ItemsOK, ItemsStay
  <1> QED BY <1>2, <1>4, <1>5, <1>6, RewindQuiet

LEMMA ListStep ==
    ASSUME RewindIInv, NEW e \in Execs, List(e) PROVE RewindIInv'
  <1>1. execs[e] \in Exec /\ ExecOK(execs[e]) /\ execs[e].pc = "list"
    BY ExecParts DEF List
  <1>2. UNCHANGED <<files, versions, operation, items, people>> /\ operation # Nothing
    BY <1>1 DEF List, ExecOK
  <1>3. PICK undone : undone = Unfinished
    OBVIOUS
  <1>4. undone \subseteq Items /\ \A i \in undone : items'[i] # "none"
    BY <1>2, <1>3 DEF Unfinished
  <1>5. PICK new : new = [execs[e] EXCEPT !.pc = "item", !.todo = undone]
    OBVIOUS
  <1>6. new \in Exec /\ new.pc = "item" /\ new.todo = undone /\ Become(e, new)
    BY <1>1, <1>3, <1>4, <1>5 DEF Exec, List
  <1>7. ExecOK(new)'
    BY <1>2, <1>4, <1>6 DEF ExecOK
  <1> QED BY <1>2, <1>6, <1>7, RewindQuiet, NoItem

\* An item an executor has before it.
LEMMA TodoItem ==
    ASSUME RewindIInv, NEW e \in Execs, execs[e].pc \in {"item", "read", "write", "fail"}
    PROVE  /\ operation # Nothing /\ execs[e].todo \subseteq Items
           /\ \A i \in execs[e].todo : items[i] # "none"
  BY ExecParts DEF ExecOK, Exec

\* The item an executor is at.
LEMMA ItemAt ==
    ASSUME RewindIInv, NEW e \in Execs, execs[e].pc \in {"read", "write", "fail"}, NEW i, i = execs[e].item
    PROVE  /\ i \in Items /\ items[i] # "none" /\ i[2] # "NOOP" /\ CanBePlanned(i)
           /\ i[1] \in Files /\ files[i[1]] \in FileRow /\ files[i[1]].version = Len(versions[i[1]])
           /\ snap[i[1]] # Nothing => snap[i[1]] \in FileRow
  <1>1. i \in Items /\ items[i] # "none" /\ i[2] # "NOOP"
    BY ExecParts DEF ExecOK
  <1>2. CanBePlanned(i) /\ i[1] \in Files
    BY <1>1, ItemParts DEF RewindIInv, ItemsOK
  <1>3. files[i[1]] # Nothing
    BY <1>2 DEF CanBePlanned
  <1>4. snap[i[1]] # Nothing => snap[i[1]] \in FileRow
    BY <1>2 DEF RewindIInv, RewindTypeOK
  <1> QED BY <1>1, <1>2, <1>3, <1>4, RowParts

\* An executor that leaves its item goes to the next.
LEMMA NextItemOK ==
    ASSUME RewindIInv, ItemsStay, NEW e \in Execs, execs[e].pc \in {"item", "read", "write", "fail"},
           NEW new \in Exec, new.pc = "item", new.todo \subseteq execs[e].todo
    PROVE  ExecOK(new)'
  <1>1. operation' # Nothing /\ \A i \in new.todo : items'[i] # "none"
    BY TodoItem DEF ItemsStay
  <1> QED BY <1>1 DEF ExecOK

\* An executor whose item fails.
LEMMA FailingOK ==
    ASSUME RewindIInv, ItemsStay, NEW e \in Execs, execs[e].pc \in {"item", "read", "write", "fail"},
           NEW new \in Exec, new.pc \in {"read", "fail"}, new.todo \subseteq execs[e].todo,
           new.item \in Items, items[new.item] # "none", new.item[2] # "NOOP"
    PROVE  ExecOK(new)'
  <1>1. /\ operation' # Nothing /\ \A i \in new.todo : items'[i] # "none"
        /\ items'[new.item] # "none"
    BY TodoItem DEF ItemsStay
  <1> QED BY <1>1 DEF ExecOK

LEMMA TakeStep ==
    ASSUME RewindIInv, NEW e \in Execs, Take(e) PROVE RewindIInv'
  <1>1. execs[e] \in Exec /\ execs[e].pc = "item" /\ UNCHANGED <<files, versions, operation, people>>
    BY ExecParts DEF Take
  <1>2. PICK i \in First(execs[e].todo) :
          LET rest == [execs[e] EXCEPT !.item = i, !.todo = @ \ {i}]
          IN  IF i[2] = "NOOP"
              THEN Set(i, "DONE") /\ Become(e, [rest EXCEPT !.done = TRUE])
              ELSE /\ Become(e, [rest EXCEPT !.pc = IF FileIdle(i[1]) THEN "read" ELSE "fail"])
                   /\ UNCHANGED items
    BY DEF Take
  <1>3. i \in execs[e].todo /\ i \in Items /\ items[i] # "none"
    BY <1>1, TodoItem DEF First
  <1>4. PICK todo : todo = execs[e].todo \ {i}
    OBVIOUS
  <1>5. todo \in SUBSET Items /\ todo \subseteq execs[e].todo
    BY <1>1, <1>4, TodoItem
  <1>6. CASE i[2] = "NOOP"
    <2>1. PICK new : new = [execs[e] EXCEPT !.item = i, !.todo = todo, !.done = TRUE]
      OBVIOUS
    <2>2. new \in Exec /\ new.pc = "item" /\ new.todo = todo
      BY <1>1, <1>3, <1>5, <2>1 DEF Exec
    <2>3. Set(i, "DONE") /\ Become(e, new)
      BY <1>1, <1>2, <1>4, <1>6, <2>1 DEF Exec
    <2>4. ItemsStay
      BY <1>1, <1>3, <2>3, ItemSet
    <2> QED BY <1>1, <1>5, <2>2, <2>3, <2>4, NextItemOK, RewindQuiet
  <1>7. CASE i[2] # "NOOP"
    <2>1. PICK pc : pc \in {"read", "fail"} /\ pc = IF FileIdle(i[1]) THEN "read" ELSE "fail"
      OBVIOUS
    <2>2. PICK new : new = [execs[e] EXCEPT !.item = i, !.todo = todo, !.pc = pc]
      OBVIOUS
    <2>3. new \in Exec /\ new.pc = pc /\ new.todo = todo /\ new.item = i
      BY <1>1, <1>3, <1>5, <2>1, <2>2 DEF Exec
    <2>4. UNCHANGED items /\ Become(e, new)
      BY <1>1, <1>2, <1>4, <1>7, <2>1, <2>2 DEF Exec
    <2>5. ItemsStay
      BY <1>1, <2>4, NoItem
    <2>6. ExecOK(new)'
      BY <1>1, <1>3, <1>5, <1>7, <2>1, <2>3, <2>5, FailingOK
    <2> QED BY <1>1, <2>3, <2>4, <2>5, <2>6, RewindQuiet
  <1> QED BY <1>6, <1>7

LEMMA ReadFileStep ==
    ASSUME RewindIInv, NEW e \in Execs, ReadFile(e) PROVE RewindIInv'
  <1>1. /\ execs[e] \in Exec /\ execs[e].pc = "read" /\ UNCHANGED <<files, versions, operation, people>>
    BY ExecParts DEF ReadFile
  <1>2. PICK i : i = execs[e].item
    OBVIOUS
  <1>3. /\ i \in Items /\ items[i] # "none" /\ i[2] # "NOOP" /\ i[1] \in Files
        /\ files[i[1]] \in FileRow /\ files[i[1]].version = Len(versions[i[1]])
    BY <1>1, <1>2, ItemAt
  <1>4. PICK row : row = files[i[1]]
    OBVIOUS
  <1>5. PICK pc : pc \in {"fail", "write"} /\ pc = IF Conflict(i, Target(i, row)) THEN "fail" ELSE "write"
    OBVIOUS
  <1>6. PICK new : new = [execs[e] EXCEPT !.read = row, !.pc = pc]
    OBVIOUS
  <1>7. new \in Exec /\ new.pc = pc /\ new.todo = execs[e].todo /\ new.item = i /\ new.read = row
    BY <1>1, <1>2, <1>3, <1>4, <1>5, <1>6 DEF Exec
  <1>8. Set(i, "RUNNING") /\ Become(e, new)
    BY <1>2, <1>4, <1>5, <1>6 DEF ReadFile
  <1>9. ItemsStay
    BY <1>1, <1>3, <1>8, ItemSet
  <1>10. /\ operation' # Nothing /\ \A j \in new.todo : items'[j] # "none"
         /\ items'[i] # "none"
    BY <1>1, <1>3, <1>7, <1>9, TodoItem DEF ItemsStay
  <1>11. row \in FileRow /\ row.version <= Len(versions'[i[1]])
    <2>1. versions[i[1]] \in Seq(Nat)
      BY <1>3, RowParts
    <2> QED BY <1>1, <1>3, <1>4, <2>1
  <1>12. ExecOK(new)'
    BY <1>3, <1>5, <1>7, <1>10, <1>11 DEF ExecOK
  <1> QED BY <1>1, <1>7, <1>8, <1>9, <1>12, RewindQuiet

LEMMA FailStep ==
    ASSUME RewindIInv, NEW e \in Execs, StorageFails(e) PROVE RewindIInv'
  <1>1. /\ execs[e] \in Exec /\ execs[e].pc = "write"
        /\ UNCHANGED <<files, versions, operation, items, people>> /\ Proceed(e, "fail")
    BY ExecParts DEF StorageFails
  <1>2. PICK new : new = [execs[e] EXCEPT !.pc = "fail"]
    OBVIOUS
  <1>3. new \in Exec /\ new.pc = "fail" /\ new.todo = execs[e].todo /\ new.item = execs[e].item /\ Become(e, new)
    BY <1>1, <1>2 DEF Exec, Proceed
  <1>4. ItemsStay
    BY <1>1, NoItem
  <1>5. new.item \in Items /\ items[new.item] # "none" /\ new.item[2] # "NOOP"
    BY <1>1, <1>3, ItemAt
  <1>6. ExecOK(new)'
    BY <1>1, <1>3, <1>4, <1>5, FailingOK
  <1> QED BY <1>1, <1>3, <1>4, <1>6, RewindQuiet

LEMMA MarkStep ==
    ASSUME RewindIInv, NEW e \in Execs, MarkFailed(e) PROVE RewindIInv'
  <1>1. /\ execs[e] \in Exec /\ execs[e].pc = "fail"
        /\ UNCHANGED <<files, versions, operation, people>> /\ Set(execs[e].item, "FAILED")
    BY ExecParts DEF MarkFailed
  <1>2. PICK new : new = [execs[e] EXCEPT !.pc = "item", !.item = Nothing, !.read = Nothing]
    OBVIOUS
  <1>3. new \in Exec /\ new.pc = "item" /\ new.todo = execs[e].todo /\ Become(e, new)
    BY <1>1, <1>2 DEF Exec, MarkFailed
  <1>4. execs[e].item \in Items /\ items[execs[e].item] # "none"
    BY <1>1, ItemAt
  <1>5. ItemsStay
    BY <1>1, <1>4, ItemSet
  <1>6. ExecOK(new)'
    BY <1>1, <1>3, <1>5, NextItemOK
  <1> QED BY <1>1, <1>3, <1>5, <1>6, RewindQuiet

LEMMA CountStep ==
    ASSUME RewindIInv, NEW e \in Execs, Count(e) PROVE RewindIInv'
  <1>1. /\ execs[e] \in Exec /\ execs[e].pc = "item" /\ UNCHANGED <<files, versions, operation, items, people>>
    BY ExecParts DEF Count
  <1>2. PICK status : status = Outcome(e) /\ status \in Outcomes
    BY DEF Outcome, Outcomes
  <1>3. PICK new : new = [execs[e] EXCEPT !.pc = "finish", !.status = status]
    OBVIOUS
  <1>4. new \in Exec /\ new.pc = "finish" /\ new.status = status /\ Become(e, new)
    BY <1>1, <1>2, <1>3 DEF Exec, Count
  <1>5. ItemsStay /\ operation' # Nothing
    BY <1>1, NoItem, TodoItem
  <1>6. ExecOK(new)'
    BY <1>2, <1>4, <1>5 DEF ExecOK
  <1> QED BY <1>1, <1>4, <1>5, <1>6, RewindQuiet

LEMMA FinishStep ==
    ASSUME RewindIInv, NEW e \in Execs, FinishOperation(e) PROVE RewindIInv'
  <1>1. /\ execs[e].status \in Outcomes /\ operation # Nothing
        /\ UNCHANGED <<files, versions, items, people>> /\ operation' = execs[e].status /\ Become(e, Idle)
    BY ExecParts DEF FinishOperation, ExecOK
  <1>2. operation' \in Outcomes /\ operation' # Nothing
    BY <1>1, NothingAssumption
  <1>3. ItemsStay
    BY <1>1, <1>2 DEF RewindIInv, RewindTypeOK, ItemsOK, ItemsStay
  <1> QED BY <1>1, <1>3, IdleExec, RewindQuiet

LEMMA StopStep ==
    ASSUME RewindIInv, NEW e \in Execs, StopExec(e) PROVE RewindIInv'
  BY IdleExec, RewindQuiet, NoItem DEF StopExec

\* The row a path, a status or a bin item is going to write.
LEMMA TargetRow ==
    ASSUME RewindIInv, NEW e \in Execs, execs[e].pc = "write", NEW i, i = execs[e].item,
           i[2] # "RESTORE_VERSION", NEW row, row = Target(i, execs[e].read)
    PROVE  row \in FileRow
  <1>1. /\ i \in Items /\ i[2] # "NOOP" /\ CanBePlanned(i)
    BY ItemAt
  <1>2. i[2] \in {"RESTORE_PATH", "RESTORE_STATUS", "TRASH_NEW"}
    BY <1>1, ItemParts
  <1>3. execs[e].read \in FileRow
    BY ExecParts DEF ExecOK
  <1>4. i[2] \in {"RESTORE_PATH", "RESTORE_STATUS"} => snap[i[1]] \in FileRow
    BY <1>1, ItemAt DEF CanBePlanned
  <1>5. CASE i[2] = "RESTORE_PATH"
    BY <1>3, <1>4, <1>5, RowWith DEF Target
  <1>6. CASE i[2] = "RESTORE_STATUS"
    BY <1>3, <1>4, <1>6, RowWith DEF Target
  <1>7. CASE i[2] = "TRASH_NEW"
    BY <1>3, <1>7, RowWith DEF Target
  <1> QED BY <1>2, <1>5, <1>6, <1>7

LEMMA WriteSimpleStep ==
    ASSUME RewindIInv, NEW e \in Execs, WriteSimple(e) PROVE RewindIInv' /\ RowsGrow
  <1>1. /\ execs[e] \in Exec /\ execs[e].pc = "write" /\ UNCHANGED <<versions, operation, people>>
    BY ExecParts DEF WriteSimple
  <1>2. PICK i : i = execs[e].item
    OBVIOUS
  <1>3. PICK row : row = Target(i, execs[e].read)
    OBVIOUS
  <1>4. /\ i \in Items /\ items[i] # "none" /\ i[2] # "NOOP" /\ i[1] \in Files
        /\ files[i[1]] \in FileRow /\ files[i[1]].version = Len(versions[i[1]])
    BY <1>1, <1>2, ItemAt
  <1>5. row \in FileRow
    BY <1>1, <1>2, <1>3, TargetRow DEF WriteSimple
  <1>6. CASE Refused(i[1], row)
    <2>1. UNCHANGED <<files, items>> /\ Proceed(e, "fail")
      BY <1>2, <1>3, <1>6 DEF WriteSimple
    <2>2. PICK new : new = [execs[e] EXCEPT !.pc = "fail"]
      OBVIOUS
    <2>3. new \in Exec /\ new.pc = "fail" /\ new.todo = execs[e].todo /\ new.item = i /\ Become(e, new)
      BY <1>1, <1>2, <2>1, <2>2 DEF Exec, Proceed
    <2>4. ItemsStay
      BY <1>1, <2>1, NoItem
    <2>5. ExecOK(new)'
      BY <1>1, <1>4, <2>3, <2>4, FailingOK
    <2>6. RowsGrow
      BY <1>1, <2>1, NoRow DEF people
    <2> QED BY <1>1, <2>1, <2>3, <2>4, <2>5, <2>6, RewindQuiet
  <1>7. CASE ~Refused(i[1], row)
    <2>1. /\ files' = [files EXCEPT ![i[1]].path = row.path, ![i[1]].status = row.status]
          /\ Set(i, "DONE") /\ Finished(e)
      BY <1>2, <1>3, <1>7 DEF WriteSimple
    <2>2. PICK new : new = [execs[e] EXCEPT !.pc = "item", !.item = Nothing, !.read = Nothing, !.done = TRUE]
      OBVIOUS
    <2>3. new \in Exec /\ new.pc = "item" /\ new.todo = execs[e].todo /\ Become(e, new)
      BY <1>1, <2>1, <2>2 DEF Exec, Finished
    <2>4. ItemsStay
      BY <1>1, <1>4, <2>1, ItemSet
    <2>5. ExecOK(new)'
      BY <1>1, <2>3, <2>4, NextItemOK
    <2>6. PICK written : written = [files[i[1]] EXCEPT !.path = row.path, !.status = row.status]
      OBVIOUS
    <2>7. written \in FileRow /\ written.version = Len(versions[i[1]])
      BY <1>4, <1>5, <2>6 DEF FileRow
    <2>8. files' = [files EXCEPT ![i[1]] = written]
      BY <1>4, <2>1, <2>6 DEF RewindIInv, RewindTypeOK
    <2>9. RowsGrow
      BY <1>1, <1>4, <2>7, <2>8, RowOnly DEF people
    <2>10. busy' \in [Files -> BOOLEAN] /\ touched' \subseteq Files
      BY <1>1 DEF people, RewindIInv, RewindTypeOK
    <2> QED BY <2>3, <2>4, <2>5, <2>9, <2>10, ExecStep DEF Become
  <1> QED BY <1>6, <1>7

LEMMA WriteVersionStep ==
    ASSUME RewindIInv, NEW e \in Execs, WriteVersion(e) PROVE RewindIInv' /\ RowsGrow
  <1>1. /\ execs[e] \in Exec /\ execs[e].pc = "write" /\ UNCHANGED <<operation, people>>
        /\ execs[e].item[2] = "RESTORE_VERSION"
    BY ExecParts DEF WriteVersion
  <1>2. PICK i : i = execs[e].item
    OBVIOUS
  <1>3. PICK f : f = i[1]
    OBVIOUS
  <1>4. PICK n : n = NextVersion(execs[e].read)
    OBVIOUS
  <1>5. /\ i \in Items /\ items[i] # "none" /\ i[2] # "NOOP" /\ f \in Files /\ CanBePlanned(i)
        /\ files[f] \in FileRow /\ files[f].version = Len(versions[f])
    BY <1>1, <1>2, <1>3, ItemAt
  <1>6. CASE VersionTaken(f, n)
    <2>1. UNCHANGED <<files, versions, items>> /\ Proceed(e, "fail")
      BY <1>2, <1>3, <1>4, <1>6 DEF WriteVersion
    <2>2. PICK new : new = [execs[e] EXCEPT !.pc = "fail"]
      OBVIOUS
    <2>3. new \in Exec /\ new.pc = "fail" /\ new.todo = execs[e].todo /\ new.item = i /\ Become(e, new)
      BY <1>1, <1>2, <2>1, <2>2 DEF Exec, Proceed
    <2>4. ItemsStay
      BY <1>1, <2>1, NoItem
    <2>5. ExecOK(new)'
      BY <1>1, <1>5, <2>3, <2>4, FailingOK
    <2>6. RowsGrow
      BY <1>1, <2>1, NoRow DEF people
    <2> QED BY <1>1, <2>1, <2>3, <2>4, <2>5, <2>6, RewindQuiet
  <1>7. CASE ~VersionTaken(f, n)
    <2>1. PICK stored : stored = versions[f][snap[f].version]
      OBVIOUS
    <2>2. /\ versions' = [versions EXCEPT ![f] = [k \in DOMAIN @ \cup {n} |-> IF k = n THEN stored ELSE @[k]]]
          /\ files' = [files EXCEPT ![f].version = IF @ = n - 1 THEN n ELSE @]
          /\ Set(i, "DONE") /\ Finished(e)
      BY <1>2, <1>3, <1>4, <1>7, <2>1 DEF WriteVersion
    <2>3. /\ versions[f] \in Seq(Nat) /\ snap[f] # Nothing /\ snap[f].version \in 1 .. Len(versions[f])
          /\ DOMAIN versions[f] = 1 .. Len(versions[f]) /\ Len(versions[f]) \in Nat
      <3>1. versions[f] \in Seq(Nat)
        BY <1>5, RowParts
      <3>2. snap[f] # Nothing
        BY <1>1, <1>2, <1>3, <1>5 DEF CanBePlanned
      <3> QED BY <1>5, <3>1, <3>2 DEF RewindIInv, VersionsOK
    <2>4. stored \in Nat
      BY <2>1, <2>3
    <2>5. execs[e].read.version \in Nat /\ execs[e].read.version <= Len(versions[f])
      BY <1>1, <1>2, <1>3, ExecParts DEF ExecOK, FileRow
    <2>6. n \in Nat /\ 1 <= n /\ n <= Len(versions[f]) + 1 /\ n \notin DOMAIN versions[f]
      BY <1>4, <1>7, <2>3, <2>5 DEF NextVersion, VersionTaken
    <2>7. PICK list : list = Append(versions[f], stored)
      OBVIOUS
    <2>8. /\ n = Len(versions[f]) + 1
          /\ [k \in DOMAIN versions[f] \cup {n} |-> IF k = n THEN stored ELSE versions[f][k]] = list
      BY <2>3, <2>4, <2>6, <2>7, NextNumber
    <2>9. /\ list \in Seq(Nat) /\ Len(list) = n /\ Len(versions[f]) <= Len(list)
          /\ \A k \in DOMAIN versions[f] : k \in DOMAIN list /\ list[k] = versions[f][k]
      BY <2>3, <2>4, <2>7, <2>8, Appended
    <2>10. PICK written : written = [files[f] EXCEPT !.version = n]
      OBVIOUS
    <2>11. written \in FileRow /\ written.version = Len(list)
      BY <1>5, <2>6, <2>9, <2>10 DEF FileRow
    <2>12. files' = [files EXCEPT ![f] = written]
      <3>1. files[f].version = n - 1
        BY <1>5, <2>3, <2>8
      <3> QED BY <1>5, <2>2, <2>10, <3>1 DEF RewindIInv, RewindTypeOK
    <2>13. versions' = [versions EXCEPT ![f] = list]
      BY <1>5, <2>2, <2>8 DEF RewindIInv, RewindTypeOK
    <2>14. RowsGrow
      BY <1>1, <1>5, <2>9, <2>11, <2>12, <2>13, OneRow DEF people
    <2>15. PICK new : new = [execs[e] EXCEPT !.pc = "item", !.item = Nothing, !.read = Nothing, !.done = TRUE]
      OBVIOUS
    <2>16. new \in Exec /\ new.pc = "item" /\ new.todo = execs[e].todo /\ Become(e, new)
      BY <1>1, <2>2, <2>15 DEF Exec, Finished
    <2>17. ItemsStay
      BY <1>1, <1>5, <2>2, ItemSet
    <2>18. ExecOK(new)'
      BY <1>1, <2>16, <2>17, NextItemOK
    <2>19. busy' \in [Files -> BOOLEAN] /\ touched' \subseteq Files
      BY <1>1 DEF people, RewindIInv, RewindTypeOK
    <2> QED BY <2>14, <2>16, <2>17, <2>18, <2>19, ExecStep DEF Become
  <1> QED BY <1>6, <1>7

-----------------------------------------------------------------------------
(* The theorems.                                                            *)

LEMMA RewindInitInv == RewindInit => RewindIInv
  <1> SUFFICES ASSUME RewindInit PROVE RewindIInv
    OBVIOUS
  <1>1. files \in [Files -> FileRow \cup {Nothing}] /\ snap \in [Files -> FileRow \cup {Nothing}]
    <2>1. [path : Paths, status : {"active", "trashed", "deleted"}, version : 1 .. 2] \subseteq FileRow
      BY DEF FileRow
    <2>2. [path : Paths, status : {"active", "trashed"}, version : {1}] \subseteq FileRow
      BY DEF FileRow
    <2> QED BY <2>1, <2>2 DEF RewindInit
  <1>2. \A f \in Files : files[f] # Nothing => files[f].version \in 1 .. 2
    BY DEF RewindInit
  <1>3. \A f \in Files : /\ files[f] = Nothing => versions[f] = <<>>
                         /\ files[f] # Nothing => versions[f] = [n \in 1 .. files[f].version |-> n]
    BY DEF RewindInit
  <1>4. ASSUME NEW f \in Files
        PROVE  versions[f] \in Seq(Nat) /\ (files[f] # Nothing => files[f].version = Len(versions[f]))
    <2>1. CASE files[f] = Nothing
      <3>1. versions[f] = <<>>
        BY <1>3, <2>1
      <3> QED BY <2>1, <3>1
    <2>2. CASE files[f] # Nothing
      <3>1. PICK k : k = files[f].version /\ k \in Nat
        BY <1>2, <2>2
      <3>2. PICK list : list = [n \in 1 .. k |-> n]
        OBVIOUS
      <3>3. list \in Seq(Nat) /\ Len(list) = k
        BY <3>1, <3>2
      <3>4. versions[f] = list
        BY <1>3, <2>2, <3>1, <3>2
      <3> QED BY <3>1, <3>3, <3>4
    <2> QED BY <2>1, <2>2
  <1>5. versions \in [Files -> Seq(Nat)]
    BY <1>4 DEF RewindInit
  <1>6. RewindTypeOK
    BY <1>1, <1>5, IdleExec DEF RewindInit, RewindTypeOK, Idle, Exec
  <1>7. VersionsOK
    <2>1. ASSUME NEW f \in Files, snap[f] # Nothing
          PROVE  files[f] # Nothing /\ snap[f].version \in 1 .. Len(versions[f])
      <3>1. files[f] # Nothing /\ snap[f].version = 1
        BY <2>1 DEF RewindInit
      <3> QED BY <1>2, <1>4, <3>1
    <2> QED BY <1>3, <1>4, <2>1 DEF VersionsOK, RewindInit
  <1>8. ItemsOK /\ \A e \in Execs : ExecOK(execs[e])
    BY DEF RewindInit, ItemsOK, ExecOK, Idle
  <1> QED BY <1>6, <1>7, <1>8 DEF RewindIInv

LEMMA RewindNextInv == RewindIInv /\ [RewindNext]_rewindVars => RewindIInv'
  <1> SUFFICES ASSUME RewindIInv, [RewindNext]_rewindVars PROVE RewindIInv'
    OBVIOUS
  <1>1. CASE People
    BY <1>1, PeopleStep, NoExecMoves
  <1>2. ASSUME NEW e \in Execs, Plan(e) \/ StorageFails(e) \/ StopExec(e) PROVE RewindIInv'
    BY <1>2, PlanStep, FailStep, StopStep
  <1>3. ASSUME NEW e \in Execs, Work(e) PROVE RewindIInv'
    BY <1>3, InsertStep, StartStep, RunStep, ListStep, TakeStep, ReadFileStep, WriteSimpleStep,
       WriteVersionStep, MarkStep, CountStep, FinishStep DEF Work
  <1>4. ASSUME NEW e \in Execs, NEW retry \in BOOLEAN, Again(e, retry) PROVE RewindIInv'
    BY <1>4, AgainStep
  <1>5. CASE UNCHANGED rewindVars
    <2>1. UNCHANGED <<files, versions, snap, busy, operation, items, execs, touched>>
      BY <1>5 DEF rewindVars
    <2>2. RowsGrow /\ ItemsStay /\ busy' \in [Files -> BOOLEAN] /\ touched' \subseteq Files
      BY <2>1, NoRow, NoItem DEF RewindIInv, RewindTypeOK
    <2> QED BY <2>1, <2>2, NoExecMoves
  <1> QED BY <1>1, <1>2, <1>3, <1>4, <1>5 DEF RewindNext

\* However many requests execute an operation and wherever the Worker dies, an
\* item belongs to a file that is there, a rewound version has the next free
\* number, and the row an executor has read is of a version that exists
\* (executeRewindOperation and its batches).
THEOREM RewindInductive == RewindSpec => []RewindIInv
  BY RewindInitInv, RewindNextInv, PTL DEF RewindSpec

\* Every step leaves the versions there are as they are.
LEMMA NoVersionLost ==
    ASSUME RewindIInv, RewindNext
    PROVE  \A f \in Files : \A n \in DOMAIN versions[f] :
              n \in DOMAIN versions'[f] /\ versions'[f][n] = versions[f][n]
  <1>1. CASE People
    BY <1>1, PeopleStep DEF RowsGrow
  <1>2. ASSUME NEW e \in Execs, WriteSimple(e) \/ WriteVersion(e)
        PROVE  \A f \in Files : \A n \in DOMAIN versions[f] :
                  n \in DOMAIN versions'[f] /\ versions'[f][n] = versions[f][n]
    BY <1>2, WriteSimpleStep, WriteVersionStep DEF RowsGrow
  <1>3. CASE UNCHANGED versions
    BY <1>3
  <1>4. ASSUME NEW e \in Execs, NEW retry \in BOOLEAN,
               \/ Plan(e) \/ Insert(e) \/ Start(e) \/ Run(e) \/ List(e) \/ Take(e) \/ ReadFile(e)
               \/ MarkFailed(e) \/ Count(e) \/ FinishOperation(e) \/ StorageFails(e) \/ StopExec(e)
               \/ Again(e, retry)
        PROVE  UNCHANGED versions
    BY <1>4 DEF Plan, Insert, Start, Run, List, Take, ReadFile, MarkFailed, Count, FinishOperation,
                StorageFails, StopExec, Again
  <1> QED BY <1>1, <1>2, <1>3, <1>4 DEF RewindNext, Work

\* A version that is rewound while somebody uploads never replaces a version,
\* however many requests execute the operation (the unique index on the numbers
\* and the batch of completeVersionRewindItem).
THEOREM NoVersionReplaced == RewindSpec => VersionsOnlyGrow
  <1>1. RewindIInv /\ [RewindNext]_rewindVars =>
            [\A f \in Files : \A n \in DOMAIN versions[f] :
                n \in DOMAIN versions'[f] /\ versions'[f][n] = versions[f][n]]_rewindVars
    BY NoVersionLost
  <1> QED BY <1>1, RewindInductive, PTL DEF RewindSpec, VersionsOnlyGrow

-----------------------------------------------------------------------------
(* A single request at a time.                                              *)

Single == \A d, e \in Execs : d = e

LeftAfter(f, rest) ==
    /\ snap'[f] = Nothing /\ files'[f] # Nothing /\ files'[f].status = "active"
           => <<f, "TRASH_NEW">> \in rest
    /\ snap'[f] # Nothing =>
           /\ files'[f].path # snap'[f].path => <<f, "RESTORE_PATH">> \in rest
           /\ files'[f].status # snap'[f].status => <<f, "RESTORE_STATUS">> \in rest
           /\ versions'[f][files'[f].version] # versions'[f][snap'[f].version]
                  => <<f, "RESTORE_VERSION">> \in rest

AloneAfter(exec) ==
    /\ exec.pc = "insert" /\ operation' = Nothing => \A f \in Files \ touched' : LeftAfter(f, exec.todo)
    /\ exec.pc = "write" /\ exec.item[1] \notin touched' => exec.read = files'[exec.item[1]]
    /\ exec.pc = "finish" /\ exec.status = "COMPLETED" => Unfinished' = {}
    /\ operation' = "COMPLETED" => exec.pc = "idle"

OperationAfter ==
    /\ operation' # Nothing => \A f \in Files \ touched' : LeftAfter(f, Unfinished')
    /\ operation' = "COMPLETED" => Unfinished' = {}

LEMMA RestoreAfter ==
    ASSUME OperationAfter, \A e \in Execs : AloneAfter(execs'[e]) PROVE RestoreOK'
  <1>1. operation' # Nothing => \A f \in Files \ touched' : LeftTo(f, Unfinished)'
    BY DEF OperationAfter, LeftAfter, LeftTo
  <1>2. ASSUME NEW e \in Execs PROVE AloneOK(execs[e])'
    BY <1>2 DEF AloneAfter, LeftAfter, AloneOK, LeftTo
  <1> QED BY <1>1, <1>2 DEF OperationAfter, RestoreOK

\* The executor that is alone goes on.
LEMMA AloneStep ==
    ASSUME RewindIInv, Single, NEW e \in Execs, NEW new, Become(e, new), OperationAfter, AloneAfter(new)
    PROVE  RestoreOK'
  <1>1. \A d \in Execs : execs'[d] = new
    BY DEF Single, Become, RewindIInv, RewindTypeOK
  <1> QED BY <1>1, RestoreAfter

\* A file that stays as it is has as much left to do.
LEMMA LeftSame ==
    ASSUME UNCHANGED snap, NEW f, files'[f] = files[f], versions'[f] = versions[f],
           NEW rest, NEW more, LeftTo(f, rest),
           \A a \in {"RESTORE_PATH", "RESTORE_STATUS", "RESTORE_VERSION", "TRASH_NEW"} :
              <<f, a>> \in rest => <<f, a>> \in more
    PROVE  LeftAfter(f, more)
  BY DEF LeftTo, LeftAfter

\* The files stay as they are, and the items still to do.
LEMMA OperationStays ==
    ASSUME RestoreOK, UNCHANGED <<files, versions, people>>, operation' # Nothing => operation # Nothing,
           operation' # "COMPLETED",
           \A i \in Unfinished : i[2] # "NOOP" => i \in Unfinished'
    PROVE  OperationAfter
  <1>1. ASSUME operation' # Nothing, NEW f \in Files \ touched' PROVE LeftAfter(f, Unfinished')
    <2>1. LeftTo(f, Unfinished)
      BY <1>1 DEF RestoreOK, people
    <2>2. PICK rest : rest = Unfinished
      OBVIOUS
    <2>3. PICK more : more = Unfinished'
      OBVIOUS
    <2>4. \A a \in {"RESTORE_PATH", "RESTORE_STATUS", "RESTORE_VERSION", "TRASH_NEW"} :
              <<f, a>> \in rest => <<f, a>> \in more
      BY <2>2, <2>3
    <2>5. LeftTo(f, rest)
      BY <2>1, <2>2
    <2> QED BY <2>3, <2>4, <2>5, LeftSame DEF people
  <1> QED BY <1>1 DEF OperationAfter

LEMMA OperationSame ==
    ASSUME RestoreOK, UNCHANGED <<files, versions, operation, items, people>>
    PROVE  OperationAfter
  <1>1. Unfinished' = Unfinished
    BY DEF Unfinished
  <1>2. operation = "COMPLETED" => Unfinished = {}
    BY DEF RestoreOK
  <1>3. ASSUME operation' # Nothing, NEW f \in Files \ touched' PROVE LeftAfter(f, Unfinished')
    <2>1. LeftTo(f, Unfinished)
      BY <1>3 DEF RestoreOK, people
    <2> QED BY <1>1, <2>1 DEF LeftTo, LeftAfter, people
  <1> QED BY <1>1, <1>2, <1>3 DEF OperationAfter

LEMMA Alone ==
    ASSUME RestoreOK, NEW e \in Execs
    PROVE  AloneOK(execs[e]) /\ (execs[e].pc # "idle" => operation # "COMPLETED")
  BY DEF RestoreOK, AloneOK

LEMMA AloneIdle == AloneAfter(Idle)
  BY DEF AloneAfter, Idle

LEMMA RestorePlan ==
    ASSUME RewindIInv, RestoreOK, Single, NEW e \in Execs, Plan(e) PROVE RestoreOK'
  <1>1. UNCHANGED <<files, versions, operation, items, people>> /\ operation # "COMPLETED"
    BY NothingAssumption DEF Plan, Outcomes
  <1>2. PICK new : new = [Idle EXCEPT !.pc = "insert", !.todo = planRewind]
    OBVIOUS
  <1>3. new.pc = "insert" /\ new.todo = planRewind /\ Become(e, new)
    BY <1>2 DEF Idle, Plan
  <1>4. ASSUME NEW f \in Files PROVE LeftAfter(f, planRewind)
    <2>1. UNCHANGED <<files, versions, snap>>
      BY <1>1 DEF people
    <2>2. \A a : a \in PlanOf(f) /\ <<f, a>> \in Items => <<f, a>> \in planRewind
      BY DEF planRewind
    <2>3. snap[f] = Nothing /\ files[f] # Nothing => <<f, "TRASH_NEW">> \in planRewind
      BY <2>2, ItemParts DEF PlanOf
    <2>4. snap[f] # Nothing => files[f] # Nothing /\ snap[f].version \in 1 .. Len(versions[f])
      BY DEF RewindIInv, VersionsOK
    <2>5. snap[f] # Nothing => \A a \in Changes(f) : a \in PlanOf(f)
      BY <2>4 DEF PlanOf
    <2>6. snap[f] # Nothing =>
              /\ files[f].path # snap[f].path => "RESTORE_PATH" \in Changes(f)
              /\ files[f].status # snap[f].status => "RESTORE_STATUS" \in Changes(f)
              /\ files[f].version # snap[f].version => "RESTORE_VERSION" \in Changes(f)
      <3>1. snap[f] # Nothing => snap[f].version > 0
        BY <2>4, RowParts
      <3> QED BY <3>1 DEF Changes
    <2>7. snap[f] # Nothing =>
              /\ files[f].path # snap[f].path => <<f, "RESTORE_PATH">> \in planRewind
              /\ files[f].status # snap[f].status => <<f, "RESTORE_STATUS">> \in planRewind
              /\ files[f].version # snap[f].version => <<f, "RESTORE_VERSION">> \in planRewind
      BY <2>2, <2>5, <2>6, ItemParts
    <2> QED BY <2>1, <2>3, <2>7 DEF LeftAfter
  <1>5. AloneAfter(new)
    BY <1>1, <1>3, <1>4 DEF AloneAfter
  <1> QED BY <1>1, <1>3, <1>5, OperationSame, AloneStep

LEMMA RestoreInsert ==
    ASSUME RewindIInv, RestoreOK, Single, NEW e \in Execs, Insert(e) PROVE RestoreOK'
  <1>1. UNCHANGED <<files, versions, people>> /\ execs[e].pc = "insert"
    BY DEF Insert
  <1>2. CASE operation # Nothing
    <2>1. Become(e, Idle) /\ UNCHANGED <<operation, items>>
      BY <1>2 DEF Insert
    <2> QED BY <1>1, <2>1, AloneIdle, OperationSame, AloneStep
  <1>3. CASE operation = Nothing
    <2>1. PICK todo : todo = execs[e].todo
      OBVIOUS
    <2>2. /\ operation' = "PLANNED" /\ Become(e, [Idle EXCEPT !.pc = "start"])
          /\ items' = [i \in Items |-> IF i \in todo THEN "PENDING" ELSE "none"]
      BY <1>3, <2>1 DEF Insert
    <2>3. todo \subseteq Items
      BY <2>1, ExecParts DEF Exec
    <2>4. Unfinished' = todo
      BY <2>2, <2>3 DEF Unfinished
    <2>5. \A f \in Files \ touched : LeftTo(f, todo)
      BY <1>1, <1>3, <2>1, Alone DEF AloneOK
    <2>6. \A f \in Files \ touched' : LeftAfter(f, Unfinished')
      BY <1>1, <2>4, <2>5 DEF LeftTo, LeftAfter, people
    <2>7. OperationAfter
      BY <2>2, <2>6 DEF OperationAfter
    <2>8. PICK new : new = [Idle EXCEPT !.pc = "start"]
      OBVIOUS
    <2>9. AloneAfter(new) /\ Become(e, new)
      BY <2>2, <2>8 DEF AloneAfter, Idle
    <2> QED BY <2>7, <2>9, AloneStep
  <1> QED BY <1>2, <1>3

LEMMA RestoreAgain ==
    ASSUME RewindIInv, RestoreOK, Single, NEW e \in Execs, NEW retry \in BOOLEAN, Again(e, retry)
    PROVE  RestoreOK'
  <1>1. /\ UNCHANGED <<files, versions, operation, people>> /\ operation # "COMPLETED"
        /\ Become(e, [Idle EXCEPT !.pc = "start"])
    BY DEF Again
  <1>2. \A i \in Unfinished : i \in Unfinished'
    BY DEF Again, Unfinished
  <1>3. PICK new : new = [Idle EXCEPT !.pc = "start"]
    OBVIOUS
  <1>4. AloneAfter(new) /\ Become(e, new)
    BY <1>1, <1>3 DEF AloneAfter, Idle
  <1> QED BY <1>1, <1>2, <1>4, OperationStays, AloneStep

\* An executor that goes on and leaves operation, items and rows alone.
LEMMA RestoreQuiet ==
    ASSUME RewindIInv, RestoreOK, Single, NEW e \in Execs, execs[e].pc # "idle",
           UNCHANGED <<files, versions, operation, items, people>>,
           NEW new, Become(e, new), new.pc \notin {"insert", "write"},
           new.pc = "finish" /\ new.status = "COMPLETED" => Unfinished = {}
    PROVE  RestoreOK'
  <1>1. Unfinished' = Unfinished
    BY DEF Unfinished
  <1>2. operation' # "COMPLETED"
    BY Alone
  <1>3. AloneAfter(new)
    BY <1>1, <1>2 DEF AloneAfter
  <1> QED BY <1>3, OperationSame, AloneStep

LEMMA RestoreStart ==
    ASSUME RewindIInv, RestoreOK, Single, NEW e \in Execs, Start(e) PROVE RestoreOK'
  <1>1. /\ execs[e] \in Exec /\ execs[e].pc = "start"
        /\ UNCHANGED <<files, versions, operation, items, people>>
    BY ExecParts DEF Start
  <1>2. PICK new : new = [execs[e] EXCEPT !.pc = IF operation = "COMPLETED" THEN "idle" ELSE "run"]
    OBVIOUS
  <1>3. new.pc \in {"idle", "run"} /\ Become(e, new)
    BY <1>1, <1>2 DEF Exec, Start, Proceed
  <1> QED BY <1>1, <1>3, RestoreQuiet

LEMMA RestoreList ==
    ASSUME RewindIInv, RestoreOK, Single, NEW e \in Execs, List(e) PROVE RestoreOK'
  <1>1. /\ execs[e] \in Exec /\ execs[e].pc = "list"
        /\ UNCHANGED <<files, versions, operation, items, people>>
    BY ExecParts DEF List
  <1>2. PICK new : new = [execs[e] EXCEPT !.pc = "item", !.todo = Unfinished]
    OBVIOUS
  <1>3. new.pc = "item" /\ Become(e, new)
    BY <1>1, <1>2 DEF Exec, List
  <1> QED BY <1>1, <1>3, RestoreQuiet

LEMMA RestoreCount ==
    ASSUME RewindIInv, RestoreOK, Single, NEW e \in Execs, Count(e) PROVE RestoreOK'
  <1>1. /\ execs[e] \in Exec /\ execs[e].pc = "item"
        /\ UNCHANGED <<files, versions, operation, items, people>>
    BY ExecParts DEF Count
  <1>2. PICK new : new = [execs[e] EXCEPT !.pc = "finish", !.status = Outcome(e)]
    OBVIOUS
  <1>3. new.pc = "finish" /\ new.status = Outcome(e) /\ Become(e, new)
    BY <1>1, <1>2 DEF Exec, Count
  <1>4. Outcome(e) = "COMPLETED" => Unfinished = {}
    BY DEF Outcome
  <1> QED BY <1>1, <1>3, <1>4, RestoreQuiet

LEMMA RestoreFails ==
    ASSUME RewindIInv, RestoreOK, Single, NEW e \in Execs, StorageFails(e) PROVE RestoreOK'
  <1>1. /\ execs[e] \in Exec /\ execs[e].pc = "write"
        /\ UNCHANGED <<files, versions, operation, items, people>>
    BY ExecParts DEF StorageFails
  <1>2. PICK new : new = [execs[e] EXCEPT !.pc = "fail"]
    OBVIOUS
  <1>3. new.pc = "fail" /\ Become(e, new)
    BY <1>1, <1>2 DEF Exec, StorageFails, Proceed
  <1> QED BY <1>1, <1>3, RestoreQuiet

LEMMA RestoreStop ==
    ASSUME RewindIInv, RestoreOK, Single, NEW e \in Execs, StopExec(e) PROVE RestoreOK'
  <1>1. Idle.pc = "idle"
    BY DEF Idle
  <1> QED BY <1>1, RestoreQuiet DEF StopExec

LEMMA RestoreRun ==
    ASSUME RewindIInv, RestoreOK, Single, NEW e \in Execs, Run(e) PROVE RestoreOK'
  <1>1. /\ execs[e] \in Exec /\ execs[e].pc = "run" /\ ExecOK(execs[e])
        /\ UNCHANGED <<files, versions, items, people>> /\ operation' = "RUNNING"
    BY ExecParts DEF Run
  <1>2. operation # Nothing
    BY <1>1 DEF ExecOK
  <1>3. PICK new : new = [execs[e] EXCEPT !.pc = "list"]
    OBVIOUS
  <1>4. new.pc = "list" /\ Become(e, new)
    BY <1>1, <1>3 DEF Exec, Run, Proceed
  <1>5. AloneAfter(new)
    BY <1>1, <1>4 DEF AloneAfter
  <1>6. \A i \in Unfinished : i \in Unfinished'
    BY <1>1 DEF Unfinished
  <1> QED BY <1>1, <1>2, <1>4, <1>5, <1>6, OperationStays, AloneStep

LEMMA RestoreFinish ==
    ASSUME RewindIInv, RestoreOK, Single, NEW e \in Execs, FinishOperation(e) PROVE RestoreOK'
  <1>1. /\ execs[e].pc = "finish" /\ ExecOK(execs[e]) /\ AloneOK(execs[e])
        /\ UNCHANGED <<files, versions, items, people>> /\ operation' = execs[e].status /\ Become(e, Idle)
    BY ExecParts, Alone DEF FinishOperation
  <1>2. operation # Nothing
    BY <1>1 DEF ExecOK
  <1>3. Unfinished' = Unfinished
    BY <1>1 DEF Unfinished
  <1>4. operation' = "COMPLETED" => Unfinished' = {}
    BY <1>1, <1>3 DEF AloneOK
  <1>5. ASSUME NEW f \in Files \ touched' PROVE LeftAfter(f, Unfinished')
    <2>1. LeftTo(f, Unfinished)
      BY <1>1, <1>2 DEF RestoreOK, people
    <2> QED BY <1>1, <1>3, <2>1 DEF LeftTo, LeftAfter, people
  <1>6. OperationAfter
    BY <1>4, <1>5 DEF OperationAfter
  <1> QED BY <1>1, <1>6, AloneIdle, AloneStep

LEMMA RestoreTake ==
    ASSUME RewindIInv, RestoreOK, Single, NEW e \in Execs, Take(e) PROVE RestoreOK'
  <1>1. execs[e] \in Exec /\ execs[e].pc = "item" /\ UNCHANGED <<files, versions, operation, people>>
    BY ExecParts DEF Take
  <1>2. PICK i \in First(execs[e].todo) :
          LET rest == [execs[e] EXCEPT !.item = i, !.todo = @ \ {i}]
          IN  IF i[2] = "NOOP"
              THEN Set(i, "DONE") /\ Become(e, [rest EXCEPT !.done = TRUE])
              ELSE /\ Become(e, [rest EXCEPT !.pc = IF FileIdle(i[1]) THEN "read" ELSE "fail"])
                   /\ UNCHANGED items
    BY DEF Take
  <1>3. i \in Items /\ items[i] # "none"
    BY <1>1, TodoItem DEF First
  <1>4. PICK todo : todo = execs[e].todo \ {i}
    OBVIOUS
  <1>5. CASE i[2] = "NOOP"
    <2>1. PICK new : new = [execs[e] EXCEPT !.item = i, !.todo = todo, !.done = TRUE]
      OBVIOUS
    <2>2. new.pc = "item" /\ Set(i, "DONE") /\ Become(e, new)
      BY <1>1, <1>2, <1>4, <1>5, <2>1 DEF Exec
    <2>3. \A j \in Items : j # i => items'[j] = items[j]
      BY <1>1, <1>3, <2>2, ItemSet
    <2>4. \A j \in Unfinished : j[2] # "NOOP" => j \in Unfinished'
      BY <1>5, <2>3 DEF Unfinished
    <2>5. operation' # "COMPLETED"
      BY <1>1, Alone
    <2>6. AloneAfter(new)
      BY <2>2, <2>5 DEF AloneAfter
    <2> QED BY <1>1, <2>2, <2>4, <2>5, <2>6, OperationStays, AloneStep
  <1>6. CASE i[2] # "NOOP"
    <2>1. PICK pc : pc \in {"read", "fail"} /\ pc = IF FileIdle(i[1]) THEN "read" ELSE "fail"
      OBVIOUS
    <2>2. PICK new : new = [execs[e] EXCEPT !.item = i, !.todo = todo, !.pc = pc]
      OBVIOUS
    <2>3. new.pc = pc /\ UNCHANGED items /\ Become(e, new)
      BY <1>1, <1>2, <1>4, <1>6, <2>1, <2>2 DEF Exec
    <2> QED BY <1>1, <2>1, <2>3, RestoreQuiet
  <1> QED BY <1>5, <1>6

\* An item that is begun or fails is still to be done.
LEMMA StillToDo ==
    ASSUME RewindIInv, UNCHANGED operation, NEW i \in Items, items[i] # "none",
           NEW status \in {"RUNNING", "FAILED"}, Set(i, status)
    PROVE  \A j \in Unfinished : j \in Unfinished'
  <1>1. items'[i] = status /\ \A j \in Items : j # i => items'[j] = items[j]
    BY ItemSet
  <1> QED BY <1>1 DEF Unfinished

LEMMA RestoreRead ==
    ASSUME RewindIInv, RestoreOK, Single, NEW e \in Execs, ReadFile(e) PROVE RestoreOK'
  <1>1. execs[e] \in Exec /\ execs[e].pc = "read" /\ UNCHANGED <<files, versions, operation, people>>
    BY ExecParts DEF ReadFile
  <1>2. PICK i : i = execs[e].item
    OBVIOUS
  <1>3. i \in Items /\ items[i] # "none"
    BY <1>1, <1>2, ItemAt
  <1>4. PICK row : row = files[i[1]]
    OBVIOUS
  <1>5. PICK pc : pc \in {"fail", "write"} /\ pc = IF Conflict(i, Target(i, row)) THEN "fail" ELSE "write"
    OBVIOUS
  <1>6. PICK new : new = [execs[e] EXCEPT !.read = row, !.pc = pc]
    OBVIOUS
  <1>7. new.pc = pc /\ new.item = i /\ new.read = row
    BY <1>1, <1>2, <1>6 DEF Exec
  <1>8. Set(i, "RUNNING") /\ Become(e, new)
    BY <1>2, <1>4, <1>5, <1>6 DEF ReadFile
  <1>9. \A j \in Unfinished : j \in Unfinished'
    BY <1>1, <1>3, <1>8, StillToDo
  <1>10. operation' # "COMPLETED"
    BY <1>1, Alone
  <1>11. AloneAfter(new)
    BY <1>1, <1>4, <1>5, <1>7, <1>10 DEF AloneAfter
  <1> QED BY <1>1, <1>8, <1>9, <1>10, <1>11, OperationStays, AloneStep

LEMMA RestoreMark ==
    ASSUME RewindIInv, RestoreOK, Single, NEW e \in Execs, MarkFailed(e) PROVE RestoreOK'
  <1>1. /\ execs[e] \in Exec /\ execs[e].pc = "fail"
        /\ UNCHANGED <<files, versions, operation, people>> /\ Set(execs[e].item, "FAILED")
    BY ExecParts DEF MarkFailed
  <1>2. PICK new : new = [execs[e] EXCEPT !.pc = "item", !.item = Nothing, !.read = Nothing]
    OBVIOUS
  <1>3. new.pc = "item" /\ Become(e, new)
    BY <1>1, <1>2 DEF Exec, MarkFailed
  <1>4. execs[e].item \in Items /\ items[execs[e].item] # "none"
    BY <1>1, ItemAt
  <1>5. \A j \in Unfinished : j \in Unfinished'
    BY <1>1, <1>4, StillToDo
  <1>6. operation' # "COMPLETED"
    BY <1>1, Alone
  <1>7. AloneAfter(new)
    BY <1>3, <1>6 DEF AloneAfter
  <1> QED BY <1>1, <1>3, <1>5, <1>6, <1>7, OperationStays, AloneStep

\* One file is written, and what its item is about is as it was.
LEMMA RestoreWritten ==
    ASSUME RewindIInv, RestoreOK, Single, UNCHANGED <<operation, people>>,
           NEW e \in Execs, execs[e].pc = "write", NEW i \in Items, i = execs[e].item,
           NEW new, new.pc = "item", Become(e, new), Set(i, "DONE"),
           \A f \in Files : f # i[1] => files'[f] = files[f] /\ versions'[f] = versions[f],
           i[1] \in Files \ touched => LeftAfter(i[1], Unfinished')
    PROVE  RestoreOK'
  <1>1. operation # "COMPLETED" /\ operation # Nothing /\ items[i] # "none"
    BY Alone, ExecParts DEF ExecOK
  <1>2. \A j \in Items : j # i => items'[j] = items[j]
    BY <1>1, ItemSet
  <1>3. ASSUME NEW f \in Files \ touched PROVE LeftAfter(f, Unfinished')
    <2>1. CASE f = i[1]
      BY <2>1
    <2>2. CASE f # i[1]
      <3>1. PICK rest : rest = Unfinished
        OBVIOUS
      <3>2. PICK more : more = Unfinished'
        OBVIOUS
      <3>3. \A a \in {"RESTORE_PATH", "RESTORE_STATUS", "RESTORE_VERSION", "TRASH_NEW"} :
                <<f, a>> \in rest => <<f, a>> \in more
        BY <1>2, <2>2, <3>1, <3>2 DEF Unfinished
      <3>4. LeftTo(f, rest)
        BY <1>1, <3>1 DEF RestoreOK
      <3>5. LeftAfter(f, more)
        BY <2>2, <3>3, <3>4, LeftSame DEF people
      <3> QED BY <3>2, <3>5
    <2> QED BY <2>1, <2>2
  <1>4. OperationAfter
    BY <1>1, <1>3 DEF OperationAfter, people
  <1>5. AloneAfter(new)
    BY <1>1 DEF AloneAfter
  <1> QED BY <1>4, <1>5, AloneStep

\* What is left of the file of an item, when the item is done.
LEMMA LeftOfItem ==
    ASSUME RewindIInv, RestoreOK, NEW e \in Execs, execs[e].pc = "write",
           NEW i \in Items, i = execs[e].item, i[1] \in Files \ touched, UNCHANGED operation, Set(i, "DONE")
    PROVE  /\ execs[e].read = files[i[1]] /\ LeftTo(i[1], Unfinished)
           /\ \A a \in {"RESTORE_PATH", "RESTORE_STATUS", "RESTORE_VERSION", "TRASH_NEW"} :
                 a # i[2] /\ <<i[1], a>> \in Unfinished => <<i[1], a>> \in Unfinished'
  <1>1. operation # Nothing /\ items[i] # "none" /\ AloneOK(execs[e])
    BY Alone, ExecParts DEF ExecOK
  <1>2. \A j \in Items : j # i => items'[j] = items[j]
    BY <1>1, ItemSet
  <1>3. LeftTo(i[1], Unfinished)
    BY <1>1 DEF RestoreOK
  <1>4. execs[e].read = files[i[1]]
    BY <1>1 DEF AloneOK
  <1>5. \A a : a # i[2] /\ <<i[1], a>> \in Unfinished => <<i[1], a>> \in Unfinished'
    BY <1>2 DEF Unfinished
  <1> QED BY <1>3, <1>4, <1>5

LEMMA RestoreWriteSimple ==
    ASSUME RewindIInv, RestoreOK, Single, NEW e \in Execs, WriteSimple(e) PROVE RestoreOK'
  <1>1. /\ execs[e] \in Exec /\ execs[e].pc = "write" /\ UNCHANGED <<versions, operation, people>>
    BY ExecParts DEF WriteSimple
  <1>2. PICK i : i = execs[e].item
    OBVIOUS
  <1>3. PICK row : row = Target(i, execs[e].read)
    OBVIOUS
  <1>4. /\ i \in Items /\ items[i] # "none" /\ i[2] # "NOOP" /\ i[1] \in Files /\ CanBePlanned(i)
        /\ files[i[1]] \in FileRow /\ i[2] # "RESTORE_VERSION"
    BY <1>1, <1>2, ItemAt DEF WriteSimple
  <1>5. CASE Refused(i[1], row)
    <2>1. UNCHANGED <<files, items>> /\ Proceed(e, "fail")
      BY <1>2, <1>3, <1>5 DEF WriteSimple
    <2>2. PICK new : new = [execs[e] EXCEPT !.pc = "fail"]
      OBVIOUS
    <2>3. new.pc = "fail" /\ Become(e, new)
      BY <1>1, <2>1, <2>2 DEF Exec, Proceed
    <2> QED BY <1>1, <2>1, <2>3, RestoreQuiet
  <1>6. CASE ~Refused(i[1], row)
    <2>1. /\ files' = [files EXCEPT ![i[1]].path = row.path, ![i[1]].status = row.status]
          /\ Set(i, "DONE") /\ Finished(e)
      BY <1>2, <1>3, <1>6 DEF WriteSimple
    <2>2. PICK new : new = [execs[e] EXCEPT !.pc = "item", !.item = Nothing, !.read = Nothing, !.done = TRUE]
      OBVIOUS
    <2>3. new.pc = "item" /\ Become(e, new)
      BY <1>1, <2>1, <2>2 DEF Exec, Finished
    <2>4. PICK written : written = [files[i[1]] EXCEPT !.path = row.path, !.status = row.status]
      OBVIOUS
    <2>5. /\ files'[i[1]] = written
          /\ \A f \in Files : f # i[1] => files'[f] = files[f] /\ versions'[f] = versions[f]
      BY <1>1, <1>4, <2>1, <2>4 DEF RewindIInv, RewindTypeOK
    <2>6. written.path = row.path /\ written.status = row.status /\ written.version = files[i[1]].version
      BY <1>4, <2>4 DEF FileRow
    <2>7. ASSUME i[1] \in Files \ touched PROVE LeftAfter(i[1], Unfinished')
      <3>1. PICK f : f = i[1]
        OBVIOUS
      <3>2. PICK rest : rest = Unfinished
        OBVIOUS
      <3>3. PICK more : more = Unfinished'
        OBVIOUS
      <3>4. /\ execs[e].read = files[f] /\ LeftTo(f, rest)
            /\ \A a \in {"RESTORE_PATH", "RESTORE_STATUS", "RESTORE_VERSION", "TRASH_NEW"} :
                  a # i[2] /\ <<f, a>> \in rest => <<f, a>> \in more
        BY <1>1, <1>2, <1>4, <2>1, <2>7, <3>1, <3>2, <3>3, LeftOfItem
      <3>5. /\ files[f] \in FileRow /\ files[f] # Nothing /\ files'[f] = written /\ versions'[f] = versions[f]
            /\ UNCHANGED snap /\ written # Nothing
        <4>1. written \in FileRow
          <5>1. row \in FileRow
            BY <1>1, <1>2, <1>3, <1>4, TargetRow
          <5> QED BY <1>4, <2>4, <5>1 DEF FileRow
        <4> QED BY <1>1, <1>4, <2>5, <3>1, <4>1, NothingAssumption DEF people
      <3>6. CASE i[2] = "RESTORE_PATH"
        <4>1. snap[f] # Nothing
          BY <1>4, <3>1, <3>6 DEF CanBePlanned
        <4>2. row = [files[f] EXCEPT !.path = snap[f].path]
          BY <1>3, <3>1, <3>4, <3>6 DEF Target
        <4>3. row.path = snap[f].path /\ row.status = files[f].status
          BY <3>5, <4>2 DEF FileRow
        <4>4. LeftAfter(f, more)
          BY <2>6, <3>1, <3>4, <3>5, <3>6, <4>1, <4>3 DEF LeftTo, LeftAfter
        <4> QED BY <3>1, <3>3, <4>4
      <3>7. CASE i[2] = "RESTORE_STATUS"
        <4>1. snap[f] # Nothing
          BY <1>4, <3>1, <3>7 DEF CanBePlanned
        <4>2. row = [files[f] EXCEPT !.status = snap[f].status]
          BY <1>3, <3>1, <3>4, <3>7 DEF Target
        <4>3. row.status = snap[f].status /\ row.path = files[f].path
          BY <3>5, <4>2 DEF FileRow
        <4>4. LeftAfter(f, more)
          BY <2>6, <3>1, <3>4, <3>5, <3>7, <4>1, <4>3 DEF LeftTo, LeftAfter
        <4> QED BY <3>1, <3>3, <4>4
      <3>8. CASE i[2] = "TRASH_NEW"
        <4>1. snap[f] = Nothing
          BY <1>4, <3>1, <3>8 DEF CanBePlanned
        <4>2. row = [files[f] EXCEPT !.status = "trashed"]
          BY <1>3, <3>1, <3>4, <3>8 DEF Target
        <4>3. row.status = "trashed"
          BY <3>5, <4>2 DEF FileRow
        <4>4. LeftAfter(f, more)
          BY <2>6, <3>1, <3>5, <4>1, <4>3 DEF LeftAfter
        <4> QED BY <3>1, <3>3, <4>4
      <3> QED BY <1>4, <3>6, <3>7, <3>8, ItemParts
    <2> QED BY <1>1, <1>2, <1>4, <2>1, <2>3, <2>5, <2>7, RestoreWritten
  <1> QED BY <1>5, <1>6

LEMMA RestoreWriteVersion ==
    ASSUME RewindIInv, RestoreOK, Single, NEW e \in Execs, WriteVersion(e) PROVE RestoreOK'
  <1>1. /\ execs[e] \in Exec /\ execs[e].pc = "write" /\ UNCHANGED <<operation, people>>
        /\ execs[e].item[2] = "RESTORE_VERSION" /\ RowsGrow
    BY ExecParts, WriteVersionStep DEF WriteVersion
  <1>2. PICK i : i = execs[e].item
    OBVIOUS
  <1>3. PICK f : f = i[1]
    OBVIOUS
  <1>4. PICK n : n = NextVersion(execs[e].read)
    OBVIOUS
  <1>5. /\ i \in Items /\ items[i] # "none" /\ i[2] = "RESTORE_VERSION" /\ f \in Files
        /\ CanBePlanned(i) /\ files[f] \in FileRow /\ files[f].version = Len(versions[f])
    BY <1>1, <1>2, <1>3, ItemAt
  <1>6. CASE VersionTaken(f, n)
    <2>1. UNCHANGED <<files, versions, items>> /\ Proceed(e, "fail")
      BY <1>2, <1>3, <1>4, <1>6 DEF WriteVersion
    <2>2. PICK new : new = [execs[e] EXCEPT !.pc = "fail"]
      OBVIOUS
    <2>3. new.pc = "fail" /\ Become(e, new)
      BY <1>1, <2>1, <2>2 DEF Exec, Proceed
    <2> QED BY <1>1, <2>1, <2>3, RestoreQuiet
  <1>7. CASE ~VersionTaken(f, n)
    <2>1. PICK stored : stored = versions[f][snap[f].version]
      OBVIOUS
    <2>2. PICK list : list = [k \in DOMAIN versions[f] \cup {n} |-> IF k = n THEN stored ELSE versions[f][k]]
      OBVIOUS
    <2>3. /\ versions' = [versions EXCEPT ![f] = list]
          /\ files' = [files EXCEPT ![f].version = IF @ = n - 1 THEN n ELSE @]
          /\ Set(i, "DONE") /\ Finished(e)
      BY <1>2, <1>3, <1>4, <1>7, <2>1, <2>2 DEF WriteVersion, RewindIInv, RewindTypeOK
    <2>4. PICK new : new = [execs[e] EXCEPT !.pc = "item", !.item = Nothing, !.read = Nothing, !.done = TRUE]
      OBVIOUS
    <2>5. new.pc = "item" /\ Become(e, new)
      BY <1>1, <2>3, <2>4 DEF Exec, Finished
    <2>6. \A g \in Files : g # f => files'[g] = files[g] /\ versions'[g] = versions[g]
      BY <2>3 DEF RewindIInv, RewindTypeOK
    <2>7. ASSUME f \in Files \ touched PROVE LeftAfter(f, Unfinished')
      <3>1. PICK rest : rest = Unfinished
        OBVIOUS
      <3>2. PICK more : more = Unfinished'
        OBVIOUS
      <3>3. /\ execs[e].read = files[f] /\ LeftTo(f, rest)
            /\ \A a \in {"RESTORE_PATH", "RESTORE_STATUS", "RESTORE_VERSION", "TRASH_NEW"} :
                  a # i[2] /\ <<f, a>> \in rest => <<f, a>> \in more
        BY <1>1, <1>2, <1>3, <1>5, <2>3, <2>7, <3>1, <3>2, LeftOfItem
      <3>4. snap[f] # Nothing /\ snap[f].version \in 1 .. Len(versions[f]) /\ UNCHANGED snap
        BY <1>1, <1>3, <1>5 DEF CanBePlanned, RewindIInv, VersionsOK, people
      <3>5. files[f].version \in Nat /\ n = files[f].version + 1 /\ DOMAIN versions[f] = 1 .. Len(versions[f])
        BY <1>4, <1>5, <3>3, RowParts DEF NextVersion, FileRow
      <3>6. files'[f] = [files[f] EXCEPT !.version = n]
        BY <1>5, <2>3, <3>5 DEF RewindIInv, RewindTypeOK
      <3>7. files'[f].version = n /\ files'[f].path = files[f].path /\ files'[f].status = files[f].status
        BY <1>5, <3>6 DEF FileRow
      <3>8. versions'[f] = list
        BY <1>5, <2>3 DEF RewindIInv, RewindTypeOK
      <3>9. list[n] = stored /\ list[snap[f].version] = versions[f][snap[f].version]
        BY <1>5, <2>1, <2>2, <3>4, <3>5
      <3>10. LeftAfter(f, more)
        BY <1>5, <2>1, <3>3, <3>4, <3>7, <3>8, <3>9 DEF LeftTo, LeftAfter
      <3> QED BY <3>2, <3>10
    <2> QED BY <1>1, <1>2, <1>3, <1>5, <2>3, <2>5, <2>6, <2>7, RestoreWritten
  <1> QED BY <1>6, <1>7

LEMMA RestorePeople ==
    ASSUME RewindIInv, RestoreOK, People PROVE RestoreOK'
  <1>1. PICK f \in Files :
            \/ \E p \in Paths : Rename(f, p) \/ Reserve(f, p)
            \/ Bin(f, "active", "trashed") \/ Bin(f, "trashed", "active") \/ Bin(f, "trashed", "deleted")
            \/ Commit(f) \/ Abandon(f)
    BY DEF People
  <1>2. UNCHANGED <<snap, operation, items, execs>>
    BY <1>1 DEF Rename, Reserve, Bin, Commit, Abandon, Write
  <1>3. touched \subseteq touched'
    BY <1>1 DEF Rename, Reserve, Bin, Commit, Abandon, Write
  <1>4. \A g \in Files : g # f => files'[g] = files[g] /\ versions'[g] = versions[g]
    BY <1>1 DEF Rename, Reserve, Bin, Commit, Abandon, Write, RewindIInv, RewindTypeOK
  <1>5. \/ UNCHANGED <<files, versions>>
        \/ Planning => f \in touched'
    BY <1>1 DEF Rename, Reserve, Bin, Commit, Abandon, Write
  <1>6. Planning => \A g \in Files \ touched' : files'[g] = files[g] /\ versions'[g] = versions[g]
    BY <1>4, <1>5
  <1>7. Unfinished' = Unfinished
    BY <1>2 DEF Unfinished
  <1>8. OperationAfter
    <2>1. ASSUME operation' # Nothing, NEW g \in Files \ touched' PROVE LeftAfter(g, Unfinished')
      <3>1. files'[g] = files[g] /\ versions'[g] = versions[g] /\ LeftTo(g, Unfinished)
        BY <1>2, <1>3, <1>6, <2>1 DEF Planning, RestoreOK
      <3> QED BY <1>2, <1>7, <3>1 DEF LeftTo, LeftAfter
    <2> QED BY <1>2, <1>7, <2>1 DEF OperationAfter, RestoreOK
  <1>9. ASSUME NEW e \in Execs PROVE AloneAfter(execs'[e])
    <2>1. PICK exec : exec = execs[e] /\ exec = execs'[e]
      BY <1>2
    <2>2. AloneOK(exec) /\ ExecOK(exec)
      BY <2>1, Alone, ExecParts
    <2>3. exec.pc = "insert" /\ operation' = Nothing => \A g \in Files \ touched' : LeftAfter(g, exec.todo)
      <3> SUFFICES ASSUME exec.pc = "insert", operation' = Nothing, NEW g \in Files \ touched'
                   PROVE  LeftAfter(g, exec.todo)
        OBVIOUS
      <3>1. files'[g] = files[g] /\ versions'[g] = versions[g]
        BY <1>6, <2>1 DEF Planning
      <3>2. LeftTo(g, exec.todo)
        BY <1>2, <1>3, <2>2 DEF AloneOK
      <3> QED BY <1>2, <3>1, <3>2 DEF LeftTo, LeftAfter
    <2>4. exec.pc = "write" /\ exec.item[1] \notin touched' => exec.read = files'[exec.item[1]]
      <3> SUFFICES ASSUME exec.pc = "write", exec.item[1] \notin touched'
                   PROVE  exec.read = files'[exec.item[1]]
        OBVIOUS
      <3>1. operation # Nothing /\ exec.item[1] \in Files
        BY <2>2, ItemParts DEF ExecOK
      <3>2. files'[exec.item[1]] = files[exec.item[1]]
        BY <1>6, <3>1 DEF Planning
      <3> QED BY <1>3, <2>2, <3>2 DEF AloneOK
    <2>5. AloneAfter(exec)
      BY <1>2, <1>7, <2>2, <2>3, <2>4 DEF AloneAfter, AloneOK
    <2> QED BY <2>1, <2>5
  <1> QED BY <1>8, <1>9, RestoreAfter

LEMMA RestoreInit == RewindInit => RestoreOK
  <1> SUFFICES ASSUME RewindInit PROVE RestoreOK
    OBVIOUS
  <1>1. operation = Nothing /\ operation # "COMPLETED" /\ \A e \in Execs : execs[e].pc = "idle"
    BY NothingAssumption DEF RewindInit, Idle, Outcomes
  <1> QED BY <1>1 DEF RestoreOK, AloneOK

LEMMA RestoreNext ==
    ASSUME Single, RewindIInv, RestoreOK, [RewindNext]_rewindVars PROVE RestoreOK'
  <1>1. CASE People
    BY <1>1, RestorePeople
  <1>2. ASSUME NEW e \in Execs, Plan(e) \/ StorageFails(e) \/ StopExec(e) PROVE RestoreOK'
    BY <1>2, RestorePlan, RestoreFails, RestoreStop
  <1>3. ASSUME NEW e \in Execs, Work(e) PROVE RestoreOK'
    BY <1>3, RestoreInsert, RestoreStart, RestoreRun, RestoreList, RestoreTake, RestoreRead,
       RestoreWriteSimple, RestoreWriteVersion, RestoreMark, RestoreCount, RestoreFinish DEF Work
  <1>4. ASSUME NEW e \in Execs, NEW retry \in BOOLEAN, Again(e, retry) PROVE RestoreOK'
    BY <1>4, RestoreAgain
  <1>5. CASE UNCHANGED rewindVars
    BY <1>5 DEF rewindVars, RestoreOK, AloneOK, LeftTo, Unfinished
  <1> QED BY <1>1, <1>2, <1>3, <1>4, <1>5 DEF RewindNext

LEMMA RestoredAtEnd == RestoreOK => CompletedIsRestored
  <1> SUFFICES ASSUME RestoreOK, operation = "COMPLETED", NEW f \in Files \ touched, operation # Nothing
               PROVE  Restored(f)
    BY NothingAssumption DEF CompletedIsRestored, Outcomes
  <1>1. Unfinished = {} /\ LeftTo(f, Unfinished)
    BY DEF RestoreOK
  <1> QED BY <1>1 DEF LeftTo, Restored

\* When one request executes the operation at a time, a completed rewind has put
\* back each file nobody has touched since the plan: whatever the files of the
\* workspace, wherever the Worker dies or the storage fails, and however often
\* the operation is retried (executeRewindOperation).  With two requests at a
\* time it is false: the row one of them has read is written after the other
\* has completed the operation.
THEOREM RewindRestores ==
    ASSUME Single PROVE RewindSpec => []CompletedIsRestored
  <1>1. RewindInit => RestoreOK
    BY RestoreInit
  <1>2. RewindIInv /\ RestoreOK /\ [RewindNext]_rewindVars => RestoreOK'
    BY RestoreNext
  <1>3. RestoreOK => CompletedIsRestored
    BY RestoredAtEnd
  <1> QED BY <1>1, <1>2, <1>3, RewindInductive, PTL DEF RewindSpec
=============================================================================
