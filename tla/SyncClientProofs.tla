-------------------------- MODULE SyncClientProofs --------------------------
(***************************************************************************)
(* What the desktop's sync engine promises in every world, for any set of  *)
(* contents and any bounds.                                                *)
(*                                                                         *)
(* The invariant is a conjunction of parts, one for each memory of the     *)
(* client, and most of them only depend on that memory and on the cloud,   *)
(* whose versions stay (Later).  A step therefore needs a proof for the    *)
(* parts it writes; Frame carries the others over.                         *)
(***************************************************************************)
EXTENDS SyncClient, TLAPS

CloudPart ==
    /\ cloud \in Seq([hash : Hashes, by : {"client", "other"}]) /\ Known \in Versions
    /\ seen \subseteq Versions
    /\ CloudOK
IntentsPart ==
    /\ DOMAIN intents \subseteq Key /\ late \subseteq DOMAIN intents
    /\ \A k \in DOMAIN intents :
          intents[k] \in [status : {"reserved", "uploaded", "committed", "abandoned"},
                          hash : Hashes, base : Versions]
    /\ IntentsOK
FilesPart == disk \in Contents /\ copies \subseteq Hashes
RowType == [version : Versions, hash : Contents, status : SyncStatus]
RowPart == row \in RowType /\ RowOK
StatePart == state \in [last : Contents, exists : BOOLEAN]
JobType == [id : JobIds, hash : Contents, base : Versions, key : Key,
            fresh : BOOLEAN, status : SyncStatus, copy : Contents]
JobsPart == jobs \subseteq JobType /\ JobsOK
RunType == [stage : {"idle", "verify", "reread", "preflight", "upload", "commit", "synced",
                     "copy", "fetch", "record"},
            id : JobIds \cup {0}, hash : Contents, base : Versions, key : Key,
            fresh : BOOLEAN, reused : BOOLEAN, caught : BOOLEAN, known : Contents,
            version : Versions]
RunPart == run \in RunType /\ RunOK
PullPart ==
    pull \in [stage : {"idle", "list", "write", "record"}, version : Versions, hash : Contents]
    /\ PullOK
ResolveType == [stage : {"idle", "record", "choose", "end", "requeue"}, version : Versions,
                hash : Contents, id : JobIds \cup {0}, copy : Contents]
ResolvePart == resolve \in ResolveType /\ ResolveOK
WatchPart == hashed \in Contents /\ event \in BOOLEAN /\ gone \in BOOLEAN /\ quiet \in BOOLEAN

LEMMA Parts ==
    IInv <=> /\ scene \in Scenes
             /\ CloudPart /\ IntentsPart /\ FilesPart /\ RowPart /\ StatePart /\ JobsPart
             /\ RunPart /\ PullPart /\ ResolvePart /\ WatchPart
             /\ UploadingIsAtWork /\ CopiesOK /\ KeptOK
  BY DEF IInv, TypeOK, CloudPart, IntentsPart, FilesPart, RowPart, RowType, StatePart, JobsPart,
         JobType, RunPart, RunType, PullPart, ResolvePart, ResolveType, WatchPart

LEMMA SceneType ==
    ASSUME scene \in Scenes
    PROVE  MaxVersion \in Nat /\ scene.jobs \in Nat /\ 0 \in Versions /\ 0 \notin JobIds
  BY SceneAssumption DEF MaxVersion, Versions, JobIds

-----------------------------------------------------------------------------
(* Steps leave what the cloud has, and only add to what was on the disk.   *)

Later ==
    /\ scene' = scene
    /\ Known \in Nat /\ Known' \in Nat /\ Known <= Known'
    /\ \A v \in 1..Known : cloud'[v] = cloud[v]
    /\ seen \subseteq seen'

LEMMA SameCloud ==
    ASSUME CloudPart, UNCHANGED <<scene, cloud>>, seen \subseteq seen'
    PROVE  Later
  BY DEF CloudPart, Later, Known

LEMMA LongerCloud ==
    ASSUME CloudPart, UNCHANGED <<scene, seen>>,
           NEW e \in [hash : Hashes, by : {"client", "other"}], cloud' = Append(cloud, e)
    PROVE  /\ Later
           /\ Known' = Known + 1 /\ cloud'[Known + 1] = e
           /\ cloud' \in Seq([hash : Hashes, by : {"client", "other"}])
  BY DEF CloudPart, Later, Known

LEMMA VersionStays ==
    ASSUME Later, NEW v, NEW h, IsVersion(v, h)
    PROVE  v \in 1..Known' /\ cloud'[v].hash = h /\ cloud'[v] = cloud[v]
  BY DEF Later, IsVersion

LEMMA MetStays ==
    ASSUME Later, NEW b, Met(b), b > 0 => b \in 1..Known
    PROVE  Met(b)'
  BY DEF Later, Met, Orderly, World

LEMMA BasedStays ==
    ASSUME Later, NEW b, Based(b)
    PROVE  Based(b)'
  <1>1. b \in 0..Known /\ b \in 0..Known'
    BY DEF Based, Later
  <1>2. Met(b)'
    BY <1>1, MetStays DEF Based
  <1> QED BY <1>1, <1>2 DEF Based

LEMMA IntentStays ==
    ASSUME Later, MaxVersion' = MaxVersion, NEW i, IntentOK(i)
    PROVE  IntentOK(i)'
  <1>1. Based(i.base)'
    BY BasedStays DEF IntentOK
  <1>2. i.base > 0 => cloud'[i.base].hash # i.hash
    BY DEF IntentOK, Based, Later
  <1> QED BY <1>1, <1>2 DEF IntentOK, Based, Later

LEMMA RowStays ==
    ASSUME Later, RowPart, row' \in RowType, row'.version = row.version, row'.hash = row.hash
    PROVE  RowPart' /\ \A b \in {row.version} : Based(b)'
  <1>1. row.version > 0 => row.version \in 1..Known' /\ cloud'[row.version].hash = row.hash
    BY VersionStays DEF RowPart, RowOK, IsVersion
  <1>2. \A b \in {row.version} : Met(b)'
    BY MetStays DEF RowPart, RowOK, IsVersion
  <1>3. RowOK'
    BY <1>1, <1>2 DEF RowOK, IsVersion, Met, Later
  <1>4. RowType' = RowType
    BY DEF Later, RowType, Versions, MaxVersion
  <1>5. RowPart'
    BY <1>3, <1>4 DEF RowPart
  <1>6. row.version \in 0..Known'
    BY <1>1 DEF RowPart, RowType, Later, Versions
  <1> QED BY <1>2, <1>5, <1>6 DEF Based

LEMMA PullStays ==
    ASSUME Later, PullPart, pull' = pull
    PROVE  PullPart'
  <1>1. pull.stage # "idle" => IsVersion(pull.version, pull.hash)'
    BY VersionStays DEF PullPart, PullOK, IsVersion
  <1>2. pull.stage = "record" => Met(pull.version)'
    BY MetStays DEF PullPart, PullOK, IsVersion
  <1> QED BY <1>1, <1>2 DEF PullPart, PullOK, Later, Versions, MaxVersion, World

LEMMA ResolveStays ==
    ASSUME Later, ResolvePart, resolve' = resolve
    PROVE  ResolvePart'
  <1>1. resolve.stage = "record" => IsVersion(resolve.version, resolve.hash)' /\ Met(resolve.version)'
    BY VersionStays, MetStays DEF ResolvePart, ResolveOK, IsVersion
  <1> QED BY <1>1 DEF ResolvePart, ResolveType, ResolveOK, Later, Versions, MaxVersion, World, JobIds

LEMMA JobsStay ==
    ASSUME Later, JobsPart, jobs' = jobs
    PROVE  JobsPart'
  BY BasedStays DEF JobsPart, JobsOK, JobType, Later, JobIds, Versions, MaxVersion, Key

LEMMA IntentsStay ==
    ASSUME Later, IntentsPart, intents' = intents, late' \subseteq late
    PROVE  IntentsPart'
  <1>1. MaxVersion' = MaxVersion /\ Key' = Key /\ Versions' = Versions /\ World' = World
    BY DEF Later, MaxVersion, Key, Versions, JobIds, World
  <1>2. IntentsOK'
    BY <1>1, IntentStays DEF IntentsPart, IntentsOK
  <1> QED BY <1>1, <1>2 DEF IntentsPart

\* The intents stay as they are to the job at work.
SameIntents ==
    /\ DOMAIN intents \subseteq DOMAIN intents'
    /\ \A k \in DOMAIN intents :
          /\ intents'[k].hash = intents[k].hash /\ intents'[k].base = intents[k].base
          /\ intents'[k].status = "reserved" <=> intents[k].status = "reserved"
          /\ intents'[k].status = "committed" =>
                intents[k].status = "committed" \/ "late" \in World

LEMMA RunStays ==
    ASSUME Later, RunPart, run' = run, SameIntents,
           copies \subseteq copies' \/ (run.stage \in {"fetch", "record"} => run.hash \in copies')
    PROVE  RunPart'
  <1>1. run.stage \in {"synced", "record"} => IsVersion(run.version, run.known)'
    BY VersionStays DEF RunPart, RunOK, IsVersion
  <1>2. Based(run.base)'
    BY BasedStays DEF RunPart, RunOK
  <1>3. /\ run.stage = "synced" => run.known = run.hash \/ Met(run.version)'
        /\ run.stage = "record" => Met(run.version)'
    BY MetStays DEF RunPart, RunOK, IsVersion
  <1>4. run \in RunType'
    BY DEF RunPart, RunType, Later, Key, JobIds, Versions, MaxVersion
  <1>5. RunOK'
    BY <1>1, <1>2, <1>3 DEF RunPart, RunOK, SameIntents, Later, World
  <1> QED BY <1>4, <1>5 DEF RunPart

-----------------------------------------------------------------------------
(* The parts that relate several memories                                  *)

\* No job becomes one at work or in conflict.
Calm ==
    \A j \in jobs' : j.status \in {"UPLOADING", "CONFLICT"} =>
        \E i \in jobs : i.id = j.id /\ i.status = j.status /\ i.copy = j.copy

LEMMA CalmUploading ==
    ASSUME UploadingIsAtWork, scene' = scene, Calm,
           run'.id = run.id \/ \A j \in jobs' : j.id = run.id => j.status # "UPLOADING"
    PROVE  UploadingIsAtWork'
  BY DEF UploadingIsAtWork, Calm, World

LEMMA CalmCopies ==
    ASSUME CopiesOK, scene' = scene, Calm, copies \subseteq copies', resolve' = resolve
    PROVE  CopiesOK'
  BY DEF CopiesOK, ConflictHasCopy, Calm, World

\* A client that has something of the file knows it, and goes on knowing.
LEMMA KeptBusy ==
    ASSUME KeptOK, ~Blank, scene' = scene, gone' => gone,
           state'.exists \/ state' = state, disk' = disk \/ disk' # Null
    PROVE  KeptOK'
  BY DEF KeptOK, World

LEMMA KeptStays ==
    ASSUME KeptOK, UNCHANGED <<scene, gone, state, row, jobs, run, cloud, intents, disk, event, hashed>>
    PROVE  KeptOK'
  BY DEF KeptOK, World, Blank

\* A step preserves the invariant when it keeps or re-establishes each part.
LEMMA Frame ==
    ASSUME IInv, Later,
           UNCHANGED <<cloud, seen>> \/ CloudPart',
           (UNCHANGED intents /\ late' \subseteq late) \/ IntentsPart',
           UNCHANGED <<disk, copies>> \/ FilesPart',
           UNCHANGED row \/ RowPart',
           UNCHANGED state \/ StatePart',
           UNCHANGED jobs \/ JobsPart',
           UNCHANGED <<run, intents, copies>> \/ RunPart',
           UNCHANGED pull \/ PullPart',
           UNCHANGED resolve \/ ResolvePart',
           UNCHANGED <<hashed, event, gone, quiet>> \/ WatchPart',
           UNCHANGED <<jobs, run>> \/ UploadingIsAtWork',
           UNCHANGED <<jobs, resolve, copies>> \/ CopiesOK',
           UNCHANGED <<gone, state, row, jobs, run, cloud, intents, disk, event, hashed>> \/ KeptOK'
    PROVE  IInv'
  <1>0. scene' = scene
    BY DEF Later
  <1>1. CloudPart'
    BY <1>0, Parts DEF CloudPart, CloudOK, NoDuplicateVersion, SeenBeforeOverwritten, Known,
                       Versions, MaxVersion, Orderly, World
  <1>2. IntentsPart'
    BY Parts, IntentsStay
  <1>3. FilesPart'
    BY Parts DEF FilesPart
  <1>4. RowPart' /\ JobsPart' /\ PullPart' /\ ResolvePart'
    BY Parts, RowStays, JobsStay, PullStays, ResolveStays DEF RowPart
  <1>5. StatePart' /\ WatchPart'
    BY Parts DEF StatePart, WatchPart
  <1>6. CASE RunPart'
    <2>1. UploadingIsAtWork' /\ CopiesOK' /\ KeptOK'
      BY <1>0, Parts, KeptStays DEF UploadingIsAtWork, CopiesOK, ConflictHasCopy, World
    <2>2. scene' \in Scenes
      BY <1>0, Parts
    <2> QED
      BY <1>1, <1>2, <1>3, <1>4, <1>5, <1>6, <2>1, <2>2
      DEF IInv, TypeOK, CloudPart, IntentsPart, FilesPart, RowPart, RowType, StatePart, JobsPart,
          JobType, RunPart, RunType, PullPart, ResolvePart, ResolveType, WatchPart
  <1>7. CASE UNCHANGED <<run, intents, copies>>
    <2>1. SameIntents
      BY <1>7 DEF SameIntents
    <2>2. RunPart'
      BY <1>7, <2>1, Parts, RunStays
    <2> QED BY <1>6, <2>2
  <1> QED BY <1>6, <1>7

\* The engine between two jobs has nothing that could go out of date.
LEMMA AtRestOK ==
    ASSUME scene \in Scenes, Later, run' = Idle \/ run' = [Idle EXCEPT !.stage = "reread"]
    PROVE  RunPart' /\ run'.id = 0
  <1>1. run'.stage \in {"idle", "reread"} /\ run'.id = 0 /\ run'.base = 0
    BY DEF Idle
  <1>2. run' \in RunType
    <2>1. Idle \in RunType
      BY SceneType DEF Idle, KeyOf, RunType, Contents, Key
    <2>2. [Idle EXCEPT !.stage = "reread"] \in RunType
      BY <2>1 DEF RunType
    <2> QED BY <2>1, <2>2
  <1>3. RunType' = RunType
    BY DEF Later, RunType, Key, JobIds, Versions, MaxVersion
  <1>4. RunOK'
    BY <1>1 DEF RunOK, Based, Met, Later
  <1> QED BY <1>1, <1>2, <1>3, <1>4 DEF RunPart

-----------------------------------------------------------------------------
(* The user, the watcher and the queue                                     *)

LEMMA SaveStep ==
    ASSUME IInv, scene' = scene, NEW h \in Hashes, Save(h)
    PROVE  IInv'
  <1>1. Later
    BY Parts, SameCloud DEF Save, server
  <1>2. FilesPart' /\ WatchPart'
    BY Parts DEF Save, FilesPart, WatchPart, Contents
  <1>3. KeptOK'
    BY Parts, NullAssumption DEF Save, KeptOK, Blank, server, local, World
  <1>4. RunPart' /\ CopiesOK'
    BY <1>1, Parts, RunStays DEF Save, SameIntents, server, local, CopiesOK, ConflictHasCopy, World
  <1> QED BY <1>1, <1>2, <1>3, <1>4, Frame DEF Save, server, local

LEMMA RemoveStep ==
    ASSUME IInv, scene' = scene, Remove
    PROVE  IInv'
  <1>1. Later
    BY Parts, SameCloud DEF Remove, server
  <1>2. FilesPart' /\ WatchPart'
    BY Parts DEF Remove, FilesPart, WatchPart, Contents
  <1>3. KeptOK'
    BY DEF Remove, KeptOK, World
  <1>4. RunPart' /\ CopiesOK'
    BY <1>1, Parts, RunStays DEF Remove, SameIntents, server, local, CopiesOK, ConflictHasCopy, World
  <1> QED BY <1>1, <1>2, <1>3, <1>4, Frame DEF Remove, server, local

LEMMA UnsuppressStep ==
    ASSUME IInv, scene' = scene, Unsuppress
    PROVE  IInv'
  <1>1. Later
    BY Parts, SameCloud DEF Unsuppress, server
  <1>2. WatchPart'
    BY Parts DEF Unsuppress, WatchPart
  <1> QED BY <1>1, <1>2, Frame DEF Unsuppress, server, files, local

LEMMA HandleReadyStep ==
    ASSUME IInv, scene' = scene, HandleReady
    PROVE  IInv'
  <1>1. Later
    BY Parts, SameCloud DEF HandleReady, server
  <1>2. WatchPart'
    BY Parts DEF HandleReady, WatchPart, FilesPart
  <1>3. KeptOK'
    BY Parts DEF HandleReady, KeptOK, Blank, server, files, local, World
  <1> QED BY <1>1, <1>2, <1>3, Frame DEF HandleReady, server, files, local

\* A new row of the queue is on top of the recorded version.
LEMMA Queued ==
    ASSUME IInv, Later, NEW h \in Hashes, QueueUpsert(h)
    PROVE  /\ RowPart' /\ StatePart' /\ JobsPart' /\ Calm
           /\ state'.exists
  <1>. JobIds' = JobIds /\ Versions' = Versions /\ Key' = Key /\ JobType' = JobType
    BY DEF Later, JobIds, Versions, Key, JobType, MaxVersion
  <1>1. row \in RowType /\ h \in Contents /\ 0 \in Versions
    BY Parts, SceneType DEF RowPart, Contents
  <1>2. row' \in RowType /\ row'.version = row.version /\ row'.hash = row.hash
    BY <1>1 DEF QueueUpsert, Ensured, Mark, RowType, SyncStatus
  <1>3. RowPart' /\ \A b \in {row.version} : Based(b)'
    BY <1>2, Parts, RowStays
  <1>4. StatePart' /\ state'.exists
    BY <1>1 DEF QueueUpsert, Seeing, StatePart
  <1>6. \A j \in jobs : Based(j.base)' /\ j \in JobType
    BY Parts, BasedStays DEF JobsPart, JobsOK
  <1>7. JobsPart' /\ Calm
    <2>1. CASE UNCHANGED jobs
      BY <2>1, <1>6 DEF JobsPart, JobsOK, Calm
    <2>2. CASE \E j \in Unhashed : jobs' = Replace(j, [j EXCEPT !.hash = h, !.base = row.version,
                                                                !.status = "PENDING"])
      <3>1. PICK j \in jobs : jobs' = Replace(j, [j EXCEPT !.hash = h, !.base = row.version,
                                                           !.status = "PENDING"])
        BY <2>2 DEF Unhashed
      <3>. DEFINE new == [j EXCEPT !.hash = h, !.base = row.version, !.status = "PENDING"]
      <3>2. new \in JobType /\ new.base = row.version /\ new.status = "PENDING"
        BY <1>6, <1>1 DEF JobType, RowType, SyncStatus
      <3>3. \A i \in jobs' : i \in jobs \/ i = new
        BY <3>1 DEF Replace
      <3>. HIDE DEF new
      <3> QED BY <3>2, <3>3, <1>3, <1>6 DEF JobsPart, JobsOK, Calm
    <2>3. CASE \E i \in FreshIds : jobs' = jobs \cup {NewJob(i, h, row.version, "PENDING")}
      <3>1. PICK i \in JobIds : jobs' = jobs \cup {NewJob(i, h, row.version, "PENDING")}
        BY <2>3 DEF FreshIds
      <3>. DEFINE new == NewJob(i, h, row.version, "PENDING")
      <3>2. new \in JobType /\ new.base = row.version /\ new.status = "PENDING"
        BY <1>1 DEF JobType, RowType, SyncStatus, NewJob, KeyOf, Key, Contents
      <3>3. \A k \in jobs' : k \in jobs \/ k = new
        BY <3>1
      <3>. HIDE DEF new
      <3> QED BY <3>2, <3>3, <1>3, <1>6 DEF JobsPart, JobsOK, Calm
    <2> QED BY <2>1, <2>2, <2>3 DEF QueueUpsert
  <1> QED BY <1>3, <1>4, <1>7

LEMMA HandleQueueStep ==
    ASSUME IInv, scene' = scene, HandleQueue
    PROVE  IInv'
  <1>1. Later
    BY Parts, SameCloud DEF HandleQueue, server
  <1>2. hashed \in Hashes
    BY Parts DEF HandleQueue, WatchPart, Contents
  <1>3. RowPart' /\ StatePart' /\ JobsPart' /\ Calm /\ state'.exists
    BY <1>1, <1>2, Queued DEF HandleQueue
  <1>4. UploadingIsAtWork' /\ CopiesOK'
    BY <1>3, Parts, CalmUploading, CalmCopies DEF HandleQueue, files
  <1>5. KeptOK'
    BY <1>3, <1>2, Parts, NullAssumption DEF HandleQueue, KeptOK, files, watch, World
  <1>6. WatchPart'
    BY Parts DEF HandleQueue, WatchPart, watch, Contents
  <1> QED BY <1>1, <1>3, <1>4, <1>5, <1>6, Frame DEF HandleQueue, server, files, watch

\* A table whose rows are old ones, changed in other columns than the base.
LEMMA JobTable ==
    ASSUME IInv, Later,
           \A j \in jobs' : (j \in JobType /\ (\E i \in jobs : i.base = j.base)) \/ j \in jobs
    PROVE  JobsPart'
  <1>1. JobType' = JobType
    BY DEF Later, JobIds, Versions, Key, JobType, MaxVersion
  <1>2. \A i \in jobs : i \in JobType /\ Based(i.base)'
    BY Parts, BasedStays DEF JobsPart, JobsOK
  <1> QED BY <1>1, <1>2 DEF JobsPart, JobsOK

LEMMA MarkedRow ==
    ASSUME IInv, Later, NEW s \in SyncStatus, row' = Mark(s)
    PROVE  RowPart' /\ row'.version = row.version
  <1>1. row' \in RowType /\ row'.version = row.version /\ row'.hash = row.hash
    BY Parts DEF Mark, RowPart, RowType
  <1> QED BY <1>1, Parts, RowStays

LEMMA HandleLockedStep ==
    ASSUME IInv, scene' = scene, HandleLocked
    PROVE  IInv'
  <1>1. Later
    BY Parts, SameCloud DEF HandleLocked, server
  <1>2. WatchPart' /\ UNCHANGED <<files, server, run, pull, resolve, gone, hashed, seen>>
    BY Parts DEF HandleLocked, QueueWaiting, WatchPart
  <1>3. StatePart' /\ (row = NoRow => state'.exists) /\ (row # NoRow => state' = state)
    BY Parts DEF HandleLocked, EnsureWaiting, Seeing, StatePart, Contents
  <1>4. UNCHANGED row \/ row' = Mark("RETRY_WAIT")
    BY DEF HandleLocked, QueueWaiting
  <1>5. RowPart'
    BY <1>1, <1>4, Parts, MarkedRow, RowStays DEF RowPart, SyncStatus
  <1>6. UNCHANGED jobs => JobsPart' /\ Calm
    BY <1>1, Parts, JobsStay DEF Calm
  <1>7. ASSUME \E j \in jobs : j.status \in Waiting
                              /\ jobs' = Replace(j, [j EXCEPT !.status = "RETRY_WAIT"])
        PROVE  JobsPart' /\ Calm
    <2>1. PICK j \in jobs : jobs' = Replace(j, [j EXCEPT !.status = "RETRY_WAIT"])
      BY <1>7
    <2>. DEFINE new == [j EXCEPT !.status = "RETRY_WAIT"]
    <2>2. new \in JobType /\ new.base = j.base /\ new.status = "RETRY_WAIT"
      BY Parts DEF JobsPart, JobType, SyncStatus
    <2>3. \A i \in jobs' : i \in jobs \/ i = new
      BY <2>1 DEF Replace
    <2>. HIDE DEF new
    <2> QED BY <1>1, <2>2, <2>3, JobTable DEF Calm
  <1>8. ASSUME \E i \in FreshIds : jobs' = jobs \cup {NewJob(i, Null, row.version, "RETRY_WAIT")}
        PROVE  JobsPart' /\ Calm
    <2>1. PICK i \in JobIds : jobs' = jobs \cup {NewJob(i, Null, row.version, "RETRY_WAIT")}
      BY <1>8 DEF FreshIds
    <2>. DEFINE new == NewJob(i, Null, row.version, "RETRY_WAIT")
    <2>2. new \in JobType /\ new.base = row.version /\ new.status = "RETRY_WAIT"
      BY Parts, SceneType
      DEF RowPart, RowType, JobType, SyncStatus, NewJob, KeyOf, Key, Contents
    <2>3. \A k \in jobs' : k \in jobs \/ k = new
      BY <2>1
    <2>4. \A b \in {row.version} : Based(b)'
      <3>1. Based(row.version)
        BY <1>1, Parts DEF RowPart, RowOK, Based, IsVersion, RowType, Versions, Later
      <3> QED BY <1>1, <3>1, BasedStays
    <2>5. \A k \in jobs : k \in JobType /\ Based(k.base)'
      BY <1>1, Parts, BasedStays DEF JobsPart, JobsOK
    <2>6. JobType' = JobType
      BY <1>1 DEF Later, JobIds, Versions, Key, JobType, MaxVersion
    <2>. HIDE DEF new
    <2> QED BY <2>2, <2>3, <2>4, <2>5, <2>6 DEF JobsPart, JobsOK, Calm
  <1>9. JobsPart' /\ Calm
    BY <1>6, <1>7, <1>8 DEF HandleLocked, QueueWaiting
  <1>10. UploadingIsAtWork' /\ CopiesOK'
    BY <1>2, <1>9, Parts, CalmUploading, CalmCopies DEF files
  <1>11. KeptOK'
    BY <1>2, <1>3, Parts DEF KeptOK, HandleLocked, QueueWaiting, files, World, Blank
  <1> QED BY <1>1, <1>2, <1>3, <1>5, <1>9, <1>10, <1>11, Frame DEF server, files

LEMMA NothingQueued ==
    ASSUME IInv, scene' = scene, jobs' = {}, copies \subseteq copies', resolve' = resolve
    PROVE  JobsPart' /\ UploadingIsAtWork' /\ CopiesOK'
  BY DEF JobsPart, JobsOK, UploadingIsAtWork, CopiesOK, ConflictHasCopy

LEMMA HandleDeletedStep ==
    ASSUME IInv, scene' = scene, HandleDeleted
    PROVE  IInv'
  <1>1. Later
    BY Parts, SameCloud DEF HandleDeleted, server
  <1>2. WatchPart'
    BY Parts DEF HandleDeleted, WatchPart
  <1>3. KeptOK'
    BY Parts DEF HandleDeleted, KeptOK, World
  <1>4. CASE quiet
    BY <1>1, <1>2, <1>3, <1>4, Frame DEF HandleDeleted, server, files, local
  <1>5. CASE ~quiet
    <2>1. state' = [state EXCEPT !.exists = FALSE] /\ jobs' = {} /\ row' = Mark("SYNCED")
      BY <1>5 DEF HandleDeleted, Missing
    <2>2. StatePart' /\ RowPart'
      BY <2>1, <1>1, Parts, MarkedRow DEF StatePart, SyncStatus
    <2>3. JobsPart' /\ UploadingIsAtWork' /\ CopiesOK'
      BY <2>1, NothingQueued DEF HandleDeleted, files
    <2> QED BY <1>1, <1>2, <1>3, <2>2, <2>3, Frame DEF HandleDeleted, server, files
  <1> QED BY <1>4, <1>5

-----------------------------------------------------------------------------
(* The job at work, up to its first request                                *)

LEMMA SameTypes ==
    ASSUME Later
    PROVE  /\ JobType' = JobType /\ RunType' = RunType /\ RowType' = RowType
           /\ ResolveType' = ResolveType
           /\ Versions' = Versions /\ Key' = Key /\ JobIds' = JobIds /\ MaxVersion' = MaxVersion
           /\ World' = World
  BY DEF Later, JobIds, Versions, Key, JobType, RunType, RowType, ResolveType,
         MaxVersion, World

\* A stage that has neither an intent nor a version to record.
LEMMA RunGoesOn ==
    ASSUME IInv, Later, run' \in RunType, run'.stage \in {"verify", "preflight", "copy"},
           run'.stage # "verify" => run'.hash \in Hashes,
           run'.base = run.base \/ \E j \in jobs : run'.base = j.base
    PROVE  RunPart'
  <1>1. \A b \in {run'.base} : Based(b)'
    BY Parts, BasedStays DEF RunPart, RunOK, JobsPart, JobsOK
  <1> QED BY <1>1, SameTypes DEF RunPart, RunOK, Based, Met

LEMMA AtWork ==
    ASSUME IInv, run.stage # "idle" \/ jobs # {} \/ Known > 0
    PROVE  ~Blank
  BY Parts DEF Blank, Idle, Known, CloudPart

LEMMA Failed ==
    ASSUME IInv, Later, NEW s \in {"RETRY_WAIT", "ERROR"}, Fail(s)
    PROVE  /\ RowPart' /\ JobsPart' /\ RunPart' /\ UploadingIsAtWork' /\ Calm
           /\ run'.id = 0
  <1>1. RowPart'
    BY Parts, MarkedRow, RowStays DEF Fail, RowPart, SyncStatus
  <1>2. RunPart' /\ run'.id = 0
    BY Parts, AtRestOK DEF Fail
  <1>3. \A j \in jobs' : \/ j \in jobs /\ j.id # run.id
                         \/ \E i \in jobs : j = [i EXCEPT !.status = s]
    BY DEF Fail
  <1>4. \A i \in jobs : /\ [i EXCEPT !.status = s] \in JobType
                        /\ [i EXCEPT !.status = s].base = i.base
                        /\ [i EXCEPT !.status = s].status = s
    BY Parts DEF JobsPart, JobType, SyncStatus
  <1>5. JobsPart' /\ Calm /\ \A j \in jobs' : j.id = run.id => j.status # "UPLOADING"
    BY <1>3, <1>4, JobTable DEF Calm
  <1>6. UploadingIsAtWork'
    BY <1>5, Parts, CalmUploading DEF Later
  <1> QED BY <1>1, <1>2, <1>5, <1>6

LEMMA DispatchStep ==
    ASSUME IInv, scene' = scene, NEW j \in jobs, Dispatch(j)
    PROVE  IInv'
  <1>1. Later
    BY Parts, SameCloud DEF Dispatch, server
  <1>2. RowPart'
    BY <1>1, MarkedRow DEF Dispatch, SyncStatus
  <1>. DEFINE new == [j EXCEPT !.status = "UPLOADING", !.fresh = FALSE]
  <1>3. new \in JobType /\ new.base = j.base /\ new.status = "UPLOADING" /\ new.id = j.id
    BY Parts DEF JobsPart, JobType, SyncStatus
  <1>4. \A i \in jobs' : i \in jobs \/ i = new
    BY DEF Dispatch, Replace
  <1>. HIDE DEF new
  <1>5. JobsPart'
    BY <1>1, <1>3, <1>4, JobTable
  <1>6. RunPart' /\ run'.id = j.id
    <2>1. j \in JobType /\ row \in RowType
      BY Parts DEF JobsPart, RowPart
    <2>2. run' \in RunType /\ run'.stage = "verify" /\ run'.base = j.base /\ run'.id = j.id
      BY <2>1, SceneType, Parts DEF Dispatch, Idle, KeyOf, JobType, RowType, RunType, Contents
    <2> QED BY <1>1, <2>2, RunGoesOn
  <1>7. UploadingIsAtWork'
    <2>1. run.id = 0
      BY DEF Dispatch, Idle
    <2>2. \A i \in jobs : i.id # 0
      BY Parts, SceneType DEF JobsPart, JobType
    <2> QED BY <2>1, <2>2, <1>3, <1>4, <1>6, Parts DEF UploadingIsAtWork, World
  <1>8. CopiesOK'
    BY <1>3, <1>4, Parts DEF Dispatch, CopiesOK, ConflictHasCopy, World, files
  <1>9. KeptOK'
    BY Parts, AtWork, KeptBusy DEF Dispatch, files, watch
  <1> QED BY <1>1, <1>2, <1>5, <1>6, <1>7, <1>8, <1>9, Frame DEF Dispatch, server, files, watch

\* A job that fails changes nothing but the queue.
LEMMA FailStep ==
    ASSUME IInv, NEW s \in {"RETRY_WAIT", "ERROR"}, Fail(s), run.stage # "idle",
           UNCHANGED <<scene, server, files, state, pull, resolve, hashed, watch, seen>>
    PROVE  IInv'
  <1>1. Later
    BY Parts, SameCloud DEF server
  <1>2. RowPart' /\ JobsPart' /\ RunPart' /\ UploadingIsAtWork' /\ Calm
    BY <1>1, Failed
  <1>3. CopiesOK' /\ KeptOK'
    BY <1>2, Parts, CalmCopies, AtWork, KeptBusy DEF files, watch
  <1> QED BY <1>1, <1>2, <1>3, Frame DEF server, files, watch

LEMMA VerifyWaitingStep ==
    ASSUME IInv, scene' = scene, VerifyWaiting
    PROVE  IInv'
  <1>1. Later
    BY Parts, SameCloud DEF VerifyWaiting, server
  <1>2. ~Blank
    BY AtWork DEF VerifyWaiting
  <1>3. disk \in Hashes
    BY Parts DEF VerifyWaiting, FilesPart, Contents
  <1>4. CASE run.known = disk /\ jobs' = jobs \ JobOf(run.id)
             /\ row' = (IF JobOf(run.id) # {} THEN Mark("SYNCED") ELSE row)
             /\ state' = [last |-> disk, exists |-> TRUE] /\ run' = Idle
    <2>1. RowPart'
      BY <1>1, <1>4, Parts, MarkedRow, RowStays DEF RowPart, SyncStatus
    <2>2. StatePart'
      BY <1>4, <1>3 DEF StatePart, Contents
    <2>3. JobsPart' /\ Calm /\ \A j \in jobs' : j.id # run.id
      BY <1>1, <1>4, JobTable DEF Calm, JobOf
    <2>4. RunPart'
      BY <1>1, <1>4, Parts, AtRestOK
    <2>5. UploadingIsAtWork' /\ CopiesOK'
      BY <2>3, Parts, CalmUploading, CalmCopies DEF VerifyWaiting, files
    <2>6. KeptOK'
      BY <1>2, <1>4, Parts, KeptBusy DEF VerifyWaiting, files, watch
    <2> QED
      BY <1>1, <2>1, <2>2, <2>3, <2>4, <2>5, <2>6, Frame DEF VerifyWaiting, server, files, watch
  <1>5. CASE /\ JobOf(run.id) # {}
             /\ jobs' = {IF j.id = run.id THEN [j EXCEPT !.hash = disk, !.status = "UPLOADING"]
                         ELSE j : j \in jobs}
             /\ run' = [run EXCEPT !.stage = "preflight", !.hash = disk, !.fresh = FALSE,
                                   !.known = Null]
             /\ UNCHANGED <<row, state>>
    <2>1. \A j \in jobs' : j \in jobs \/ \E i \in jobs :
             i.id = run.id /\ j = [i EXCEPT !.hash = disk, !.status = "UPLOADING"]
      BY <1>5
    <2>2. \A i \in jobs : LET new == [i EXCEPT !.hash = disk, !.status = "UPLOADING"]
                          IN  new \in JobType /\ new.base = i.base /\ new.id = i.id
                              /\ new.status = "UPLOADING"
      BY <1>3, Parts DEF JobsPart, JobType, SyncStatus, Contents
    <2>3. JobsPart'
      BY <1>1, <2>1, <2>2, JobTable
    <2>4. run' \in RunType /\ run'.stage = "preflight" /\ run'.hash = disk /\ run'.base = run.base
          /\ run'.id = run.id
      BY <1>5, <1>3, Parts DEF RunPart, RunType, Contents
    <2>5. RunPart'
      BY <1>1, <1>3, <2>4, RunGoesOn
    <2>6. UploadingIsAtWork' /\ CopiesOK'
      BY <2>1, <2>2, <2>4, Parts
      DEF VerifyWaiting, UploadingIsAtWork, CopiesOK, ConflictHasCopy, World, files
    <2>7. KeptOK'
      BY <1>2, <1>5, Parts, KeptBusy DEF VerifyWaiting, files, watch
    <2> QED
      BY <1>1, <1>5, <2>3, <2>5, <2>6, <2>7, Frame DEF VerifyWaiting, server, files, watch
  <1>6. CASE Fail("RETRY_WAIT") /\ UNCHANGED state
    BY <1>6, FailStep DEF VerifyWaiting
  <1> QED BY <1>4, <1>5, <1>6 DEF VerifyWaiting, Seeing

\* The jobs of the file end, and its content is looked at anew.
LEMMA RequeueStep ==
    ASSUME IInv, Requeue, run.stage # "idle",
           UNCHANGED <<scene, server, files, row, state, pull, resolve, hashed, watch, seen>>
    PROVE  IInv'
  <1>1. Later
    BY Parts, SameCloud DEF server
  <1>3. RunPart'
    BY <1>1, Parts, AtRestOK DEF Requeue
  <1>4. JobsPart' /\ UploadingIsAtWork' /\ CopiesOK'
    BY NothingQueued DEF Requeue, files
  <1>5. KeptOK'
    BY Parts, AtWork, KeptBusy DEF files, watch
  <1> QED BY <1>1, <1>3, <1>4, <1>5, Frame DEF server, files, watch

LEMMA VerifySameStep ==
    ASSUME IInv, scene' = scene, VerifySame
    PROVE  IInv'
  <1>1. Later
    BY Parts, SameCloud DEF VerifySame, server
  <1>2. run.hash \in Hashes
    BY Parts DEF VerifySame, FilesPart, Contents
  <1>3. PICK reused \in BOOLEAN :
            run' = [run EXCEPT !.stage = "preflight", !.reused = reused, !.fresh = FALSE, !.known = Null]
    BY Parts DEF VerifySame, RunPart, RunType
  <1>4. /\ run' \in RunType /\ run'.stage = "preflight" /\ run'.hash = run.hash
        /\ run'.base = run.base /\ run'.id = run.id
    BY <1>3, Parts DEF RunPart, RunType, Contents
  <1>5. RunPart'
    BY <1>1, <1>2, <1>4, RunGoesOn
  <1>6. UploadingIsAtWork' /\ KeptOK'
    BY <1>4, Parts, AtWork, KeptBusy DEF VerifySame, local, files, watch, UploadingIsAtWork, World
  <1> QED BY <1>1, <1>5, <1>6, Frame DEF VerifySame, server, files, local, watch

LEMMA RereadStep ==
    ASSUME IInv, scene' = scene, Reread
    PROVE  IInv'
  <1>1. Later
    BY Parts, SameCloud DEF Reread, server
  <1>2. RunPart' /\ run'.id = run.id
    BY <1>1, Parts, AtRestOK DEF Reread, RunPart, RunOK
  <1>3. ~Blank
    BY AtWork DEF Reread
  <1>4. CASE disk = Null
    <2>1. UNCHANGED local
      BY <1>4 DEF Reread
    <2>2. UploadingIsAtWork' /\ KeptOK'
      BY <1>2, <1>3, <2>1, Parts, KeptBusy DEF Reread, local, files, watch, UploadingIsAtWork, World
    <2> QED BY <1>1, <1>2, <2>1, <2>2, Frame DEF Reread, local, server, files, watch
  <1>5. CASE disk # Null
    <2>1. RowPart' /\ StatePart' /\ JobsPart' /\ Calm /\ state'.exists
      BY <1>1, <1>5, Parts, Queued DEF Reread, FilesPart, Contents
    <2>2. UploadingIsAtWork' /\ CopiesOK' /\ KeptOK'
      BY <1>2, <1>3, <2>1, Parts, CalmUploading, CalmCopies, KeptBusy DEF Reread, files, watch
    <2> QED BY <1>1, <1>2, <2>1, <2>2, Frame DEF Reread, server, files, watch
  <1> QED BY <1>4, <1>5

-----------------------------------------------------------------------------
(* Requests and what the cloud makes of them                               *)

IntentType == [status : {"reserved", "uploaded", "committed", "abandoned"},
               hash : Hashes, base : Versions]

\* An intent is written: a new one, or the one of the job at work.
LEMMA IntentSet ==
    ASSUME IInv, Later, NEW k \in Key, NEW s, NEW h, NEW b,
           SetIntent(k, s, h, b), late' \subseteq late,
           [status |-> s, hash |-> h, base |-> b] \in IntentType,
           \A b1 \in {b} : Based(b1)',
           b < MaxVersion, b > 0 => cloud'[b].hash # h,
           s = "committed" => b < Known', k \in late => s # "reserved"
    PROVE  IntentsPart'
  <1>. DEFINE new == [status |-> s, hash |-> h, base |-> b]
  <1>1. /\ DOMAIN intents' = DOMAIN intents \cup {k}
        /\ intents'[k] = new
        /\ \A x \in DOMAIN intents : x # k => intents'[x] = intents[x]
    BY DEF SetIntent
  <1>2. new \in IntentType /\ new.status = s /\ new.hash = h /\ new.base = b
    BY DEF IntentType
  <1>. HIDE DEF new
  <1>3. \A x \in DOMAIN intents : IntentOK(intents[x])' \/ x = k
    <2>. SUFFICES ASSUME NEW x \in DOMAIN intents, x # k
                  PROVE  IntentOK(intents[x])'
      OBVIOUS
    <2>1. IntentOK(intents[x])
      BY Parts DEF IntentsPart, IntentsOK
    <2>2. \A i \in {intents[x]} : IntentOK(i)'
      BY <2>1, SameTypes, IntentStays
    <2> QED BY <2>2, <1>1 DEF IntentOK, Based, Met
  <1>4. IntentOK(intents[k])'
    BY <1>1, <1>2, SameTypes DEF IntentOK, Based, Met
  <1>5. IntentsOK'
    BY <1>1, <1>2, <1>3, <1>4, SameTypes, Parts DEF IntentsPart, IntentsOK
  <1>6. \A x \in DOMAIN intents' : intents'[x] \in IntentType
    BY <1>1, <1>2, Parts DEF IntentsPart, IntentType
  <1> QED BY <1>1, <1>5, <1>6, SameTypes, Parts DEF IntentsPart, IntentType

\* What a client that asked for an upload reserves.
LEMMA Reserved ==
    ASSUME IInv, Later, UNCHANGED <<cloud, late>>, Reserve,
           run.stage = "preflight", Reply = "upload_required", run.base < MaxVersion
    PROVE  /\ IntentsPart' /\ run.key \in DOMAIN intents'
           /\ intents'[run.key].status = "reserved"
           /\ intents'[run.key].hash = run.hash /\ intents'[run.key].base = run.base
  <1>1. run \in RunType /\ run.hash \in Hashes /\ Based(run.base)
    BY Parts DEF RunPart, RunOK
  <1>2. CASE run.key \in DOMAIN intents
    BY <1>2, Parts, IntentsStay DEF Reserve, Reply
  <1>3. CASE run.key \notin DOMAIN intents
    <2>1. SetIntent(run.key, "reserved", run.hash, run.base)
      BY <1>3 DEF Reserve
    <2>2. run.key \in Key /\ run.key \notin late
      BY <1>1, <1>3, Parts DEF RunType, IntentsPart
    <2>3. [status |-> "reserved", hash |-> run.hash, base |-> run.base] \in IntentType
      BY <1>1 DEF RunType, IntentType
    <2>4. \A b \in {run.base} : Based(b)'
      BY <1>1, BasedStays
    <2>5. run.base > 0 => cloud'[run.base].hash # run.hash
      BY <1>1, Parts DEF Reply, Current, Known, CloudPart, Based
    <2>6. IntentsPart'
      BY <2>1, <2>2, <2>3, <2>4, <2>5, IntentSet
    <2> QED BY <2>1, <2>6 DEF SetIntent
  <1> QED BY <1>2, <1>3

LEMMA Uploaded ==
    ASSUME IInv, Later, UNCHANGED <<cloud, late>>, SetUploaded, run.stage = "upload"
    PROVE  /\ IntentsPart' /\ run.key \in DOMAIN intents'
           /\ intents'[run.key].status = "uploaded"
           /\ intents'[run.key].hash = run.hash /\ intents'[run.key].base = run.base
  <1>1. /\ run \in RunType /\ run.hash \in Hashes /\ Based(run.base)
        /\ run.key \in DOMAIN intents
        /\ intents[run.key].hash = run.hash /\ intents[run.key].base = run.base
    BY Parts DEF RunPart, RunOK
  <1>2. SetIntent(run.key, "uploaded", run.hash, run.base)
    BY DEF SetUploaded
  <1>3. IntentOK(intents[run.key])
    BY <1>1, Parts DEF IntentsPart, IntentsOK
  <1>4. [status |-> "uploaded", hash |-> run.hash, base |-> run.base] \in IntentType /\ run.key \in Key
    BY <1>1 DEF RunType, IntentType
  <1>5. \A b \in {run.base} : Based(b)'
    BY <1>1, BasedStays
  <1>6. run.base < MaxVersion /\ (run.base > 0 => cloud'[run.base].hash # run.hash)
    BY <1>1, <1>3 DEF IntentOK
  <1>7. IntentsPart'
    BY <1>2, <1>4, <1>5, <1>6, IntentSet
  <1> QED BY <1>2, <1>7 DEF SetIntent

LEMMA CloudVersions ==
    ASSUME CloudPart
    PROVE  /\ Known \in Nat /\ Known \in Versions /\ Known <= MaxVersion
           /\ \A v \in 1..Known : cloud[v].hash \in Hashes /\ cloud[v].by \in {"client", "other"}
           /\ Known > 0 => Current = cloud[Known].hash /\ IsVersion(Known, Current)
  <1>. DEFINE S == [hash : Hashes, by : {"client", "other"}]
  <1>1. \A v \in 1..Known : cloud[v] \in S
    <2>1. cloud \in Seq(S)
      BY DEF CloudPart
    <2>. HIDE DEF S
    <2> QED BY <2>1 DEF Known
  <1>2. Known \in Nat /\ Known \in Versions
    BY DEF CloudPart, Known
  <1> QED BY <1>1, <1>2 DEF Current, IsVersion, Known, Versions

LEMMA PreflightStep ==
    ASSUME IInv, scene' = scene, Preflight
    PROVE  IInv'
  <1>1. Later
    BY Parts, SameCloud DEF Preflight
  <1>2. run \in RunType /\ run.stage = "preflight" /\ run.hash \in Hashes
    BY Parts DEF RunPart, RunOK, Preflight
  <1>3. run'.id = run.id => UploadingIsAtWork'
    BY Parts DEF Preflight, local, UploadingIsAtWork, World
  <1>4. ~Blank
    BY <1>2, AtWork
  <1>5. KeptOK'
    BY <1>4, Parts, KeptBusy DEF Preflight, files, local, watch
  <1>6. Known > 0 => Current = cloud[Known].hash /\ IsVersion(Known, Current) /\ Current \in Hashes
    BY Parts, CloudVersions DEF IsVersion
  <1>7. \A b \in {run.base} : Based(b)'
    BY <1>1, Parts, BasedStays DEF RunPart, RunOK
  <1>8. CASE Reply = "noop" /\ run' = [run EXCEPT !.stage = "synced", !.known = Current, !.version = Known]
             /\ UNCHANGED intents
    <2>1. Known > 0 /\ Current = run.hash
      BY <1>8, Parts, CloudVersions DEF Reply
    <2>2. Known \in Versions
      BY Parts DEF CloudPart
    <2>3. /\ run' \in RunType /\ run'.stage = "synced" /\ run'.known = run.hash
          /\ run'.version = Known /\ run'.base = run.base /\ run'.hash = run.hash /\ run'.id = run.id
      BY <1>2, <1>8, <2>1, <2>2 DEF RunType, Contents
    <2>4. RunOK'
      <3>1. IsVersion(run.version, run.known)'
        BY <1>1, <1>6, <2>1, <2>3, VersionStays DEF IsVersion
      <3> QED BY <1>2, <1>7, <2>1, <2>3, <3>1 DEF RunOK, Based, Met
    <2>5. RunPart'
      BY <1>1, <2>3, <2>4, SameTypes DEF RunPart
    <2> QED BY <1>1, <1>3, <1>5, <1>8, <2>3, <2>5, Frame DEF Preflight, files, local, watch
  <1>9. CASE Reply = "upload_required" /\ run.base < MaxVersion /\ Reserve
             /\ run' = [run EXCEPT !.stage = "upload", !.reused = FALSE]
    <2>1. /\ IntentsPart' /\ run.key \in DOMAIN intents'
          /\ intents'[run.key].status = "reserved"
          /\ intents'[run.key].hash = run.hash /\ intents'[run.key].base = run.base
      BY <1>1, <1>2, <1>9, Reserved DEF Preflight
    <2>2. /\ run' \in RunType /\ run'.stage = "upload" /\ run'.key = run.key
          /\ run'.base = run.base /\ run'.hash = run.hash /\ run'.id = run.id
      BY <1>2, <1>9 DEF RunType
    <2>3. RunOK'
      BY <1>2, <1>7, <2>1, <2>2 DEF RunOK, Based, Met
    <2>4. RunPart'
      BY <1>1, <2>2, <2>3, SameTypes DEF RunPart
    <2> QED BY <1>1, <1>3, <1>5, <2>1, <2>2, <2>4, Frame DEF Preflight, files, local, watch
  <1>10. CASE Reply = "commit_required" /\ run' = [run EXCEPT !.stage = "commit", !.reused = FALSE]
              /\ UNCHANGED intents
    <2>1. /\ run.key \in DOMAIN intents /\ intents[run.key].status = "uploaded"
          /\ intents[run.key].hash = run.hash /\ intents[run.key].base = run.base
      BY <1>10 DEF Reply
    <2>2. /\ run' \in RunType /\ run'.stage = "commit" /\ run'.key = run.key
          /\ run'.base = run.base /\ run'.hash = run.hash /\ run'.id = run.id
      BY <1>2, <1>10 DEF RunType
    <2>3. RunOK'
      BY <1>2, <1>7, <1>10, <2>1, <2>2 DEF RunOK, Based, Met
    <2>4. RunPart'
      BY <1>1, <2>2, <2>3, SameTypes DEF RunPart
    <2> QED BY <1>1, <1>3, <1>5, <1>10, <2>2, <2>4, Frame DEF Preflight, files, local, watch
  <1>11. CASE Step("copy") /\ UNCHANGED intents
    <2>1. /\ run' \in RunType /\ run'.stage = "copy"
          /\ run'.base = run.base /\ run'.hash = run.hash /\ run'.id = run.id
      BY <1>2, <1>11 DEF RunType, Step
    <2>2. RunPart'
      BY <1>1, <1>2, <2>1, RunGoesOn
    <2> QED BY <1>1, <1>3, <1>5, <1>11, <2>1, <2>2, Frame DEF Preflight, files, local, watch
  <1> QED BY <1>8, <1>9, <1>10, <1>11 DEF Preflight

LEMMA UploadStep ==
    ASSUME IInv, scene' = scene, Upload
    PROVE  IInv'
  <1>1. Later
    BY Parts, SameCloud DEF Upload
  <1>2. run \in RunType /\ run.stage = "upload" /\ run.hash \in Hashes
    BY Parts DEF RunPart, RunOK, Upload
  <1>3. /\ IntentsPart' /\ run.key \in DOMAIN intents'
        /\ intents'[run.key].status = "uploaded"
        /\ intents'[run.key].hash = run.hash /\ intents'[run.key].base = run.base
    BY <1>1, <1>2, Uploaded DEF Upload
  <1>4. /\ run' \in RunType /\ run'.stage = "commit" /\ run'.key = run.key
        /\ run'.base = run.base /\ run'.hash = run.hash /\ run'.id = run.id
    BY <1>2 DEF RunType, Upload, Step
  <1>5. \A b \in {run.base} : Based(b)'
    BY <1>1, Parts, BasedStays DEF RunPart, RunOK
  <1>6. RunOK'
    BY <1>2, <1>3, <1>4, <1>5 DEF RunOK, Based, Met
  <1>7. RunPart'
    BY <1>1, <1>4, <1>6, SameTypes DEF RunPart
  <1>8. UploadingIsAtWork' /\ KeptOK'
    BY <1>2, <1>4, Parts, AtWork, KeptBusy DEF Upload, local, files, watch, UploadingIsAtWork, World
  <1> QED BY <1>1, <1>3, <1>7, <1>8, Frame DEF Upload, files, local, watch

\* A 409 makes a conflict of the job.
LEMMA CaughtStep ==
    ASSUME IInv, run.stage \in {"preflight", "upload", "commit"}, Caught \/ Step("copy"),
           UNCHANGED <<scene, server, files, local, pull, resolve, hashed, watch, seen>>
    PROVE  IInv'
  <1>1. Later
    BY Parts, SameCloud DEF server
  <1>2. run \in RunType /\ run.hash \in Hashes
    BY Parts DEF RunPart, RunOK
  <1>3. /\ run' \in RunType /\ run'.stage = "copy"
        /\ run'.base = run.base /\ run'.hash = run.hash /\ run'.id = run.id
    BY <1>2 DEF RunType, Step, Caught
  <1>4. RunPart'
    BY <1>1, <1>2, <1>3, RunGoesOn
  <1>5. UploadingIsAtWork' /\ KeptOK'
    BY <1>3, Parts, AtWork, KeptBusy DEF local, files, watch, UploadingIsAtWork, World
  <1> QED BY <1>1, <1>4, <1>5, Frame DEF server, files, local, watch

LEMMA UploadFailedStep ==
    ASSUME IInv, scene' = scene, UploadFailed
    PROVE  IInv'
  <1>1. CASE Caught /\ UNCHANGED <<row, jobs>>
    BY <1>1, CaughtStep DEF UploadFailed, local
  <1>2. CASE Fail("RETRY_WAIT") \/ Fail("ERROR")
    BY <1>2, FailStep DEF UploadFailed
  <1> QED BY <1>1, <1>2 DEF UploadFailed

\* What the Worker's commit does, asked for now or long ago.
LEMMA Effect ==
    ASSUME IInv, UNCHANGED <<scene, seen>>, late' \subseteq late,
           NEW k \in DOMAIN intents, intents[k].status # "reserved", CommitEffect(k)
    PROVE  /\ Later /\ CloudPart' /\ IntentsPart'
           /\ DOMAIN intents' = DOMAIN intents
           /\ \A x \in DOMAIN intents :
                 /\ intents'[x].hash = intents[x].hash /\ intents'[x].base = intents[x].base
                 /\ intents'[x].status = "reserved" <=> intents[x].status = "reserved"
                 /\ x # k => intents'[x].status = intents[x].status
           /\ Committable(k) /\ intents[k].status # "committed" =>
                 IsVersion(Known, intents[k].hash)'
           /\ Committable(k) => Known' > 0
  <1>. DEFINE i == intents[k]
  <1>1. i \in IntentType /\ IntentOK(i) /\ k \in Key
    BY Parts DEF IntentsPart, IntentsOK, IntentType
  <1>2. CASE UNCHANGED <<cloud, intents>> /\ (i.status = "committed" \/ ~Committable(k))
    <2>1. Later
      BY <1>2, Parts, SameCloud
    <2>2. CloudPart'
      BY <1>2, Parts DEF CloudPart, CloudOK, NoDuplicateVersion, SeenBeforeOverwritten, Known,
                         Versions, MaxVersion, Orderly, World
    <2>3. IntentsPart'
      BY <1>2, <2>1, Parts, IntentsStay
    <2>4. i.status = "committed" => Known' > 0
      BY <1>1, <1>2, <2>1 DEF IntentOK, Based, Later
    <2> QED BY <1>2, <2>1, <2>2, <2>3, <2>4
  <1>3. CASE /\ i.status = "uploaded" /\ Known = i.base
             /\ cloud' = Append(cloud, [hash |-> i.hash, by |-> "client"])
             /\ SetIntent(k, "committed", i.hash, i.base)
    <2>. DEFINE e == [hash |-> i.hash, by |-> "client"]
    <2>1. e \in [hash : Hashes, by : {"client", "other"}] /\ e.hash = i.hash /\ e.by = "client"
      BY <1>1 DEF IntentType
    <2>. HIDE DEF e
    <2>2. cloud' = Append(cloud, e)
      BY <1>3 DEF e
    <2>3. /\ Later /\ Known' = Known + 1 /\ cloud'[Known + 1] = e
          /\ cloud' \in Seq([hash : Hashes, by : {"client", "other"}])
      BY <2>1, <2>2, Parts, LongerCloud
    <2>4. Known' \in Versions'
      <3>1. MaxVersion \in Nat /\ Known \in Nat /\ Known < MaxVersion
        BY <1>1, <1>3, <2>3, Parts, SceneType DEF IntentOK, Later
      <3>2. Known + 1 \in 0..MaxVersion
        BY <3>1
      <3> QED BY <2>3, <3>2, SameTypes DEF Versions
    <2>5. \A v \in 1..Known : cloud'[v] = cloud[v]
      BY <2>3 DEF Later
    <2>6. Known \in Nat
      BY <2>3 DEF Later
    <2>7. Known > 0 => cloud'[Known] = cloud[Known] /\ cloud[Known].hash # i.hash
      <3>. SUFFICES ASSUME Known > 0 PROVE cloud'[Known] = cloud[Known] /\ cloud[Known].hash # i.hash
        OBVIOUS
      <3>1. Known \in 1..Known
        BY <2>6
      <3>2. cloud[i.base].hash # i.hash
        BY <1>1, <1>3 DEF IntentOK
      <3> QED BY <1>3, <2>5, <3>1, <3>2
    <2>8. NoDuplicateVersion'
      <3>1. ASSUME NEW v \in 2..Known PROVE cloud'[v].hash # cloud'[v - 1].hash
        <4>1. v \in 1..Known /\ v - 1 \in 1..Known
          BY <2>6
        <4>2. cloud[v].hash # cloud[v - 1].hash
          BY Parts DEF CloudPart, CloudOK, NoDuplicateVersion
        <4> QED BY <2>5, <4>1, <4>2
      <3>2. Known > 0 => cloud'[Known + 1].hash # cloud'[Known].hash
        BY <2>1, <2>3, <2>7
      <3>3. \A v \in 2..(Known + 1) : cloud'[v].hash # cloud'[v - 1].hash
        BY <2>6, <3>1, <3>2
      <3> QED BY <2>3, <3>3 DEF NoDuplicateVersion
    <2>9. Orderly' => SeenBeforeOverwritten'
      <3>. SUFFICES ASSUME Orderly
                    PROVE  SeenBeforeOverwritten'
        BY DEF Orderly, World
      <3>1. \A v \in 2..Known : cloud'[v].by = "client" /\ cloud'[v - 1].by = "other" => v - 1 \in seen
        BY <2>5, <2>6, Parts DEF CloudPart, CloudOK, SeenBeforeOverwritten
      <3>2. Known > 0 /\ cloud'[Known].by = "other" => Known \in seen
        BY <1>1, <1>3, <2>6, <2>7 DEF IntentOK, Based, Met
      <3>3. \A v \in 2..(Known + 1) :
               cloud'[v].by = "client" /\ cloud'[v - 1].by = "other" => v - 1 \in seen
        BY <2>6, <3>1, <3>2
      <3> QED BY <2>3, <3>3 DEF SeenBeforeOverwritten
    <2>10. CloudPart'
      BY <2>1, <2>3, <2>4, <2>5, <2>6, <2>8, <2>9, Parts, SameTypes DEF CloudPart, CloudOK
    <2>11. \A b \in {i.base} : Based(b)'
      BY <2>3, <1>1, BasedStays DEF IntentOK
    <2>12. IntentsPart'
      <3>1. [status |-> "committed", hash |-> i.hash, base |-> i.base] \in IntentType
        BY <1>1 DEF IntentType
      <3>2. i.base < MaxVersion /\ i.base < Known' /\ (i.base > 0 => cloud'[i.base].hash # i.hash)
        <4>1. i.base > 0 => cloud'[i.base].hash # i.hash
          BY <1>3, <2>7
        <4>2. i.base < Known'
          BY <1>3, <2>3, <2>6
        <4> QED BY <1>1, <4>1, <4>2 DEF IntentOK
      <3>3. SetIntent(k, "committed", i.hash, i.base)
        BY <1>3
      <3>4. Later /\ k \in Key
        BY <1>1, <2>3
      <3>. HIDE DEF i
      <3> QED BY <2>11, <3>1, <3>2, <3>3, <3>4, IntentSet
    <2>13. IsVersion(Known, i.hash)' <=> Known' \in 1..Known' /\ cloud'[Known'].hash = i'.hash
      BY DEF IsVersion
    <2>14. /\ DOMAIN intents' = DOMAIN intents /\ i'.hash = i.hash
           /\ \A x \in DOMAIN intents :
                 /\ intents'[x].hash = intents[x].hash /\ intents'[x].base = intents[x].base
                 /\ intents'[x].status = "reserved" <=> intents[x].status = "reserved"
                 /\ x # k => intents'[x].status = intents[x].status
      BY <1>3 DEF SetIntent
    <2>15. IsVersion(Known, i.hash)' /\ Known' > 0
      BY <2>1, <2>3, <2>6, <2>13, <2>14
    <2> QED BY <2>3, <2>10, <2>12, <2>14, <2>15
  <1>4. CASE /\ i.status = "uploaded" /\ Known # i.base /\ Current = i.hash
             /\ SetIntent(k, "abandoned", i.hash, i.base) /\ UNCHANGED cloud
    <2>1. Later
      BY <1>4, Parts, SameCloud
    <2>2. CloudPart'
      BY <1>4, Parts DEF CloudPart, CloudOK, NoDuplicateVersion, SeenBeforeOverwritten, Known,
                         Versions, MaxVersion, Orderly, World
    <2>3. \A b \in {i.base} : Based(b)'
      BY <2>1, <1>1, BasedStays DEF IntentOK
    <2>4. IntentsPart'
      <3>1. [status |-> "abandoned", hash |-> i.hash, base |-> i.base] \in IntentType
        BY <1>1 DEF IntentType
      <3>2. i.base < MaxVersion /\ (i.base > 0 => cloud'[i.base].hash # i.hash)
        BY <1>1, <1>4 DEF IntentOK
      <3> QED BY <1>1, <1>4, <2>1, <2>3, <3>1, <3>2, IntentSet
    <2>5. /\ DOMAIN intents' = DOMAIN intents
          /\ \A x \in DOMAIN intents :
                 /\ intents'[x].hash = intents[x].hash /\ intents'[x].base = intents[x].base
                 /\ intents'[x].status = "reserved" <=> intents[x].status = "reserved"
                 /\ x # k => intents'[x].status = intents[x].status
      BY <1>4 DEF SetIntent
    <2>6. Known > 0
      BY <1>1, <1>4, <2>1 DEF IntentOK, Based, Later
    <2>7. Known' = Known /\ cloud'[Known].hash = i.hash
      BY <1>4, <2>6, Parts, CloudVersions DEF Known
    <2>8. IsVersion(Known, i.hash)'
      BY <2>1, <2>5, <2>6, <2>7 DEF IsVersion, Later
    <2> QED BY <2>1, <2>2, <2>4, <2>5, <2>6, <2>7, <2>8
  <1> QED BY <1>2, <1>3, <1>4 DEF CommitEffect, Committable

LEMMA CommitStep ==
    ASSUME IInv, scene' = scene, Commit
    PROVE  IInv'
  <1>1. /\ run \in RunType /\ run.stage = "commit" /\ run.hash \in Hashes
        /\ run.key \in DOMAIN intents /\ intents[run.key].status # "reserved"
        /\ intents[run.key].hash = run.hash /\ intents[run.key].base = run.base
        /\ intents[run.key].status = "committed" => "late" \in World
    BY Parts DEF RunPart, RunOK, Commit
  <1>2. CommitEffect(run.key) /\ UNCHANGED <<late, files, local, pull, resolve, hashed, watch, seen>>
    BY DEF Commit
  <1>3. /\ Later /\ CloudPart' /\ IntentsPart'
        /\ Committable(run.key) /\ intents[run.key].status # "committed" =>
              Known' \in 1..Known' /\ cloud'[Known'].hash = run.hash
        /\ Committable(run.key) => Known' > 0
    <2>1. \A k \in DOMAIN intents : k = run.key =>
             /\ Later /\ CloudPart' /\ IntentsPart'
             /\ intents'[k].hash = intents[k].hash
             /\ Committable(k) /\ intents[k].status # "committed" =>
                   IsVersion(Known, intents[k].hash)'
             /\ Committable(k) => Known' > 0
      BY <1>1, <1>2, Effect
    <2> QED BY <1>1, <2>1 DEF IsVersion
  <1>4. KeptOK'
    BY <1>1, <1>2, Parts, AtWork, KeptBusy DEF files, local, watch
  <1>5. \A b \in {run.base} : Based(b)'
    BY <1>3, Parts, BasedStays DEF RunPart, RunOK
  <1>6. RunPart' /\ run'.id = run.id
    <2>1. CASE Committable(run.key)
      <3>1. run' = [run EXCEPT !.stage = "synced", !.version = Known', !.known = cloud'[Known'].hash]
        BY <2>1 DEF Commit, Known
      <3>2. /\ Known' \in Versions /\ Known' \in 1..Known' /\ cloud'[Known'].hash \in Hashes
        <4>. DEFINE S == [hash : Hashes, by : {"client", "other"}]
        <4>1. cloud' \in Seq(S) /\ Known' \in Versions' /\ Known' > 0 /\ Known' \in Nat
          BY <1>3, <2>1 DEF CloudPart, Later
        <4>2. Known' \in 1..Known'
          BY <4>1
        <4>3. cloud'[Known'] \in S
          <5>. HIDE DEF S
          <5> QED BY <4>1, <4>2 DEF Known
        <4> QED BY <1>3, <4>1, <4>2, <4>3, SameTypes
      <3>3. /\ run' \in RunType /\ run'.stage = "synced" /\ run'.id = run.id /\ run'.base = run.base
            /\ run'.hash = run.hash /\ run'.version = Known' /\ run'.known = cloud'[Known'].hash
        BY <1>1, <3>1, <3>2 DEF RunType, Contents
      <3>4. IsVersion(run.version, run.known)'
        BY <3>2, <3>3 DEF IsVersion
      <3>5. (run.known = run.hash \/ Met(run.version))'
        <4>1. CASE intents[run.key].status # "committed"
          BY <1>3, <2>1, <3>3, <4>1
        <4>2. CASE intents[run.key].status = "committed"
          <5>1. Orderly => "other" \notin World
            BY <1>1, <4>2 DEF Orderly
          <5> QED BY <1>3, <3>2, <3>3, <5>1, SameTypes DEF CloudPart, CloudOK, Met, Orderly
        <4> QED BY <4>1, <4>2
      <3>6. RunOK'
        BY <1>1, <1>5, <3>3, <3>4, <3>5 DEF RunOK, Based, Met
      <3> QED BY <1>3, <3>3, <3>6, SameTypes DEF RunPart
    <2>2. CASE ~Committable(run.key)
      <3>1. /\ run' \in RunType /\ run'.stage = "copy"
            /\ run'.base = run.base /\ run'.hash = run.hash /\ run'.id = run.id
        BY <1>1, <2>2 DEF Commit, Caught, RunType
      <3> QED BY <1>1, <1>3, <3>1, RunGoesOn
    <2> QED BY <2>1, <2>2
  <1>7. UploadingIsAtWork'
    BY <1>2, <1>6, Parts DEF local, UploadingIsAtWork, World
  <1> QED BY <1>2, <1>3, <1>4, <1>6, <1>7, Frame DEF files, local, watch

\* What nobody waits for any more.
LEMMA Unheard ==
    ASSUME IInv, UNCHANGED <<scene, seen>>, CommitUnheard
    PROVE  Later /\ CloudPart' /\ IntentsPart'
  <1>1. /\ run.key \in DOMAIN intents /\ intents[run.key].status # "reserved"
    BY Parts DEF RunPart, RunOK, CommitUnheard
  <1>2. CASE CommitEffect(run.key) /\ UNCHANGED late
    BY <1>1, <1>2, Effect
  <1>3. CASE "late" \in World /\ late' = late \cup {run.key} /\ UNCHANGED <<cloud, intents>>
    <2>1. Later
      BY <1>3, Parts, SameCloud
    <2>2. CloudPart'
      BY <1>3, Parts DEF CloudPart, CloudOK, NoDuplicateVersion, SeenBeforeOverwritten, Known,
                         Versions, MaxVersion, Orderly, World
    <2>3. \A k \in DOMAIN intents : IntentOK(intents[k])'
      BY <1>3, <2>1, SameTypes, Parts, IntentStays DEF IntentsPart, IntentsOK
    <2>4. IntentsPart'
      BY <1>1, <1>3, <2>1, <2>3, SameTypes, Parts DEF IntentsPart, IntentsOK
    <2> QED BY <2>1, <2>2, <2>4
  <1> QED BY <1>2, <1>3 DEF CommitUnheard

LEMMA RequestLostStep ==
    ASSUME IInv, scene' = scene, RequestLost
    PROVE  IInv'
  <1>1. Fail("RETRY_WAIT") /\ UNCHANGED <<files, state, pull, resolve, hashed, watch, seen>>
        /\ run.stage # "idle"
    BY DEF RequestLost
  <1>2. /\ Later
        /\ UNCHANGED cloud \/ CloudPart'
        /\ UNCHANGED <<intents, late>> \/ IntentsPart'
    <2>1. CASE UNCHANGED server
      BY <1>1, <2>1, Parts, SameCloud DEF server
    <2>2. CASE run.stage = "preflight" /\ Reply = "upload_required" /\ run.base < MaxVersion
               /\ Reserve /\ UNCHANGED <<cloud, late>>
      <3>1. Later
        BY <1>1, <2>2, Parts, SameCloud
      <3> QED BY <2>2, <3>1, Reserved
    <2>3. CASE run.stage = "upload" /\ SetUploaded /\ UNCHANGED <<cloud, late>>
      <3>1. Later
        BY <1>1, <2>3, Parts, SameCloud
      <3> QED BY <2>3, <3>1, Uploaded
    <2>4. CASE CommitUnheard
      BY <1>1, <2>4, Unheard
    <2> QED BY <2>1, <2>2, <2>3, <2>4 DEF RequestLost
  <1>3. RowPart' /\ JobsPart' /\ RunPart' /\ UploadingIsAtWork' /\ Calm
    BY <1>1, <1>2, Failed
  <1>4. CopiesOK' /\ KeptOK'
    BY <1>1, <1>3, Parts, CalmCopies, AtWork, KeptBusy DEF files, watch
  <1> QED BY <1>1, <1>2, <1>3, <1>4, Frame DEF files, watch

LEMMA LateCommitStep ==
    ASSUME IInv, scene' = scene, NEW k \in late, LateCommit(k)
    PROVE  IInv'
  <1>1. k \in DOMAIN intents /\ intents[k].status # "reserved" /\ "late" \in World
    BY Parts DEF IntentsPart, IntentsOK
  <1>2. UNCHANGED <<files, local, run, pull, resolve, hashed, watch, seen>> /\ late' \subseteq late
    BY DEF LateCommit
  <1>3. /\ Later /\ CloudPart' /\ IntentsPart'
        /\ DOMAIN intents' = DOMAIN intents
        /\ \A x \in DOMAIN intents :
              /\ intents'[x].hash = intents[x].hash /\ intents'[x].base = intents[x].base
              /\ intents'[x].status = "reserved" <=> intents[x].status = "reserved"
              /\ x # k => intents'[x].status = intents[x].status
    BY <1>1, <1>2, Effect DEF LateCommit
  <1>4. RunPart'
    BY <1>1, <1>2, <1>3, Parts, RunStays DEF SameIntents, files
  <1>5. KeptOK'
    BY <1>1, <1>2, Parts, KeptBusy DEF Blank, files, local, watch
  <1> QED BY <1>2, <1>3, <1>4, <1>5, Frame DEF files, local, watch

LEMMA LockedStep ==
    ASSUME IInv, scene' = scene, Locked
    PROVE  IInv'
  BY CaughtStep DEF Locked

LEMMA SyncedChangedStep ==
    ASSUME IInv, scene' = scene, SyncedChanged
    PROVE  IInv'
  <1>1. CASE disk = Null
    BY <1>1, FailStep DEF SyncedChanged
  <1>2. CASE disk # Null
    BY <1>2, RequeueStep DEF SyncedChanged
  <1> QED BY <1>1, <1>2

\* rebaseQueuedForFile: a row moves to the new version or stays.
LEMMA RebaseRows ==
    ASSUME NEW js, NEW v, NEW k \in Rebase(js, v)
    PROVE  \E i \in js : k = i \/ (i.status \in Waiting /\ k = Rebased(i, v))
  <1>. DEFINE moved == {j \in js : j.status \in Waiting}
  <1>1. k \in js \/ k \in (js \ moved) \cup {Rebased(j, v) : j \in moved}
    BY Zenon DEF Rebase
  <1> QED BY <1>1

LEMMA SyncedStep ==
    ASSUME IInv, scene' = scene, Synced
    PROVE  IInv'
  <1>1. Later
    BY Parts, SameCloud DEF Synced, server
  <1>2. /\ run \in RunType /\ IsVersion(run.version, run.known)
        /\ run.known = run.hash \/ Met(run.version)
    BY Parts DEF RunPart, RunOK, Synced
  <1>3. CloudPart'
    <2>1. seen' \subseteq Versions
      BY <1>2, Parts DEF Synced, CloudPart, RunType
    <2>2. SeenBeforeOverwritten => SeenBeforeOverwritten'
      BY <1>1 DEF Synced, server, SeenBeforeOverwritten, Later, Known
    <2> QED BY <1>1, <2>1, <2>2, Parts, SameTypes
      DEF Synced, server, CloudPart, CloudOK, NoDuplicateVersion, Orderly, Known
  <1>4. \A b \in {run.version} : Based(b)' /\ b \in 1..Known'
    <2>1. run.version \in 1..Known'
      BY <1>1, <1>2, VersionStays
    <2>2. \A b \in {run.version} : Met(b)'
      <3>1. CASE run.known = run.hash
        BY <3>1 DEF Synced, Met
      <3>2. CASE Met(run.version)
        BY <1>1, <1>2, <3>2, MetStays DEF IsVersion
      <3> QED BY <1>2, <3>1, <3>2
    <2> QED BY <1>1, <2>1, <2>2 DEF Based, Later
  <1>5. RowPart'
    <2>1. CASE JobOf(run.id) = {}
      BY <1>1, <2>1, Parts, RowStays DEF Synced, RowPart
    <2>2. CASE row' = [version |-> run.version, hash |-> run.known, status |-> "SYNCED"]
      <3>1. row' \in RowType /\ row'.version = run.version /\ row'.hash = run.known
        BY <1>2, <2>2 DEF RowType, RunType, SyncStatus
      <3>2. run.version \in 1..Known' /\ cloud'[run.version].hash = run.known
        BY <1>1, <1>2, VersionStays
      <3>3. RowOK'
        BY <1>4, <3>1, <3>2 DEF RowOK, IsVersion, Based, Met
      <3> QED BY <1>1, <3>1, <3>3, SameTypes DEF RowPart
    <2> QED BY <2>1, <2>2 DEF Synced
  <1>6. \A k \in jobs' : \E i \in jobs :
           i.id # run.id /\ (k = i \/ (i.status \in Waiting /\ k = Rebased(i, run.version)))
    BY RebaseRows DEF Synced, JobOf
  <1>7. \A i \in jobs : i.status \in Waiting =>
            LET new == Rebased(i, run.version)
            IN  new \in JobType /\ new.base = run.version /\ new.status = i.status /\ new.id = i.id
    BY <1>2, SceneType, Parts, ZenonT(60) DEF JobsPart, JobType, RunType, Rebased, KeyOf, Key
  <1>8. \A i \in jobs : i \in JobType /\ Based(i.base)'
    BY <1>1, Parts, BasedStays DEF JobsPart, JobsOK
  <1>9. JobsPart' /\ Calm /\ \A k \in jobs' : k.id # run.id
    <2>1. ASSUME NEW k \in jobs' PROVE /\ k \in JobType /\ Based(k.base)' /\ k.id # run.id
                                       /\ k \in jobs \/ k.status \in Waiting
      <3>1. PICK i \in jobs :
               i.id # run.id /\ (k = i \/ (i.status \in Waiting /\ k = Rebased(i, run.version)))
        BY <1>6
      <3>2. CASE k = i
        BY <1>8, <3>1, <3>2
      <3>3. CASE i.status \in Waiting /\ k = Rebased(i, run.version)
        <4>1. k \in JobType /\ k.base = run.version /\ k.status = i.status /\ k.id = i.id
          BY <1>7, <3>3
        <4>2. \A b \in {k.base} : Based(b)'
          BY <1>4, <4>1
        <4> QED BY <3>1, <3>3, <4>1, <4>2
      <3> QED BY <3>1, <3>2, <3>3
    <2> QED BY <1>1, <2>1, SameTypes DEF JobsPart, JobsOK, Calm, Waiting
  <1>10. RunPart'
    BY <1>1, Parts, AtRestOK DEF Synced
  <1>11. UploadingIsAtWork' /\ CopiesOK' /\ KeptOK'
    BY <1>9, Parts, CalmUploading, CalmCopies, AtWork, KeptBusy DEF Synced, files, watch
  <1> QED BY <1>1, <1>3, <1>5, <1>9, <1>10, <1>11, Frame DEF Synced, server, files, watch

-----------------------------------------------------------------------------
(* Conflicts                                                               *)

LEMMA SeenMore ==
    ASSUME CloudPart, UNCHANGED <<scene, cloud>>, seen \subseteq seen', seen' \subseteq Versions
    PROVE  CloudPart'
  <1>1. Later
    BY SameCloud
  <1>2. SeenBeforeOverwritten => SeenBeforeOverwritten'
    BY <1>1 DEF SeenBeforeOverwritten, Later, Known
  <1> QED BY <1>1, <1>2, SameTypes DEF CloudPart, CloudOK, NoDuplicateVersion, Orderly, Known

\* The current version is put at the path.
LEMMA Downloaded ==
    ASSUME IInv, UNCHANGED <<scene, cloud>>, NEW v, IsVersion(v, cloud[v].hash), Download(v)
    PROVE  /\ Later /\ CloudPart' /\ disk' \in Hashes /\ event'
           /\ v \in Versions /\ Met(v)' /\ cloud[v].hash \in Hashes
  <1>1. v \in 1..Known /\ v \in Versions /\ cloud[v].hash \in Hashes
    BY Parts, CloudVersions, SceneType DEF IsVersion, Versions
  <1>2. CloudPart' /\ Later
    BY <1>1, Parts, SeenMore, SameCloud DEF Download, CloudPart
  <1> QED BY <1>1, <1>2 DEF Download, Met

LEMMA CopyConflictStep ==
    ASSUME IInv, scene' = scene, CopyConflict
    PROVE  IInv'
  <1>1. Later
    BY Parts, SameCloud DEF CopyConflict, server
  <1>2. disk \in Hashes /\ run \in RunType /\ run.stage = "copy"
    BY Parts DEF CopyConflict, FilesPart, RunPart, Contents
  <1>3. FilesPart' /\ WatchPart'
    BY <1>2, Parts DEF CopyConflict, FilesPart, WatchPart
  <1>4. /\ run' \in RunType /\ run'.stage = "fetch" /\ run'.id = run.id
        /\ run'.base = run.base /\ run'.hash = disk
    BY <1>2 DEF CopyConflict, RunType, Contents
  <1>5. \A b \in {run.base} : Based(b)'
    BY <1>1, Parts, BasedStays DEF RunPart, RunOK
  <1>6. RunOK'
    BY <1>2, <1>4, <1>5 DEF CopyConflict, RunOK, Based, Met
  <1>7. RunPart'
    BY <1>1, <1>4, <1>6, SameTypes DEF RunPart
  <1>8. UploadingIsAtWork' /\ CopiesOK'
    BY <1>4, Parts DEF CopyConflict, local, UploadingIsAtWork, CopiesOK, ConflictHasCopy, World
  <1>9. KeptOK'
    BY <1>2, Parts, AtWork, KeptBusy DEF CopyConflict, local
  <1> QED BY <1>1, <1>3, <1>7, <1>8, <1>9, Frame DEF CopyConflict, server, local

\* Without the file there is no copy, and a job that was in the error handler stays.
LEMMA CopyFailedStep ==
    ASSUME IInv, scene' = scene, CopyFailed
    PROVE  IInv'
  <1>1. CASE run.caught
    <2>1. Later
      BY Parts, SameCloud DEF CopyFailed, server
    <2>2. RunPart'
      BY <1>1, <2>1, Parts, AtRestOK DEF CopyFailed
    <2>3. ~Blank
      BY AtWork DEF CopyFailed
    <2>4. KeptOK'
      BY <1>1, <2>3, Parts, KeptBusy DEF CopyFailed, files, watch
    <2>5. UploadingIsAtWork'
      BY <2>3, Parts DEF CopyFailed, KeptOK, UploadingIsAtWork, World
    <2> QED BY <1>1, <2>1, <2>2, <2>4, <2>5, Frame DEF CopyFailed, server, files, watch
  <1>2. CASE ~run.caught
    BY <1>2, FailStep DEF CopyFailed
  <1> QED BY <1>1, <1>2

LEMMA FetchConflictStep ==
    ASSUME IInv, scene' = scene, FetchConflict
    PROVE  IInv'
  <1>1. IsVersion(Known, Current) /\ Current = cloud[Known].hash
    BY Parts, CloudVersions DEF FetchConflict
  <1>2. /\ Later /\ CloudPart' /\ disk' \in Hashes /\ event'
        /\ Known \in Versions /\ (\A b \in {Known} : Met(b)') /\ Current \in Hashes
    BY <1>1, Downloaded DEF FetchConflict, server
  <1>3. FilesPart' /\ WatchPart'
    BY <1>2, Parts DEF FetchConflict, FilesPart, WatchPart, Contents
  <1>4. run \in RunType /\ run.stage = "fetch" /\ run.hash \in Hashes /\ run.hash \in copies
    BY Parts DEF FetchConflict, RunPart, RunOK
  <1>5. /\ run' \in RunType /\ run'.stage = "record" /\ run'.id = run.id
        /\ run'.base = run.base /\ run'.hash = run.hash /\ run'.version = Known
        /\ run'.known = Current
    BY <1>2, <1>4 DEF FetchConflict, RunType, Contents
  <1>6. \A b \in {run.base} : Based(b)'
    BY <1>2, Parts, BasedStays DEF RunPart, RunOK
  <1>7. IsVersion(run.version, run.known)'
    BY <1>1, <1>2, <1>5, VersionStays DEF IsVersion
  <1>8. RunOK'
    BY <1>2, <1>4, <1>5, <1>6, <1>7 DEF FetchConflict, RunOK, Based, Met
  <1>9. RunPart'
    BY <1>2, <1>5, <1>8, SameTypes DEF RunPart
  <1>10. UploadingIsAtWork'
    BY <1>5, Parts DEF FetchConflict, local, UploadingIsAtWork, World
  <1>11. KeptOK'
    BY <1>2, <1>4, Parts, NullAssumption, AtWork, KeptBusy DEF FetchConflict, local
  <1> QED BY <1>2, <1>3, <1>9, <1>10, <1>11, Frame DEF FetchConflict, server, local

\* A job in conflict has the content that was copied.
LEMMA Marked ==
    ASSUME IInv, Later, run.stage \in {"fetch", "record"}, MarkConflict,
           UNCHANGED <<copies, resolve>>
    PROVE  JobsPart' /\ RunPart' /\ UploadingIsAtWork' /\ CopiesOK'
  <1>1. run.hash \in Hashes /\ run.hash \in copies
    BY Parts DEF RunPart, RunOK
  <1>2. RunPart' /\ run'.id = 0
    BY Parts, AtRestOK DEF MarkConflict
  <1>3. \A j \in jobs' :
           \/ j \in jobs /\ j.id # run.id
           \/ \E i \in jobs : j = [i EXCEPT !.status = "CONFLICT", !.copy = run.hash]
    BY DEF MarkConflict
  <1>4. \A i \in jobs : LET new == [i EXCEPT !.status = "CONFLICT", !.copy = run.hash]
                        IN  new \in JobType /\ new.base = i.base /\ new.status = "CONFLICT"
                            /\ new.copy = run.hash
    BY <1>1, Parts DEF JobsPart, JobType, SyncStatus, Contents
  <1>5. JobsPart'
    BY <1>3, <1>4, JobTable
  <1>6. UploadingIsAtWork'
    BY <1>3, <1>4, Parts DEF UploadingIsAtWork, Later, World
  <1>7. CopiesOK'
    BY <1>1, <1>3, <1>4, Parts, ZenonT(60) DEF CopiesOK, ConflictHasCopy, Later, World
  <1> QED BY <1>2, <1>5, <1>6, <1>7

LEMMA RecordConflictStep ==
    ASSUME IInv, scene' = scene, RecordConflict
    PROVE  IInv'
  <1>1. Later
    BY Parts, SameCloud DEF RecordConflict, server
  <1>2. /\ run \in RunType /\ run.stage = "record" /\ IsVersion(run.version, run.known)
        /\ Met(run.version) /\ run.hash \in Hashes
    BY Parts DEF RunPart, RunOK, RecordConflict
  <1>3. JobsPart' /\ RunPart' /\ UploadingIsAtWork' /\ CopiesOK'
    BY <1>1, <1>2, Marked DEF RecordConflict, files
  <1>4. RowPart'
    <2>1. row' \in RowType /\ row'.version = run.version /\ row'.hash = run.known
      BY <1>2 DEF RecordConflict, Conflicted, CloudState, RowType, RunType, SyncStatus
    <2>2. run.version \in 1..Known' /\ cloud'[run.version].hash = run.known
      BY <1>1, <1>2, VersionStays
    <2>3. \A b \in {run.version} : Met(b)'
      BY <1>1, <1>2, MetStays DEF IsVersion
    <2>4. RowOK'
      BY <2>1, <2>2, <2>3 DEF RowOK, IsVersion, Met
    <2> QED BY <1>1, <2>1, <2>4, SameTypes DEF RowPart
  <1>5. StatePart' /\ state'.exists
    BY <1>2 DEF RecordConflict, Seeing, StatePart, RunType
  <1>6. KeptOK'
    BY <1>2, <1>5, Parts, AtWork, KeptBusy DEF RecordConflict, Seeing, files, watch
  <1> QED BY <1>1, <1>3, <1>4, <1>5, <1>6, Frame DEF RecordConflict, server, files, watch

LEMMA FetchFailedStep ==
    ASSUME IInv, scene' = scene, FetchFailed
    PROVE  IInv'
  <1>1. Later
    BY Parts, SameCloud DEF FetchFailed, server
  <1>2. JobsPart' /\ RunPart' /\ UploadingIsAtWork' /\ CopiesOK'
    BY <1>1, Marked DEF FetchFailed, files
  <1>3. RowPart'
    BY <1>1, Parts, MarkedRow, RowStays DEF FetchFailed, Conflicted, Mark, RowPart, SyncStatus
  <1>4. KeptOK'
    BY Parts, AtWork, KeptBusy DEF FetchFailed, files, watch
  <1> QED BY <1>1, <1>2, <1>3, <1>4, Frame DEF FetchFailed, server, files, watch

LEMMA ResolveFetchStep ==
    ASSUME IInv, scene' = scene, NEW j \in jobs, ResolveFetch(j)
    PROVE  IInv'
  <1>1. IsVersion(Known, Current) /\ Current = cloud[Known].hash
    BY Parts, CloudVersions DEF ResolveFetch
  <1>2. /\ Later /\ CloudPart' /\ disk' \in Hashes /\ event'
        /\ Known \in Versions /\ (\A b \in {Known} : Met(b)') /\ Current \in Hashes
    BY <1>1, Downloaded DEF ResolveFetch, server
  <1>3. FilesPart' /\ WatchPart'
    BY <1>2, Parts DEF ResolveFetch, FilesPart, WatchPart, Contents
  <1>4. j \in JobType
    BY Parts DEF JobsPart
  <1>5. ResolvePart'
    <2>1. /\ resolve'.stage = "record" /\ resolve'.version = Known /\ resolve'.hash = Current
      BY DEF ResolveFetch
    <2>2. resolve' \in ResolveType
      BY <1>2, <1>4 DEF ResolveFetch, ResolveType, JobType, Contents
    <2>3. IsVersion(resolve.version, resolve.hash)'
      BY <1>1, <1>2, <2>1, VersionStays DEF IsVersion
    <2>4. ResolveOK'
      BY <1>2, <2>1, <2>3, SameTypes DEF ResolveFetch, ResolveOK, Met
    <2> QED BY <1>2, <2>2, <2>4, SameTypes DEF ResolvePart
  <1>6. CopiesOK'
    <2>1. resolve'.id = j.id /\ resolve.id = 0 /\ j.id # 0
      BY <1>4, Parts, SceneType DEF ResolveFetch, NoChoice, JobType
    <2>2. \A i \in jobs : i.id # 0
      BY Parts, SceneType DEF JobsPart, JobType
    <2> QED BY <2>1, <2>2, Parts DEF ResolveFetch, local, CopiesOK, ConflictHasCopy, World
  <1>7. KeptOK'
    BY <1>2, Parts, NullAssumption, AtWork, KeptBusy DEF ResolveFetch, local
  <1>8. RunPart'
    BY <1>2, Parts, RunStays DEF ResolveFetch, server, SameIntents
  <1> QED BY <1>2, <1>3, <1>5, <1>6, <1>7, <1>8, Frame DEF ResolveFetch, server, local

LEMMA ResolveRecordStep ==
    ASSUME IInv, scene' = scene, ResolveRecord
    PROVE  IInv'
  <1>1. Later
    BY Parts, SameCloud DEF ResolveRecord, server
  <1>2. /\ resolve \in ResolveType
        /\ IsVersion(resolve.version, resolve.hash) /\ Met(resolve.version)
    BY Parts DEF ResolvePart, ResolveOK, ResolveRecord
  <1>3. RowPart'
    <2>1. row' \in RowType /\ row'.version = resolve.version /\ row'.hash = resolve.hash
      BY <1>2 DEF ResolveRecord, CloudState, ResolveType, RowType, SyncStatus
    <2>2. resolve.version \in 1..Known' /\ cloud'[resolve.version].hash = resolve.hash
      BY <1>1, <1>2, VersionStays
    <2>3. \A b \in {resolve.version} : Met(b)'
      BY <1>1, <1>2, MetStays DEF IsVersion
    <2>4. RowOK'
      BY <2>1, <2>2, <2>3 DEF RowOK, IsVersion, Met
    <2> QED BY <1>1, <2>1, <2>4, SameTypes DEF RowPart
  <1>4. StatePart' /\ state'.exists
    BY <1>2 DEF ResolveRecord, Seeing, ResolveType, StatePart
  <1>5. ResolvePart'
    <2>1. /\ resolve' \in ResolveType
          /\ resolve'.stage = "choose" /\ resolve'.id = resolve.id /\ "user" \in World
      BY <1>2, Parts DEF ResolveRecord, ResolvePart, ResolveType, ResolveOK, NoChoice
    <2> QED BY <1>1, <2>1, SameTypes DEF ResolvePart, ResolveOK
  <1>6. CopiesOK'
    BY <1>2, Parts DEF ResolveRecord, files, CopiesOK, ConflictHasCopy, World
  <1>7. KeptOK'
    <2>1. Known > 0
      BY <1>1, <1>2 DEF IsVersion, Later
    <2> QED BY <1>4, <2>1, Parts, AtWork, KeptBusy DEF ResolveRecord, CloudState, Seeing, files, watch
  <1> QED BY <1>1, <1>3, <1>4, <1>5, <1>6, <1>7, Frame DEF ResolveRecord, server, files, watch

\* The user has chosen; the copy of this conflict may be gone now, no other one.
LEMMA Chosen ==
    ASSUME IInv, Later, NEW s \in {"end", "requeue"}, Choosing(s),
           UNCHANGED <<jobs, run>>, copies' = copies \/ DropCopy
    PROVE  ResolvePart' /\ CopiesOK' /\ copies' \subseteq copies
           /\ (run.stage \in {"fetch", "record"} => run.hash \in copies')
  <1>1. resolve \in ResolveType /\ resolve.stage = "choose" /\ "user" \in World
    BY Parts DEF Choosing, ResolvePart, ResolveOK, NoChoice
  <1>2. resolve' \in ResolveType /\ resolve'.stage = s /\ resolve'.id = resolve.id
    BY <1>1 DEF Choosing, ResolveType
  <1>3. ResolvePart'
    BY <1>1, <1>2, SameTypes DEF ResolvePart, ResolveOK
  <1>4. copies' \subseteq copies /\ (run.stage \in {"fetch", "record"} => run.hash \in copies')
    BY Parts DEF DropCopy, OtherCopies, RunPart, RunOK
  <1>5. \A j \in jobs : j.id # resolve.id /\ j.copy \in copies => j.copy \in copies'
    BY DEF DropCopy, OtherCopies, JobOf
  <1>6. CopiesOK'
    BY <1>2, <1>5, Parts DEF CopiesOK, ConflictHasCopy, World, Later
  <1> QED BY <1>3, <1>4, <1>6

LEMMA ResolveChoiceStep ==
    ASSUME IInv, scene' = scene, ResolveBoth \/ ResolveCloud \/ ResolveLocal
    PROVE  IInv'
  <1>1. Later /\ UNCHANGED <<server, local, run, pull, hashed, gone, quiet, seen>>
    BY Parts, SameCloud DEF ResolveBoth, ResolveCloud, ResolveLocal, server, watch
  <1>2. ResolvePart' /\ CopiesOK' /\ copies' \subseteq copies
        /\ (run.stage \in {"fetch", "record"} => run.hash \in copies')
    BY <1>1, Chosen DEF ResolveBoth, ResolveCloud, ResolveLocal, files, local
  <1>3. UNCHANGED <<disk, event>> \/ (disk' \in copies /\ event' = TRUE)
    BY DEF ResolveBoth, ResolveCloud, ResolveLocal, files, watch
  <1>5. FilesPart' /\ WatchPart'
    BY <1>1, <1>2, <1>3, Parts DEF FilesPart, WatchPart, Contents
  <1>6. RunPart'
    BY <1>1, <1>2, Parts, RunStays DEF SameIntents, server
  <1>7. KeptOK'
    BY <1>1, <1>3, Parts, NullAssumption DEF KeptOK, Blank, server, local, World, FilesPart
  <1> QED BY <1>1, <1>2, <1>5, <1>6, <1>7, Frame DEF server, local

LEMMA Cancelled ==
    ASSUME IInv, Later, NEW id, Cancel(id)
    PROVE  RowPart' /\ JobsPart' /\ Calm
  <1>1. RowPart'
    BY Parts, MarkedRow, RowStays DEF Cancel, RowPart, SyncStatus
  <1>2. JobsPart' /\ Calm
    BY JobTable DEF Cancel, Calm
  <1> QED BY <1>1, <1>2

LEMMA ResolveEndStep ==
    ASSUME IInv, scene' = scene, ResolveEnd
    PROVE  IInv'
  <1>1. Later
    BY Parts, SameCloud DEF ResolveEnd, server
  <1>2. RowPart' /\ JobsPart' /\ Calm
    BY <1>1, Cancelled DEF ResolveEnd
  <1>3. ResolvePart'
    BY <1>1, Parts, SceneType, SameTypes
    DEF ResolveEnd, NoChoice, ResolvePart, ResolveType, ResolveOK, Contents
  <1>4. WatchPart'
    BY Parts DEF ResolveEnd, WatchPart, FilesPart
  <1>5. UploadingIsAtWork'
    BY <1>2, Parts, CalmUploading DEF ResolveEnd
  <1>6. CopiesOK'
    <2>1. \A j \in jobs' : j \in jobs /\ (j.id = resolve.id => j.status = "UPLOADING")
      BY DEF ResolveEnd, Cancel, Cancellable, JobOf
    <2> QED BY <2>1, Parts DEF ResolveEnd, files, CopiesOK, ConflictHasCopy, World
  <1>7. KeptOK'
    <2>1. (jobs' = jobs /\ row' = row) \/ jobs # {}
      BY DEF ResolveEnd, Cancel, Cancellable, JobOf
    <2>2. disk' = disk /\ state' = state /\ gone' = gone /\ event' = event
          /\ (hashed' = hashed \/ (hashed' = disk /\ disk # Null))
      BY DEF ResolveEnd, files
    <2> QED BY <2>1, <2>2, Parts DEF KeptOK, Blank, ResolveEnd, server, World
  <1> QED BY <1>1, <1>2, <1>3, <1>4, <1>5, <1>6, <1>7, Frame DEF ResolveEnd, server, files

-----------------------------------------------------------------------------
(* The pull                                                                *)

PullType == [stage : {"idle", "list", "write", "record"}, version : Versions, hash : Contents]

LEMMA PullStopped ==
    ASSUME IInv, Later, pull' = Stop
    PROVE  PullPart'
  BY Parts, SceneType, SameTypes DEF Stop, PullPart, PullOK, Contents

\* A round begins a step with the version that is current now.
LEMMA PullsCurrent ==
    ASSUME IInv, Later, UNCHANGED cloud, Known > 0, "pull" \in World, NEW s \in {"list", "write"},
           pull' = [Stop EXCEPT !.stage = s, !.version = Known, !.hash = Current]
    PROVE  PullPart'
  <1>1. Known \in Versions /\ Current \in Hashes /\ IsVersion(Known, Current)
    BY Parts, CloudVersions DEF IsVersion
  <1>2. pull' \in PullType /\ pull'.stage = s /\ pull'.version = Known /\ pull'.hash = Current
    BY <1>1, SceneType, Parts DEF Stop, PullType, Contents
  <1>3. IsVersion(pull.version, pull.hash)'
    BY <1>1, <1>2, VersionStays DEF IsVersion
  <1> QED BY <1>2, <1>3, SameTypes DEF PullPart, PullOK, PullType

LEMMA PullListStep ==
    ASSUME IInv, scene' = scene, PullList
    PROVE  IInv'
  <1>1. Later
    BY Parts, SameCloud DEF PullList, server
  <1>2. PullPart'
    BY <1>1, PullsCurrent DEF PullList, server
  <1> QED BY <1>1, <1>2, Frame DEF PullList, server, files, local, watch

LEMMA PullEndStep ==
    ASSUME IInv, scene' = scene, PullSkip \/ PullFail
    PROVE  IInv'
  <1>1. Later
    BY Parts, SameCloud DEF PullSkip, PullFail, server
  <1>2. PullPart'
    BY <1>1, PullStopped DEF PullSkip, PullFail
  <1> QED BY <1>1, <1>2, Frame DEF PullSkip, PullFail, server, files, local, watch

LEMMA PullFetchStep ==
    ASSUME IInv, scene' = scene, PullFetch
    PROVE  IInv'
  <1>1. Later
    BY Parts, SameCloud DEF PullFetch, server
  <1>2. "pull" \in World /\ IsVersion(pull.version, pull.hash)
    BY Parts DEF PullFetch, PullPart, PullOK
  <1>3. Known > 0
    BY <1>1, <1>2 DEF IsVersion, Later
  <1>4. PullPart'
    BY <1>1, <1>2, <1>3, PullsCurrent DEF PullFetch, server
  <1>5. WatchPart'
    BY Parts DEF PullFetch, WatchPart
  <1> QED BY <1>1, <1>4, <1>5, Frame DEF PullFetch, server, files, local

\* What the pull records is a version of the cloud, and one it has downloaded
\* unless the file was removed.
LEMMA PulledRow ==
    ASSUME IInv, Later, pull.stage # "idle",
           row' = [version |-> pull.version, hash |-> pull.hash, status |-> "SYNCED"],
           pull.stage = "record" \/ "remove" \in World
    PROVE  RowPart'
  <1>1. pull \in PullType /\ IsVersion(pull.version, pull.hash) /\ Met(pull.version)
    BY Parts DEF PullPart, PullType, PullOK, Met, Orderly
  <1>2. row' \in RowType /\ row'.version = pull.version /\ row'.hash = pull.hash
    BY <1>1 DEF RowType, PullType, SyncStatus
  <1>3. pull.version \in 1..Known' /\ cloud'[pull.version].hash = pull.hash
    BY <1>1, VersionStays
  <1>4. \A b \in {pull.version} : Met(b)'
    BY <1>1, MetStays DEF IsVersion
  <1>5. RowOK'
    BY <1>2, <1>3, <1>4 DEF RowOK, IsVersion, Met
  <1> QED BY <1>2, <1>5, SameTypes DEF RowPart

LEMMA PullMetadataStep ==
    ASSUME IInv, scene' = scene, PullMetadata
    PROVE  IInv'
  <1>1. Later
    BY Parts, SameCloud DEF PullMetadata, server
  <1>2. PullPart'
    BY <1>1, PullStopped DEF PullMetadata
  <1>3. "remove" \in World
    <2>1. ~Blank
      <3>1. IsVersion(pull.version, pull.hash)
        BY Parts DEF PullMetadata, PullPart, PullOK
      <3>2. Known > 0
        BY <1>1, <3>1 DEF IsVersion, Later
      <3> QED BY <3>2, AtWork
    <2> QED BY <2>1, Parts DEF PullMetadata, KeptOK
  <1>4. RowPart'
    BY <1>1, <1>3, PulledRow DEF PullMetadata
  <1>5. KeptOK'
    BY <1>3 DEF KeptOK, World
  <1>6. CASE ~state.exists /\ UNCHANGED <<state, jobs>>
    BY <1>1, <1>2, <1>4, <1>5, <1>6, Frame DEF PullMetadata, server, files, watch
  <1>7. CASE state' = [state EXCEPT !.exists = FALSE] /\ jobs' = {}
    <2>1. StatePart'
      BY <1>7, Parts DEF StatePart
    <2>2. JobsPart' /\ UploadingIsAtWork' /\ CopiesOK'
      BY <1>7, NothingQueued DEF PullMetadata, files
    <2> QED BY <1>1, <1>2, <1>4, <1>5, <2>1, <2>2, Frame DEF PullMetadata, server, files, watch
  <1> QED BY <1>6, <1>7 DEF PullMetadata

LEMMA PullWriteStep ==
    ASSUME IInv, scene' = scene, PullWrite
    PROVE  IInv'
  <1>1. /\ pull \in PullType /\ IsVersion(pull.version, pull.hash) /\ "pull" \in World
        /\ pull.hash = cloud[pull.version].hash
    BY Parts DEF PullPart, PullType, PullOK, PullWrite, IsVersion
  <1>2. /\ Later /\ CloudPart' /\ disk' \in Hashes /\ event'
        /\ (\A b \in {pull.version} : Met(b)')
    BY <1>1, Downloaded DEF PullWrite, server
  <1>3. FilesPart' /\ WatchPart'
    BY <1>2, Parts DEF PullWrite, Download, FilesPart, WatchPart, Contents
  <1>4. PullPart'
    <2>1. pull' \in PullType /\ pull'.stage = "record" /\ pull'.version = pull.version
          /\ pull'.hash = pull.hash
      BY <1>1 DEF PullWrite, PullType
    <2>2. IsVersion(pull.version, pull.hash)'
      BY <1>1, <1>2, <2>1, VersionStays DEF IsVersion
    <2> QED BY <1>1, <1>2, <2>1, <2>2, SameTypes DEF PullPart, PullOK, PullType, Met
  <1>5. RunPart'
    BY <1>2, Parts, RunStays DEF PullWrite, server, SameIntents
  <1>6. KeptOK'
    <2>1. Known > 0
      BY <1>1, <1>2 DEF IsVersion, Later
    <2> QED BY <1>2, <2>1, Parts, NullAssumption, AtWork, KeptBusy DEF PullWrite, local
  <1>7. CopiesOK'
    BY Parts DEF PullWrite, local, CopiesOK, ConflictHasCopy, World
  <1> QED BY <1>2, <1>3, <1>4, <1>5, <1>6, <1>7, Frame DEF PullWrite, server, local

LEMMA PullRecordStep ==
    ASSUME IInv, scene' = scene, PullRecord
    PROVE  IInv'
  <1>1. Later
    BY Parts, SameCloud DEF PullRecord, server
  <1>2. PullPart' /\ RowPart'
    BY <1>1, PullStopped, PulledRow DEF PullRecord, UpsertRemoteFile
  <1>3. StatePart' /\ state'.exists
    BY Parts DEF PullRecord, UpsertRemoteFile, Seeing, StatePart, PullPart
  <1>4. KeptOK'
    <2>1. IsVersion(pull.version, pull.hash)
      BY Parts DEF PullRecord, PullPart, PullOK
    <2>2. Known > 0
      BY <1>1, <2>1 DEF IsVersion, Later
    <2> QED BY <1>3, <2>2, Parts, AtWork, KeptBusy DEF PullRecord, UpsertRemoteFile, Seeing, files, watch
  <1> QED BY <1>1, <1>2, <1>3, <1>4, Frame DEF PullRecord, server, files, watch

-----------------------------------------------------------------------------
(* Other devices, the user's hand on the queue, restarts                   *)

LEMMA OtherCommitStep ==
    ASSUME IInv, scene' = scene, NEW h \in Hashes, OtherCommit(h)
    PROVE  IInv'
  <1>. DEFINE e == [hash |-> h, by |-> "other"]
  <1>1. e \in [hash : Hashes, by : {"client", "other"}] /\ e.hash = h /\ e.by = "other"
    OBVIOUS
  <1>. HIDE DEF e
  <1>2. cloud' = Append(cloud, e)
    BY DEF OtherCommit, e
  <1>3. /\ Later /\ Known' = Known + 1 /\ cloud'[Known + 1] = e
        /\ cloud' \in Seq([hash : Hashes, by : {"client", "other"}])
    BY <1>1, <1>2, Parts, LongerCloud DEF OtherCommit
  <1>4. /\ Known \in Nat /\ \A v \in 1..Known : cloud'[v] = cloud[v]
        /\ Known > 0 /\ Known + 1 <= MaxVersion /\ MaxVersion \in Nat
    <2>1. MaxVersion \in Nat /\ Known \in 1..(MaxVersion - 1)
      BY Parts, SceneType DEF OtherCommit
    <2>2. Known \in Nat /\ \A v \in 1..Known : cloud'[v] = cloud[v]
      BY <1>3 DEF Later
    <2> QED BY <2>1, <2>2
  <1>5. NoDuplicateVersion'
    <2>1. ASSUME NEW v \in 2..Known PROVE cloud'[v].hash # cloud'[v - 1].hash
      <3>1. v \in 1..Known /\ v - 1 \in 1..Known
        BY <1>4
      <3>2. cloud[v].hash # cloud[v - 1].hash
        BY Parts DEF CloudPart, CloudOK, NoDuplicateVersion
      <3> QED BY <1>4, <3>1, <3>2
    <2>2. cloud'[Known + 1].hash # cloud'[Known].hash
      <3>1. Known \in 1..Known /\ Current = cloud[Known].hash
        BY <1>4, Parts, CloudVersions
      <3> QED BY <1>1, <1>3, <1>4, <3>1 DEF OtherCommit
    <2>3. \A v \in 2..(Known + 1) : cloud'[v].hash # cloud'[v - 1].hash
      BY <1>4, <2>1, <2>2
    <2> QED BY <1>3, <2>3 DEF NoDuplicateVersion
  <1>6. SeenBeforeOverwritten => SeenBeforeOverwritten'
    <2>. SUFFICES ASSUME SeenBeforeOverwritten PROVE SeenBeforeOverwritten'
      OBVIOUS
    <2>1. ASSUME NEW v \in 2..Known, cloud'[v].by = "client", cloud'[v - 1].by = "other"
          PROVE  v - 1 \in seen
      <3>1. v \in 1..Known /\ v - 1 \in 1..Known
        BY <1>4
      <3> QED BY <1>4, <2>1, <3>1 DEF SeenBeforeOverwritten
    <2>2. \A v \in 2..(Known + 1) :
             cloud'[v].by = "client" /\ cloud'[v - 1].by = "other" => v - 1 \in seen
      BY <1>1, <1>3, <1>4, <2>1
    <2> QED BY <1>3, <2>2 DEF SeenBeforeOverwritten, OtherCommit
  <1>7. CloudPart'
    <2>1. Known' \in Versions' /\ seen' \subseteq Versions'
      BY <1>3, <1>4, Parts, SameTypes DEF OtherCommit, Versions, CloudPart
    <2>2. \A v \in 1..(Known + 1) : cloud'[v].by = "other" => "other" \in World
      BY DEF OtherCommit
    <2>3. CloudOK'
      BY <1>3, <1>5, <1>6, <2>2, Parts, SameTypes DEF CloudPart, CloudOK, Orderly
    <2> QED BY <1>3, <2>1, <2>3 DEF CloudPart
  <1>8. KeptOK'
    BY <1>4, Parts, AtWork, KeptBusy DEF OtherCommit, files, local, watch
  <1> QED BY <1>3, <1>7, <1>8, Frame DEF OtherCommit, files, local, watch

LEMMA RetryStep ==
    ASSUME IInv, scene' = scene, NEW j \in jobs, Retry(j)
    PROVE  IInv'
  <1>1. Later
    BY Parts, SameCloud DEF Retry, server
  <1>2. RowPart'
    BY <1>1, MarkedRow DEF Retry, SyncStatus
  <1>. DEFINE new == [j EXCEPT !.status = "PENDING"]
  <1>3. new \in JobType /\ new.base = j.base /\ new.status = "PENDING"
    BY Parts DEF JobsPart, JobType, SyncStatus
  <1>4. \A i \in jobs' : i \in jobs \/ i = new
    BY DEF Retry, Replace
  <1>. HIDE DEF new
  <1>5. JobsPart' /\ Calm
    BY <1>1, <1>3, <1>4, JobTable DEF Calm
  <1>6. UploadingIsAtWork' /\ CopiesOK' /\ KeptOK'
    BY <1>5, Parts, CalmUploading, CalmCopies, AtWork, KeptBusy DEF Retry, files, watch
  <1> QED BY <1>1, <1>2, <1>5, <1>6, Frame DEF Retry, server, files, watch

LEMMA CancelJobStep ==
    ASSUME IInv, scene' = scene, NEW j \in jobs, CancelJob(j)
    PROVE  IInv'
  <1>1. Later
    BY Parts, SameCloud DEF CancelJob, server
  <1>2. RowPart' /\ JobsPart' /\ Calm
    BY <1>1, Cancelled DEF CancelJob
  <1>3. UploadingIsAtWork' /\ CopiesOK' /\ KeptOK'
    BY <1>2, Parts, CalmUploading, CalmCopies, AtWork, KeptBusy DEF CancelJob, files, watch
  <1> QED BY <1>1, <1>2, <1>3, Frame DEF CancelJob, server, files, watch

LEMMA RestartStep ==
    ASSUME IInv, scene' = scene, Restart
    PROVE  IInv'
  <1>1. /\ Later
        /\ UNCHANGED cloud \/ CloudPart'
        /\ UNCHANGED <<intents, late>> \/ IntentsPart'
    BY Parts, SameCloud, Unheard DEF Restart, server
  <1>2. RunPart'
    BY <1>1, Parts, AtRestOK DEF Restart
  <1>3. \A j \in jobs' : \/ j \in jobs /\ j.status # "UPLOADING"
                         \/ \E i \in jobs : j = [i EXCEPT !.status = "PENDING"]
    BY DEF Restart
  <1>4. \A i \in jobs : LET new == [i EXCEPT !.status = "PENDING"]
                        IN  new \in JobType /\ new.base = i.base /\ new.status = "PENDING"
    BY Parts DEF JobsPart, JobType, SyncStatus
  <1>5. JobsPart' /\ Calm /\ \A j \in jobs' : j.status # "UPLOADING"
    BY <1>1, <1>3, <1>4, JobTable DEF Calm
  <1>6. UploadingIsAtWork'
    BY <1>5 DEF UploadingIsAtWork
  <1>7. CopiesOK'
    <2>1. CASE "user" \in World
      BY <2>1 DEF Restart, CopiesOK, World
    <2>2. CASE "user" \notin World
      <3>1. resolve' = resolve
        BY <2>2, Parts DEF Restart, ResolvePart, ResolveOK
      <3> QED BY <1>5, <3>1, Parts, CalmCopies DEF Restart, files
    <2> QED BY <2>1, <2>2
  <1>8. PullPart'
    BY <1>1, PullStopped DEF Restart
  <1>9. ResolvePart'
    BY <1>1, Parts, SceneType, SameTypes
    DEF Restart, NoChoice, ResolvePart, ResolveType, ResolveOK, Contents
  <1>10. WatchPart'
    BY DEF Restart, WatchPart, Contents
  <1>11. KeptOK'
    <2>1. Blank => Blank'
      <3>. SUFFICES ASSUME Blank PROVE Blank'
        OBVIOUS
      <3>1. run.stage = "idle" /\ jobs' = {}
        BY DEF Blank, Idle, Restart
      <3>2. UNCHANGED server
        BY <3>1 DEF Restart, CommitUnheard
      <3> QED BY <3>1, <3>2 DEF Restart, Blank, server
    <2> QED BY <2>1, Parts DEF Restart, KeptOK, files, World
  <1> QED
    BY <1>1, <1>2, <1>5, <1>6, <1>7, <1>8, <1>9, <1>10, <1>11, Frame DEF Restart, files

-----------------------------------------------------------------------------
(* The theorems                                                            *)

LEMMA Initially == ASSUME Init PROVE IInv
  <1>1. scene \in Scenes /\ Known = 0 /\ MaxVersion \in Nat /\ 0 \in Versions
    BY SceneType DEF Init, Known
  <1>2. CloudPart
    BY <1>1 DEF Init, CloudPart, CloudOK, NoDuplicateVersion, SeenBeforeOverwritten, Known
  <1>3. IntentsPart
    BY DEF Init, IntentsPart, IntentsOK
  <1>4. RowPart /\ StatePart /\ JobsPart
    BY <1>1 DEF Init, RowPart, RowType, RowOK, NoRow, StatePart, NoState, JobsPart, JobsOK, Contents,
                SyncStatus, Met
  <1>5. RunPart
    <2>1. Idle \in RunType
      BY <1>1 DEF Idle, KeyOf, RunType, Contents, Key
    <2>2. run.stage = "idle" /\ run.id = 0 /\ run.base = 0
      BY DEF Init, Idle
    <2>3. RunOK
      BY <1>1, <2>2 DEF RunOK, Based, Met
    <2> QED BY <2>1, <2>3 DEF Init, RunPart
  <1>6. PullPart
    BY <1>1 DEF Init, PullPart, PullOK, Stop, Contents
  <1>7. ResolvePart
    BY <1>1 DEF Init, ResolvePart, ResolveType, ResolveOK, NoChoice, Contents
  <1>8. FilesPart /\ WatchPart
    BY DEF Init, FilesPart, WatchPart, Contents
  <1>9. UploadingIsAtWork /\ CopiesOK /\ KeptOK
    BY DEF Init, UploadingIsAtWork, CopiesOK, ConflictHasCopy, KeptOK, Blank, NoState
  <1> QED BY <1>1, <1>2, <1>3, <1>4, <1>5, <1>6, <1>7, <1>8, <1>9, Parts

LEMMA NextStep == ASSUME IInv, Next, scene' = scene PROVE IInv'
  <1>1. CASE User
    BY <1>1, SaveStep, RemoveStep, ResolveFetchStep, RetryStep, CancelJobStep DEF User
  <1>2. CASE Watcher
    BY <1>2, UnsuppressStep, HandleReadyStep, HandleQueueStep, HandleLockedStep, HandleDeletedStep
    DEF Watcher
  <1>3. CASE Verify
    <2>1. CASE VerifyMissing
      BY <2>1, FailStep DEF VerifyMissing
    <2>2. CASE VerifyChanged
      BY <2>2, RequeueStep DEF VerifyChanged
    <2> QED BY <1>3, <2>1, <2>2, VerifyWaitingStep, VerifySameStep, RereadStep DEF Verify
  <1>4. CASE Requests
    <2>1. CASE Refused
      BY <2>1, FailStep DEF Refused
    <2> QED
      BY <1>4, <2>1, PreflightStep, UploadStep, UploadFailedStep, CommitStep, RequestLostStep,
         LockedStep, LateCommitStep
      DEF Requests
  <1>5. CASE \/ \E j \in jobs : Dispatch(j)
             \/ SyncedChanged \/ Synced
             \/ CopyConflict \/ CopyFailed \/ FetchConflict \/ FetchFailed \/ RecordConflict
    BY <1>5, DispatchStep, SyncedChangedStep, SyncedStep, CopyConflictStep, CopyFailedStep,
       FetchConflictStep, FetchFailedStep, RecordConflictStep
  <1>6. CASE Resolve
    BY <1>6, ResolveRecordStep, ResolveChoiceStep, ResolveEndStep DEF Resolve
  <1>7. CASE Pull
    BY <1>7, PullListStep, PullEndStep, PullMetadataStep, PullFetchStep, PullWriteStep,
       PullRecordStep
    DEF Pull
  <1>8. CASE Restart \/ \E h \in Hashes : OtherCommit(h)
    BY <1>8, RestartStep, OtherCommitStep
  <1> QED BY <1>1, <1>2, <1>3, <1>4, <1>5, <1>6, <1>7, <1>8 DEF Next, Pump

LEMMA Stutter == ASSUME IInv, UNCHANGED <<scene, vars>> PROVE IInv'
  <1>1. Later
    BY Parts, SameCloud DEF vars, server
  <1> QED BY <1>1, Frame DEF vars, server, files, local, watch

\* The invariant of the client, in whatever world it runs: every memory it has of the
\* cloud is of a version that is there, and every job and request is what it was made for.
THEOREM Inductive == Spec => []IInv
  <1>1. IInv /\ [Next /\ UNCHANGED scene]_<<scene, vars>> => IInv'
    BY NextStep, Stutter
  <1> QED BY <1>1, Initially, PTL DEF Spec

\* Every variable keeps its type, the bounds on versions and jobs included.
THEOREM TypeCorrect == Spec => []TypeOK
  BY Inductive, PTL DEF IInv

\* The version and content the client shows for the file, and puts its next upload on
\* top of, are those of a version of the cloud.  Six functions of sync-engine.ts and
\* db.ts record them, each after an await.
THEOREM RowIsReal == Spec => []RowIsCloudVersion
  <1>1. IInv => RowIsCloudVersion
    BY Parts DEF RowPart, RowOK, IsVersion, RowIsCloudVersion, RowType, Versions
  <1> QED BY <1>1, Inductive, PTL

\* Neither a retry after a lost answer nor a commit that takes effect long after the client
\* gave up makes a second version of a content that is current.
THEOREM VersionsDiffer == Spec => []NoDuplicateVersion
  BY Inductive, PTL DEF IInv, CloudOK

\* In a world without both late commits and other devices, and without both removals and
\* pulls, the client never covers a version of another device that its user has not had.
THEOREM NothingUnseenIsCovered == Spec => [](Orderly => SeenBeforeOverwritten)
  BY Inductive, PTL DEF IInv, CloudOK

\* Unless the application is restarted in the middle of a choice, a conflict has its copy
\* until the user has chosen: no other conflict's choice deletes it.
THEOREM ConflictsKeepCopies ==
    Spec => []({"user", "restart"} \subseteq World \/ ConflictHasCopy)
  BY Inductive, PTL DEF IInv, CopiesOK

\* A job that says UPLOADING is the one the pump has, whatever fails or interrupts it.
THEOREM UploadsAreAtWork == Spec => []UploadingIsAtWork
  BY Inductive, PTL DEF IInv

=============================================================================
