----------------------------- MODULE SyncClient -----------------------------
(***************************************************************************)
(* One desktop client and one of its files: the sync engine of             *)
(* src/main/sync-engine.ts, its SQLite queue of src/main/db.ts, the watcher *)
(* that feeds it, the user who saves the file, and the cloud it talks to.  *)
(*                                                                         *)
(* The engine is one thread: a function runs undisturbed up to its next    *)
(* await, and the network, the disk or another of its functions may be     *)
(* next.  What a function remembers across its awaits is in run (the job   *)
(* that is processed), pull (a round of pullRemoteChanges), resolve and     *)
(* hashed (handleFileReady).  Awaits between which nothing that another    *)
(* step changes is read or written are taken together.                     *)
(*                                                                         *)
(* The cloud is the list of the file's versions: CloudVersions shows that  *)
(* its handlers append one version at a time, whoever races.  A request    *)
(* takes effect in one step, but its answer may be lost, and a commit may  *)
(* take effect long after the client gave up waiting for it.               *)
(***************************************************************************)
EXTENDS Integers, Sequences, FiniteSets

CONSTANTS
    Hashes,       \* file contents, told apart by their SHA-256
    Null,         \* SQL NULL, no file, no content
    Scenes        \* each bounds a behaviour: what may happen around the engine, the
                  \* versions written, and the rows of pending_sync at a time

\* The user removes the file, Excel keeps it from being read, a request or its
\* answer is lost, a commit takes effect after the client gave up, the cloud
\* refuses a request, another device holds a lease on the file or uploads a
\* version, the client asks for the cloud's versions, the user acts on a job, the
\* app restarts.
Happens == {"remove", "busy", "loss", "late", "refusal", "lease", "other", "pull", "user",
            "restart"}

ASSUME NullAssumption == Null \notin Hashes
ASSUME SceneAssumption == Scenes \subseteq [happens : SUBSET Happens, versions : Nat, jobs : Nat]

VARIABLES
    scene,      \* the scene, which stays
    cloud,      \* the versions in the cloud, each with its content and author
    intents,    \* the cloud's upload intents, by idempotency key
    late,       \* keys of commit requests the client no longer waits for
    disk,       \* the content at the file's path
    copies,     \* the contents of the conflict copies next to it
    row,        \* the client's row of table files: known version and status
    state,      \* the client's row of local_file_state: last hash, exists_flag
    jobs,       \* the client's rows of pending_sync
    run,        \* the job the pump is processing
    pull,       \* the round of pullRemoteChanges
    resolve,    \* resolveConflict after its download
    hashed,     \* the content that handleFileReady has hashed and not yet queued
    event,      \* the watcher is about to report that the file changed
    gone,       \* the watcher is about to report that the file was removed
    quiet,      \* events of the path are suppressed
    seen        \* history: cloud versions whose content this client has had on disk

server == <<cloud, intents, late>>
files == <<disk, copies>>
local == <<row, state, jobs>>
watch == <<event, gone, quiet>>
vars == <<server, files, local, run, pull, resolve, hashed, watch, seen>>

World == scene.happens
MaxVersion == scene.versions    \* bound: no version above this one is written
JobIds == 1 .. scene.jobs       \* bound: the rows and the job at work at a time

Versions == 0..MaxVersion
Contents == Hashes \cup {Null}
SyncStatus == {"none", "SYNCED", "PENDING", "UPLOADING", "RETRY_WAIT", "CONFLICT", "ERROR"}
Waiting == {"PENDING", "RETRY_WAIT"}            \* jobs the pump may take
Active == Waiting \cup {"UPLOADING"}

\* fileId:base:hash, fileId:base:WAITING:path (no hash, job 0) or WAITING:jobId.
Key == [base : Versions, hash : Contents, job : JobIds \cup {0}]
KeyOf(b, h) == [base |-> b, hash |-> h, job |-> 0]

NoIntent == [status |-> "none", hash |-> Null, base |-> 0]
NoRow == [version |-> 0, hash |-> Null, status |-> "none"]
NoState == [last |-> Null, exists |-> FALSE]
\* Between two jobs, and between two rounds or conflicts.
Idle == [stage |-> "idle", id |-> 0, hash |-> Null, base |-> 0, key |-> KeyOf(0, Null),
         fresh |-> FALSE, reused |-> FALSE, caught |-> FALSE, known |-> Null, version |-> 0]
Stop == [stage |-> "idle", version |-> 0, hash |-> Null]
NoChoice == [stage |-> "idle", version |-> 0, hash |-> Null, id |-> 0, copy |-> Null]

Known == Len(cloud)
Current == IF cloud = <<>> THEN Null ELSE cloud[Len(cloud)].hash

Init ==
    /\ scene \in Scenes
    /\ cloud = <<>> /\ late = {}
    /\ intents = [k \in {} |-> NoIntent]
    /\ disk = Null /\ copies = {}
    /\ row = NoRow /\ state = NoState /\ jobs = {}
    /\ run = Idle /\ pull = Stop /\ resolve = NoChoice /\ hashed = Null
    /\ event = FALSE /\ gone = FALSE /\ quiet = FALSE
    /\ seen = {}

-----------------------------------------------------------------------------
(* The queue: what the functions of LocalDb do to pending_sync and files.  *)

Mark(status) == [row EXCEPT !.status = status]
JobOf(id) == {j \in jobs : j.id = id}
Replace(j, new) == (jobs \ {j}) \cup {new}
FreshIds == {i \in JobIds : /\ \A j \in jobs : j.id # i
                            /\ run.id # i /\ resolve.id # i
                            /\ \A k \in DOMAIN intents : k.job # i}
NewJob(id, h, b, status) ==
    [id |-> id, hash |-> h, base |-> b, key |-> KeyOf(b, h), fresh |-> TRUE,
     status |-> status, copy |-> Null]

\* upsertState, of a file that is there.
Seeing(h) == [last |-> h, exists |-> TRUE]

\* ensureFile: the row of the path, inserted when there is none.
Ensured == IF row = NoRow THEN Mark("PENDING") ELSE row

\* queueUpsert has nothing to do: the content is the known one or is queued
\* already, or a row that ended in an error or a conflict holds its key.
Unhashed == {j \in jobs : j.status = "RETRY_WAIT" /\ j.hash = Null}
HasActivePending(h) == \E j \in jobs : j.hash = h /\ j.status \in Active
\* Faulty variant: only active rows count, whoever holds the key.
AlreadyQueuedActive(h) ==
    row.hash = h \/ HasActivePending(h)
AlreadyQueued(h) ==
    \/ row.hash = h \/ HasActivePending(h)
    \/ Unhashed = {} /\ \E j \in jobs : j.key = KeyOf(row.version, h)

\* handleFileReady after hashing content h: ensureFile or upsertState, then
\* queueUpsert, which fills a job that waits for the file or inserts a new one.
QueueUpsert(h) ==
    /\ state' = Seeing(h)
    /\ \/ /\ AlreadyQueued(h)
          /\ row' = Ensured /\ UNCHANGED jobs
       \/ /\ ~AlreadyQueued(h)
          /\ row' = Mark("PENDING")
          /\ \/ \E j \in Unhashed :
                   jobs' = Replace(j, [j EXCEPT !.hash = h, !.base = row.version,
                                                !.status = "PENDING"])
             \/ /\ Unhashed = {}
                /\ \E i \in FreshIds : jobs' = jobs \cup {NewJob(i, h, row.version, "PENDING")}

\* rebaseQueuedForFile: every queued job goes on top of version v, under a new
\* key; a key that another row holds makes SQLite undo the whole transaction.
Rebased(j, v) ==
    [j EXCEPT !.base = v,
              !.key = [KeyOf(v, j.hash) EXCEPT !.job = IF j.hash = Null THEN j.id ELSE 0]]
Rebase(js, v) ==
    LET moved == {j \in js : j.status \in Waiting}
        result == (js \ moved) \cup {Rebased(j, v) : j \in moved}
    IN  IF \A i, j \in result : i.key = j.key => i = j THEN result ELSE js

-----------------------------------------------------------------------------
(* The user and the watcher                                                *)

\* The user saves other content, or removes a file that the client has synced.
Save(h) ==
    /\ disk # h
    /\ disk' = h /\ event' = TRUE
    /\ UNCHANGED <<server, copies, local, run, pull, resolve, hashed, gone, quiet, seen>>

Remove ==
    /\ "remove" \in World
    /\ disk # Null /\ row.version > 0
    /\ disk' = Null /\ event' = FALSE /\ gone' = TRUE
    /\ UNCHANGED <<server, copies, local, run, pull, resolve, hashed, quiet, seen>>

\* The 3.5 seconds of a suppression are over.
Unsuppress ==
    /\ quiet /\ quiet' = FALSE
    /\ UNCHANGED <<server, files, local, run, pull, resolve, hashed, event, gone, seen>>

\* handleFileReady of a watcher event: dropped while the path is suppressed or
\* when the file is gone, otherwise the file is hashed.  One hash is under way at a time
\* (a bound: a later event waits for it).
HandleReady ==
    /\ event /\ event' = FALSE
    /\ \/ (quiet \/ disk = Null) /\ UNCHANGED hashed
       \/ ~quiet /\ disk # Null /\ hashed = Null /\ hashed' = disk
    /\ UNCHANGED <<server, files, local, run, pull, resolve, gone, quiet, seen>>

HandleQueue ==
    /\ hashed # Null /\ hashed' = Null
    /\ QueueUpsert(hashed)
    /\ UNCHANGED <<server, files, run, pull, resolve, watch, seen>>

\* ensureWaitingFile: the file is there, its content not yet known.
EnsureWaiting == state' = IF row = NoRow THEN Seeing(Null) ELSE state

\* queueWaitingUpsert: a job whose content is still to be hashed.  A key that an
\* older row holds makes SQLite undo the insertion.
QueueWaiting ==
    \/ \E j \in jobs :
          \/ j.status = "UPLOADING" /\ UNCHANGED <<row, jobs>>
          \/ /\ j.status \in Waiting
             /\ jobs' = Replace(j, [j EXCEPT !.status = "RETRY_WAIT"])
             /\ row' = Mark("RETRY_WAIT")
    \/ /\ \A j \in jobs : j.status \notin Active
       /\ \/ /\ \E j \in jobs : j.key = KeyOf(row.version, Null)
             /\ UNCHANGED <<row, jobs>>
          \/ /\ \A j \in jobs : j.key # KeyOf(row.version, Null)
             /\ row' = Mark("RETRY_WAIT")
             /\ \E i \in FreshIds :
                   jobs' = jobs \cup {NewJob(i, Null, row.version, "RETRY_WAIT")}

\* handleFileReady when another program locks the file.
HandleLocked ==
    /\ "busy" \in World
    /\ event /\ event' = FALSE
    /\ ~quiet /\ disk # Null
    /\ EnsureWaiting /\ QueueWaiting
    /\ UNCHANGED <<server, files, run, pull, resolve, hashed, gone, quiet, seen>>

\* Faulty variant: the jobs of a file that is gone stay.
MissingKeepsJobs ==
    state' = [state EXCEPT !.exists = FALSE] /\ row' = Mark("SYNCED") /\ UNCHANGED jobs

\* markMissing: a file that the cloud has loses its jobs and is cloud-only.
Missing ==
    /\ state' = [state EXCEPT !.exists = FALSE]
    /\ jobs' = {} /\ row' = Mark("SYNCED")

HandleDeleted ==
    /\ gone /\ gone' = FALSE
    /\ IF quiet THEN UNCHANGED local ELSE Missing
    /\ UNCHANGED <<server, files, run, pull, resolve, hashed, event, quiet, seen>>

-----------------------------------------------------------------------------
(* The pump: processOne, runPending, processUpsert                         *)

\* The file's next job is taken.  Priorities and retry times differ, so that it
\* may be any of those that wait.
Dispatch(j) ==
    /\ run = Idle
    /\ j \in jobs /\ j.status \in Waiting
    /\ jobs' = Replace(j, [j EXCEPT !.status = "UPLOADING", !.fresh = FALSE])
    /\ row' = Mark("UPLOADING")
    /\ run' = [Idle EXCEPT !.stage = "verify", !.id = j.id, !.hash = j.hash, !.base = j.base,
                           !.key = j.key, !.fresh = j.fresh, !.known = row.hash]
    /\ UNCHANGED <<server, files, state, pull, resolve, hashed, watch, seen>>

Step(s) == run' = [run EXCEPT !.stage = s]

\* Faulty variant: a failed job keeps its status.
FailUnmarked(status) ==
    run' = Idle /\ UNCHANGED jobs /\ row' = IF JobOf(run.id) # {} THEN Mark(status) ELSE row

\* What markRetry and markError make of the job at work, if it still exists.
Fail(status) ==
    /\ run' = Idle
    /\ jobs' = {IF j.id = run.id THEN [j EXCEPT !.status = status] ELSE j : j \in jobs}
    /\ row' = IF JobOf(run.id) # {} THEN Mark(status) ELSE row

\* cancelPending of all the file's jobs and handleFileReady, because the content
\* on disk is not the one that was queued; a suppressed path is not read.
Requeue ==
    /\ jobs' = {}
    /\ run' = IF quiet THEN Idle ELSE [Idle EXCEPT !.stage = "reread"]

\* stat or sha256File of the queued path.
VerifyMissing ==
    /\ run.stage = "verify" /\ disk = Null
    /\ Fail("ERROR")
    /\ UNCHANGED <<server, files, state, pull, resolve, hashed, watch, seen>>

\* Faulty variant: the hash found for a waiting job is not kept.
VerifyWaitingUnhashed ==
    /\ run.stage = "verify" /\ disk # Null /\ run.hash = Null
    /\ Step("preflight")
    /\ UNCHANGED <<server, files, local, pull, resolve, hashed, watch, seen>>

\* A job without a hash takes the content found now, or ends if it is known.
VerifyWaiting ==
    /\ run.stage = "verify" /\ disk # Null /\ run.hash = Null
    /\ \/ /\ run.known = disk
          /\ jobs' = jobs \ JobOf(run.id)
          /\ row' = IF JobOf(run.id) # {} THEN Mark("SYNCED") ELSE row
          /\ state' = Seeing(disk)
          /\ run' = Idle
       \/ /\ run.known # disk /\ JobOf(run.id) # {}
          /\ jobs' = {IF j.id = run.id THEN [j EXCEPT !.hash = disk, !.status = "UPLOADING"]
                      ELSE j : j \in jobs}
          /\ run' = [run EXCEPT !.stage = "preflight", !.hash = disk, !.fresh = FALSE,
                                !.known = Null]
          /\ UNCHANGED <<row, state>>
       \/ /\ run.known # disk /\ JobOf(run.id) = {}
          /\ Fail("RETRY_WAIT") /\ UNCHANGED state
    /\ UNCHANGED <<server, files, pull, resolve, hashed, watch, seen>>

VerifyChanged ==
    /\ run.stage = "verify" /\ disk # Null /\ run.hash # Null /\ disk # run.hash
    /\ Requeue
    /\ UNCHANGED <<server, files, row, state, pull, resolve, hashed, watch, seen>>

\* A first attempt may trust the recorded state of an untouched file.
VerifySame ==
    /\ run.stage = "verify" /\ disk = run.hash /\ disk # Null
    /\ \E reused \in {FALSE, run.fresh /\ state.last = run.hash} :
          run' = [run EXCEPT !.stage = "preflight", !.reused = reused, !.fresh = FALSE,
                             !.known = Null]
    /\ UNCHANGED <<server, files, local, pull, resolve, hashed, watch, seen>>

\* The handleFileReady that follows a Requeue, awaited by the job.
Reread ==
    /\ run.stage = "reread" /\ run' = Idle
    /\ IF disk = Null THEN UNCHANGED local ELSE QueueUpsert(disk)
    /\ UNCHANGED <<server, files, pull, resolve, hashed, watch, seen>>

-----------------------------------------------------------------------------
(* The requests of a job and their answers                                 *)

\* The Worker's answer to a preflight.  An intent that is committed has its
\* version on top of its base, so that the answer is never "committed".
Reply ==
    LET known == run.key \in DOMAIN intents
        intent == intents[run.key]
    IN  IF known /\ (intent.hash # run.hash \/ intent.base # run.base) THEN "refused"
        ELSE IF Known > 0 /\ Current = run.hash THEN "noop"
        ELSE IF Known # run.base THEN "conflict"
        ELSE IF ~known \/ intent.status = "reserved" THEN "upload_required"
        ELSE IF intent.status = "uploaded" THEN "commit_required"
        ELSE "refused"
SetIntent(k, status, h, b) ==
    intents' = [x \in DOMAIN intents \cup {k} |->
                  IF x = k THEN [status |-> status, hash |-> h, base |-> b] ELSE intents[x]]
Reserve ==
    IF run.key \in DOMAIN intents THEN UNCHANGED intents
    ELSE SetIntent(run.key, "reserved", run.hash, run.base)

\* Faulty variant: a job in conflict is put on top of the current version instead.
PreflightRebasing ==
    /\ run.stage = "preflight"
    /\ \/ /\ Reply = "noop"
          /\ run' = [run EXCEPT !.stage = "synced", !.known = Current, !.version = Known]
          /\ UNCHANGED intents
       \/ /\ Reply = "upload_required" /\ run.base < MaxVersion
          /\ Reserve /\ Step("upload")
       \/ /\ Reply = "conflict"
          /\ run' = [run EXCEPT !.base = Known, !.key = KeyOf(Known, run.hash)]
          /\ UNCHANGED intents
    /\ UNCHANGED <<cloud, late, files, local, pull, resolve, hashed, watch, seen>>

Preflight ==
    /\ run.stage = "preflight"
    /\ \/ /\ Reply = "noop"
          /\ run' = [run EXCEPT !.stage = "synced", !.known = Current, !.version = Known]
          /\ UNCHANGED intents
       \/ /\ Reply = "upload_required" /\ run.base < MaxVersion
          /\ Reserve
          /\ run' = [run EXCEPT !.stage = "upload", !.reused = FALSE]
       \/ /\ Reply = "commit_required"
          /\ run' = [run EXCEPT !.stage = "commit", !.reused = FALSE]
          /\ UNCHANGED intents
       \/ /\ Reply \in {"conflict", "refused"}
          /\ Step("copy")
          /\ UNCHANGED intents
    /\ UNCHANGED <<cloud, late, files, local, pull, resolve, hashed, watch, seen>>

\* The upload reads the file once more.
Uploadable == Known = run.base /\ disk = run.hash
SetUploaded == SetIntent(run.key, "uploaded", run.hash, run.base)
Caught == run' = [run EXCEPT !.stage = "copy", !.caught = TRUE]

Upload ==
    /\ run.stage = "upload" /\ Uploadable
    /\ SetUploaded
    /\ Step("commit")
    /\ UNCHANGED <<cloud, late, files, local, pull, resolve, hashed, watch, seen>>

\* A stale base or other bytes than the reserved ones are a 409 of the Worker;
\* the desktop's own storage backend finds the other bytes itself, and retries.
\* There is nothing to upload when the file is gone.
UploadFailed ==
    /\ run.stage = "upload" /\ ~Uploadable
    /\ \/ disk # Null /\ Caught /\ UNCHANGED <<row, jobs>>
       \/ disk # Null /\ disk # run.hash /\ Fail("RETRY_WAIT")
       \/ disk = Null /\ Fail("ERROR")
    /\ UNCHANGED <<server, files, state, pull, resolve, hashed, watch, seen>>

\* What the Worker's commit of key k does: a version of the intent, or nothing
\* when it is committed already or its content is the current one.
Committable(k) ==
    \/ intents[k].status = "committed"
    \/ intents[k].status = "uploaded" /\ (Known = intents[k].base \/ Current = intents[k].hash)
\* Faulty variant: an intent that is committed already is committed again.
CommitEffectTwice(k) ==
    IF Committable(k) /\ Known < MaxVersion
    THEN /\ cloud' = Append(cloud, [hash |-> intents[k].hash, by |-> "client"])
         /\ SetIntent(k, "committed", intents[k].hash, intents[k].base)
    ELSE UNCHANGED <<cloud, intents>>
CommitEffect(k) ==
    LET i == intents[k] IN
    IF ~Committable(k) \/ i.status = "committed" THEN UNCHANGED <<cloud, intents>>
    ELSE IF Known = i.base
    THEN /\ cloud' = Append(cloud, [hash |-> i.hash, by |-> "client"])
         /\ SetIntent(k, "committed", i.hash, i.base)
    ELSE SetIntent(k, "abandoned", i.hash, i.base) /\ UNCHANGED cloud

\* The answer names the file's current version.  Any other answer is a 409.
Commit ==
    /\ run.stage = "commit"
    /\ CommitEffect(run.key)
    /\ IF Committable(run.key)
       THEN run' = [run EXCEPT !.stage = "synced", !.version = Len(cloud'),
                               !.known = cloud'[Len(cloud')].hash]
       ELSE Caught
    /\ UNCHANGED <<late, files, local, pull, resolve, hashed, watch, seen>>

\* Nobody waits for the commit any more: it has taken effect, or may still do so.
CommitUnheard ==
    /\ run.stage = "commit"
    /\ \/ CommitEffect(run.key) /\ UNCHANGED late
       \/ "late" \in World /\ late' = late \cup {run.key} /\ UNCHANGED <<cloud, intents>>

\* A request fails: no answer or a timeout, which count as retryable, or a file
\* that cannot be read.  The request may have taken effect all the same.
RequestLost ==
    /\ \/ "loss" \in World /\ run.stage \in {"preflight", "upload", "commit"}
       \/ "busy" \in World /\ run.stage \in {"verify", "upload"}
    /\ Fail("RETRY_WAIT")
    /\ \/ UNCHANGED server
       \/ /\ run.stage = "preflight" /\ Reply = "upload_required" /\ run.base < MaxVersion
          /\ Reserve /\ UNCHANGED <<cloud, late>>
       \/ /\ "loss" \in World
          /\ run.stage = "upload" /\ Uploadable
          /\ SetUploaded /\ UNCHANGED <<cloud, late>>
       \/ CommitUnheard
    /\ UNCHANGED <<files, state, pull, resolve, hashed, watch, seen>>

LateCommit(k) ==
    /\ k \in late /\ late' = late \ {k}
    /\ CommitEffect(k)
    /\ UNCHANGED <<files, local, run, pull, resolve, hashed, watch, seen>>

\* The cloud refuses for good: no permission, too large.
Refused ==
    /\ "refusal" \in World
    /\ run.stage \in {"preflight", "upload", "commit"}
    /\ Fail("ERROR")
    /\ UNCHANGED <<server, files, state, pull, resolve, hashed, watch, seen>>

\* Another device holds a lease on the file: FILE_LOCKED, a 409 as well.
Locked ==
    /\ "lease" \in World
    /\ \/ run.stage = "preflight" /\ Known > 0 /\ Step("copy")
       \/ run.stage \in {"upload", "commit"} /\ Caught
    /\ UNCHANGED <<server, files, local, pull, resolve, hashed, watch, seen>>

\* A noop for a file that was not hashed again is verified before it counts.
SyncedChanged ==
    /\ run.stage = "synced" /\ run.reused /\ disk # run.hash
    /\ IF disk = Null THEN Fail("ERROR") ELSE Requeue /\ UNCHANGED row
    /\ UNCHANGED <<server, files, state, pull, resolve, hashed, watch, seen>>

\* markSynced and rebaseQueuedForFile.
Synced ==
    /\ run.stage = "synced" /\ (run.reused => disk = run.hash)
    /\ run' = Idle
    /\ row' = IF JobOf(run.id) = {} THEN row
              ELSE [version |-> run.version, hash |-> run.known, status |-> "SYNCED"]
    /\ jobs' = Rebase(jobs \ JobOf(run.id), run.version)
    /\ seen' = IF run.known = run.hash THEN seen \cup {run.version} ELSE seen
    /\ UNCHANGED <<server, files, state, pull, resolve, hashed, watch>>

-----------------------------------------------------------------------------
(* createConflict                                                          *)

\* The file is copied before anything is downloaded over it.  A file that is
\* gone ends the job in an error, but an error inside the error handler leaves
\* the job as it is.
CopyConflict ==
    /\ run.stage = "copy" /\ disk # Null
    /\ copies' = copies \cup {disk}
    /\ quiet' = TRUE
    /\ run' = [run EXCEPT !.stage = "fetch", !.hash = disk]
    /\ UNCHANGED <<server, disk, local, pull, resolve, hashed, event, gone, seen>>

CopyFailed ==
    /\ run.stage = "copy" /\ disk = Null
    /\ IF run.caught THEN run' = Idle /\ UNCHANGED <<row, jobs>> ELSE Fail("ERROR")
    /\ UNCHANGED <<server, files, state, pull, resolve, hashed, watch, seen>>

\* Version v replaces the file, which is a change the watcher sees.
Download(v) ==
    /\ disk' = cloud[v].hash /\ event' = TRUE
    /\ seen' = seen \cup {v}

FetchConflict ==
    /\ run.stage = "fetch" /\ Known > 0
    /\ Download(Known)
    /\ run' = [run EXCEPT !.stage = "record", !.version = Known, !.known = Current]
    /\ UNCHANGED <<server, copies, local, pull, resolve, hashed, gone, quiet>>

\* updateCloudState.
CloudState(v, h, status) == [version |-> v, hash |-> h, status |-> status]

\* markConflict; the copy is named in the job's error message.
MarkConflict ==
    /\ jobs' = {IF j.id = run.id THEN [j EXCEPT !.status = "CONFLICT", !.copy = run.hash]
                ELSE j : j \in jobs}
    /\ run' = Idle
Conflicted(r) == IF JobOf(run.id) # {} THEN [r EXCEPT !.status = "CONFLICT"] ELSE r

\* After the download.
RecordConflict ==
    /\ run.stage = "record"
    /\ row' = Conflicted(CloudState(run.version, run.known, "SYNCED"))
    /\ state' = Seeing(run.known)
    /\ MarkConflict
    /\ UNCHANGED <<server, files, pull, resolve, hashed, watch, seen>>

\* No version to download, or no answer: markConflict alone.
FetchFailed ==
    /\ run.stage = "fetch" /\ (Known = 0 \/ "loss" \in World)
    /\ row' = Conflicted(row)
    /\ MarkConflict
    /\ UNCHANGED <<server, files, state, pull, resolve, hashed, watch, seen>>

-----------------------------------------------------------------------------
(* resolveConflict                                                         *)

ResolveFetch(j) ==
    /\ "user" \in World
    /\ resolve = NoChoice
    /\ j \in jobs /\ j.status = "CONFLICT" /\ Known > 0
    /\ Download(Known) /\ quiet' = TRUE
    /\ resolve' = [stage |-> "record", version |-> Known, hash |-> Current, id |-> j.id,
                   copy |-> j.copy]
    /\ UNCHANGED <<server, copies, local, run, pull, hashed, gone>>

\* Faulty variant: records the version that is current now, not the one downloaded.
ResolveRecordCurrent ==
    /\ resolve.stage = "record"
    /\ row' = CloudState(Known, Current, "CONFLICT")
    /\ state' = Seeing(Current)
    /\ resolve' = [resolve EXCEPT !.stage = "choose"]
    /\ UNCHANGED <<server, files, jobs, run, pull, hashed, watch, seen>>

ResolveRecord ==
    /\ resolve.stage = "record"
    /\ row' = CloudState(resolve.version, resolve.hash, "CONFLICT")
    /\ state' = Seeing(resolve.hash)
    /\ resolve' = [resolve EXCEPT !.stage = "choose"]
    /\ UNCHANGED <<server, files, jobs, run, pull, hashed, watch, seen>>

\* cancelPendingById, which leaves a job at work alone.
\* Faulty variant: a conflict is not ended.
CancellableQueued(id) == {j \in JobOf(id) : j.status \in Waiting \cup {"ERROR"}}
Cancellable(id) == {j \in JobOf(id) : j.status # "UPLOADING"}
Cancel(id) ==
    /\ jobs' = jobs \ Cancellable(id)
    /\ row' = IF Cancellable(id) = {} THEN row
              ELSE Mark(IF row.version > 0 THEN "SYNCED" ELSE "ERROR")

Choosing(s) == resolve.stage = "choose" /\ resolve' = [resolve EXCEPT !.stage = s]
\* A conflict copy goes, but not one of another conflict with the same content.
OtherCopies == {j.copy : j \in jobs \ JobOf(resolve.id)}
                 \cup (IF run.stage \in {"fetch", "record"} THEN {run.hash} ELSE {})
DropCopy == copies' = copies \ ({resolve.copy} \ OtherCopies)

\* "both" leaves the copy as a file of its own; "cloud" deletes it; "local" moves
\* it in place of the download.
ResolveBoth ==
    /\ Choosing("end")
    /\ UNCHANGED <<server, files, local, run, pull, hashed, watch, seen>>

ResolveCloud ==
    /\ Choosing("end")
    /\ DropCopy
    /\ UNCHANGED <<server, disk, local, run, pull, hashed, watch, seen>>

ResolveLocal ==
    /\ Choosing("requeue")
    /\ resolve.copy \in copies /\ DropCopy
    /\ disk' = resolve.copy /\ event' = TRUE
    /\ UNCHANGED <<server, local, run, pull, hashed, gone, quiet, seen>>

\* The conflict ends, unless something else has ended it in the meantime, and
\* "local" has the file queued on top of the cloud's version.
ResolveEnd ==
    /\ resolve.stage \in {"end", "requeue"} /\ resolve' = NoChoice
    /\ Cancel(resolve.id)
    /\ \/ /\ resolve.stage = "end" \/ Cancellable(resolve.id) = {} \/ disk = Null
          /\ UNCHANGED <<hashed, quiet>>
       \/ /\ resolve.stage = "requeue" /\ Cancellable(resolve.id) # {} /\ disk # Null
          /\ hashed = Null /\ hashed' = disk /\ quiet' = FALSE
    /\ UNCHANGED <<server, files, state, run, pull, event, gone, seen>>

-----------------------------------------------------------------------------
(* pullRemoteChanges                                                       *)

\* filesList: the cloud's version and hash at that moment.
PullList ==
    /\ "pull" \in World
    /\ pull = Stop /\ Known > 0
    /\ pull' = [Stop EXCEPT !.stage = "list", !.version = Known, !.hash = Current]
    /\ UNCHANGED <<server, files, local, run, resolve, hashed, watch, seen>>

Busy == row.status \in {"PENDING", "UPLOADING", "RETRY_WAIT"}
UpToDate == row.version >= pull.version /\ row.hash = pull.hash

\* A file with work in the queue, or that is up to date, is left alone.
PullSkip ==
    /\ pull.stage = "list" /\ pull' = Stop
    /\ Busy \/ (state.exists /\ disk # Null /\ UpToDate)
    /\ UNCHANGED <<server, files, local, run, resolve, hashed, watch, seen>>

\* Faulty variant: the version of a file that is not on disk is not brought up to date.
PullMetadataHashOnly ==
    /\ pull.stage = "list" /\ pull' = Stop
    /\ ~Busy /\ ~state.exists
    /\ row' = [row EXCEPT !.hash = pull.hash, !.status = "SYNCED"]
    /\ UNCHANGED <<server, files, state, jobs, run, resolve, hashed, watch, seen>>

\* A file that is not on disk is only recorded (upsertRemoteMetadata), after
\* markMissing when the client did not know yet.
PullMetadata ==
    /\ pull.stage = "list" /\ pull' = Stop
    /\ ~Busy
    /\ \/ ~state.exists /\ UNCHANGED <<state, jobs>>
       \/ /\ state.exists /\ disk = Null
          /\ state' = [state EXCEPT !.exists = FALSE] /\ jobs' = {}
    /\ row' = [version |-> pull.version, hash |-> pull.hash, status |-> "SYNCED"]
    /\ UNCHANGED <<server, files, run, resolve, hashed, watch, seen>>

\* Faulty variant: the new content is taken for the version of the list.
PullFetchListed ==
    /\ pull.stage = "list"
    /\ ~Busy /\ state.exists /\ disk # Null /\ ~UpToDate
    /\ pull' = [pull EXCEPT !.stage = "write", !.hash = Current]
    /\ quiet' = TRUE
    /\ UNCHANGED <<server, files, local, run, resolve, hashed, event, gone, seen>>

\* The download begins: the answer is the version that is current now.
PullFetch ==
    /\ pull.stage = "list"
    /\ ~Busy /\ state.exists /\ disk # Null /\ ~UpToDate
    /\ pull' = [Stop EXCEPT !.stage = "write", !.version = Known, !.hash = Current]
    /\ quiet' = TRUE
    /\ UNCHANGED <<server, files, local, run, resolve, hashed, event, gone, seen>>

PullFail ==
    /\ "loss" \in World
    /\ pull.stage \in {"list", "write"} /\ pull' = Stop
    /\ UNCHANGED <<server, files, local, run, resolve, hashed, watch, seen>>

\* atomicReplace puts the download at the path, whatever is there by now.
PullWrite ==
    /\ pull.stage = "write"
    /\ Download(pull.version)
    /\ pull' = [pull EXCEPT !.stage = "record"]
    /\ UNCHANGED <<server, copies, local, run, resolve, hashed, gone, quiet>>

UpsertRemoteFile(v, h) ==
    row' = [version |-> v, hash |-> h, status |-> "SYNCED"] /\ state' = Seeing(h)

PullRecord ==
    /\ pull.stage = "record" /\ pull' = Stop
    /\ UpsertRemoteFile(pull.version, pull.hash)
    /\ UNCHANGED <<server, files, jobs, run, resolve, hashed, watch, seen>>

-----------------------------------------------------------------------------
(* Other devices, the user's hand on the queue, restarts                   *)

\* Another device uploads other content on top of the current version.
OtherCommit(h) ==
    /\ "other" \in World
    /\ Known \in 1..(MaxVersion - 1) /\ h # Current
    /\ cloud' = Append(cloud, [hash |-> h, by |-> "other"])
    /\ UNCHANGED <<intents, late, files, local, run, pull, resolve, hashed, watch, seen>>

\* requeuePending, offered for jobs that failed or wait.
Retry(j) ==
    /\ "user" \in World
    /\ j \in jobs /\ j.status \in {"ERROR", "RETRY_WAIT"}
    /\ jobs' = Replace(j, [j EXCEPT !.status = "PENDING"])
    /\ row' = Mark("PENDING")
    /\ UNCHANGED <<server, files, state, run, pull, resolve, hashed, watch, seen>>

\* pending:cancel, offered for jobs that are neither at work nor in conflict.
CancelJob(j) ==
    /\ "user" \in World
    /\ j \in jobs /\ j.status \in {"PENDING", "RETRY_WAIT", "ERROR"}
    /\ Cancel(j.id)
    /\ UNCHANGED <<server, files, state, run, pull, resolve, hashed, watch, seen>>

\* Faulty variant: interrupted jobs are not recovered.
RestartUnrecovered ==
    /\ "restart" \in World
    /\ run' = Idle /\ pull' = Stop /\ resolve' = NoChoice /\ hashed' = Null
    /\ event' = (disk # Null) /\ gone' = FALSE /\ quiet' = FALSE
    /\ UNCHANGED server \/ CommitUnheard
    /\ UNCHANGED <<files, local, seen>>

\* The application ends and starts again: recoverInterruptedJobs, and the
\* watcher reports every file it finds.  A commit on its way may take effect.
Restart ==
    /\ "restart" \in World
    /\ run' = Idle /\ pull' = Stop /\ resolve' = NoChoice /\ hashed' = Null
    /\ event' = (disk # Null) /\ gone' = FALSE /\ quiet' = FALSE
    /\ jobs' = {IF j.status = "UPLOADING" THEN [j EXCEPT !.status = "PENDING"] ELSE j : j \in jobs}
    /\ UNCHANGED server \/ CommitUnheard
    /\ UNCHANGED <<files, row, state, seen>>

-----------------------------------------------------------------------------
User == \/ \E h \in Hashes : Save(h)
        \/ Remove
        \/ \E j \in jobs : ResolveFetch(j) \/ Retry(j) \/ CancelJob(j)
Watcher == Unsuppress \/ HandleReady \/ HandleQueue \/ HandleLocked \/ HandleDeleted
Verify == VerifyMissing \/ VerifyWaiting \/ VerifyChanged \/ VerifySame \/ Reread
Requests == \/ Preflight \/ Upload \/ UploadFailed \/ Commit
            \/ RequestLost \/ Refused \/ Locked
            \/ \E k \in late : LateCommit(k)
Pump == \/ \E j \in jobs : Dispatch(j)
        \/ Verify \/ Requests \/ SyncedChanged \/ Synced
        \/ CopyConflict \/ CopyFailed \/ FetchConflict \/ FetchFailed \/ RecordConflict
Resolve == ResolveRecord \/ ResolveBoth \/ ResolveCloud \/ ResolveLocal \/ ResolveEnd
Pull == PullList \/ PullSkip \/ PullMetadata \/ PullFetch \/ PullFail \/ PullWrite \/ PullRecord

Next == User \/ Watcher \/ Pump \/ Resolve \/ Pull \/ Restart \/ \E h \in Hashes : OtherCommit(h)
Spec == Init /\ [][Next /\ UNCHANGED scene]_<<scene, vars>>

\* The watcher reports, the timers fire (every 2 s the pump, a suppression ends),
\* and what the pump has begun it goes on with.  Requests may fail, but not every
\* time: a retry comes at most an hour later, for ever.
Continue == \/ \E j \in jobs : Dispatch(j)
            \/ Reread \/ SyncedChanged \/ Synced
            \/ CopyConflict \/ CopyFailed \/ FetchConflict \/ FetchFailed \/ RecordConflict
EngineFairness ==
    /\ WF_vars(Unsuppress) /\ WF_vars(HandleReady \/ HandleLocked) /\ WF_vars(HandleQueue)
    /\ WF_vars(Continue) /\ SF_vars(Verify)
    /\ SF_vars(Preflight) /\ SF_vars(Upload \/ UploadFailed) /\ SF_vars(Commit)
FairSpec == Spec /\ EngineFairness

-----------------------------------------------------------------------------
(* Properties                                                              *)

\* Every variable holds a value of its type.
TypeOK ==
    /\ scene \in Scenes
    /\ cloud \in Seq([hash : Hashes, by : {"client", "other"}]) /\ Known \in Versions
    /\ DOMAIN intents \subseteq Key /\ late \subseteq DOMAIN intents
    /\ \A k \in DOMAIN intents :
          intents[k] \in [status : {"reserved", "uploaded", "committed", "abandoned"},
                          hash : Hashes, base : Versions]
    /\ disk \in Contents /\ copies \subseteq Hashes
    /\ row \in [version : Versions, hash : Contents, status : SyncStatus]
    /\ state \in [last : Contents, exists : BOOLEAN]
    /\ jobs \subseteq [id : JobIds, hash : Contents, base : Versions, key : Key,
                       fresh : BOOLEAN, status : SyncStatus, copy : Contents]
    /\ run \in [stage : {"idle", "verify", "reread", "preflight", "upload", "commit", "synced",
                         "copy", "fetch", "record"},
                id : JobIds \cup {0}, hash : Contents, base : Versions, key : Key,
                fresh : BOOLEAN, reused : BOOLEAN, caught : BOOLEAN, known : Contents,
                version : Versions]
    /\ pull \in [stage : {"idle", "list", "write", "record"}, version : Versions,
                 hash : Contents]
    /\ resolve \in [stage : {"idle", "record", "choose", "end", "requeue"}, version : Versions, hash : Contents,
                    id : JobIds \cup {0}, copy : Contents]
    /\ hashed \in Contents
    /\ event \in BOOLEAN /\ gone \in BOOLEAN /\ quiet \in BOOLEAN
    /\ seen \subseteq Versions

\* What the client records as the file's version and content is a version of the
\* cloud with that content, whichever of its six writers recorded it.
RowIsCloudVersion ==
    row.version > 0 => row.version <= Known /\ row.hash = cloud[row.version].hash

\* A content that is current already is not uploaded as a version again, neither
\* after a lost answer nor by a commit that takes effect late.
NoDuplicateVersion ==
    \A v \in 2..Known : cloud[v].hash # cloud[v - 1].hash

\* The client never puts its own version on top of one of another device whose
\* content has not been in the user's file before.
SeenBeforeOverwritten ==
    \A v \in 2..Known : cloud[v].by = "client" /\ cloud[v - 1].by = "other" => v - 1 \in seen

\* A conflict that waits for the user's choice has its conflict copy.
ConflictHasCopy ==
    \A j \in jobs : j.status = "CONFLICT" /\ resolve.id # j.id => j.copy \in copies

\* A job marked UPLOADING, which neither the pump nor the user can take again, is
\* the one the pump is processing; a restart leaves none behind.  (Where files are
\* removed, createConflict may fail in the error handler and leave the job so.)
UploadingIsAtWork ==
    "remove" \in World \/ \A j \in jobs : j.status = "UPLOADING" => run.id = j.id

\* When the user has stopped saving, the queue drains: every job ends as synced,
\* as an error or as a conflict.  (Jobs that reach the bound on versions stay.)
Capped == Known = MaxVersion
Drained == hashed = Null /\ \A j \in jobs : j.status \notin Active
QueueDrains == <>[][~\E h \in Hashes : Save(h)]_vars => <>[](Drained \/ Capped)

(* The inductive invariant: what each memory of the client is still worth.  Versions of
   the cloud stay as they are, so that a version once read keeps its content.        *)

\* Version v of the cloud has content h.
IsVersion(v, h) == v \in 1..Known /\ cloud[v].hash = h

\* The worlds in which the client's own version only covers what its user has had: no
\* commit of an unheard request is repeated while other devices write, and the pull
\* records no version that it did not download.
Orderly == ~({"late", "other"} \subseteq World) /\ ~({"remove", "pull"} \subseteq World)

\* Version b, on top of which the client may put its own, is its own or was on its disk.
Met(b) == Orderly /\ b > 0 /\ cloud[b].by = "other" => b \in seen
Based(b) == b \in 0..Known /\ Met(b)

\* An intent's content differs from that of its base, and it is committed by a version above.
IntentOK(i) ==
    /\ Based(i.base) /\ i.base < MaxVersion
    /\ i.base > 0 => cloud[i.base].hash # i.hash
    /\ i.status = "committed" => i.base < Known
IntentsOK ==
    /\ \A k \in DOMAIN intents : IntentOK(intents[k])
    /\ \A k \in late : intents[k].status # "reserved" /\ "late" \in World

\* The job at work has the intent it asked for, which no late commit takes from it
\* before its upload, and the version it is about to record.
RunOK ==
    /\ Based(run.base)
    /\ run.stage \in {"idle", "reread"} => run.id = 0
    /\ run.stage \in {"preflight", "upload", "commit", "synced", "copy", "fetch", "record"} =>
          run.hash \in Hashes
    /\ run.stage \in {"upload", "commit"} =>
          /\ run.key \in DOMAIN intents
          /\ intents[run.key].hash = run.hash /\ intents[run.key].base = run.base
          /\ run.stage = "upload" <=> intents[run.key].status = "reserved"
          /\ intents[run.key].status = "committed" => "late" \in World
    /\ run.stage \in {"synced", "record"} => IsVersion(run.version, run.known)
    /\ run.stage = "synced" => run.known = run.hash \/ Met(run.version)
    /\ run.stage = "record" => Met(run.version)
    /\ run.stage \in {"fetch", "record"} => run.hash \in copies

RowOK == (row.version > 0 => IsVersion(row.version, row.hash)) /\ Met(row.version)
PullOK ==
    /\ pull.stage # "idle" => "pull" \in World /\ IsVersion(pull.version, pull.hash)
    /\ pull.stage = "record" => Met(pull.version)
ResolveOK ==
    /\ resolve # NoChoice => "user" \in World
    /\ resolve.stage = "record" => IsVersion(resolve.version, resolve.hash) /\ Met(resolve.version)
JobsOK == \A j \in jobs : Based(j.base)

\* A restart between the end of a copy and that of its conflict leaves a conflict alone.
CopiesOK == {"user", "restart"} \subseteq World \/ ConflictHasCopy
CloudOK ==
    /\ NoDuplicateVersion
    /\ Orderly => SeenBeforeOverwritten
    /\ \A v \in 1..Known : cloud[v].by = "other" => "other" \in World

\* Where no file is removed, a client that has not looked at the file has nothing of it.
Blank == row = NoRow /\ jobs = {} /\ run = Idle /\ cloud = <<>> /\ DOMAIN intents = {}
KeptOK ==
    "remove" \notin World =>
        /\ ~gone
        /\ ~state.exists => Blank
        /\ disk = Null => ~state.exists /\ ~event /\ hashed = Null

IInv ==
    /\ TypeOK /\ CloudOK /\ IntentsOK /\ RunOK /\ RowOK /\ PullOK /\ ResolveOK /\ JobsOK
    /\ UploadingIsAtWork /\ CopiesOK /\ KeptOK

-----------------------------------------------------------------------------
(* What the documentation and the user interface say, and the code does not do *)

\* "All local modifications have been processed": at rest, with nothing in the
\* queue and the file shown as synced, the file holds the recorded content.
AtRest == ~event /\ ~gone /\ hashed = Null /\ run = Idle /\ pull = Stop /\ resolve = NoChoice
EditsAreNoticed ==
    AtRest /\ row.status = "SYNCED" /\ jobs = {} /\ disk # Null => disk = row.hash

\* "Preserve the user's local bytes": a download replaces only content that the
\* cloud or a conflict copy has.
EditsSurvivePull ==
    [][PullWrite => disk \in {Null} \cup {cloud[v].hash : v \in 1..Known}
                                    \cup copies]_vars

\* "Background sync does not automatically re-download a file that this client
\* knows was removed locally".
RemovedStaysRemoved == [][PullWrite => state.exists]_vars

\* "Both sides have a new version": there is a conflict only when another device
\* has written a version.
ConflictMeansOther ==
    (\E j \in jobs : j.status = "CONFLICT") => \E v \in 1..Known : cloud[v].by = "other"

\* "Conflicts must be resolved by an explicit choice": one disappears only while
\* its resolution is on its way.
ConflictIsChosen ==
    [][\A j \in jobs : j.status = "CONFLICT" /\ (\A i \in jobs' : i.id # j.id)
          => resolve.id = j.id]_vars
=============================================================================
