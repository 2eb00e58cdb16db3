-------------------------------- MODULE Rewind --------------------------------
(* The rewind of a workspace to an earlier time (worker/src/                 *)
(* collab-upgrade.ts): a plan made from the recorded file states, kept as    *)
(* one operation with an item for each change, and executed item by item     *)
(* while people go on working.  Each await of the executor is a step; the    *)
(* Worker may die at any of them, and the client then repeats the request or *)
(* asks for a retry.                                                         *)
EXTENDS Naturals, Sequences, FiniteSets

CONSTANTS
    Files,       \* files of the scope, in the order of their creation
    NewFiles,    \* those created after the target time
    Paths,       \* logical name and relative path in one
    Execs,       \* requests that may execute the operation at the same time
    Nothing,
    MaxWrites,   \* bound on what people do
    MaxFaults    \* bound on the deaths of the Worker and failures of the storage

ASSUME RewindAssumption == NewFiles \subseteq Files /\ MaxWrites \in Nat /\ MaxFaults \in Nat

VARIABLES
    files,       \* rows of files, or Nothing
    versions,    \* contents of the versions of each file
    snap,        \* latest row of file_state_history before the target time, or Nothing
    busy,        \* an upload is under way, or somebody else has the lease
    operation,   \* status of the operation with the idempotency key, or Nothing
    items,       \* status of each row of rewind_items
    execs,       \* the requests
    touched,     \* files people changed since the plan was made
    writes, faults

rewindVars == <<files, versions, snap, busy, operation, items, execs, touched, writes, faults>>
people == <<snap, touched, writes, busy>>

\* In the order of their names, which is the order of execution.
Actions == <<"NOOP", "RESTORE_PATH", "RESTORE_STATUS", "RESTORE_VERSION", "TRASH_NEW">>
Rank(a) == CHOOSE i \in DOMAIN Actions : Actions[i] = a
Items == Files \X {Actions[i] : i \in DOMAIN Actions}

FileRow == [path : Paths, status : {"active", "trashed", "deleted"}, version : Nat]

Outcomes == {"COMPLETED", "PARTIAL", "FAILED"}
Exec == [pc : {"idle", "insert", "start", "run", "list", "item", "read", "write", "fail", "finish"},
         todo : SUBSET Items, item : Items \cup {Nothing}, read : FileRow \cup {Nothing},
         done : BOOLEAN, status : Outcomes \cup {Nothing}]

ASSUME NothingAssumption == Nothing \notin FileRow \cup {"PLANNED", "RUNNING"} \cup Outcomes

RewindTypeOK ==
    /\ files \in [Files -> FileRow \cup {Nothing}] /\ versions \in [Files -> Seq(Nat)]
    /\ snap \in [Files -> FileRow \cup {Nothing}]
    /\ busy \in [Files -> BOOLEAN]
    /\ operation \in {Nothing, "PLANNED", "RUNNING"} \cup Outcomes
    /\ items \in [Items -> {"none", "PENDING", "RUNNING", "DONE", "FAILED"}]
    /\ execs \in [Execs -> Exec]
    /\ touched \subseteq Files

Idle == [pc |-> "idle", todo |-> {}, item |-> Nothing, read |-> Nothing, done |-> FALSE, status |-> Nothing]

ActivePathsUnique(rows) ==
    \A f, g \in Files : f # g /\ rows[f] # Nothing /\ rows[g] # Nothing
        => ~(rows[f].status = "active" /\ rows[g].status = "active" /\ rows[f].path = rows[g].path)

\* Whatever has happened to the files since the target time; the state at that
\* time may not have been recorded, for it is written after the change.
RewindInit ==
    /\ files \in [Files -> [path : Paths, status : {"active", "trashed", "deleted"}, version : 1 .. 2] \cup {Nothing}]
    /\ snap \in [Files -> [path : Paths, status : {"active", "trashed"}, version : {1}] \cup {Nothing}]
    /\ \A f \in Files : IF f \in NewFiles THEN snap[f] = Nothing /\ (files[f] # Nothing => files[f].version = 1)
                        ELSE files[f] # Nothing
    /\ ActivePathsUnique(files) /\ ActivePathsUnique(snap)
    /\ versions = [f \in Files |-> IF files[f] = Nothing THEN <<>> ELSE [n \in 1 .. files[f].version |-> n]]
    /\ busy = [f \in Files |-> FALSE]
    /\ operation = Nothing /\ items = [i \in Items |-> "none"]
    /\ execs = [e \in Execs |-> Idle]
    /\ touched = {} /\ writes = 0 /\ faults = 0

-----------------------------------------------------------------------------
(* What people do meanwhile, each as its handler leaves it (module           *)
(* CloudVersions has the handlers step by step).                             *)

Planning == operation # Nothing \/ \E e \in Execs : execs[e].pc = "insert"

PathFree(f, p) ==
    \A g \in Files \ {f} : files[g] # Nothing => ~(files[g].status = "active" /\ files[g].path = p)

Write(f, row) ==
    /\ writes < MaxWrites
    /\ writes' = writes + 1
    /\ files' = [files EXCEPT ![f] = row]
    /\ touched' = IF Planning THEN touched \cup {f} ELSE touched
    /\ UNCHANGED <<snap, operation, items, execs, faults>>

Rename(f, p) ==
    /\ files[f] # Nothing /\ files[f].status = "active" /\ files[f].path # p /\ PathFree(f, p)
    /\ Write(f, [files[f] EXCEPT !.path = p])
    /\ UNCHANGED <<versions, busy>>

Bin(f, from, to) ==
    /\ files[f] # Nothing /\ files[f].status = from
    /\ to = "active" => PathFree(f, files[f].path)
    /\ Write(f, [files[f] EXCEPT !.status = to])
    /\ UNCHANGED <<versions, busy>>

\* The preflight of an upload, which creates a new file.
Reserve(f, p) ==
    /\ ~busy[f]
    /\ IF files[f] = Nothing THEN PathFree(f, p) /\ Write(f, [path |-> p, status |-> "active", version |-> 0])
       ELSE files[f].status = "active" /\ files[f].path = p /\ Write(f, files[f])
    /\ busy' = [busy EXCEPT ![f] = TRUE]
    /\ UNCHANGED versions

\* The batch of the commit, which fails when the path is taken.
Commit(f) ==
    /\ busy[f] /\ files[f].version = Len(versions[f]) /\ PathFree(f, files[f].path)
    /\ files' = [files EXCEPT ![f].version = @ + 1, ![f].status = "active"]
    /\ versions' = [versions EXCEPT ![f] = Append(@, Len(@) + 1)]
    /\ busy' = [busy EXCEPT ![f] = FALSE]
    /\ touched' = IF Planning THEN touched \cup {f} ELSE touched
    /\ UNCHANGED <<snap, operation, items, execs, writes, faults>>

\* The upload ends without a commit, or the lease of somebody else ends.
Abandon(f) ==
    /\ busy[f]
    /\ busy' = [busy EXCEPT ![f] = FALSE]
    /\ UNCHANGED <<files, versions, snap, operation, items, execs, touched, writes, faults>>

People ==
    \E f \in Files :
        \/ \E p \in Paths : Rename(f, p) \/ Reserve(f, p)
        \/ Bin(f, "active", "trashed") \/ Bin(f, "trashed", "active") \/ Bin(f, "trashed", "deleted")
        \/ Commit(f) \/ Abandon(f)

-----------------------------------------------------------------------------
(* The plan. *)

Changes(f) ==
    {a \in {"RESTORE_PATH", "RESTORE_STATUS", "RESTORE_VERSION"} :
        CASE a = "RESTORE_PATH" -> snap[f].path # files[f].path
          [] a = "RESTORE_STATUS" -> snap[f].status # files[f].status
          [] OTHER -> snap[f].version > 0 /\ snap[f].version # files[f].version}

\* A file with no state to go back to is unsupported, unless it is new.
Unsupported ==
    {f \in Files : /\ files[f] # Nothing /\ snap[f] = Nothing
                   /\ f \notin NewFiles \/ files[f].status = "deleted"}

PlanOf(f) ==
    IF files[f] = Nothing THEN {}
    ELSE IF snap[f] = Nothing THEN {"TRASH_NEW"}
    ELSE IF Changes(f) = {} THEN {"NOOP"} ELSE Changes(f)

\* The files of the workspace, in whichever state, and what is to be done with each.
planRewind == {i \in Items : i[2] \in PlanOf(i[1])}

(* The executor. *)

Become(e, rec) == execs' = [execs EXCEPT ![e] = rec]
Proceed(e, pc) == Become(e, [execs[e] EXCEPT !.pc = pc])
Set(i, status) == items' = [items EXCEPT ![i] = status]

\* assertRewindFileIdle: nobody else has the file's lease or is uploading it.
FileIdle(f) == ~busy[f]

\* handleRewindExecute finds no operation with the key, and plans.
Plan(e) ==
    /\ execs[e].pc = "idle" /\ operation = Nothing
    /\ Unsupported = {}
    /\ Become(e, [Idle EXCEPT !.pc = "insert", !.todo = planRewind])
    /\ UNCHANGED <<files, versions, operation, items, faults, people>>

\* The batch that inserts the operation fails when the key has been used.
Insert(e) ==
    /\ execs[e].pc = "insert"
    /\ IF operation = Nothing
       THEN /\ operation' = "PLANNED"
            /\ items' = [i \in Items |-> IF i \in execs[e].todo THEN "PENDING" ELSE "none"]
            /\ Become(e, [Idle EXCEPT !.pc = "start"])
       ELSE Become(e, Idle) /\ UNCHANGED <<operation, items>>
    /\ UNCHANGED <<files, versions, faults, people>>

\* The request repeated with its key, or handleRewindRetry.
Again(e, retry) ==
    /\ execs[e].pc = "idle" /\ operation \notin {Nothing, "COMPLETED"}
    /\ items' = IF retry THEN [i \in Items |-> IF items[i] = "FAILED" THEN "PENDING" ELSE items[i]]
                ELSE items
    /\ Become(e, [Idle EXCEPT !.pc = "start"])
    /\ UNCHANGED <<files, versions, operation, faults, people>>

\* executeRewindOperation: the status is read, then set.
Start(e) ==
    /\ execs[e].pc = "start"
    /\ Proceed(e, IF operation = "COMPLETED" THEN "idle" ELSE "run")
    /\ UNCHANGED <<files, versions, operation, items, faults, people>>

Run(e) ==
    /\ execs[e].pc = "run"
    /\ operation' = "RUNNING"
    /\ Proceed(e, "list")
    /\ UNCHANGED <<files, versions, items, faults, people>>

\* Faulty variant: an item that has failed counts as finished.
UnfinishedNotFailed == {i \in Items : items[i] \in {"PENDING", "RUNNING"}}

Unfinished == {i \in Items : items[i] \notin {"none", "DONE"}}

\* Faulty variant: only items nobody has begun are executed.
ListPending(e) ==
    /\ execs[e].pc = "list"
    /\ Become(e, [execs[e] EXCEPT !.pc = "item", !.todo = {i \in Unfinished : items[i] = "PENDING"}])
    /\ UNCHANGED <<files, versions, operation, items, faults, people>>

List(e) ==
    /\ execs[e].pc = "list"
    /\ Become(e, [execs[e] EXCEPT !.pc = "item", !.todo = Unfinished])
    /\ UNCHANGED <<files, versions, operation, items, faults, people>>

First(todo) == {i \in todo : \A j \in todo : Rank(i[2]) <= Rank(j[2])}

\* The next item: an item without a change is done; assertRewindFileIdle
\* refuses a file somebody works on.
Take(e) ==
    /\ execs[e].pc = "item" /\ execs[e].todo # {}
    /\ \E i \in First(execs[e].todo) :
          LET rest == [execs[e] EXCEPT !.item = i, !.todo = @ \ {i}]
          IN  IF i[2] = "NOOP"
              THEN Set(i, "DONE") /\ Become(e, [rest EXCEPT !.done = TRUE])
              ELSE /\ Become(e, [rest EXCEPT !.pc = IF FileIdle(i[1]) THEN "read" ELSE "fail"])
                   /\ UNCHANGED items
    /\ UNCHANGED <<files, versions, operation, faults, people>>

\* The row an item is going to write, from the row that was read.
Target(i, row) ==
    CASE i[2] = "RESTORE_PATH" -> [row EXCEPT !.path = snap[i[1]].path]
      [] i[2] = "RESTORE_STATUS" -> [row EXCEPT !.status = snap[i[1]].status]
      [] i[2] = "TRASH_NEW" -> [row EXCEPT !.status = "trashed"]
      [] OTHER -> [row EXCEPT !.version = @ + 1]

Conflict(i, row) ==
    /\ i[2] = "RESTORE_PATH" \/ (i[2] = "RESTORE_STATUS" /\ row.status = "active")
    /\ ~PathFree(i[1], row.path)

\* The row of the file is read, the item is running, its path is looked up.
ReadFile(e) ==
    LET i == execs[e].item
        row == files[i[1]]
    IN  /\ execs[e].pc = "read"
        /\ Set(i, "RUNNING")
        /\ Become(e, [execs[e] EXCEPT !.read = row,
                                      !.pc = IF Conflict(i, Target(i, row)) THEN "fail" ELSE "write"])
        /\ UNCHANGED <<files, versions, operation, faults, people>>

Finished(e) == Become(e, [execs[e] EXCEPT !.pc = "item", !.item = Nothing, !.read = Nothing, !.done = TRUE])

\* Faulty variant: no unique index on the active paths.
RefusedNever(f, row) == FALSE

\* The unique index on the active paths refuses the batch.
Refused(f, row) == row.status = "active" /\ ~PathFree(f, row.path)

\* completeSimpleRewindItem: name, path and status are written as they were
\* read, but for the one the item is about.
WriteSimple(e) ==
    LET i == execs[e].item
        row == Target(i, execs[e].read)
    IN  /\ execs[e].pc = "write" /\ i[2] # "RESTORE_VERSION"
        /\ IF Refused(i[1], row) THEN Proceed(e, "fail") /\ UNCHANGED <<files, items>>
           ELSE /\ files' = [files EXCEPT ![i[1]].path = row.path, ![i[1]].status = row.status]
                /\ Set(i, "DONE")
                /\ Finished(e)
        /\ UNCHANGED <<versions, operation, faults, people>>

\* Faulty variant: the number counts the version it is restored from.
NextVersionAfterSource(row) == row.version + 2

NextVersion(row) == row.version + 1

\* Faulty variant: no unique index on the numbers.
VersionNeverTaken(f, n) == FALSE

\* The number of a version is unique.
VersionTaken(f, n) == n \in DOMAIN versions[f]

\* completeVersionRewindItem: the content is stored again, then the batch.
WriteVersion(e) ==
    LET i == execs[e].item
        f == i[1]
        n == NextVersion(execs[e].read)
        stored == versions[f][snap[f].version]
    IN  /\ execs[e].pc = "write" /\ i[2] = "RESTORE_VERSION"
        /\ IF VersionTaken(f, n) THEN Proceed(e, "fail") /\ UNCHANGED <<files, versions, items>>
           ELSE /\ versions' = [versions EXCEPT ![f] = [k \in DOMAIN @ \cup {n} |->
                                                           IF k = n THEN stored ELSE @[k]]]
                /\ files' = [files EXCEPT ![f].version = IF @ = n - 1 THEN n ELSE @]
                /\ Set(i, "DONE")
                /\ Finished(e)
        /\ UNCHANGED <<operation, faults, people>>

Fault == faults < MaxFaults /\ faults' = faults + 1

\* The storage does not clone the version.
StorageFails(e) ==
    /\ execs[e].pc = "write" /\ execs[e].item[2] = "RESTORE_VERSION"
    /\ Fault
    /\ Proceed(e, "fail")
    /\ UNCHANGED <<files, versions, operation, items, people>>

MarkFailed(e) ==
    /\ execs[e].pc = "fail"
    /\ Set(execs[e].item, "FAILED")
    /\ Become(e, [execs[e] EXCEPT !.pc = "item", !.item = Nothing, !.read = Nothing])
    /\ UNCHANGED <<files, versions, operation, faults, people>>

Outcome(e) == IF Unfinished = {} THEN "COMPLETED" ELSE IF execs[e].done THEN "PARTIAL" ELSE "FAILED"

Count(e) ==
    /\ execs[e].pc = "item" /\ execs[e].todo = {}
    /\ Become(e, [execs[e] EXCEPT !.pc = "finish", !.status = Outcome(e)])
    /\ UNCHANGED <<files, versions, operation, items, faults, people>>

FinishOperation(e) ==
    /\ execs[e].pc = "finish"
    /\ operation' = execs[e].status
    /\ Become(e, Idle)
    /\ UNCHANGED <<files, versions, items, faults, people>>

\* The Worker dies.
StopExec(e) ==
    /\ execs[e].pc # "idle"
    /\ Fault
    /\ Become(e, Idle)
    /\ UNCHANGED <<files, versions, operation, items, people>>

Work(e) ==
    \/ Insert(e) \/ Start(e) \/ Run(e) \/ List(e) \/ Take(e) \/ ReadFile(e) \/ WriteSimple(e)
    \/ WriteVersion(e) \/ MarkFailed(e) \/ Count(e) \/ FinishOperation(e)

RewindNext ==
    \/ People
    \/ \E e \in Execs : Plan(e) \/ Work(e) \/ StorageFails(e) \/ StopExec(e)
    \/ \E e \in Execs, retry \in BOOLEAN : Again(e, retry)

RewindSpec == RewindInit /\ [][RewindNext]_rewindVars

(* A Worker that lives goes on; whoever asked for the rewind retries it until *)
(* it is complete; uploads and leases come to an end.                        *)
RewindFairness ==
    /\ \A e \in Execs : WF_rewindVars(Work(e)) /\ WF_rewindVars(Again(e, TRUE))
    /\ \A f \in Files : WF_rewindVars(Abandon(f))

FairRewind == RewindSpec /\ RewindFairness

-----------------------------------------------------------------------------
(* Properties. *)

\* When the operation becomes COMPLETED, each file nobody has touched since the
\* plan is as it was at the target time: path, status and content; a file
\* created later is in the bin.  The items of a file are applied in the order
\* path, status, version, with crashes and retries in between.
Restored(f) ==
    IF snap[f] = Nothing THEN files[f] = Nothing \/ files[f].status # "active"
    ELSE /\ files[f].path = snap[f].path /\ files[f].status = snap[f].status
         /\ versions[f][files[f].version] = versions[f][snap[f].version]

CompletedIsRestored == operation = "COMPLETED" => \A f \in Files \ touched : Restored(f)

\* The renderer's text on retries (App.tsx:897): an item that is DONE is not
\* executed again.
DoneItemsStay == [][\A i \in Items : items[i] = "DONE" => items'[i] = "DONE"]_rewindVars

\* A rewound version that races with an upload never replaces a version.
VersionsOnlyGrow ==
    [][\A f \in Files : \A n \in DOMAIN versions[f] :
          n \in DOMAIN versions'[f] /\ versions'[f][n] = versions[f][n]]_rewindVars

\* A path item can never be applied: its path is taken by an active file that
\* belongs there, or that should itself take the path of the first one.  The
\* first happens although the file of the item belongs into the bin
\* (collab-upgrade.ts:979 does not look at its status).
Collide ==
    \E f, g \in {h \in Files : snap[h] # Nothing} :
        /\ files[f].path # snap[f].path
        /\ files[g].status = "active" /\ snap[g].status = "active" /\ files[g].path = snap[f].path
        /\ \/ snap[g].path = snap[f].path
           \/ files[f].status = "active" /\ snap[f].status = "active" /\ snap[g].path = files[f].path

\* An operation that is retried completes, whichever order its items come in and
\* wherever the Worker dies, unless people write to its files or paths collide.
RewindCompletes == (operation = "PLANNED" /\ touched = {}) ~> (operation = "COMPLETED" \/ touched # {} \/ Collide)
-----------------------------------------------------------------------------
(* The inductive invariant. What an operation still has to do is in its      *)
(* unfinished items; what an executor has read is still so, or people have   *)
(* touched the file.                                                         *)

\* The last version of a file is its current one; the state to go back to has
\* its version; what is uploaded has a row.
VersionsOK ==
    \A f \in Files :
        /\ files[f] = Nothing => versions[f] = <<>>
        /\ files[f] # Nothing => files[f].version = Len(versions[f])
        /\ snap[f] # Nothing => files[f] # Nothing /\ snap[f].version \in 1 .. Len(versions[f])
        /\ busy[f] => files[f] # Nothing

\* An item that can be planned: its file is there, with a state to go back to or none.
CanBePlanned(i) ==
    /\ files[i[1]] # Nothing
    /\ i[2] = "TRASH_NEW" => snap[i[1]] = Nothing
    /\ i[2] \in {"RESTORE_PATH", "RESTORE_STATUS", "RESTORE_VERSION"} => snap[i[1]] # Nothing

ItemsOK ==
    \A i \in Items : items[i] # "none" => operation # Nothing /\ CanBePlanned(i)

ExecOK(exec) ==
    /\ exec.pc \notin {"idle", "insert"} => operation # Nothing
    /\ exec.pc = "insert" => \A i \in exec.todo : CanBePlanned(i)
    /\ exec.pc \in {"item", "read", "write", "fail"} => \A i \in exec.todo : items[i] # "none"
    /\ exec.pc \in {"read", "write", "fail"} =>
           exec.item \in Items /\ items[exec.item] # "none" /\ exec.item[2] # "NOOP"
    /\ exec.pc = "write" =>
           exec.read \in FileRow /\ exec.read.version <= Len(versions[exec.item[1]])
    /\ exec.pc = "finish" => exec.status \in Outcomes

RewindIInv == RewindTypeOK /\ VersionsOK /\ ItemsOK /\ \A e \in Execs : ExecOK(execs[e])

\* What is not yet as it was at the target time is an item of rest.
LeftTo(f, rest) ==
    /\ snap[f] = Nothing /\ files[f] # Nothing /\ files[f].status = "active"
           => <<f, "TRASH_NEW">> \in rest
    /\ snap[f] # Nothing =>
           /\ files[f].path # snap[f].path => <<f, "RESTORE_PATH">> \in rest
           /\ files[f].status # snap[f].status => <<f, "RESTORE_STATUS">> \in rest
           /\ versions[f][files[f].version] # versions[f][snap[f].version]
                  => <<f, "RESTORE_VERSION">> \in rest

\* An executor that is alone.
AloneOK(exec) ==
    /\ exec.pc = "insert" /\ operation = Nothing => \A f \in Files \ touched : LeftTo(f, exec.todo)
    /\ exec.pc = "write" /\ exec.item[1] \notin touched => exec.read = files[exec.item[1]]
    /\ exec.pc = "finish" /\ exec.status = "COMPLETED" => Unfinished = {}
    /\ operation = "COMPLETED" => exec.pc = "idle"

RestoreOK ==
    /\ operation # Nothing => \A f \in Files \ touched : LeftTo(f, Unfinished)
    /\ operation = "COMPLETED" => Unfinished = {}
    /\ \A e \in Execs : AloneOK(execs[e])
===============================================================================
