--------------------------- MODULE CloudVersions ---------------------------
(***************************************************************************)
(* The version store of the Cloudflare Worker: the D1 tables files,        *)
(* file_versions and upload_intents, the objects kept in Telegram, and the *)
(* request handlers of worker/src/index.ts that write them.                *)
(*                                                                         *)
(* D1 runs one statement, or one batch, at a time; between two awaits of a *)
(* handler any other handler may run.  A handler that waits between a read *)
(* and the write that relies on it is therefore two actions here, and what *)
(* it remembers in between is an element of one of the sets below          *)
(* (preflights, uploads, commits, restores, imports, agings).  A handler   *)
(* whose single write repeats the conditions it read is one action.        *)
(*                                                                         *)
(* Rows that a table does not hold have the status "none".  Logical names  *)
(* are base names of relative paths, so a name is represented by the path  *)
(* it was taken from.  Leases, roles and sizes only refuse a request: a    *)
(* refusal is the action Abort, as is a Worker that dies between awaits.   *)
(***************************************************************************)
EXTENDS Integers, Sequences, FiniteSets

CONSTANTS
    Files,        \* file ids, chosen by the clients
    Paths,        \* relative paths of one workspace
    Hashes,       \* file contents, told apart by their SHA-256
    Keys,         \* (owner, idempotency key) pairs, hence upload intents
    Retentions,   \* the values user_settings.retention_limit may have
    Null,         \* SQL NULL
    MaxVersion,   \* bound: no version above this one is written
    MaxObjects,   \* bound: no more than this many Telegram objects
    MaxInFlight   \* bound: handlers waiting between two awaits

\* A retention limit is at least 2: CHECK(retention_limit BETWEEN 2 AND 500).
ASSUME RetentionAssumption == \A r \in Retentions : r \in Nat /\ r >= 2
ASSUME BoundAssumption == MaxVersion \in Nat /\ MaxObjects \in Nat
ASSUME NullAssumption ==
    Null \notin Hashes \cup Paths \cup Keys \cup {"bot", "group", "clone", "chat"}
ASSUME KeysAssumption == Keys \cap {"clone", "chat", "group"} = {}

VARIABLES
    files,        \* table files: current pointer, status, path and name
    versions,     \* table file_versions, keyed by UNIQUE(file_id, version)
    intents,      \* table upload_intents, keyed by (owner, idempotency key)
    objects,      \* the messages stored in Telegram, in the order they were sent
    preflights,   \* handlePreflight after its reads, before its INSERT
    uploads,      \* stored objects whose id is to be recorded in an intent
    commits,      \* commitUploadedIntent after reading the intent (and the file)
    restores,     \* handleRestore after the clone, before its batch
    imports,      \* importTelegramDocument after its reads, before its batch
    agings        \* importTelegramDocument before its last batch

tables == <<files, versions, intents>>
handlers == <<preflights, uploads, commits, restores, imports, agings>>
vars == <<files, versions, intents, objects, handlers>>

Versions == 1..MaxVersion
Backends == {"bot", "group"}
FileStatus == {"none", "active", "trashed", "deleted"}
VersionStatus == {"none", "active", "archived", "expired"}
IntentStatus == {"none", "reserved", "uploaded", "committed", "abandoned"}
ObjectId == 0..MaxObjects        \* 0 stands for a NULL telegram_file_id

FileRow == [status : FileStatus, version : 0..MaxVersion, hash : Hashes \cup {Null},
            tgid : ObjectId, backend : Backends \cup {Null}, locator : ObjectId,
            path : Paths \cup {Null}, name : Paths \cup {Null}]
VersionRow == [status : VersionStatus, hash : Hashes \cup {Null}, tgid : ObjectId,
               backend : Backends \cup {Null}, locator : ObjectId,
               base : 0..MaxVersion, restored : 0..MaxVersion]
IntentRow == [status : IntentStatus, file : Files \cup {Null}, name : Paths \cup {Null},
              base : 0..MaxVersion, hash : Hashes \cup {Null},
              backend : Backends \cup {Null}, tgid : ObjectId, restored : 0..MaxVersion]
\* What a message was sent for: an intent, a restore, the bot's chat, the group.
Origins == Keys \cup {"clone", "chat", "group"}
Object == [backend : Backends, hash : Hashes, origin : Origins]

NoFile == [status |-> "none", version |-> 0, hash |-> Null, tgid |-> 0, backend |-> Null,
           locator |-> 0, path |-> Null, name |-> Null]
NoVersion == [status |-> "none", hash |-> Null, tgid |-> 0, backend |-> Null, locator |-> 0,
              base |-> 0, restored |-> 0]
NoIntent == [status |-> "none", file |-> Null, name |-> Null, base |-> 0, hash |-> Null,
             backend |-> Null, tgid |-> 0, restored |-> 0]

Init ==
    /\ files = [f \in Files |-> NoFile]
    /\ versions = [f \in Files |-> [v \in Versions |-> NoVersion]]
    /\ intents = [k \in Keys |-> NoIntent]
    /\ objects = <<>>
    /\ preflights = {} /\ uploads = {} /\ commits = {}
    /\ restores = {} /\ imports = {} /\ agings = {}

-----------------------------------------------------------------------------
(* Helpers shared by the handlers.                                         *)

\* A handler may start waiting while fewer than MaxInFlight already do.
Room ==
    Cardinality(preflights) + Cardinality(uploads) + Cardinality(commits)
      + Cardinality(restores) + Cardinality(imports) + Cardinality(agings) < MaxInFlight

\* Faulty variant: the unique index is missing.
PathFreeUnindexed(f, p) == TRUE

\* The unique index on (workspace, relative_path) of active files lets f be
\* active at path p.
PathFree(f, p) ==
    \A g \in Files \ {f} : files[g].status = "active" => files[g].path # p

Exists(f) == files[f].status # "none"

\* Telegram accepts one more message, and answers with its id.
Send(backend, hash, origin) ==
    /\ Len(objects) < MaxObjects
    /\ objects' = Append(objects, [backend |-> backend, hash |-> hash, origin |-> origin])
Sent == Len(objects) + 1

\* Faulty variants: one version too many is expired; expiry clears the content.
AgedTooEarly(row, v, n, r) ==
    IF row.status = "none" THEN row
    ELSE IF v <= n - r + 1 /\ v < n THEN [row EXCEPT !.status = "expired"]
    ELSE IF v < n /\ row.status = "active" THEN [row EXCEPT !.status = "archived"]
    ELSE row
AgedCleared(row, v, n, r) ==
    IF row.status = "none" THEN row
    ELSE IF v <= n - r THEN [row EXCEPT !.status = "expired", !.hash = Null]
    ELSE IF v < n /\ row.status = "active" THEN [row EXCEPT !.status = "archived"]
    ELSE row

\* What the two UPDATEs on older rows make of row v when version n is written
\* by a user who keeps r versions: archived, then expired.
Aged(row, v, n, r) ==
    IF row.status = "none" THEN row
    ELSE IF v <= n - r THEN [row EXCEPT !.status = "expired"]
    ELSE IF v < n /\ row.status = "active" THEN [row EXCEPT !.status = "archived"]
    ELSE row

\* Faulty variant: rows beyond the retention are deleted.
InsertAndPurge(f, n, row, r) ==
    versions' = [versions EXCEPT ![f] =
        [v \in Versions |-> IF v = n THEN row ELSE IF v <= n - r THEN NoVersion
                             ELSE Aged(versions[f][v], v, n, r)]]

\* INSERT of version n, refused by UNIQUE(file_id, version), with or without
\* the ageing of the older rows in the same batch.
RowFree(f, n) == versions[f][n].status = "none"
InsertVersion(f, n, row) == versions' = [versions EXCEPT ![f][n] = row]
InsertAndAge(f, n, row, r) ==
    versions' = [versions EXCEPT ![f] =
        [v \in Versions |-> IF v = n THEN row ELSE Aged(versions[f][v], v, n, r)]]

-----------------------------------------------------------------------------
(* handlePreflight                                                         *)

PreflightOf(k, f, p, h, b, s, backend) ==
    [key |-> k, file |-> f, path |-> p, hash |-> h, base |-> b, source |-> s, backend |-> backend,
     version |-> files[f].version, current |-> files[f].hash, replay |-> intents[k].status]

\* A replayed idempotency key must name the same upload of an active file; the
\* version it restores is not compared.
SameUpload(k, f, p, h, b, backend) ==
    LET i == intents[k] IN
    /\ i.file = f /\ i.name = p /\ i.hash = h /\ i.base = b /\ i.backend = backend
    /\ files[f].path = p

\* Reads of a preflight for a file D1 knows.  A client learns its base version
\* from the cloud, hence b <= version; when it restores version s (s # 0) it
\* uploads the content it downloaded as that version.
PreflightRead(k, f, p, h, b, s, backend) ==
    /\ Room
    /\ files[f].status = "active"
    /\ b <= files[f].version
    /\ s # 0 => s <= b /\ versions[f][s].hash = h
    /\ intents[k].status # "none" => SameUpload(k, f, p, h, b, backend)
    /\ PathFree(f, p)
    /\ preflights' = preflights \cup {PreflightOf(k, f, p, h, b, s, backend)}
    /\ UNCHANGED <<tables, objects, uploads, commits, restores, imports, agings>>

\* Faulty variant: the row of a new file takes no default.
NewFileNoDefault(p) == [status |-> "active", version |-> 0, hash |-> Null, tgid |-> Null,
                        backend |-> Null, locator |-> 0, path |-> p, name |-> p]

NewFile(p) == [status |-> "active", version |-> 0, hash |-> Null, tgid |-> 0, backend |-> Null,
               locator |-> 0, path |-> p, name |-> p]

\* A preflight for an unknown file inserts its row at version 0 and goes on.
PreflightCreate(k, f, p, h, backend) ==
    /\ Room
    /\ files[f].status = "none"
    /\ intents[k].status = "none"
    /\ PathFree(f, p)
    /\ files' = [files EXCEPT ![f] = NewFile(p)]
    /\ preflights' = preflights \cup {PreflightOf(k, f, p, h, 0, 0, backend)}
    /\ UNCHANGED <<versions, intents, objects, uploads, commits, restores, imports, agings>>

\* The answer a preflight gives from what it read.
Reply(x) ==
    IF x.version > 0 /\ x.current = x.hash THEN "noop"
    ELSE IF x.version # x.base THEN "conflict"
    ELSE IF x.replay = "committed" THEN "committed"
    ELSE IF x.replay = "uploaded" THEN "commit_required"
    ELSE IF x.replay = "abandoned" THEN "refused"
    ELSE "upload_required"

\* INSERT INTO upload_intents; UNIQUE(owner, key) refuses a second one.
PreflightReserve(x) ==
    /\ x \in preflights
    /\ Reply(x) = "upload_required"
    /\ x.base < MaxVersion
    /\ intents[x.key].status = "none"
    /\ intents' = [intents EXCEPT ![x.key] =
          [status |-> "reserved", file |-> x.file, name |-> x.path, base |-> x.base,
           hash |-> x.hash, backend |-> x.backend, tgid |-> 0, restored |-> x.source]]
    /\ preflights' = preflights \ {x}
    /\ UNCHANGED <<files, versions, objects, uploads, commits, restores, imports, agings>>

-----------------------------------------------------------------------------
(* handleUpload (bot) and handleUploadReceipt (user group)                 *)

\* The Worker checks the intent and the file, then sends the bytes.
UploadStore(k) ==
    /\ Room
    /\ intents[k].status = "reserved"
    /\ intents[k].backend = "bot"
    /\ files[intents[k].file].version = intents[k].base
    /\ Send("bot", intents[k].hash, k)
    /\ uploads' = uploads \cup {[key |-> k, object |-> Sent]}
    /\ UNCHANGED <<tables, preflights, commits, restores, imports, agings>>

\* The user group gets a message: a desktop client uploads, or somebody posts.
GroupDocument(h) ==
    /\ Send("group", h, "group")
    /\ UNCHANGED <<tables, handlers>>

\* A desktop client sends the receipt of a group message with the intent's
\* content.  It keeps a receipt until the upload it is for is done, also when
\* that upload is queued again under another key, and it makes one of a
\* document it found in the group.
SendReceipt(k, o) ==
    /\ Room
    /\ intents[k].status = "reserved"
    /\ intents[k].backend = "group"
    /\ objects[o].backend = "group" /\ objects[o].hash = intents[k].hash
    /\ uploads' = uploads \cup {[key |-> k, object |-> o]}
    /\ UNCHANGED <<tables, objects, preflights, commits, restores, imports, agings>>

\* UPDATE upload_intents ... WHERE status = 'reserved', by handleUpload after
\* the Worker's own upload and by handleUploadReceipt with the client's receipt.
RecordUpload(u) ==
    /\ u \in uploads
    /\ intents[u.key].status = "reserved"
    /\ intents' = [intents EXCEPT ![u.key].status = "uploaded", ![u.key].tgid = u.object]
    /\ uploads' = uploads \ {u}
    /\ UNCHANGED <<files, versions, objects, preflights, commits, restores, imports, agings>>

-----------------------------------------------------------------------------
(* handleCommit / commitUploadedIntent                                     *)

\* Faulty variant: an intent may be committed before its upload is recorded.
CommitLoadEarly(k) ==
    /\ Room
    /\ intents[k].status \in {"reserved", "uploaded"}
    /\ commits' = commits \cup {[key |-> k, stage |-> "loaded"]}
    /\ UNCHANGED <<tables, objects, preflights, uploads, restores, imports, agings>>

\* The intent is read; one that is already committed is answered at once.
CommitLoad(k) ==
    /\ Room
    /\ intents[k].status = "uploaded"
    /\ commits' = commits \cup {[key |-> k, stage |-> "loaded"]}
    /\ UNCHANGED <<tables, objects, preflights, uploads, restores, imports, agings>>

\* The file is read and still is at the intent's base version.
CommitCheck(c) ==
    /\ c \in commits /\ c.stage = "loaded"
    /\ files[intents[c.key].file].version = intents[c.key].base
    /\ commits' = (commits \ {c}) \cup {[c EXCEPT !.stage = "checked"]}
    /\ UNCHANGED <<tables, objects, preflights, uploads, restores, imports, agings>>

\* The file is read and has advanced, to the very content of the intent.
CommitMatch(c) ==
    LET i == intents[c.key] IN
    /\ c \in commits /\ c.stage = "loaded"
    /\ files[i.file].version # i.base
    /\ files[i.file].hash = i.hash
    /\ commits' = (commits \ {c}) \cup {[c EXCEPT !.stage = "matched"]}
    /\ UNCHANGED <<tables, objects, preflights, uploads, restores, imports, agings>>

\* Faulty variant: an intent whose content is already current counts as committed.
CommitAbandonDone(c) ==
    /\ c \in commits /\ c.stage = "matched"
    /\ intents' = [intents EXCEPT ![c.key].status = "committed"]
    /\ commits' = commits \ {c}
    /\ UNCHANGED <<files, versions, objects, preflights, uploads, restores, imports, agings>>

\* The intent is then abandoned, whatever status it has by now.
CommitAbandon(c) ==
    /\ c \in commits /\ c.stage = "matched"
    /\ intents' = [intents EXCEPT ![c.key].status = "abandoned"]
    /\ commits' = commits \ {c}
    /\ UNCHANGED <<files, versions, objects, preflights, uploads, restores, imports, agings>>

\* The batch: version base + 1, the current pointer, the intent, older rows.
CommitApply(c) ==
    LET i == intents[c.key]
        f == i.file
        n == i.base + 1 IN
    /\ c \in commits /\ c.stage = "checked"
    /\ files[f].version = i.base
    /\ RowFree(f, n)
    /\ PathFree(f, files[f].path)
    /\ \E r \in Retentions :
          InsertAndAge(f, n,
              [status |-> "active", hash |-> i.hash, tgid |-> i.tgid, backend |-> i.backend,
               locator |-> i.tgid, base |-> i.base, restored |-> i.restored], r)
    /\ files' = [files EXCEPT ![f] =
          [status |-> "active", version |-> n, hash |-> i.hash, tgid |-> i.tgid,
           backend |-> i.backend, locator |-> i.tgid, path |-> files[f].path, name |-> i.name]]
    /\ intents' = [intents EXCEPT ![c.key].status = IF @ = "uploaded" THEN "committed" ELSE @]
    /\ commits' = commits \ {c}
    /\ UNCHANGED <<objects, preflights, uploads, restores, imports, agings>>

-----------------------------------------------------------------------------
(* handleRestore: an old version becomes a new one                         *)

\* Telegram copies a message that it has; nothing is read of it.
Clone(o) == Send("bot", objects[o].hash, "clone")

\* The source is read and cloned in Telegram; a group version is refused.
RestoreClone(f, s) ==
    LET src == versions[f][s] IN
    /\ Room
    /\ Exists(f)
    /\ files[f].version < MaxVersion
    /\ src.status \notin {"none", "expired"}
    /\ src.backend # "group"
    /\ Clone(src.tgid)
    /\ restores' = restores \cup
          {[file |-> f, base |-> files[f].version, source |-> s, hash |-> src.hash, object |-> Sent]}
    /\ UNCHANGED <<tables, preflights, uploads, commits, imports, agings>>

\* Faulty variant: the row names the version before it as the restored one.
RestoredRowOfBase(x) ==
    [status |-> "active", hash |-> x.hash, tgid |-> x.object, backend |-> Null,
     locator |-> 0, base |-> x.base, restored |-> x.base]

\* The new row; the INSERT names neither the storage backend nor the locator.
RestoredRow(x) ==
    [status |-> "active", hash |-> x.hash, tgid |-> x.object, backend |-> Null,
     locator |-> 0, base |-> x.base, restored |-> x.source]

\* The batch; the file keeps its storage columns.
RestoreApply(x) ==
    LET f == x.file
        n == x.base + 1 IN
    /\ x \in restores
    /\ files[f].version = x.base
    /\ RowFree(f, n)
    /\ PathFree(f, files[f].path)
    /\ \E r \in Retentions : InsertAndAge(f, n, RestoredRow(x), r)
    /\ files' = [files EXCEPT ![f].status = "active", ![f].version = n,
                              ![f].hash = x.hash, ![f].tgid = x.object]
    /\ restores' = restores \ {x}
    /\ UNCHANGED <<intents, objects, preflights, uploads, commits, imports, agings>>

-----------------------------------------------------------------------------
(* importTelegramDocument: documents sent to the bot become versions       *)

\* A user sends a document to the bot's private chat.
ChatDocument(h) ==
    /\ Send("bot", h, "chat")
    /\ UNCHANGED <<tables, handlers>>

\* The document is read and the active file at its path looked up; a file
\* that already holds the content is left alone.
ImportRead(o, f, p) ==
    /\ Room
    /\ objects[o].origin = "chat"
    /\ \/ /\ files[f].status = "active" /\ files[f].path = p
          /\ ~(files[f].hash = objects[o].hash /\ files[f].version > 0)
          /\ files[f].version < MaxVersion
       \/ /\ files[f].status = "none" /\ PathFree(f, p)
    /\ imports' = imports \cup
          {[file |-> f, path |-> p, base |-> files[f].version, hash |-> objects[o].hash,
            object |-> o, fresh |-> files[f].status = "none"]}
    /\ UNCHANGED <<tables, objects, preflights, uploads, commits, restores, agings>>

ImportedRow(x) ==
    [status |-> "active", hash |-> x.hash, tgid |-> x.object, backend |-> Null,
     locator |-> 0, base |-> x.base, restored |-> 0]

\* Faulty variant: the hash is not among the columns set.
ImportedFileNoHash(x, old) ==
    [status |-> "active", version |-> x.base + 1, hash |-> old.hash, tgid |-> x.object,
     backend |-> old.backend, locator |-> old.locator, path |-> x.path, name |-> x.path]

\* The file row an import writes: the storage columns are not among those set.
ImportedFile(x, old) ==
    [status |-> "active", version |-> x.base + 1, hash |-> x.hash, tgid |-> x.object,
     backend |-> old.backend, locator |-> old.locator, path |-> x.path, name |-> x.path]

\* No file at the path: the file row and its version 1 in one batch.
ImportCreate(x) ==
    LET f == x.file IN
    /\ x \in imports /\ x.fresh
    /\ files[f].status = "none" /\ RowFree(f, 1) /\ PathFree(f, x.path)
    /\ MaxVersion >= 1
    /\ InsertVersion(f, 1, ImportedRow(x))
    /\ files' = [files EXCEPT ![f] = ImportedFile(x, NoFile)]
    /\ imports' = imports \ {x}
    /\ agings' = agings \cup {[file |-> f, version |-> 1]}
    /\ UNCHANGED <<intents, objects, preflights, uploads, commits, restores>>

\* A file at the path: an INSERT that only UNIQUE refuses, and an UPDATE that
\* is guarded by the version that was read.
ImportUpdate(x) ==
    LET f == x.file
        n == x.base + 1
        stillBase == files[f].version = x.base IN
    /\ x \in imports /\ ~x.fresh
    /\ RowFree(f, n)
    /\ stillBase => PathFree(f, x.path)
    /\ InsertVersion(f, n, ImportedRow(x))
    /\ files' = [files EXCEPT ![f] = IF stillBase THEN ImportedFile(x, @) ELSE @]
    /\ imports' = imports \ {x}
    /\ agings' = IF stillBase THEN agings \cup {[file |-> f, version |-> n]} ELSE agings
    /\ UNCHANGED <<intents, objects, preflights, uploads, commits, restores>>

\* The batch that ages the older rows comes after the one that added the row.
ImportAge(a) ==
    /\ a \in agings
    /\ \E r \in Retentions :
          versions' = [versions EXCEPT ![a.file] =
              [v \in Versions |-> Aged(versions[a.file][v], v, a.version, r)]]
    /\ agings' = agings \ {a}
    /\ UNCHANGED <<files, intents, objects, preflights, uploads, commits, restores, imports>>

-----------------------------------------------------------------------------
(* Metadata handlers: one guarded UPDATE each                              *)

\* handleRename, in any status of the file: what it read of other paths may be
\* stale when it writes, so that for an active file only the index refuses.
Rename(f, p) ==
    /\ Exists(f)
    /\ files[f].status = "active" => PathFree(f, p)
    /\ files' = [files EXCEPT ![f].path = p, ![f].name = p]
    /\ UNCHANGED <<versions, intents, objects, handlers>>

Trash(f) ==
    /\ files[f].status = "active"
    /\ files' = [files EXCEPT ![f].status = "trashed"]
    /\ UNCHANGED <<versions, intents, objects, handlers>>

PermanentDelete(f) ==
    /\ files[f].status = "trashed"
    /\ files' = [files EXCEPT ![f].status = "deleted"]
    /\ UNCHANGED <<versions, intents, objects, handlers>>

\* Faulty variant: a deleted file can be brought back like a trashed one.
RestoreFromDeleted(f) ==
    /\ files[f].status \in {"trashed", "deleted"}
    /\ PathFree(f, files[f].path)
    /\ files' = [files EXCEPT ![f].status = "active"]
    /\ UNCHANGED <<versions, intents, objects, handlers>>

RestoreFromTrash(f) ==
    /\ files[f].status = "trashed"
    /\ PathFree(f, files[f].path)
    /\ files' = [files EXCEPT ![f].status = "active"]
    /\ UNCHANGED <<versions, intents, objects, handlers>>

-----------------------------------------------------------------------------
\* A waiting handler stops: it answers without writing (a refusal, noop,
\* conflict, a guard that no longer holds), or the Worker dies.
Abort ==
    /\ \/ \E x \in preflights : preflights' = preflights \ {x}
             /\ UNCHANGED <<uploads, commits, restores, imports, agings>>
       \/ \E x \in uploads : uploads' = uploads \ {x}
             /\ UNCHANGED <<preflights, commits, restores, imports, agings>>
       \/ \E x \in commits : commits' = commits \ {x}
             /\ UNCHANGED <<preflights, uploads, restores, imports, agings>>
       \/ \E x \in restores : restores' = restores \ {x}
             /\ UNCHANGED <<preflights, uploads, commits, imports, agings>>
       \/ \E x \in imports : imports' = imports \ {x}
             /\ UNCHANGED <<preflights, uploads, commits, restores, agings>>
       \/ \E x \in agings : agings' = agings \ {x}
             /\ UNCHANGED <<preflights, uploads, commits, restores, imports>>
    /\ UNCHANGED <<tables, objects>>

PreflightNext ==
    \/ \E k \in Keys, f \in Files, p \in Paths, h \in Hashes, backend \in Backends :
          \/ \E b, s \in 0..MaxVersion : PreflightRead(k, f, p, h, b, s, backend)
          \/ PreflightCreate(k, f, p, h, backend)
    \/ \E x \in preflights : PreflightReserve(x)

UploadNext ==
    \/ \E k \in Keys : UploadStore(k)
    \/ \E h \in Hashes : GroupDocument(h)
    \/ \E k \in Keys, o \in DOMAIN objects : SendReceipt(k, o)
    \/ \E u \in uploads : RecordUpload(u)

CommitNext ==
    \/ \E k \in Keys : CommitLoad(k)
    \/ \E c \in commits : CommitCheck(c) \/ CommitMatch(c) \/ CommitAbandon(c) \/ CommitApply(c)

RestoreNext ==
    \/ \E f \in Files, s \in Versions : RestoreClone(f, s)
    \/ \E x \in restores : RestoreApply(x)

ImportNext ==
    \/ \E h \in Hashes : ChatDocument(h)
    \/ \E o \in DOMAIN objects, f \in Files, p \in Paths : ImportRead(o, f, p)
    \/ \E x \in imports : ImportCreate(x) \/ ImportUpdate(x)
    \/ \E a \in agings : ImportAge(a)

RenameNext == \E f \in Files, p \in Paths : Rename(f, p)

RecycleNext == \E f \in Files : Trash(f) \/ PermanentDelete(f) \/ RestoreFromTrash(f)

Next ==
    \/ PreflightNext \/ UploadNext \/ CommitNext
    \/ RestoreNext \/ ImportNext
    \/ RenameNext \/ RecycleNext
    \/ Abort

Spec == Init /\ [][Next]_vars

-----------------------------------------------------------------------------
(* What the store promises                                                 *)

TypeOK ==
    /\ files \in [Files -> FileRow]
    /\ versions \in [Files -> [Versions -> VersionRow]]
    /\ intents \in [Keys -> IntentRow]
    /\ objects \in Seq(Object)
    /\ preflights \subseteq
          [key : Keys, file : Files, path : Paths, hash : Hashes, base : 0..MaxVersion,
           source : 0..MaxVersion, backend : Backends, version : 0..MaxVersion, current : Hashes \cup {Null},
           replay : IntentStatus]
    /\ uploads \subseteq [key : Keys, object : ObjectId]
    /\ commits \subseteq [key : Keys, stage : {"loaded", "checked", "matched"}]
    /\ restores \subseteq
          [file : Files, base : 0..MaxVersion, source : Versions, hash : Hashes, object : ObjectId]
    /\ imports \subseteq
          [file : Files, path : Paths, base : 0..MaxVersion, hash : Hashes, object : ObjectId,
           fresh : BOOLEAN]
    /\ agings \subseteq [file : Files, version : Versions]

\* The version numbers of a file are exactly 1..current_version and each was
\* written on top of its predecessor: what handleVersionIntegrityAudit calls
\* HEALTHY, and "the timeline never moves backwards" of the README.
VersionChain ==
    \A f \in Files, v \in Versions :
        /\ versions[f][v].status # "none" <=> v <= files[f].version
        /\ versions[f][v].status # "none" => versions[f][v].base = v - 1

\* The current pointer and the newest version row agree on content and object,
\* although a commit, a restore and an import write them from stale reads.
CurrentPointer ==
    \A f \in Files : files[f].version > 0 =>
        LET row == versions[f][files[f].version] IN
        /\ row.hash = files[f].hash
        /\ row.tgid = files[f].tgid

\* What handleVersionDownload fetches for a version is stored, in the backend
\* it asks, with the bytes whose hash the version promises: the pointer never
\* gets ahead of Telegram.
StoredBytes ==
    \A f \in Files, v \in Versions :
        LET row == versions[f][v] IN
        row.status # "none" =>
            /\ row.tgid \in DOMAIN objects
            /\ objects[row.tgid].hash = row.hash
            /\ objects[row.tgid].backend = (IF row.backend = Null THEN "bot" ELSE row.backend)
            /\ row.backend = "group" => row.locator = row.tgid

\* The two newest versions of a file are never expired, whoever wrote last and
\* however late an import ages the rows.
RecentVersionsKept ==
    \A f \in Files, v \in Versions :
        versions[f][v].status = "expired" => v < files[f].version - 1

\* However often a client retries, and however its commits race, what the bot
\* stored for an intent backs at most the one version base + 1 of its file, and
\* a committed intent has that version.
IntentYieldsOneVersion ==
    \A k \in Keys : intents[k].tgid # 0 =>
        LET i == intents[k] IN
        /\ i.backend = "bot" =>
              \A f \in Files, v \in Versions :
                  (versions[f][v].status # "none" /\ versions[f][v].tgid = i.tgid) =>
                      f = i.file /\ v = i.base + 1
        /\ i.status = "committed" =>
              /\ files[i.file].version > i.base
              /\ versions[i.file][i.base + 1].tgid = i.tgid

\* Two active files never share a path, with creations, renames, recoveries
\* from trash and late commits that make a file active again.
UniqueActivePath ==
    \A f, g \in Files :
        (files[f].status = "active" /\ files[g].status = "active" /\ f # g) =>
            files[f].path # files[g].path

\* A version that says it restores another one has that version's content.
RestoredCopiesSource ==
    \A f \in Files, v \in Versions :
        LET row == versions[f][v] IN
        (row.status # "none" /\ row.restored # 0) =>
            row.restored < v /\ row.hash = versions[f][row.restored].hash

\* handleVersions: the versions that are offered, and the content each is said to have.
Available(f) ==
    {v \in 1..files[f].version :
        LET row == versions[f][v] IN
        row.status \notin {"none", "expired"} /\ (row.backend = "group" => row.locator # 0)}
HistoryOf(f) == [v \in 1..files[f].version |-> versions[f][v].hash]

\* handleVersionDownload: the object that is sent, or that a client is sent to; 0 is an error.
ServedVersion(f, v) ==
    LET row == versions[f][v] IN
    IF row.status \in {"none", "expired"} THEN 0
    ELSE IF row.backend = "group" THEN row.locator ELSE row.tgid

\* handleVersionIntegrityAudit finds no version and no reference missing.
AuditHealthy(f) ==
    \A v \in 1..files[f].version : versions[f][v].status # "none" /\ versions[f][v].tgid # 0

\* A user can have what he is shown: the two newest versions and whatever else is offered
\* are sent with the content that is shown, from where it is, and the audit has nothing to
\* say, whoever wrote, restored, imported or aged versions meanwhile.
HistoryIsServed ==
    \A f \in Files :
        LET n == files[f].version IN
        /\ AuditHealthy(f)
        /\ \A v \in 1..n : v >= n - 1 => v \in Available(f)
        /\ \A v \in Available(f) :
               /\ ServedVersion(f, v) \in DOMAIN objects
               /\ objects[ServedVersion(f, v)].hash = HistoryOf(f)[v]
               /\ objects[ServedVersion(f, v)].backend = "group" <=> versions[f][v].backend = "group"

\* The tables implement the history of VersionHistory: no handler rewrites,
\* skips or removes a version, and each step of the store is one step of the
\* history or none.
History == INSTANCE VersionHistory WITH
    history <- [f \in Files |-> HistoryOf(f)],
    life <- [f \in Files |-> files[f].status]
ImplementsHistory == History!Spec

-----------------------------------------------------------------------------
(* The inductive invariant: what the tables and the waiting handlers know  *)
(* of each other whenever no statement is running.                         *)

\* Message o is in Telegram, in that backend, with those bytes.
Stored(o, h, backend) ==
    /\ o \in DOMAIN objects
    /\ objects[o].hash = h
    /\ objects[o].backend = backend

ObjectsOK ==
    /\ Len(objects) <= MaxObjects
    /\ \A o \in DOMAIN objects : objects[o].backend = "group" <=> objects[o].origin = "group"

FilesOK ==
    \A f \in Files :
        IF Exists(f) THEN files[f].path \in Paths ELSE files[f].version = 0

\* An intent belongs to an existing file, was reserved at a version the file
\* has reached, and once uploaded points to an object with its content, which
\* the bot sent for it alone.
IntentOK(k) ==
    LET i == intents[k] IN
    /\ i.status \in {"none", "reserved"} <=> i.tgid = 0
    /\ i.status # "none" =>
          /\ i.file \in Files /\ Exists(i.file) /\ i.base <= files[i.file].version
          /\ i.base < MaxVersion /\ i.name \in Paths /\ i.hash \in Hashes
          /\ i.backend \in Backends
    /\ i.tgid # 0 =>
          /\ Stored(i.tgid, i.hash, i.backend)
          /\ i.backend = "bot" => objects[i.tgid].origin = k
IntentsOK == \A k \in Keys : IntentOK(k)

\* An intent that restores a version carries that version's content.
SourcesOK ==
    \A k \in Keys :
        LET i == intents[k] IN
        i.restored # 0 =>
            /\ i.status # "none" /\ i.restored <= i.base
            /\ versions[i.file][i.restored].hash = i.hash

PreflightsOK ==
    \A x \in preflights :
        /\ Exists(x.file) /\ x.version <= files[x.file].version
        /\ x.source # 0 => x.source <= x.base /\ x.base <= x.version
                           /\ versions[x.file][x.source].hash = x.hash
UploadsOK ==
    \A u \in uploads :
        /\ intents[u.key].status # "none"
        /\ Stored(u.object, intents[u.key].hash, intents[u.key].backend)
        /\ intents[u.key].backend = "bot" => objects[u.object].origin = u.key
CommitsOK == \A c \in commits : intents[c.key].tgid # 0
RestoresOK ==
    \A x \in restores :
        /\ Exists(x.file) /\ x.base < MaxVersion
        /\ x.source <= x.base /\ x.base <= files[x.file].version
        /\ x.hash = versions[x.file][x.source].hash
        /\ Stored(x.object, x.hash, "bot") /\ objects[x.object].origin = "clone"
ImportsOK ==
    \A x \in imports :
        /\ Stored(x.object, x.hash, "bot") /\ objects[x.object].origin = "chat"
        /\ x.fresh => x.base = 0
        /\ ~x.fresh => Exists(x.file) /\ x.base < MaxVersion /\ x.base <= files[x.file].version
AgingsOK == \A a \in agings : a.version <= files[a.file].version

\* A version whose object the bot sent for an intent is that intent's version.
OriginsApart ==
    \A f \in Files, v \in Versions :
        LET row == versions[f][v] IN
        (row.status # "none" /\ objects[row.tgid].origin \in Keys) =>
            LET i == intents[objects[row.tgid].origin] IN
            i.status # "none" /\ i.file = f /\ v = i.base + 1

CommittedHasVersion ==
    \A k \in Keys :
        LET i == intents[k] IN
        i.status = "committed" =>
            /\ files[i.file].version > i.base
            /\ versions[i.file][i.base + 1].tgid = i.tgid

HandlersOK ==
    PreflightsOK /\ UploadsOK /\ CommitsOK /\ RestoresOK /\ ImportsOK /\ AgingsOK

IInv ==
    /\ TypeOK /\ ObjectsOK /\ FilesOK /\ IntentsOK /\ SourcesOK /\ HandlersOK
    /\ VersionChain /\ CurrentPointer /\ StoredBytes /\ RecentVersionsKept
    /\ RestoredCopiesSource /\ UniqueActivePath /\ OriginsApart /\ CommittedHasVersion

-----------------------------------------------------------------------------
(* What a doc, a dialog or a comment of the repository says and the code   *)
(* does not keep; each is refuted by a run of its own.                     *)

\* A permanently deleted file "cannot be recovered through a client": it never
\* becomes anything else.
DeletedIsFinal ==
    [][\A f \in Files : files[f].status = "deleted" => files'[f].status = "deleted"]_vars

\* A rename synchronizes the logical name: it stays the base name of the path.
NameFollowsPath ==
    \A f \in Files : Exists(f) => files[f].name = files[f].path

\* After a failure between the Telegram upload and the commit response, the
\* retry needs no second Telegram upload.
OneObjectPerIntent ==
    \A k \in Keys : Cardinality({o \in DOMAIN objects : objects[o].origin = k}) <= 1

\* A preflight that repeats an operation that already completed is told so
\* (or that nothing changed), never that there is a conflict.
CommittedReplayIsAnswered ==
    \A x \in preflights : x.replay = "committed" => Reply(x) \in {"committed", "noop"}

\* The object handleDownload serves, or sends the desktop client to: the
\* version row decides where it has a backend, the file row where it has none.
Served(f) ==
    LET row == versions[f][files[f].version]
        backend == IF row.backend # Null THEN row.backend ELSE files[f].backend
        locator == IF row.locator # 0 THEN row.locator ELSE files[f].locator
    IN  IF backend = "group" THEN locator ELSE row.tgid

\* Downloading a file yields the content of its current version, whether that
\* was uploaded, imported or restored.
DownloadServesCurrent ==
    \A f \in Files : files[f].version > 0 => objects[Served(f)].hash = files[f].hash

=============================================================================
