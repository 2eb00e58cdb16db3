----------------------------- MODULE GroupImport -----------------------------
(* What others put into the Telegram group of a desktop becomes local files. *)
(* A pass (SyncEngine.syncTelegramUserGroup) asks the bridge process for the *)
(* documents after a checkpoint, downloads each under a name that has its    *)
(* message number and records it. The timer and a button start passes, so    *)
(* that two may overlap. The desktop's own uploads are documents of the same *)
(* group. Steps are the parts of a pass between two awaits; the program or   *)
(* the bridge may stop between any two.                                      *)
EXTENDS Naturals, Sequences, FiniteSets, FiniteSetsExt

CONSTANTS
    Passes, Null,
    Limit,          \* messages the bridge reads of the group at a time (500)
    MaxMessages, MaxFaults,
    Scenarios       \* each bounds a behaviour: the messages that arrive, their kinds,
                    \* and the passes there are

Kinds == {"document", "text", "unmanaged", "own"}

ASSUME GroupImportAssumption ==
    /\ Limit \in Nat \ {0} /\ MaxMessages \in Nat /\ MaxFaults \in Nat /\ Null \notin Nat \cup Passes
    /\ Scenarios \subseteq [kinds : SUBSET Kinds, passes : SUBSET Passes,
                        messages : 0 .. MaxMessages]

VARIABLES
    scene,
    group,          \* the messages of the group, in order
    heard,          \* listener_messages of the bridge
    listening,      \* the bridge has its listener installed
    checkpoint,     \* local_meta: telegram_user_checkpoint
    imports,        \* telegram_user_imports.status, or "none"
    file,           \* of a message: what is at its path under Telegram Imports
    backups,        \* files under a backup name: of a pass, or of Null once it is gone
    passes,
    upload,         \* the upload of a file of the desktop, and the message it became
                    \* while the bridge has not answered
    faults,
    skipped         \* ghost: messages the checkpoint went past without a pass being told

vars == <<scene, group, heard, listening, checkpoint, imports, file, backups, passes, upload, faults,
          skipped>>

Numbers == 1 .. MaxMessages
Messages == 1 .. Len(group)

\* `after` is the checkpoint the pass goes on from, `todo` what it was told of,
\* `now` the message at hand.
Pass == [at : {"ask", "told", "temp", "backup", "move", "clean", "ready"}, after : 0 .. MaxMessages,
         todo : SUBSET Numbers, now : 0 .. MaxMessages]

ASSUME NullAssumption == Null \notin Pass

NoUpload == [at |-> "none", message |-> 0]

Init ==
    /\ scene \in Scenarios
    /\ group = <<>> /\ heard = {} /\ listening = FALSE /\ checkpoint = 0
    /\ imports = [m \in Numbers |-> "none"]
    /\ file = [m \in Numbers |-> "none"] /\ backups = {}
    /\ passes = [p \in Passes |-> Null]
    /\ upload = NoUpload /\ faults = 0 /\ skipped = {}

Disk == <<file, backups>>
Bridge == <<group, heard, listening>>

-----------------------------------------------------------------------------
(* The group and the bridge.                                                 *)

\* The rows of imports (main/db.ts): a document is found once, and its row is DISCOVERED;
\* it is IMPORTED, or was uploaded from here, or its import failed.
Discovered(status, m) == IF status[m] = "none" THEN [status EXCEPT ![m] = "found"] ELSE status
Completed(status, m) == [status EXCEPT ![m] = "done"]
Remembered(m) == [imports EXCEPT ![m] = "done"]
Failed(m) == [imports EXCEPT ![m] = "error"]

IsDocument(m) == group[m] # "text"
IsManaged(m) == group[m] \in {"document", "own"}

Arrive(kind) ==
    /\ Len(group) < scene.messages
    /\ group' = Append(group, kind)
    /\ heard' = IF listening /\ kind # "text" THEN heard \cup {Len(group) + 1} ELSE heard

Post ==
    /\ \E kind \in scene.kinds \ {"own"} : Arrive(kind)
    /\ UNCHANGED <<scene, listening, checkpoint, imports, Disk, passes, upload, faults, skipped>>

\* authorization_watch_loop installs the listener once the group can be found.
Listen ==
    /\ ~listening /\ listening' = TRUE
    /\ UNCHANGED <<scene, group, heard, checkpoint, imports, Disk, passes, upload, faults, skipped>>

\* imports: what the listener heard, and the documents among the next Limit messages.
Offered(after) ==
    {m \in heard : m > after} \cup {m \in Messages : after < m /\ m <= after + Limit /\ IsDocument(m)}

-----------------------------------------------------------------------------
(* The upload of a file of this desktop (SyncEngine.processPending).         *)

StartUpload ==
    /\ "own" \in scene.kinds /\ upload = NoUpload
    /\ upload' = [at |-> "sending", message |-> 0]
    /\ UNCHANGED <<scene, Bridge, checkpoint, imports, Disk, passes, faults, skipped>>

\* The bridge has sent the message and has not answered.
SendUpload ==
    /\ upload.at = "sending"
    /\ Arrive("own") /\ upload' = [at |-> "sent", message |-> Len(group) + 1]
    /\ UNCHANGED <<scene, listening, checkpoint, imports, Disk, passes, faults, skipped>>

\* The receipt arrives: the message is recorded as imported.
RememberUpload ==
    /\ upload.at = "sent"
    /\ imports' = Remembered(upload.message) /\ upload' = NoUpload
    /\ UNCHANGED <<scene, Bridge, checkpoint, Disk, passes, faults, skipped>>

-----------------------------------------------------------------------------
(* A pass.                                                                   *)

At(p, at) == passes[p] # Null /\ passes[p].at = at

\* The status of the provider, then the checkpoint.
Begin(p) ==
    /\ p \in scene.passes /\ passes[p] = Null
    /\ passes' = [passes EXCEPT ![p] = [at |-> "ask", after |-> checkpoint, todo |-> {}, now |-> 0]]
    /\ UNCHANGED <<scene, Bridge, checkpoint, imports, Disk, upload, faults, skipped>>

Ask(p) ==
    /\ At(p, "ask")
    /\ passes' = [passes EXCEPT ![p].at = "told", ![p].todo = Offered(passes[p].after)]
    /\ UNCHANGED <<scene, Bridge, checkpoint, imports, Disk, upload, faults, skipped>>

\* Faulty variant: only the checkpoint says what has been imported.
WantedAgain(m, status) == IsManaged(m)

Wanted(m, status) == IsManaged(m) /\ status[m] # "done"

\* Faulty variant: the checkpoint stays where it is for what need not be imported.
ReachedByImports(after, passed) == after

Reached(after, passed) == IF passed = {} THEN after ELSE Max(passed)

\* The loop from its head to the next download, with the rows of imports as they are
\* in status. It moves the checkpoint over what need not be imported.
GoOn(p, after, todo, status) ==
    LET left == {m \in todo : m > after}
        wanted == {m \in left : Wanted(m, status)}
        passed == {m \in left : \A n \in wanted : m < n}
        reached == Reached(after, passed)
        moved == passed # {} \/ after > passes[p].after
    IN /\ checkpoint' = IF moved THEN reached ELSE checkpoint
       /\ skipped' = IF moved
                     THEN skipped \cup {m \in 1 .. reached : Wanted(m, status) /\ m > passes[p].after
                                                             /\ m \notin passes[p].todo}
                     ELSE skipped
       /\ IF wanted = {}
          THEN passes' = [passes EXCEPT ![p] = Null] /\ imports' = status
          ELSE LET m == Min(wanted)
               IN /\ passes' = [passes EXCEPT ![p] = [at |-> "temp", after |-> reached, todo |-> todo,
                                                      now |-> m]]
                  /\ imports' = Discovered(status, m)

Look(p) ==
    /\ At(p, "told")
    /\ GoOn(p, passes[p].after, passes[p].todo, imports)
    /\ UNCHANGED <<scene, Bridge, Disk, upload, faults>>

To(p, at) == passes' = [passes EXCEPT ![p].at = at]

\* The document is at a temporary name.
Fetch(p) ==
    /\ At(p, "temp") /\ To(p, "backup")
    /\ UNCHANGED <<scene, Bridge, checkpoint, imports, Disk, upload, faults, skipped>>

Backup(p) == {b \in backups : b.of = p}

\* Faulty variant: what is at the path is removed first.
SetAsideByRemoval(p) ==
    LET m == passes[p].now
    IN /\ At(p, "backup") /\ To(p, "move")
       /\ file' = [file EXCEPT ![m] = "none"]
       /\ UNCHANGED <<scene, Bridge, checkpoint, imports, backups, upload, faults, skipped>>

\* atomicReplace: what is at the path is renamed to a backup name.
SetAside(p) ==
    LET m == passes[p].now
    IN /\ At(p, "backup") /\ To(p, "move")
       /\ IF file[m] = "none" THEN UNCHANGED Disk
          ELSE /\ backups' = backups \cup {[of |-> p, message |-> m, content |-> file[m]]}
               /\ file' = [file EXCEPT ![m] = "none"]
       /\ UNCHANGED <<scene, Bridge, checkpoint, imports, upload, faults, skipped>>

Move(p) ==
    /\ At(p, "move") /\ To(p, IF Backup(p) = {} THEN "ready" ELSE "clean")
    /\ file' = [file EXCEPT ![passes[p].now] = "original"]
    /\ UNCHANGED <<scene, Bridge, checkpoint, imports, backups, upload, faults, skipped>>

Clean(p) ==
    /\ At(p, "clean") /\ To(p, "ready")
    /\ backups' = backups \ Backup(p)
    /\ UNCHANGED <<scene, Bridge, checkpoint, imports, file, upload, faults, skipped>>

\* handleFileReady has taken the file up: it is recorded, and the loop goes on.
Complete(p) ==
    LET m == passes[p].now
    IN /\ At(p, "ready")
       /\ GoOn(p, m, passes[p].todo, Completed(imports, m))
       /\ UNCHANGED <<scene, Bridge, Disk, upload, faults>>

-----------------------------------------------------------------------------
(* What fails. MaxFaults bounds it.                                          *)

Fault == faults < MaxFaults /\ faults' = faults + 1

\* The bridge refuses or does not answer, or the account is not authorized.
FailAsk(p) ==
    /\ At(p, "ask") /\ Fault
    /\ passes' = [passes EXCEPT ![p] = Null]
    /\ UNCHANGED <<scene, Bridge, checkpoint, imports, Disk, upload, skipped>>

\* Faulty variant: the message that failed counts as dealt with.
FailAndPass(p) ==
    /\ passes[p] # Null /\ passes[p].at \in {"temp", "backup", "move", "clean", "ready"} /\ Fault
    /\ GoOn(p, passes[p].now, passes[p].todo, Failed(passes[p].now))
    /\ UNCHANGED <<scene, Bridge, Disk, upload>>

\* A step of the download or of handleFileReady throws: what was set aside goes back to
\* its path (also over what was moved there), and the pass ends.
Fail(p) ==
    /\ passes[p] # Null /\ passes[p].at \in {"temp", "backup", "move", "clean", "ready"} /\ Fault
    /\ LET m == passes[p].now
       IN /\ imports' = Failed(m)
          /\ file' = [file EXCEPT ![m] = IF Backup(p) = {} THEN file[m]
                                         ELSE (CHOOSE b \in Backup(p) : TRUE).content]
          /\ backups' = backups \ Backup(p)
          /\ passes' = [passes EXCEPT ![p] = Null]
    /\ UNCHANGED <<scene, Bridge, checkpoint, upload, skipped>>

\* The program dies with its bridge. A backup keeps its name, which nothing looks for
\* again; an upload whose answer was not heard is sent again.
Gone ==
    /\ passes' = [p \in Passes |-> Null]
    /\ backups' = {[b EXCEPT !.of = Null] : b \in backups}
    /\ heard' = {} /\ listening' = FALSE
    /\ upload' = IF upload = NoUpload THEN NoUpload ELSE [at |-> "sending", message |-> 0]

Crash ==
    /\ Fault /\ Gone
    /\ UNCHANGED <<scene, group, checkpoint, imports, file, skipped>>

\* It dies between the row of the import and the row of the checkpoint.
CrashBetween(p) ==
    /\ At(p, "ready") /\ Fault /\ Gone
    /\ imports' = Completed(imports, passes[p].now)
    /\ UNCHANGED <<scene, group, checkpoint, file, skipped>>

RestartBridge ==
    /\ Fault /\ listening
    /\ heard' = {} /\ listening' = FALSE
    /\ UNCHANGED <<scene, group, checkpoint, imports, Disk, passes, upload, skipped>>

Edit(m) ==
    /\ file[m] = "original"
    /\ file' = [file EXCEPT ![m] = "edited"]
    /\ UNCHANGED <<scene, Bridge, checkpoint, imports, backups, passes, upload, faults, skipped>>

Work(p) == Ask(p) \/ Look(p) \/ Fetch(p) \/ SetAside(p) \/ Move(p) \/ Clean(p) \/ Complete(p)

Next ==
    \/ Post \/ Listen \/ StartUpload \/ SendUpload \/ RememberUpload
    \/ \E p \in Passes : Begin(p) \/ Work(p) \/ FailAsk(p) \/ Fail(p) \/ CrashBetween(p)
    \/ Crash \/ RestartBridge
    \/ \E m \in Numbers : Edit(m)

Spec == Init /\ [][Next]_vars

\* The timer starts passes, and what was begun goes on: every await of a pass ends. The
\* watch loop of the bridge goes round, and the queue sends what it has.
FairSpec ==
    /\ Spec /\ WF_vars(Listen) /\ WF_vars(RememberUpload)
    /\ \A p \in Passes : WF_vars(Begin(p)) /\ WF_vars(Work(p))
-----------------------------------------------------------------------------
Files == {"original", "edited"}

TypeOK ==
    /\ scene \in Scenarios
    /\ group \in Seq(Kinds) /\ Len(group) <= MaxMessages
    /\ heard \subseteq Messages /\ listening \in BOOLEAN
    /\ checkpoint \in 0 .. Len(group)
    /\ imports \in [Numbers -> {"none", "found", "done", "error"}]
    /\ file \in [Numbers -> Files \cup {"none"}]
    /\ backups \subseteq [of : Passes \cup {Null}, message : Numbers, content : Files]
    /\ passes \in [Passes -> Pass \cup {Null}]
    /\ upload \in [at : {"none", "sending", "sent"}, message : 0 .. MaxMessages]
    /\ faults \in 0 .. MaxFaults
    /\ skipped \subseteq Messages

OnDisk(m) == file[m] # "none" \/ \E b \in backups : b.message = m

\* A document of others the checkpoint is past has been imported: it is recorded, or its file is
\* there (a second pass may fail on it after the first has imported it). What a pass was
\* not told of is the exception: the bridge reads Limit messages after the checkpoint, and
\* adds what its listener heard, which may lie beyond them.
NothingIsPassedOver ==
    \A m \in 1 .. checkpoint :
        group[m] = "document" /\ imports[m] # "done" /\ m \notin skipped => OnDisk(m)

\* A document of others that is recorded as imported is on the disk, at its path or at a
\* backup name, in whatever step a second pass or a crash stops that replaces it.
ImportedIsOnDisk ==
    \A m \in Messages : group[m] = "document" /\ imports[m] = "done" => OnDisk(m)

\* What is recorded as imported, or was uploaded from here, is never downloaded again,
\* over the work of the user, unless a pass had taken it up before it was recorded.
ImportedOnce ==
    [][\A m \in Messages :
         imports[m] = "done" /\ (\A p \in Passes : passes[p] = Null \/ passes[p].now # m)
            => imports'[m] = "done" /\ \A p \in Passes : passes'[p] = Null \/ passes'[p].now # m]_vars

-----------------------------------------------------------------------------
(* The inductive invariant.                                                  *)

\* A pass has what it set aside under a backup name until it has replaced it. Before that
\* nobody takes the backup away, unless it goes back to its path; nor one whose pass is gone.
BackupsOK ==
    \A b \in backups : b.of # Null =>
        /\ passes[b.of] # Null /\ passes[b.of].at \in {"move", "clean"}
        /\ passes[b.of].now = b.message
Lasting(b) == b.of = Null \/ passes[b.of].at = "move"
Safe(m) == file[m] # "none" \/ \E b \in backups : b.message = m /\ Lasting(b)

\* What a pass has moved to its path is there or set aside by another one; a document of
\* others that is recorded as imported likewise.
SafeOK ==
    /\ \A p \in Passes : passes[p] # Null /\ passes[p].at \in {"clean", "ready"} => Safe(passes[p].now)
    /\ \A p \in Passes : passes[p] # Null /\ passes[p].at = "ready" => Backup(p) = {}
    /\ \A m \in Messages : group[m] = "document" /\ imports[m] = "done" => Safe(m)

\* What a pass goes on from, and what it was told of, are messages of the group; the one
\* at hand is the first it still has to deal with.
PassOK(pass) ==
    /\ pass.after <= Len(group) /\ pass.todo \subseteq Messages
    /\ pass.at \notin {"ask", "told"} =>
           /\ pass.now \in Messages /\ pass.after < pass.now
           /\ \A m \in pass.todo : m > pass.after => m >= pass.now

PassesOK == \A p \in Passes : passes[p] # Null => PassOK(passes[p])

\* A message that nobody has to look at again, and which are such.
Dealt(m) == group[m] # "document" \/ imports[m] = "done" \/ m \in skipped \/ OnDisk(m)
DealtOK ==
    /\ \A m \in 1 .. checkpoint : Dealt(m)
    /\ \A p \in Passes : passes[p] # Null => \A m \in 1 .. passes[p].after : Dealt(m)

\* Rows are of messages, and an upload that was sent is one of them.
RowsOK ==
    /\ \A m \in Numbers : imports[m] # "none" => m \in Messages
    /\ upload.at = "sent" => upload.message \in Messages /\ group[upload.message] = "own"

IInv == TypeOK /\ BackupsOK /\ SafeOK /\ PassesOK /\ DealtOK /\ RowsOK
-----------------------------------------------------------------------------

\* The messages the bridge reads after the checkpoint hold no document at all: it offers
\* none, and the checkpoint does not move.
Stuck ==
    /\ checkpoint + Limit <= Len(group)
    /\ \A m \in checkpoint + 1 .. checkpoint + Limit : ~IsDocument(m)

\* Every managed document of the group is imported in the end, or the checkpoint is past
\* it (NothingIsPassedOver says what that means), unless Limit messages without a document
\* lie before it.
EverythingIsImported ==
    \A m \in Numbers :
        (m \in Messages /\ Wanted(m, imports)) ~> (imports[m] = "done" \/ m <= checkpoint \/ Stuck)
=============================================================================
