------------------------------ MODULE Notices ------------------------------
(* Comments, tasks and the notifications they lead to: the comment, takeover *)
(* and notification handlers of worker/src/collab-upgrade.ts, the task       *)
(* handlers of worker/src/enterprise.ts and the import of local tasks by     *)
(* src/renderer/src/App.tsx. Each statement of a handler is a step; calls    *)
(* interleave and may die between two steps.                                 *)
(* One file, in one workspace. A cause is what an event key is built from;   *)
(* an event is found again by its key, so that it stands for its id.         *)
EXTENDS Naturals, Sequences, FiniteSets

CONSTANTS
    Users,
    Editors,        \* users who are given EDITOR on the file when they can read it
    Managers,       \* managers of the workspace
    Importer,       \* the user whose desktop still keeps tasks of its own
    Comments, Tasks, Leases, Dates, Slots, Null,
    Owner,          \* Owner[l]: the user a lease was given to
    Legacy,         \* the tasks kept by the desktop, in order: has each a file linked?
    ImportLimit,    \* how many of them one import sends (200)
    Scenarios       \* each bounds a behaviour: the operations, by whom, whom a comment
                    \* mentions, what is asked of a task, and the number of calls

Ops == {"comment", "resolve", "reopen", "takeover", "list", "create", "update", "delete", "import",
        "read", "access", "lease", "clock"}
Statuses == {"TODO", "DONE"}

Change == [status : Statuses \cup {Null}, who : Users \cup {Null}, due : Dates \cup {Null}]

ASSUME NoticesAssumption ==
    /\ Editors \subseteq Users /\ Managers \subseteq Users /\ Importer \in Users /\ Slots # {}
    /\ Null \notin Users \cup Comments \cup Tasks \cup Leases \cup Dates \cup Statuses
    /\ Owner \in [Leases -> Users]
    /\ Legacy \in Seq(BOOLEAN) /\ ImportLimit \in Nat \ {0}
    /\ Scenarios \subseteq [ops : SUBSET Ops, by : SUBSET Users, mentions : SUBSET SUBSET Users,
                             changes : SUBSET Change, calls : Nat]

VARIABLES
    scene, left,    \* the scenario, and the calls it still has
    readers,        \* who may read the file
    lease,          \* file_edit_leases: the lease of the file, or Null
    ended,          \* leases that will not come back (a device may ask for the one it had again)
    comments,       \* file_comments
    mentions,       \* comment_mentions
    notices,        \* notifications
    tasks,          \* tasks
    phase,          \* of a date: "far", "soon" (within a day) or "past"
    local,          \* localStorage still keeps the tasks
    migrating,      \* legacyTaskMigrationRef
    calls,
    made,           \* ghost: the notifications ever made, by recipient and cause
    arrived         \* ghost: the tasks of the desktop that have been on the server

History == <<made, arrived>>
vars == <<scene, left, readers, lease, ended, comments, mentions, notices, tasks, phase, local,
          migrating, calls, History>>

Cause == [type : {"comment"}, of : Comments] \cup [type : {"takeover"}, of : Leases, by : Users]
         \cup [type : {"due"}, of : Tasks, on : Dates]
Comment == [by : Users, parent : Comments \cup {Null}, resolved : BOOLEAN]
Task == [by : Users, who : Users \cup {Null}, status : Statuses, due : Dates \cup {Null},
         completed : BOOLEAN, legacy : 0 .. Len(Legacy)]
Notice == [to : Users, cause : Cause, event : Cause, read : BOOLEAN, old : BOOLEAN]

\* `todo` is what the handler still has to go through, `found` what it kept, `saw`
\* the status it read. `heard`: the page that imports still waits for the answer.
\* Ghosts: who could and who could not read the file at some moment of the call,
\* and the rows that changed since it began.
Call == [op : Ops, by : Users, at : {"enter", "parent", "write", "parse", "tell", "rows", "answer"},
         id : Comments \cup Tasks \cup Leases \cup {Null}, parent : Comments \cup {Null},
         change : Change \cup {Null}, next : 1 .. Len(Legacy) + 1, heard : BOOLEAN,
         todo : SUBSET (Users \cup Cause \cup Notice), asked : SUBSET Users,
         found : SUBSET (Users \cup Notice), saw : Statuses \cup {Null},
         could : SUBSET Users, couldNot : SUBSET Users, changed : SUBSET (Comments \cup Tasks)]

ASSUME RowAssumption == Null \notin Comment /\ Null \notin Task /\ Null \notin Call

NewCall(op, by) ==
    [op |-> op, by |-> by, at |-> "enter", id |-> Null, parent |-> Null, change |-> Null, next |-> 1,
     heard |-> TRUE, todo |-> {}, asked |-> {}, found |-> {}, saw |-> Null,
     could |-> readers, couldNot |-> Users \ readers, changed |-> {}]

Init ==
    /\ scene \in Scenarios /\ left = scene.calls
    /\ readers = Users /\ lease \in IF "takeover" \in scene.ops THEN Leases ELSE {Null}
    /\ ended = {}
    /\ comments = [k \in Comments |-> Null] /\ mentions = {} /\ notices = {}
    /\ tasks = [t \in Tasks |-> Null] /\ phase = [d \in Dates |-> "far"]
    /\ local = TRUE /\ migrating = FALSE
    /\ calls = [c \in Slots |-> Null] /\ made = {} /\ arrived = {}

-----------------------------------------------------------------------------
(* Calls.                                                                    *)

May(op) == op \in scene.ops
Is(c, ops) == calls[c] # Null /\ calls[c].op \in ops
At(c, at) == calls[c] # Null /\ calls[c].at = at
Goto(c, at) == calls' = [calls EXCEPT ![c].at = at]
Finish(c) == calls' = [calls EXCEPT ![c] = Null]

File == <<readers, lease, ended>>
Store == <<File, comments, mentions, notices, tasks, phase>>
Desk == <<local, migrating>>

Send(c, call) ==
    /\ call.op \in scene.ops /\ call.by \in scene.by /\ left > 0 /\ calls[c] = Null
    /\ left' = left - 1
    /\ calls' = [calls EXCEPT ![c] = call]
    /\ UNCHANGED <<scene, Store, local, History>>

\* A step of a handler that goes on with `call`, or fails, and writes nothing.
Check(c, holds, call) ==
    /\ calls' = [calls EXCEPT ![c] = IF holds THEN call ELSE Null]
    /\ UNCHANGED <<scene, left, Store, Desk, History>>

\* The calls after a row x changed: those under way remember it.
Noting(x, rest) ==
    [d \in Slots |-> IF rest[d] = Null THEN Null ELSE [rest[d] EXCEPT !.changed = @ \cup {x}]]

To(c, call) == [calls EXCEPT ![c] = call]

\* The process of a handler may be stopped between two statements.
Die(c) ==
    /\ calls[c] # Null /\ calls[c].op # "import" /\ calls' = To(c, Null)
    /\ UNCHANGED <<scene, left, Store, Desk, History>>

-----------------------------------------------------------------------------
(* Notifications.                                                            *)

\* Faulty variant: the identifier made for the event, not the one stored under
\* its key.
EventPerCall(c, cause) == [cause EXCEPT !.of = <<@, c>>]

\* Faulty variant: one event for a task that is due, whatever the date.
EventPerTask(c, cause) == IF cause.type = "due" THEN [cause EXCEPT !.on = Null] ELSE cause

\* recordDomainEvent: an event whose key exists is left alone, and the identifier
\* is read back by the key.
EventOf(c, cause) == cause

\* createNotification: unique for a recipient and an event.
Told(c, u, cause) ==
    IF \E n \in notices : n.to = u /\ n.event = EventOf(c, cause) THEN notices
    ELSE notices \cup {[to |-> u, cause |-> cause, event |-> EventOf(c, cause), read |-> FALSE, old |-> FALSE]}

Tell(c, u, cause) ==
    /\ notices' = Told(c, u, cause)
    /\ made' = made \cup {<<n.to, n.cause>> : n \in notices' \ notices}
    /\ UNCHANGED arrived

-----------------------------------------------------------------------------
(* Comments.                                                                 *)

SendComment(c) ==
    \E u \in Users, asked \in scene.mentions, parent \in Comments \cup {Null} :
        /\ parent # Null => comments[parent] # Null
        /\ Send(c, [NewCall("comment", u) EXCEPT !.parent = parent, !.asked = asked])
        /\ UNCHANGED migrating

EnterComment(c) ==
    Is(c, {"comment"}) /\ At(c, "enter") /\
    Check(c, calls[c].by \in readers,
          [calls[c] EXCEPT !.at = IF calls[c].parent = Null THEN "write" ELSE "parent"])

\* Faulty variant: the parent is only looked for.
ParentExists(k) == comments[k] # Null

ParentOpen(k) == comments[k] # Null /\ ~comments[k].resolved

CheckParent(c) ==
    At(c, "parent") /\ Check(c, ParentOpen(calls[c].parent), [calls[c] EXCEPT !.at = "write"])

InsertComment(c) ==
    Is(c, {"comment"}) /\ At(c, "write") /\ \E k \in Comments :
        LET call == calls[c] IN
        /\ comments[k] = Null
        /\ comments' = [comments EXCEPT ![k] = [by |-> call.by, parent |-> call.parent, resolved |-> FALSE]]
        /\ calls' = To(c, [call EXCEPT !.at = "parse", !.id = k, !.todo = call.asked \ {call.by}])
        /\ UNCHANGED <<scene, left, File, mentions, notices, tasks, phase, Desk, History>>

\* Faulty variant: the right asked for is that of the author.
ReadableByAuthor(c, u) == calls[c].by \in readers

Readable(c, u) == u \in readers

ParseMention(c) ==
    At(c, "parse") /\
    LET call == calls[c] IN
    \/ \E u \in call.todo :
           Check(c, TRUE, [call EXCEPT !.todo = @ \ {u}, !.found = IF Readable(c, u) THEN @ \cup {u} ELSE @])
    \/ call.todo = {} /\ Check(c, TRUE, [call EXCEPT !.at = "tell", !.todo = call.found])

\* The row of a mention and its notification are two statements; they are one step,
\* since nobody else reads the first. When the process dies in between, nobody is told.
Mention(c) ==
    Is(c, {"comment"}) /\ At(c, "tell") /\
    LET call == calls[c] IN
    \/ /\ call.todo = {}
       /\ Check(c, TRUE, [call EXCEPT !.at = "answer"])
    \/ \E u \in call.todo :
           /\ mentions' = mentions \cup {<<call.id, u>>}
           /\ Tell(c, u, [type |-> "comment", of |-> call.id])
           /\ calls' = To(c, [call EXCEPT !.todo = @ \ {u}])
           /\ UNCHANGED <<scene, left, File, comments, tasks, phase, Desk>>

SendResolve(c) ==
    \E op \in {"resolve", "reopen"}, u \in Users, k \in Comments :
        /\ comments[k] # Null
        /\ Send(c, [NewCall(op, u) EXCEPT !.id = k]) /\ UNCHANGED migrating

EnterResolve(c) ==
    Is(c, {"resolve", "reopen"}) /\ At(c, "enter") /\
    LET call == calls[c]
    IN Check(c, call.by \in readers /\ (comments[call.id].by = call.by \/ call.by \in Editors),
             [call EXCEPT !.at = "write"])

Resolve(c) ==
    Is(c, {"resolve", "reopen"}) /\ At(c, "write") /\
    LET k == calls[c].id IN
    /\ comments' = [comments EXCEPT ![k].resolved = (calls[c].op = "resolve")]
    /\ calls' = Noting(k, To(c, Null))
    /\ UNCHANGED <<scene, left, File, mentions, notices, tasks, phase, Desk, History>>

-----------------------------------------------------------------------------
(* A request to take a lease over, and the list of notifications.            *)

SendTakeover(c) ==
    \E u \in Users : Send(c, NewCall("takeover", u)) /\ UNCHANGED migrating

EnterTakeover(c) ==
    Is(c, {"takeover"}) /\ At(c, "enter") /\
    Check(c, calls[c].by \in readers \cap Editors, [calls[c] EXCEPT !.at = "rows"])

\* Owner[l], the user of a lease, is asked to give it up.
ReadLease(c) ==
    Is(c, {"takeover"}) /\ At(c, "rows") /\
    Check(c, lease # Null /\ Owner[lease] # calls[c].by, [calls[c] EXCEPT !.at = "tell", !.id = lease])

TellOwner(c) ==
    Is(c, {"takeover"}) /\ At(c, "tell") /\
    LET call == calls[c] IN
    /\ Tell(c, Owner[call.id], [type |-> "takeover", of |-> call.id, by |-> call.by])
    /\ calls' = To(c, Null)
    /\ UNCHANGED <<scene, left, File, comments, mentions, tasks, phase, Desk>>

SendList(c) ==
    \E u \in Users : Send(c, NewCall("list", u)) /\ UNCHANGED migrating

\* The event key of a task that is due.
Due(t, date) == [type |-> "due", of |-> t, on |-> date]

DueOf(u) == {t \in Tasks : tasks[t] # Null /\ tasks[t].who = u /\ tasks[t].status # "DONE"
                            /\ tasks[t].due # Null /\ phase[tasks[t].due] = "soon"}

\* pruneNotifications, then the tasks that are due.
EnterList(c) ==
    Is(c, {"list"}) /\ At(c, "enter") /\
    LET call == calls[c] IN
    /\ notices' = {n \in notices : n.to = call.by => ~n.old}
    /\ calls' = To(c, [call EXCEPT !.at = "tell", !.todo = {Due(t, tasks[t].due) : t \in DueOf(call.by)}])
    /\ UNCHANGED <<scene, left, File, comments, mentions, tasks, phase, Desk, History>>

TellDue(c) ==
    Is(c, {"list"}) /\ At(c, "tell") /\
    LET call == calls[c] IN
    \/ \E cause \in call.todo :
           /\ Tell(c, call.by, cause)
           /\ calls' = To(c, [call EXCEPT !.todo = @ \ {cause}])
           /\ UNCHANGED <<scene, left, File, comments, mentions, tasks, phase, Desk>>
    \/ /\ call.todo = {}
       /\ Check(c, TRUE, [call EXCEPT !.at = "rows", !.todo = {n \in notices : n.to = call.by}])

\* canReadNotificationResource, for one row after the other. Membership of the
\* workspace, asked for a task, is not lost here.
CanRead(u, n) == n.cause.type \in {"comment", "takeover"} => u \in readers

CheckRow(c) ==
    Is(c, {"list"}) /\ At(c, "rows") /\
    LET call == calls[c] IN
    \/ \E n \in call.todo :
           Check(c, TRUE, [call EXCEPT !.todo = @ \ {n}, !.found = IF CanRead(call.by, n) THEN @ \cup {n} ELSE @])
    \/ call.todo = {} /\ Check(c, TRUE, [call EXCEPT !.at = "answer"])

Answer(c) == At(c, "answer") /\ Check(c, FALSE, Null)

\* handleNotificationRead and handleNotificationReadAll.
Read(u, which) ==
    /\ "read" \in scene.ops /\ which # {}
    /\ which \subseteq {n \in notices : n.to = u /\ ~n.read}
    /\ notices' = (notices \ which) \cup {[n EXCEPT !.read = TRUE] : n \in which}
    /\ UNCHANGED <<scene, left, File, comments, mentions, tasks, phase, Desk, calls, History>>

ReadOne == \E n \in notices : Read(n.to, {n})
ReadAll == \E u \in Users : Read(u, {n \in notices : n.to = u /\ ~n.read})

-----------------------------------------------------------------------------
(* Tasks.                                                                    *)

\* Faulty variant: the index on the creator and the identifier of the desktop is
\* not unique.
NeverRefused(call) == FALSE

\* The unique index on the creator and the identifier of the desktop.
RefusedByIndex(call) ==
    call.op = "import" /\ \E t \in Tasks : tasks[t] # Null /\ tasks[t].by = call.by /\ tasks[t].legacy = call.next

Inserted(call) ==
    IF call.op = "import"
    THEN [by |-> call.by, who |-> Null, status |-> "TODO", due |-> Null, completed |-> FALSE, legacy |-> call.next]
    ELSE [by |-> call.by, who |-> call.change.who, status |-> call.change.status, due |-> call.change.due,
          completed |-> call.change.status = "DONE", legacy |-> 0]

SendCreate(c) ==
    \E u \in Users, change \in scene.changes :
        /\ change.status # Null
        /\ Send(c, [NewCall("create", u) EXCEPT !.change = change]) /\ UNCHANGED migrating

MayAssign(u, who) == who \in {Null, u} \/ u \in Managers

EnterCreate(c) ==
    Is(c, {"create"}) /\ At(c, "enter") /\
    Check(c, MayAssign(calls[c].by, calls[c].change.who), [calls[c] EXCEPT !.at = "write"])

InsertTask(c) ==
    Is(c, {"create"}) /\ At(c, "write") /\ \E t \in Tasks :
        /\ tasks[t] = Null
        /\ tasks' = [tasks EXCEPT ![t] = Inserted(calls[c])]
        /\ calls' = Noting(t, To(c, Null))
        /\ UNCHANGED <<scene, left, File, comments, mentions, notices, phase, Desk, History>>

SendChange(c) ==
    \E u \in Users, t \in Tasks :
        /\ tasks[t] # Null /\ UNCHANGED migrating
        /\ \/ Send(c, [NewCall("delete", u) EXCEPT !.id = t])
           \/ \E change \in scene.changes : Send(c, [NewCall("update", u) EXCEPT !.id = t, !.change = change])

EnterChange(c) ==
    Is(c, {"update", "delete"}) /\ At(c, "enter") /\
    LET call == calls[c]
        task == tasks[call.id]
    IN Check(c, /\ task # Null
                /\ \/ call.by \in Managers \cup {task.by}
                   \/ call.op = "update" /\ call.by = task.who
                /\ call.op = "update" => MayAssign(call.by, call.change.who),
             [call EXCEPT !.at = "write", !.saw = IF task = Null THEN Null ELSE task.status, !.changed = {}])

\* Faulty variant: UPDATE writes what is not given too.
New(new, old) == new

\* COALESCE.
Or(new, old) == IF new = Null THEN old ELSE new

\* Faulty variant: completed_at is kept when there is one.
CompletedOnce(call, task) == task.completed \/ Or(call.change.status, call.saw) = "DONE"

\* completed_at is computed from the status that was read.
Completed(call, task) == Or(call.change.status, call.saw) = "DONE"

\* A task deleted since is updated in vain.
UpdateTask(c) ==
    Is(c, {"update"}) /\ At(c, "write") /\
    LET call == calls[c]
        t == call.id
        task == tasks[t]
    IN /\ tasks' = IF task = Null THEN tasks
                   ELSE [tasks EXCEPT ![t] = [task EXCEPT !.status = Or(call.change.status, @),
                                                         !.who = Or(call.change.who, @),
                                                         !.due = Or(call.change.due, @),
                                                         !.completed = Completed(call, task)]]
       /\ calls' = Noting(t, To(c, Null))
       /\ UNCHANGED <<scene, left, File, comments, mentions, notices, phase, Desk, History>>

DeleteTask(c) ==
    Is(c, {"delete"}) /\ At(c, "write") /\
    /\ tasks' = [tasks EXCEPT ![calls[c].id] = Null]
    /\ calls' = Noting(calls[c].id, To(c, Null))
    /\ UNCHANGED <<scene, left, File, comments, mentions, notices, phase, Desk, History>>

-----------------------------------------------------------------------------
(* The tasks a desktop kept before they had a server are imported once. The  *)
(* page asks when somebody is signed in and it has not asked before; it may  *)
(* be loaded again while the main process still waits for the answer.        *)

Sent == IF Len(Legacy) < ImportLimit THEN Len(Legacy) ELSE ImportLimit

SendImport(c) ==
    /\ local /\ ~migrating
    /\ migrating' = TRUE
    /\ Send(c, NewCall("import", Importer))

\* Faulty variant: what was kept is removed however the call ended.
KeptAfter(succeeded) == FALSE

Kept(succeeded) == ~succeeded

\* The page hears of the end of an import; one that was loaded since does not.
HearImport(c, succeeded) ==
    /\ local' = IF calls[c].heard THEN Kept(succeeded) ELSE local
    /\ migrating' = IF calls[c].heard /\ ~succeeded THEN FALSE ELSE migrating

\* createTaskRecord, for the task that is next.
LookForImported(c) ==
    Is(c, {"import"}) /\ At(c, "enter") /\
    LET call == calls[c]
        known == \E t \in Tasks : tasks[t] # Null /\ tasks[t].by = call.by /\ tasks[t].legacy = call.next
    IN /\ call.next <= Sent
       /\ Legacy[call.next] => call.by \in readers
       /\ Check(c, TRUE, IF known THEN [call EXCEPT !.next = @ + 1] ELSE [call EXCEPT !.at = "write"])

InsertImported(c) ==
    Is(c, {"import"}) /\ At(c, "write") /\ ~RefusedByIndex(calls[c]) /\ \E t \in Tasks :
        /\ tasks[t] = Null
        /\ tasks' = [tasks EXCEPT ![t] = Inserted(calls[c])]
        /\ calls' = Noting(t, To(c, [calls[c] EXCEPT !.at = "enter", !.next = @ + 1]))
        /\ arrived' = arrived \cup {calls[c].next}
        /\ UNCHANGED <<scene, left, File, comments, mentions, notices, phase, Desk, made>>

\* A file that cannot be read, a row the index refuses, or a lost answer.
FailImport(c) ==
    /\ Is(c, {"import"}) /\ HearImport(c, FALSE) /\ calls' = To(c, Null)
    /\ UNCHANGED <<scene, left, Store, History>>

EndImport(c) ==
    /\ Is(c, {"import"}) /\ At(c, "enter") /\ calls[c].next > Sent
    /\ HearImport(c, TRUE) /\ calls' = To(c, Null)
    /\ UNCHANGED <<scene, left, Store, History>>

LoadPage ==
    /\ migrating /\ "import" \in scene.ops
    /\ migrating' = FALSE
    /\ calls' = [c \in Slots |-> IF Is(c, {"import"}) THEN [calls[c] EXCEPT !.heard = FALSE] ELSE calls[c]]
    /\ UNCHANGED <<scene, left, Store, local, History>>

-----------------------------------------------------------------------------
(* What else changes: the right to read the file, its lease, and the time.   *)

ChangeAccess(u) ==
    /\ "access" \in scene.ops /\ left > 0 /\ left' = left - 1
    /\ readers' = (readers \ {u}) \cup ({u} \ readers)
    /\ calls' = [c \in Slots |-> IF calls[c] = Null THEN Null
                   ELSE [calls[c] EXCEPT !.could = @ \cup readers', !.couldNot = @ \cup (Users \ readers')]]
    /\ UNCHANGED <<scene, lease, ended, comments, mentions, notices, tasks, phase, Desk, History>>

ChangeLease ==
    /\ "lease" \in scene.ops /\ left > 0 /\ left' = left - 1
    /\ lease' \in ((Leases \ ended) \cup {Null}) \ {lease}
    /\ UNCHANGED <<scene, readers, ended, comments, mentions, notices, tasks, phase, Desk, calls, History>>

Tick(d) ==
    /\ "clock" \in scene.ops /\ phase[d] # "past"
    /\ phase' = [phase EXCEPT ![d] = IF @ = "far" THEN "soon" ELSE "past"]
    /\ calls' = [c \in Slots |-> IF calls[c] = Null THEN Null
                   ELSE [calls[c] EXCEPT !.changed = @ \cup {t \in Tasks : tasks[t] # Null /\ tasks[t].due = d}]]
    /\ UNCHANGED <<scene, left, File, comments, mentions, notices, tasks, Desk, History>>

\* A notification outlives its retention, of months: what it told of is past, and
\* no call of then is still under way.
Age ==
    /\ "clock" \in scene.ops /\ \A c \in Slots : calls[c] = Null
    /\ \E n \in notices :
          /\ ~n.old
          /\ n.cause.type = "due" => phase[n.cause.on] = "past"
          /\ n.cause.type = "takeover" => n.cause.of # lease
          /\ notices' = (notices \ {n}) \cup {[n EXCEPT !.old = TRUE]}
          /\ ended' = IF n.cause.type = "takeover" THEN ended \cup {n.cause.of} ELSE ended
    /\ UNCHANGED <<scene, left, readers, lease, comments, mentions, tasks, phase, Desk, calls, History>>

Step(c) ==
    \/ SendComment(c) \/ EnterComment(c) \/ CheckParent(c) \/ InsertComment(c) \/ ParseMention(c) \/ Mention(c)
    \/ SendResolve(c) \/ EnterResolve(c) \/ Resolve(c)
    \/ SendTakeover(c) \/ EnterTakeover(c) \/ ReadLease(c) \/ TellOwner(c)
    \/ SendList(c) \/ EnterList(c) \/ TellDue(c) \/ CheckRow(c) \/ Answer(c)
    \/ SendCreate(c) \/ EnterCreate(c) \/ InsertTask(c)
    \/ SendChange(c) \/ EnterChange(c) \/ UpdateTask(c) \/ DeleteTask(c)
    \/ SendImport(c) \/ LookForImported(c) \/ InsertImported(c) \/ FailImport(c) \/ EndImport(c)
    \/ Die(c)

Next ==
    \/ \E c \in Slots : Step(c)
    \/ ReadOne \/ ReadAll \/ LoadPage \/ ChangeLease \/ Age
    \/ \E u \in Users : ChangeAccess(u)
    \/ \E d \in Dates : Tick(d)

Spec == Init /\ [][Next]_vars

-----------------------------------------------------------------------------
(* Properties.                                                               *)

\* The rows of the tables and the calls have their types.
TypeOK ==
    /\ scene \in Scenarios /\ left \in 0 .. scene.calls
    /\ readers \subseteq Users /\ lease \in Leases \cup {Null}
    /\ comments \in [Comments -> Comment \cup {Null}] /\ mentions \subseteq Comments \X Users
    /\ notices \subseteq Notice
    /\ tasks \in [Tasks -> Task \cup {Null}] /\ phase \in [Dates -> {"far", "soon", "past"}]
    /\ local \in BOOLEAN /\ migrating \in BOOLEAN
    /\ calls \in [Slots -> Call \cup {Null}]
    /\ made \subseteq Users \X Cause /\ ended \subseteq Leases /\ arrived \subseteq 1 .. Len(Legacy)

\* A user is told once of one thing: a mention, a date, a request for his lease,
\* however many calls find it together, and also after he read it or it was pruned.
ToldOnce ==
    [][\A n \in notices' : (\A m \in notices : <<m.to, m.cause>> # <<n.to, n.cause>>
                             \/ m.event # n.event) => <<n.to, n.cause>> \notin made]_vars

\* When a comment is answered, everybody it mentions who could read the file all the
\* while has been told, and nobody who could not read it at any time.
MentionsAreTold ==
    \A c \in Slots : Is(c, {"comment"}) /\ At(c, "answer") =>
        LET call == calls[c]
            told == {u \in Users : <<call.id, u>> \in mentions /\ <<u, [type |-> "comment", of |-> call.id]>> \in made}
        IN /\ (call.asked \ {call.by}) \ call.couldNot \subseteq told
           /\ told \subseteq call.asked \cap call.could

\* A listing has told its user of every task of his that is due within a day, and
\* was so all the while; also when the date of a task was moved.
DueIsTold ==
    \A c \in Slots : Is(c, {"list"}) /\ At(c, "answer") =>
        \A t \in DueOf(calls[c].by) \ calls[c].changed :
            <<calls[c].by, [type |-> "due", of |-> t, on |-> tasks[t].due]>> \in made

\* A comment answers one that is resolved only when it was resolved after the
\* answer was sent.
ResolvedIsClosed ==
    [][\A k \in Comments : comments[k] = Null /\ comments'[k] # Null =>
           LET parent == comments'[k].parent
           IN parent # Null /\ comments[parent].resolved =>
                  \E c \in Slots : Is(c, {"comment"}) /\ parent \in calls[c].changed]_vars

Imported(i) == {t \in Tasks : tasks[t] # Null /\ tasks[t].legacy = i}

\* A task of the desktop has one task on the server at most, however often and how
\* ever many times at once it is imported; and when the desktop forgets its tasks,
\* each of those it sent has had one.
ImportIsExact ==
    \A i \in 1 .. Len(Legacy) :
        /\ Cardinality(Imported(i)) <= 1
        /\ ~local /\ i <= Sent => i \in arrived

\* The page says that all the tasks it kept were imported, and removes them.
NothingIsLost == ~local => 1 .. Len(Legacy) \subseteq arrived
-----------------------------------------------------------------------------
(* The inductive invariant. What a call under way relies on stays as it      *)
(* moves from statement to statement; what was told and is told of no more   *)
(* is over, and nobody is about to tell it again.                            *)

\* A cause of which no call will come to know anew, and one that a call is about to tell.
Past(cause) ==
    /\ cause.type = "comment" => comments[cause.of] # Null
    /\ cause.type = "takeover" => cause.of \in ended
    /\ cause.type = "due" => phase[cause.on] = "past"

Tells(call, cause) ==
    \/ /\ call.op = "comment" /\ call.at \in {"parse", "tell"}
       /\ cause.type = "comment" /\ cause.of = call.id
    \/ /\ call.op = "takeover" /\ call.at = "tell"
       /\ cause.type = "takeover" /\ cause.of = call.id
    \/ call.op = "list" /\ call.at = "tell" /\ cause \in call.todo

Over(cause) == Past(cause) /\ \A c \in Slots : calls[c] # Null => ~Tells(calls[c], cause)

NoticesOK ==
    \A n \in notices : n.event = n.cause /\ <<n.to, n.cause>> \in made /\ (n.old => Over(n.cause))

MadeOK ==
    \A u \in Users, cause \in Cause : <<u, cause>> \in made =>
        /\ (\E n \in notices : n.to = u /\ n.cause = cause) \/ Over(cause)
        /\ cause.type = "comment" => comments[cause.of] # Null

Mentioned(k) == {u \in Users : <<k, u>> \in mentions}
ToldOf(k) == {u \in Mentioned(k) : <<u, [type |-> "comment", of |-> k]>> \in made}

\* Whom a call must tell of its comment: those it mentions who could read all the while.
MustTell(call) == (call.asked \ {call.by}) \ call.couldNot

CommentOK(call) ==
    /\ call.at \in {"enter", "parent", "write", "parse", "tell", "answer"}
    /\ call.at = "parent" => call.parent # Null
    /\ call.at = "write" /\ call.parent # Null =>
           /\ comments[call.parent] # Null
           /\ comments[call.parent].resolved => call.parent \in call.changed
    /\ call.at \in {"parse", "tell", "answer"} =>
           /\ call.id \in Comments /\ comments[call.id] # Null
           /\ Mentioned(call.id) \subseteq call.asked \cap call.could
    /\ call.at \in {"enter", "parent", "write"} => call.found = {}
    /\ call.at = "parse" =>
           /\ call.todo \subseteq call.asked /\ call.found \subseteq call.asked \cap call.could
           /\ MustTell(call) \subseteq call.todo \cup call.found
    /\ call.at = "tell" =>
           /\ call.todo \subseteq call.asked \cap call.could
           /\ MustTell(call) \subseteq call.todo \cup ToldOf(call.id)
    /\ call.at = "answer" => MustTell(call) \subseteq ToldOf(call.id)

ListOK(call) ==
    /\ call.at \in {"enter", "tell", "rows", "answer"}
    /\ call.at = "tell" => call.todo \subseteq {Due(t, d) : t \in Tasks, d \in Dates}
    /\ call.at = "rows" => call.todo \subseteq Notice
    /\ call.at # "enter" => \A t \in DueOf(call.by) \ call.changed :
           \/ <<call.by, Due(t, tasks[t].due)>> \in made
           \/ call.at = "tell" /\ Due(t, tasks[t].due) \in call.todo

ImportOK(call) ==
    /\ call.at \in {"enter", "write"} /\ call.by = Importer
    /\ call.next <= Sent + 1 /\ (call.at = "write" => call.next <= Sent)
    /\ \A i \in 1 .. Len(Legacy) : i < call.next => i \in arrived

CallOK(call) ==
    /\ readers \subseteq call.could /\ Users \ readers \subseteq call.couldNot
    /\ call.op \in {"comment", "resolve", "reopen", "takeover", "list", "create", "update", "delete",
                    "import"}
    /\ call.op = "comment" => CommentOK(call)
    /\ call.op \in {"resolve", "reopen"} =>
           call.at \in {"enter", "write"} /\ call.id \in Comments /\ comments[call.id] # Null
    /\ call.op = "takeover" =>
           call.at \in {"enter", "rows", "tell"} /\ (call.at = "tell" => call.id \in Leases)
    /\ call.op = "list" => ListOK(call)
    /\ call.op = "create" =>
           call.at \in {"enter", "write"} /\ call.change \in Change /\ call.change.status # Null
    /\ call.op \in {"update", "delete"} => call.at \in {"enter", "write"} /\ call.id \in Tasks
    /\ call.op = "update" => call.change \in Change
    /\ call.op = "import" => ImportOK(call)

CallsOK == \A c \in Slots : calls[c] # Null => CallOK(calls[c])

\* A call that has inserted a comment has one of its own.
HasComment(call) == call.op = "comment" /\ call.at \in {"parse", "tell", "answer"}
CommentsApart ==
    \A c, d \in Slots :
        calls[c] # Null /\ calls[d] # Null /\ HasComment(calls[c]) /\ HasComment(calls[d])
            /\ calls[c].id = calls[d].id => c = d

MentionsOK == \A k \in Comments, u \in Users : <<k, u>> \in mentions => comments[k] # Null

ArrivedOK ==
    /\ \A t \in Tasks : tasks[t] # Null /\ tasks[t].legacy # 0 =>
           tasks[t].by = Importer /\ tasks[t].legacy \in arrived
    /\ \A t, x \in Tasks : tasks[t] # Null /\ tasks[x] # Null /\ tasks[t].legacy # 0
                               /\ tasks[t].legacy = tasks[x].legacy => t = x
    /\ \A i \in 1 .. Len(Legacy) : ~local /\ i <= Sent => i \in arrived

IInv ==
    /\ TypeOK /\ CallsOK /\ CommentsApart /\ NoticesOK /\ MadeOK /\ MentionsOK /\ ArrivedOK
    /\ lease \notin ended
=============================================================================
