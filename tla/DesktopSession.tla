--------------------------- MODULE DesktopSession ---------------------------
(***************************************************************************)
(* The desktop client's session: the token that SessionStore               *)
(* (src/main/session-store.ts) keeps in memory and in a file, the requests  *)
(* WorkerApi (src/main/api.ts) sends under it, the IPC handlers that sign   *)
(* in and out (src/main/index.ts) and the sync engine's switch             *)
(* cloudAccessEnabled with a job that needs the session.                   *)
(*                                                                         *)
(* Several calls are in flight at a time.  Each is a function that runs    *)
(* undisturbed to its next await: the read, the write or the removal of    *)
(* the file, or the answer of the server, which judges the token when it   *)
(* handles the request, long before the answer is heard perhaps.           *)
(***************************************************************************)
EXTENDS Integers, FiniteSets

CONSTANTS
    Slots,      \* bound: calls in flight at a time
    MaxTokens,  \* bound: sign-ins that the server answers with a token
    Users,      \* who signs in on this machine
    Nobody      \* no user

ASSUME BoundAssumption == MaxTokens \in Nat
ASSUME NobodyAssumption == Nobody \notin Users

VARIABLES
    owner,      \* the server's sessions: who each token was issued to
    revoked,    \* tokens whose session was signed out
    expired,    \* tokens whose expiresAt has passed, for the server and the client
    memory,     \* SessionStore.memorySession
    file,       \* what session.bin holds
    enabled,    \* SyncEngine.cloudAccessEnabled
    job,        \* a row of pending_sync: "ready", at "work", or "blocked" for want
                \* of a session until an hour has passed
    calls,      \* the call in each slot
    last,       \* history: the token of the last sign-in, Out after a sign-out, 0 while
                \* one is under way or when it has failed
    disturbed   \* history: a call from before it has changed the session since

server == <<owner, revoked, expired>>
store == <<memory, file>>
engine == <<enabled, job>>
history == <<last, disturbed>>
vars == <<server, store, engine, calls, history>>

Tokens == 1..MaxTokens
Out == MaxTokens + 1
NoSession == [token |-> 0, user |-> Nobody]
Session == [token : Tokens, user : Users] \cup {NoSession}

\* A dispatch of the queue, the quit with its last dispatch, auth:state, auth:login,
\* auth:logout, auth:logoutAllDevices, and auth:logoutDevice of this device.
Kinds == {"sync", "quit", "state", "login", "logout", "all", "device"}
Signs == {"login", "logout", "all", "device"}
Stages == {"idle", "gate", "gateFile", "take", "request", "requestFile", "sent", "refused",
           "denied", "failed", "answered", "storeFile", "store", "writing", "erasing", "again",
           "leaving", "end"}
\* A call with the session it has loaded and the user the server has named.
NoCall == [kind |-> "none", stage |-> "idle", session |-> NoSession, user |-> Nobody,
           late |-> FALSE]

Init ==
    /\ owner = [t \in {} |-> Nobody] /\ revoked = {} /\ expired = {}
    /\ memory = NoSession /\ file = NoSession
    /\ enabled = FALSE /\ job = "ready"
    /\ calls = [s \in Slots |-> NoCall]
    /\ last = 0 /\ disturbed = FALSE

-----------------------------------------------------------------------------
(* The calls in flight                                                     *)

At(s, kinds, stages) == calls[s].kind \in kinds /\ calls[s].stage \in stages
Go(s, stage) == calls' = [calls EXCEPT ![s].stage = stage]

\* What is in flight when a sign-in or sign-out begins or ends is from before it.
Aged(cs, s) ==
    [r \in Slots |-> [cs[r] EXCEPT !.late = @ \/ (r # s /\ cs[r] # NoCall)]]

\* The session changes by a call from before the last sign-in or sign-out, or while
\* another of these is under way.
Touch(s) ==
    disturbed' = \/ disturbed \/ calls[s].late
                 \/ \E r \in Slots \ {s} : calls[r].kind \in Signs

Valid(session) == session # NoSession /\ session.token \notin expired

-----------------------------------------------------------------------------
(* SessionStore                                                            *)

\* load from memory; only when that fails the file is read, with an await.
Load(s, found, unread) ==
    calls' = [calls EXCEPT ![s].stage = IF Valid(memory) THEN found ELSE unread,
                           ![s].session = IF Valid(memory) THEN memory ELSE @]

\* The rest of load: an expired session is cleared, any other one kept in memory.
LoadFile(s, found, none) ==
    /\ calls' = [calls EXCEPT ![s].stage = IF Valid(file) THEN found ELSE none,
                              ![s].session = IF Valid(file) THEN file ELSE @]
    /\ memory' = IF file = NoSession THEN memory ELSE IF Valid(file) THEN file ELSE NoSession
    /\ file' = IF Valid(file) THEN file ELSE NoSession
    /\ IF file = NoSession THEN UNCHANGED disturbed ELSE Touch(s)

\* clear: the memory at once, the file after an await.
Clear(s, next) == memory' = NoSession /\ Go(s, next) /\ Touch(s)

\* save: the memory at once, the file after an await.
\* Faulty variant: the session is kept in memory only.
SaveInMemory(s, session) ==
    /\ memory' = session /\ Touch(s)
    /\ calls' = [calls EXCEPT ![s].stage = "end", ![s].session = session]
Save(s, session) ==
    /\ memory' = session /\ Touch(s)
    /\ calls' = [calls EXCEPT ![s].stage = "writing", ![s].session = session]

Write(s) ==
    /\ calls[s].stage = "writing"
    /\ file' = calls[s].session
    /\ Go(s, "end") /\ Touch(s)
    /\ UNCHANGED <<server, memory, engine, last>>

-----------------------------------------------------------------------------
(* request                                                                 *)

\* A request other than a sign-in is sent under the session that is stored by then.
Request(s) ==
    /\ calls[s].stage = "request"
    /\ Load(s, "sent", "requestFile")
    /\ UNCHANGED <<server, store, engine, history>>

\* Without one it fails with AUTH_REQUIRED.
RequestFile(s) ==
    /\ calls[s].stage = "requestFile"
    /\ LoadFile(s, "sent", "denied")
    /\ UNCHANGED <<server, engine, last>>

\* The server refuses the token, or does what was asked and answers.
Handle(s) ==
    /\ At(s, Kinds \ {"login"}, {"sent"})
    /\ LET t == calls[s].session.token
           mine == {u \in DOMAIN owner : owner[u] = owner[t]}
       IN  IF t \in revoked \cup expired
           THEN Go(s, "refused") /\ UNCHANGED revoked
           ELSE /\ calls' = [calls EXCEPT ![s].stage = "answered", ![s].user = owner[t]]
                /\ revoked' = revoked \cup (CASE calls[s].kind \in {"logout", "device"} -> {t}
                                              [] calls[s].kind = "all" -> mine
                                              [] OTHER -> {})
    /\ UNCHANGED <<owner, expired, store, engine, history>>

\* The server is not reached, or its answer is lost.
Lose(s) ==
    /\ At(s, Kinds, {"sent", "answered", "refused"})
    /\ Go(s, "failed")
    /\ UNCHANGED <<server, store, engine, history>>

\* Faulty variant: any failure of a request ends the session.
RefusedOrFailed(s) ==
    /\ At(s, Kinds \ {"login"}, {"refused", "failed"})
    /\ Clear(s, "erasing")
    /\ UNCHANGED <<server, file, engine, last>>

\* A 401 clears the session that is stored by now, whichever it was sent under ...
Refused(s) ==
    /\ At(s, Kinds, {"refused"})
    /\ Clear(s, "erasing")
    /\ UNCHANGED <<server, file, engine, last>>

\* ... and once the file is removed, onAuthInvalidated stops the engine.
Erase(s) ==
    /\ calls[s].stage = "erasing"
    /\ file' = NoSession /\ enabled' = FALSE /\ Touch(s)
    /\ Go(s, CASE calls[s].kind \in {"sync", "quit"} -> "denied"
               [] calls[s].kind \in {"state", "logout"} -> "again"
               [] OTHER -> "end")
    /\ UNCHANGED <<server, memory, job, last>>

-----------------------------------------------------------------------------
(* Signing in and out                                                      *)

\* A handler begins, or ends and leaves `outcome` as the state of the sign-in.
Begun(s, k, stage) ==
    /\ calls' = Aged([calls EXCEPT ![s] = [NoCall EXCEPT !.kind = k, !.stage = stage]], s)
    /\ last' = 0 /\ disturbed' = FALSE
Ended(s, outcome) ==
    /\ calls' = Aged([calls EXCEPT ![s] = NoCall], s)
    /\ last' = outcome

\* login, activateInvite and the login that ends bootstrap: a request without token.
BeginLogin(s) ==
    /\ calls[s] = NoCall
    /\ Begun(s, "login", "sent")
    /\ UNCHANGED <<server, store, engine>>

Issue(s, u) ==
    /\ At(s, {"login"}, {"sent"})
    /\ \E t \in Tokens \ DOMAIN owner :
          /\ \A r \in Tokens \ DOMAIN owner : t <= r
          /\ owner' = [r \in DOMAIN owner \cup {t} |-> IF r = t THEN u ELSE owner[r]]
          /\ calls' = [calls EXCEPT ![s].stage = "answered",
                                    ![s].session = [token |-> t, user |-> u]]
    /\ UNCHANGED <<revoked, expired, store, engine, history>>

SaveLogin(s) ==
    /\ At(s, {"login"}, {"answered"})
    /\ Save(s, calls[s].session)
    /\ UNCHANGED <<server, file, engine, last>>

LoginFailed(s) ==
    /\ At(s, {"login"}, {"failed"})
    /\ Ended(s, 0)
    /\ UNCHANGED <<server, store, engine, disturbed>>

\* Faulty variant: the jobs that waited for a session go on waiting.
SignedInOnly(s) ==
    /\ At(s, {"login"}, {"end"})
    /\ enabled' = TRUE
    /\ Ended(s, calls[s].session.token) /\ Touch(s)
    /\ UNCHANGED <<server, store, job>>

\* requeueAuthBlocked.
Requeued == IF job = "blocked" THEN "ready" ELSE job

\* The handler ends: setCloudAccessEnabled(true), requeueAuthBlocked.
SignedIn(s) ==
    /\ At(s, {"login"}, {"end"})
    /\ enabled' = TRUE /\ job' = Requeued
    /\ Ended(s, calls[s].session.token) /\ Touch(s)
    /\ UNCHANGED <<server, store>>

\* auth:logout and auth:logoutAllDevices stop the engine before anything else.
BeginSignOut(s, k) ==
    /\ calls[s] = NoCall
    /\ Begun(s, k, "request")
    /\ enabled' = IF k = "device" THEN enabled ELSE FALSE
    /\ UNCHANGED <<server, store, job>>

\* logout clears in any case (finally), the others when the server has answered.
SignOut(s) ==
    /\ \/ At(s, {"logout"}, {"answered", "failed", "denied", "again"})
       \/ At(s, {"all", "device"}, {"answered"})
    /\ Clear(s, "leaving")
    /\ UNCHANGED <<server, file, engine, last>>

\* Faulty variant: the engine is not told.
SignedOutUntold(s) ==
    /\ At(s, Signs, {"leaving"})
    /\ file' = NoSession
    /\ Ended(s, Out) /\ Touch(s)
    /\ UNCHANGED <<server, memory, engine>>

SignedOut(s) ==
    /\ At(s, Signs, {"leaving"})
    /\ file' = NoSession /\ enabled' = FALSE
    /\ Ended(s, Out) /\ Touch(s)
    /\ UNCHANGED <<server, memory, job>>

\* A sign-out that failed ends with what is stored, and the engine stopped or not.
SignOutFailed(s) ==
    /\ At(s, {"all", "device"}, {"failed", "denied", "end"})
    /\ Ended(s, 0)
    /\ UNCHANGED <<server, store, engine, disturbed>>

-----------------------------------------------------------------------------
(* auth:state                                                              *)

\* The state of the window, asked for after every change of the session.
BeginState(s) ==
    /\ calls[s] = NoCall
    /\ calls' = [calls EXCEPT ![s] = [NoCall EXCEPT !.kind = "state", !.session = memory,
                                 !.stage = IF Valid(memory) THEN "request" ELSE "gateFile"]]
    /\ UNCHANGED <<server, store, engine, history>>

GateFile(s) ==
    /\ calls[s].stage = "gateFile"
    /\ LoadFile(s, IF calls[s].kind = "state" THEN "request" ELSE "take", "gate")
    /\ UNCHANGED <<server, engine, last>>

\* Nobody is signed in, as far as the file said: the engine is stopped.
StateNobody(s) ==
    /\ At(s, {"state"}, {"gate"})
    /\ enabled' = FALSE /\ Touch(s)
    /\ calls' = [calls EXCEPT ![s] = NoCall]
    /\ UNCHANGED <<server, store, job, last>>

\* me saves the user that the server named with the session that is stored by then.
Me(s) ==
    /\ At(s, {"state"}, {"answered"})
    /\ Load(s, "store", "storeFile")
    /\ UNCHANGED <<server, store, engine, history>>

MeFile(s) ==
    /\ calls[s].stage = "storeFile"
    /\ LoadFile(s, "store", "end")
    /\ UNCHANGED <<server, engine, last>>

MeSave(s) ==
    /\ calls[s].stage = "store"
    /\ Save(s, [calls[s].session EXCEPT !.user = calls[s].user])
    /\ UNCHANGED <<server, file, engine, last>>

\* A request refused clears the session again, and stops the engine.
StateRefused(s) ==
    /\ At(s, {"state"}, {"denied", "again"})
    /\ Clear(s, "leaving")
    /\ UNCHANGED <<server, file, engine, last>>

StateCleared(s) ==
    /\ At(s, {"state"}, {"leaving"})
    /\ file' = NoSession /\ enabled' = FALSE /\ Touch(s)
    /\ calls' = [calls EXCEPT ![s] = NoCall]
    /\ UNCHANGED <<server, memory, job, last>>

\* Unreachable, the window shows the stored session.
StateShown(s) ==
    /\ At(s, {"state"}, {"failed", "end"})
    /\ calls' = [calls EXCEPT ![s] = NoCall]
    /\ UNCHANGED <<server, store, engine, history>>

-----------------------------------------------------------------------------
(* The queue, the quit, the start                                          *)

Quitting == \E s \in Slots : calls[s].kind = "quit"

\* processOne, or the flush of a quit, asks canSyncCloud before it takes a job.
BeginSync(s, k) ==
    /\ calls[s] = NoCall /\ ~Quitting
    /\ enabled /\ job = "ready"
    /\ calls' = [calls EXCEPT ![s] = [NoCall EXCEPT !.kind = k, !.session = memory,
                                 !.stage = IF Valid(memory) THEN "take" ELSE "gateFile"]]
    /\ UNCHANGED <<server, store, engine, history>>

Take(s) ==
    /\ calls[s].stage = "take"
    /\ IF job = "ready" THEN job' = "work" /\ Go(s, "request") ELSE Go(s, "gate") /\ UNCHANGED job
    /\ UNCHANGED <<server, store, enabled, history>>

\* The call is over, and with a quit the application is to end.
Left(s) == calls' = [calls EXCEPT ![s] = IF calls[s].kind = "quit" THEN [@ EXCEPT !.stage = "end"]
                                         ELSE NoCall]

NotTaken(s) ==
    /\ At(s, {"sync", "quit"}, {"gate"})
    /\ Left(s)
    /\ UNCHANGED <<server, store, engine, history>>

\* The job is done and there is another, or it is to be tried again.
Worked(s) ==
    /\ At(s, {"sync", "quit"}, {"answered", "failed"})
    /\ job' = "ready" /\ Left(s)
    /\ UNCHANGED <<server, store, enabled, history>>

\* handleProcessingError: without a session the job waits for an hour.
Blocked(s) ==
    /\ At(s, {"sync", "quit"}, {"denied"})
    /\ job' = "blocked" /\ Left(s) /\ Touch(s)
    /\ UNCHANGED <<server, store, enabled, last>>

HourPasses ==
    /\ job = "blocked" /\ job' = "ready"
    /\ UNCHANGED <<server, store, enabled, calls, history>>

Expire(t) ==
    /\ t \in DOMAIN owner \ expired
    /\ expired' = expired \cup {t}
    /\ UNCHANGED <<owner, revoked, store, engine, calls, history>>

\* initialize: jobs at work or blocked are ready again, the session is the file's.
Start(saved) ==
    /\ calls' = [s \in Slots |-> NoCall]
    /\ job' = "ready"
    /\ memory' = IF Valid(saved) THEN saved ELSE NoSession
    /\ file' = memory' /\ enabled' = Valid(saved)

\* A write of the file that is under way may be done, begun or not begun.
Restart ==
    /\ \E saved \in {file} \cup UNION {{calls[s].session, NoSession} :
                                         s \in {r \in Slots : calls[r].stage = "writing"}} :
          Start(saved)
    /\ last' = IF \E r \in Slots : calls[r].kind \in Signs THEN 0 ELSE last
    /\ disturbed' = (disturbed \/ \E r \in Slots : calls[r].stage = "writing")
    /\ UNCHANGED server

\* The application ends after the flush of a quit, or crashes, and starts again.
Quit(s) == At(s, {"quit"}, {"end"}) /\ Restart
Crash == Restart

-----------------------------------------------------------------------------
SignsNext(s) ==
    \/ BeginLogin(s) \/ \E u \in Users : Issue(s, u)
    \/ SaveLogin(s) \/ LoginFailed(s) \/ SignedIn(s)
    \/ \E k \in Signs \ {"login"} : BeginSignOut(s, k)
    \/ SignOut(s) \/ SignedOut(s) \/ SignOutFailed(s)
StateNext(s) ==
    \/ BeginState(s) \/ StateNobody(s) \/ Me(s) \/ MeFile(s) \/ MeSave(s)
    \/ StateRefused(s) \/ StateCleared(s) \/ StateShown(s)
SyncNext(s) ==
    \/ \E k \in {"sync", "quit"} : BeginSync(s, k)
    \/ Take(s) \/ NotTaken(s) \/ Worked(s) \/ Blocked(s) \/ Quit(s)
RequestNext(s) ==
    \/ Write(s) \/ GateFile(s) \/ Request(s) \/ RequestFile(s)
    \/ Handle(s) \/ Lose(s) \/ Refused(s) \/ Erase(s)

Next ==
    \/ \E s \in Slots : SignsNext(s) \/ StateNext(s) \/ SyncNext(s) \/ RequestNext(s)
    \/ HourPasses \/ Crash \/ \E t \in Tokens : Expire(t)

Spec == Init /\ [][Next]_vars

-----------------------------------------------------------------------------
(* Properties                                                              *)

\* Every variable holds a value of its type.
TypeOK ==
    /\ DOMAIN owner \subseteq Tokens /\ \A t \in DOMAIN owner : owner[t] \in Users
    /\ revoked \subseteq DOMAIN owner /\ expired \subseteq DOMAIN owner
    /\ memory \in Session /\ file \in Session
    /\ enabled \in BOOLEAN /\ job \in {"ready", "work", "blocked"}
    /\ calls \in [Slots -> [kind : Kinds \cup {"none"}, stage : Stages, session : Session,
                            user : Users \cup {Nobody}, late : BOOLEAN]]
    /\ last \in Tokens \cup {0, Out} /\ disturbed \in BOOLEAN

\* What load returns, now or after a restart.
Stored == IF Valid(memory) THEN memory ELSE IF Valid(file) THEN file ELSE NoSession

\* A sign-in lasts: as long as the server accepts its token, no failure of a
\* request, no other call since and no restart loses the session or gives it to
\* another user.  Only a call from before the sign-in may do so.
SignedInNow == last \in Tokens \ (revoked \cup expired) /\ ~disturbed
LoginSticks == SignedInNow => Stored = [token |-> last, user |-> owner[last]]

\* While it lasts the engine has its access, and no job waits for a session.
SignedInSyncs == SignedInNow => enabled /\ job # "blocked"

\* A sign-out lasts: whether the server heard of it or not, neither the memory nor
\* the file has a session, after a restart either, and the engine is stopped.
SignedOutStaysOut ==
    last = Out /\ ~disturbed => memory = NoSession /\ file = NoSession /\ ~enabled
-----------------------------------------------------------------------------
(* The inductive invariant                                                 *)

Signed(t) == [token |-> t, user |-> owner[t]]

\* A sign-in loads no session: what it keeps is the one that the server has issued.
Issued(call) ==
    call.kind = "login" =>
        \/ call.stage \in {"sent", "failed"}
        \/ /\ call.stage \in {"answered", "writing", "end"}
           /\ call.session.token \in DOMAIN owner /\ call.session = Signed(call.session.token)

\* A session that is kept was issued; a request that was sent has one, and the server has
\* named the user to whom its answer is saved.
Real(session) == session # NoSession => session.token \in DOMAIN owner
Loaded(call) ==
    /\ Real(call.session)
    /\ \/ call.kind # "login" /\ call.stage = "sent"
       \/ call.stage = "store"
       => call.session # NoSession
    /\ \/ call.kind # "login" /\ call.stage = "answered"
       \/ call.stage \in {"store", "storeFile"}
       => call.user \in Users

\* What a sign-in or a sign-out has stored, as far as it has got.
Stores(call) ==
    ~call.late =>
        /\ call.kind = "login" /\ call.stage \in {"writing", "end"} => memory = call.session
        /\ call.kind = "login" /\ call.stage = "end" => file = call.session
        /\ call.kind \in Signs /\ call.stage = "leaving" => memory = NoSession

\* A call that began under the sign-in has its session, and was not refused it.
Under(call) ==
    call.kind # "none" /\ ~call.late =>
        /\ call.session = Signed(last)
        /\ \/ call.stage \in {"request", "sent", "answered", "failed"}
           \/ call.kind = "state" /\ call.stage \in {"store", "writing", "end"}
           \/ call.kind \in {"sync", "quit"} /\ call.stage \in {"take", "gate"}
           \/ call.kind = "quit" /\ call.stage = "end"
        /\ call.kind = "state" /\ call.stage \in {"answered", "store"} => call.user = owner[last]

\* A call that began after the sign-out asks for a session, and finds none.
Outside(call) ==
    call.kind # "none" /\ ~call.late => call.kind = "state" /\ call.stage \in {"gateFile", "gate"}

\* No sign-in or sign-out has begun since the last one ended.
LastOK ==
    /\ last # 0 => \A s \in Slots : calls[s].kind \in Signs => calls[s].late
    /\ last \in Tokens => last \in DOMAIN owner

InOK ==
    SignedInNow =>
        /\ memory = Signed(last) /\ file = Signed(last) /\ enabled /\ job # "blocked"
        /\ \A s \in Slots : Under(calls[s])

OutOK ==
    last = Out /\ ~disturbed =>
        memory = NoSession /\ file = NoSession /\ ~enabled /\ \A s \in Slots : Outside(calls[s])

IInv ==
    /\ TypeOK /\ LastOK /\ InOK /\ OutOK
    /\ Real(memory) /\ Real(file)
    /\ \A s \in Slots : /\ calls[s].kind = "none" => calls[s] = NoCall
                        /\ Issued(calls[s]) /\ Loaded(calls[s])
                        /\ ~disturbed => Stores(calls[s])
=============================================================================
