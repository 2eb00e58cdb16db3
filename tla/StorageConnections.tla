------------------------- MODULE StorageConnections -------------------------
(***************************************************************************)
(* The storage connections of an organization: the Telegram bots and the   *)
(* chats in which the Worker keeps file versions.  The administrators'     *)
(* handlers are in worker/src/enterprise.ts (connections, pairing, health, *)
(* the default of a workspace) and in worker/src/index.ts (the pairing of  *)
(* the bot of 1.2, and the repair of versions whose row is missing); they  *)
(* reach a connection through worker/src/storage-router.ts.                *)
(*                                                                         *)
(* A handler's statements and its calls of Telegram are steps; statements  *)
(* between which nothing that another step changes is read or written are  *)
(* taken together.  Telegram names a file by an identifier that is of use  *)
(* to one bot: to another it names nothing, or another file.               *)
(***************************************************************************)
EXTENDS Integers, Sequences, FiniteSets, SequencesExt

CONSTANTS
    Admins, Workspaces, Files, Hashes, Null,
    WorkspaceOf,    \* WorkspaceOf[f]: the workspace of a file
    Conns,      \* bound: the connections there may be
    Legacy,     \* the connection made from the configuration of 1.2
    Bots,
    EnvBot,     \* the bot of TELEGRAM_BOT_TOKEN
    Chats,
    Private,    \* chats with one person
    Slots,      \* bound: requests under way at a time
    Scenes      \* each bounds a behaviour: what is asked of the Worker, the requests,
                \* the messages sent to a bot, and the versions of a file

Ops == {"create", "rotate", "pair", "disable", "health", "workspace", "repair", "commit"}

ASSUME StorageAssumption ==
    /\ IsFiniteSet(Conns)
    /\ Legacy \in Conns /\ EnvBot \in Bots /\ Private \subseteq Chats
    /\ WorkspaceOf \in [Files -> Workspaces]
    /\ Null \notin Conns \cup Bots \cup Chats \cup Hashes \cup Files
    /\ Scenes \subseteq [ops : SUBSET Ops, calls : Nat, messages : Nat, versions : Nat]

VARIABLES
    scene, left,    \* the scene, and the requests it still has
    status,         \* workspaces.status
    default,        \* workspaces.default_storage_connection_id
    conns,          \* storage_connections
    pairs,          \* the pairings begun, in app_settings
    issued,         \* of each code, the key it was issued for
    sent,           \* the "/start" messages that a bot was sent, oldest first
    held,           \* what an identifier names for a bot
    files,          \* files: the version, its identifier and hash, the home connection
    rows,           \* file_versions
    calls,          \* the requests under way
    had,            \* history: the bots of a connection
    written         \* history: what each version of a file was written with

database == <<status, default, conns, pairs, issued>>
telegram == <<sent, held>>
versions == <<files, rows, written>>
vars == <<left, database, telegram, versions, calls, had>>

\* app_settings: storage_pair:<connection>:<user>, and telegram_pair:<user>.
Keys == [conn : Conns \cup {Null}, by : Admins]
Codes == 1..Len(issued)
NoConn == [status |-> "none", bot |-> Null, chat |-> Null]
NoPair == [code |-> 0, fresh |-> FALSE]

\* What a handler remembers: the connection and the workspace it is about, the bot whose
\* token it has, the code and the chat; the connections that are to be checked or
\* tried; the file to be repaired as it was read, and where its content was found.
Idle == [op |-> "none", at |-> "idle", key |-> [conn |-> Null, by |-> Null], ws |-> Null,
         bot |-> Null, code |-> 0, chat |-> Null, todo |-> <<>>, file |-> Null,
         version |-> 0, id |-> 0, hash |-> Null, found |-> Null]

Is(c, op, at) == calls[c].op = op /\ calls[c].at = at
To(c, call) == calls' = [calls EXCEPT ![c] = call]
Finish(c) == To(c, Idle)
Begin(c, op) == calls[c] = Idle /\ op \in scene.ops /\ left > 0 /\ left' = left - 1

Enabled(k) == conns[k].status \notin {"none", "DISABLED"}
\* resolveConnection, and resolveConnectionForCredentialCheck, which needs no chat.
Resolves(k) == Enabled(k) /\ conns[k].chat # Null

\* In any order: the connections that are not disabled, oldest first.
Listed == {s \in SetToSeqs({k \in Conns : Enabled(k)}) :
              \A i \in DOMAIN s : s[i] = Legacy => i = 1}

\* A file of 1.2 whose current version has no row; its content is with the bot of
\* the legacy connection, which was the only one.
FileOf(v, i, h, k) == [version |-> v, id |-> i, hash |-> h, home |-> k]
RowOf(f, v, i, h, k) == [file |-> f, version |-> v, id |-> i, hash |-> h, conn |-> k,
                         repaired |-> FALSE]
Init ==
    /\ scene \in Scenes /\ left = scene.calls
    /\ status = [w \in Workspaces |-> "ACTIVE"]
    /\ default = [w \in Workspaces |-> Legacy]
    /\ conns \in [Conns -> {NoConn} \cup [status : {"ACTIVE"}, bot : Bots, chat : Chats]
                                  \cup [status : {"DEGRADED"}, bot : Bots, chat : {Null}]]
    /\ conns[Legacy] # NoConn /\ conns[Legacy].bot = EnvBot
    /\ conns[Legacy].chat \in Private \cup {Null}
    /\ \A k \in Conns \ {Legacy} : "pair" \in scene.ops => conns[k] = NoConn
    /\ pairs = [k \in Keys |-> NoPair] /\ issued = <<>>
    /\ sent = [b \in Bots |-> <<>>]
    /\ \E h \in Hashes, other \in [Bots \ {EnvBot} -> Hashes \cup {Null}] :
          /\ "repair" \notin scene.ops => other = [b \in Bots \ {EnvBot} |-> Null]
          /\ held = [b \in Bots |-> <<IF b = EnvBot THEN h ELSE other[b]>>]
          /\ files = [f \in Files |-> FileOf(1, 1, h, Null)]
          /\ written = [f \in Files |-> <<h>>]
    /\ rows = {}
    /\ calls = [c \in Slots |-> Idle]
    /\ had = [k \in Conns |-> {conns[k].bot} \ {Null}]

-----------------------------------------------------------------------------
(* Connections                                                             *)

\* handleStorageCreate, with the token of a bot.
Create(c, k, b) ==
    /\ Begin(c, "create")
    /\ conns[k] = NoConn
    /\ conns' = [conns EXCEPT ![k] = [status |-> "DEGRADED", bot |-> b, chat |-> Null]]
    /\ had' = [had EXCEPT ![k] = @ \cup {b}]
    /\ UNCHANGED <<status, default, pairs, issued, telegram, versions, calls>>

\* handleStorageRotateToken: the chat stays, also with the token of another bot, and
\* a connection that was disabled is in use again.
\* Faulty variant: with a token that was accepted a connection is active.
RotatedActive(k, b) == [conns[k] EXCEPT !.bot = b, !.status = "ACTIVE"]
Rotated(k, b) ==
    [conns[k] EXCEPT !.bot = b, !.status = IF conns[k].chat = Null THEN "DEGRADED" ELSE "ACTIVE"]
RotateToken(c, k, b) ==
    /\ Begin(c, "rotate")
    /\ conns[k] # NoConn
    /\ conns' = [conns EXCEPT ![k] = Rotated(k, b)]
    /\ had' = [had EXCEPT ![k] = @ \cup {b}]
    /\ UNCHANGED <<status, default, pairs, issued, telegram, versions, calls>>

\* handleStorageDisable: the active workspaces that write to the connection are
\* counted, then it is disabled.
Disable(c, k) ==
    /\ Begin(c, "disable")
    /\ ~\E w \in Workspaces : status[w] = "ACTIVE" /\ default[w] = k
    /\ To(c, [Idle EXCEPT !.op = "disable", !.at = "write", !.key.conn = k])
    /\ UNCHANGED <<database, telegram, versions, had>>
DisableWrite(c) ==
    /\ Is(c, "disable", "write") /\ Finish(c)
    /\ conns' = [conns EXCEPT ![calls[c].key.conn].status = IF @ = "none" THEN @ ELSE "DISABLED"]
    /\ UNCHANGED <<left, status, default, pairs, issued, telegram, versions, had>>

\* handleWorkspaceStorage.
SetStorage(c, w, k) ==
    /\ Begin(c, "workspace")
    /\ status[w] = "ACTIVE" /\ Enabled(k)
    /\ To(c, [Idle EXCEPT !.op = "workspace", !.at = "write", !.ws = w, !.key.conn = k])
    /\ UNCHANGED <<database, telegram, versions, had>>
SetStorageWrite(c) ==
    /\ Is(c, "workspace", "write") /\ Finish(c)
    /\ default' = [default EXCEPT ![calls[c].ws] = calls[c].key.conn]
    /\ UNCHANGED <<left, status, conns, pairs, issued, telegram, versions, had>>

\* handleWorkspaceArchive (see module Access).
Archive(w) ==
    /\ "workspace" \in scene.ops
    /\ status[w] = "ACTIVE" /\ \E v \in Workspaces \ {w} : status[v] = "ACTIVE"
    /\ status' = [status EXCEPT ![w] = "ARCHIVED"]
    /\ UNCHANGED <<left, default, conns, pairs, issued, telegram, versions, calls, had>>

\* handleStorageHealth: those that were not disabled when they were listed are
\* checked one after the other.
Health(c) ==
    /\ Begin(c, "health")
    /\ \E list \in Listed :
          To(c, IF list = <<>> THEN Idle
                ELSE [Idle EXCEPT !.op = "health", !.at = "check", !.todo = list])
    /\ UNCHANGED <<database, telegram, versions, had>>

\* One that does not resolve any more is at fault, also if it was disabled since.
\* Faulty variant: the connection is asked for as it was listed.
HealthCheckAll(c) ==
    /\ Is(c, "health", "check")
    /\ To(c, [calls[c] EXCEPT !.at = "reached"])
    /\ UNCHANGED <<left, database, telegram, versions, had>>
HealthCheck(c) ==
    /\ Is(c, "health", "check")
    /\ To(c, [calls[c] EXCEPT !.at = IF Resolves(Head(calls[c].todo)) THEN "reached" ELSE "failed"])
    /\ UNCHANGED <<left, database, telegram, versions, had>>

\* What Telegram's answer, or its failure, is recorded as, whatever became of it.
HealthWrite(c) ==
    /\ calls[c].op = "health" /\ calls[c].at \in {"reached", "failed"}
    /\ LET k == Head(calls[c].todo)
           rest == Tail(calls[c].todo)
       IN  /\ \E s \in {"ACTIVE", "DEGRADED"} :
                 /\ s = "ACTIVE" => calls[c].at = "reached"
                 /\ conns' = [conns EXCEPT ![k].status = s]
           /\ To(c, IF rest = <<>> THEN Idle ELSE [calls[c] EXCEPT !.at = "check", !.todo = rest])
    /\ UNCHANGED <<left, status, default, pairs, issued, telegram, versions, had>>

-----------------------------------------------------------------------------
(* Pairing: the chat of a connection is the one from which a code was sent *)

Target(key) == IF key.conn = Null THEN Legacy ELSE key.conn

\* handleStoragePairStart, and handlePairStart of index.ts.
PairStart(c, key) ==
    /\ Begin(c, "pair")
    /\ key.conn # Null => Enabled(key.conn)
    /\ issued' = Append(issued, key)
    /\ pairs' = [pairs EXCEPT ![key] = [code |-> Len(issued'), fresh |-> TRUE]]
    /\ UNCHANGED <<status, default, conns, telegram, versions, calls, had>>

\* Somebody who was given the code sends it to a bot.
SendCode(b, code, chat) ==
    /\ Cardinality(UNION {{a} \X DOMAIN sent[a] : a \in Bots}) < scene.messages
    /\ sent' = [sent EXCEPT ![b] = Append(@, [code |-> code, chat |-> chat])]
    /\ UNCHANGED <<left, database, held, versions, calls, had>>

\* Ten minutes pass.  (Telegram forgets a message in time, which leaves what would be
\* had it not been sent, or had the later requests that miss it not been made.)
PairExpires(key) ==
    /\ pairs[key].fresh
    /\ pairs' = [pairs EXCEPT ![key].fresh = FALSE]
    /\ UNCHANGED <<left, status, default, conns, issued, telegram, versions, calls, had>>

\* handleStoragePairConfirm, and handlePairConfirm of index.ts: the token, the
\* pairing, the messages, the write.
PairConfirm(c, key) ==
    /\ Begin(c, "pair")
    /\ key.conn # Null => Enabled(key.conn)
    /\ To(c, [Idle EXCEPT !.op = "pair", !.at = "pair", !.key = key,
                          !.bot = IF key.conn = Null THEN EnvBot ELSE conns[key.conn].bot])
    /\ UNCHANGED <<database, telegram, versions, had>>

PairRead(c) ==
    /\ Is(c, "pair", "pair")
    /\ LET pair == pairs[calls[c].key]
       IN  To(c, IF pair.code = 0 \/ ~pair.fresh THEN Idle
                 ELSE [calls[c] EXCEPT !.at = "updates", !.code = pair.code])
    /\ UNCHANGED <<left, database, telegram, versions, had>>

\* The newest message with the code; the bot of 1.2 is paired in a private chat.
\* Faulty variant: the newest one, with whichever code.
MatchesAny(c) == DOMAIN sent[calls[c].bot]
Matches(c) ==
    LET call == calls[c]
    IN  {i \in DOMAIN sent[call.bot] :
            /\ sent[call.bot][i].code = call.code
            /\ call.key.conn = Null => sent[call.bot][i].chat \in Private}
PairMatch(c) ==
    /\ Is(c, "pair", "updates")
    /\ To(c, IF Matches(c) = {} THEN Idle
             ELSE [calls[c] EXCEPT !.at = "write",
                                   !.chat = sent[calls[c].bot][Max(Matches(c))].chat])
    /\ UNCHANGED <<left, database, telegram, versions, had>>

\* The pairing that goes is the one there is by now, begun anew or not.
PairWrite(c) ==
    /\ Is(c, "pair", "write") /\ Finish(c)
    /\ conns' = [conns EXCEPT ![Target(calls[c].key)].status = "ACTIVE",
                              ![Target(calls[c].key)].chat = calls[c].chat]
    /\ pairs' = [pairs EXCEPT ![calls[c].key] = NoPair]
    /\ UNCHANGED <<left, status, default, issued, telegram, versions, had>>

-----------------------------------------------------------------------------
(* Versions and their repair                                               *)

\* commitUploadedIntent and what else writes a version (see module CloudVersions).
Commit(f, h, k) ==
    /\ "commit" \in scene.ops
    /\ files[f].version < scene.versions /\ h # files[f].hash
    /\ Resolves(k)
    /\ LET id == Len(held[conns[k].bot]) + 1
           v == files[f].version + 1
       IN  /\ held' = [held EXCEPT ![conns[k].bot] = Append(@, h)]
           /\ files' = [files EXCEPT ![f] = FileOf(v, id, h, @.home)]
           /\ rows' = rows \cup {RowOf(f, v, id, h, k)}
           /\ written' = [written EXCEPT ![f] = Append(@, h)]
    /\ UNCHANGED <<left, database, sent, calls, had>>

HasRow(f, v) == \E r \in rows : r.file = f /\ r.version = v

\* handleVersionIntegrityRepair of a file whose current version has no row: the file,
\* and the connections that are worth a try.
IfAny(k) == IF k = Null THEN <<>> ELSE <<k>>
Candidates(f, list) ==
    IfAny(files[f].home) \o IfAny(default[WorkspaceOf[f]]) \o <<Legacy>> \o list
Repair(c, f) ==
    /\ Begin(c, "repair")
    /\ ~HasRow(f, files[f].version)
    /\ \E list \in Listed :
          To(c, [Idle EXCEPT !.op = "repair", !.at = "try", !.file = f,
                    !.version = files[f].version, !.id = files[f].id, !.hash = files[f].hash,
                    !.todo = Candidates(f, list)])
    /\ UNCHANGED <<database, telegram, versions, had>>

\* A connection is tried: it resolves, and its bot has the content under the identifier.
Has(b, id) == IF id \in DOMAIN held[b] THEN held[b][id] ELSE Null
\* Faulty variant: what the bot has is taken for the content.
FoundAny(call, k) == Resolves(k) /\ Has(conns[k].bot, call.id) # Null
Found(call, k) == Resolves(k) /\ Has(conns[k].bot, call.id) = call.hash
RepairTry(c) ==
    /\ Is(c, "repair", "try")
    /\ LET call == calls[c]
       IN  To(c, IF call.todo = <<>> THEN Idle
                 ELSE IF Found(call, Head(call.todo))
                 THEN [call EXCEPT !.at = "write", !.found = Head(call.todo), !.todo = <<>>]
                 ELSE [call EXCEPT !.todo = Tail(@)])
    /\ UNCHANGED <<left, database, telegram, versions, had>>

\* The row is written with the version that was read, unless there is one by now.
RepairWrite(c) ==
    /\ Is(c, "repair", "write") /\ Finish(c)
    /\ LET call == calls[c]
           row == RowOf(call.file, call.version, call.id, call.hash, call.found)
       IN  rows' = IF HasRow(row.file, row.version) THEN rows
                   ELSE rows \cup {[row EXCEPT !.repaired = TRUE]}
    /\ UNCHANGED <<left, database, telegram, files, written, had>>

-----------------------------------------------------------------------------
Administer(c) ==
    \/ \E k \in Conns : \/ \E b \in Bots : Create(c, k, b) \/ RotateToken(c, k, b)
                        \/ Disable(c, k)
                        \/ \E w \in Workspaces : SetStorage(c, w, k)
    \/ DisableWrite(c) \/ SetStorageWrite(c)
    \/ Health(c) \/ HealthCheck(c) \/ HealthWrite(c)
Pairing(c) ==
    \/ \E key \in Keys : PairStart(c, key) \/ PairConfirm(c, key)
    \/ PairRead(c) \/ PairMatch(c) \/ PairWrite(c)
Repairing(c) == (\E f \in Files : Repair(c, f)) \/ RepairTry(c) \/ RepairWrite(c)
World ==
    \/ \E w \in Workspaces : Archive(w)
    \/ \E b \in Bots, code \in Codes, chat \in Chats : SendCode(b, code, chat)
    \/ \E key \in Keys : PairExpires(key)
    \/ \E f \in Files, h \in Hashes, k \in Conns : Commit(f, h, k)

Next == World \/ \E c \in Slots : Administer(c) \/ Pairing(c) \/ Repairing(c)
Spec == Init /\ [][Next /\ UNCHANGED scene]_<<scene, vars>>

-----------------------------------------------------------------------------
(* Properties                                                              *)

\* Every variable holds a value of its type.
ConnRow == [status : {"ACTIVE", "DEGRADED", "DISABLED"}, bot : Bots, chat : Chats \cup {Null}]
FileRow == [version : Nat, id : Nat, hash : Hashes, home : Conns \cup {Null}]
VersionRow == [file : Files, version : Nat, id : Nat, hash : Hashes, conn : Conns,
               repaired : BOOLEAN]
Call == [op : Ops \cup {"none"}, at : {"idle", "write", "check", "reached", "failed", "pair",
                                        "updates", "try"},
         key : [conn : Conns \cup {Null}, by : Admins \cup {Null}],
         ws : Workspaces \cup {Null}, bot : Bots \cup {Null}, code : Nat,
         chat : Chats \cup {Null}, todo : Seq(Conns), file : Files \cup {Null}, version : Nat,
         id : Nat, hash : Hashes \cup {Null}, found : Conns \cup {Null}]
TypeOK ==
    /\ scene \in Scenes /\ left \in Nat
    /\ status \in [Workspaces -> {"ACTIVE", "ARCHIVED"}]
    /\ default \in [Workspaces -> Conns]
    /\ conns \in [Conns -> {NoConn} \cup ConnRow] /\ had \in [Conns -> SUBSET Bots]
    /\ issued \in Seq(Keys)
    /\ pairs \in [Keys -> [code : Codes \cup {0}, fresh : BOOLEAN]]
    /\ sent \in [Bots -> Seq([code : Codes, chat : Chats])]
    /\ held \in [Bots -> Seq(Hashes \cup {Null})]
    /\ files \in [Files -> FileRow] /\ written \in [Files -> Seq(Hashes)]
    /\ rows \subseteq VersionRow
    /\ calls \in [Slots -> Call]

\* A connection shown as active has a chat that the Worker can write to: none of the
\* handlers that set it active does so for one that was never paired.
ActiveIsPaired == \A k \in Conns : conns[k].status = "ACTIVE" => conns[k].chat # Null

\* An organization's files go to no chat that nobody chose for them: when a
\* connection gets another chat, somebody has sent from there a code that an
\* administrator was issued for this connection, whoever else is pairing what.
ChatIsPaired ==
    [][\A k \in Conns : conns'[k].chat # conns[k].chat =>
          \E b \in Bots : \E i \in DOMAIN sent[b] :
             /\ sent[b][i].chat = conns'[k].chat
             /\ Target(issued[sent[b][i].code]) = k]_vars

\* A repaired version has the content that the version was written with, whatever was
\* committed since the file was read, and names a connection whose bot, now or before
\* its token was changed, has that content under the identifier.
RepairTellsTheTruth ==
    \A r \in rows : r.repaired =>
        /\ r.hash = written[r.file][r.version]
        /\ \E b \in had[r.conn] : Has(b, r.id) = r.hash

-----------------------------------------------------------------------------
(* The inductive invariant                                                 *)

Exists(k) == conns[k] # NoConn
PairedWith(k) == conns[k].chat # Null

\* The connection of 1.2 is never taken away, and the bot of a connection was given to it.
ConnsOK ==
    /\ Exists(Legacy)
    /\ \A k \in Conns : Exists(k) => conns[k].bot \in had[k]

\* A pairing has the code that was last issued for its key.
PairsOK == \A key \in Keys : pairs[key].code # 0 => issued[pairs[key].code] = key

\* The current version of a file is the last that was written.
FilesOK ==
    \A f \in Files : /\ files[f].version = Len(written[f]) /\ files[f].version > 0
                      /\ files[f].hash = written[f][files[f].version]

\* The chat came in a message with the code that was issued for the key.
CameWith(chat, code, key) ==
    /\ code \in Codes /\ issued[code] = key
    /\ \E b \in Bots : \E i \in DOMAIN sent[b] : sent[b][i] = [code |-> code, chat |-> chat]

\* What a request remembers is of use, whatever became of the connections since.
HealthOK(call) ==
    call.op = "health" =>
        /\ call.todo # <<>> /\ \A i \in DOMAIN call.todo : Exists(call.todo[i])
        /\ call.at = "reached" => PairedWith(Head(call.todo))
PairingOK(call) ==
    call.op = "pair" =>
        /\ call.key \in Keys /\ Exists(Target(call.key)) /\ call.bot \in Bots
        /\ call.at = "updates" => call.code \in Codes /\ issued[call.code] = call.key
        /\ call.at = "write" => CameWith(call.chat, call.code, call.key)
RepairingOK(call) ==
    call.op = "repair" =>
        /\ call.file \in Files /\ call.version \in 1..Len(written[call.file])
        /\ call.hash = written[call.file][call.version]
        /\ call.at = "write" =>
               call.found \in Conns /\ \E b \in had[call.found] : Has(b, call.id) = call.hash
SettingOK(call) ==
    call.op \in {"disable", "workspace"} =>
        call.key.conn \in Conns /\ (call.op = "workspace" => call.ws \in Workspaces)
CallOK(call) == HealthOK(call) /\ PairingOK(call) /\ RepairingOK(call) /\ SettingOK(call)

IInv ==
    /\ TypeOK /\ ConnsOK /\ ActiveIsPaired /\ PairsOK /\ FilesOK /\ RepairTellsTheTruth
    /\ \A r \in rows : r.version \in 1..Len(written[r.file])
    /\ \A c \in Slots : CallOK(calls[c])
=============================================================================
