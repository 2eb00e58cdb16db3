--------------------------- MODULE TelegramBridge ---------------------------
(***************************************************************************)
(* The Telegram user storage of the desktop client: TelegramUserStorage-   *)
(* Provider (src/main/telegram-user-storage.ts), which runs the bridge as  *)
(* a child process and calls it over HTTP, the bridge itself               *)
(* (scripts/telegram-storage-bridge.py), and of Telegram the user's        *)
(* authorizations and the group that bears the name "ai".                  *)
(*                                                                         *)
(* The provider's functions run undisturbed to their next await: the exit  *)
(* of a bridge, the start of one, which all of them share, or the answer   *)
(* of a call, which the bridge computes at a moment of its own.  A bridge  *)
(* has its requests and its authorization_watch_loop interleaved likewise. *)
(* Phone numbers, and the session file of an older release, are left out:  *)
(* AUTH_FAILED stands for UNAUTHORIZED too.                                *)
(***************************************************************************)
EXTENDS Integers, FiniteSets

CONSTANTS
    Slots,      \* bound: functions of the provider under way at a time
    Bridges,    \* bound: bridge processes alive at a time
    Chats,      \* Telegram groups
    Nothing,    \* no group
    Scenes      \* each bounds a behaviour: what the application asks of the provider and
                \* what happens around it, and the authorizations that Telegram grants

NoBridge == "none"
ASSUME NamesAssumption == Nothing \notin Chats /\ NoBridge \notin Bridges
BridgeKinds == {"status", "begin", "code", "transfer", "reauthorize", "restart"}
\* A bridge ends by itself, a call fails, the user ends an authorization from another
\* device, another group is named "ai".
Happens == {"crash", "failure", "revoke", "rename"}
ASSUME SceneAssumption ==
    Scenes \subseteq [world : SUBSET (BridgeKinds \cup Happens), keys : Nat \ {0}]

VARIABLES
    asked,      \* the scene, which stays
    granted,    \* authorizations that Telegram has granted so far
    revoked,    \* those that the user has ended elsewhere
    named,      \* the group whose title is "ai"
    config,     \* TelegramUserStorageConfig: the session and the group
    state,      \* the provider's state
    child,      \* the provider's child, its port known or not
    boot,       \* startInternal, whose promise is `starting`
    bridges,    \* the bridge processes
    slots       \* the provider's functions under way

telegram == <<granted, revoked, named>>
provider == <<config, state, child, boot>>
bridgeVars == <<telegram, provider, bridges, slots>>

World == asked.world
Keys == 1..asked.keys
NoConfig == [set |-> FALSE, key |-> 0, chat |-> Nothing]
Unauthorized == [NoConfig EXCEPT !.set = TRUE]
Config == [set : BOOLEAN, key : Keys \cup {0}, chat : Chats \cup {Nothing}]
States == {"UNCONFIGURED", "AUTH_FAILED", "WAITING_CODE", "WAITING_2FA", "RESOLVING_GROUP",
           "CONNECTED", "SYNCING", "ERROR"}

\* What a function does next or waits for: stop, an exit; start, the end of the
\* start; a call, the bridge, its answer; or it has failed, to start or in a call.
Stages == {"idle", "stop", "exit", "start", "wait", "call", "sent", "answer", "unstarted",
           "broken"}
Paths == {"none", "health", "auth/start", "auth/code", "auth/password", "session/export",
          "group/resolve", "transfer"}
Answers == {"none", "yes", "no", "password"}
Idle == [kind |-> "none", stage |-> "idle", path |-> "none", bridge |-> NoBridge,
         snap |-> NoConfig, chat |-> Nothing, key |-> 0, got |-> "none"]
SlotRecord == [kind : BridgeKinds \cup {"none"}, stage : Stages, path : Paths,
               bridge : Bridges \cup {NoBridge}, snap : Config, chat : Chats \cup {Nothing},
               key : Keys \cup {0}, got : Answers]

\* A process: starting up, up, asked to shut down or killed, or gone.
NoProcess == [life |-> "gone", key |-> 0, cached |-> FALSE, chat |-> Nothing, code |-> FALSE,
         watch |-> "idle"]
Lives == {"starting", "up", "closing", "gone"}
BridgeRecord == [life : Lives, key : Keys \cup {0}, cached : BOOLEAN, chat : Chats \cup {Nothing},
                 code : BOOLEAN, watch : {"idle", "known", "lost"}]
NoBoot == [stage |-> "idle", snap |-> NoConfig, bridge |-> NoBridge]
NoChild == [bridge |-> NoBridge, port |-> FALSE]

\* What initialize finds or configures: a session of an earlier run of the
\* application, with its group or none; credentials alone; or no credentials.
RememberedConfig == [set : {TRUE}, key : {1}, chat : Chats \cup {Nothing}]
Configured == {NoConfig, Unauthorized} \cup RememberedConfig

BridgeInit ==
    /\ asked \in Scenes
    /\ config \in Configured /\ state = "UNCONFIGURED"
    /\ granted = config.key /\ revoked = {} /\ named \in Chats
    /\ child = NoChild
    /\ boot = NoBoot
    /\ bridges = [b \in Bridges |-> NoProcess]
    /\ slots = [s \in Slots |-> Idle]

SlotAt(s, kinds, stages) == slots[s].kind \in kinds /\ slots[s].stage \in stages
Go(s, stage) == slots' = [slots EXCEPT ![s].stage = stage]
End(s) == slots' = [slots EXCEPT ![s] = Idle]

Running == child.bridge # NoBridge /\ child.port
Up(b) == b \in Bridges /\ bridges[b].life = "up"
\* Telegram accepts the authorization of the bridge.
Authorized(b) == bridges[b].key # 0 /\ bridges[b].key \notin revoked

-----------------------------------------------------------------------------
(* The child process                                                       *)

\* start: what is running will do, and a start under way is shared.
\* Faulty variant: each caller starts a bridge of its own.
StartAgain(s) ==
    /\ slots[s].stage = "start"
    /\ Go(s, IF Running THEN "call" ELSE "wait")
    /\ boot' = IF Running \/ boot.stage \notin {"idle", "ready"} THEN boot
               ELSE [NoBoot EXCEPT !.stage = "launch", !.snap = config]
    /\ UNCHANGED <<telegram, config, state, child, bridges>>
Start(s) ==
    /\ slots[s].stage = "start"
    /\ Go(s, IF Running THEN "call" ELSE "wait")
    /\ boot' = IF Running \/ boot # NoBoot THEN boot
               ELSE [NoBoot EXCEPT !.stage = "launch", !.snap = config]
    /\ UNCHANGED <<telegram, config, state, child, bridges>>

\* The promise of the start is settled for all who wait for it.
Settled(ss, stage) ==
    [s \in Slots |-> IF ss[s].stage = "wait" THEN [ss[s] EXCEPT !.stage = stage] ELSE ss[s]]

\* startInternal ends without a configuration ...
NotConfigured ==
    /\ boot.stage = "launch" /\ ~boot.snap.set
    /\ boot' = NoBoot /\ state' = "UNCONFIGURED"
    /\ slots' = Settled(slots, "unstarted")
    /\ UNCHANGED <<telegram, config, child, bridges>>

\* ... or spawns a bridge with the one it has loaded.
Named(b) == child.bridge = b \/ boot.bridge = b \/ \E s \in Slots : slots[s].bridge = b
Spawn(b) ==
    /\ boot.stage = "launch" /\ boot.snap.set
    /\ bridges[b] = NoProcess /\ ~Named(b)
    /\ bridges' = [bridges EXCEPT ![b] =
                     [NoProcess EXCEPT !.life = "starting", !.key = boot.snap.key,
                                       !.cached = boot.snap.key # 0, !.chat = boot.snap.chat]]
    /\ child' = [bridge |-> b, port |-> FALSE]
    /\ boot' = [boot EXCEPT !.stage = "ready", !.bridge = b]
    /\ UNCHANGED <<telegram, config, state, slots>>

\* READY and its port.
Ready(b) ==
    /\ boot.stage = "ready" /\ boot.bridge = b /\ bridges[b].life = "starting"
    /\ bridges' = [bridges EXCEPT ![b].life = "up"]
    /\ child' = [child EXCEPT !.port = child.bridge # NoBridge]
    /\ boot' = [boot EXCEPT !.stage = "health"]
    /\ UNCHANGED <<telegram, config, state, slots>>

Killed(b) == [bridges EXCEPT ![b].life = "closing", ![b].watch = "idle"]

\* The bridge was killed or ended before it was ready, or 12 seconds are over.
StartFailed ==
    /\ boot.stage = "ready"
    /\ bridges[boot.bridge].life = "starting" => "failure" \in World
    /\ child' = NoChild /\ boot' = NoBoot /\ state' = "ERROR"
    /\ slots' = Settled(slots, "unstarted")
    /\ bridges' = IF bridges[boot.bridge] = NoProcess THEN bridges ELSE Killed(boot.bridge)
    /\ UNCHANGED <<telegram, config>>

\* The health of the new bridge ends the start.
Started ==
    /\ boot.stage = "health" /\ boot' = NoBoot
    /\ \/ /\ Running /\ Up(child.bridge)
          /\ LET b == bridges[child.bridge]
             IN  state' = IF ~b.cached THEN "AUTH_FAILED"
                          ELSE IF b.chat = Nothing THEN "RESOLVING_GROUP" ELSE "CONNECTED"
          /\ slots' = Settled(slots, "call")
       \/ /\ ~(Running /\ Up(child.bridge))
          /\ state' = "ERROR" /\ slots' = Settled(slots, "unstarted")
    /\ UNCHANGED <<telegram, config, child, bridges>>

\* stop: the child is asked to shut down, and waited for.
\* (One whose port is not known yet is only waited for.)
Stop(s) ==
    /\ slots[s].stage = "stop"
    /\ slots' = [slots EXCEPT ![s].stage = "exit", ![s].bridge = child.bridge]
    /\ bridges' = IF Running /\ Up(child.bridge) THEN Killed(child.bridge) ELSE bridges
    /\ UNCHANGED <<telegram, provider>>

\* A process ends, by itself or because it was told to.  The handler of the exit
\* forgets the child, unless it has been replaced or was not ready.
Exit(b) ==
    /\ bridges[b].life \in {"closing"} \cup (IF "crash" \in World THEN {"starting", "up"} ELSE {})
    /\ bridges' = [bridges EXCEPT ![b] = NoProcess]
    /\ IF child.bridge = b /\ boot.stage # "ready"
       THEN child' = NoChild /\ state' = IF state = "UNCONFIGURED" THEN state ELSE "ERROR"
       ELSE UNCHANGED <<child, state>>
    /\ UNCHANGED <<telegram, config, boot, slots>>

\* What a function does after its stop.  What it saves is what it had loaded before.
Then(s) ==
    LET k == slots[s].kind
        old == slots[s].snap
    IN  CASE k = "begin" ->
               /\ slots' = [slots EXCEPT ![s] = [Idle EXCEPT !.kind = k, !.stage = "start",
                                                              !.path = "auth/start"]]
               /\ UNCHANGED <<config, state>>
          [] k = "restart" ->
               /\ config' = [old EXCEPT !.key = 0, !.chat = Nothing]
               /\ slots' = [slots EXCEPT ![s] = [Idle EXCEPT !.kind = "begin", !.stage = "stop"]]
               /\ UNCHANGED state
          [] k = "reauthorize" ->
               /\ config' = [config EXCEPT !.key = 0, !.chat = Nothing]
               /\ state' = "AUTH_FAILED" /\ End(s)

\* The exit is there, or after 2.5 seconds the child is killed.
Stopped(s) ==
    /\ slots[s].stage = "exit"
    /\ LET b == slots[s].bridge
       IN  /\ child' = IF child.bridge = b THEN NoChild ELSE child
           /\ bridges' = IF b = NoBridge \/ bridges[b] = NoProcess THEN bridges ELSE Killed(b)
    /\ Then(s)
    /\ UNCHANGED <<telegram, boot>>

-----------------------------------------------------------------------------
(* What the application asks of the provider                               *)

BeginCall(s, k, stage, path) ==
    /\ slots[s] = Idle /\ k \in World
    /\ slots' = [slots EXCEPT ![s] = [Idle EXCEPT !.kind = k, !.stage = stage, !.path = path,
                     !.snap = IF k \in {"status", "restart"} THEN config ELSE @]]
    /\ UNCHANGED <<telegram, state, child, boot, bridges>>

Status(s) == config.set /\ BeginCall(s, "status", "start", "health") /\ UNCHANGED config
Reauthorize(s) == BeginCall(s, "reauthorize", "stop", "none") /\ UNCHANGED config
RestartAuthorization(s) ==
    config.set /\ BeginCall(s, "restart", "stop", "none") /\ UNCHANGED config

\* beginAuthorization forgets the group, and keeps the session.
BeginAuthorization(s) ==
    /\ config.set /\ BeginCall(s, "begin", "stop", "none")
    /\ config' = [config EXCEPT !.chat = Nothing]

SubmitCode(s) == BeginCall(s, "code", "start", "auth/code") /\ UNCHANGED config
SubmitPassword(s) == BeginCall(s, "code", "start", "auth/password") /\ UNCHANGED config

\* callTransfer, whose polling of the progress starts no bridge and is left out.
Transfer(s, c) ==
    /\ slots[s] = Idle /\ "transfer" \in World
    /\ slots' = [slots EXCEPT ![s] = [Idle EXCEPT !.kind = "transfer", !.stage = "start",
                                                   !.path = "transfer", !.chat = c]]
    /\ UNCHANGED <<telegram, provider, bridges>>

\* An upload goes to the group of the configuration, a download to that of a receipt.
Upload(s) == config.chat # Nothing /\ Transfer(s, config.chat)
Download(s, c) == Transfer(s, c)

-----------------------------------------------------------------------------
(* Calls of the bridge                                                     *)

\* A call goes to the child, if there is one; the state tells what is under way.
Send(s) ==
    /\ slots[s].stage = "call"
    /\ slots' = [slots EXCEPT ![s].stage = IF Running THEN "sent" ELSE "broken",
                              ![s].bridge = IF Running THEN child.bridge ELSE NoBridge]
    /\ state' = IF slots[s].path = "transfer" THEN "SYNCING"
                ELSE IF slots[s].path = "group/resolve" THEN "RESOLVING_GROUP" ELSE state
    /\ UNCHANGED <<telegram, config, child, boot, bridges>>

\* The bridge does not do what is asked: no code was sent, there is no session, no
\* authorization, or another group is bound.
Refused(s) ==
    LET b == bridges[slots[s].bridge]
    IN  CASE slots[s].path \in {"auth/code", "auth/password"} -> ~b.code \/ granted = asked.keys
          [] slots[s].path = "session/export" -> b.key = 0
          [] slots[s].path = "group/resolve" -> ~Authorized(slots[s].bridge)
          [] slots[s].path = "transfer" -> ~Authorized(slots[s].bridge) \/ b.chat # slots[s].chat
          [] OTHER -> FALSE

\* Or it is gone, or the call fails.
Break(s) ==
    /\ slots[s].stage = "sent"
    /\ Up(slots[s].bridge) => Refused(s) \/ "failure" \in World
    /\ slots' = [slots EXCEPT ![s].stage = "broken", ![s].bridge = NoBridge]
    /\ UNCHANGED <<telegram, provider, bridges>>

\* The bridge answers a call in state b, and is then in state new.
Served(s, path) == slots[s].stage = "sent" /\ slots[s].path = path /\ Up(slots[s].bridge)
Serving(s) == bridges[slots[s].bridge]
Become(s, new) == bridges' = [bridges EXCEPT ![slots[s].bridge] = new]
Answer(s, got) ==
    slots' = [slots EXCEPT ![s].stage = "answer", ![s].bridge = NoBridge, ![s].got = got]

Health(s) ==
    /\ Served(s, "health")
    /\ Answer(s, IF Serving(s).cached THEN "yes" ELSE "no")
    /\ UNCHANGED <<telegram, provider, bridges>>

\* auth_start drops an authorization known to be lost, and asks for a code.
AuthStart(s) ==
    /\ Served(s, "auth/start")
    /\ Become(s, [Serving(s) EXCEPT !.code = TRUE,
                                    !.key = IF @ # 0 /\ ~Serving(s).cached THEN 0 ELSE @])
    /\ Answer(s, "yes")
    /\ UNCHANGED <<telegram, provider>>

\* sign_in: Telegram grants an authorization, or asks for the password first.
SignIn(s, code) ==
    /\ granted < asked.keys /\ granted' = granted + 1
    /\ Become(s, [Serving(s) EXCEPT !.key = granted', !.cached = TRUE, !.code = code])
    /\ Answer(s, "yes")
AuthCode(s) ==
    /\ Served(s, "auth/code") /\ Serving(s).code
    /\ \/ SignIn(s, FALSE)
       \/ Answer(s, "password") /\ UNCHANGED <<granted, bridges>>
    /\ UNCHANGED <<revoked, named, provider>>
AuthPassword(s) ==
    /\ Served(s, "auth/password") /\ Serving(s).code
    /\ SignIn(s, TRUE)
    /\ UNCHANGED <<revoked, named, provider>>

\* export_session, of whatever the bridge has by now.
ExportSession(s) ==
    /\ Served(s, "session/export") /\ Serving(s).key # 0
    /\ slots' = [slots EXCEPT ![s].stage = "answer", ![s].bridge = NoBridge,
                              ![s].key = Serving(s).key]
    /\ UNCHANGED <<telegram, provider, bridges>>

\* resolve_group binds the one group with the title.
ResolveGroup(s) ==
    /\ Served(s, "group/resolve") /\ Authorized(slots[s].bridge)
    /\ Become(s, [Serving(s) EXCEPT !.chat = named])
    /\ slots' = [slots EXCEPT ![s].stage = "answer", ![s].bridge = NoBridge,
                              ![s].chat = named]
    /\ UNCHANGED <<telegram, provider>>

\* upload and download work on the group that is bound, if it is the one asked for.
\* Faulty variant: whichever it is.
CarryUnchecked(s) ==
    /\ Served(s, "transfer") /\ Authorized(slots[s].bridge)
    /\ Serving(s).chat # Nothing
    /\ Answer(s, "yes")
    /\ UNCHANGED <<telegram, provider, bridges>>
Carry(s) ==
    /\ Served(s, "transfer") /\ Authorized(slots[s].bridge)
    /\ Serving(s).chat # Nothing /\ Serving(s).chat = slots[s].chat
    /\ Answer(s, "yes")
    /\ UNCHANGED <<telegram, provider, bridges>>

-----------------------------------------------------------------------------
(* Answers                                                                 *)

Heard(s, path) == slots[s].stage = "answer" /\ slots[s].path = path
ThenStatus(s, saved) ==
    slots' = [slots EXCEPT ![s] = [Idle EXCEPT !.kind = "status", !.stage = "start",
                                                !.path = "health", !.snap = saved]]
ThenCall(s, stage, path) ==
    slots' = [slots EXCEPT ![s] = [Idle EXCEPT !.kind = slots[s].kind, !.stage = stage,
                                                !.path = path]]

\* status: without authorization the session and the group that were saved when it
\* began are given up, unless a code is awaited.
HearHealth(s) ==
    /\ Heard(s, "health")
    /\ LET old == slots[s].snap
           lost == slots[s].got = "no" /\ state \notin {"WAITING_CODE", "WAITING_2FA"}
       IN  /\ state' = IF lost THEN "AUTH_FAILED"
                       ELSE IF slots[s].got = "yes" /\ old.chat # Nothing /\ state # "SYNCING"
                            THEN "CONNECTED" ELSE state
           /\ config' = IF lost /\ old.key # 0 THEN Unauthorized ELSE config
    /\ End(s)
    /\ UNCHANGED <<telegram, child, boot, bridges>>

HearStart(s) ==
    /\ Heard(s, "auth/start")
    /\ state' = "WAITING_CODE" /\ ThenStatus(s, config)
    /\ UNCHANGED <<telegram, config, child, boot, bridges>>

\* The code may not be enough; when it is, the session is saved, then the group.
HearCode(s) ==
    /\ Heard(s, "auth/code") \/ Heard(s, "auth/password")
    /\ \/ /\ slots[s].got = "password"
          /\ state' = "WAITING_2FA" /\ ThenStatus(s, config)
       \/ /\ slots[s].got = "yes"
          /\ state' = "RESOLVING_GROUP" /\ ThenCall(s, "call", "session/export")
    /\ UNCHANGED <<telegram, config, child, boot, bridges>>

HearSession(s) ==
    /\ Heard(s, "session/export")
    /\ config' = IF config.set THEN [config EXCEPT !.key = slots[s].key] ELSE config
    /\ ThenCall(s, "start", "group/resolve")
    /\ UNCHANGED <<telegram, state, child, boot, bridges>>

HearGroup(s) ==
    /\ Heard(s, "group/resolve") /\ config.set
    /\ config' = [config EXCEPT !.chat = slots[s].chat]
    /\ state' = "CONNECTED" /\ ThenStatus(s, config')
    /\ UNCHANGED <<telegram, child, boot, bridges>>

HearTransfer(s) ==
    /\ Heard(s, "transfer")
    /\ state' = "CONNECTED" /\ End(s)
    /\ UNCHANGED <<telegram, config, child, boot, bridges>>

\* What the error handlers and the finally of a transfer make of the state.
CallFailed(s) ==
    /\ slots[s].stage \in {"broken", "unstarted"} /\ End(s)
    /\ LET k == slots[s].kind
           began == slots[s].stage = "broken" \/ slots[s].path = "group/resolve"
           again == CASE slots[s].path = "auth/code" -> {"WAITING_CODE"}
                      [] slots[s].path = "auth/password" -> {"WAITING_2FA"}
                      [] OTHER -> {}
       IN  CASE k = "status" -> state' = "ERROR"
             [] k = "begin" -> state' = "AUTH_FAILED"
             [] k = "code" ->
                  state' \in IF began THEN {"AUTH_FAILED"} \cup again ELSE {state}
             [] k = "transfer" -> state' = IF began THEN "CONNECTED" ELSE state
    /\ UNCHANGED <<telegram, config, child, boot, bridges>>

-----------------------------------------------------------------------------
(* authorization_watch_loop, and Telegram                                  *)

\* Every 8 seconds the bridge asks Telegram who it is.  (Where no authorization ends,
\* this changes nothing and is left out.)
WatchAsk(b) ==
    /\ "revoke" \in World
    /\ Up(b) /\ bridges[b].watch = "idle"
    /\ bridges' = [bridges EXCEPT ![b] =
          IF @.key = 0 THEN [@ EXCEPT !.cached = FALSE]
          ELSE [@ EXCEPT !.watch = IF Authorized(b) THEN "known" ELSE "lost"]]
    /\ UNCHANGED <<telegram, provider, slots>>

\* The answer.  Without an authorization there is nobody, or an error, on which what
\* is stored is dropped: whichever authorization there is by now.
WatchHear(b) ==
    /\ Up(b) /\ bridges[b].watch # "idle"
    /\ LET known == bridges[b].watch = "known"
           heard == [bridges[b] EXCEPT !.watch = "idle", !.cached = known]
       IN  \/ bridges' = [bridges EXCEPT ![b] = heard]
           \/ ~known /\ bridges' = [bridges EXCEPT ![b] = [heard EXCEPT !.key = 0, !.code = FALSE]]
    /\ UNCHANGED <<telegram, provider, slots>>

\* No answer in time, or another error: what is known stays.
WatchTimeout(b) ==
    /\ Up(b) /\ bridges[b].watch # "idle"
    /\ bridges' = [bridges EXCEPT ![b].watch = "idle"]
    /\ UNCHANGED <<telegram, provider, slots>>

\* The user ends an authorization from another device, or names another group "ai".
Revoke(k) ==
    /\ "revoke" \in World
    /\ k \in 1..granted /\ k \notin revoked
    /\ revoked' = revoked \cup {k}
    /\ UNCHANGED <<granted, named, provider, bridges, slots>>
Rename(c) ==
    /\ "rename" \in World
    /\ named # c /\ named' = c
    /\ UNCHANGED <<granted, revoked, provider, bridges, slots>>

-----------------------------------------------------------------------------
Process == \/ NotConfigured \/ StartFailed \/ Started
           \/ \E b \in Bridges : Spawn(b) \/ Ready(b) \/ Exit(b)
Asked(s) == \/ Status(s) \/ Reauthorize(s) \/ RestartAuthorization(s)
            \/ BeginAuthorization(s) \/ SubmitCode(s) \/ SubmitPassword(s)
            \/ Upload(s) \/ \E c \in Chats : Download(s, c)
Serve(s) == \/ Health(s) \/ AuthStart(s) \/ AuthCode(s) \/ AuthPassword(s)
            \/ ExportSession(s) \/ ResolveGroup(s) \/ Carry(s)
Hear(s) == \/ HearHealth(s) \/ HearStart(s) \/ HearCode(s) \/ HearSession(s)
           \/ HearGroup(s) \/ HearTransfer(s) \/ CallFailed(s)
Watch(b) == WatchAsk(b) \/ WatchHear(b) \/ WatchTimeout(b)

BridgeNext ==
    \/ Process
    \/ \E s \in Slots : \/ Asked(s) \/ Start(s) \/ Stop(s) \/ Stopped(s)
                        \/ Send(s) \/ Break(s) \/ Serve(s) \/ Hear(s)
    \/ \E b \in Bridges : Watch(b)
    \/ \E k \in Keys : Revoke(k)
    \/ \E c \in Chats : Rename(c)

BridgeSpec == BridgeInit /\ [][BridgeNext /\ UNCHANGED asked]_<<asked, bridgeVars>>

-----------------------------------------------------------------------------
(* Properties                                                              *)

\* Every variable holds a value of its type.
BridgeTypeOK ==
    /\ asked \in Scenes
    /\ granted \in 0..asked.keys /\ revoked \subseteq 1..granted /\ named \in Chats
    /\ config \in Config /\ state \in States
    /\ child \in [bridge : Bridges \cup {NoBridge}, port : BOOLEAN]
    /\ boot \in [stage : {"idle", "launch", "ready", "health"}, snap : Config,
                 bridge : Bridges \cup {NoBridge}]
    /\ bridges \in [Bridges -> BridgeRecord] /\ slots \in [Slots -> SlotRecord]

\* Two bridges would use one authorization at once, and one that the provider does
\* not know would never be stopped: whoever starts and stops it, every bridge that
\* has not been told to end is the provider's child.
NoBridgeIsLost == \A b \in Bridges : bridges[b].life \in {"starting", "up"} => child.bridge = b

Carried(s) == Served(s, "transfer") /\ slots'[s].stage = "answer"

\* A transfer uses the group that its receipt names, also when another group has
\* been bound since, by another sign-in or because it took over the title.
TransfersKeepTheirGroup ==
    [][\A s \in Slots : Carried(s) => Serving(s).chat = slots[s].chat]_bridgeVars

-----------------------------------------------------------------------------
(* The inductive invariant                                                 *)

\* The child is replaced only when there is none: a start is under way until the child
\* that it has spawned has told its port, or is given up.
ChildOK ==
    /\ boot.stage = "launch" => child.bridge = NoBridge
    /\ boot.stage = "ready" => boot.bridge \in Bridges /\ child.bridge \in {boot.bridge, NoBridge}
    /\ child.bridge # NoBridge /\ ~child.port => boot.stage = "ready"

\* A function that stops the child is one of three, and what calls it is never one of two.
KindFits(slot) ==
    /\ slot.stage \in {"stop", "exit"} => slot.kind \in {"begin", "restart", "reauthorize"}
    /\ slot.stage \notin {"idle", "stop", "exit"} =>
           slot.kind \in {"status", "begin", "code", "transfer"}
KindsOK == \A s \in Slots : KindFits(slots[s])

BridgeIInv == BridgeTypeOK /\ ChildOK /\ KindsOK /\ NoBridgeIsLost
=============================================================================
