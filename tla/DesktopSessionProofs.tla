------------------------ MODULE DesktopSessionProofs ------------------------
(***************************************************************************)
(* A sign-in and a sign-out last, for any number of calls in flight, of    *)
(* sign-ins and of users.                                                  *)
(*                                                                         *)
(* The invariant says of a call how far it may have got.  A step of a call *)
(* leaves it to be shown for that call only (Goes): what the others have   *)
(* stands while the session does not change, and when the step changes the *)
(* session, it is either from before (disturbed) or no sign-in or sign-out *)
(* is under way besides it (Undisturbed).                                  *)
(***************************************************************************)
EXTENDS DesktopSession, TLAPS

CallType == [kind : Kinds \cup {"none"}, stage : Stages, session : Session,
             user : Users \cup {Nobody}, late : BOOLEAN]

LEMMA Types ==
    /\ NoCall \in CallType /\ NoSession \in Session /\ ~NoCall.late /\ NoCall.kind = "none"
    /\ NoCall.stage = "idle" /\ NoCall.session = NoSession
    /\ 0 \notin Tokens /\ Out \notin Tokens /\ Out # 0 /\ \A t \in Tokens : t # 0
    /\ Signs \subseteq Kinds /\ "none" \notin Kinds
    /\ \A t \in Tokens, u \in Users : [token |-> t, user |-> u] \in Session \ {NoSession}
  BY BoundAssumption DEF CallType, NoCall, NoSession, Session, Tokens, Out, Signs, Kinds, Stages

LEMMA CallFacts ==
    ASSUME IInv, NEW s \in Slots
    PROVE  /\ calls[s] \in CallType /\ Issued(calls[s]) /\ Loaded(calls[s])
           /\ ~disturbed => Stores(calls[s])
           /\ calls[s].kind = "none" => calls[s] = NoCall
           /\ SignedInNow => Under(calls[s])
           /\ last = Out /\ ~disturbed => Outside(calls[s])
           /\ last # 0 /\ calls[s].kind \in Signs => calls[s].late
  BY DEF IInv, TypeOK, CallType, InOK, OutOK, LastOK

\* A call that changes the session and is not from before does so alone.
LEMMA Undisturbed ==
    ASSUME IInv, NEW s \in Slots, Touch(s), ~disturbed'
    PROVE  /\ ~disturbed /\ ~calls[s].late
           /\ \A r \in Slots \ {s} : calls[r].kind \notin Signs
           /\ last # 0 => calls[s].kind \notin Signs
  BY CallFacts DEF Touch

\* The server's sessions only become more, and revoked or expired.
ServerGrows ==
    /\ DOMAIN owner \subseteq DOMAIN owner' /\ \A t \in DOMAIN owner : owner'[t] = owner[t]
    /\ DOMAIN owner' \subseteq Tokens /\ \A t \in DOMAIN owner' : owner'[t] \in Users
    /\ revoked \subseteq revoked' /\ expired \subseteq expired'
    /\ revoked' \subseteq DOMAIN owner' /\ expired' \subseteq DOMAIN owner'

LEMMA SameServer ==
    ASSUME IInv, UNCHANGED server
    PROVE  ServerGrows
  BY DEF IInv, TypeOK, server, ServerGrows

LEMMA RealStays ==
    ASSUME ServerGrows, NEW session, Real(session)
    PROVE  Real(session)'
  BY DEF ServerGrows, Real

\* A step of the call in s, after which it is `new`: what has to be shown is that the
\* new state of the session is right, and that `new` is.
LEMMA Goes ==
    ASSUME IInv, ServerGrows, NEW s \in Slots, NEW new \in CallType,
           calls' = [calls EXCEPT ![s] = new],
           \/ new = NoCall
           \/ /\ new.kind # "none"
              /\ new.kind \in Signs => new.kind = calls[s].kind /\ new.late = calls[s].late,
           last' = last, memory' \in Session, file' \in Session, enabled' \in BOOLEAN,
           job' \in {"ready", "work", "blocked"},
           \/ UNCHANGED <<memory, file, disturbed>>
           \/ Touch(s),
           \A session \in {memory', file'} : Real(session)',
           \A call \in {new} : Issued(call)' /\ Loaded(call)' /\ (~disturbed' => Stores(call)'),
           SignedInNow' =>
              /\ memory' = Signed(last)' /\ file' = Signed(last)' /\ enabled' /\ job' # "blocked"
              /\ \A call \in {new} : Under(call)',
           last' = Out /\ ~disturbed' =>
              /\ memory' = NoSession /\ file' = NoSession /\ ~enabled'
              /\ \A call \in {new} : Outside(call)'
    PROVE  IInv'
  <1>1. calls' \in [Slots -> CallType] /\ calls'[s] = new
        /\ \A r \in Slots \ {s} : calls'[r] = calls[r]
    BY DEF IInv, TypeOK, CallType
  <1>2. disturbed' \in BOOLEAN /\ (disturbed => disturbed')
    BY DEF IInv, TypeOK, Touch
  <1>3. TypeOK'
    BY <1>1, <1>2 DEF IInv, TypeOK, CallType, ServerGrows
  <1>4. LastOK'
    <2>1. ASSUME last # 0, NEW r \in Slots, calls'[r].kind \in Signs
          PROVE  calls'[r].late
      BY <1>1, <2>1, CallFacts, Types
    <2> QED BY <2>1 DEF LastOK, IInv, ServerGrows
  <1>5. SignedInNow' => SignedInNow
    BY <1>2 DEF SignedInNow, ServerGrows
  <1>6. ASSUME SignedInNow', NEW r \in Slots \ {s}
        PROVE  Under(calls[r])'
    <2>1. Under(calls[r]) /\ owner'[last] = owner[last] /\ calls'[r] = calls[r]
      BY <1>1, <1>5, <1>6, CallFacts DEF IInv, LastOK, SignedInNow, ServerGrows
    <2> QED BY <2>1 DEF Under, Signed
  <1>7. InOK'
    BY <1>1, <1>6 DEF InOK
  <1>8. ASSUME last' = Out, ~disturbed', NEW r \in Slots \ {s}
        PROVE  Outside(calls[r])'
    BY <1>1, <1>2, <1>8, CallFacts DEF Outside
  <1>9. OutOK'
    BY <1>1, <1>8 DEF OutOK
  <1>10. ASSUME NEW r \in Slots \ {s}
         PROVE  Issued(calls[r])'
    BY <1>1, CallFacts, ZenonT(60) DEF Issued, Signed, ServerGrows
  <1>11. ASSUME NEW r \in Slots \ {s}, ~disturbed'
         PROVE  Stores(calls[r])'
    <2>1. CASE UNCHANGED <<memory, file, disturbed>>
      BY <1>1, <1>11, <2>1, CallFacts DEF Stores
    <2>2. CASE Touch(s)
      <3>1. calls[r].kind \notin Signs
        BY <1>11, <2>2, Undisturbed
      <3> QED BY <1>1, <3>1 DEF Stores, Signs
    <2> QED BY <2>1, <2>2
  <1>12. \A r \in Slots : calls'[r].kind = "none" => calls'[r] = NoCall
    BY <1>1, CallFacts
  <1>13. ASSUME NEW r \in Slots \ {s}
         PROVE  Loaded(calls[r])'
    <2>1. calls'[r] = calls[r] /\ Loaded(calls[r])
      BY <1>1, CallFacts
    <2>2. \A session \in {calls[r].session} : Real(session)'
      BY <2>1, RealStays DEF Loaded
    <2> QED BY <2>1, <2>2 DEF Loaded
  <1>14. \A r \in Slots : /\ Issued(calls[r])' /\ Loaded(calls[r])'
                          /\ ~disturbed' => Stores(calls[r])'
    BY <1>1, <1>10, <1>11, <1>13
  <1>15. Real(memory)' /\ Real(file)'
    OBVIOUS
  <1> QED BY <1>3, <1>4, <1>7, <1>9, <1>12, <1>14, <1>15 DEF IInv

-----------------------------------------------------------------------------
(* What a call becomes                                                     *)

With(s, stage, session) == [calls[s] EXCEPT !.stage = stage, !.session = session]

LEMMA WithType ==
    ASSUME IInv, NEW s \in Slots, NEW stage \in Stages, NEW session \in Session
    PROVE  /\ With(s, stage, session) \in CallType
           /\ With(s, stage, session).kind = calls[s].kind
           /\ With(s, stage, session).late = calls[s].late
           /\ With(s, stage, session).user = calls[s].user
           /\ With(s, stage, session).stage = stage
           /\ With(s, stage, session).session = session
  BY CallFacts DEF CallType, With

LEMMA GoType ==
    ASSUME IInv, NEW s \in Slots, NEW stage \in Stages, Go(s, stage)
    PROVE  /\ calls' = [calls EXCEPT ![s] = With(s, stage, calls[s].session)]
           /\ calls[s].session \in Session
  <1>1. calls[s] \in CallType
    BY CallFacts
  <1>2. With(s, stage, calls[s].session) = [calls[s] EXCEPT !.stage = stage]
    BY <1>1 DEF With, CallType
  <1> QED BY <1>1, <1>2 DEF Go, CallType

LEMMA NotIdle ==
    ASSUME IInv, NEW s \in Slots, calls[s].stage # "idle"
    PROVE  calls[s].kind # "none"
  BY CallFacts DEF NoCall

\* A step that leaves the session alone.
LEMMA Quietly ==
    ASSUME IInv, ServerGrows, NEW s \in Slots, NEW new \in CallType,
           calls' = [calls EXCEPT ![s] = new],
           \/ new = NoCall
           \/ /\ new.kind # "none"
              /\ new.kind \in Signs => new.kind = calls[s].kind /\ new.late = calls[s].late,
           UNCHANGED <<store, enabled, last, disturbed>>,
           job' \in {"ready", "work", "blocked"}, job' = "blocked" => job = "blocked",
           \A call \in {new} : Issued(call)' /\ Loaded(call)' /\ Stores(call)',
           SignedInNow' => \A call \in {new} : Under(call)',
           last = Out /\ ~disturbed => \A call \in {new} : Outside(call)'
    PROVE  IInv'
  <1>1. memory' \in Session /\ file' \in Session /\ enabled' \in BOOLEAN
    BY DEF IInv, TypeOK, store
  <1>2. SignedInNow' => /\ SignedInNow /\ owner'[last] = owner[last]
                        /\ memory = Signed(last) /\ file = Signed(last) /\ enabled /\ job # "blocked"
    BY DEF SignedInNow, IInv, InOK, LastOK, ServerGrows
  <1>3. SignedInNow' => memory' = Signed(last)' /\ file' = Signed(last)' /\ enabled' /\ job' # "blocked"
    BY <1>2 DEF Signed, store
  <1>4. last = Out /\ ~disturbed => memory = NoSession /\ file = NoSession /\ ~enabled
    BY DEF IInv, OutOK
  <1>5. \A session \in {memory', file'} : Real(session)'
    BY RealStays DEF IInv, store
  <1> QED BY <1>1, <1>3, <1>4, <1>5, Goes DEF store

LEMMA WriteStep ==
    ASSUME IInv, NEW s \in Slots, Write(s)
    PROVE  IInv'
  <1> DEFINE new == With(s, "end", calls[s].session)
  <1>1. /\ calls[s].stage = "writing" /\ file' = calls[s].session /\ Touch(s)
        /\ UNCHANGED <<server, memory, enabled, job, last>>
    BY DEF Write, engine
  <1>2. calls[s].kind # "none"
    BY <1>1, NotIdle
  <1>3. /\ calls' = [calls EXCEPT ![s] = new] /\ new \in CallType /\ calls[s].session \in Session
        /\ new.kind = calls[s].kind /\ new.late = calls[s].late /\ new.stage = "end"
        /\ new.session = calls[s].session
    BY GoType, WithType DEF Write, Stages
  <1> HIDE DEF new
  <1>4. ServerGrows
    BY <1>1, SameServer
  <1>5. \A call \in {new} : Issued(call)' /\ Loaded(call)'
    BY <1>1, <1>3, CallFacts DEF Issued, Signed, server, Loaded, Real
  <1>10. \A session \in {memory', file'} : Real(session)'
    BY <1>1, CallFacts DEF IInv, Loaded, Real, server
  <1>6. ~disturbed' => \A call \in {new} : Stores(call)'
    BY <1>1, <1>3, Undisturbed, CallFacts DEF Stores, Signs
  <1>7. SignedInNow' => /\ memory' = Signed(last)' /\ file' = Signed(last)' /\ enabled' /\ job' # "blocked"
                        /\ \A call \in {new} : Under(call)'
    <2> SUFFICES ASSUME SignedInNow'
                 PROVE  /\ memory' = Signed(last)' /\ file' = Signed(last)' /\ enabled'
                        /\ job' # "blocked" /\ \A call \in {new} : Under(call)'
      OBVIOUS
    <2>1. ~disturbed' /\ ~disturbed /\ ~calls[s].late /\ SignedInNow
      BY <1>1, Undisturbed DEF SignedInNow, server
    <2>2. Under(calls[s]) /\ calls[s].kind = "state" /\ calls[s].session = Signed(last)
      BY <1>1, <1>2, <2>1, CallFacts DEF Under
    <2>3. memory = Signed(last) /\ enabled /\ job # "blocked"
      BY <2>1 DEF IInv, InOK
    <2> QED BY <1>1, <1>3, <2>2, <2>3 DEF Under, Signed, server
  <1>8. last' = Out /\ ~disturbed' => FALSE
    BY <1>1, <1>2, Undisturbed, CallFacts DEF Outside
  <1>9. memory \in Session /\ enabled \in BOOLEAN /\ job \in {"ready", "work", "blocked"}
    BY DEF IInv, TypeOK
  <1> QED BY <1>1, <1>2, <1>3, <1>4, <1>5, <1>6, <1>7, <1>8, <1>9, <1>10, Goes

\* The file is read for a session: nothing is found that a sign-in or a sign-out
\* has not left there.
LEMMA LoadFileStep ==
    ASSUME IInv, NEW s \in Slots, NEW found \in {"sent", "store", "request", "take"},
           NEW none \in {"denied", "gate", "end"},
           calls[s].stage \in {"gateFile", "requestFile", "storeFile"},
           found = "store" => calls[s].stage = "storeFile",
           calls[s].stage = "gateFile" => none = "gate",
           LoadFile(s, found, none), UNCHANGED <<server, engine, last>>
    PROVE  IInv'
  <1> DEFINE stage == IF Valid(file) THEN found ELSE none
             session == IF Valid(file) THEN file ELSE calls[s].session
             new == With(s, stage, session)
  <1>1. calls[s] \in CallType /\ memory \in Session /\ file \in Session
    BY CallFacts DEF IInv, TypeOK
  <1>2. /\ stage \in Stages /\ stage \in {"sent", "store", "request", "take", "denied", "gate", "end"}
        /\ session \in Session
    BY <1>1 DEF CallType, Stages
  <1>13. /\ Real(session) /\ (stage = "sent" \/ stage = "store" => session # NoSession)
         /\ stage = "store" => calls[s].user \in Users
    BY CallFacts DEF Loaded, Valid, IInv
  <1>3. calls' = [calls EXCEPT ![s] = new]
    <2>1. new = [calls[s] EXCEPT !.stage = stage, !.session = session]
      BY DEF With
    <2> QED BY <1>1, <2>1 DEF LoadFile, IInv, TypeOK, CallType
  <1> HIDE DEF stage, session
  <1>4. /\ new \in CallType /\ new.kind = calls[s].kind /\ new.late = calls[s].late
        /\ new.stage = stage /\ new.session = session /\ new.user = calls[s].user
    BY <1>2, WithType
  <1> HIDE DEF new
  <1>5. calls[s].kind # "none" /\ calls[s].kind # "login"
    BY NotIdle, CallFacts DEF Issued
  <1>6. /\ memory' = IF file = NoSession THEN memory ELSE IF Valid(file) THEN file ELSE NoSession
        /\ file' = IF Valid(file) THEN file ELSE NoSession
        /\ IF file = NoSession THEN UNCHANGED disturbed ELSE Touch(s)
    BY DEF LoadFile
  <1>7. UNCHANGED <<memory, file, disturbed>> \/ Touch(s)
    BY <1>6 DEF Valid
  <1>8. memory' \in Session /\ file' \in Session
    BY <1>1, <1>6, Types
  <1>9. \A call \in {new} : Issued(call)' /\ Stores(call)' /\ Loaded(call)'
    BY <1>2, <1>4, <1>5, <1>13 DEF Issued, Stores, Loaded, Real, server
  <1>14. \A loaded \in {memory', file'} : Real(loaded)'
    BY <1>6 DEF IInv, Real, server
  <1>10. SignedInNow' => FALSE
    <2> SUFFICES ASSUME SignedInNow' PROVE FALSE
      OBVIOUS
    <2>1. SignedInNow /\ ~disturbed
      BY <1>7, Undisturbed DEF SignedInNow, server
    <2>2. file = Signed(last) /\ file # NoSession
      BY <2>1, Types DEF IInv, InOK, SignedInNow, LastOK, Signed, TypeOK
    <2>3. ~calls[s].late
      BY <1>6, <2>2, Undisturbed, <2>1 DEF SignedInNow, server
    <2> QED BY <1>5, <2>1, <2>3, CallFacts DEF Under
  <1>11. last' = Out /\ ~disturbed' =>
            memory' = NoSession /\ file' = NoSession /\ ~enabled' /\ \A call \in {new} : Outside(call)'
    <2> SUFFICES ASSUME last' = Out, ~disturbed'
                 PROVE  /\ memory' = NoSession /\ file' = NoSession /\ ~enabled'
                        /\ \A call \in {new} : Outside(call)'
      OBVIOUS
    <2>1. last = Out /\ ~disturbed
      BY <1>7, Undisturbed
    <2>2. memory = NoSession /\ file = NoSession /\ ~enabled /\ Outside(calls[s])
      BY <2>1 DEF IInv, OutOK
    <2>3. ~calls[s].late => stage = "gate" /\ calls[s].kind = "state"
      BY <1>5, <2>2 DEF Outside, stage, Valid
    <2> QED BY <1>4, <1>6, <2>2, <2>3 DEF Outside, Valid, engine
  <1>12. ServerGrows /\ enabled' \in BOOLEAN /\ job' \in {"ready", "work", "blocked"}
    BY SameServer DEF IInv, TypeOK, engine
  <1> QED BY <1>3, <1>4, <1>5, <1>7, <1>8, <1>9, <1>10, <1>11, <1>12, <1>14, Goes

\* The session is cleared: by a sign-out, or for a token that was refused.
LEMMA ClearStep ==
    ASSUME IInv, NEW s \in Slots, NEW next \in {"erasing", "leaving"}, Clear(s, next),
           calls[s].kind \in Kinds \ {"login"},
           \/ calls[s].kind \in Signs
           \/ calls[s].stage \in {"refused", "denied", "again"},
           UNCHANGED <<server, file, engine, last>>
    PROVE  IInv'
  <1> DEFINE new == With(s, next, calls[s].session)
  <1>1. memory' = NoSession /\ Touch(s) /\ Go(s, next)
    BY DEF Clear
  <1>2. /\ calls' = [calls EXCEPT ![s] = new] /\ new \in CallType
        /\ new.kind = calls[s].kind /\ new.late = calls[s].late /\ new.stage = next
        /\ new.session = calls[s].session
    BY <1>1, GoType, WithType DEF Stages
  <1> HIDE DEF new
  <1>3. \A call \in {new} : Issued(call)' /\ Stores(call)' /\ Loaded(call)'
    BY <1>1, <1>2, CallFacts DEF Issued, Stores, Loaded, Real, server
  <1>7. \A session \in {memory', file'} : Real(session)'
    BY <1>1 DEF IInv, Real, server
  <1>4. SignedInNow' => FALSE
    <2> SUFFICES ASSUME SignedInNow' PROVE FALSE
      OBVIOUS
    <2>1. ~disturbed' /\ SignedInNow /\ ~calls[s].late /\ calls[s].kind \notin Signs
      BY <1>1, Undisturbed, Types DEF SignedInNow, server
    <2> QED BY <2>1, CallFacts, Types DEF Under
  <1>5. last' = Out /\ ~disturbed' => FALSE
    <2> SUFFICES ASSUME last' = Out, ~disturbed' PROVE FALSE
      OBVIOUS
    <2>1. ~disturbed /\ last = Out /\ ~calls[s].late /\ calls[s].kind \notin Signs
      BY <1>1, Undisturbed, Types
    <2> QED BY <2>1, CallFacts, Types DEF Outside
  <1>6. /\ ServerGrows /\ memory' \in Session /\ file' \in Session /\ enabled' \in BOOLEAN
        /\ job' \in {"ready", "work", "blocked"}
    BY <1>1, SameServer, Types DEF IInv, TypeOK, engine
  <1> QED BY <1>1, <1>2, <1>3, <1>4, <1>5, <1>6, <1>7, Types, Goes

\* A step that takes the session and the engine's access away: never one of a call
\* that began under a sign-in or after a sign-out.
LEMMA Takes ==
    ASSUME IInv, NEW s \in Slots, Touch(s), NEW new \in CallType,
           calls' = [calls EXCEPT ![s] = new],
           \/ new = NoCall
           \/ /\ new.kind # "none" /\ new.kind = calls[s].kind /\ new.late = calls[s].late
              /\ new.kind # "login" /\ new.session = calls[s].session
              /\ new.stage \in {"end", "denied", "again"},
           calls[s].kind \in Kinds, calls[s].stage \in {"erasing", "leaving", "denied"},
           UNCHANGED <<server, last>>, memory' \in Session, file' \in Session,
           enabled' \in BOOLEAN, job' \in {"ready", "work", "blocked"},
           memory' \in {memory, NoSession}, file' \in {file, NoSession}
    PROVE  IInv'
  <1>1. \A call \in {new} : Issued(call)' /\ Stores(call)' /\ Loaded(call)'
    BY Types, CallFacts DEF Issued, Stores, Signs, Loaded, Real, NoCall, server
  <1>4. \A session \in {memory', file'} : Real(session)'
    BY DEF IInv, Real, server
  <1>2. SignedInNow' => FALSE
    <2> SUFFICES ASSUME SignedInNow' PROVE FALSE
      OBVIOUS
    <2>1. SignedInNow /\ ~calls[s].late
      BY Undisturbed, Types DEF SignedInNow, server
    <2> QED BY <2>1, CallFacts, Types DEF Under
  <1>3. last' = Out /\ ~disturbed' => FALSE
    <2> SUFFICES ASSUME last' = Out, ~disturbed' PROVE FALSE
      OBVIOUS
    <2>1. ~disturbed /\ last = Out /\ ~calls[s].late
      BY Undisturbed, Types
    <2> QED BY <2>1, CallFacts, Types DEF Outside
  <1> QED BY <1>1, <1>2, <1>3, <1>4, SameServer, Goes

-----------------------------------------------------------------------------
(* Sign-ins and sign-outs begin and end: the other calls are from before.  *)

LEMMA AgedType ==
    ASSUME IInv, NEW s \in Slots, NEW new \in CallType, ~new.late,
           calls' = Aged([calls EXCEPT ![s] = new], s)
    PROVE  /\ calls' \in [Slots -> CallType] /\ calls'[s] = new
           /\ \A r \in Slots \ {s} :
                 /\ calls'[r].kind = calls[r].kind /\ calls'[r].stage = calls[r].stage
                 /\ calls'[r].session = calls[r].session /\ calls'[r].user = calls[r].user
                 /\ calls[r].kind = "none" => calls'[r] = NoCall
                 /\ calls[r].kind # "none" => calls'[r].late
  <1>1. calls \in [Slots -> CallType]
    BY DEF IInv, TypeOK, CallType
  <1> DEFINE old == [calls EXCEPT ![s] = new]
  <1>2. old \in [Slots -> CallType] /\ old[s] = new /\ \A r \in Slots \ {s} : old[r] = calls[r]
    BY <1>1
  <1> HIDE DEF old
  <1>3. calls' = [r \in Slots |-> [old[r] EXCEPT !.late = @ \/ (r # s /\ old[r] # NoCall)]]
    BY DEF Aged, old
  <1> DEFINE L(c, b) == [c EXCEPT !.late = b]
             B(r) == old[r].late \/ (r # s /\ old[r] # NoCall)
  <1>4. \A c \in CallType, b \in BOOLEAN :
           /\ L(c, b) \in CallType /\ L(c, b).kind = c.kind /\ L(c, b).stage = c.stage
           /\ L(c, b).session = c.session /\ L(c, b).user = c.user /\ L(c, b).late = b
           /\ b = c.late => L(c, b) = c
    BY DEF CallType
  <1>12. \A c \in CallType : L(c, c.late) = c
    BY DEF CallType
  <1>5. \A r \in Slots : B(r) \in BOOLEAN
    BY <1>2 DEF CallType
  <1>6. B(s) = new.late /\ \A r \in Slots \ {s} : B(r) = (calls[r].late \/ calls[r] # NoCall)
    BY <1>2 DEF CallType
  <1>7. calls' = [r \in Slots |-> L(old[r], B(r))]
    BY <1>3
  <1> HIDE DEF L, B
  <1>8. \A r \in Slots : calls'[r] = L(old[r], B(r)) /\ calls'[r] \in CallType
    <2>1. \A r \in Slots : calls'[r] = L(old[r], B(r))
      BY <1>7, Zenon
    <2>2. \A r \in Slots : L(old[r], B(r)) \in CallType
      BY <1>2, <1>4, <1>5, Zenon
    <2> QED BY <2>1, <2>2
  <1>9. calls' \in [Slots -> CallType]
    <2>1. calls' = [r \in Slots |-> calls'[r]]
      BY <1>7, Zenon
    <2> QED BY <1>8, <2>1
  <1>10. calls'[s] = new
    <2>1. calls'[s] = L(new, B(s))
      BY <1>2, <1>8, Zenon
    <2>2. B(s) \in BOOLEAN /\ B(s) = new.late
      BY <1>5, <1>6
    <2>3. L(new, B(s)) = new
      BY <1>12, <2>2
    <2> QED BY <2>1, <2>3
  <1>11. ASSUME NEW r \in Slots \ {s}
         PROVE  /\ calls'[r].kind = calls[r].kind /\ calls'[r].stage = calls[r].stage
                /\ calls'[r].session = calls[r].session /\ calls'[r].user = calls[r].user
                /\ calls[r].kind = "none" => calls'[r] = NoCall
                /\ calls[r].kind # "none" => calls'[r].late
    <2>1. calls'[r] = L(calls[r], B(r)) /\ calls[r] \in CallType /\ B(r) \in BOOLEAN
      BY <1>1, <1>2, <1>5, <1>8
    <2>2. calls[r].kind = "none" => calls[r] = NoCall /\ ~B(r) /\ ~calls[r].late
      BY <1>6, <2>1, CallFacts, Types
    <2>3. calls[r].kind # "none" => B(r)
      BY <1>6, Types
    <2>4. calls[r].kind = "none" => B(r) = calls[r].late
      BY <2>1, <2>2 DEF CallType
    <2> QED BY <1>4, <2>1, <2>2, <2>3, <2>4
  <1> QED BY <1>9, <1>10, <1>11

LEMMA Begins ==
    ASSUME IInv, NEW s \in Slots, NEW k \in Signs, NEW stage,
           stage = IF k = "login" THEN "sent" ELSE "request", Begun(s, k, stage),
           UNCHANGED <<server, store, job>>, enabled' \in BOOLEAN
    PROVE  IInv'
  <1> DEFINE new == [NoCall EXCEPT !.kind = k, !.stage = stage]
  <1>1. /\ new \in CallType /\ ~new.late /\ new.kind = k /\ new.stage = stage
        /\ new.session = NoSession
    BY Types DEF NoCall, CallType, Stages
  <1>2. calls' = Aged([calls EXCEPT ![s] = new], s) /\ last' = 0 /\ disturbed' = FALSE
    BY DEF Begun
  <1> HIDE DEF new
  <1>3. /\ calls' \in [Slots -> CallType] /\ calls'[s] = new
        /\ \A r \in Slots \ {s} :
                 /\ calls'[r].kind = calls[r].kind /\ calls'[r].stage = calls[r].stage
                 /\ calls'[r].session = calls[r].session /\ calls'[r].user = calls[r].user
                 /\ calls[r].kind = "none" => calls'[r] = NoCall
                 /\ calls[r].kind # "none" => calls'[r].late
    BY <1>1, <1>2, AgedType
  <1>4. TypeOK'
    BY <1>2, <1>3 DEF IInv, TypeOK, CallType, server, store
  <1>5. LastOK' /\ InOK' /\ OutOK'
    BY <1>2, Types DEF LastOK, InOK, OutOK, SignedInNow
  <1>6. ASSUME NEW r \in Slots
        PROVE  /\ calls'[r].kind = "none" => calls'[r] = NoCall
               /\ Issued(calls[r])' /\ Stores(calls[r])' /\ Loaded(calls[r])'
    <2>1. CASE r = s
      <3>1. /\ calls'[r].kind = k /\ calls'[r].stage = stage /\ calls'[r].session = NoSession
            /\ k # "none"
        BY <1>1, <1>3, <2>1, Types
      <3>2. Issued(calls[r])'
        BY <3>1 DEF Issued
      <3>3. Loaded(calls[r])'
        BY <3>1 DEF Loaded, Real
      <3>4. Stores(calls[r])'
        BY <3>1 DEF Stores
      <3> QED BY <3>1, <3>2, <3>3, <3>4
    <2>2. CASE r # s
      <3>1. Issued(calls[r])' /\ Loaded(calls[r])'
        BY <1>3, <2>2, CallFacts, Types DEF Issued, Signed, server, Loaded, Real
      <3>2. Stores(calls[r])'
        BY <1>3, <2>2, Types DEF Stores
      <3> QED BY <1>3, <2>2, <3>1, <3>2, Types
    <2> QED BY <2>1, <2>2
  <1>7. Real(memory)' /\ Real(file)'
    BY DEF IInv, Real, server, store
  <1> QED BY <1>4, <1>5, <1>6, <1>7 DEF IInv

LEMMA Ends ==
    ASSUME IInv, NEW s \in Slots, NEW outcome \in Tokens \cup {0, Out}, Ended(s, outcome),
           UNCHANGED server, memory' \in Session, file' \in Session, enabled' \in BOOLEAN,
           job' \in {"ready", "work", "blocked"}, disturbed' \in BOOLEAN,
           outcome \in Tokens => outcome \in DOMAIN owner, Real(memory'), Real(file'),
           SignedInNow' =>
              memory' = Signed(last)' /\ file' = Signed(last)' /\ enabled' /\ job' # "blocked",
           last' = Out /\ ~disturbed' => memory' = NoSession /\ file' = NoSession /\ ~enabled'
    PROVE  IInv'
  <1>1. /\ calls' \in [Slots -> CallType] /\ calls'[s] = NoCall
        /\ \A r \in Slots \ {s} :
                 /\ calls'[r].kind = calls[r].kind /\ calls'[r].stage = calls[r].stage
                 /\ calls'[r].session = calls[r].session /\ calls'[r].user = calls[r].user
                 /\ calls[r].kind = "none" => calls'[r] = NoCall
                 /\ calls[r].kind # "none" => calls'[r].late
    BY AgedType, Types DEF Ended
  <1>2. last' = outcome
    BY DEF Ended
  <1>3. TypeOK'
    BY <1>1, <1>2 DEF IInv, TypeOK, CallType, server
  <1>4. \A r \in Slots : calls'[r] = NoCall \/ (calls'[r].kind # "none" /\ calls'[r].late)
    BY <1>1
  <1>5. LastOK'
    BY <1>2, <1>4, Types DEF LastOK, server
  <1>6. InOK' /\ OutOK'
    BY <1>4, Types DEF InOK, OutOK, Under, Outside
  <1>7. ASSUME NEW r \in Slots
        PROVE  /\ calls'[r].kind = "none" => calls'[r] = NoCall
               /\ Issued(calls[r])' /\ Stores(calls[r])' /\ Loaded(calls[r])'
    <2>1. calls'[r].kind = "none" => calls'[r] = NoCall
      BY <1>4
    <2>2. Stores(calls[r])'
      BY <1>4, Types DEF Stores
    <2>3. Issued(calls[r])' /\ Loaded(calls[r])'
      BY <1>1, CallFacts, Types DEF Issued, Signed, server, Loaded, Real, NoCall
    <2> QED BY <2>1, <2>2, <2>3
  <1>8. Real(memory)' /\ Real(file)'
    BY DEF Real, server
  <1> QED BY <1>3, <1>5, <1>6, <1>7, <1>8 DEF IInv

-----------------------------------------------------------------------------
(* Steps that are not of one call                                          *)

LEMMA RestartStep ==
    ASSUME IInv, Restart
    PROVE  IInv'
  <1>1. PICK saved \in {file} \cup UNION {{calls[s].session, NoSession} :
                                            s \in {r \in Slots : calls[r].stage = "writing"}} :
           Start(saved)
    BY DEF Restart
  <1>2. saved \in Session /\ (saved = file \/ \E r \in Slots : calls[r].stage = "writing")
    BY CallFacts, Types DEF IInv, TypeOK, CallType
  <1>3. /\ calls' = [s \in Slots |-> NoCall] /\ job' = "ready" /\ file' = memory'
        /\ memory' = IF Valid(saved) THEN saved ELSE NoSession
        /\ enabled' = Valid(saved) /\ UNCHANGED server
        /\ last' \in {0, last}
        /\ disturbed' = (disturbed \/ \E r \in Slots : calls[r].stage = "writing")
    BY <1>1 DEF Restart, Start
  <1>4. memory' \in Session /\ enabled' \in BOOLEAN
    BY <1>2, <1>3, Types DEF Valid
  <1>5. disturbed' \in BOOLEAN
    BY <1>3 DEF IInv, TypeOK
  <1>6. \A s \in Slots : calls'[s] = NoCall
    BY <1>3
  <1>7. TypeOK'
    <2>1. calls' \in [Slots -> CallType]
      BY <1>3, Types
    <2>2. last' \in Tokens \cup {0, Out}
      BY <1>3 DEF IInv, TypeOK
    <2> QED BY <1>3, <1>4, <1>5, <2>1, <2>2 DEF IInv, TypeOK, CallType, server
  <1>8. LastOK'
    BY <1>3, <1>6, Types DEF IInv, LastOK, server
  <1>9. ASSUME NEW s \in Slots
        PROVE  /\ calls'[s].kind = "none" => calls'[s] = NoCall
               /\ Issued(calls[s])' /\ Stores(calls[s])' /\ Under(calls[s])' /\ Outside(calls[s])'
               /\ Loaded(calls[s])'
    <2>1. /\ calls'[s] = NoCall /\ calls'[s].kind = "none" /\ calls'[s].stage = "idle"
          /\ calls'[s].session = NoSession
      BY <1>6, Types
    <2>2. Issued(calls[s])' /\ Under(calls[s])' /\ Outside(calls[s])'
      BY <2>1 DEF Issued, Under, Outside
    <2>3. Loaded(calls[s])'
      BY <2>1 DEF Loaded, Real
    <2>4. Stores(calls[s])'
      BY <2>1 DEF Stores
    <2> QED BY <2>1, <2>2, <2>3, <2>4
  <1>13. Real(memory)' /\ Real(file)'
    <2>1. Real(saved)
      BY CallFacts DEF IInv, Loaded, Real
    <2> QED BY <1>3, <2>1 DEF Real, server
  <1>10. ~disturbed' => saved = file /\ ~disturbed
    BY <1>2, <1>3
  <1>11. InOK'
    <2> SUFFICES ASSUME SignedInNow'
                 PROVE  memory' = Signed(last)' /\ file' = Signed(last)' /\ enabled' /\ job' # "blocked"
      BY <1>9 DEF InOK
    <2>1. last' = last /\ SignedInNow /\ saved = file
      BY <1>3, <1>10, Types DEF SignedInNow, server
    <2>2. file = Signed(last) /\ file # NoSession /\ file.token = last
      BY <2>1, Types DEF IInv, InOK, SignedInNow, LastOK, Signed, TypeOK
    <2>3. Valid(saved)
      BY <2>1, <2>2 DEF Valid, SignedInNow
    <2> QED BY <1>3, <2>1, <2>2, <2>3 DEF Signed, server
  <1>12. OutOK'
    <2> SUFFICES ASSUME last' = Out, ~disturbed'
                 PROVE  memory' = NoSession /\ file' = NoSession /\ ~enabled'
      BY <1>9 DEF OutOK
    <2>1. saved = NoSession
      BY <1>3, <1>10, Types DEF IInv, OutOK
    <2> QED BY <1>3, <2>1 DEF Valid
  <1> QED BY <1>7, <1>8, <1>9, <1>11, <1>12, <1>13 DEF IInv

LEMMA HourStep ==
    ASSUME IInv, HourPasses
    PROVE  IInv'
  <1>1. /\ UNCHANGED <<owner, revoked, expired, memory, file, enabled, calls, last, disturbed>>
        /\ job' = "ready"
    BY DEF HourPasses, server, store, history
  <1> QED
    BY <1>1 DEF IInv, TypeOK, LastOK, InOK, OutOK, SignedInNow, Issued, Stores, Under, Outside, Signed,
                Loaded, Real

LEMMA ExpireStep ==
    ASSUME IInv, NEW t \in Tokens, Expire(t)
    PROVE  IInv'
  <1>1. /\ UNCHANGED <<owner, revoked, memory, file, enabled, job, calls, last, disturbed>>
        /\ expired' = expired \cup {t} /\ t \in DOMAIN owner
    BY DEF Expire, store, engine, history
  <1>2. SignedInNow' => SignedInNow
    BY <1>1 DEF SignedInNow
  <1> QED
    BY <1>1, <1>2 DEF IInv, TypeOK, LastOK, InOK, OutOK, Issued, Stores, Under, Outside, Signed,
                      Loaded, Real

-----------------------------------------------------------------------------
(* The steps of the requests                                               *)

LEMMA LoadStep ==
    ASSUME IInv, NEW s \in Slots, NEW found \in {"sent", "store"}, NEW unread \in {"requestFile", "storeFile"},
           \/ calls[s].stage = "request" /\ found = "sent"
           \/ At(s, {"state"}, {"answered"}) /\ found = "store",
           found = "store" <=> unread = "storeFile",
           Load(s, found, unread), UNCHANGED <<server, store, engine, history>>
    PROVE  IInv'
  <1> DEFINE stage == IF Valid(memory) THEN found ELSE unread
             session == IF Valid(memory) THEN memory ELSE calls[s].session
             new == With(s, stage, session)
  <1>1. calls[s] \in CallType /\ memory \in Session
    BY CallFacts DEF IInv, TypeOK
  <1>2. stage \in Stages /\ stage \in {"sent", "store", "requestFile", "storeFile"} /\ session \in Session
    BY <1>1 DEF CallType, Stages
  <1>3. calls' = [calls EXCEPT ![s] = new]
    <2>1. new = [calls[s] EXCEPT !.stage = stage, !.session = session]
      BY DEF With
    <2> QED BY <1>1, <2>1 DEF Load, IInv, TypeOK, CallType
  <1>4. SignedInNow => Valid(memory) /\ memory = Signed(last)
    BY Types DEF IInv, InOK, SignedInNow, LastOK, Signed, TypeOK, Valid
  <1>5. SignedInNow => stage = found /\ session = Signed(last)
    BY <1>4
  <1> HIDE DEF stage, session
  <1>6. /\ new \in CallType /\ new.kind = calls[s].kind /\ new.late = calls[s].late
        /\ new.stage = stage /\ new.session = session /\ new.user = calls[s].user
    BY <1>2, WithType
  <1> HIDE DEF new
  <1>7. calls[s].kind # "none" /\ calls[s].kind # "login"
    BY NotIdle, CallFacts DEF Issued, At
  <1>12. /\ Real(session) /\ (stage \in {"sent", "store"} => session # NoSession)
         /\ stage \in {"store", "storeFile"} => calls[s].user \in Users
    BY CallFacts DEF Loaded, Valid, IInv, stage, session, At
  <1>8. \A call \in {new} : Issued(call)' /\ Stores(call)' /\ Loaded(call)'
    BY <1>2, <1>6, <1>7, <1>12 DEF Issued, Stores, Loaded, Real, server
  <1>9. SignedInNow' => \A call \in {new} : Under(call)'
    <2> SUFFICES ASSUME SignedInNow PROVE \A call \in {new} : Under(call)'
      BY DEF SignedInNow, server, history
    <2>1. Under(calls[s]) /\ stage = found /\ session = Signed(last)
      BY <1>5, CallFacts
    <2> QED BY <1>6, <1>7, <2>1 DEF Under, Signed, server, history, At
  <1>10. last = Out /\ ~disturbed => \A call \in {new} : Outside(call)'
    BY <1>6, <1>7, CallFacts DEF Outside, At
  <1>11. job \in {"ready", "work", "blocked"}
    BY DEF IInv, TypeOK
  <1> QED BY <1>3, <1>6, <1>7, <1>8, <1>9, <1>10, <1>11, SameServer, Quietly DEF engine, history

LEMMA HandleStep ==
    ASSUME IInv, NEW s \in Slots, Handle(s)
    PROVE  IInv'
  <1> DEFINE t == calls[s].session.token
  <1>1. /\ calls[s].kind \in Kinds \ {"login"} /\ calls[s].stage = "sent" /\ calls[s] \in CallType
        /\ UNCHANGED <<owner, expired, store, engine, history>>
    BY CallFacts DEF Handle, At
  <1>2. job \in {"ready", "work", "blocked"} /\ enabled \in BOOLEAN
    BY DEF IInv, TypeOK
  <1>3. ~(last = Out /\ ~disturbed /\ ~calls[s].late)
    BY <1>1, CallFacts, Types DEF Outside
  <1>4. SignedInNow /\ ~calls[s].late => t \notin revoked \cup expired /\ t = last
                                         /\ calls[s].session = Signed(last) /\ calls[s].kind \notin Signs
    BY <1>1, CallFacts, Types DEF Under, Signed, SignedInNow
  <1>5. CASE t \in revoked \cup expired
    <2>1. Go(s, "refused") /\ UNCHANGED server
      BY <1>1, <1>5 DEF Handle, server
    <2> DEFINE new == With(s, "refused", calls[s].session)
    <2>2. /\ calls' = [calls EXCEPT ![s] = new] /\ new \in CallType
          /\ new.kind = calls[s].kind /\ new.late = calls[s].late /\ new.stage = "refused"
          /\ new.session = calls[s].session
      BY <2>1, GoType, WithType DEF Stages
    <2> HIDE DEF new
    <2>3. \A call \in {new} : Issued(call)' /\ Stores(call)' /\ Loaded(call)'
      BY <1>1, <2>1, <2>2, CallFacts DEF Issued, Stores, Loaded, Real, server
    <2>4. SignedInNow' => new.late
      BY <1>1, <1>4, <1>5, <2>1, <2>2 DEF SignedInNow, server, history
    <2>5. SignedInNow' => \A call \in {new} : Under(call)'
      BY <2>4 DEF Under
    <2>6. last = Out /\ ~disturbed => \A call \in {new} : Outside(call)'
      BY <1>3, <2>2 DEF Outside
    <2> QED BY <1>1, <1>2, <2>1, <2>2, <2>3, <2>5, <2>6, Types, SameServer, Quietly DEF engine, history
  <1>6. CASE t \notin revoked \cup expired
    <2> DEFINE new == [calls[s] EXCEPT !.stage = "answered", !.user = owner[t]]
               more == CASE calls[s].kind \in {"logout", "device"} -> {t}
                         [] calls[s].kind = "all" -> {u \in DOMAIN owner : owner[u] = owner[t]}
                         [] OTHER -> {}
    <2>1. calls' = [calls EXCEPT ![s] = new] /\ revoked' = revoked \cup more
      BY <1>1, <1>6 DEF Handle, IInv, TypeOK
    <2>2. t \in DOMAIN owner /\ owner[t] \in Users
      BY <1>1, CallFacts DEF Loaded, Real, IInv, TypeOK
    <2>3. ServerGrows
      <3>1. more \subseteq DOMAIN owner
        BY <2>2
      <3> HIDE DEF more
      <3> QED BY <1>1, <2>1, <3>1 DEF ServerGrows, IInv, TypeOK
    <2>4. /\ new \in CallType /\ new.kind = calls[s].kind /\ new.late = calls[s].late
          /\ new.stage = "answered" /\ new.session = calls[s].session /\ new.user = owner[t]
      BY <1>1, <2>2 DEF CallType, Stages
    <2> HIDE DEF new, more
    <2>5. \A call \in {new} : Issued(call)' /\ Loaded(call)' /\ Stores(call)'
      <3>1. Real(calls[s].session)
        BY CallFacts DEF Loaded
      <3>2. \A call \in {new} : Issued(call)' /\ Stores(call)'
        BY <1>1, <2>4 DEF Issued, Stores
      <3>3. \A call \in {new} : Loaded(call)'
        BY <1>1, <2>2, <2>4, <3>1 DEF Loaded, Real
      <3> QED BY <3>2, <3>3
    <2>6. SignedInNow' => \A call \in {new} : Under(call)'
      <3> SUFFICES ASSUME SignedInNow' PROVE \A call \in {new} : Under(call)'
        OBVIOUS
      <3>1. SignedInNow
        BY <1>1, <2>1 DEF SignedInNow, history
      <3>2. ~new.late => calls[s].session = Signed(last) /\ t = last /\ calls[s].kind \notin Signs
        BY <1>4, <2>4, <3>1
      <3> QED BY <1>1, <2>4, <3>2 DEF Under, Signed, history
    <2>7. last = Out /\ ~disturbed => \A call \in {new} : Outside(call)'
      BY <1>3, <2>4 DEF Outside
    <2> QED BY <1>1, <1>2, <2>1, <2>3, <2>4, <2>5, <2>6, <2>7, Types, Quietly DEF engine, history
  <1> QED BY <1>5, <1>6

LEMMA LoseStep ==
    ASSUME IInv, NEW s \in Slots, Lose(s)
    PROVE  IInv'
  <1> DEFINE new == With(s, "failed", calls[s].session)
  <1>1. /\ calls[s].kind \in Kinds /\ calls[s].stage \in {"sent", "answered", "refused"}
        /\ Go(s, "failed") /\ UNCHANGED <<server, store, engine, history>>
    BY DEF Lose, At
  <1>2. /\ calls' = [calls EXCEPT ![s] = new] /\ new \in CallType
        /\ new.kind = calls[s].kind /\ new.late = calls[s].late /\ new.stage = "failed"
        /\ new.session = calls[s].session
    BY <1>1, GoType, WithType DEF Stages
  <1> HIDE DEF new
  <1>3. \A call \in {new} : Issued(call)' /\ Stores(call)' /\ Loaded(call)'
    BY <1>1, <1>2, CallFacts DEF Issued, Stores, Loaded, Real, server
  <1>4. SignedInNow' => \A call \in {new} : Under(call)'
    <2> SUFFICES ASSUME SignedInNow' PROVE \A call \in {new} : Under(call)'
      OBVIOUS
    <2>1. Under(calls[s])
      BY <1>1, CallFacts DEF SignedInNow, server, history
    <2> QED BY <1>1, <1>2, <2>1, Types DEF Under, Signed, server, history
  <1>5. last = Out /\ ~disturbed => \A call \in {new} : Outside(call)'
    BY <1>1, <1>2, CallFacts, Types DEF Outside
  <1>6. job \in {"ready", "work", "blocked"}
    BY DEF IInv, TypeOK
  <1> QED BY <1>1, <1>2, <1>3, <1>4, <1>5, <1>6, Types, SameServer, Quietly DEF engine, history

LEMMA RequestSteps ==
    ASSUME IInv, NEW s \in Slots, RequestNext(s)
    PROVE  IInv'
  <1>1. CASE GateFile(s)
    <2> DEFINE found == IF calls[s].kind = "state" THEN "request" ELSE "take"
    <2>1. found \in {"sent", "store", "request", "take"} /\ found # "store"
      OBVIOUS
    <2>2. calls[s].stage = "gateFile" /\ LoadFile(s, found, "gate") /\ UNCHANGED <<server, engine, last>>
      BY <1>1 DEF GateFile
    <2> HIDE DEF found
    <2> QED BY <2>1, <2>2, LoadFileStep
  <1>2. CASE Request(s)
    BY <1>2, LoadStep DEF Request
  <1>3. CASE RequestFile(s)
    BY <1>3, LoadFileStep DEF RequestFile
  <1>4. CASE Refused(s)
    <2>1. calls[s].kind \in Kinds \ {"login"}
      BY <1>4, CallFacts DEF Refused, At, Issued
    <2> QED BY <1>4, <2>1, ClearStep DEF Refused, At
  <1>5. CASE Erase(s)
    <2> DEFINE next == CASE calls[s].kind \in {"sync", "quit"} -> "denied"
                         [] calls[s].kind \in {"state", "logout"} -> "again"
                         [] OTHER -> "end"
               new == With(s, next, calls[s].session)
    <2>1. /\ calls[s].stage = "erasing" /\ file' = NoSession /\ enabled' = FALSE /\ Touch(s)
          /\ Go(s, next) /\ UNCHANGED <<server, memory, job, last>>
      BY <1>5 DEF Erase
    <2>2. next \in {"denied", "again", "end"} /\ next \in Stages
      BY DEF Stages
    <2> HIDE DEF next
    <2>3. /\ calls' = [calls EXCEPT ![s] = new] /\ new \in CallType
          /\ new.kind = calls[s].kind /\ new.late = calls[s].late /\ new.stage = next
          /\ new.session = calls[s].session
      BY <2>1, <2>2, GoType, WithType
    <2> HIDE DEF new
    <2>4. calls[s].kind \in Kinds /\ calls[s].kind # "none" /\ calls[s].kind # "login"
      BY <2>1, NotIdle, CallFacts DEF Issued, CallType
    <2>5. memory \in Session /\ job \in {"ready", "work", "blocked"}
      BY DEF IInv, TypeOK
    <2> QED BY <2>1, <2>2, <2>3, <2>4, <2>5, Types, Takes
  <1> QED BY <1>1, <1>2, <1>3, <1>4, <1>5, WriteStep, HandleStep, LoseStep DEF RequestNext

-----------------------------------------------------------------------------
(* The steps of signing in and out                                         *)

LEMMA IssueStep ==
    ASSUME IInv, NEW s \in Slots, NEW u \in Users, Issue(s, u)
    PROVE  IInv'
  <1>1. PICK t \in Tokens \ DOMAIN owner :
           /\ owner' = [r \in DOMAIN owner \cup {t} |-> IF r = t THEN u ELSE owner[r]]
           /\ calls' = [calls EXCEPT ![s].stage = "answered",
                                     ![s].session = [token |-> t, user |-> u]]
    BY DEF Issue
  <1> DEFINE issued == [token |-> t, user |-> u]
             new == With(s, "answered", issued)
  <1>2. /\ calls[s].kind = "login" /\ calls[s].stage = "sent" /\ calls[s] \in CallType
        /\ UNCHANGED <<revoked, expired, store, engine, history>>
    BY CallFacts DEF Issue, At
  <1>3. calls' = [calls EXCEPT ![s] = new]
    <2>1. new = [calls[s] EXCEPT !.stage = "answered", !.session = issued]
      BY DEF With
    <2> QED BY <1>1, <2>1 DEF IInv, TypeOK
  <1>4. issued \in Session /\ issued # NoSession
    BY Types
  <1>5. /\ new \in CallType /\ new.kind = "login" /\ new.late = calls[s].late
        /\ new.stage = "answered" /\ new.session = issued
    BY <1>2, <1>4, WithType DEF Stages
  <1> HIDE DEF new
  <1>6. ServerGrows
    BY <1>1, <1>2 DEF ServerGrows, IInv, TypeOK
  <1>7. t \in DOMAIN owner' /\ owner'[t] = u
    BY <1>1
  <1>8. \A call \in {new} : Issued(call)' /\ Loaded(call)' /\ Stores(call)'
    BY <1>5, <1>7 DEF Issued, Loaded, Stores, Real, Signed
  <1>9. SignedInNow' => \A call \in {new} : Under(call)'
    <2>1. SignedInNow' => last \in Tokens
      BY <1>2 DEF SignedInNow, history
    <2>2. SignedInNow' => new.late
      BY <1>2, <1>5, <2>1, CallFacts, Types DEF Signs
    <2> QED BY <2>2 DEF Under
  <1>10. last = Out /\ ~disturbed => \A call \in {new} : Outside(call)'
    BY <1>2, <1>5, CallFacts DEF Outside
  <1>11. job \in {"ready", "work", "blocked"}
    BY DEF IInv, TypeOK
  <1> QED BY <1>2, <1>3, <1>5, <1>6, <1>8, <1>9, <1>10, <1>11, Quietly DEF engine, history, Signs

\* A session is saved: by a sign-in the one that was issued, by me the one it was under.
LEMMA SaveStep ==
    ASSUME IInv, NEW s \in Slots, NEW session \in Session, Save(s, session), Real(session),
           \/ calls[s].kind = "login" /\ session = calls[s].session /\ calls[s].stage = "answered"
           \/ /\ calls[s].stage = "store"
              /\ session = [calls[s].session EXCEPT !.user = calls[s].user],
           UNCHANGED <<server, file, engine, last>>
    PROVE  IInv'
  <1> DEFINE new == With(s, "writing", session)
  <1>1. memory' = session /\ Touch(s) /\ calls[s] \in CallType
        /\ calls' = [calls EXCEPT ![s].stage = "writing", ![s].session = session]
    BY CallFacts DEF Save
  <1>2. calls' = [calls EXCEPT ![s] = new]
    <2>1. new = [calls[s] EXCEPT !.stage = "writing", !.session = session]
      BY DEF With
    <2> QED BY <1>1, <2>1 DEF IInv, TypeOK
  <1>3. /\ new \in CallType /\ new.kind = calls[s].kind /\ new.late = calls[s].late
        /\ new.stage = "writing" /\ new.session = session /\ new.user = calls[s].user
    BY WithType DEF Stages
  <1> HIDE DEF new
  <1>4. calls[s].kind # "none"
    BY NotIdle
  <1>5. calls[s].kind = "login" => /\ session.token \in DOMAIN owner /\ session = Signed(session.token)
    BY CallFacts DEF Issued
  <1>6. \A call \in {new} : Issued(call)' /\ Loaded(call)' /\ Stores(call)'
    BY <1>1, <1>3, <1>5 DEF Issued, Loaded, Stores, Real, Signed, server
  <1>7. \A saved \in {memory', file'} : Real(saved)'
    BY <1>1 DEF IInv, Real, server
  <1>8. SignedInNow' => /\ memory' = Signed(last)' /\ file' = Signed(last)' /\ enabled' /\ job' # "blocked"
                        /\ \A call \in {new} : Under(call)'
    <2> SUFFICES ASSUME SignedInNow'
                 PROVE  /\ memory' = Signed(last)' /\ file' = Signed(last)' /\ enabled'
                        /\ job' # "blocked" /\ \A call \in {new} : Under(call)'
      OBVIOUS
    <2>1. SignedInNow /\ ~calls[s].late /\ calls[s].kind # "login"
      BY <1>1, Undisturbed, Types DEF SignedInNow, server, Signs
    <2>2. /\ calls[s].session = Signed(last) /\ calls[s].user = owner[last]
          /\ calls[s].kind = "state"
      BY <1>4, <2>1, CallFacts DEF Under
    <2>3. session = Signed(last)
      BY <2>1, <2>2 DEF Signed
    <2>4. file = Signed(last) /\ enabled /\ job # "blocked"
      BY <2>1 DEF IInv, InOK
    <2> QED BY <1>1, <1>3, <2>2, <2>3, <2>4 DEF Under, Signed, server, engine
  <1>9. last' = Out /\ ~disturbed' => FALSE
    BY <1>1, <1>4, Undisturbed, CallFacts, Types DEF Outside, Signs
  <1>10. ServerGrows /\ file' \in Session /\ enabled' \in BOOLEAN /\ job' \in {"ready", "work", "blocked"}
    BY SameServer DEF IInv, TypeOK, engine
  <1>11. last' = last /\ memory' \in Session
    BY <1>1
  <1>12. \/ UNCHANGED <<memory, file, disturbed>>
         \/ Touch(s)
    BY <1>1
  <1>13. last' = Out /\ ~disturbed' =>
            memory' = NoSession /\ file' = NoSession /\ ~enabled' /\ \A call \in {new} : Outside(call)'
    BY <1>9
  <1> QED BY <1>2, <1>3, <1>4, <1>6, <1>7, <1>8, <1>10, <1>11, <1>13, <1>12, Goes

LEMMA SignsSteps ==
    ASSUME IInv, NEW s \in Slots, SignsNext(s)
    PROVE  IInv'
  <1>0. /\ memory \in Session /\ file \in Session /\ enabled \in BOOLEAN
        /\ job \in {"ready", "work", "blocked"} /\ disturbed \in BOOLEAN
    BY DEF IInv, TypeOK
  <1>1. CASE BeginLogin(s)
    BY <1>0, <1>1, Begins DEF BeginLogin, engine, Signs
  <1>2. CASE \E u \in Users : Issue(s, u)
    BY <1>2, IssueStep
  <1>3. CASE SaveLogin(s)
    <2>1. calls[s].session \in Session /\ Real(calls[s].session)
      BY CallFacts DEF CallType, Loaded
    <2> QED BY <1>3, <2>1, SaveStep DEF SaveLogin, At
  <1>4. CASE LoginFailed(s) \/ SignOutFailed(s)
    <2>1. Ended(s, 0) /\ UNCHANGED <<server, memory, file, enabled, job, disturbed>>
      BY <1>4 DEF LoginFailed, SignOutFailed, store, engine
    <2>2. Real(memory') /\ Real(file')
      BY <2>1 DEF IInv
    <2>3. last' = 0 /\ ~SignedInNow'
      BY <2>1, Types DEF Ended, SignedInNow
    <2> QED BY <1>0, <2>1, <2>2, <2>3, Types, Ends
  <1>5. CASE SignedIn(s)
    <2> DEFINE t == calls[s].session.token
    <2>1. /\ calls[s].kind = "login" /\ calls[s].stage = "end" /\ enabled' = TRUE /\ job' = Requeued
          /\ Ended(s, t) /\ Touch(s) /\ UNCHANGED <<server, memory, file>>
      BY <1>5 DEF SignedIn, At, store
    <2>2. t \in DOMAIN owner /\ calls[s].session = Signed(t) /\ t \in Tokens
      BY <2>1, CallFacts DEF Issued, IInv, TypeOK
    <2>3. job' \in {"ready", "work"}
      BY <1>0, <2>1 DEF Requeued
    <2>4. last' = t
      BY <2>1 DEF Ended
    <2>5. ~disturbed' => memory = Signed(t) /\ file = Signed(t)
      BY <2>1, <2>2, Undisturbed, CallFacts DEF Stores
    <2>6. SignedInNow' => memory' = Signed(last)' /\ file' = Signed(last)'
      BY <2>1, <2>4, <2>5 DEF SignedInNow, Signed, server
    <2>7. Real(memory') /\ Real(file') /\ disturbed' \in BOOLEAN
      BY <1>0, <2>1 DEF IInv, Touch
    <2>8. last' # Out
      BY <2>2, <2>4, Types
    <2> HIDE DEF t
    <2> QED BY <1>0, <2>1, <2>2, <2>3, <2>6, <2>7, <2>8, Ends
  <1>6. CASE \E k \in Signs \ {"login"} : BeginSignOut(s, k)
    <2>1. PICK k \in Signs \ {"login"} : BeginSignOut(s, k)
      BY <1>6
    <2> QED BY <1>0, <2>1, Begins DEF BeginSignOut, engine
  <1>7. CASE SignOut(s)
    BY <1>7, Types, ClearStep DEF SignOut, At, Signs
  <1>8. CASE SignedOut(s)
    <2>1. /\ calls[s].kind \in Signs /\ calls[s].stage = "leaving" /\ file' = NoSession
          /\ enabled' = FALSE /\ Ended(s, Out) /\ Touch(s) /\ UNCHANGED <<server, memory, job>>
      BY <1>8 DEF SignedOut, At
    <2>2. last' = Out /\ ~SignedInNow'
      BY <2>1, Types DEF Ended, SignedInNow
    <2>3. ~disturbed' => memory = NoSession
      BY <2>1, Undisturbed, CallFacts DEF Stores
    <2>4. Real(memory') /\ Real(file') /\ disturbed' \in BOOLEAN
      BY <1>0, <2>1 DEF IInv, Touch, Real
    <2> QED BY <1>0, <2>1, <2>2, <2>3, <2>4, Types, Ends
  <1> QED BY <1>1, <1>2, <1>3, <1>4, <1>5, <1>6, <1>7, <1>8 DEF SignsNext

-----------------------------------------------------------------------------
(* The steps of auth:state                                                 *)

LEMMA BeginStateStep ==
    ASSUME IInv, NEW s \in Slots, BeginState(s)
    PROVE  IInv'
  <1> DEFINE stage == IF Valid(memory) THEN "request" ELSE "gateFile"
             new == [NoCall EXCEPT !.kind = "state", !.session = memory, !.stage = stage]
  <1>1. calls[s] = NoCall /\ UNCHANGED <<server, store, engine, history>> /\ memory \in Session
    BY DEF BeginState, IInv, TypeOK
  <1>2. calls' = [calls EXCEPT ![s] = new]
    BY DEF BeginState
  <1>3. /\ new \in CallType /\ new.kind = "state" /\ ~new.late
        /\ new.stage = stage /\ new.session = memory
    BY <1>1, Types DEF NoCall, CallType, Stages, Kinds
  <1>4. SignedInNow => stage = "request" /\ memory = Signed(last)
    BY Types DEF IInv, InOK, SignedInNow, LastOK, Signed, TypeOK, Valid
  <1>5. last = Out /\ ~disturbed => stage = "gateFile"
    BY DEF IInv, OutOK, Valid
  <1>6. stage \in {"request", "gateFile"}
    OBVIOUS
  <1> HIDE DEF new, stage
  <1>7. \A call \in {new} : Issued(call)' /\ Loaded(call)' /\ Stores(call)'
    BY <1>1, <1>3, <1>6 DEF Issued, Loaded, Stores, Signs, Real, server, IInv
  <1>8. SignedInNow' => \A call \in {new} : Under(call)'
    <2> SUFFICES ASSUME SignedInNow' PROVE \A call \in {new} : Under(call)'
      OBVIOUS
    <2>1. stage = "request" /\ memory = Signed(last)
      BY <1>1, <1>4 DEF SignedInNow, server, history
    <2> QED BY <1>1, <1>3, <2>1 DEF Under, Signed, server, history
  <1>9. last = Out /\ ~disturbed => \A call \in {new} : Outside(call)'
    BY <1>3, <1>5 DEF Outside
  <1>10. job \in {"ready", "work", "blocked"}
    BY DEF IInv, TypeOK
  <1> QED BY <1>1, <1>2, <1>3, <1>7, <1>8, <1>9, <1>10, SameServer, Quietly DEF engine, history, Signs

LEMMA NoCallIsRight ==
    \A call \in {NoCall} : /\ Issued(call)' /\ Loaded(call)' /\ Stores(call)'
                           /\ Under(call)' /\ Outside(call)'
  BY Types DEF Issued, Loaded, Stores, Under, Outside, Signs, Real

LEMMA StateSteps ==
    ASSUME IInv, NEW s \in Slots, StateNext(s)
    PROVE  IInv'
  <1>0. /\ memory \in Session /\ file \in Session /\ enabled \in BOOLEAN
        /\ job \in {"ready", "work", "blocked"} /\ Real(memory) /\ Real(file)
    BY DEF IInv, TypeOK
  <1>1. CASE StateNobody(s)
    <2>1. /\ calls[s].kind = "state" /\ calls[s].stage = "gate" /\ enabled' = FALSE /\ Touch(s)
          /\ calls' = [calls EXCEPT ![s] = NoCall] /\ UNCHANGED <<server, memory, file, job, last>>
      BY <1>1 DEF StateNobody, At, store
    <2>2. \A session \in {memory', file'} : Real(session)'
      BY <1>0, <2>1 DEF Real, server
    <2>3. SignedInNow' => FALSE
      <3> SUFFICES ASSUME SignedInNow' PROVE FALSE
        OBVIOUS
      <3>1. SignedInNow /\ ~calls[s].late
        BY <2>1, Undisturbed DEF SignedInNow, server
      <3> QED BY <2>1, <3>1, CallFacts DEF Under
    <2>4. last' = Out /\ ~disturbed' => memory' = NoSession /\ file' = NoSession /\ ~enabled'
      BY <2>1, Undisturbed DEF IInv, OutOK
    <2> QED BY <1>0, <2>1, <2>2, <2>3, <2>4, NoCallIsRight, Types, SameServer, Goes
  <1>2. CASE Me(s)
    BY <1>2, LoadStep DEF Me
  <1>3. CASE MeFile(s)
    BY <1>3, LoadFileStep DEF MeFile
  <1>4. CASE MeSave(s)
    <2> DEFINE session == [calls[s].session EXCEPT !.user = calls[s].user]
    <2>1. /\ calls[s] \in CallType /\ calls[s].session # NoSession /\ calls[s].user \in Users
          /\ Real(calls[s].session)
      BY <1>4, CallFacts DEF MeSave, Loaded
    <2>2. session \in Session /\ session.token = calls[s].session.token
      BY <2>1 DEF CallType, Session
    <2>3. Real(session)
      BY <2>1, <2>2 DEF Real
    <2>4. calls[s].stage = "store" /\ Save(s, session) /\ UNCHANGED <<server, file, engine, last>>
      BY <1>4 DEF MeSave
    <2> QED BY <2>2, <2>3, <2>4, SaveStep
  <1>5. CASE StateRefused(s)
    BY <1>5, ClearStep DEF StateRefused, At, Kinds
  <1>6. CASE StateCleared(s)
    <2>1. /\ calls[s].kind = "state" /\ calls[s].stage = "leaving" /\ file' = NoSession
          /\ enabled' = FALSE /\ Touch(s) /\ calls' = [calls EXCEPT ![s] = NoCall]
          /\ UNCHANGED <<server, memory, job, last>>
      BY <1>6 DEF StateCleared, At
    <2> QED BY <1>0, <2>1, Types, Takes DEF Kinds
  <1>7. CASE StateShown(s)
    <2>1. /\ calls' = [calls EXCEPT ![s] = NoCall] /\ UNCHANGED <<server, store, engine, history>>
      BY <1>7 DEF StateShown
    <2> QED BY <1>0, <2>1, NoCallIsRight, Types, SameServer, Quietly DEF engine, history
  <1> QED BY <1>1, <1>2, <1>3, <1>4, <1>5, <1>6, <1>7, BeginStateStep DEF StateNext

-----------------------------------------------------------------------------
(* The steps of the queue and of the quit                                  *)

LEMMA LeftType ==
    ASSUME IInv, NEW s \in Slots, calls[s].kind \in {"sync", "quit"}, Left(s)
    PROVE  \E new \in CallType :
              /\ calls' = [calls EXCEPT ![s] = new]
              /\ \/ new = NoCall
                 \/ /\ new.kind = "quit" /\ calls[s].kind = "quit" /\ new.late = calls[s].late
                    /\ new.stage = "end" /\ new.session = calls[s].session
  <1> DEFINE new == IF calls[s].kind = "quit" THEN With(s, "end", calls[s].session) ELSE NoCall
  <1>1. calls[s] \in CallType /\ calls[s].session \in Session
    BY CallFacts DEF CallType
  <1>2. new \in CallType /\ (new = NoCall \/ (/\ new.kind = "quit" /\ calls[s].kind = "quit"
                                              /\ new.late = calls[s].late /\ new.stage = "end"
                                              /\ new.session = calls[s].session))
    BY <1>1, WithType, Types DEF Stages
  <1>3. With(s, "end", calls[s].session) = [calls[s] EXCEPT !.stage = "end"]
    BY <1>1 DEF With, CallType
  <1>4. calls' = [calls EXCEPT ![s] = new]
    BY <1>3 DEF Left
  <1> QED BY <1>2, <1>4

LEMMA BeginSyncStep ==
    ASSUME IInv, NEW s \in Slots, NEW k \in {"sync", "quit"}, BeginSync(s, k)
    PROVE  IInv'
  <1> DEFINE stage == IF Valid(memory) THEN "take" ELSE "gateFile"
             new == [NoCall EXCEPT !.kind = k, !.session = memory, !.stage = stage]
  <1>1. /\ calls[s] = NoCall /\ enabled /\ UNCHANGED <<server, store, engine, history>>
        /\ memory \in Session
    BY DEF BeginSync, IInv, TypeOK
  <1>2. calls' = [calls EXCEPT ![s] = new]
    BY DEF BeginSync
  <1>3. /\ new \in CallType /\ new.kind = k /\ ~new.late
        /\ new.stage = stage /\ new.session = memory
    BY <1>1, Types DEF NoCall, CallType, Stages, Kinds
  <1>4. SignedInNow => stage = "take" /\ memory = Signed(last)
    BY Types DEF IInv, InOK, SignedInNow, LastOK, Signed, TypeOK, Valid
  <1>5. ~(last = Out /\ ~disturbed)
    BY <1>1 DEF IInv, OutOK
  <1>6. stage \in {"take", "gateFile"}
    OBVIOUS
  <1> HIDE DEF new, stage
  <1>7. \A call \in {new} : Issued(call)' /\ Loaded(call)' /\ Stores(call)'
    BY <1>1, <1>3, <1>6 DEF Issued, Loaded, Stores, Signs, Real, server, IInv
  <1>8. SignedInNow' => \A call \in {new} : Under(call)'
    <2> SUFFICES ASSUME SignedInNow' PROVE \A call \in {new} : Under(call)'
      OBVIOUS
    <2>1. stage = "take" /\ memory = Signed(last)
      BY <1>1, <1>4 DEF SignedInNow, server, history
    <2> QED BY <1>1, <1>3, <2>1 DEF Under, Signed, server, history
  <1>9. job \in {"ready", "work", "blocked"}
    BY DEF IInv, TypeOK
  <1> QED BY <1>1, <1>2, <1>3, <1>5, <1>7, <1>8, <1>9, SameServer, Quietly DEF engine, history, Signs

LEMMA TakeStep ==
    ASSUME IInv, NEW s \in Slots, Take(s)
    PROVE  IInv'
  <1> DEFINE stage == IF job = "ready" THEN "request" ELSE "gate"
             new == With(s, stage, calls[s].session)
  <1>1. /\ calls[s].stage = "take" /\ Go(s, stage) /\ job' \in {job, "work"}
        /\ UNCHANGED <<server, store, enabled, last, disturbed>>
    BY DEF Take, history
  <1>2. stage \in Stages /\ stage \in {"request", "gate"} /\ job \in {"ready", "work", "blocked"}
    BY DEF Stages, IInv, TypeOK
  <1> HIDE DEF stage
  <1>3. /\ calls' = [calls EXCEPT ![s] = new] /\ new \in CallType
        /\ new.kind = calls[s].kind /\ new.late = calls[s].late /\ new.stage = stage
        /\ new.session = calls[s].session
    BY <1>1, <1>2, GoType, WithType
  <1> HIDE DEF new
  <1>4. calls[s].kind # "none" /\ calls[s].kind # "login"
    BY <1>1, NotIdle, CallFacts DEF Issued
  <1>5. \A call \in {new} : Issued(call)' /\ Loaded(call)' /\ Stores(call)'
    BY <1>1, <1>2, <1>3, <1>4, CallFacts DEF Issued, Loaded, Stores, Real, server
  <1>6. SignedInNow' => \A call \in {new} : Under(call)'
    <2> SUFFICES ASSUME SignedInNow' PROVE \A call \in {new} : Under(call)'
      OBVIOUS
    <2>1. Under(calls[s])
      BY <1>1, CallFacts DEF SignedInNow, server
    <2> QED BY <1>1, <1>2, <1>3, <2>1 DEF Under, Signed, server
  <1>7. last = Out /\ ~disturbed => \A call \in {new} : Outside(call)'
    BY <1>1, <1>3, <1>4, CallFacts DEF Outside
  <1> QED BY <1>1, <1>2, <1>3, <1>4, <1>5, <1>6, <1>7, SameServer, Quietly

LEMMA SyncSteps ==
    ASSUME IInv, NEW s \in Slots, SyncNext(s)
    PROVE  IInv'
  <1>0. /\ memory \in Session /\ file \in Session /\ enabled \in BOOLEAN
        /\ job \in {"ready", "work", "blocked"}
    BY DEF IInv, TypeOK
  <1>1. CASE NotTaken(s) \/ Worked(s)
    <2>1. /\ calls[s].kind \in {"sync", "quit"} /\ calls[s].stage \in {"gate", "answered", "failed"}
          /\ Left(s) /\ job' \in {job, "ready"} /\ UNCHANGED <<server, store, enabled, last, disturbed>>
      BY <1>1 DEF NotTaken, Worked, At, engine, history
    <2>2. PICK new \in CallType :
              /\ calls' = [calls EXCEPT ![s] = new]
              /\ \/ new = NoCall
                 \/ /\ new.kind = "quit" /\ calls[s].kind = "quit" /\ new.late = calls[s].late
                    /\ new.stage = "end" /\ new.session = calls[s].session
      BY <2>1, LeftType
    <2>3. CASE new = NoCall
      BY <1>0, <2>1, <2>2, <2>3, NoCallIsRight, SameServer, Quietly
    <2>4. CASE new # NoCall
      <3>1. \A call \in {new} : Issued(call)' /\ Loaded(call)' /\ Stores(call)'
        BY <2>1, <2>2, <2>4, CallFacts DEF Issued, Loaded, Stores, Signs, Real, server
      <3>2. SignedInNow' => \A call \in {new} : Under(call)'
        <4> SUFFICES ASSUME SignedInNow' PROVE \A call \in {new} : Under(call)'
          OBVIOUS
        <4>1. Under(calls[s])
          BY <2>1, CallFacts DEF SignedInNow, server
        <4> QED BY <2>1, <2>2, <2>4, <4>1 DEF Under, Signed, server
      <3>3. last = Out /\ ~disturbed => \A call \in {new} : Outside(call)'
        BY <2>1, <2>2, <2>4, CallFacts DEF Outside
      <3> QED BY <1>0, <2>1, <2>2, <2>4, <3>1, <3>2, <3>3, SameServer, Quietly
    <2> QED BY <2>3, <2>4
  <1>2. CASE Blocked(s)
    <2>1. /\ calls[s].kind \in {"sync", "quit"} /\ calls[s].stage = "denied"
          /\ Left(s) /\ job' = "blocked" /\ Touch(s)
          /\ UNCHANGED <<server, memory, file, enabled, last>>
      BY <1>2 DEF Blocked, At, store
    <2>2. PICK new \in CallType :
              /\ calls' = [calls EXCEPT ![s] = new]
              /\ \/ new = NoCall
                 \/ /\ new.kind = "quit" /\ calls[s].kind = "quit" /\ new.late = calls[s].late
                    /\ new.stage = "end" /\ new.session = calls[s].session
      BY <2>1, LeftType
    <2>3. calls[s].kind \in Kinds
      BY <2>1 DEF Kinds
    <2> QED BY <1>0, <2>1, <2>2, <2>3, Takes
  <1>3. CASE Quit(s)
    BY <1>3, RestartStep DEF Quit
  <1> QED BY <1>1, <1>2, <1>3, BeginSyncStep, TakeStep DEF SyncNext

-----------------------------------------------------------------------------
(* The theorems                                                            *)

LEMMA InitIsRight ==
    ASSUME Init
    PROVE  IInv
  <1>1. /\ owner = [t \in {} |-> Nobody] /\ revoked = {} /\ expired = {} /\ memory = NoSession
        /\ file = NoSession /\ enabled = FALSE /\ job = "ready"
        /\ calls = [s \in Slots |-> NoCall] /\ last = 0 /\ disturbed = FALSE
    BY DEF Init
  <1>2. TypeOK
    BY <1>1, Types DEF TypeOK, CallType
  <1>3. LastOK /\ InOK /\ OutOK
    BY <1>1, Types DEF LastOK, InOK, OutOK, SignedInNow
  <1>4. \A s \in Slots : /\ Issued(calls[s]) /\ Loaded(calls[s]) /\ Stores(calls[s])
                         /\ calls[s] = NoCall
    BY <1>1, Types DEF Issued, Loaded, Stores, Signs, Real
  <1> QED BY <1>1, <1>2, <1>3, <1>4 DEF IInv, Real

LEMMA StepIsRight ==
    ASSUME IInv, [Next]_vars
    PROVE  IInv'
  <1>1. CASE UNCHANGED vars
    BY <1>1 DEF vars, server, store, engine, history, IInv, TypeOK, LastOK, InOK, OutOK, SignedInNow,
                Issued, Stores, Under, Outside, Signed, Loaded, Real
  <1>2. CASE Next
    BY <1>2, SignsSteps, StateSteps, SyncSteps, RequestSteps, HourStep, RestartStep, ExpireStep
       DEF Next, Crash
  <1> QED BY <1>1, <1>2

\* IInv is an invariant: how far every call may have got, beside what is stored.
THEOREM Inductive == Spec => []IInv
  BY InitIsRight, StepIsRight, PTL DEF Spec

\* Every variable holds a value of its type.
THEOREM TypeCorrect == Spec => []TypeOK
  <1>1. IInv => TypeOK
    BY DEF IInv
  <1> QED BY <1>1, Inductive, PTL

\* A sign-in lasts: while the server accepts its token, only a call from before it can
\* lose the session or give it to another user.
THEOREM SignInLasts == Spec => []LoginSticks
  <1>1. IInv => LoginSticks
    BY Types DEF IInv, InOK, LoginSticks, SignedInNow, LastOK, Signed, Stored, Valid, TypeOK
  <1> QED BY <1>1, Inductive, PTL

\* While a sign-in lasts the engine has its access, and no job waits for a session.
THEOREM SignedInWorks == Spec => []SignedInSyncs
  <1>1. IInv => SignedInSyncs
    BY DEF IInv, InOK, SignedInSyncs
  <1> QED BY <1>1, Inductive, PTL

\* A sign-out lasts: no session is left, in memory or in the file, and the engine stays
\* stopped, until another sign-in or a call from before it.
THEOREM SignOutLasts == Spec => []SignedOutStaysOut
  <1>1. IInv => SignedOutStaysOut
    BY DEF IInv, OutOK, SignedOutStaysOut
  <1> QED BY <1>1, Inductive, PTL

=============================================================================
