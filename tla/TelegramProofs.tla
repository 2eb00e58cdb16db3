--------------------------- MODULE TelegramProofs ---------------------------
(***************************************************************************)
(* Telegram on the desktop, for any number of passes, messages, faults,    *)
(* functions under way and bridges.                                        *)
(*                                                                         *)
(* The import of the group: a document stays on the disk, at its path or   *)
(* at a backup name that somebody will still bring back (Safe), and what a *)
(* pass or the checkpoint is past needs no second look (Dealt).            *)
(***************************************************************************)
EXTENDS GroupImport, TelegramBridge, WellFoundedInduction, TLAPS

-----------------------------------------------------------------------------
(* What the operators of GroupImport return.                                *)

\* A set of numbers of messages that is not empty has a least and a greatest one.
LEMMA LeastNumber ==
    ASSUME NEW n \in Nat, NEW S, S \subseteq 1 .. n, S # {}
    PROVE  Min(S) \in S /\ \A y \in S : Min(S) <= y
  <1>1. S \subseteq Nat
    OBVIOUS
  <1>2. PICK x \in S : \A y \in S : ~(<<y, x>> \in OpToRel(<, Nat))
    BY <1>1, WFMin, NatLessThanWellFounded
  <1>3. \A y \in S : x <= y
    <2> SUFFICES ASSUME NEW y \in S PROVE x <= y
      OBVIOUS
    <2>1. ~(y < x) /\ x \in Nat /\ y \in Nat
      BY <1>1, <1>2 DEF OpToRel
    <2> QED BY <2>1
  <1> QED BY <1>3 DEF Min

LEMMA GreatestNumber ==
    ASSUME NEW n \in Nat, NEW S, S \subseteq 1 .. n, S # {}
    PROVE  Max(S) \in S /\ \A y \in S : y <= Max(S)
  <1> DEFINE T == {n + 1 - x : x \in S}
  <1>1. \A x \in S : x \in Int /\ 1 <= x /\ x <= n
    OBVIOUS
  <1>2. T \subseteq 1 .. n /\ T # {}
    <2>1. \A x \in S : n + 1 - x \in 1 .. n
      BY <1>1
    <2> QED BY <2>1
  <1>3. PICK t \in T : \A y \in T : t <= y
    BY <1>2, LeastNumber
  <1>4. PICK x \in S : t = n + 1 - x
    OBVIOUS
  <1>5. \A y \in S : y <= x
    <2> SUFFICES ASSUME NEW y \in S PROVE y <= x
      OBVIOUS
    <2>1. n + 1 - y \in T
      OBVIOUS
    <2>2. n + 1 - x <= n + 1 - y
      BY <2>1, <1>3, <1>4
    <2> HIDE DEF T
    <2> QED BY <2>2, <1>1
  <1> QED BY <1>5 DEF Max

\* A message arrives at the end of the group, and changes none of the others.
LEMMA Arrived ==
    ASSUME TypeOK, RowsOK, NEW kind \in Kinds, Arrive(kind)
    PROVE  /\ group' \in Seq(Kinds) /\ Len(group') = Len(group) + 1 /\ Len(group') <= MaxMessages
           /\ \A m \in Messages : m \in Messages' /\ group'[m] = group[m]
           /\ group'[Len(group) + 1] = kind
           /\ heard' \subseteq Messages'
           /\ \A m \in Messages' \ Messages : m = Len(group) + 1 /\ imports[m] = "none"
  <1>1. scene.messages \in 0 .. MaxMessages /\ MaxMessages \in Nat
    BY GroupImportAssumption DEF TypeOK
  <1>2. Len(group) < MaxMessages /\ group' = Append(group, kind) /\ group \in Seq(Kinds)
    BY <1>1 DEF Arrive, TypeOK
  <1>3. Len(group) \in Nat
    BY <1>2
  <1>4. group' \in Seq(Kinds) /\ Len(group') = Len(group) + 1 /\ group'[Len(group) + 1] = kind
    BY <1>2
  <1>5. \A m \in Messages : m \in Messages' /\ group'[m] = group[m]
    BY <1>2, <1>3, <1>4 DEF Messages
  <1>6. heard' \subseteq Messages'
    <2>1. heard \subseteq Messages
      BY DEF TypeOK
    <2>2. heard' \subseteq heard \cup {Len(group) + 1}
      BY DEF Arrive
    <2>3. Len(group) + 1 \in Messages'
      BY <1>3, <1>4 DEF Messages
    <2> QED BY <2>1, <2>2, <2>3, <1>5
  <1>7. \A m \in Messages' \ Messages : m = Len(group) + 1 /\ imports[m] = "none"
    <2> SUFFICES ASSUME NEW m \in Messages' \ Messages
                 PROVE  m = Len(group) + 1 /\ imports[m] = "none"
      OBVIOUS
    <2>1. m = Len(group) + 1
      BY <1>3, <1>4 DEF Messages
    <2>2. m \in Numbers
      BY <2>1, <1>1, <1>2, <1>3 DEF Numbers
    <2> QED BY <2>1, <2>2 DEF RowsOK
  <1>8. Len(group') <= MaxMessages
    BY <1>1, <1>2, <1>3, <1>4
  <1> QED BY <1>4, <1>5, <1>6, <1>7, <1>8

LEMMA MessagesAreNumbers ==
    ASSUME TypeOK
    PROVE  Messages \subseteq Numbers /\ Len(group) \in Nat /\ MaxMessages \in Nat
  <1>1. Len(group) \in Nat /\ MaxMessages \in Nat /\ Len(group) <= MaxMessages
    BY GroupImportAssumption DEF TypeOK
  <1> QED BY <1>1 DEF Messages, Numbers

LEMMA NullIsNoPass ==
    ASSUME TypeOK, NEW p \in Passes, passes[p] # Null
    PROVE  passes[p] \in Pass /\ p # Null
  BY GroupImportAssumption DEF TypeOK

\* The loop of a pass goes on from `after`, before which nothing is left to it, to the
\* first document it wants: what it passes over on the way needs no second look.
Past(m, status, over) == group[m] # "document" \/ status[m] = "done" \/ m \in over

LEMMA GoneOn ==
    ASSUME TypeOK, PassesOK, NEW p \in Passes, passes[p] # Null, NEW after \in 0 .. Len(group),
           passes[p].after <= after,
           NEW status \in [Numbers -> {"none", "found", "done", "error"}],
           \A m \in passes[p].todo : passes[p].after < m /\ m <= after => Past(m, status, {}),
           GoOn(p, after, passes[p].todo, status)
    PROVE  \E reached \in 0 .. Len(group) :
              /\ checkpoint' \in {checkpoint, reached}
              /\ skipped \subseteq skipped' /\ skipped' \subseteq Messages
              /\ \A m \in 1 .. reached : m <= passes[p].after \/ Past(m, status, skipped')
              /\ \/ passes' = [passes EXCEPT ![p] = Null] /\ imports' = status
                 \/ \E m \in Messages :
                       /\ reached < m /\ status[m] # "done"
                       /\ \A n \in passes[p].todo : n > reached => n >= m
                       /\ passes' = [passes EXCEPT ![p] = [at |-> "temp", after |-> reached,
                                                           todo |-> passes[p].todo, now |-> m]]
                       /\ imports' = Discovered(status, m)
  <1> DEFINE todo == passes[p].todo
             left == {m \in todo : m > after}
             wanted == {m \in left : Wanted(m, status)}
             passed == {m \in left : \A n \in wanted : m < n}
             reached == Reached(after, passed)
             moved == passed # {} \/ after > passes[p].after
             over == {m \in 1 .. reached : Wanted(m, status) /\ m > passes[p].after /\ m \notin todo}
  <1>1. /\ passes[p] \in Pass /\ todo \subseteq Messages /\ Len(group) \in Nat
        /\ skipped \subseteq Messages /\ passes[p].after \in Nat
    BY NullIsNoPass, MessagesAreNumbers DEF PassesOK, PassOK, TypeOK, Pass
  <1>2. /\ checkpoint' = IF moved THEN reached ELSE checkpoint
        /\ skipped' = IF moved THEN skipped \cup over ELSE skipped
        /\ IF wanted = {}
           THEN passes' = [passes EXCEPT ![p] = Null] /\ imports' = status
           ELSE /\ passes' = [passes EXCEPT ![p] = [at |-> "temp", after |-> reached, todo |-> todo,
                                                    now |-> Min(wanted)]]
                /\ imports' = Discovered(status, Min(wanted))
    BY DEF GoOn
  <1>3. left \subseteq Messages /\ wanted \subseteq left /\ passed \subseteq left
    BY <1>1
  <1>4. /\ reached \in 0 .. Len(group) /\ after <= reached
        /\ passed # {} => reached \in passed
        /\ passed = {} => reached = after
        /\ \A m \in passed : m <= reached
    <2>1. CASE passed = {}
      BY <2>1 DEF Reached
    <2>2. CASE passed # {}
      <3>1. reached \in passed /\ \A m \in passed : m <= reached
        BY <2>2, <1>1, <1>3, GreatestNumber DEF Reached, Messages
      <3> QED BY <3>1, <2>2, <1>1, <1>3 DEF Messages
    <2> QED BY <2>1, <2>2
  <1> HIDE DEF reached
  <1>5. \A m \in wanted : reached < m
    BY <1>1, <1>3, <1>4 DEF Messages
  <1>6. \A m \in 1 .. reached : m <= passes[p].after \/ Past(m, status, skipped')
    <2> SUFFICES ASSUME NEW m \in 1 .. reached, m > passes[p].after, group[m] = "document",
                        status[m] # "done"
                 PROVE  m \in skipped'
      BY <1>1 DEF Past
    <2>1. Wanted(m, status)
      BY DEF Wanted, IsManaged
    <2>2. m \notin todo
      <3> SUFFICES ASSUME m \in todo PROVE FALSE
        OBVIOUS
      <3>1. m > after
        BY <1>1 DEF Past
      <3>2. m \in wanted
        BY <3>1, <2>1
      <3> QED BY <3>2, <1>4, <1>5
    <2>3. moved
      BY <1>1, <1>4
    <2> QED BY <2>1, <2>2, <2>3, <1>2
  <1>7. skipped \subseteq skipped' /\ skipped' \subseteq Messages
    BY <1>1, <1>2, <1>4 DEF Messages
  <1>8. ASSUME wanted # {}
        PROVE  LET m == Min(wanted) IN
               /\ m \in Messages /\ reached < m /\ status[m] # "done"
               /\ \A n \in todo : n > reached => n >= m
    <2> DEFINE m == Min(wanted)
    <2>1. m \in wanted /\ \A n \in wanted : m <= n
      BY <1>1, <1>3, <1>8, LeastNumber DEF Messages
    <2> HIDE DEF m
    <2>2. m \in Messages /\ reached < m /\ status[m] # "done"
      BY <2>1, <1>3, <1>5 DEF Wanted
    <2>3. ASSUME NEW n \in todo, n > reached, ~(n >= m)
          PROVE  FALSE
      <3>1. n \in Nat /\ m \in Nat /\ n < m
        BY <2>2, <2>3, <1>1 DEF Messages
      <3>2. n \in left
        BY <2>3, <3>1, <1>1, <1>4
      <3>3. \A k \in wanted : k \in Nat /\ m <= k
        BY <2>1, <1>1, <1>3 DEF Messages
      <3>4. n \in passed
        BY <3>1, <3>2, <3>3
      <3> QED BY <3>4, <3>1, <2>3, <1>1, <1>4
    <2>4. \A n \in todo : n > reached => n >= m
      BY <2>3
    <2> QED BY <2>2, <2>4 DEF m
  <1>9. \/ passes' = [passes EXCEPT ![p] = Null] /\ imports' = status
        \/ \E m \in Messages :
              /\ reached < m /\ status[m] # "done"
              /\ \A n \in todo : n > reached => n >= m
              /\ passes' = [passes EXCEPT ![p] = [at |-> "temp", after |-> reached,
                                                  todo |-> todo, now |-> m]]
              /\ imports' = Discovered(status, m)
    BY <1>2, <1>8
  <1> QED BY <1>2, <1>4, <1>6, <1>7, <1>9
-----------------------------------------------------------------------------
(* The steps of the group, of the bridge and of an upload.                  *)

\* A new message changes nothing of the others, and no row is of it yet.
LEMMA Arrives ==
    ASSUME IInv, NEW kind \in Kinds, Arrive(kind),
           UNCHANGED <<scene, listening, checkpoint, imports, Disk, passes, faults, skipped>>,
           upload' = upload \/ (kind = "own" /\ upload' = [at |-> "sent", message |-> Len(group) + 1])
    PROVE  IInv'
  <1> USE DEF IInv
  <1>1. /\ group' \in Seq(Kinds) /\ Len(group') = Len(group) + 1 /\ Len(group') <= MaxMessages
        /\ \A m \in Messages : m \in Messages' /\ group'[m] = group[m]
        /\ group'[Len(group) + 1] = kind
        /\ heard' \subseteq Messages'
        /\ \A m \in Messages' \ Messages : m = Len(group) + 1 /\ imports[m] = "none"
    BY Arrived
  <1>2. Len(group) \in Nat /\ MaxMessages \in Nat /\ Len(group) + 1 \in Messages'
    BY <1>1, MessagesAreNumbers DEF Messages
  <1>3. TypeOK'
    <2>1. checkpoint' \in 0 .. Len(group') /\ skipped' \subseteq Messages'
      BY <1>1, <1>2 DEF TypeOK
    <2>2. upload' \in [at : {"none", "sending", "sent"}, message : 0 .. MaxMessages]
      BY <1>1, <1>2 DEF TypeOK
    <2> QED BY <1>1, <2>1, <2>2 DEF TypeOK, Disk
  <1>4. BackupsOK'
    BY DEF BackupsOK, Disk
  <1>5. SafeOK'
    <2>1. ASSUME NEW m PROVE Safe(m)' <=> Safe(m)
      BY DEF Safe, Lasting, Disk
    <2>2. \A m \in Messages' : group'[m] = "document" /\ imports'[m] = "done" => Safe(m)'
      BY <1>1, <2>1 DEF SafeOK
    <2> QED BY <2>1, <2>2 DEF SafeOK, Backup, Disk
  <1>6. PassesOK'
    <2> SUFFICES ASSUME NEW p \in Passes, passes[p] # Null PROVE PassOK(passes[p])'
      BY DEF PassesOK
    <2>1. PassOK(passes[p]) /\ passes[p].after \in Nat
      BY NullIsNoPass DEF PassesOK, Pass
    <2>2. passes' = passes /\ Messages \subseteq Messages'
      BY <1>1
    <2> QED BY <2>1, <2>2, <1>1, <1>2 DEF PassOK
  <1>7. DealtOK'
    <2>1. ASSUME NEW m \in Messages, Dealt(m) PROVE Dealt(m)'
      BY <1>1, <2>1 DEF Dealt, OnDisk, Disk
    <2>2. \A m \in 1 .. checkpoint : m \in Messages
      BY <1>2 DEF TypeOK, Messages
    <2>3. \A p \in Passes : passes[p] # Null => \A m \in 1 .. passes[p].after : m \in Messages
      <3> SUFFICES ASSUME NEW p \in Passes, passes[p] # Null, NEW m \in 1 .. passes[p].after
                   PROVE  m \in Messages
        OBVIOUS
      <3>1. passes[p].after \in Nat /\ passes[p].after <= Len(group)
        BY NullIsNoPass DEF PassesOK, PassOK, Pass
      <3> QED BY <3>1, <1>2 DEF Messages
    <2> QED BY <2>1, <2>2, <2>3 DEF DealtOK
  <1>8. RowsOK'
    BY <1>1, <1>2 DEF RowsOK
  <1> QED BY <1>3, <1>4, <1>5, <1>6, <1>7, <1>8

LEMMA FaultCounts == ASSUME TypeOK, Fault PROVE faults' \in 0 .. MaxFaults
  <1>1. MaxFaults \in Nat /\ faults \in 0 .. MaxFaults
    BY GroupImportAssumption DEF TypeOK
  <1> QED BY <1>1 DEF Fault

\* Of the bridge the invariant says only what its listener may have heard.
LEMMA BridgeStep ==
    ASSUME IInv, Listen \/ StartUpload \/ RestartBridge
    PROVE  IInv'
  <1> USE DEF IInv
  <1>1. /\ UNCHANGED <<scene, group, checkpoint, imports, file, backups, passes, skipped>>
        /\ heard' \subseteq heard /\ listening' \in BOOLEAN
        /\ faults' \in 0 .. MaxFaults
        /\ upload' = upload \/ upload' = [at |-> "sending", message |-> 0]
    <2>1. CASE Listen
      BY <2>1 DEF Listen, Disk, TypeOK
    <2>2. CASE StartUpload
      BY <2>2 DEF StartUpload, Bridge, Disk, TypeOK
    <2>3. CASE RestartBridge
      BY <2>3, FaultCounts DEF RestartBridge, Disk, TypeOK
    <2> QED BY <2>1, <2>2, <2>3
  <1>2. TypeOK'
    <2>1. upload' \in [at : {"none", "sending", "sent"}, message : 0 .. MaxMessages]
      BY <1>1, MessagesAreNumbers DEF TypeOK
    <2> QED BY <1>1, <2>1 DEF TypeOK, Messages
  <1>3. BackupsOK' /\ PassesOK' /\ RowsOK'
    BY <1>1 DEF BackupsOK, PassesOK, PassOK, RowsOK, Messages
  <1>4. SafeOK'
    BY <1>1 DEF SafeOK, Safe, Lasting, Backup, Messages
  <1>5. DealtOK'
    BY <1>1 DEF DealtOK, Dealt, OnDisk
  <1> QED BY <1>2, <1>3, <1>4, <1>5

LEMMA PostStep == ASSUME IInv, Post PROVE IInv'
  <1>1. scene.kinds \subseteq Kinds
    BY GroupImportAssumption DEF IInv, TypeOK
  <1>2. PICK kind \in scene.kinds \ {"own"} : Arrive(kind)
    BY DEF Post
  <1>3. kind \in Kinds
    BY <1>1
  <1>4. /\ UNCHANGED <<scene, listening, checkpoint, imports, Disk, passes, faults, skipped>>
        /\ upload' = upload \/ (kind = "own" /\ upload' = [at |-> "sent", message |-> Len(group) + 1])
    BY DEF Post
  <1> QED BY <1>2, <1>3, <1>4, Arrives

LEMMA SendUploadStep == ASSUME IInv, SendUpload PROVE IInv'
  <1>1. "own" \in Kinds
    BY DEF Kinds
  <1> QED BY <1>1, Arrives DEF SendUpload

\* What is remembered is of the desktop itself: it need not be on the disk.
LEMMA RememberUploadStep == ASSUME IInv, RememberUpload PROVE IInv'
  <1> USE DEF IInv
  <1> DEFINE u == upload.message
  <1>1. /\ u \in Messages /\ u \in Numbers /\ group[u] = "own" /\ imports' = [imports EXCEPT ![u] = "done"]
        /\ upload' = NoUpload
        /\ UNCHANGED <<scene, group, heard, listening, checkpoint, file, backups, passes, faults, skipped>>
    BY MessagesAreNumbers DEF RememberUpload, RowsOK, Remembered, Disk, Bridge
  <1>2. TypeOK'
    BY <1>1, MessagesAreNumbers DEF TypeOK, NoUpload, Messages
  <1>3. BackupsOK' /\ PassesOK'
    BY <1>1 DEF BackupsOK, PassesOK, PassOK, Messages
  <1>4. \A m \in Numbers : imports'[m] = IF m = u THEN "done" ELSE imports[m]
    BY <1>1 DEF TypeOK
  <1>5. RowsOK'
    BY <1>1, <1>4 DEF RowsOK, NoUpload, Messages
  <1>6. SafeOK'
    <2>1. \A m \in Messages : group[m] = "document" /\ imports'[m] = "done" => Safe(m)
      BY <1>1, <1>4, MessagesAreNumbers DEF SafeOK
    <2> QED BY <1>1, <2>1 DEF SafeOK, Safe, Lasting, Backup, Messages
  <1>7. DealtOK'
    <2>1. ASSUME NEW m, Dealt(m) PROVE Dealt(m)'
      BY <1>1, <2>1 DEF TypeOK, Dealt, OnDisk
    <2> QED BY <1>1, <2>1 DEF DealtOK
  <1> QED BY <1>2, <1>3, <1>5, <1>6, <1>7

-----------------------------------------------------------------------------
(* The steps of a pass that move no file.                                   *)

\* A pass with nothing under a backup name may become another one that has replaced
\* nothing yet, while rows and the checkpoint go forward.
LEMMA PassWorks ==
    ASSUME IInv, NEW p \in Passes, NEW pass \in Pass \cup {Null},
           passes[p] = Null \/ passes[p].at \notin {"move", "clean"},
           pass # Null => /\ pass.at \notin {"clean", "ready"} /\ PassOK(pass)
                          /\ \A m \in 1 .. pass.after : Dealt(m)',
           passes' = [passes EXCEPT ![p] = pass],
           UNCHANGED <<scene, Bridge, Disk, upload>>, faults' \in 0 .. MaxFaults,
           checkpoint' \in 0 .. Len(group), \A m \in 1 .. checkpoint' : Dealt(m)',
           skipped \subseteq skipped', skipped' \subseteq Messages,
           imports' \in [Numbers -> {"none", "found", "done", "error"}],
           \A m \in Numbers : imports[m] = "done" => imports'[m] = "done",
           \A m \in Messages : imports'[m] = "done" => imports[m] = "done" \/ Safe(m),
           \A m \in Numbers : imports'[m] # "none" => m \in Messages
    PROVE  IInv'
  <1> USE DEF IInv
  <1>1. /\ UNCHANGED <<group, heard, listening, file, backups>> /\ Messages' = Messages
        /\ \A q \in Passes : passes'[q] = IF q = p THEN pass ELSE passes[q]
    BY DEF Bridge, Disk, Messages, TypeOK
  <1>2. TypeOK'
    BY <1>1 DEF TypeOK
  <1>3. \A b \in backups : b.of = Null \/ b.of \in Passes \ {p}
    BY DEF BackupsOK, TypeOK
  <1>4. BackupsOK'
    BY <1>1, <1>3 DEF BackupsOK
  <1>5. ASSUME NEW m, Safe(m) PROVE Safe(m)'
    BY <1>1, <1>3, <1>5 DEF Safe, Lasting
  <1>6. SafeOK'
    <2>1. ASSUME NEW q \in Passes, passes'[q] # Null, passes'[q].at \in {"clean", "ready"}
          PROVE  /\ Safe(passes[q].now)'
                 /\ passes'[q].at = "ready" => Backup(q)' = {}
      <3>1. passes'[q] = passes[q]
        BY <1>1, <2>1
      <3>2. Safe(passes[q].now) /\ (passes[q].at = "ready" => Backup(q) = {})
        BY <3>1, <2>1 DEF SafeOK
      <3>3. Safe(passes[q].now)'
        BY <3>1, <3>2, <1>1, <1>3 DEF Safe, Lasting
      <3> QED BY <3>1, <3>2, <3>3, <1>1 DEF Backup
    <2>2. ASSUME NEW m \in Messages, group[m] = "document", imports'[m] = "done" PROVE Safe(m)'
      BY <2>2, <1>5 DEF SafeOK
    <2> QED BY <2>1, <2>2, <1>1 DEF SafeOK
  <1>7. PassesOK'
    BY <1>1 DEF PassesOK, PassOK
  <1>8. DealtOK'
    <2>1. ASSUME NEW q \in Passes, q # p, passes[q] # Null, NEW m \in 1 .. passes[q].after
          PROVE  Dealt(m)'
      <3>1. Dealt(m)
        BY <2>1 DEF DealtOK
      <3>2. m \in Numbers
        <4>1. passes[q].after \in Nat /\ passes[q].after <= MaxMessages /\ MaxMessages \in Nat
          BY <2>1, NullIsNoPass, MessagesAreNumbers DEF Pass
        <4> QED BY <4>1 DEF Numbers
      <3> QED BY <3>1, <3>2, <1>1 DEF Dealt, OnDisk
    <2> QED BY <2>1, <1>1 DEF DealtOK
  <1>9. RowsOK'
    BY <1>1 DEF RowsOK
  <1> QED BY <1>2, <1>4, <1>6, <1>7, <1>8, <1>9

LEMMA DealtStays ==
    ASSUME TypeOK, NEW m \in Numbers, Dealt(m), UNCHANGED <<group, file, backups>>,
           skipped \subseteq skipped', imports[m] = "done" => imports'[m] = "done"
    PROVE  Dealt(m)'
  BY DEF Dealt, OnDisk

\* Where nobody changes a row, the checkpoint or what was skipped.
LEMMA SameRows ==
    ASSUME IInv, UNCHANGED <<Bridge, Disk, checkpoint, imports, skipped>>
    PROVE  /\ \A m : Dealt(m)' <=> Dealt(m)
           /\ checkpoint' \in 0 .. Len(group) /\ \A m \in 1 .. checkpoint' : Dealt(m)'
           /\ skipped \subseteq skipped' /\ skipped' \subseteq Messages
           /\ imports' \in [Numbers -> {"none", "found", "done", "error"}]
           /\ \A m \in Numbers : imports[m] = "done" => imports'[m] = "done"
           /\ \A m \in Messages : imports'[m] = "done" => imports[m] = "done" \/ Safe(m)
           /\ \A m \in Numbers : imports'[m] # "none" => m \in Messages
  <1>1. \A m : Dealt(m)' <=> Dealt(m)
    BY DEF Bridge, Disk, Dealt, OnDisk
  <1> QED BY <1>1 DEF IInv, TypeOK, DealtOK, RowsOK

LEMMA BeginStep == ASSUME IInv, NEW p \in Passes, Begin(p) PROVE IInv'
  <1> DEFINE pass == [at |-> "ask", after |-> checkpoint, todo |-> {}, now |-> 0]
  <1>1. /\ passes[p] = Null /\ passes' = [passes EXCEPT ![p] = pass]
        /\ UNCHANGED <<scene, Bridge, checkpoint, imports, Disk, upload, faults, skipped>>
    BY DEF Begin
  <1>2. pass \in Pass /\ PassOK(pass)
    <2>1. checkpoint \in 0 .. Len(group) /\ Len(group) \in Nat /\ MaxMessages \in Nat /\ Len(group) <= MaxMessages
      BY MessagesAreNumbers DEF IInv, TypeOK
    <2> QED BY <2>1 DEF Pass, PassOK
  <1>3. \A m \in 1 .. checkpoint : Dealt(m)'
    BY <1>1, SameRows DEF IInv, DealtOK
  <1>4. faults' \in 0 .. MaxFaults
    BY <1>1 DEF IInv, TypeOK
  <1> HIDE DEF PassOK
  <1> QED BY <1>1, <1>2, <1>3, <1>4, SameRows, PassWorks

\* The pass is told of messages of the group only.
LEMMA AskStep == ASSUME IInv, NEW p \in Passes, Ask(p) PROVE IInv'
  <1> DEFINE pass == [passes[p] EXCEPT !.at = "told", !.todo = Offered(passes[p].after)]
  <1>1. /\ passes[p] # Null /\ passes[p].at = "ask" /\ passes' = [passes EXCEPT ![p] = pass]
        /\ UNCHANGED <<scene, Bridge, checkpoint, imports, Disk, upload, faults, skipped>>
    BY NullIsNoPass DEF Ask, At, IInv, TypeOK, Pass
  <1>2. Offered(passes[p].after) \subseteq Messages
    BY DEF Offered, IInv, TypeOK
  <1>3. passes[p] \in Pass /\ PassOK(passes[p]) /\ Messages \subseteq Numbers
    BY <1>1, NullIsNoPass, MessagesAreNumbers DEF IInv, PassesOK
  <1>4. pass \in Pass /\ pass.at = "told" /\ pass.after = passes[p].after /\ pass.todo \subseteq Messages
    BY <1>2, <1>3 DEF Pass
  <1>5. PassOK(pass)
    BY <1>3, <1>4 DEF PassOK
  <1>6. \A m \in 1 .. pass.after : Dealt(m)'
    BY <1>1, <1>4, SameRows DEF IInv, DealtOK
  <1>7. faults' \in 0 .. MaxFaults
    BY <1>1 DEF IInv, TypeOK
  <1> HIDE DEF pass
  <1> QED BY <1>1, <1>4, <1>5, <1>6, <1>7, SameRows, PassWorks

LEMMA FetchStep == ASSUME IInv, NEW p \in Passes, Fetch(p) PROVE IInv'
  <1> DEFINE pass == [passes[p] EXCEPT !.at = "backup"]
  <1>1. /\ passes[p] # Null /\ passes[p].at = "temp" /\ passes' = [passes EXCEPT ![p] = pass]
        /\ UNCHANGED <<scene, Bridge, checkpoint, imports, Disk, upload, faults, skipped>>
    BY NullIsNoPass DEF Fetch, To, At, IInv, TypeOK, Pass
  <1>2. passes[p] \in Pass /\ PassOK(passes[p])
    BY <1>1, NullIsNoPass DEF IInv, PassesOK
  <1>3. /\ pass \in Pass /\ pass.at = "backup" /\ pass.after = passes[p].after
        /\ pass.todo = passes[p].todo /\ pass.now = passes[p].now
    BY <1>2 DEF Pass
  <1>4. PassOK(pass)
    BY <1>1, <1>2, <1>3 DEF PassOK
  <1>5. \A m \in 1 .. pass.after : Dealt(m)'
    BY <1>1, <1>3, SameRows DEF IInv, DealtOK
  <1>6. faults' \in 0 .. MaxFaults
    BY <1>1 DEF IInv, TypeOK
  <1> HIDE DEF pass
  <1> QED BY <1>1, <1>3, <1>4, <1>5, <1>6, SameRows, PassWorks

LEMMA FailAskStep == ASSUME IInv, NEW p \in Passes, FailAsk(p) PROVE IInv'
  <1>1. /\ passes[p] # Null /\ passes[p].at = "ask" /\ passes' = [passes EXCEPT ![p] = Null]
        /\ UNCHANGED <<scene, Bridge, checkpoint, imports, Disk, upload, skipped>>
    BY DEF FailAsk, At
  <1>2. faults' \in 0 .. MaxFaults
    BY FaultCounts DEF FailAsk, IInv
  <1> QED BY <1>1, <1>2, SameRows, PassWorks

\* The loop of a pass, after the rows have become status.
LEMMA GoesOn ==
    ASSUME IInv, NEW p \in Passes, passes[p] # Null, passes[p].at \notin {"move", "clean"},
           NEW after \in 0 .. Len(group), passes[p].after <= after,
           NEW status \in [Numbers -> {"none", "found", "done", "error"}],
           \A m \in passes[p].todo : passes[p].after < m /\ m <= after => Past(m, status, {}),
           \A m \in Numbers : imports[m] = "done" => status[m] = "done",
           \A m \in Messages : status[m] = "done" => imports[m] = "done" \/ Safe(m),
           \A m \in Numbers : status[m] # "none" => m \in Messages,
           GoOn(p, after, passes[p].todo, status),
           UNCHANGED <<scene, Bridge, Disk, upload, faults>>
    PROVE  IInv'
  <1> USE DEF IInv
  <1>1. PICK reached \in 0 .. Len(group) :
              /\ checkpoint' \in {checkpoint, reached}
              /\ skipped \subseteq skipped' /\ skipped' \subseteq Messages
              /\ \A m \in 1 .. reached : m <= passes[p].after \/ Past(m, status, skipped')
              /\ \/ passes' = [passes EXCEPT ![p] = Null] /\ imports' = status
                 \/ \E m \in Messages :
                       /\ reached < m /\ status[m] # "done"
                       /\ \A n \in passes[p].todo : n > reached => n >= m
                       /\ passes' = [passes EXCEPT ![p] = [at |-> "temp", after |-> reached,
                                                           todo |-> passes[p].todo, now |-> m]]
                       /\ imports' = Discovered(status, m)
    BY GoneOn
  <1>2. /\ passes[p] \in Pass /\ PassOK(passes[p]) /\ Messages \subseteq Numbers
        /\ Len(group) \in Nat /\ MaxMessages \in Nat /\ Len(group) <= MaxMessages
    BY NullIsNoPass, MessagesAreNumbers DEF PassesOK, TypeOK
  <1>3. /\ imports' \in [Numbers -> {"none", "found", "done", "error"}]
        /\ \A m \in Numbers : imports'[m] = "done" <=> status[m] = "done"
        /\ \A m \in Numbers : imports'[m] # "none" => m \in Messages
    BY <1>1, <1>2 DEF Discovered
  <1>4. ASSUME NEW m \in Numbers, Dealt(m) PROVE Dealt(m)'
    BY <1>1, <1>3, <1>4, DealtStays DEF Bridge, Disk
  <1>5. \A m \in 1 .. reached : Dealt(m)'
    <2> SUFFICES ASSUME NEW m \in 1 .. reached PROVE Dealt(m)'
      OBVIOUS
    <2>1. m \in Numbers
      BY <1>2 DEF Numbers
    <2>2. CASE m <= passes[p].after
      <3>1. m \in 1 .. passes[p].after
        BY <2>2, <1>2 DEF Pass
      <3> QED BY <3>1, <2>1, <1>4 DEF DealtOK
    <2>3. CASE Past(m, status, skipped')
      BY <2>1, <2>3, <1>3 DEF Past, Dealt, Bridge
    <2> QED BY <2>2, <2>3, <1>1
  <1>6. checkpoint' \in 0 .. Len(group) /\ \A m \in 1 .. checkpoint' : Dealt(m)'
    <2>1. CASE checkpoint' = reached
      BY <2>1, <1>5
    <2>2. CASE checkpoint' = checkpoint
      <3>1. checkpoint \in 0 .. Len(group) /\ \A m \in 1 .. checkpoint : Dealt(m) /\ m \in Numbers
        BY <1>2 DEF TypeOK, DealtOK, Numbers
      <3> QED BY <2>2, <3>1, <1>4
    <2> QED BY <2>1, <2>2, <1>1
  <1>7. faults' \in 0 .. MaxFaults
    BY DEF TypeOK
  <1>8. /\ \A m \in Numbers : imports[m] = "done" => imports'[m] = "done"
        /\ \A m \in Messages : imports'[m] = "done" => imports[m] = "done" \/ Safe(m)
    BY <1>2, <1>3
  <1>9. CASE passes' = [passes EXCEPT ![p] = Null]
    BY <1>1, <1>3, <1>6, <1>7, <1>8, <1>9, PassWorks
  <1>10. ASSUME NEW m \in Messages, reached < m, \A n \in passes[p].todo : n > reached => n >= m,
                passes' = [passes EXCEPT ![p] = [at |-> "temp", after |-> reached,
                                                 todo |-> passes[p].todo, now |-> m]]
         PROVE  IInv'
    <2> DEFINE pass == [at |-> "temp", after |-> reached, todo |-> passes[p].todo, now |-> m]
    <2>1. pass \in Pass
      <3>1. m \in 0 .. MaxMessages /\ reached \in 0 .. MaxMessages /\ passes[p].todo \in SUBSET Numbers
        BY <1>2 DEF Pass, Messages
      <3> QED BY <3>1 DEF Pass
    <2>2. PassOK(pass)
      BY <1>2, <1>10 DEF PassOK
    <2>3. pass # Null /\ pass.at = "temp" /\ pass.after = reached
      BY <2>1, NullAssumption
    <2> HIDE DEF pass
    <2> QED BY <2>1, <2>2, <2>3, <1>1, <1>3, <1>5, <1>6, <1>7, <1>8, <1>10, PassWorks DEF pass
  <1> QED BY <1>1, <1>9, <1>10

\* What a pass that looks at what it was told, or has recorded a message, goes on from: the
\* message at hand was the first of what it was told of, and is on the disk.
LEMMA LookFacts ==
    ASSUME IInv, NEW p \in Passes, Look(p)
    PROVE  /\ passes[p] # Null /\ passes[p].at = "told" /\ passes[p].after \in 0 .. Len(group)
           /\ GoOn(p, passes[p].after, passes[p].todo, imports)
           /\ UNCHANGED <<scene, Bridge, Disk, upload, faults>>
           /\ \A m \in passes[p].todo :
                  passes[p].after < m /\ m <= passes[p].after => Past(m, imports, {})
           /\ imports \in [Numbers -> {"none", "found", "done", "error"}]
           /\ \A m \in Numbers : imports[m] # "none" => m \in Messages
  <1>1. /\ passes[p] # Null /\ passes[p].at = "told" /\ GoOn(p, passes[p].after, passes[p].todo, imports)
        /\ UNCHANGED <<scene, Bridge, Disk, upload, faults>>
    BY DEF Look, At
  <1>2. passes[p].after \in 0 .. Len(group)
    BY <1>1, NullIsNoPass, MessagesAreNumbers DEF IInv, PassesOK, PassOK, Pass
  <1>3. passes[p].todo \subseteq Messages /\ \A m \in Messages : m \in Nat
    BY <1>1, MessagesAreNumbers DEF IInv, PassesOK, PassOK, Messages
  <1>4. \A m \in passes[p].todo : ~(passes[p].after < m /\ m <= passes[p].after)
    BY <1>2, <1>3
  <1> QED BY <1>1, <1>2, <1>4 DEF IInv, TypeOK, RowsOK

LEMMA CompleteFacts ==
    ASSUME IInv, NEW p \in Passes, Complete(p)
    PROVE  \E now \in Messages, status \in [Numbers -> {"none", "found", "done", "error"}] :
              /\ now = passes[p].now /\ now \in 0 .. Len(group) /\ passes[p].after <= now
              /\ passes[p] # Null /\ passes[p].at = "ready" /\ Safe(now)
              /\ GoOn(p, now, passes[p].todo, status)
              /\ UNCHANGED <<scene, Bridge, Disk, upload, faults>>
              /\ \A m \in Numbers : status[m] = IF m = now THEN "done" ELSE imports[m]
              /\ \A m \in passes[p].todo : passes[p].after < m /\ m <= now => Past(m, status, {})
              /\ \A m \in Numbers : status[m] # "none" => m \in Messages
  <1>0. PICK now, status : now = passes[p].now /\ status = Completed(imports, now)
    OBVIOUS
  <1>1. /\ passes[p] # Null /\ passes[p].at = "ready" /\ GoOn(p, now, passes[p].todo, status)
        /\ UNCHANGED <<scene, Bridge, Disk, upload, faults>>
    BY <1>0 DEF Complete, At
  <1>2. /\ passes[p] \in Pass /\ PassOK(passes[p]) /\ Messages \subseteq Numbers
        /\ Len(group) \in Nat
    BY <1>1, NullIsNoPass, MessagesAreNumbers DEF IInv, PassesOK
  <1>3. /\ now \in Messages /\ now \in 0 .. Len(group) /\ passes[p].after <= now
        /\ passes[p].todo \subseteq Messages
        /\ \A m \in passes[p].todo : m > passes[p].after => m >= now
    BY <1>0, <1>1, <1>2 DEF PassOK, Pass, Messages
  <1>4. /\ status \in [Numbers -> {"none", "found", "done", "error"}]
        /\ \A m \in Numbers : status[m] = IF m = now THEN "done" ELSE imports[m]
    BY <1>0, <1>2, <1>3 DEF Completed, IInv, TypeOK
  <1>5. Safe(now)
    BY <1>0, <1>1 DEF IInv, SafeOK
  <1>6. \A m \in Numbers : status[m] # "none" => m \in Messages
    BY <1>3, <1>4 DEF IInv, RowsOK
  <1>7. \A m \in passes[p].todo : passes[p].after < m /\ m <= now => Past(m, status, {})
    <2> SUFFICES ASSUME NEW m \in passes[p].todo, passes[p].after < m, m <= now
                 PROVE  Past(m, status, {})
      OBVIOUS
    <2>1. m \in Nat /\ now \in Nat /\ passes[p].after \in Nat
      BY <1>2, <1>3 DEF Messages, Pass
    <2>2. m = now
      BY <2>1, <1>3
    <2> QED BY <2>2, <1>2, <1>3, <1>4 DEF Past
  <1> QED BY <1>0, <1>1, <1>3, <1>4, <1>5, <1>6, <1>7

LEMMA LookStep == ASSUME IInv, NEW p \in Passes, Look(p) PROVE IInv'
  <1>1. \A m \in Messages : imports[m] = "done" => imports[m] = "done" \/ Safe(m)
    OBVIOUS
  <1>2. passes[p].after <= passes[p].after
    BY LookFacts
  <1> QED BY <1>1, <1>2, LookFacts, GoesOn

LEMMA CompleteStep == ASSUME IInv, NEW p \in Passes, Complete(p) PROVE IInv'
  <1>1. PICK now \in Messages, status \in [Numbers -> {"none", "found", "done", "error"}] :
              /\ now = passes[p].now /\ now \in 0 .. Len(group) /\ passes[p].after <= now
              /\ passes[p] # Null /\ passes[p].at = "ready" /\ Safe(now)
              /\ GoOn(p, now, passes[p].todo, status)
              /\ UNCHANGED <<scene, Bridge, Disk, upload, faults>>
              /\ \A m \in Numbers : status[m] = IF m = now THEN "done" ELSE imports[m]
              /\ \A m \in passes[p].todo : passes[p].after < m /\ m <= now => Past(m, status, {})
              /\ \A m \in Numbers : status[m] # "none" => m \in Messages
    BY CompleteFacts
  <1>2. /\ \A m \in Messages : status[m] = "done" => imports[m] = "done" \/ Safe(m)
        /\ \A m \in Numbers : imports[m] = "done" => status[m] = "done"
    BY <1>1, MessagesAreNumbers DEF IInv
  <1> QED BY <1>1, <1>2, GoesOn

-----------------------------------------------------------------------------
(* The steps that move files, and what fails.                               *)

\* Where no document leaves the disk, the rest of the invariant holds on.
LEMMA DiskStep ==
    ASSUME IInv, TypeOK', BackupsOK', UNCHANGED <<group, checkpoint, skipped>>,
           \A m \in Messages : Safe(m) => Safe(m)',
           \A m \in Messages : OnDisk(m) => OnDisk(m)',
           \A m \in Messages : imports'[m] = "done" => imports[m] = "done" \/ Safe(m),
           \A m \in Numbers : imports'[m] # "none" => imports[m] # "none" \/ m \in Messages,
           upload' = upload \/ upload'.at # "sent",
           \A q \in Passes : passes'[q] # Null =>
               /\ passes[q] # Null /\ passes'[q].after = passes[q].after
               /\ passes'[q].todo = passes[q].todo /\ passes'[q].now = passes[q].now
               /\ passes'[q].at = passes[q].at \/ passes[q].at \notin {"ask", "told"}
               /\ passes'[q].at \in {"clean", "ready"} => Safe(passes[q].now)'
               /\ passes'[q].at = "ready" => Backup(q)' = {}
    PROVE  IInv'
  <1> USE DEF IInv
  <1>1. Messages' = Messages /\ Messages \subseteq Numbers
    BY MessagesAreNumbers DEF Messages
  <1>2. SafeOK'
    <2>1. \A m \in Messages : group[m] = "document" /\ imports'[m] = "done" => Safe(m)'
      BY DEF SafeOK
    <2>2. \A q \in Passes : passes'[q] # Null /\ passes'[q].at = "ready" => Backup(q)' = {}
      OBVIOUS
    <2>3. ASSUME NEW q \in Passes, passes'[q] # Null, passes'[q].at \in {"clean", "ready"}
          PROVE  Safe(passes[q].now)'
      BY <2>3
    <2> QED BY <1>1, <2>1, <2>2, <2>3 DEF SafeOK
  <1>3. PassesOK'
    <2> SUFFICES ASSUME NEW q \in Passes, passes'[q] # Null PROVE PassOK(passes[q])'
      BY DEF PassesOK
    <2>1. PassOK(passes[q])
      BY DEF PassesOK
    <2> QED BY <2>1, <1>1 DEF PassOK
  <1>4. ASSUME NEW m \in Messages, Dealt(m) PROVE Dealt(m)'
    <2>1. group[m] = "document" /\ imports[m] = "done" => OnDisk(m)
      BY DEF SafeOK, Safe, OnDisk
    <2> QED BY <1>4, <2>1 DEF Dealt
  <1>5. DealtOK'
    <2>1. \A m \in 1 .. checkpoint : m \in Messages
      BY MessagesAreNumbers DEF TypeOK, Messages
    <2>2. ASSUME NEW q \in Passes, passes'[q] # Null, NEW m \in 1 .. passes'[q].after
          PROVE  Dealt(m)'
      <3>1. /\ passes[q] # Null /\ m \in 1 .. passes[q].after
            /\ passes[q].after \in Nat /\ passes[q].after <= Len(group)
        BY <2>2, NullIsNoPass DEF PassesOK, PassOK, Pass
      <3>2. m \in Messages
        BY <3>1, MessagesAreNumbers DEF Messages
      <3> QED BY <3>1, <3>2, <1>4 DEF DealtOK
    <2> QED BY <1>4, <2>1, <2>2 DEF DealtOK
  <1>6. RowsOK'
    BY <1>1 DEF RowsOK
  <1> QED BY <1>2, <1>3, <1>5, <1>6

\* A pass at a step of the download is at a message; only it has a backup of its own.
LEMMA AtHand ==
    ASSUME IInv, NEW p \in Passes, passes[p] # Null, passes[p].at \notin {"ask", "told"}
    PROVE  /\ passes[p] \in Pass /\ passes[p].now \in Messages /\ passes[p].now \in Numbers
           /\ p # Null
           /\ \A b \in Backup(p) : b.message = passes[p].now /\ b.content \in Files
           /\ \A b \in backups : b.of = Null \/ b.of \in Passes
  <1>1. passes[p] \in Pass /\ p # Null /\ passes[p].now \in Messages
    BY NullIsNoPass DEF IInv, PassesOK, PassOK
  <1> QED BY <1>1, MessagesAreNumbers DEF IInv, BackupsOK, Backup, TypeOK

\* A pass that does nothing, where no document leaves the disk.
LEMMA OtherPass ==
    ASSUME IInv, NEW q \in Passes, passes[q] # Null, passes'[q] = passes[q], Backup(q)' = Backup(q),
           \A m \in Messages : Safe(m) => Safe(m)'
    PROVE  /\ passes'[q].at \in {"clean", "ready"} => Safe(passes[q].now)'
           /\ passes'[q].at = "ready" => Backup(q)' = {}
  <1>1. ASSUME passes[q].at \in {"clean", "ready"} PROVE Safe(passes[q].now)'
    <2>1. PICK m : m = passes[q].now
      OBVIOUS
    <2>2. m \in Messages /\ Safe(m)
      BY <1>1, <2>1, AtHand DEF IInv, SafeOK
    <2>3. Safe(m)'
      BY <2>2
    <2> QED BY <2>1, <2>3 DEF Safe
  <1> QED BY <1>1 DEF IInv, SafeOK

LEMMA SetAsideStep == ASSUME IInv, NEW p \in Passes, SetAside(p) PROVE IInv'
  <1>0. PICK now, new : now = passes[p].now /\ new = [of |-> p, message |-> now, content |-> file[now]]
    OBVIOUS
  <1> DEFINE pass == [passes[p] EXCEPT !.at = "move"]
  <1>1. /\ passes[p] # Null /\ passes[p].at = "backup" /\ passes' = [passes EXCEPT ![p] = pass]
        /\ UNCHANGED <<scene, group, heard, listening, checkpoint, imports, upload, faults, skipped>>
        /\ IF file[now] = "none" THEN UNCHANGED <<file, backups>>
           ELSE backups' = backups \cup {new} /\ file' = [file EXCEPT ![now] = "none"]
    BY <1>0 DEF SetAside, At, To, Disk, Bridge
  <1>2. /\ passes[p] \in Pass /\ now \in Messages /\ now \in Numbers /\ p # Null
        /\ \A b \in backups : b.of = Null \/ b.of \in Passes
    BY <1>0, <1>1, AtHand
  <1>3. /\ pass \in Pass /\ pass.at = "move" /\ pass.after = passes[p].after
        /\ pass.todo = passes[p].todo /\ pass.now = now
    BY <1>0, <1>2 DEF Pass
  <1>4. \A q \in Passes : passes'[q] = IF q = p THEN pass ELSE passes[q]
    BY <1>1 DEF IInv, TypeOK
  <1>5. \A b \in backups : b.of # p
    BY <1>1, <1>2 DEF IInv, BackupsOK
  <1>6. file[now] # "none" => new \in [of : Passes \cup {Null}, message : Numbers, content : Files]
    BY <1>0, <1>2 DEF IInv, TypeOK
  <1> HIDE DEF pass
  <1>7. TypeOK'
    <2>1. backups' \subseteq [of : Passes \cup {Null}, message : Numbers, content : Files]
      BY <1>1, <1>6 DEF IInv, TypeOK
    <2>2. file' \in [Numbers -> Files \cup {"none"}] /\ passes' \in [Passes -> Pass \cup {Null}]
      BY <1>1, <1>3 DEF IInv, TypeOK
    <2> QED BY <1>1, <2>1, <2>2 DEF IInv, TypeOK, Messages
  <1>8. BackupsOK'
    <2> SUFFICES ASSUME NEW b \in backups', b.of # Null
                 PROVE  /\ passes'[b.of] # Null /\ passes'[b.of].at \in {"move", "clean"}
                        /\ passes'[b.of].now = b.message
      BY DEF BackupsOK
    <2>1. CASE b \in backups
      <3>1. b.of \in Passes /\ b.of # p /\ passes'[b.of] = passes[b.of]
        BY <2>1, <1>2, <1>4, <1>5
      <3> QED BY <2>1, <3>1 DEF IInv, BackupsOK
    <2>2. CASE b = new
      BY <2>2, <1>0, <1>3, <1>4, NullAssumption
    <2> QED BY <1>1, <2>1, <2>2
  <1>9. ASSUME NEW b \in backups PROVE b \in backups' /\ (Lasting(b) => Lasting(b)')
    BY <1>1, <1>2, <1>4, <1>5 DEF Lasting
  <1>10. file[now] # "none" => new \in backups' /\ Lasting(new)'
    BY <1>0, <1>1, <1>3, <1>4 DEF Lasting
  <1>11. \A m \in Messages : m # now => file'[m] = file[m]
    BY <1>1, MessagesAreNumbers DEF IInv, TypeOK
  <1>12. new.message = now /\ new.of = p
    BY <1>0
  <1>13. ASSUME NEW m \in Messages, Safe(m) PROVE Safe(m)'
    <2>1. CASE file[m] # "none"
      <3>1. CASE m = now
        BY <3>1, <2>1, <1>10, <1>12 DEF Safe
      <3>2. CASE m # now
        BY <3>2, <2>1, <1>11 DEF Safe
      <3> QED BY <3>1, <3>2
    <2>2. CASE \E b \in backups : b.message = m /\ Lasting(b)
      BY <2>2, <1>9 DEF Safe
    <2> QED BY <1>13, <2>1, <2>2 DEF Safe
  <1>14. ASSUME NEW m \in Messages, OnDisk(m) PROVE OnDisk(m)'
    <2>1. CASE file[m] # "none"
      <3>1. CASE m = now
        BY <3>1, <2>1, <1>10, <1>12 DEF OnDisk
      <3>2. CASE m # now
        BY <3>2, <2>1, <1>11 DEF OnDisk
      <3> QED BY <3>1, <3>2
    <2>2. CASE \E b \in backups : b.message = m
      BY <2>2, <1>9 DEF OnDisk
    <2> QED BY <1>14, <2>1, <2>2 DEF OnDisk
  <1>15. ASSUME NEW q \in Passes, passes'[q] # Null
         PROVE  /\ passes[q] # Null /\ passes'[q].after = passes[q].after
                /\ passes'[q].todo = passes[q].todo /\ passes'[q].now = passes[q].now
                /\ passes'[q].at = passes[q].at \/ passes[q].at \notin {"ask", "told"}
                /\ passes'[q].at \in {"clean", "ready"} => Safe(passes[q].now)'
                /\ passes'[q].at = "ready" => Backup(q)' = {}
    <2>1. CASE q = p
      BY <2>1, <1>0, <1>1, <1>3, <1>4
    <2>2. CASE q # p
      <3>1. passes'[q] = passes[q] /\ Backup(q)' = Backup(q)
        BY <2>2, <1>1, <1>4, <1>12 DEF Backup
      <3> QED BY <3>1, <1>13, <1>15, OtherPass
    <2> QED BY <2>1, <2>2
  <1> QED BY <1>1, <1>7, <1>8, <1>13, <1>14, <1>15, DiskStep

\* What a pass had set aside is the message at hand, which is at its path now.
LEMMA MoveStep == ASSUME IInv, NEW p \in Passes, Move(p) PROVE IInv'
  <1>0. PICK now, at : now = passes[p].now /\ at = IF Backup(p) = {} THEN "ready" ELSE "clean"
    OBVIOUS
  <1> DEFINE pass == [passes[p] EXCEPT !.at = at]
  <1>1. /\ passes[p] # Null /\ passes[p].at = "move" /\ passes' = [passes EXCEPT ![p] = pass]
        /\ file' = [file EXCEPT ![now] = "original"]
        /\ UNCHANGED <<scene, group, heard, listening, checkpoint, imports, backups, upload, faults,
                       skipped>>
    BY <1>0 DEF Move, At, To, Bridge
  <1>2. /\ passes[p] \in Pass /\ now \in Messages /\ now \in Numbers /\ p # Null
        /\ \A b \in Backup(p) : b.message = now
        /\ \A b \in backups : b.of = Null \/ b.of \in Passes
    BY <1>0, <1>1, AtHand
  <1>3. /\ at \in {"clean", "ready"} /\ pass \in Pass /\ pass.at = at /\ pass.after = passes[p].after
        /\ pass.todo = passes[p].todo /\ pass.now = now
    BY <1>0, <1>2 DEF Pass
  <1>4. \A q \in Passes : passes'[q] = IF q = p THEN pass ELSE passes[q]
    BY <1>1 DEF IInv, TypeOK
  <1> HIDE DEF pass
  <1>5. TypeOK'
    <2>1. file' \in [Numbers -> Files \cup {"none"}] /\ passes' \in [Passes -> Pass \cup {Null}]
      BY <1>1, <1>3 DEF IInv, TypeOK, Files
    <2> QED BY <1>1, <2>1 DEF IInv, TypeOK, Messages
  <1>6. BackupsOK'
    <2> SUFFICES ASSUME NEW b \in backups, b.of # Null
                 PROVE  /\ passes'[b.of] # Null /\ passes'[b.of].at \in {"move", "clean"}
                        /\ passes'[b.of].now = b.message
      BY <1>1 DEF BackupsOK
    <2>1. CASE b.of = p
      <3>1. b \in Backup(p)
        BY <2>1 DEF Backup
      <3> QED BY <2>1, <3>1, <1>0, <1>2, <1>3, <1>4, NullAssumption
    <2>2. CASE b.of # p
      BY <2>2, <1>2, <1>4 DEF IInv, BackupsOK
    <2> QED BY <2>1, <2>2
  <1>7. ASSUME NEW m \in Messages PROVE file'[m] = IF m = now THEN "original" ELSE file[m]
    BY <1>1, MessagesAreNumbers DEF IInv, TypeOK
  <1>8. Safe(now)'
    BY <1>2, <1>7 DEF Safe
  <1>9. ASSUME NEW b \in backups, Lasting(b), b.message # now PROVE Lasting(b)'
    <2>1. b.of # p
      BY <1>9, <1>2 DEF Backup
    <2> QED BY <2>1, <1>9, <1>2, <1>4 DEF Lasting
  <1>10. ASSUME NEW m \in Messages, Safe(m) PROVE Safe(m)'
    BY <1>1, <1>7, <1>8, <1>9, <1>10 DEF Safe
  <1>11. ASSUME NEW m \in Messages, OnDisk(m) PROVE OnDisk(m)'
    BY <1>1, <1>7, <1>11 DEF OnDisk
  <1>12. ASSUME NEW q \in Passes, passes'[q] # Null
         PROVE  /\ passes[q] # Null /\ passes'[q].after = passes[q].after
                /\ passes'[q].todo = passes[q].todo /\ passes'[q].now = passes[q].now
                /\ passes'[q].at = passes[q].at \/ passes[q].at \notin {"ask", "told"}
                /\ passes'[q].at \in {"clean", "ready"} => Safe(passes[q].now)'
                /\ passes'[q].at = "ready" => Backup(q)' = {}
    <2>0. Backup(q)' = Backup(q)
      BY <1>1 DEF Backup
    <2>1. CASE q = p
      <3>1. passes'[q].now = now /\ Safe(passes[q].now)'
        BY <2>1, <1>3, <1>4, <1>8 DEF Safe
      <3> QED BY <2>0, <2>1, <3>1, <1>0, <1>1, <1>3, <1>4
    <2>2. CASE q # p
      <3>1. passes'[q] = passes[q]
        BY <2>2, <1>4
      <3> QED BY <2>0, <3>1, <1>10, <1>12, OtherPass
    <2> QED BY <2>1, <2>2
  <1> QED BY <1>1, <1>5, <1>6, <1>10, <1>11, <1>12, DiskStep

LEMMA CleanStep == ASSUME IInv, NEW p \in Passes, Clean(p) PROVE IInv'
  <1>0. PICK now : now = passes[p].now
    OBVIOUS
  <1> DEFINE pass == [passes[p] EXCEPT !.at = "ready"]
  <1>1. /\ passes[p] # Null /\ passes[p].at = "clean" /\ passes' = [passes EXCEPT ![p] = pass]
        /\ backups' = backups \ Backup(p)
        /\ UNCHANGED <<scene, group, heard, listening, checkpoint, imports, file, upload, faults,
                       skipped>>
    BY DEF Clean, At, To, Bridge
  <1>2. /\ passes[p] \in Pass /\ now \in Messages /\ now \in Numbers /\ p # Null
        /\ \A b \in Backup(p) : b.message = now
        /\ \A b \in backups : b.of = Null \/ b.of \in Passes
    BY <1>0, <1>1, AtHand
  <1>3. /\ pass \in Pass /\ pass.at = "ready" /\ pass.after = passes[p].after
        /\ pass.todo = passes[p].todo /\ pass.now = now
    BY <1>0, <1>2 DEF Pass
  <1>4. \A q \in Passes : passes'[q] = IF q = p THEN pass ELSE passes[q]
    BY <1>1 DEF IInv, TypeOK
  <1> HIDE DEF pass
  <1>5. TypeOK'
    BY <1>1, <1>3 DEF IInv, TypeOK, Messages
  <1>6. \A b \in backups : b \in backups' <=> b.of # p
    BY <1>1 DEF Backup
  <1>7. BackupsOK'
    BY <1>1, <1>2, <1>4, <1>6 DEF IInv, BackupsOK
  <1>8. ASSUME NEW b \in backups, Lasting(b) PROVE b \in backups' /\ Lasting(b)'
    <2>1. b.of # p
      BY <1>8, <1>1, <1>2 DEF Lasting
    <2> QED BY <2>1, <1>8, <1>2, <1>4, <1>6 DEF Lasting
  <1>9. ASSUME NEW m \in Messages, Safe(m) PROVE Safe(m)'
    BY <1>1, <1>8, <1>9 DEF Safe
  <1>10. Safe(now) /\ Safe(now)'
    BY <1>0, <1>1, <1>2, <1>9 DEF IInv, SafeOK
  <1>11. ASSUME NEW m \in Messages, OnDisk(m) PROVE OnDisk(m)'
    <2>1. CASE m = now
      BY <2>1, <1>10 DEF OnDisk, Safe
    <2>2. CASE m # now
      <3>1. \A b \in backups : b.message = m => b \in backups'
        BY <2>2, <1>2, <1>6 DEF Backup
      <3> QED BY <3>1, <1>1, <1>11 DEF OnDisk
    <2> QED BY <2>1, <2>2
  <1>12. ASSUME NEW q \in Passes, passes'[q] # Null
         PROVE  /\ passes[q] # Null /\ passes'[q].after = passes[q].after
                /\ passes'[q].todo = passes[q].todo /\ passes'[q].now = passes[q].now
                /\ passes'[q].at = passes[q].at \/ passes[q].at \notin {"ask", "told"}
                /\ passes'[q].at \in {"clean", "ready"} => Safe(passes[q].now)'
                /\ passes'[q].at = "ready" => Backup(q)' = {}
    <2>1. CASE q = p
      <3>1. Safe(passes[q].now)' /\ Backup(q)' = {}
        BY <2>1, <1>3, <1>4, <1>6, <1>10, <1>1 DEF Safe, Backup
      <3> QED BY <2>1, <3>1, <1>0, <1>1, <1>3, <1>4
    <2>2. CASE q # p
      <3>1. passes'[q] = passes[q] /\ Backup(q)' = Backup(q)
        BY <2>2, <1>1, <1>4 DEF Backup
      <3> QED BY <3>1, <1>9, <1>12, OtherPass
    <2> QED BY <2>1, <2>2
  <1> QED BY <1>1, <1>5, <1>7, <1>9, <1>11, <1>12, DiskStep

\* What the pass had set aside goes back to its path, and its row to an error.
LEMMA FailStep == ASSUME IInv, NEW p \in Passes, Fail(p) PROVE IInv'
  <1>0. PICK now, content : /\ now = passes[p].now
                            /\ content = IF Backup(p) = {} THEN file[now]
                                         ELSE (CHOOSE b \in Backup(p) : TRUE).content
    OBVIOUS
  <1>1. /\ passes[p] # Null /\ passes[p].at \notin {"ask", "told"}
        /\ passes' = [passes EXCEPT ![p] = Null] /\ backups' = backups \ Backup(p)
        /\ imports' = [imports EXCEPT ![now] = "error"] /\ file' = [file EXCEPT ![now] = content]
        /\ UNCHANGED <<scene, group, heard, listening, checkpoint, upload, skipped>>
    BY <1>0 DEF Fail, Failed, Bridge
  <1>2. /\ now \in Messages /\ now \in Numbers /\ p # Null
        /\ \A b \in Backup(p) : b.message = now /\ b.content \in Files
        /\ \A b \in backups : b.of = Null \/ b.of \in Passes
    BY <1>0, <1>1, AtHand
  <1>3. /\ content \in Files \cup {"none"}
        /\ Backup(p) # {} => content # "none"
        /\ Backup(p) = {} => content = file[now]
    BY <1>0, <1>2 DEF IInv, TypeOK, Files
  <1>4. /\ \A q \in Passes : passes'[q] = IF q = p THEN Null ELSE passes[q]
        /\ \A m \in Numbers : file'[m] = IF m = now THEN content ELSE file[m]
        /\ \A m \in Numbers : imports'[m] = IF m = now THEN "error" ELSE imports[m]
        /\ \A b \in backups : b \in backups' <=> b.of # p
        /\ Messages \subseteq Numbers
    BY <1>1, <1>2, MessagesAreNumbers DEF IInv, TypeOK, Backup
  <1>5. TypeOK'
    <2>1. faults' \in 0 .. MaxFaults
      BY FaultCounts DEF Fail, IInv
    <2>2. /\ file' \in [Numbers -> Files \cup {"none"}] /\ passes' \in [Passes -> Pass \cup {Null}]
          /\ imports' \in [Numbers -> {"none", "found", "done", "error"}]
      BY <1>1, <1>3 DEF IInv, TypeOK
    <2> QED BY <1>1, <2>1, <2>2 DEF IInv, TypeOK, Messages
  <1>6. BackupsOK'
    BY <1>1, <1>2, <1>4 DEF IInv, BackupsOK
  <1>7. ASSUME NEW m \in Messages, file[m] # "none" PROVE file'[m] # "none"
    BY <1>3, <1>4, <1>7
  <1>8. ASSUME NEW b \in backups, b.message \in Messages, b.of = p PROVE file'[b.message] # "none"
    BY <1>8, <1>2, <1>3, <1>4 DEF Backup
  <1>9. ASSUME NEW b \in backups, Lasting(b), b.of # p PROVE b \in backups' /\ Lasting(b)'
    BY <1>9, <1>2, <1>4 DEF Lasting
  <1>10. ASSUME NEW m \in Messages, Safe(m) PROVE Safe(m)'
    BY <1>7, <1>8, <1>9, <1>10 DEF Safe
  <1>11. ASSUME NEW m \in Messages, OnDisk(m) PROVE OnDisk(m)'
    BY <1>4, <1>7, <1>8, <1>11 DEF OnDisk
  <1>12. ASSUME NEW q \in Passes, passes'[q] # Null
         PROVE  /\ passes[q] # Null /\ passes'[q] = passes[q]
                /\ passes'[q].at \in {"clean", "ready"} => Safe(passes[q].now)'
                /\ passes'[q].at = "ready" => Backup(q)' = {}
    <2>1. q # p /\ passes'[q] = passes[q] /\ Backup(q)' = Backup(q)
      BY <1>12, <1>1, <1>4 DEF Backup
    <2> QED BY <2>1, <1>10, <1>12, OtherPass
  <1>13. /\ \A m \in Messages : imports'[m] = "done" => imports[m] = "done" \/ Safe(m)
         /\ \A m \in Numbers : imports'[m] # "none" => imports[m] # "none" \/ m \in Messages
    BY <1>2, <1>4
  <1> QED BY <1>1, <1>5, <1>6, <1>10, <1>11, <1>12, <1>13, DiskStep

\* The program dies: a backup keeps its name, and nobody looks for it again.
LEMMA GoneStep ==
    ASSUME IInv, Gone, Fault, UNCHANGED <<scene, group, checkpoint, file, skipped>>,
           imports' \in [Numbers -> {"none", "found", "done", "error"}],
           \A m \in Messages : imports'[m] = "done" => imports[m] = "done" \/ Safe(m),
           \A m \in Numbers : imports'[m] # "none" => imports[m] # "none" \/ m \in Messages
    PROVE  IInv'
  <1>1. /\ \A q \in Passes : passes'[q] = Null
        /\ passes' \in [Passes -> Pass \cup {Null}]
        /\ backups' = {[b EXCEPT !.of = Null] : b \in backups}
        /\ heard' = {} /\ listening' = FALSE
        /\ upload' = upload \/ upload'.at = "sending"
    BY DEF Gone
  <1>2. upload' \in [at : {"none", "sending", "sent"}, message : 0 .. MaxMessages]
    BY MessagesAreNumbers DEF Gone, NoUpload, IInv, TypeOK
  <1>3. ASSUME NEW b \in backups
        PROVE  /\ [b EXCEPT !.of = Null] \in [of : Passes \cup {Null}, message : Numbers, content : Files]
               /\ [b EXCEPT !.of = Null].of = Null /\ [b EXCEPT !.of = Null].message = b.message
               /\ [b EXCEPT !.of = Null] \in backups'
    BY <1>1 DEF IInv, TypeOK
  <1>4. TypeOK'
    <2>1. backups' \subseteq [of : Passes \cup {Null}, message : Numbers, content : Files]
      BY <1>1, <1>3
    <2>2. faults' \in 0 .. MaxFaults
      BY FaultCounts DEF IInv
    <2> QED BY <1>1, <1>2, <2>1, <2>2 DEF IInv, TypeOK, Messages
  <1>5. BackupsOK'
    BY <1>1, <1>3 DEF BackupsOK
  <1>6. ASSUME NEW m \in Messages, OnDisk(m) PROVE Safe(m)'
    <2>1. CASE file[m] # "none"
      BY <2>1 DEF Safe
    <2>2. CASE \E b \in backups : b.message = m
      <3>1. PICK b \in backups' : b.of = Null /\ b.message = m
        BY <2>2, <1>3
      <3> QED BY <3>1 DEF Safe, Lasting
    <2> QED BY <1>6, <2>1, <2>2 DEF OnDisk
  <1>7. ASSUME NEW m \in Messages PROVE (Safe(m) => Safe(m)') /\ (OnDisk(m) => OnDisk(m)')
    <2>1. Safe(m) => OnDisk(m)
      BY DEF Safe, OnDisk
    <2>2. Safe(m)' => OnDisk(m)'
      BY DEF Safe, OnDisk
    <2> QED BY <2>1, <2>2, <1>6
  <1>8. upload' = upload \/ upload'.at # "sent"
    BY <1>1
  <1> QED BY <1>1, <1>4, <1>5, <1>7, <1>8, DiskStep

LEMMA CrashStep == ASSUME IInv, Crash PROVE IInv'
  BY GoneStep DEF Crash, IInv, TypeOK

LEMMA CrashBetweenStep == ASSUME IInv, NEW p \in Passes, CrashBetween(p) PROVE IInv'
  <1>0. PICK now : now = passes[p].now
    OBVIOUS
  <1>1. /\ passes[p] # Null /\ passes[p].at = "ready" /\ Fault /\ Gone
        /\ imports' = [imports EXCEPT ![now] = "done"]
        /\ UNCHANGED <<scene, group, checkpoint, file, skipped>>
    BY <1>0 DEF CrashBetween, At, Completed
  <1>2. now \in Messages /\ now \in Numbers /\ Safe(now) /\ Messages \subseteq Numbers
    BY <1>0, <1>1, AtHand, MessagesAreNumbers DEF IInv, SafeOK
  <1>3. /\ imports' \in [Numbers -> {"none", "found", "done", "error"}]
        /\ \A m \in Numbers : imports'[m] = IF m = now THEN "done" ELSE imports[m]
    BY <1>1, <1>2 DEF IInv, TypeOK
  <1> QED BY <1>1, <1>2, <1>3, GoneStep

LEMMA EditStep == ASSUME IInv, NEW k \in Numbers, Edit(k) PROVE IInv'
  <1>1. /\ file[k] = "original" /\ file' = [file EXCEPT ![k] = "edited"]
        /\ UNCHANGED <<scene, group, heard, listening, checkpoint, imports, backups, passes, upload,
                       faults, skipped>>
    BY DEF Edit, Bridge
  <1>2. TypeOK' /\ BackupsOK'
    BY <1>1 DEF IInv, TypeOK, Files, Messages, BackupsOK
  <1>3. \A m \in Numbers : file'[m] # "none" <=> file[m] # "none"
    BY <1>1 DEF IInv, TypeOK
  <1>4. ASSUME NEW m \in Messages PROVE (Safe(m) => Safe(m)') /\ (OnDisk(m) => OnDisk(m)')
    BY <1>1, <1>3, MessagesAreNumbers DEF IInv, Safe, Lasting, OnDisk
  <1>5. ASSUME NEW q \in Passes, passes'[q] # Null
        PROVE  /\ passes[q] # Null /\ passes'[q] = passes[q]
               /\ passes'[q].at \in {"clean", "ready"} => Safe(passes[q].now)'
               /\ passes'[q].at = "ready" => Backup(q)' = {}
    <2>1. passes'[q] = passes[q] /\ Backup(q)' = Backup(q)
      BY <1>1 DEF Backup
    <2> QED BY <2>1, <1>4, <1>5, OtherPass
  <1> QED BY <1>1, <1>2, <1>4, <1>5, DiskStep

-----------------------------------------------------------------------------
(* The import of the group.                                                 *)

LEMMA InitHolds == Init => IInv
  <1> SUFFICES ASSUME Init PROVE IInv
    OBVIOUS
  <1>1. MaxMessages \in Nat /\ MaxFaults \in Nat /\ Len(group) = 0 /\ Messages = {}
    BY GroupImportAssumption DEF Init, Messages
  <1>2. TypeOK
    <2>1. group \in Seq(Kinds) /\ Len(group) <= MaxMessages /\ heard \subseteq Messages
      BY <1>1 DEF Init
    <2>2. passes \in [Passes -> Pass \cup {Null}]
      BY DEF Init
    <2>3. upload \in [at : {"none", "sending", "sent"}, message : 0 .. MaxMessages]
      BY <1>1 DEF Init, NoUpload
    <2>4. /\ imports \in [Numbers -> {"none", "found", "done", "error"}]
          /\ file \in [Numbers -> Files \cup {"none"}]
      BY DEF Init
    <2>5. scene \in Scenarios /\ listening \in BOOLEAN /\ backups = {} /\ skipped = {}
      BY DEF Init
    <2>6. checkpoint \in 0 .. Len(group) /\ faults \in 0 .. MaxFaults
      <3>1. checkpoint = 0 /\ faults = 0 /\ Len(group) = 0
        BY <1>1 DEF Init
      <3> QED BY <3>1, <1>1
    <2> QED BY <2>1, <2>2, <2>3, <2>4, <2>5, <2>6 DEF TypeOK
  <1>3. BackupsOK /\ PassesOK /\ RowsOK
    BY DEF Init, BackupsOK, PassesOK, RowsOK, NoUpload
  <1>4. SafeOK /\ DealtOK
    BY <1>1 DEF Init, SafeOK, DealtOK
  <1> QED BY <1>2, <1>3, <1>4 DEF IInv

LEMMA Stutter == ASSUME IInv, UNCHANGED vars PROVE IInv'
  <1>1. UNCHANGED <<scene, group, heard, listening, checkpoint, imports, file, backups, passes, upload,
                    faults, skipped>>
    BY DEF vars
  <1>2. TypeOK' /\ BackupsOK'
    BY <1>1 DEF IInv, TypeOK, Messages, BackupsOK
  <1>3. SafeOK' /\ PassesOK'
    BY <1>1 DEF IInv, SafeOK, Safe, Lasting, Backup, PassesOK, PassOK, Messages
  <1>4. DealtOK' /\ RowsOK'
    BY <1>1 DEF IInv, DealtOK, Dealt, OnDisk, RowsOK, Messages
  <1> QED BY <1>2, <1>3, <1>4 DEF IInv

LEMMA StepHolds == ASSUME IInv, [Next]_vars PROVE IInv'
  <1>1. CASE Post \/ SendUpload \/ RememberUpload
    BY <1>1, PostStep, SendUploadStep, RememberUploadStep
  <1>2. CASE Listen \/ StartUpload \/ RestartBridge
    BY <1>2, BridgeStep
  <1>3. ASSUME NEW p \in Passes, Begin(p) \/ Work(p) \/ FailAsk(p) \/ Fail(p) \/ CrashBetween(p)
        PROVE  IInv'
    <2>1. CASE Begin(p) \/ FailAsk(p) \/ Fail(p) \/ CrashBetween(p)
      BY <2>1, BeginStep, FailAskStep, FailStep, CrashBetweenStep
    <2>2. CASE Work(p)
      BY <2>2, AskStep, LookStep, FetchStep, SetAsideStep, MoveStep, CleanStep, CompleteStep DEF Work
    <2> QED BY <1>3, <2>1, <2>2
  <1>4. CASE Crash
    BY <1>4, CrashStep
  <1>5. ASSUME NEW m \in Numbers, Edit(m) PROVE IInv'
    BY <1>5, EditStep
  <1>6. CASE UNCHANGED vars
    BY <1>6, Stutter
  <1> QED BY <1>1, <1>2, <1>3, <1>4, <1>5, <1>6 DEF Next

\* Whatever passes overlap, fail or die, and whatever arrives meanwhile: what a pass has set
\* aside is its own until it has replaced it (atomicReplace), what is recorded as imported is
\* at its path or under a name that nobody takes away, and nothing that a pass or the
\* checkpoint has gone past still waits for an import.
THEOREM ImportInductive == Spec => []IInv
  <1>1. IInv /\ [Next]_vars => IInv'
    BY StepHolds
  <1> QED BY InitHolds, <1>1, PTL DEF Spec

\* Every variable of the import holds a value of its type.
THEOREM ImportTypeCorrect == Spec => []TypeOK
  <1>1. IInv => TypeOK
    BY DEF IInv
  <1> QED BY <1>1, ImportInductive, PTL

\* A document of others that is recorded as imported (telegram_user_imports, IMPORTED) is on the
\* disk, whatever step of atomicReplace another pass, an error or a crash stops at.
THEOREM ImportedStays == Spec => []ImportedIsOnDisk
  <1>1. IInv => ImportedIsOnDisk
    BY DEF IInv, SafeOK, Safe, OnDisk, ImportedIsOnDisk
  <1> QED BY <1>1, ImportInductive, PTL

\* The checkpoint (telegram_user_checkpoint) goes past a document of others that a pass was told
\* of only when its row says so or its file is there.
THEOREM CheckpointIsHonest == Spec => []NothingIsPassedOver
  <1>1. IInv => NothingIsPassedOver
    BY DEF IInv, DealtOK, Dealt, NothingIsPassedOver
  <1> QED BY <1>1, ImportInductive, PTL

\* The loop of a pass takes up only what is not recorded, and leaves what is recorded so.
LEMMA LoopTakesNew ==
    ASSUME IInv, NEW p \in Passes, passes[p] # Null, NEW after \in 0 .. Len(group),
           passes[p].after <= after,
           NEW status \in [Numbers -> {"none", "found", "done", "error"}],
           \A n \in passes[p].todo : passes[p].after < n /\ n <= after => Past(n, status, {}),
           GoOn(p, after, passes[p].todo, status),
           NEW m \in Messages, status[m] = "done",
           \A q \in Passes : passes[q] = Null \/ passes[q].now # m
    PROVE  imports'[m] = "done" /\ \A q \in Passes : passes'[q] = Null \/ passes'[q].now # m
  <1>1. passes \in [Passes -> Pass \cup {Null}] /\ m \in Numbers
    BY MessagesAreNumbers DEF IInv, TypeOK
  <1>2. \/ passes' = [passes EXCEPT ![p] = Null] /\ imports' = status
        \/ \E reached, n :
              /\ status[n] # "done"
              /\ passes' = [passes EXCEPT ![p] = [at |-> "temp", after |-> reached,
                                                  todo |-> passes[p].todo, now |-> n]]
              /\ imports' = Discovered(status, n)
    BY GoneOn DEF IInv
  <1>3. CASE passes' = [passes EXCEPT ![p] = Null] /\ imports' = status
    BY <1>1, <1>3
  <1>4. ASSUME NEW reached, NEW n, status[n] # "done",
               passes' = [passes EXCEPT ![p] = [at |-> "temp", after |-> reached,
                                                todo |-> passes[p].todo, now |-> n]],
               imports' = Discovered(status, n)
        PROVE  imports'[m] = "done" /\ \A q \in Passes : passes'[q] = Null \/ passes'[q].now # m
    <2>1. imports'[m] = "done"
      BY <1>1, <1>4 DEF Discovered
    <2>2. ASSUME NEW q \in Passes PROVE passes'[q] = Null \/ passes'[q].now # m
      BY <1>1, <1>4
    <2> QED BY <2>1, <2>2
  <1> QED BY <1>2, <1>3, <1>4

LEMMA RecordsStay ==
    ASSUME IInv, [Next]_vars, NEW m \in Messages, imports[m] = "done",
           \A p \in Passes : passes[p] = Null \/ passes[p].now # m
    PROVE  imports'[m] = "done" /\ \A p \in Passes : passes'[p] = Null \/ passes'[p].now # m
  <1>1. /\ m \in Numbers /\ m # 0 /\ imports \in [Numbers -> {"none", "found", "done", "error"}]
        /\ passes \in [Passes -> Pass \cup {Null}]
    BY MessagesAreNumbers DEF IInv, TypeOK, Messages
  <1>2. CASE UNCHANGED <<imports, passes>>
    BY <1>2
  <1>3. CASE RememberUpload
    BY <1>1, <1>3 DEF RememberUpload, Remembered
  <1>4. ASSUME NEW p \in Passes, Begin(p) \/ Ask(p) \/ Fetch(p) \/ SetAside(p) \/ Move(p) \/ Clean(p)
        PROVE  imports'[m] = "done" /\ \A q \in Passes : passes'[q] = Null \/ passes'[q].now # m
    <2>1. imports' = imports
      BY <1>4 DEF Begin, Ask, Fetch, SetAside, Move, Clean
    <2>2. CASE Begin(p)
      BY <2>1, <2>2, <1>1 DEF Begin
    <2>3. ASSUME passes[p] # Null, NEW pass, passes' = [passes EXCEPT ![p] = pass],
                 pass.now = passes[p].now
          PROVE  \A q \in Passes : passes'[q] = Null \/ passes'[q].now # m
      BY <2>3, <1>1
    <2>4. CASE Ask(p)
      <3> DEFINE pass == [passes[p] EXCEPT !.at = "told", !.todo = Offered(passes[p].after)]
      <3>1. /\ passes[p] # Null /\ passes' = [passes EXCEPT ![p] = pass] /\ pass.now = passes[p].now
        BY <2>4, <1>1, NullIsNoPass DEF Ask, At, IInv, Pass
      <3> QED BY <3>1, <2>1, <2>3
    <2>5. CASE Fetch(p) \/ SetAside(p) \/ Move(p) \/ Clean(p)
      <3>1. PICK at : passes[p] # Null /\ To(p, at)
        BY <2>5 DEF Fetch, SetAside, Move, Clean, At
      <3> DEFINE pass == [passes[p] EXCEPT !.at = at]
      <3>2. passes' = [passes EXCEPT ![p] = pass] /\ pass.now = passes[p].now
        BY <3>1, <1>1, NullIsNoPass DEF To, IInv, Pass
      <3> QED BY <3>1, <3>2, <2>1, <2>3
    <2> QED BY <1>4, <2>2, <2>4, <2>5
  <1>5. ASSUME NEW p \in Passes, Look(p)
        PROVE  imports'[m] = "done" /\ \A q \in Passes : passes'[q] = Null \/ passes'[q].now # m
    <2>1. passes[p].after <= passes[p].after
      BY <1>5, LookFacts
    <2> QED BY <1>5, <2>1, LookFacts, LoopTakesNew
  <1>6. ASSUME NEW p \in Passes, Complete(p)
        PROVE  imports'[m] = "done" /\ \A q \in Passes : passes'[q] = Null \/ passes'[q].now # m
    <2>1. PICK now \in Messages, status \in [Numbers -> {"none", "found", "done", "error"}] :
              /\ now \in 0 .. Len(group) /\ passes[p].after <= now /\ passes[p] # Null
              /\ GoOn(p, now, passes[p].todo, status)
              /\ \A n \in Numbers : status[n] = IF n = now THEN "done" ELSE imports[n]
              /\ \A n \in passes[p].todo : passes[p].after < n /\ n <= now => Past(n, status, {})
      BY <1>6, CompleteFacts
    <2>2. status[m] = "done"
      BY <2>1, <1>1
    <2> QED BY <2>1, <2>2, LoopTakesNew
  <1>7. ASSUME NEW p \in Passes, FailAsk(p) \/ Fail(p)
        PROVE  imports'[m] = "done" /\ \A q \in Passes : passes'[q] = Null \/ passes'[q].now # m
    <2>1. passes' = [passes EXCEPT ![p] = Null]
      BY <1>7 DEF FailAsk, Fail
    <2>2. imports'[m] = "done"
      BY <1>7, <1>1 DEF FailAsk, Fail, Failed
    <2> QED BY <2>1, <2>2, <1>1
  <1>8. ASSUME Crash \/ \E p \in Passes : CrashBetween(p)
        PROVE  imports'[m] = "done" /\ \A q \in Passes : passes'[q] = Null \/ passes'[q].now # m
    <2>1. \A q \in Passes : passes'[q] = Null
      BY <1>8 DEF Crash, CrashBetween, Gone
    <2>2. imports'[m] = "done"
      BY <1>8, <1>1 DEF Crash, CrashBetween, Completed
    <2> QED BY <2>1, <2>2
  <1>9. Post \/ Listen \/ StartUpload \/ SendUpload \/ RestartBridge \/ (\E k \in Numbers : Edit(k))
            \/ UNCHANGED vars => UNCHANGED <<imports, passes>>
    BY DEF Post, Listen, StartUpload, SendUpload, RestartBridge, Edit, vars
  <1> QED BY <1>2, <1>3, <1>4, <1>5, <1>6, <1>7, <1>8, <1>9 DEF Next, Work

\* Two passes may overlap: what is recorded as imported, or was uploaded from here, is not
\* downloaded again over the work of the user, unless a pass had taken it up before
\* (getTelegramUserImport in syncTelegramUserGroup).
THEOREM ImportsAreOnce == Spec => ImportedOnce
  <1>1. IInv /\ [Next]_vars
          => [\A m \in Messages :
                imports[m] = "done" /\ (\A p \in Passes : passes[p] = Null \/ passes[p].now # m)
                  => imports'[m] = "done" /\ \A p \in Passes : passes'[p] = Null \/ passes'[p].now # m]_vars
    BY RecordsStay
  <1> QED BY <1>1, ImportInductive, PTL DEF Spec, ImportedOnce

-----------------------------------------------------------------------------
(* The provider and its bridges (TelegramBridge).                            *)

\* The types are of the scene, which stays.
LEMMA SameTypes ==
    ASSUME asked' = asked
    PROVE  /\ Keys' = Keys /\ Config' = Config
           /\ SlotRecord' = SlotRecord /\ BridgeRecord' = BridgeRecord
  <1>1. Keys' = Keys
    BY DEF Keys
  <1>2. Config' = Config
    BY <1>1 DEF Config
  <1> QED BY <1>1, <1>2 DEF SlotRecord, BridgeRecord

LEMMA PlainValues ==
    ASSUME BridgeTypeOK
    PROVE  /\ asked.keys \in Nat \ {0} /\ Keys = 1 .. asked.keys
           /\ NoConfig \in Config /\ Unauthorized \in Config
           /\ Idle \in SlotRecord /\ NoProcess \in BridgeRecord
           /\ NoBridge \notin Bridges
  <1>1. asked.keys \in Nat \ {0} /\ Keys = 1 .. asked.keys /\ NoBridge \notin Bridges
    BY SceneAssumption, NamesAssumption DEF BridgeTypeOK, Keys
  <1>2. NoConfig \in Config /\ Unauthorized \in Config
    BY DEF NoConfig, Unauthorized, Config
  <1>3. Idle \in SlotRecord
    BY <1>2 DEF Idle, SlotRecord, Stages, Paths, Answers
  <1>4. NoProcess \in BridgeRecord
    BY DEF NoProcess, BridgeRecord, Lives
  <1> QED BY <1>1, <1>2, <1>3, <1>4

\* A step of a function that starts and ends no bridge.
LEMMA FunctionStep ==
    ASSUME BridgeIInv, asked' = asked, UNCHANGED <<child, boot>>,
           NEW s \in Slots, NEW new \in SlotRecord, KindFits(new),
           slots' = [slots EXCEPT ![s] = new],
           bridges' \in [Bridges -> BridgeRecord],
           \A b \in Bridges : bridges'[b].life = bridges[b].life,
           granted' \in 0 .. asked.keys, revoked' \subseteq 1 .. granted', named' \in Chats,
           config' \in Config, state' \in States
    PROVE  BridgeIInv'
  <1>1. BridgeTypeOK'
    BY SameTypes DEF BridgeIInv, BridgeTypeOK
  <1>2. ChildOK'
    BY DEF BridgeIInv, ChildOK
  <1>3. KindsOK'
    BY DEF BridgeIInv, BridgeTypeOK, KindsOK, KindFits
  <1>4. NoBridgeIsLost'
    BY DEF BridgeIInv, NoBridgeIsLost
  <1> QED BY <1>1, <1>2, <1>3, <1>4 DEF BridgeIInv

\* The same of one that leaves bridges and Telegram alone.
LEMMA QuietStep ==
    ASSUME BridgeIInv, asked' = asked, UNCHANGED <<telegram, child, boot, bridges>>,
           NEW s \in Slots, NEW new \in SlotRecord, KindFits(new),
           slots' = [slots EXCEPT ![s] = new],
           config' \in Config, state' \in States
    PROVE  BridgeIInv'
  BY FunctionStep DEF telegram, BridgeIInv, BridgeTypeOK

-----------------------------------------------------------------------------
(* What the application asks for, and what it hears.                        *)

LEMMA BeginFits ==
    ASSUME BridgeIInv, asked' = asked, NEW s \in Slots, NEW k \in BridgeKinds, NEW path \in Paths,
           NEW stage \in {"stop", "start"}, BeginCall(s, k, stage, path), config' \in Config,
           stage = "stop" => k \in {"begin", "restart", "reauthorize"},
           stage = "start" => k \in {"status", "code"}
    PROVE  BridgeIInv'
  <1> DEFINE new == [Idle EXCEPT !.kind = k, !.stage = stage, !.path = path,
                         !.snap = IF k \in {"status", "restart"} THEN config ELSE @]
  <1>1. slots' = [slots EXCEPT ![s] = new] /\ UNCHANGED <<telegram, state, child, boot, bridges>>
    BY DEF BeginCall
  <1>2. config \in Config /\ NoConfig \in Config /\ state \in States
    BY PlainValues DEF BridgeIInv, BridgeTypeOK
  <1>3. new \in SlotRecord /\ new.kind = k /\ new.stage = stage
    BY <1>2 DEF Idle, SlotRecord, Stages, Paths, Answers
  <1>4. KindFits(new)
    BY <1>3 DEF KindFits
  <1> HIDE DEF new
  <1> QED BY <1>1, <1>2, <1>3, <1>4, QuietStep

LEMMA AskedStep ==
    ASSUME BridgeIInv, asked' = asked, NEW s \in Slots, Asked(s)
    PROVE  BridgeIInv'
  <1>1. /\ {"status", "begin", "code", "transfer", "reauthorize", "restart"} \subseteq BridgeKinds
        /\ {"none", "health", "auth/code", "auth/password", "transfer"} \subseteq Paths
    BY DEF BridgeKinds, Paths
  <1>2. config \in Config /\ [config EXCEPT !.chat = Nothing] \in Config
    BY DEF BridgeIInv, BridgeTypeOK, Config
  <1>3. CASE Status(s)
    BY <1>1, <1>2, <1>3, BeginFits DEF Status
  <1>4. CASE Reauthorize(s)
    BY <1>1, <1>2, <1>4, BeginFits DEF Reauthorize
  <1>5. CASE RestartAuthorization(s)
    BY <1>1, <1>2, <1>5, BeginFits DEF RestartAuthorization
  <1>6. CASE BeginAuthorization(s)
    BY <1>1, <1>2, <1>6, BeginFits DEF BeginAuthorization
  <1>7. CASE SubmitCode(s)
    BY <1>1, <1>2, <1>7, BeginFits DEF SubmitCode
  <1>8. CASE SubmitPassword(s)
    BY <1>1, <1>2, <1>8, BeginFits DEF SubmitPassword
  <1>9. ASSUME NEW c \in Chats, Transfer(s, c) PROVE BridgeIInv'
    <2> DEFINE new == [Idle EXCEPT !.kind = "transfer", !.stage = "start", !.path = "transfer",
                                      !.chat = c]
    <2>1. slots' = [slots EXCEPT ![s] = new] /\ UNCHANGED <<telegram, config, state, child, boot, bridges>>
      BY <1>9 DEF Transfer, provider
    <2>2. NoConfig \in Config /\ state \in States
      BY PlainValues DEF BridgeIInv, BridgeTypeOK
    <2>3. new \in SlotRecord /\ new.kind = "transfer" /\ new.stage = "start"
      BY <2>2 DEF Idle, SlotRecord, Stages, Paths, Answers, BridgeKinds
    <2>4. KindFits(new)
      BY <2>3 DEF KindFits
    <2> HIDE DEF new
    <2> QED BY <1>2, <2>1, <2>2, <2>3, <2>4, QuietStep
  <1>10. Upload(s) => \E c \in Chats : Transfer(s, c)
    BY DEF Upload, BridgeIInv, BridgeTypeOK, Config
  <1> QED BY <1>3, <1>4, <1>5, <1>6, <1>7, <1>8, <1>9, <1>10 DEF Asked, Download

\* What becomes of the slot of a function that goes on, starts anew or ends.
LEMMA SlotValues ==
    ASSUME BridgeIInv, NEW s \in Slots
    PROVE  /\ slots[s] \in SlotRecord /\ KindFits(slots[s])
           /\ \A stage \in Stages : [slots[s] EXCEPT !.stage = stage] \in SlotRecord
           /\ \A saved \in Config : [Idle EXCEPT !.kind = "status", !.stage = "start",
                                            !.path = "health", !.snap = saved] \in SlotRecord
           /\ \A stage \in Stages, path \in Paths :
                  [Idle EXCEPT !.kind = slots[s].kind, !.stage = stage, !.path = path]
                      \in SlotRecord
           /\ Idle \in SlotRecord /\ KindFits(Idle)
  <1>1. slots[s] \in SlotRecord /\ KindFits(slots[s]) /\ Idle \in SlotRecord
    BY PlainValues DEF BridgeIInv, BridgeTypeOK, KindsOK
  <1>2. KindFits(Idle)
    BY DEF KindFits, Idle
  <1>3. \A stage \in Stages : [slots[s] EXCEPT !.stage = stage] \in SlotRecord
    BY <1>1 DEF SlotRecord
  <1>4. ASSUME NEW saved \in Config
        PROVE  [Idle EXCEPT !.kind = "status", !.stage = "start", !.path = "health", !.snap = saved]
                   \in SlotRecord
    BY <1>1 DEF SlotRecord, Stages, Paths, BridgeKinds
  <1>5. ASSUME NEW stage \in Stages, NEW path \in Paths
        PROVE  [Idle EXCEPT !.kind = slots[s].kind, !.stage = stage, !.path = path] \in SlotRecord
    BY <1>1 DEF SlotRecord
  <1> QED BY <1>1, <1>2, <1>3, <1>4, <1>5

LEMMA EndStep ==
    ASSUME BridgeIInv, asked' = asked, UNCHANGED <<telegram, child, boot, bridges>>,
           NEW s \in Slots, End(s), config' \in Config, state' \in States
    PROVE  BridgeIInv'
  BY SlotValues, QuietStep DEF End

LEMMA ThenStatusStep ==
    ASSUME BridgeIInv, asked' = asked, UNCHANGED <<telegram, child, boot, bridges>>,
           NEW s \in Slots, NEW saved \in Config, ThenStatus(s, saved),
           config' \in Config, state' \in States
    PROVE  BridgeIInv'
  <1> DEFINE new == [Idle EXCEPT !.kind = "status", !.stage = "start", !.path = "health",
                                    !.snap = saved]
  <1>1. slots' = [slots EXCEPT ![s] = new] /\ new \in SlotRecord
    BY SlotValues DEF ThenStatus
  <1>2. KindFits(new)
    BY DEF KindFits, Idle
  <1> HIDE DEF new
  <1> QED BY <1>1, <1>2, QuietStep

LEMMA ThenCallStep ==
    ASSUME BridgeIInv, asked' = asked, UNCHANGED <<telegram, child, boot, bridges>>,
           NEW s \in Slots, slots[s].stage = "answer",
           NEW stage \in {"call", "start"}, NEW path \in Paths, ThenCall(s, stage, path),
           config' \in Config, state' \in States
    PROVE  BridgeIInv'
  <1> DEFINE new == [Idle EXCEPT !.kind = slots[s].kind, !.stage = stage, !.path = path]
  <1>1. slots' = [slots EXCEPT ![s] = new] /\ new \in SlotRecord /\ KindFits(slots[s])
    BY SlotValues DEF ThenCall, Stages
  <1>2. KindFits(new)
    BY <1>1 DEF KindFits, Idle
  <1> HIDE DEF new
  <1> QED BY <1>1, <1>2, QuietStep

LEMMA HearStep ==
    ASSUME BridgeIInv, asked' = asked, NEW s \in Slots, Hear(s)
    PROVE  BridgeIInv'
  <1>1. /\ config \in Config /\ state \in States /\ slots[s] \in SlotRecord
        /\ Unauthorized \in Config
    BY PlainValues, SlotValues DEF BridgeIInv, BridgeTypeOK
  <1>2. CASE HearHealth(s)
    <2>1. config' \in Config /\ state' \in States
      BY <1>1, <1>2 DEF HearHealth, States
    <2> QED BY <1>2, <2>1, EndStep DEF HearHealth
  <1>3. CASE HearStart(s)
    <2>1. config' \in Config /\ state' \in States
      BY <1>1, <1>3 DEF HearStart, States
    <2> QED BY <1>1, <1>3, <2>1, ThenStatusStep DEF HearStart
  <1>4. CASE HearCode(s)
    <2>1. config' \in Config /\ state' \in States /\ slots[s].stage = "answer"
      BY <1>1, <1>4 DEF HearCode, Heard, States
    <2>2. ThenStatus(s, config) \/ ThenCall(s, "call", "session/export")
      BY <1>4 DEF HearCode
    <2>3. UNCHANGED <<telegram, child, boot, bridges>> /\ "session/export" \in Paths
      BY <1>4 DEF HearCode, Paths
    <2> QED BY <1>1, <2>1, <2>2, <2>3, ThenStatusStep, ThenCallStep
  <1>5. CASE HearSession(s)
    <2>1. config' \in Config /\ state' \in States /\ slots[s].stage = "answer"
      BY <1>1, <1>5 DEF HearSession, Heard, Config, SlotRecord
    <2>2. ThenCall(s, "start", "group/resolve")
      BY <1>5 DEF HearSession
    <2>3. UNCHANGED <<telegram, child, boot, bridges>> /\ "group/resolve" \in Paths
      BY <1>5 DEF HearSession, Paths
    <2> QED BY <2>1, <2>2, <2>3, ThenCallStep
  <1>6. CASE HearGroup(s)
    <2>1. PICK saved : saved = [config EXCEPT !.chat = slots[s].chat]
      OBVIOUS
    <2>2. saved \in Config /\ config' = saved /\ ThenStatus(s, saved) /\ state' \in States
      BY <1>1, <1>6, <2>1 DEF HearGroup, ThenStatus, Config, SlotRecord, States
    <2> QED BY <1>6, <2>2, ThenStatusStep DEF HearGroup
  <1>7. CASE HearTransfer(s)
    <2>1. config' \in Config /\ state' \in States
      BY <1>1, <1>7 DEF HearTransfer, States
    <2> QED BY <1>7, <2>1, EndStep DEF HearTransfer
  <1>8. CASE CallFailed(s)
    <2>1. slots[s].kind \in {"status", "begin", "code", "transfer"}
      BY <1>8, SlotValues DEF CallFailed, KindFits
    <2>2. config' \in Config /\ state' \in States
      BY <1>1, <1>8, <2>1 DEF CallFailed, States
    <2> QED BY <1>8, <2>2, EndStep DEF CallFailed
  <1> QED BY <1>2, <1>3, <1>4, <1>5, <1>6, <1>7, <1>8 DEF Hear

-----------------------------------------------------------------------------
(* Calls, and what the bridges do.                                          *)

LEMMA SendStep ==
    ASSUME BridgeIInv, asked' = asked, NEW s \in Slots, Send(s) \/ Break(s)
    PROVE  BridgeIInv'
  <1>1. PICK stage \in {"sent", "broken"}, bridge \in Bridges \cup {NoBridge} :
              slots' = [slots EXCEPT ![s].stage = stage, ![s].bridge = bridge]
    BY DEF Send, Break, BridgeIInv, BridgeTypeOK
  <1>2. /\ slots[s] \in SlotRecord /\ KindFits(slots[s])
        /\ slots[s].stage \in {"call", "sent"}
    BY SlotValues DEF Send, Break
  <1> DEFINE new == [slots[s] EXCEPT !.stage = stage, !.bridge = bridge]
  <1>3. new \in SlotRecord /\ slots' = [slots EXCEPT ![s] = new]
        /\ new.stage = stage /\ new.kind = slots[s].kind
    BY <1>1, <1>2 DEF SlotRecord, Stages, BridgeIInv, BridgeTypeOK
  <1>4. KindFits(new)
    BY <1>2, <1>3 DEF KindFits
  <1>5. /\ UNCHANGED <<telegram, child, boot, bridges>>
        /\ config' \in Config /\ state' \in States
    BY DEF Send, Break, provider, BridgeIInv, BridgeTypeOK, States
  <1> HIDE DEF new
  <1> QED BY <1>3, <1>4, <1>5, QuietStep

\* The slot of a call that has its answer.
LEMMA Answered ==
    ASSUME BridgeIInv, NEW s \in Slots, slots[s].stage = "sent",
           NEW got \in Answers, NEW chat \in Chats \cup {Nothing}, NEW key \in Keys \cup {0}
    PROVE  /\ [slots[s] EXCEPT !.stage = "answer", !.bridge = NoBridge, !.got = got,
                   !.chat = chat, !.key = key] \in SlotRecord
           /\ KindFits([slots[s] EXCEPT !.stage = "answer", !.bridge = NoBridge, !.got = got,
                               !.chat = chat, !.key = key])
  <1> DEFINE new == [slots[s] EXCEPT !.stage = "answer", !.bridge = NoBridge, !.got = got,
                         !.chat = chat, !.key = key]
  <1>1. slots[s] \in SlotRecord /\ KindFits(slots[s])
    BY SlotValues
  <1>2. new \in SlotRecord /\ new.stage = "answer" /\ new.kind = slots[s].kind
    BY <1>1 DEF SlotRecord, Stages
  <1> HIDE DEF new
  <1>3. KindFits(new)
    BY <1>1, <1>2 DEF KindFits
  <1> QED BY <1>2, <1>3 DEF new

\* A bridge that serves a call stays alive.
LEMMA ServedStep ==
    ASSUME BridgeIInv, asked' = asked, UNCHANGED <<provider, revoked, named>>,
           NEW s \in Slots, slots[s].stage = "sent", Up(slots[s].bridge),
           NEW got \in Answers, NEW chat \in Chats \cup {Nothing}, NEW key \in Keys \cup {0},
           NEW b \in BridgeRecord, b.life = bridges[slots[s].bridge].life,
           bridges' = [bridges EXCEPT ![slots[s].bridge] = b],
           granted' \in granted .. asked.keys,
           slots' = [slots EXCEPT ![s] = [slots[s] EXCEPT !.stage = "answer", !.bridge = NoBridge,
                                              !.got = got, !.chat = chat, !.key = key]]
    PROVE  BridgeIInv'
  <1> DEFINE new == [slots[s] EXCEPT !.stage = "answer", !.bridge = NoBridge, !.got = got,
                         !.chat = chat, !.key = key]
  <1>1. new \in SlotRecord /\ KindFits(new)
    BY Answered
  <1>2. slots' = [slots EXCEPT ![s] = new]
    OBVIOUS
  <1> HIDE DEF new
  <1>3. /\ bridges' \in [Bridges -> BridgeRecord]
        /\ \A c \in Bridges : bridges'[c].life = bridges[c].life
    BY DEF Up, BridgeIInv, BridgeTypeOK
  <1>4. granted' \in 0 .. asked.keys /\ revoked' \subseteq 1 .. granted' /\ named' \in Chats
    BY PlainValues DEF BridgeIInv, BridgeTypeOK
  <1>5. config' \in Config /\ state' \in States /\ UNCHANGED <<child, boot>>
    BY DEF provider, BridgeIInv, BridgeTypeOK
  <1> QED BY <1>1, <1>2, <1>3, <1>4, <1>5, FunctionStep

LEMMA ServeStep ==
    ASSUME BridgeIInv, asked' = asked, NEW s \in Slots, Serve(s)
    PROVE  BridgeIInv'
  <1>1. PICK b \in Bridges : b = slots[s].bridge
    BY DEF Serve, Health, AuthStart, AuthCode, AuthPassword, ExportSession,
           ResolveGroup, Carry, Served, Up
  <1>2. slots[s].stage = "sent" /\ Up(b)
    BY <1>1 DEF Serve, Health, AuthStart, AuthCode, AuthPassword, ExportSession,
           ResolveGroup, Carry, Served
  <1>3. PICK old, slot : old = bridges[b] /\ slot = slots[s]
    OBVIOUS
  <1>4. /\ old \in BridgeRecord /\ slot \in SlotRecord /\ bridges = [bridges EXCEPT ![b] = old]
        /\ granted \in granted .. asked.keys /\ granted \in Nat /\ asked.keys \in Nat
        /\ Keys = 1 .. asked.keys /\ named \in Chats
    BY <1>3, PlainValues DEF BridgeIInv, BridgeTypeOK
  <1>5. /\ slot.chat \in Chats \cup {Nothing} /\ slot.key \in Keys \cup {0}
        /\ slot.got \in Answers
    BY <1>4 DEF SlotRecord
  <1>6. ASSUME NEW got \in Answers, Answer(s, got)
        PROVE  slots' = [slots EXCEPT ![s] = [slots[s] EXCEPT !.stage = "answer", !.bridge = NoBridge,
                                                 !.got = got, !.chat = slot.chat, !.key = slot.key]]
    BY <1>3, <1>4, <1>6 DEF Answer, SlotRecord, BridgeIInv, BridgeTypeOK
  <1>7. {"yes", "no", "password"} \subseteq Answers
    BY DEF Answers
  <1>8. ASSUME NEW got \in {"yes", "no", "password"}, Answer(s, got), asked' = asked,
               NEW new \in BridgeRecord, new.life = old.life, bridges' = [bridges EXCEPT ![b] = new],
               granted' \in granted .. asked.keys, UNCHANGED <<provider, revoked, named>>
        PROVE  BridgeIInv'
    <2>1. /\ bridges' = [bridges EXCEPT ![slots[s].bridge] = new]
          /\ new.life = bridges[slots[s].bridge].life /\ Up(slots[s].bridge) /\ got \in Answers
      BY <1>1, <1>2, <1>3, <1>7, <1>8
    <2>2. slots' = [slots EXCEPT ![s] = [slots[s] EXCEPT !.stage = "answer", !.bridge = NoBridge,
                                            !.got = got, !.chat = slot.chat, !.key = slot.key]]
      BY <1>6, <1>8, <2>1
    <2> QED BY <1>2, <1>5, <1>8, <2>1, <2>2, ServedStep
  <1>9. CASE Health(s) \/ Carry(s)
    <2>1. \E got \in {"yes", "no"} : Answer(s, got)
      BY <1>9 DEF Health, Carry
    <2>2. UNCHANGED <<provider, revoked, named, granted, bridges>>
      BY <1>9 DEF Health, Carry, telegram
    <2> QED BY <2>1, <2>2, <1>4, <1>8
  <1>10. CASE AuthStart(s)
    <2> DEFINE new == [old EXCEPT !.code = TRUE, !.key = IF @ # 0 /\ ~old.cached THEN 0 ELSE @]
    <2>1. bridges' = [bridges EXCEPT ![b] = new] /\ Answer(s, "yes")
      BY <1>1, <1>3, <1>10 DEF AuthStart, Become, Serving
    <2>2. new \in BridgeRecord /\ new.life = old.life
      BY <1>4 DEF BridgeRecord
    <2>3. UNCHANGED <<provider, revoked, named, granted>>
      BY <1>10 DEF AuthStart, telegram
    <2> QED BY <2>1, <2>2, <2>3, <1>4, <1>8
  <1>11. ASSUME NEW code \in BOOLEAN, SignIn(s, code), UNCHANGED <<provider, revoked, named>>
         PROVE  BridgeIInv'
    <2>1. PICK key : key = granted + 1
      OBVIOUS
    <2>2. granted' = key /\ key \in Keys /\ granted' \in granted .. asked.keys
      BY <1>4, <1>11, <2>1, PlainValues DEF SignIn, BridgeIInv, BridgeTypeOK
    <2> DEFINE new == [old EXCEPT !.key = key, !.cached = TRUE, !.code = code]
    <2>3. bridges' = [bridges EXCEPT ![b] = new] /\ Answer(s, "yes")
      BY <1>1, <1>3, <1>11, <2>2 DEF SignIn, Become, Serving
    <2>4. new \in BridgeRecord /\ new.life = old.life
      BY <1>4, <2>2 DEF BridgeRecord
    <2> QED BY <2>2, <2>3, <2>4, <1>8, <1>11
  <1>12. CASE AuthCode(s)
    <2>1. UNCHANGED <<provider, revoked, named>>
      BY <1>12 DEF AuthCode
    <2>2. CASE Answer(s, "password") /\ UNCHANGED <<granted, bridges>>
      BY <2>1, <2>2, <1>4, <1>8
    <2> QED BY <1>11, <1>12, <2>1, <2>2 DEF AuthCode
  <1>13. CASE AuthPassword(s)
    BY <1>11, <1>13 DEF AuthPassword
  <1>14. CASE ExportSession(s)
    <2>0. UNCHANGED <<provider, revoked, named, granted, bridges>>
      BY <1>14 DEF ExportSession, telegram
    <2>1. slots' = [slots EXCEPT ![s] = [slots[s] EXCEPT !.stage = "answer", !.bridge = NoBridge,
                                            !.got = slot.got, !.chat = slot.chat, !.key = old.key]]
      <3>1. slots' = [slots EXCEPT ![s].stage = "answer", ![s].bridge = NoBridge, ![s].key = old.key]
        BY <1>1, <1>3, <1>14 DEF ExportSession, Serving
      <3> QED BY <3>1, <1>3, <1>4 DEF SlotRecord, BridgeIInv, BridgeTypeOK
    <2>2. old.key \in Keys \cup {0}
      BY <1>4 DEF BridgeRecord
    <2>3. bridges' = [bridges EXCEPT ![slots[s].bridge] = old] /\ granted' \in granted .. asked.keys
      BY <2>0, <1>1, <1>4
    <2>4. old.life = bridges[slots[s].bridge].life /\ Up(slots[s].bridge)
      BY <1>1, <1>2, <1>3
    <2> QED BY <2>0, <2>1, <2>2, <2>3, <2>4, <1>2, <1>4, <1>5, ServedStep
  <1>15. CASE ResolveGroup(s)
    <2>1. PICK chat \in Chats : chat = named
      BY <1>4
    <2> DEFINE new == [old EXCEPT !.chat = chat]
    <2>2. bridges' = [bridges EXCEPT ![slots[s].bridge] = new]
      BY <1>1, <1>3, <1>15, <2>1 DEF ResolveGroup, Become, Serving
    <2>3. new \in BridgeRecord /\ new.life = bridges[slots[s].bridge].life
      BY <1>1, <1>3, <1>4 DEF BridgeRecord
    <2>4. UNCHANGED <<provider, revoked, named, granted>>
      BY <1>15 DEF ResolveGroup, telegram
    <2>5. slots' = [slots EXCEPT ![s] = [slots[s] EXCEPT !.stage = "answer", !.bridge = NoBridge,
                                            !.got = slot.got, !.chat = chat, !.key = slot.key]]
      <3>1. slots' = [slots EXCEPT ![s].stage = "answer", ![s].bridge = NoBridge, ![s].chat = chat]
        BY <1>15, <2>1 DEF ResolveGroup
      <3> QED BY <3>1, <1>3, <1>4 DEF SlotRecord, BridgeIInv, BridgeTypeOK
    <2>6. granted' \in granted .. asked.keys /\ Up(slots[s].bridge)
      BY <2>4, <1>1, <1>2, <1>4
    <2> HIDE DEF new
    <2> QED BY <2>2, <2>3, <2>4, <2>5, <2>6, <1>2, <1>5, ServedStep
  <1> QED BY <1>9, <1>10, <1>12, <1>13, <1>14, <1>15 DEF Serve

\* Telegram, and the watch of a bridge, which neither starts nor ends it.
LEMMA WatchStep ==
    ASSUME BridgeIInv, asked' = asked, NEW b \in Bridges, Watch(b)
    PROVE  BridgeIInv'
  <1>1. UNCHANGED <<telegram, provider, slots>>
    BY DEF Watch, WatchAsk, WatchHear, WatchTimeout
  <1>2. bridges[b] \in BridgeRecord /\ DOMAIN bridges = Bridges
    BY DEF BridgeIInv, BridgeTypeOK
  <1>3. \E new \in BridgeRecord : new.life = bridges[b].life /\ bridges' = [bridges EXCEPT ![b] = new]
    <2>1. CASE WatchAsk(b)
      <3> DEFINE new == IF bridges[b].key = 0 THEN [bridges[b] EXCEPT !.cached = FALSE]
                        ELSE [bridges[b] EXCEPT !.watch = IF Authorized(b) THEN "known" ELSE "lost"]
      <3>1. bridges' = [bridges EXCEPT ![b] = new]
        BY <2>1, <1>2 DEF WatchAsk
      <3>2. new \in BridgeRecord /\ new.life = bridges[b].life
        BY <1>2 DEF BridgeRecord
      <3> HIDE DEF new
      <3> QED BY <3>1, <3>2
    <2>2. CASE WatchHear(b)
      <3> DEFINE heardOf == [bridges[b] EXCEPT !.watch = "idle", !.cached = bridges[b].watch = "known"]
                 dropped == [heardOf EXCEPT !.key = 0, !.code = FALSE]
      <3>1. bridges' = [bridges EXCEPT ![b] = heardOf] \/ bridges' = [bridges EXCEPT ![b] = dropped]
        BY <2>2 DEF WatchHear
      <3>2. heardOf \in BridgeRecord /\ heardOf.life = bridges[b].life
        BY <1>2 DEF BridgeRecord
      <3> HIDE DEF heardOf
      <3>3. dropped \in BridgeRecord /\ dropped.life = bridges[b].life
        BY <3>2 DEF BridgeRecord
      <3> HIDE DEF dropped
      <3> QED BY <3>1, <3>2, <3>3
    <2>3. CASE WatchTimeout(b)
      <3> DEFINE new == [bridges[b] EXCEPT !.watch = "idle"]
      <3>1. bridges' = [bridges EXCEPT ![b] = new]
        BY <2>3, <1>2 DEF WatchTimeout
      <3>2. new \in BridgeRecord /\ new.life = bridges[b].life
        BY <1>2 DEF BridgeRecord
      <3> HIDE DEF new
      <3> QED BY <3>1, <3>2
    <2> QED BY <2>1, <2>2, <2>3 DEF Watch
  <1>4. /\ bridges' \in [Bridges -> BridgeRecord]
        /\ \A c \in Bridges : bridges'[c].life = bridges[c].life
    BY <1>2, <1>3 DEF BridgeIInv, BridgeTypeOK
  <1>5. BridgeTypeOK'
    BY <1>1, <1>4, SameTypes DEF BridgeIInv, BridgeTypeOK, telegram, provider
  <1>6. ChildOK' /\ KindsOK'
    BY <1>1 DEF BridgeIInv, ChildOK, KindsOK, KindFits, provider
  <1>7. NoBridgeIsLost'
    BY <1>1, <1>4 DEF BridgeIInv, NoBridgeIsLost, provider
  <1> QED BY <1>5, <1>6, <1>7 DEF BridgeIInv

LEMMA TelegramStep ==
    ASSUME BridgeIInv, asked' = asked,
           (\E k \in Keys : Revoke(k)) \/ (\E c \in Chats : Rename(c))
    PROVE  BridgeIInv'
  <1>1. UNCHANGED <<provider, granted, bridges, slots>>
    BY DEF Revoke, Rename
  <1>2. revoked' \subseteq 1 .. granted /\ named' \in Chats
    BY DEF Revoke, Rename, BridgeIInv, BridgeTypeOK
  <1>3. BridgeTypeOK'
    BY <1>1, <1>2, SameTypes DEF BridgeIInv, BridgeTypeOK, provider
  <1>4. ChildOK' /\ KindsOK' /\ NoBridgeIsLost'
    BY <1>1 DEF BridgeIInv, ChildOK, KindsOK, KindFits, provider, NoBridgeIsLost
  <1> QED BY <1>3, <1>4 DEF BridgeIInv

-----------------------------------------------------------------------------
(* The start and the end of bridges.                                        *)

\* A step at which functions go on from one stage to another, all or one of them.
LEMMA ProcessStep ==
    ASSUME BridgeIInv, asked' = asked, UNCHANGED telegram,
           slots' \in [Slots -> SlotRecord], \A s \in Slots : KindFits(slots'[s]),
           bridges' \in [Bridges -> BridgeRecord], config' \in Config, state' \in States,
           child' \in [bridge : Bridges \cup {NoBridge}, port : BOOLEAN],
           boot' \in [stage : {"idle", "launch", "ready", "health"}, snap : Config,
                      bridge : Bridges \cup {NoBridge}],
           ChildOK', NoBridgeIsLost'
    PROVE  BridgeIInv'
  <1>1. BridgeTypeOK'
    BY SameTypes DEF BridgeIInv, BridgeTypeOK, telegram
  <1>2. KindsOK'
    BY DEF KindsOK, KindFits
  <1> QED BY <1>1, <1>2 DEF BridgeIInv

LEMMA SettledSlots ==
    ASSUME BridgeIInv, NEW stage \in {"call", "unstarted"}, slots' = Settled(slots, stage)
    PROVE  slots' \in [Slots -> SlotRecord] /\ \A s \in Slots : KindFits(slots'[s])
  <1> SUFFICES ASSUME NEW s \in Slots
               PROVE  slots'[s] \in SlotRecord /\ KindFits(slots'[s])
    BY DEF Settled
  <1>1. slots[s] \in SlotRecord /\ KindFits(slots[s])
    BY SlotValues
  <1> DEFINE new == [slots[s] EXCEPT !.stage = stage]
  <1>2. new \in SlotRecord /\ new.stage = stage /\ new.kind = slots[s].kind
    BY <1>1 DEF SlotRecord, Stages
  <1>3. slots'[s] = IF slots[s].stage = "wait" THEN new ELSE slots[s]
    BY DEF Settled
  <1> HIDE DEF new
  <1>4. slots[s].stage = "wait" => KindFits(new)
    BY <1>1, <1>2 DEF KindFits
  <1> QED BY <1>1, <1>2, <1>3, <1>4

\* Functions that stay where they are.
LEMMA SameSlots ==
    ASSUME BridgeIInv, slots' = slots
    PROVE  slots' \in [Slots -> SlotRecord] /\ \A s \in Slots : KindFits(slots'[s])
  BY DEF BridgeIInv, BridgeTypeOK, KindsOK

LEMMA OneSlot ==
    ASSUME BridgeIInv, NEW s \in Slots, NEW new \in SlotRecord, KindFits(new),
           slots' = [slots EXCEPT ![s] = new]
    PROVE  slots' \in [Slots -> SlotRecord] /\ \A q \in Slots : KindFits(slots'[q])
  BY DEF BridgeIInv, BridgeTypeOK, KindsOK

\* A killed bridge, and one of which the same is known as before.
LEMMA KilledBridge ==
    ASSUME BridgeIInv, NEW b \in Bridges
    PROVE  /\ Killed(b) \in [Bridges -> BridgeRecord]
           /\ Killed(b)[b].life = "closing"
           /\ \A c \in Bridges \ {b} : Killed(b)[c] = bridges[c]
  <1>1. bridges[b] \in BridgeRecord /\ bridges \in [Bridges -> BridgeRecord]
    BY DEF BridgeIInv, BridgeTypeOK
  <1> DEFINE new == [bridges[b] EXCEPT !.life = "closing", !.watch = "idle"]
  <1>2. new \in BridgeRecord /\ new.life = "closing"
    BY <1>1 DEF BridgeRecord, Lives
  <1>3. Killed(b) = [bridges EXCEPT ![b] = new]
    BY <1>1 DEF Killed
  <1> HIDE DEF new
  <1> QED BY <1>1, <1>2, <1>3

\* A start finds a child that runs, or shares the start under way, or there is no child.
LEMMA StartStep ==
    ASSUME BridgeIInv, asked' = asked, NEW s \in Slots, Start(s)
    PROVE  BridgeIInv'
  <1>1. PICK stage \in {"call", "wait"} : slots' = [slots EXCEPT ![s].stage = stage]
    BY DEF Start, Go
  <1>2. slots[s] \in SlotRecord /\ KindFits(slots[s]) /\ slots[s].stage = "start"
    BY SlotValues DEF Start
  <1> DEFINE new == [slots[s] EXCEPT !.stage = stage]
  <1>3. /\ new \in SlotRecord /\ new.stage = stage /\ new.kind = slots[s].kind
        /\ slots' = [slots EXCEPT ![s] = new]
    BY <1>1, <1>2 DEF SlotRecord, Stages
  <1> HIDE DEF new
  <1>4. KindFits(new)
    BY <1>2, <1>3 DEF KindFits
  <1>5. slots' \in [Slots -> SlotRecord] /\ \A q \in Slots : KindFits(slots'[q])
    BY <1>3, <1>4, OneSlot
  <1>6. UNCHANGED <<telegram, config, state, child, bridges>>
    BY DEF Start
  <1>7. \/ boot' = boot
        \/ /\ ~Running /\ boot = NoBoot
           /\ boot' = [NoBoot EXCEPT !.stage = "launch", !.snap = config]
    BY DEF Start
  <1>8. /\ config \in Config /\ state \in States
        /\ child \in [bridge : Bridges \cup {NoBridge}, port : BOOLEAN]
        /\ boot \in [stage : {"idle", "launch", "ready", "health"}, snap : Config,
                     bridge : Bridges \cup {NoBridge}]
        /\ bridges \in [Bridges -> BridgeRecord]
    BY DEF BridgeIInv, BridgeTypeOK
  <1>9. /\ boot' \in [stage : {"idle", "launch", "ready", "health"}, snap : Config,
                      bridge : Bridges \cup {NoBridge}]
        /\ boot' = boot \/ boot'.stage = "launch"
    BY <1>7, <1>8 DEF NoBoot
  <1>10. ChildOK'
    <2>1. CASE boot' = boot
      BY <2>1, <1>6 DEF BridgeIInv, ChildOK
    <2>2. CASE ~Running /\ boot = NoBoot /\ boot'.stage = "launch"
      <3>1. child.bridge = NoBridge
        BY <2>2, <1>8 DEF Running, BridgeIInv, ChildOK, NoBoot
      <3> QED BY <2>2, <3>1, <1>6 DEF ChildOK
    <2> QED BY <2>1, <2>2, <1>7, <1>9
  <1>11. NoBridgeIsLost'
    BY <1>6 DEF BridgeIInv, NoBridgeIsLost
  <1> QED BY <1>5, <1>6, <1>8, <1>9, <1>10, <1>11, ProcessStep

LEMMA NotConfiguredStep ==
    ASSUME BridgeIInv, asked' = asked, NotConfigured
    PROVE  BridgeIInv'
  <1>1. /\ UNCHANGED <<telegram, config, child, bridges>> /\ boot' = NoBoot
        /\ state' = "UNCONFIGURED" /\ slots' = Settled(slots, "unstarted")
    BY DEF NotConfigured
  <1>2. slots' \in [Slots -> SlotRecord] /\ \A s \in Slots : KindFits(slots'[s])
    BY <1>1, SettledSlots
  <1>3. /\ config \in Config /\ bridges \in [Bridges -> BridgeRecord]
        /\ child \in [bridge : Bridges \cup {NoBridge}, port : BOOLEAN]
        /\ NoBoot \in [stage : {"idle", "launch", "ready", "health"}, snap : Config,
                          bridge : Bridges \cup {NoBridge}]
        /\ NoBoot.stage = "idle" /\ "UNCONFIGURED" \in States
    BY PlainValues DEF BridgeIInv, BridgeTypeOK, NoBoot, States
  <1>4. child.bridge = NoBridge
    BY DEF NotConfigured, BridgeIInv, ChildOK
  <1>5. ChildOK' /\ NoBridgeIsLost'
    BY <1>1, <1>3, <1>4 DEF BridgeIInv, ChildOK, NoBridgeIsLost
  <1> QED BY <1>1, <1>2, <1>3, <1>5, ProcessStep

\* There was no child, and so no bridge that has not been told to end.
LEMMA SpawnStep ==
    ASSUME BridgeIInv, asked' = asked, NEW b \in Bridges, Spawn(b)
    PROVE  BridgeIInv'
  <1> DEFINE new == [NoProcess EXCEPT !.life = "starting", !.key = boot.snap.key,
                         !.cached = boot.snap.key # 0, !.chat = boot.snap.chat]
  <1>1. /\ boot.stage = "launch" /\ bridges' = [bridges EXCEPT ![b] = new]
        /\ child' = [bridge |-> b, port |-> FALSE]
        /\ boot' = [boot EXCEPT !.stage = "ready", !.bridge = b]
        /\ UNCHANGED <<telegram, config, state, slots>>
    BY DEF Spawn
  <1>2. /\ config \in Config /\ state \in States /\ bridges \in [Bridges -> BridgeRecord]
        /\ boot \in [stage : {"idle", "launch", "ready", "health"}, snap : Config,
                     bridge : Bridges \cup {NoBridge}]
        /\ NoBridge \notin Bridges
    BY PlainValues DEF BridgeIInv, BridgeTypeOK
  <1>3. boot.snap.key \in Keys \cup {0} /\ boot.snap.chat \in Chats \cup {Nothing}
    BY <1>2 DEF Config
  <1>4. new \in BridgeRecord
    BY <1>3 DEF BridgeRecord, NoProcess, Lives
  <1> HIDE DEF new
  <1>5. /\ boot' \in [stage : {"idle", "launch", "ready", "health"}, snap : Config,
                      bridge : Bridges \cup {NoBridge}]
        /\ boot'.stage = "ready" /\ boot'.bridge = b
        /\ child' \in [bridge : Bridges \cup {NoBridge}, port : BOOLEAN] /\ child'.bridge = b
        /\ bridges' \in [Bridges -> BridgeRecord]
        /\ \A c \in Bridges \ {b} : bridges'[c] = bridges[c]
    BY <1>1, <1>2, <1>4
  <1>6. \A c \in Bridges : bridges[c].life \notin {"starting", "up"}
    BY <1>1, <1>2 DEF BridgeIInv, ChildOK, NoBridgeIsLost
  <1>7. ChildOK'
    BY <1>5 DEF ChildOK
  <1>8. NoBridgeIsLost'
    BY <1>5, <1>6 DEF NoBridgeIsLost
  <1>9. slots' \in [Slots -> SlotRecord] /\ \A s \in Slots : KindFits(slots'[s])
    BY <1>1, SameSlots
  <1> QED BY <1>1, <1>2, <1>5, <1>7, <1>8, <1>9, ProcessStep

LEMMA ReadyStep ==
    ASSUME BridgeIInv, asked' = asked, NEW b \in Bridges, Ready(b)
    PROVE  BridgeIInv'
  <1>1. /\ boot.stage = "ready" /\ boot.bridge = b /\ bridges[b].life = "starting"
        /\ bridges' = [bridges EXCEPT ![b].life = "up"]
        /\ child' = [child EXCEPT !.port = child.bridge # NoBridge]
        /\ boot' = [boot EXCEPT !.stage = "health"]
        /\ UNCHANGED <<telegram, config, state, slots>>
    BY DEF Ready
  <1>2. /\ config \in Config /\ state \in States /\ bridges \in [Bridges -> BridgeRecord]
        /\ child \in [bridge : Bridges \cup {NoBridge}, port : BOOLEAN]
        /\ boot \in [stage : {"idle", "launch", "ready", "health"}, snap : Config,
                     bridge : Bridges \cup {NoBridge}]
    BY DEF BridgeIInv, BridgeTypeOK
  <1> DEFINE new == [bridges[b] EXCEPT !.life = "up"]
  <1>3. new \in BridgeRecord /\ bridges' = [bridges EXCEPT ![b] = new]
    BY <1>1, <1>2 DEF BridgeRecord, Lives
  <1> HIDE DEF new
  <1>4. /\ boot' \in [stage : {"idle", "launch", "ready", "health"}, snap : Config,
                      bridge : Bridges \cup {NoBridge}]
        /\ boot'.stage = "health"
        /\ child' \in [bridge : Bridges \cup {NoBridge}, port : BOOLEAN]
        /\ child'.bridge = child.bridge /\ (child.bridge # NoBridge => child'.port)
        /\ bridges' \in [Bridges -> BridgeRecord]
        /\ \A c \in Bridges \ {b} : bridges'[c] = bridges[c]
    <2>1. PICK port \in BOOLEAN : port = (child.bridge # NoBridge)
      OBVIOUS
    <2>2. child' = [child EXCEPT !.port = port]
      BY <1>1, <2>1
    <2>3. /\ child' \in [bridge : Bridges \cup {NoBridge}, port : BOOLEAN]
          /\ child'.bridge = child.bridge /\ child'.port = port
      BY <1>2, <2>2
    <2>4. /\ boot' \in [stage : {"idle", "launch", "ready", "health"}, snap : Config,
                        bridge : Bridges \cup {NoBridge}]
          /\ boot'.stage = "health"
      BY <1>1, <1>2
    <2>5. /\ bridges' \in [Bridges -> BridgeRecord]
          /\ \A c \in Bridges \ {b} : bridges'[c] = bridges[c]
      BY <1>2, <1>3
    <2> QED BY <2>1, <2>3, <2>4, <2>5
  <1>5. ChildOK'
    BY <1>4 DEF ChildOK
  <1>6. NoBridgeIsLost'
    BY <1>1, <1>4 DEF BridgeIInv, NoBridgeIsLost
  <1>7. slots' \in [Slots -> SlotRecord] /\ \A s \in Slots : KindFits(slots'[s])
    BY <1>1, SameSlots
  <1> QED BY <1>1, <1>2, <1>4, <1>5, <1>6, <1>7, ProcessStep

\* The only bridge that may be alive then is the one that the start has spawned.
LEMMA StartFailedStep ==
    ASSUME BridgeIInv, asked' = asked, StartFailed
    PROVE  BridgeIInv'
  <1>1. /\ boot.stage = "ready" /\ child' = NoChild /\ boot' = NoBoot /\ state' = "ERROR"
        /\ slots' = Settled(slots, "unstarted") /\ UNCHANGED <<telegram, config>>
        /\ bridges' = IF bridges[boot.bridge] = NoProcess THEN bridges ELSE Killed(boot.bridge)
    BY DEF StartFailed
  <1>2. PICK b \in Bridges : b = boot.bridge
    BY <1>1 DEF BridgeIInv, ChildOK
  <1>3. child.bridge \in {b, NoBridge} /\ NoBridge \notin Bridges
    BY <1>1, <1>2, PlainValues DEF BridgeIInv, ChildOK
  <1>4. /\ bridges' \in [Bridges -> BridgeRecord]
        /\ bridges'[b].life \notin {"starting", "up"}
        /\ \A c \in Bridges \ {b} : bridges'[c] = bridges[c]
    <2>1. CASE bridges[b] = NoProcess
      BY <2>1, <1>1, <1>2 DEF NoProcess, BridgeIInv, BridgeTypeOK
    <2>2. CASE bridges[b] # NoProcess
      BY <2>2, <1>1, <1>2, KilledBridge
    <2> QED BY <2>1, <2>2
  <1>5. NoBridgeIsLost'
    BY <1>3, <1>4 DEF BridgeIInv, NoBridgeIsLost
  <1>6. /\ config \in Config /\ "ERROR" \in States
        /\ NoChild \in [bridge : Bridges \cup {NoBridge}, port : BOOLEAN]
        /\ NoChild.bridge = NoBridge
        /\ NoBoot \in [stage : {"idle", "launch", "ready", "health"}, snap : Config,
                          bridge : Bridges \cup {NoBridge}]
        /\ NoBoot.stage = "idle"
    BY PlainValues DEF BridgeIInv, BridgeTypeOK, NoBoot, NoChild, States
  <1>7. ChildOK'
    BY <1>1, <1>6 DEF ChildOK
  <1>8. slots' \in [Slots -> SlotRecord] /\ \A s \in Slots : KindFits(slots'[s])
    BY <1>1, SettledSlots
  <1> QED BY <1>1, <1>4, <1>5, <1>6, <1>7, <1>8, ProcessStep

LEMMA StartedStep ==
    ASSUME BridgeIInv, asked' = asked, Started
    PROVE  BridgeIInv'
  <1>1. /\ boot.stage = "health" /\ boot' = NoBoot
        /\ UNCHANGED <<telegram, config, child, bridges>>
        /\ state' \in {"AUTH_FAILED", "RESOLVING_GROUP", "CONNECTED", "ERROR"}
        /\ \E stage \in {"call", "unstarted"} : slots' = Settled(slots, stage)
    BY DEF Started
  <1>2. slots' \in [Slots -> SlotRecord] /\ \A s \in Slots : KindFits(slots'[s])
    BY <1>1, SettledSlots
  <1>3. /\ config \in Config /\ state' \in States /\ bridges \in [Bridges -> BridgeRecord]
        /\ child \in [bridge : Bridges \cup {NoBridge}, port : BOOLEAN]
        /\ NoBoot \in [stage : {"idle", "launch", "ready", "health"}, snap : Config,
                          bridge : Bridges \cup {NoBridge}]
        /\ NoBoot.stage = "idle"
    BY <1>1, PlainValues DEF BridgeIInv, BridgeTypeOK, NoBoot, States
  <1>4. ChildOK' /\ NoBridgeIsLost'
    BY <1>1, <1>3 DEF BridgeIInv, ChildOK, NoBridgeIsLost
  <1> QED BY <1>1, <1>2, <1>3, <1>4, ProcessStep

LEMMA StopStep ==
    ASSUME BridgeIInv, asked' = asked, NEW s \in Slots, Stop(s)
    PROVE  BridgeIInv'
  <1>1. /\ slots[s].stage = "stop" /\ UNCHANGED <<telegram, config, state, child, boot>>
        /\ slots' = [slots EXCEPT ![s].stage = "exit", ![s].bridge = child.bridge]
        /\ \/ bridges' = bridges
           \/ child.bridge \in Bridges /\ bridges' = Killed(child.bridge)
    BY DEF Stop, Up, provider
  <1>2. /\ config \in Config /\ state \in States /\ bridges \in [Bridges -> BridgeRecord]
        /\ child \in [bridge : Bridges \cup {NoBridge}, port : BOOLEAN]
        /\ boot \in [stage : {"idle", "launch", "ready", "health"}, snap : Config,
                     bridge : Bridges \cup {NoBridge}]
        /\ slots[s] \in SlotRecord /\ KindFits(slots[s])
    BY SlotValues DEF BridgeIInv, BridgeTypeOK
  <1> DEFINE new == [slots[s] EXCEPT !.stage = "exit", !.bridge = child.bridge]
  <1>3. /\ new \in SlotRecord /\ new.stage = "exit" /\ new.kind = slots[s].kind
        /\ slots' = [slots EXCEPT ![s] = new]
    BY <1>1, <1>2 DEF SlotRecord, Stages
  <1> HIDE DEF new
  <1>4. KindFits(new)
    BY <1>1, <1>2, <1>3 DEF KindFits
  <1>5. slots' \in [Slots -> SlotRecord] /\ \A q \in Slots : KindFits(slots'[q])
    BY <1>3, <1>4, OneSlot
  <1>6. /\ bridges' \in [Bridges -> BridgeRecord]
        /\ \A c \in Bridges : bridges'[c].life \in {"starting", "up"} => bridges'[c] = bridges[c]
    <2>1. CASE bridges' = bridges
      BY <2>1, <1>2
    <2>2. ASSUME child.bridge \in Bridges, bridges' = Killed(child.bridge)
          PROVE  /\ bridges' \in [Bridges -> BridgeRecord]
                 /\ \A c \in Bridges : bridges'[c].life \in {"starting", "up"} => bridges'[c] = bridges[c]
      <3>1. PICK b \in Bridges : b = child.bridge
        BY <2>2
      <3> QED BY <2>2, <3>1, KilledBridge
    <2> QED BY <2>1, <2>2, <1>1
  <1>7. ChildOK' /\ NoBridgeIsLost'
    BY <1>1, <1>6 DEF BridgeIInv, ChildOK, NoBridgeIsLost
  <1> QED BY <1>1, <1>2, <1>5, <1>6, <1>7, ProcessStep

LEMMA ExitStep ==
    ASSUME BridgeIInv, asked' = asked, NEW b \in Bridges, Exit(b)
    PROVE  BridgeIInv'
  <1>1. /\ bridges' = [bridges EXCEPT ![b] = NoProcess] /\ UNCHANGED <<telegram, config, boot, slots>>
        /\ \/ child.bridge = b /\ boot.stage # "ready" /\ child' = NoChild
           \/ ~(child.bridge = b /\ boot.stage # "ready") /\ child' = child
        /\ state' \in {state, "ERROR"}
    BY DEF Exit
  <1>2. /\ config \in Config /\ state' \in States /\ bridges \in [Bridges -> BridgeRecord]
        /\ child \in [bridge : Bridges \cup {NoBridge}, port : BOOLEAN]
        /\ NoChild \in [bridge : Bridges \cup {NoBridge}, port : BOOLEAN]
        /\ NoChild.bridge = NoBridge
        /\ boot \in [stage : {"idle", "launch", "ready", "health"}, snap : Config,
                     bridge : Bridges \cup {NoBridge}]
        /\ NoProcess \in BridgeRecord /\ NoProcess.life = "gone" /\ NoBridge \notin Bridges
    BY <1>1, PlainValues DEF BridgeIInv, BridgeTypeOK, NoChild, States, NoProcess
  <1>3. /\ bridges' \in [Bridges -> BridgeRecord] /\ bridges'[b].life = "gone"
        /\ \A c \in Bridges \ {b} : bridges'[c] = bridges[c]
    BY <1>1, <1>2
  <1>4. ChildOK'
    BY <1>1, <1>2 DEF BridgeIInv, ChildOK
  <1>5. NoBridgeIsLost'
    BY <1>1, <1>3 DEF BridgeIInv, NoBridgeIsLost
  <1>6. slots' \in [Slots -> SlotRecord] /\ \A s \in Slots : KindFits(slots'[s])
    BY <1>1, SameSlots
  <1> QED BY <1>1, <1>2, <1>3, <1>4, <1>5, <1>6, ProcessStep

\* After a stop the child is forgotten, and killed if it has not ended.
LEMMA StoppedStep ==
    ASSUME BridgeIInv, asked' = asked, NEW s \in Slots, Stopped(s)
    PROVE  BridgeIInv'
  <1>1. PICK b : b = slots[s].bridge
    OBVIOUS
  <1>2. /\ slots[s].stage = "exit" /\ UNCHANGED <<telegram, boot>> /\ Then(s)
        /\ child' = IF child.bridge = b THEN NoChild ELSE child
        /\ bridges' = IF b = NoBridge \/ bridges[b] = NoProcess THEN bridges ELSE Killed(b)
    BY <1>1 DEF Stopped
  <1>3. /\ config \in Config /\ state \in States /\ bridges \in [Bridges -> BridgeRecord]
        /\ child \in [bridge : Bridges \cup {NoBridge}, port : BOOLEAN]
        /\ NoChild \in [bridge : Bridges \cup {NoBridge}, port : BOOLEAN]
        /\ NoChild.bridge = NoBridge
        /\ boot \in [stage : {"idle", "launch", "ready", "health"}, snap : Config,
                     bridge : Bridges \cup {NoBridge}]
        /\ NoProcess.life = "gone" /\ NoBridge \notin Bridges
        /\ slots[s] \in SlotRecord /\ KindFits(slots[s])
        /\ b \in Bridges \cup {NoBridge} /\ slots[s].snap \in Config
    BY <1>1, PlainValues, SlotValues DEF BridgeIInv, BridgeTypeOK, NoChild, NoProcess, SlotRecord
  <1>4. /\ bridges' \in [Bridges -> BridgeRecord]
        /\ \A c \in Bridges : bridges'[c].life \in {"starting", "up"} => c # b /\ bridges'[c] = bridges[c]
    <2>1. CASE b = NoBridge \/ bridges[b] = NoProcess
      BY <2>1, <1>2, <1>3
    <2>2. CASE ~(b = NoBridge \/ bridges[b] = NoProcess)
      BY <2>2, <1>2, <1>3, KilledBridge
    <2> QED BY <2>1, <2>2
  <1>5. ChildOK'
    BY <1>2, <1>3 DEF BridgeIInv, ChildOK
  <1>6. NoBridgeIsLost'
    BY <1>2, <1>4 DEF BridgeIInv, NoBridgeIsLost
  <1>7. slots[s].kind \in {"begin", "restart", "reauthorize"}
    BY <1>2, <1>3 DEF KindFits
  <1>8. config' \in Config /\ state' \in States
    <2>1. /\ [slots[s].snap EXCEPT !.key = 0, !.chat = Nothing] \in Config
          /\ [config EXCEPT !.key = 0, !.chat = Nothing] \in Config
      BY <1>3 DEF Config
    <2>2. CASE slots[s].kind = "begin"
      BY <2>2, <1>2, <1>3 DEF Then
    <2>3. CASE slots[s].kind = "restart"
      BY <2>1, <2>3, <1>2, <1>3 DEF Then
    <2>4. CASE slots[s].kind = "reauthorize"
      BY <2>1, <2>4, <1>2, <1>3 DEF Then, States
    <2> QED BY <2>2, <2>3, <2>4, <1>7
  <1>9. PICK new : /\ slots' = [slots EXCEPT ![s] = new]
                   /\ \/ new = [Idle EXCEPT !.kind = slots[s].kind, !.stage = "start", !.path = "auth/start"]
                         /\ slots[s].kind = "begin"
                      \/ new = [Idle EXCEPT !.kind = "begin", !.stage = "stop"]
                      \/ new = Idle
    BY <1>2, <1>7 DEF Then, End
  <1>10. Idle \in SlotRecord
    BY PlainValues DEF BridgeIInv
  <1>11. new \in SlotRecord /\ KindFits(new)
    <2>1. CASE new = [Idle EXCEPT !.kind = slots[s].kind, !.stage = "start", !.path = "auth/start"]
               /\ slots[s].kind = "begin"
      <3>1. new \in SlotRecord /\ new.stage = "start" /\ new.kind = "begin"
        BY <2>1, <1>10 DEF SlotRecord, BridgeKinds, Stages, Paths
      <3> QED BY <3>1 DEF KindFits
    <2>2. CASE new = [Idle EXCEPT !.kind = "begin", !.stage = "stop"]
      <3>1. new \in SlotRecord /\ new.stage = "stop" /\ new.kind = "begin"
        BY <2>2, <1>10 DEF SlotRecord, BridgeKinds, Stages
      <3> QED BY <3>1 DEF KindFits
    <2>3. CASE new = Idle
      BY <2>3, SlotValues
    <2> QED BY <1>9, <2>1, <2>2, <2>3
  <1>12. slots' \in [Slots -> SlotRecord] /\ \A q \in Slots : KindFits(slots'[q])
    BY <1>9, <1>11, OneSlot
  <1>13. /\ child' \in [bridge : Bridges \cup {NoBridge}, port : BOOLEAN]
         /\ boot' \in [stage : {"idle", "launch", "ready", "health"}, snap : Config,
                       bridge : Bridges \cup {NoBridge}]
    BY <1>2, <1>3
  <1> QED BY <1>2, <1>4, <1>5, <1>6, <1>8, <1>12, <1>13, ProcessStep

-----------------------------------------------------------------------------
(* The provider.                                                            *)

LEMMA BridgeInitially == BridgeInit => BridgeIInv
  <1> SUFFICES ASSUME BridgeInit PROVE BridgeIInv
    OBVIOUS
  <1>1. asked \in Scenes /\ asked.keys \in Nat \ {0} /\ Keys = 1 .. asked.keys
    BY SceneAssumption DEF BridgeInit, Keys
  <1>2. config \in Config
    <2>1. NoConfig \in Config /\ Unauthorized \in Config
      BY DEF NoConfig, Unauthorized, Config
    <2>2. RememberedConfig \subseteq Config
      <3>1. 1 \in Keys
        BY <1>1
      <3> QED BY <3>1 DEF RememberedConfig, Config
    <2> QED BY <2>1, <2>2 DEF BridgeInit, Configured
  <1>3. /\ granted \in 0 .. asked.keys /\ revoked \subseteq 1 .. granted /\ named \in Chats
        /\ state \in States
    BY <1>1, <1>2 DEF BridgeInit, Config, States
  <1>4. /\ child \in [bridge : Bridges \cup {NoBridge}, port : BOOLEAN]
        /\ boot \in [stage : {"idle", "launch", "ready", "health"}, snap : Config,
                     bridge : Bridges \cup {NoBridge}]
    BY DEF BridgeInit, NoChild, NoBoot, NoConfig, Config
  <1>5. NoConfig \in Config
    BY DEF NoConfig, Config
  <1>6. bridges \in [Bridges -> BridgeRecord] /\ slots \in [Slots -> SlotRecord]
    <2>1. NoProcess \in BridgeRecord
      BY DEF NoProcess, BridgeRecord, Lives
    <2>2. Idle \in SlotRecord
      BY <1>5 DEF Idle, SlotRecord, Stages, Paths, Answers
    <2> QED BY <2>1, <2>2 DEF BridgeInit
  <1>7. BridgeTypeOK
    BY <1>1, <1>2, <1>3, <1>4, <1>6 DEF BridgeTypeOK
  <1>8. ChildOK /\ NoBridgeIsLost
    BY DEF BridgeInit, ChildOK, NoBridgeIsLost, NoChild, NoBoot, NoProcess
  <1>9. KindsOK
    BY DEF BridgeInit, KindsOK, KindFits, Idle
  <1> QED BY <1>7, <1>8, <1>9 DEF BridgeIInv

LEMMA BridgeStutter == ASSUME BridgeIInv, asked' = asked, UNCHANGED bridgeVars PROVE BridgeIInv'
  <1>1. UNCHANGED <<granted, revoked, named, config, state, child, boot, bridges, slots>>
    BY DEF bridgeVars, telegram, provider
  <1>2. BridgeTypeOK'
    BY <1>1, SameTypes DEF BridgeIInv, BridgeTypeOK
  <1>3. ChildOK' /\ KindsOK' /\ NoBridgeIsLost'
    BY <1>1 DEF BridgeIInv, ChildOK, KindsOK, KindFits, NoBridgeIsLost
  <1> QED BY <1>2, <1>3 DEF BridgeIInv

LEMMA BridgeStepHolds ==
    ASSUME BridgeIInv, [BridgeNext /\ UNCHANGED asked]_<<asked, bridgeVars>>
    PROVE  BridgeIInv'
  <1>1. asked' = asked
    OBVIOUS
  <1>2. CASE Process
    BY <1>1, <1>2, NotConfiguredStep, StartFailedStep, StartedStep, SpawnStep, ReadyStep, ExitStep
    DEF Process
  <1>3. ASSUME NEW s \in Slots,
               \/ Asked(s) \/ Start(s) \/ Stop(s) \/ Stopped(s)
               \/ Send(s) \/ Break(s) \/ Serve(s) \/ Hear(s)
        PROVE  BridgeIInv'
    BY <1>1, <1>3, AskedStep, StartStep, StopStep, StoppedStep, SendStep, ServeStep, HearStep
  <1>4. ASSUME NEW b \in Bridges, Watch(b) PROVE BridgeIInv'
    BY <1>1, <1>4, WatchStep
  <1>5. CASE (\E k \in Keys : Revoke(k)) \/ (\E c \in Chats : Rename(c))
    BY <1>1, <1>5, TelegramStep
  <1>6. CASE UNCHANGED bridgeVars
    BY <1>1, <1>6, BridgeStutter
  <1> QED BY <1>2, <1>3, <1>4, <1>5, <1>6 DEF BridgeNext

\* However the functions of the provider overlap and whatever bridges do: a start under way
\* is shared and spawns only where there is no child, and the child without a port is the one
\* the start waits for (start, startInternal, stop).
THEOREM BridgeInductive == BridgeSpec => []BridgeIInv
  <1>1. BridgeIInv /\ [BridgeNext /\ UNCHANGED asked]_<<asked, bridgeVars>> => BridgeIInv'
    BY BridgeStepHolds
  <1> QED BY BridgeInitially, <1>1, PTL DEF BridgeSpec

\* Every variable of the provider and its bridges holds a value of its type.
THEOREM BridgeTypeCorrect == BridgeSpec => []BridgeTypeOK
  <1>1. BridgeIInv => BridgeTypeOK
    BY DEF BridgeIInv
  <1> QED BY <1>1, BridgeInductive, PTL

\* Every bridge that has not been told to end is the child of the provider: no second one uses
\* the authorization at once, and none is left behind (startInternal, stop).
THEOREM BridgesAreKnown == BridgeSpec => []NoBridgeIsLost
  <1>1. BridgeIInv => NoBridgeIsLost
    BY DEF BridgeIInv
  <1> QED BY <1>1, BridgeInductive, PTL

-----------------------------------------------------------------------------
(* A transfer.                                                              *)

\* The slot of a transfer that the bridge carries out: who else takes a step leaves it.
LEMMA CarriedByCarry ==
    ASSUME BridgeIInv, BridgeNext, NEW s \in Slots, Carried(s)
    PROVE  Carry(s)
  <1>1. /\ slots[s].stage = "sent" /\ slots[s].path = "transfer" /\ slots'[s].stage = "answer"
        /\ slots \in [Slots -> SlotRecord]
    BY DEF Carried, Served, BridgeIInv, BridgeTypeOK
  <1>2. ASSUME NEW stage, stage # "answer", slots' = Settled(slots, stage) PROVE FALSE
    BY <1>1, <1>2 DEF Settled
  <1>3. slots' # slots
    BY <1>1
  <1>4. ~Process
    <2>1. ~NotConfigured /\ ~StartFailed /\ ~Started
      BY <1>2 DEF NotConfigured, StartFailed, Started
    <2>2. ASSUME NEW b \in Bridges PROVE ~Spawn(b) /\ ~Ready(b) /\ ~Exit(b)
      BY <1>3 DEF Spawn, Ready, Exit
    <2> QED BY <2>1, <2>2 DEF Process
  <1>5. /\ \A b \in Bridges : ~Watch(b)
        /\ \A k \in Keys : ~Revoke(k)
        /\ \A c \in Chats : ~Rename(c)
    BY <1>3 DEF Watch, WatchAsk, WatchHear, WatchTimeout, Revoke, Rename
  <1>6. PICK q \in Slots : \/ Asked(q) \/ Start(q) \/ Stop(q) \/ Stopped(q)
                           \/ Send(q) \/ Break(q) \/ Serve(q) \/ Hear(q)
    BY <1>4, <1>5 DEF BridgeNext
  <1>7. \E new : slots' = [slots EXCEPT ![q] = new]
    <2>1. CASE Asked(q)
      BY <2>1 DEF Asked, Status, Reauthorize, RestartAuthorization, BeginAuthorization,
         SubmitCode, SubmitPassword, Upload, Download, BeginCall, Transfer
    <2>2. CASE Start(q)
      BY <2>2 DEF Start, Go
    <2>6. CASE Stop(q)
      BY <2>6 DEF Stop
    <2>7. CASE Stopped(q)
      <3>1. slots[q].kind \in {"begin", "restart", "reauthorize"}
        BY <2>7 DEF Stopped, BridgeIInv, KindsOK, KindFits
      <3> QED BY <2>7, <3>1 DEF Stopped, Then, End
    <2>3. CASE Send(q) \/ Break(q)
      BY <2>3 DEF Send, Break
    <2>4. CASE Serve(q)
      BY <2>4 DEF Serve, Health, AuthStart, AuthCode, AuthPassword, SignIn,
         ExportSession, ResolveGroup, Carry, Answer
    <2>5. CASE Hear(q)
      BY <2>5 DEF Hear, HearHealth, HearStart, HearCode, HearSession, HearGroup,
         HearTransfer, CallFailed, End, ThenStatus, ThenCall
    <2> QED BY <1>6, <2>1, <2>2, <2>3, <2>4, <2>5, <2>6, <2>7
  <1>8. q = s
    BY <1>1, <1>7
  <1>9. ~Asked(s)
    <2>1. Asked(s) => slots[s] = Idle
      BY DEF Asked, Status, Reauthorize, RestartAuthorization, BeginAuthorization,
         SubmitCode, SubmitPassword, Upload, Download, BeginCall, Transfer
    <2>2. Idle.stage = "idle"
      BY DEF Idle
    <2> QED BY <1>1, <2>1, <2>2
  <1>10. ~Start(s) /\ ~Stop(s) /\ ~Stopped(s) /\ ~Send(s)
    BY <1>1 DEF Start, Stop, Stopped, Send
  <1>11. ~Break(s)
    BY <1>1 DEF Break, SlotRecord
  <1>12. ~Hear(s)
    BY <1>1 DEF Hear, HearHealth, HearStart, HearCode, HearSession, HearGroup,
       HearTransfer, CallFailed, Heard
  <1>13. Serve(s) => Carry(s)
    BY <1>1 DEF Serve, Health, AuthStart, AuthCode, AuthPassword, ExportSession,
       ResolveGroup, Served
  <1> QED BY <1>6, <1>8, <1>9, <1>10, <1>11, <1>12, <1>13

\* A transfer uses the group that its receipt names, also when another group has been bound
\* since it was asked for (get_bound_entity).
THEOREM TransfersAreBound == BridgeSpec => TransfersKeepTheirGroup
  <1>1. BridgeIInv /\ [BridgeNext /\ UNCHANGED asked]_<<asked, bridgeVars>>
          => [\A s \in Slots : Carried(s) => Serving(s).chat = slots[s].chat]_bridgeVars
    <2> SUFFICES ASSUME BridgeIInv, BridgeNext, NEW s \in Slots, Carried(s)
                 PROVE  Serving(s).chat = slots[s].chat
      OBVIOUS
    <2>1. Carry(s)
      BY CarriedByCarry
    <2> QED BY <2>1 DEF Carry
  <1> QED BY <1>1, BridgeInductive, PTL DEF BridgeSpec, TransfersKeepTheirGroup
=============================================================================
