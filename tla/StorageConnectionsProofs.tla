---------------------- MODULE StorageConnectionsProofs ----------------------
(***************************************************************************)
(* What the handlers of the storage connections keep true, for any number  *)
(* of administrators, connections, bots, chats and requests under way.     *)
(*                                                                         *)
(* The invariant has a part for each thing that is stored and one for what *)
(* the requests remember.  A request stays right because what it relies on *)
(* only grows (Grows): a connection that exists does not go, a chat is     *)
(* never taken from it, codes, messages and files stay with their bots.    *)
(***************************************************************************)
EXTENDS StorageConnections, FiniteSetTheorems, WellFoundedInduction, TLAPS

ConnsPart ==
    /\ conns \in [Conns -> {NoConn} \cup ConnRow] /\ had \in [Conns -> SUBSET Bots]
    /\ ConnsOK /\ ActiveIsPaired
PairsPart ==
    /\ issued \in Seq(Keys)
    /\ pairs \in [Keys -> [code : Codes \cup {0}, fresh : BOOLEAN]]
    /\ PairsOK
SentPart == sent \in [Bots -> Seq([code : Codes, chat : Chats])]
SettingPart ==
    /\ scene \in Scenes /\ left \in Nat
    /\ status \in [Workspaces -> {"ACTIVE", "ARCHIVED"}]
    /\ default \in [Workspaces -> Conns]
HeldPart == held \in [Bots -> Seq(Hashes \cup {Null})]
FilesPart ==
    /\ files \in [Files -> FileRow] /\ written \in [Files -> Seq(Hashes)]
    /\ FilesOK
RowsPart ==
    /\ rows \subseteq VersionRow /\ RepairTellsTheTruth
    /\ \A r \in rows : r.version \in 1..Len(written[r.file])
CallsPart ==
    /\ calls \in [Slots -> Call]
    /\ \A c \in Slots : CallOK(calls[c])

LEMMA Parts ==
    IInv <=> /\ SettingPart /\ ConnsPart /\ PairsPart /\ SentPart /\ HeldPart
             /\ FilesPart /\ RowsPart /\ CallsPart
  BY DEF IInv, TypeOK, SettingPart, ConnsPart, PairsPart, SentPart, HeldPart, FilesPart, RowsPart,
         CallsPart

-----------------------------------------------------------------------------
(* What the operators of the model return                                  *)

\* A set of positions that is not empty has a greatest one.
LEMMA GreatestPosition ==
    ASSUME NEW n \in Nat, NEW S, S \subseteq 1..n, S # {}
    PROVE  Max(S) \in S
  <1> DEFINE T == {n - x : x \in S}
  <1>1. T \subseteq Nat /\ T # {}
    <2>1. \A x \in S : x \in Int /\ 1 <= x /\ x <= n
      OBVIOUS
    <2>2. \A x \in S : n - x \in Nat
      BY <2>1
    <2> QED BY <2>2
  <1>2. IsWellFoundedOn(OpToRel(<, Nat), Nat)
    BY NatLessThanWellFounded
  <1>3. PICK t \in T : \A y \in T : ~(<<y, t>> \in OpToRel(<, Nat))
    BY <1>1, <1>2, WFMin
  <1>4. PICK x \in S : t = n - x
    OBVIOUS
  <1>5. \A y \in S : x >= y
    <2> SUFFICES ASSUME NEW y \in S PROVE x >= y
      OBVIOUS
    <2>1. n - y \in T /\ ~(<<n - y, t>> \in OpToRel(<, Nat))
      BY <1>3
    <2>2. ~(n - y < n - x)
      BY <2>1, <1>1, <1>4 DEF OpToRel
    <2> QED BY <2>2
  <1> QED BY <1>5 DEF Max

LEMMA ListType ==
    ASSUME SettingPart, ConnsPart, NEW list \in Listed
    PROVE  list \in Seq(Conns) /\ \A i \in DOMAIN list : Exists(list[i])
  <1> DEFINE S == {k \in Conns : Enabled(k)}
  <1>1. IsFiniteSet(S)
    BY StorageAssumption, FS_Subset
  <1>2. Cardinality(S) \in Nat
    BY <1>1, FS_CardinalityType
  <1>3. list \in [1..Cardinality(S) -> S]
    BY DEF Listed, SetToSeqs
  <1>4. list \in Seq(S)
    <2> DEFINE size == Cardinality(S)
    <2>1. size \in Nat /\ list \in [1..size -> S]
      BY <1>2, <1>3
    <2> HIDE DEF S, size
    <2> QED BY <2>1
  <1>5. S \subseteq Conns /\ \A k \in S : Exists(k)
    BY DEF Enabled, Exists, NoConn
  <1> QED BY <1>3, <1>4, <1>5

LEMMA CandidatesType ==
    ASSUME SettingPart, FilesPart, NEW f \in Files, NEW list \in Seq(Conns)
    PROVE  Candidates(f, list) \in Seq(Conns)
  <1>1. \A k \in Conns \cup {Null} : IfAny(k) \in Seq(Conns)
    BY DEF IfAny
  <1>2. files[f].home \in Conns \cup {Null} /\ default[WorkspaceOf[f]] \in Conns
    BY StorageAssumption DEF SettingPart, FilesPart, FileRow
  <1>3. IfAny(files[f].home) \in Seq(Conns) /\ IfAny(default[WorkspaceOf[f]]) \in Seq(Conns)
    BY <1>1, <1>2
  <1>4. <<Legacy>> \in Seq(Conns)
    BY StorageAssumption
  <1> QED BY <1>3, <1>4 DEF Candidates

-----------------------------------------------------------------------------
(* What only grows, and what a request may therefore rely on.              *)

Grows ==
    /\ scene' = scene
    /\ \A k \in Conns : Exists(k) => Exists(k)' /\ (PairedWith(k) => PairedWith(k)')
    /\ \A k \in Conns : had[k] \subseteq had'[k]
    /\ issued \in Seq(Keys) /\ issued' \in Seq(Keys) /\ Codes \subseteq Codes'
    /\ \A n \in Codes : issued'[n] = issued[n]
    /\ \A b \in Bots : /\ DOMAIN sent[b] \subseteq DOMAIN sent'[b]
                       /\ \A i \in DOMAIN sent[b] : sent'[b][i] = sent[b][i]
    /\ \A b \in Bots : /\ DOMAIN held[b] \subseteq DOMAIN held'[b]
                       /\ \A i \in DOMAIN held[b] : held'[b][i] = held[b][i]
    /\ \A f \in Files : /\ 1..Len(written[f]) \subseteq 1..Len(written'[f])
                        /\ \A v \in 1..Len(written[f]) : written'[f][v] = written[f][v]

LEMMA TargetType ==
    ASSUME NEW key \in Keys
    PROVE  Target(key) \in Conns
  BY StorageAssumption DEF Keys, Target

LEMMA HasStays ==
    ASSUME Grows, NEW k \in Conns, NEW id, NEW h \in Hashes, ConnsPart,
           \E b \in had[k] : Has(b, id) = h
    PROVE  (\E b \in had[k] : Has(b, id) = h)'
  <1>1. PICK b \in had[k] : Has(b, id) = h
    OBVIOUS
  <1>2. b \in Bots /\ b \in had'[k]
    BY DEF ConnsPart, Grows
  <1>3. id \in DOMAIN held[b] /\ held[b][id] = h
    BY <1>1, StorageAssumption DEF Has
  <1>4. Has(b, id)' = h
    BY <1>2, <1>3 DEF Has, Grows
  <1> QED BY <1>2, <1>4

LEMMA CameStays ==
    ASSUME Grows, NEW chat, NEW code, NEW key, CameWith(chat, code, key)
    PROVE  CameWith(chat, code, key)'
  <1>1. code \in Codes' /\ issued'[code] = key
    BY DEF Grows, CameWith
  <1>2. PICK b \in Bots : \E i \in DOMAIN sent[b] : sent[b][i] = [code |-> code, chat |-> chat]
    BY DEF CameWith
  <1>. PICK i \in DOMAIN sent[b] : sent[b][i] = [code |-> code, chat |-> chat]
    BY <1>2
  <1>3. i \in DOMAIN sent'[b] /\ sent'[b][i] = [code |-> code, chat |-> chat]
    BY <1>2 DEF Grows
  <1> QED BY <1>1, <1>3 DEF CameWith

LEMMA HealthStays ==
    ASSUME Grows, NEW call \in Call, HealthOK(call)
    PROVE  HealthOK(call)'
  <1> SUFFICES ASSUME call.op = "health"
               PROVE  HealthOK(call)'
    BY DEF HealthOK
  <1>1. call.todo # <<>> /\ call.todo \in Seq(Conns) /\ Head(call.todo) = call.todo[1]
    BY DEF HealthOK, Call
  <1>2. \A i \in DOMAIN call.todo : call.todo[i] \in Conns
    BY <1>1
  <1>3. \A i \in DOMAIN call.todo : Exists(call.todo[i])'
    BY <1>2 DEF HealthOK, Grows
  <1>4. 1 \in DOMAIN call.todo
    BY <1>1
  <1>5. call.at = "reached" => PairedWith(Head(call.todo))'
    BY <1>1, <1>2, <1>4 DEF HealthOK, Grows
  <1> QED BY <1>1, <1>3, <1>5 DEF HealthOK

LEMMA PairingStays ==
    ASSUME Grows, NEW call \in Call, PairingOK(call)
    PROVE  PairingOK(call)'
  <1> SUFFICES ASSUME call.op = "pair"
               PROVE  PairingOK(call)'
    BY DEF PairingOK
  <1>1. call.key \in Keys /\ Target(call.key) \in Conns
    BY TargetType DEF PairingOK
  <1>2. Exists(Target(call.key))'
    <2> DEFINE k == Target(call.key)
    <2> HIDE DEF k
    <2>1. k \in Conns /\ Exists(k)
      BY <1>1 DEF PairingOK, k
    <2>2. Exists(k)'
      BY <2>1 DEF Grows
    <2> QED BY <2>2 DEF k, Target
  <1>3. call.at = "updates" => call.code \in Codes' /\ issued'[call.code] = call.key
    BY DEF Grows, PairingOK
  <1>4. call.at = "write" => CameWith(call.chat, call.code, call.key)'
    <2> SUFFICES ASSUME CameWith(call.chat, call.code, call.key)
                 PROVE  CameWith(call.chat, call.code, call.key)'
      BY DEF PairingOK
    <2> QED BY CameStays
  <1> QED BY <1>1, <1>2, <1>3, <1>4 DEF PairingOK

LEMMA RepairingStays ==
    ASSUME Grows, ConnsPart, FilesPart, NEW call \in Call, RepairingOK(call)
    PROVE  RepairingOK(call)'
  <1> SUFFICES ASSUME call.op = "repair"
               PROVE  RepairingOK(call)'
    BY DEF RepairingOK
  <1>1. /\ call.file \in Files /\ call.version \in 1..Len(written'[call.file])
        /\ call.hash = written'[call.file][call.version]
    BY DEF RepairingOK, Grows
  <1>2. call.hash \in Hashes
    BY DEF RepairingOK, FilesPart
  <1>3. call.at = "write" =>
            call.found \in Conns /\ (\E b \in had[call.found] : Has(b, call.id) = call.hash)'
    <2> SUFFICES ASSUME call.at = "write"
                 PROVE  /\ call.found \in Conns
                        /\ (\E b \in had[call.found] : Has(b, call.id) = call.hash)'
      OBVIOUS
    <2>1. call.found \in Conns /\ \E b \in had[call.found] : Has(b, call.id) = call.hash
      BY DEF RepairingOK
    <2> QED BY <1>2, <2>1, HasStays
  <1> QED BY <1>1, <1>3 DEF RepairingOK

\* A request that a step does not touch stays right.
LEMMA CallStays ==
    ASSUME Grows, ConnsPart, FilesPart, NEW call \in Call, CallOK(call)
    PROVE  CallOK(call)'
  <1>1. HealthOK(call)' /\ PairingOK(call)' /\ RepairingOK(call)'
    BY HealthStays, PairingStays, RepairingStays DEF CallOK
  <1>2. SettingOK(call)'
    BY DEF CallOK, SettingOK
  <1> QED BY <1>1, <1>2 DEF CallOK

LEMMA IdleIsRight == Idle \in Call /\ CallOK(Idle) /\ CallOK(Idle)'
  BY DEF Idle, Call, CallOK, HealthOK, PairingOK, RepairingOK, SettingOK

\* A request that a step does not touch stays right, and so does what it turns one into.
LEMMA CallsStay ==
    ASSUME Grows, ConnsPart, FilesPart, CallsPart, UNCHANGED calls
    PROVE  CallsPart'
  <1>1. \A c \in Slots : CallOK(calls[c])'
    <2> SUFFICES ASSUME NEW c \in Slots
                 PROVE  CallOK(calls[c])'
      OBVIOUS
    <2>1. \A call \in {calls[c]} : CallOK(call)'
      BY CallStays DEF CallsPart
    <2> QED BY <2>1 DEF CallsPart
  <1> QED BY <1>1 DEF CallsPart

LEMMA ToStays ==
    ASSUME Grows, ConnsPart, FilesPart, CallsPart,
           NEW c \in Slots, NEW next \in Call, To(c, next), \A call \in {next} : CallOK(call)'
    PROVE  CallsPart'
  <1>1. calls' \in [Slots -> Call]
    BY DEF To, CallsPart
  <1>2. \A d \in Slots : CallOK(calls[d])'
    <2> SUFFICES ASSUME NEW d \in Slots
                 PROVE  CallOK(calls[d])'
      OBVIOUS
    <2>1. calls'[d] = next \/ calls'[d] = calls[d]
      BY DEF To, CallsPart
    <2>2. \A call \in {calls[d]} : CallOK(call)'
      BY CallStays DEF CallsPart
    <2> QED BY <2>1, <2>2
  <1> QED BY <1>1, <1>2 DEF CallsPart, Call

LEMMA RowStays ==
    ASSUME Grows, ConnsPart, FilesPart, NEW r \in VersionRow,
           r.version \in 1..Len(written[r.file]),
           r.hash = written[r.file][r.version], \E b \in had[r.conn] : Has(b, r.id) = r.hash
    PROVE  /\ r.version \in 1..Len(written'[r.file])
           /\ r.hash = written'[r.file][r.version]
           /\ (\E b \in had[r.conn] : Has(b, r.id) = r.hash)'
  <1>1. r.file \in Files /\ r.conn \in Conns /\ r.hash \in Hashes
    BY DEF VersionRow
  <1>2. (\E b \in had[r.conn] : Has(b, r.id) = r.hash)'
    BY <1>1, HasStays
  <1> QED BY <1>1, <1>2 DEF Grows

LEMMA RowsStay ==
    ASSUME Grows, ConnsPart, FilesPart, RowsPart, UNCHANGED rows
    PROVE  RowsPart'
  <1>1. \A r \in rows : r.version \in 1..Len(written'[r.file])
    BY DEF RowsPart, VersionRow, Grows
  <1>2. RepairTellsTheTruth'
    <2> SUFFICES ASSUME NEW r \in rows, r.repaired
                 PROVE  /\ r.hash = written'[r.file][r.version]
                        /\ (\E b \in had[r.conn] : Has(b, r.id) = r.hash)'
      BY DEF RepairTellsTheTruth
    <2> QED BY RowStays DEF RowsPart, RepairTellsTheTruth
  <1> QED BY <1>1, <1>2 DEF RowsPart, VersionRow

-----------------------------------------------------------------------------
(* How a step changes what is stored                                       *)

LEMMA SameGrows ==
    ASSUME PairsPart, UNCHANGED <<scene, conns, had, issued, sent, held, written>>
    PROVE  Grows
  BY DEF PairsPart, Grows, Exists, PairedWith, Codes

\* A connection gets another row.
LEMMA ConnGrows ==
    ASSUME PairsPart, ConnsPart, NEW k \in Conns, NEW next \in ConnRow,
           UNCHANGED <<scene, issued, sent, held, written>>,
           conns' = [conns EXCEPT ![k] = next],
           \/ had' = [had EXCEPT ![k] = @ \cup {next.bot}]
           \/ UNCHANGED had /\ next.bot \in had[k],
           PairedWith(k) /\ Exists(k) => next.chat # Null,
           next.status = "ACTIVE" => next.chat # Null
    PROVE  Grows /\ ConnsPart'
  <1>1. \A j \in Conns : conns'[j] = IF j = k THEN next ELSE conns[j]
    BY DEF ConnsPart
  <1>2. next # NoConn
    BY DEF ConnRow, NoConn
  <1>3. had' \in [Conns -> SUBSET Bots] /\ next.bot \in had'[k] /\ \A j \in Conns : had[j] \subseteq had'[j]
    BY DEF ConnsPart, ConnRow
  <1>4. \A j \in Conns : Exists(j) => Exists(j)' /\ (PairedWith(j) => PairedWith(j)')
    BY <1>1, <1>2 DEF Exists, PairedWith
  <1>5. Grows
    BY <1>3, <1>4 DEF PairsPart, Grows, Codes
  <1>6. ConnsOK'
    <2>1. Exists(Legacy)'
      BY <1>4, StorageAssumption DEF ConnsPart, ConnsOK
    <2>2. ASSUME NEW j \in Conns, Exists(j)' PROVE conns'[j].bot \in had'[j]
      BY <1>1, <1>3, <2>2 DEF ConnsPart, ConnsOK, Exists
    <2> QED BY <2>1, <2>2 DEF ConnsOK
  <1>7. ActiveIsPaired'
    BY <1>1 DEF ConnsPart, ActiveIsPaired
  <1>8. conns' \in [Conns -> {NoConn} \cup ConnRow]
    BY DEF ConnsPart
  <1> QED BY <1>3, <1>5, <1>6, <1>7, <1>8 DEF ConnsPart, ConnRow, NoConn

LEMMA SentStays ==
    ASSUME Grows, SentPart, UNCHANGED sent
    PROVE  SentPart'
  <1> DEFINE S == [code : Codes, chat : Chats]
             T == [code : Codes', chat : Chats]
  <1>1. S \subseteq T
    BY DEF Grows
  <1>2. \A b \in Bots : sent[b] \in Seq(S)
    BY DEF SentPart
  <1> HIDE DEF S, T
  <1>3. \A b \in Bots : sent[b] \in Seq(T)
    BY <1>1, <1>2
  <1>4. sent \in [Bots -> Seq(T)]
    BY <1>3 DEF SentPart
  <1> QED BY <1>4 DEF SentPart, T

\* What a step has to show: that what it relies on only grew, and the parts it writes.
LEMMA Frame ==
    ASSUME IInv, Grows,
           left' \in Nat,
           UNCHANGED <<status, default>> \/ SettingPart',
           UNCHANGED <<conns, had>> \/ ConnsPart',
           UNCHANGED <<pairs, issued>> \/ PairsPart',
           UNCHANGED sent \/ SentPart',
           UNCHANGED held \/ HeldPart',
           UNCHANGED <<files, written>> \/ FilesPart',
           UNCHANGED rows \/ RowsPart',
           UNCHANGED calls \/ CallsPart'
    PROVE  IInv'
  <1>1. SettingPart' /\ ConnsPart' /\ PairsPart' /\ HeldPart' /\ FilesPart'
    BY Parts, SMTT(60) DEF SettingPart, ConnsPart, PairsPart, HeldPart, FilesPart, Grows, ConnsOK,
                 ActiveIsPaired, Exists, PairsOK, FilesOK, Codes, ConnRow, NoConn, FileRow
  <1>2. SentPart' /\ RowsPart' /\ CallsPart'
    BY Parts, SentStays, RowsStay, CallsStay
  <1> QED
    BY <1>1, <1>2 DEF IInv, TypeOK, SettingPart, ConnsPart, PairsPart, SentPart, HeldPart,
                      FilesPart, RowsPart, CallsPart

LEMMA LeftType ==
    ASSUME IInv, NEW c, NEW op, UNCHANGED left \/ Begin(c, op)
    PROVE  left' \in Nat
  BY DEF IInv, TypeOK, Begin

\* Most steps of a request only change what it remembers.
LEMMA Remembers ==
    ASSUME IInv, UNCHANGED <<scene, database, telegram, versions, had>>, left' \in Nat,
           NEW c \in Slots, NEW next \in Call, To(c, next), \A call \in {next} : CallOK(call)
    PROVE  IInv'
  <1>1. Grows
    BY Parts, SameGrows DEF database, telegram, versions
  <1>2. \A call \in {next} : CallOK(call)'
    BY <1>1, Parts, CallStays
  <1>3. CallsPart'
    BY <1>1, <1>2, Parts, ToStays
  <1> QED BY <1>1, <1>3, Frame DEF database, telegram, versions

\* Or change something else, and forget it.
LEMMA Forgets ==
    ASSUME Grows, ConnsPart, FilesPart, CallsPart, NEW c \in Slots, Finish(c)
    PROVE  CallsPart'
  <1>1. \A call \in {Idle} : CallOK(call)'
    BY IdleIsRight
  <1> QED BY <1>1, IdleIsRight, ToStays DEF Finish

-----------------------------------------------------------------------------
(* The invariant holds at the start                                        *)

LEMMA InitIsRight == Init => IInv
  <1> SUFFICES ASSUME Init PROVE IInv
    OBVIOUS
  <1>1. SettingPart
    BY StorageAssumption DEF Init, SettingPart
  <1>2. ConnsPart
    <2>1. \A k \in Conns : conns[k] # NoConn =>
             /\ conns[k] \in ConnRow /\ (conns[k].status = "ACTIVE" => conns[k].chat # Null)
             /\ conns[k].bot # Null
      BY StorageAssumption DEF Init, ConnRow
    <2>2. conns \in [Conns -> {NoConn} \cup ConnRow]
      <3>1. \A k \in Conns : conns[k] \in {NoConn} \cup ConnRow
        BY <2>1
      <3>2. conns = [k \in Conns |-> conns[k]]
        BY DEF Init
      <3> QED BY <3>1, <3>2
    <2>3. had \in [Conns -> SUBSET Bots]
      <3>1. \A k \in Conns : {conns[k].bot} \ {Null} \subseteq Bots
        BY <2>1 DEF NoConn, ConnRow
      <3> QED BY <3>1 DEF Init
    <2>4. ConnsOK /\ ActiveIsPaired
      BY <2>1, StorageAssumption DEF Init, ConnsOK, ActiveIsPaired, Exists, NoConn
    <2> QED BY <2>2, <2>3, <2>4 DEF ConnsPart
  <1>3. PairsPart
    BY DEF Init, PairsPart, PairsOK, NoPair
  <1>4. SentPart
    BY DEF Init, SentPart
  <1>5. HeldPart /\ FilesPart
    <2> PICK h \in Hashes, other \in [Bots \ {EnvBot} -> Hashes \cup {Null}] :
          /\ held = [b \in Bots |-> <<IF b = EnvBot THEN h ELSE other[b]>>]
          /\ files = [f \in Files |-> FileOf(1, 1, h, Null)]
          /\ written = [f \in Files |-> <<h>>]
      BY DEF Init
    <2>1. HeldPart
      <3>1. \A b \in Bots : (IF b = EnvBot THEN h ELSE other[b]) \in Hashes \cup {Null}
        OBVIOUS
      <3>2. \A x \in Hashes \cup {Null} : <<x>> \in Seq(Hashes \cup {Null})
        OBVIOUS
      <3> QED BY <3>1, <3>2 DEF HeldPart
    <2>2. FilesPart
      BY DEF FilesPart, FilesOK, FileRow, FileOf
    <2> QED BY <2>1, <2>2
  <1>6. RowsPart
    BY DEF Init, RowsPart, RepairTellsTheTruth
  <1>7. CallsPart
    BY IdleIsRight DEF Init, CallsPart
  <1> QED BY <1>1, <1>2, <1>3, <1>4, <1>5, <1>6, <1>7, Parts

-----------------------------------------------------------------------------
(* The steps of the administrators                                         *)

LEMMA CreateStep ==
    ASSUME IInv, scene' = scene, NEW c \in Slots, NEW k \in Conns, NEW b \in Bots, Create(c, k, b)
    PROVE  IInv'
  <1> DEFINE next == [status |-> "DEGRADED", bot |-> b, chat |-> Null]
  <1>1. next \in ConnRow /\ conns' = [conns EXCEPT ![k] = next]
    BY DEF Create, ConnRow
  <1>2. ~Exists(k)
    BY DEF Create, Exists
  <1>3. Grows /\ ConnsPart'
    BY <1>1, <1>2, Parts, ConnGrows DEF Create, telegram, versions
  <1>4. left' \in Nat
    BY LeftType DEF Create
  <1> QED BY <1>3, <1>4, Frame DEF Create, telegram, versions

LEMMA RotateStep ==
    ASSUME IInv, scene' = scene, NEW c \in Slots, NEW k \in Conns, NEW b \in Bots,
           RotateToken(c, k, b)
    PROVE  IInv'
  <1> DEFINE next == Rotated(k, b)
  <1>1. conns[k] \in ConnRow
    BY Parts DEF RotateToken, ConnsPart
  <1>2. /\ next \in ConnRow /\ next.bot = b /\ next.chat = conns[k].chat
        /\ next.status = "ACTIVE" => next.chat # Null
    BY <1>1 DEF Rotated, ConnRow
  <1>3. PairedWith(k) => next.chat # Null
    BY <1>2 DEF PairedWith
  <1>4. conns' = [conns EXCEPT ![k] = next] /\ had' = [had EXCEPT ![k] = @ \cup {next.bot}]
    BY <1>2 DEF RotateToken
  <1> HIDE DEF next
  <1>5. Grows /\ ConnsPart'
    BY <1>2, <1>3, <1>4, Parts, ConnGrows DEF RotateToken, telegram, versions
  <1>6. left' \in Nat
    BY LeftType DEF RotateToken
  <1> QED BY <1>5, <1>6, Frame DEF RotateToken, telegram, versions

LEMMA DisableStep ==
    ASSUME IInv, scene' = scene, NEW c \in Slots, NEW k \in Conns, Disable(c, k)
    PROVE  IInv'
  <1> DEFINE next == [Idle EXCEPT !.op = "disable", !.at = "write", !.key.conn = k]
  <1>1. next \in Call /\ next.op = "disable" /\ next.key.conn = k
    BY IdleIsRight DEF Call, Ops
  <1>3. \A call \in {next} : CallOK(call)
    BY <1>1 DEF CallOK, HealthOK, PairingOK, RepairingOK, SettingOK
  <1>2. left' \in Nat
    BY LeftType DEF Disable
  <1> QED BY <1>1, <1>2, <1>3, Remembers DEF Disable

LEMMA SetStorageStep ==
    ASSUME IInv, scene' = scene, NEW c \in Slots, NEW w \in Workspaces, NEW k \in Conns,
           SetStorage(c, w, k)
    PROVE  IInv'
  <1> DEFINE next == [Idle EXCEPT !.op = "workspace", !.at = "write", !.ws = w, !.key.conn = k]
  <1>1. next \in Call /\ next.op = "workspace" /\ next.key.conn = k /\ next.ws = w
    BY IdleIsRight DEF Call, Ops
  <1>3. \A call \in {next} : CallOK(call)
    BY <1>1 DEF CallOK, HealthOK, PairingOK, RepairingOK, SettingOK
  <1>2. left' \in Nat
    BY LeftType DEF SetStorage
  <1> QED BY <1>1, <1>2, <1>3, Remembers DEF SetStorage

LEMMA CallType ==
    ASSUME IInv, NEW c \in Slots
    PROVE  /\ calls[c] \in Call /\ HealthOK(calls[c]) /\ PairingOK(calls[c])
           /\ RepairingOK(calls[c]) /\ SettingOK(calls[c])
  BY DEF IInv, TypeOK, CallOK

LEMMA DisableWriteStep ==
    ASSUME IInv, scene' = scene, NEW c \in Slots, DisableWrite(c)
    PROVE  IInv'
  <1> DEFINE k == calls[c].key.conn
  <1>1. k \in Conns
    BY CallType DEF DisableWrite, Is, SettingOK
  <1>2. left' \in Nat
    BY LeftType DEF DisableWrite
  <1>3. Grows /\ (UNCHANGED <<conns, had>> \/ ConnsPart')
    <2>1. CASE ~Exists(k)
      <3>1. conns' = conns
        BY <1>1, <2>1, Parts DEF DisableWrite, Exists, ConnsPart, NoConn
      <3> QED BY <3>1, Parts, SameGrows DEF DisableWrite, telegram, versions
    <2>2. CASE Exists(k)
      <3> DEFINE next == [conns[k] EXCEPT !.status = "DISABLED"]
      <3>1. conns[k] \in ConnRow /\ conns[k].bot \in had[k]
        BY <1>1, <2>2, Parts DEF ConnsPart, ConnsOK, Exists
      <3>2. conns' = [conns EXCEPT ![k] = next]
        BY <1>1, <3>1, Parts DEF DisableWrite, ConnsPart, ConnRow
      <3>3. next \in ConnRow /\ next.bot = conns[k].bot /\ next.chat = conns[k].chat
            /\ next.status # "ACTIVE"
        BY <3>1 DEF ConnRow
      <3>4. PairedWith(k) => next.chat # Null
        BY <3>3 DEF PairedWith
      <3> HIDE DEF next, k
      <3>5. Grows /\ ConnsPart'
        BY <1>1, <3>1, <3>2, <3>3, <3>4, Parts, ConnGrows DEF DisableWrite, telegram, versions
      <3> QED BY <3>5
    <2> QED BY <2>1, <2>2
  <1>4. CallsPart'
    BY <1>3, Parts, Forgets DEF DisableWrite
  <1> QED BY <1>2, <1>3, <1>4, Frame DEF DisableWrite, telegram, versions

LEMMA SetStorageWriteStep ==
    ASSUME IInv, scene' = scene, NEW c \in Slots, SetStorageWrite(c)
    PROVE  IInv'
  <1>1. calls[c].key.conn \in Conns
    BY CallType DEF SetStorageWrite, Is, SettingOK
  <1>2. left' \in Nat
    BY LeftType DEF SetStorageWrite
  <1>3. SettingPart'
    BY <1>1, <1>2, Parts DEF SetStorageWrite, SettingPart
  <1>4. Grows
    BY Parts, SameGrows DEF SetStorageWrite, telegram, versions
  <1>5. CallsPart'
    BY <1>4, Parts, Forgets DEF SetStorageWrite
  <1> QED BY <1>2, <1>3, <1>4, <1>5, Frame DEF SetStorageWrite, telegram, versions

LEMMA ArchiveStep ==
    ASSUME IInv, scene' = scene, NEW w \in Workspaces, Archive(w)
    PROVE  IInv'
  <1>1. left' \in Nat
    BY LeftType DEF Archive
  <1>2. SettingPart'
    BY <1>1, Parts DEF Archive, SettingPart
  <1>3. Grows
    BY Parts, SameGrows DEF Archive, telegram, versions
  <1> QED BY <1>1, <1>2, <1>3, Frame DEF Archive, telegram, versions

-----------------------------------------------------------------------------
(* The checks of the connections                                           *)

LEMMA HealthStep ==
    ASSUME IInv, scene' = scene, NEW c \in Slots, Health(c)
    PROVE  IInv'
  <1>1. PICK list \in Listed :
           To(c, IF list = <<>> THEN Idle
                 ELSE [Idle EXCEPT !.op = "health", !.at = "check", !.todo = list])
    BY DEF Health
  <1> DEFINE next == [Idle EXCEPT !.op = "health", !.at = "check", !.todo = list]
  <1>2. list \in Seq(Conns) /\ \A i \in DOMAIN list : Exists(list[i])
    BY ListType, Parts
  <1>3. next \in Call /\ next.op = "health" /\ next.at = "check" /\ next.todo = list
    BY <1>2 DEF Idle, Call, Ops
  <1>4. list # <<>> => \A call \in {next} : CallOK(call)
    BY <1>2, <1>3 DEF CallOK, HealthOK, PairingOK, RepairingOK, SettingOK
  <1>5. left' \in Nat
    BY LeftType DEF Health
  <1> HIDE DEF next
  <1>6. CASE list = <<>>
    <2>1. To(c, Idle) /\ \A call \in {Idle} : CallOK(call)
      BY <1>1, <1>6, IdleIsRight
    <2> QED BY <2>1, <1>5, IdleIsRight, Remembers DEF Health
  <1>7. CASE list # <<>>
    <2>1. To(c, next)
      BY <1>1, <1>7 DEF next
    <2> QED BY <2>1, <1>3, <1>4, <1>5, <1>7, Remembers DEF Health
  <1> QED BY <1>6, <1>7

LEMMA HealthCheckStep ==
    ASSUME IInv, scene' = scene, NEW c \in Slots, HealthCheck(c)
    PROVE  IInv'
  <1> DEFINE k == Head(calls[c].todo)
             at == IF Resolves(k) THEN "reached" ELSE "failed"
             next == [calls[c] EXCEPT !.at = at]
  <1>1. calls[c] \in Call /\ HealthOK(calls[c]) /\ calls[c].op = "health"
    BY CallType DEF HealthCheck, Is
  <1>2. /\ next \in Call /\ next.op = "health" /\ next.at = at /\ next.todo = calls[c].todo
    BY <1>1 DEF Call
  <1>3. at = "reached" => PairedWith(k)
    BY DEF Resolves, PairedWith
  <1>4. \A call \in {next} : CallOK(call)
    BY <1>1, <1>2, <1>3 DEF CallOK, HealthOK, PairingOK, RepairingOK, SettingOK
  <1>5. To(c, next)
    BY DEF HealthCheck
  <1>6. left' \in Nat
    BY LeftType DEF HealthCheck
  <1> HIDE DEF next
  <1> QED BY <1>2, <1>4, <1>5, <1>6, Remembers DEF HealthCheck

LEMMA HealthWriteStep ==
    ASSUME IInv, scene' = scene, NEW c \in Slots, HealthWrite(c)
    PROVE  IInv'
  <1> DEFINE k == Head(calls[c].todo)
             rest == Tail(calls[c].todo)
             next == [calls[c] EXCEPT !.at = "check", !.todo = rest]
  <1>1. /\ calls[c] \in Call /\ HealthOK(calls[c]) /\ calls[c].op = "health"
        /\ calls[c].at \in {"reached", "failed"}
    BY CallType DEF HealthWrite
  <1>2. PICK s \in {"ACTIVE", "DEGRADED"} :
           (s = "ACTIVE" => calls[c].at = "reached") /\ conns' = [conns EXCEPT ![k].status = s]
    BY DEF HealthWrite
  <1>3. calls[c].todo \in Seq(Conns) /\ calls[c].todo # <<>>
    BY <1>1 DEF Call, HealthOK
  <1>4. k \in Conns /\ k = calls[c].todo[1] /\ 1 \in DOMAIN calls[c].todo
    BY <1>3
  <1>5. Exists(k) /\ (s = "ACTIVE" => PairedWith(k))
    BY <1>1, <1>2, <1>4 DEF HealthOK
  <1>6. Grows /\ ConnsPart'
    <2> DEFINE row == [conns[k] EXCEPT !.status = s]
    <2>1. conns[k] \in ConnRow /\ conns[k].bot \in had[k]
      BY <1>4, <1>5, Parts DEF ConnsPart, ConnsOK, Exists
    <2>2. row \in ConnRow /\ row.bot = conns[k].bot /\ row.chat = conns[k].chat /\ row.status = s
      BY <2>1 DEF ConnRow
    <2>3. conns' = [conns EXCEPT ![k] = row]
      BY <1>2, <1>4
    <2>4. (PairedWith(k) => row.chat # Null) /\ (row.status = "ACTIVE" => row.chat # Null)
      BY <1>5, <2>2 DEF PairedWith
    <2> HIDE DEF row, k
    <2> QED BY <1>4, <2>1, <2>2, <2>3, <2>4, Parts, ConnGrows DEF HealthWrite, telegram, versions
  <1>7. CallsPart'
    <2>1. CASE rest = <<>>
      <3>1. Finish(c)
        BY <2>1 DEF HealthWrite, Finish
      <3> QED BY <3>1, <1>6, Parts, Forgets
    <2>2. CASE rest # <<>>
      <3>1. /\ rest \in Seq(Conns)
            /\ \A i \in DOMAIN rest : i + 1 \in DOMAIN calls[c].todo /\ rest[i] = calls[c].todo[i + 1]
        BY <1>3
      <3>2. \A i \in DOMAIN rest : Exists(rest[i])
        BY <1>1, <3>1 DEF HealthOK
      <3>3. next \in Call /\ next.op = "health" /\ next.at = "check" /\ next.todo = rest
        BY <1>1, <3>1 DEF Call
      <3>4. \A call \in {next} : CallOK(call)
        BY <2>2, <3>2, <3>3 DEF CallOK, HealthOK, PairingOK, RepairingOK, SettingOK
      <3>5. To(c, next)
        BY <2>2 DEF HealthWrite
      <3> HIDE DEF next, rest
      <3>6. \A call \in {next} : CallOK(call)'
        BY <1>6, <3>3, <3>4, Parts, CallStays
      <3> QED BY <1>6, <3>3, <3>5, <3>6, Parts, ToStays
    <2> QED BY <2>1, <2>2
  <1>8. left' \in Nat
    BY LeftType DEF HealthWrite
  <1> QED BY <1>6, <1>7, <1>8, Frame DEF HealthWrite, telegram, versions

-----------------------------------------------------------------------------
(* The pairings                                                            *)

LEMMA PairStartStep ==
    ASSUME IInv, scene' = scene, NEW c \in Slots, NEW key \in Keys, PairStart(c, key)
    PROVE  IInv'
  <1>1. issued \in Seq(Keys) /\ issued' = Append(issued, key)
    BY Parts DEF PairStart, PairsPart
  <1>2. /\ issued' \in Seq(Keys) /\ Len(issued') = Len(issued) + 1
        /\ issued'[Len(issued')] = key
        /\ \A n \in 1..Len(issued) : issued'[n] = issued[n]
    BY <1>1
  <1>3. Grows
    <2>1. Codes \subseteq Codes' /\ \A n \in Codes : issued'[n] = issued[n]
      BY <1>1, <1>2 DEF Codes
    <2> QED
      BY <1>1, <1>2, <2>1 DEF PairStart, telegram, versions, Grows, Exists, PairedWith
  <1>4. PairsPart'
    <2>1. pairs' = [pairs EXCEPT ![key] = [code |-> Len(issued'), fresh |-> TRUE]]
      BY DEF PairStart
    <2>2. Len(issued') \in Codes' /\ Codes \subseteq Codes'
      BY <1>1, <1>2 DEF Codes
    <2>3. pairs \in [Keys -> [code : Codes \cup {0}, fresh : BOOLEAN]]
      BY Parts DEF PairsPart
    <2>4. pairs' \in [Keys -> [code : Codes' \cup {0}, fresh : BOOLEAN]]
      BY <2>1, <2>2, <2>3
    <2>5. PairsOK'
      <3> SUFFICES ASSUME NEW other \in Keys, pairs'[other].code # 0
                   PROVE  issued'[pairs'[other].code] = other
        BY DEF PairsOK
      <3>1. CASE other = key
        BY <3>1, <2>1, <2>3, <1>2
      <3>2. CASE other # key
        <4>1. pairs'[other] = pairs[other] /\ pairs[other].code \in Codes
          BY <3>2, <2>1, <2>3
        <4> QED BY <4>1, <1>2, Parts DEF PairsPart, PairsOK, Codes
      <3> QED BY <3>1, <3>2
    <2> QED BY <1>2, <2>4, <2>5 DEF PairsPart, Codes
  <1>5. left' \in Nat
    BY LeftType DEF PairStart
  <1> QED BY <1>3, <1>4, <1>5, Frame DEF PairStart, telegram, versions

LEMMA SendCodeStep ==
    ASSUME IInv, scene' = scene, NEW b \in Bots, NEW code \in Codes, NEW chat \in Chats,
           SendCode(b, code, chat)
    PROVE  IInv'
  <1> DEFINE S == [code : Codes, chat : Chats]
             message == [code |-> code, chat |-> chat]
  <1>1. sent \in [Bots -> Seq(S)] /\ message \in S
    BY Parts DEF SentPart
  <1>2. sent' = [sent EXCEPT ![b] = Append(@, message)]
    BY DEF SendCode
  <1>3. S' = S
    BY DEF SendCode, database, Codes
  <1> HIDE DEF S, message
  <1>4. /\ sent' \in [Bots -> Seq(S)]
        /\ \A a \in Bots : /\ DOMAIN sent[a] \subseteq DOMAIN sent'[a]
                           /\ \A i \in DOMAIN sent[a] : sent'[a][i] = sent[a][i]
    BY <1>1, <1>2
  <1>5. SentPart'
    BY <1>3, <1>4 DEF SentPart, S
  <1>6. Grows
    BY <1>4, Parts DEF SendCode, database, versions, Grows, PairsPart, Exists, PairedWith, Codes
  <1>7. left' \in Nat
    BY LeftType DEF SendCode
  <1> QED BY <1>5, <1>6, <1>7, Frame DEF SendCode, database, versions

LEMMA PairExpiresStep ==
    ASSUME IInv, scene' = scene, NEW key \in Keys, PairExpires(key)
    PROVE  IInv'
  <1>1. PairsPart'
    BY Parts DEF PairExpires, PairsPart, PairsOK, Codes
  <1>2. Grows
    BY Parts, SameGrows DEF PairExpires, telegram, versions
  <1>3. left' \in Nat
    BY LeftType DEF PairExpires
  <1> QED BY <1>1, <1>2, <1>3, Frame DEF PairExpires, telegram, versions

LEMMA PairConfirmStep ==
    ASSUME IInv, scene' = scene, NEW c \in Slots, NEW key \in Keys, PairConfirm(c, key)
    PROVE  IInv'
  <1> DEFINE bot == IF key.conn = Null THEN EnvBot ELSE conns[key.conn].bot
             next == [Idle EXCEPT !.op = "pair", !.at = "pair", !.key = key, !.bot = bot]
  <1>1. Target(key) \in Conns /\ Exists(Target(key))
    BY TargetType, Parts DEF PairConfirm, ConnsPart, ConnsOK, Target, Enabled, Exists, NoConn
  <1>2. bot \in Bots
    <2>1. CASE key.conn = Null
      BY <2>1, StorageAssumption
    <2>2. CASE key.conn # Null
      <3>1. conns[key.conn] \in ConnRow
        BY <1>1, <2>2, Parts DEF ConnsPart, Target, Exists
      <3> QED BY <2>2, <3>1 DEF ConnRow
    <2> QED BY <2>1, <2>2
  <1> HIDE DEF bot
  <1>3. next \in Call /\ next.op = "pair" /\ next.at = "pair" /\ next.key = key /\ next.bot = bot
    BY <1>2, IdleIsRight, ZenonT(60) DEF Call, Ops, Keys
  <1>4. \A call \in {next} : CallOK(call)
    BY <1>1, <1>2, <1>3 DEF CallOK, HealthOK, PairingOK, RepairingOK, SettingOK
  <1>5. To(c, next)
    BY DEF PairConfirm, bot
  <1>6. left' \in Nat
    BY LeftType DEF PairConfirm
  <1> HIDE DEF next
  <1> QED BY <1>3, <1>4, <1>5, <1>6, Remembers DEF PairConfirm

LEMMA PairReadStep ==
    ASSUME IInv, scene' = scene, NEW c \in Slots, PairRead(c)
    PROVE  IInv'
  <1> DEFINE pair == pairs[calls[c].key]
             next == [calls[c] EXCEPT !.at = "updates", !.code = pair.code]
  <1>1. calls[c] \in Call /\ PairingOK(calls[c]) /\ calls[c].op = "pair"
    BY CallType DEF PairRead, Is
  <1>2. calls[c].key \in Keys /\ pair \in [code : Codes \cup {0}, fresh : BOOLEAN]
    BY <1>1, Parts DEF PairingOK, PairsPart
  <1>3. left' \in Nat
    BY LeftType DEF PairRead
  <1>4. CASE pair.code = 0 \/ ~pair.fresh
    <2>1. To(c, Idle) /\ \A call \in {Idle} : CallOK(call)
      BY <1>4, IdleIsRight DEF PairRead
    <2> QED BY <2>1, <1>3, IdleIsRight, Remembers DEF PairRead
  <1>5. CASE ~(pair.code = 0 \/ ~pair.fresh)
    <2>1. pair.code \in Codes /\ issued[pair.code] = calls[c].key /\ pair.code \in Nat
      BY <1>2, <1>5, Parts DEF PairsPart, PairsOK, Codes
    <2>2. /\ next \in Call /\ next.op = "pair" /\ next.at = "updates" /\ next.key = calls[c].key
          /\ next.bot = calls[c].bot /\ next.code = pair.code
      BY <1>1, <2>1 DEF Call
    <2>3. \A call \in {next} : CallOK(call)
      BY <1>1, <2>1, <2>2 DEF CallOK, HealthOK, PairingOK, RepairingOK, SettingOK
    <2>4. To(c, next)
      BY <1>5 DEF PairRead
    <2> HIDE DEF next
    <2> QED BY <1>3, <2>2, <2>3, <2>4, Remembers DEF PairRead
  <1> QED BY <1>4, <1>5

LEMMA PairMatchStep ==
    ASSUME IInv, scene' = scene, NEW c \in Slots, PairMatch(c)
    PROVE  IInv'
  <1> DEFINE s == sent[calls[c].bot]
             n == Max(Matches(c))
             next == [calls[c] EXCEPT !.at = "write", !.chat = s[n].chat]
  <1>1. /\ calls[c] \in Call /\ PairingOK(calls[c]) /\ calls[c].op = "pair"
        /\ calls[c].at = "updates"
    BY CallType DEF PairMatch, Is
  <1>2. calls[c].bot \in Bots /\ s \in Seq([code : Codes, chat : Chats])
    BY <1>1, Parts DEF PairingOK, SentPart
  <1>3. left' \in Nat
    BY LeftType DEF PairMatch
  <1>4. CASE Matches(c) = {}
    <2>1. To(c, Idle) /\ \A call \in {Idle} : CallOK(call)
      BY <1>4, IdleIsRight DEF PairMatch
    <2> QED BY <2>1, <1>3, IdleIsRight, Remembers DEF PairMatch
  <1>5. CASE Matches(c) # {}
    <2>1. n \in Matches(c)
      <3>1. Matches(c) \subseteq 1..Len(s) /\ Len(s) \in Nat
        BY <1>2 DEF Matches
      <3> QED BY <1>5, <3>1, GreatestPosition
    <2>2. n \in DOMAIN s /\ s[n].code = calls[c].code
      BY <2>1 DEF Matches
    <2>3. s[n] \in [code : Codes, chat : Chats]
      <3> DEFINE S == [code : Codes, chat : Chats]
      <3>1. s \in Seq(S) /\ n \in DOMAIN s
        BY <1>2, <2>2
      <3> HIDE DEF S, s, n
      <3>2. s[n] \in S
        BY <3>1
      <3> QED BY <3>2 DEF S
    <2>4. s[n] = [code |-> calls[c].code, chat |-> s[n].chat] /\ s[n].chat \in Chats
      BY <2>2, <2>3
    <2> HIDE DEF n
    <2>5. CameWith(s[n].chat, calls[c].code, calls[c].key)
      BY <1>1, <1>2, <2>2, <2>4 DEF CameWith, PairingOK
    <2>6. /\ next \in Call /\ next.op = "pair" /\ next.at = "write" /\ next.key = calls[c].key
          /\ next.bot = calls[c].bot /\ next.code = calls[c].code /\ next.chat = s[n].chat
      BY <1>1, <2>4 DEF Call
    <2>7. \A call \in {next} : CallOK(call)
      BY <1>1, <2>5, <2>6 DEF CallOK, HealthOK, PairingOK, RepairingOK, SettingOK
    <2>8. To(c, next)
      BY <1>5 DEF PairMatch, n
    <2> HIDE DEF next
    <2> QED BY <1>3, <2>6, <2>7, <2>8, Remembers DEF PairMatch
  <1> QED BY <1>4, <1>5

\* The chat that a connection gets is one from which its code came.
LEMMA PairWriteStep ==
    ASSUME IInv, scene' = scene, NEW c \in Slots, PairWrite(c)
    PROVE  IInv'
  <1> DEFINE key == calls[c].key
             k == Target(key)
             chat == calls[c].chat
             next == [conns[k] EXCEPT !.status = "ACTIVE", !.chat = chat]
  <1>1. calls[c] \in Call /\ PairingOK(calls[c]) /\ calls[c].op = "pair" /\ calls[c].at = "write"
    BY CallType DEF PairWrite, Is
  <1>2. key \in Keys /\ k \in Conns /\ Exists(k)
    BY <1>1, TargetType DEF PairingOK
  <1>3. chat \in Chats /\ chat # Null
    <2>1. PICK b \in Bots : \E i \in DOMAIN sent[b] :
             sent[b][i] = [code |-> calls[c].code, chat |-> chat]
      BY <1>1 DEF PairingOK, CameWith
    <2>2. sent[b] \in Seq([code : Codes, chat : Chats])
      BY Parts DEF SentPart
    <2>3. chat \in Chats
      BY <2>1, <2>2
    <2> QED BY <2>3, StorageAssumption
  <1>4. Grows /\ ConnsPart'
    <2>1. conns[k] \in ConnRow /\ conns[k].bot \in had[k]
      BY <1>2, Parts DEF ConnsPart, ConnsOK, Exists
    <2>2. next \in ConnRow /\ next.bot = conns[k].bot /\ next.chat = chat
      BY <1>3, <2>1 DEF ConnRow
    <2>3. conns' = [conns EXCEPT ![k] = next]
      BY <1>2, <2>1, Parts DEF PairWrite, ConnsPart, ConnRow
    <2> HIDE DEF next, k
    <2> QED BY <1>2, <1>3, <2>1, <2>2, <2>3, Parts, ConnGrows DEF PairWrite, telegram, versions
  <1>5. PairsPart'
    BY <1>2, Parts DEF PairWrite, PairsPart, PairsOK, Codes, NoPair
  <1>6. CallsPart'
    BY <1>4, Parts, Forgets DEF PairWrite
  <1>7. left' \in Nat
    BY LeftType DEF PairWrite
  <1> QED BY <1>4, <1>5, <1>6, <1>7, Frame DEF PairWrite, telegram, versions

-----------------------------------------------------------------------------
(* Versions and their repair                                               *)

LEMMA CommitStep ==
    ASSUME IInv, scene' = scene, NEW f \in Files, NEW h \in Hashes, NEW k \in Conns,
           Commit(f, h, k)
    PROVE  IInv'
  <1> DEFINE bot == conns[k].bot
             id == Len(held[bot]) + 1
             v == files[f].version + 1
             row == RowOf(f, v, id, h, k)
  <1>1. bot \in Bots /\ bot \in had[k]
    <2>1. conns[k] # NoConn
      BY DEF Commit, Resolves, Enabled, NoConn
    <2> QED BY <2>1, Parts DEF ConnsPart, ConnsOK, Exists, ConnRow
  <1>2. /\ held \in [Bots -> Seq(Hashes \cup {Null})] /\ held' = [held EXCEPT ![bot] = Append(@, h)]
        /\ id \in Nat
    BY <1>1, Parts DEF HeldPart, Commit
  <1>3. /\ held' \in [Bots -> Seq(Hashes \cup {Null})]
        /\ \A b \in Bots : /\ DOMAIN held[b] \subseteq DOMAIN held'[b]
                           /\ \A i \in DOMAIN held[b] : held'[b][i] = held[b][i]
        /\ id \in DOMAIN held'[bot] /\ held'[bot][id] = h
    <2> DEFINE S == Hashes \cup {Null}
    <2>1. h \in S
      OBVIOUS
    <2> HIDE DEF S, bot
    <2> QED BY <1>1, <1>2, <2>1
  <1>4. /\ files[f] \in FileRow /\ v \in Nat /\ v = Len(written[f]) + 1
        /\ written \in [Files -> Seq(Hashes)]
    BY Parts DEF FilesPart, FilesOK, FileRow
  <1>5. written' = [written EXCEPT ![f] = Append(@, h)]
    BY DEF Commit
  <1>6. /\ written' \in [Files -> Seq(Hashes)]
        /\ \A g \in Files : /\ 1..Len(written[g]) \subseteq 1..Len(written'[g])
                            /\ \A n \in 1..Len(written[g]) : written'[g][n] = written[g][n]
        /\ v = Len(written'[f]) /\ written'[f][v] = h
        /\ \A g \in Files \ {f} : written'[g] = written[g]
    <2>1. \A g \in Files : written'[g] = IF g = f THEN Append(written[f], h) ELSE written[g]
      BY <1>4, <1>5
    <2>2. \A g \in Files : written[g] \in Seq(Hashes)
      BY <1>4
    <2>3. /\ Append(written[f], h) \in Seq(Hashes) /\ Len(Append(written[f], h)) = Len(written[f]) + 1
          /\ Append(written[f], h)[Len(written[f]) + 1] = h
          /\ \A n \in 1..Len(written[f]) : Append(written[f], h)[n] = written[f][n]
      BY <2>2
    <2>4. written' \in [Files -> Seq(Hashes)]
      BY <1>4, <1>5, <2>3
    <2>5. 1..Len(written[f]) \subseteq 1..(Len(written[f]) + 1)
      BY <2>2
    <2> QED BY <2>1, <2>3, <2>4, <2>5, <1>4
  <1>7. Grows
    BY <1>3, <1>6, Parts DEF Commit, database, Grows, PairsPart, Exists, PairedWith, Codes
  <1>8. FilesPart'
    <2>1. files' = [files EXCEPT ![f] = FileOf(v, id, h, @.home)]
      BY DEF Commit
    <2>2. FileOf(v, id, h, files[f].home) \in FileRow
      BY <1>2, <1>4 DEF FileRow, FileOf
    <2>3. files \in [Files -> FileRow]
      BY Parts DEF FilesPart
    <2>4. files' \in [Files -> FileRow]
      BY <2>1, <2>2, <2>3
    <2>5. files'[f].version = v /\ files'[f].hash = h
      BY <2>1, <2>3 DEF FileOf
    <2>6. \A g \in Files \ {f} : files'[g] = files[g]
      BY <2>1, <2>3
    <2>7. FilesOK'
      <3> SUFFICES ASSUME NEW g \in Files
                   PROVE  /\ files'[g].version = Len(written'[g]) /\ files'[g].version > 0
                          /\ files'[g].hash = written'[g][files'[g].version]
        BY DEF FilesOK
      <3>1. CASE g = f
        <4>1. v > 0
          BY <1>4
        <4> HIDE DEF v
        <4> QED BY <3>1, <4>1, <2>5, <1>6
      <3>2. CASE g # f
        BY <3>2, <2>6, <1>6, Parts DEF FilesPart, FilesOK
      <3> QED BY <3>1, <3>2
    <2> QED BY <1>6, <2>4, <2>7 DEF FilesPart, FileRow
  <1>9. RowsPart'
    <2>1. rows' = rows \cup {row}
      BY DEF Commit
    <2>2. row \in VersionRow /\ ~row.repaired /\ row.file = f /\ row.version = v
      BY <1>2, <1>4 DEF RowOf, VersionRow
    <2>3. \A r \in rows : /\ r \in VersionRow
                          /\ r.version \in 1..Len(written'[r.file])
      BY <1>6, Parts DEF RowsPart, VersionRow
    <2>4. v \in 1..Len(written'[f])
      <3>1. v \in Nat /\ v > 0
        BY <1>4
      <3> HIDE DEF v
      <3> QED BY <3>1, <1>6
    <2>5. RepairTellsTheTruth'
      <3> SUFFICES ASSUME NEW r \in rows', r.repaired
                   PROVE  /\ r.hash = written'[r.file][r.version]
                          /\ (\E b \in had[r.conn] : Has(b, r.id) = r.hash)'
        BY DEF RepairTellsTheTruth
      <3>1. r \in rows
        BY <2>1, <2>2
      <3>2. r \in VersionRow /\ r.version \in 1..Len(written[r.file])
            /\ r.hash = written[r.file][r.version] /\ \E b \in had[r.conn] : Has(b, r.id) = r.hash
        BY <3>1, Parts DEF RowsPart, RepairTellsTheTruth
      <3> QED BY <3>2, <1>7, Parts, RowStays
    <2> HIDE DEF row, v
    <2> QED BY <2>1, <2>2, <2>3, <2>4, <2>5 DEF RowsPart, VersionRow
  <1>10. HeldPart' /\ left' \in Nat
    BY <1>3, LeftType DEF HeldPart, Commit
  <1> QED BY <1>7, <1>8, <1>9, <1>10, Frame DEF Commit, database

LEMMA RepairStep ==
    ASSUME IInv, scene' = scene, NEW c \in Slots, NEW f \in Files, Repair(c, f)
    PROVE  IInv'
  <1>1. PICK list \in Listed :
          To(c, [Idle EXCEPT !.op = "repair", !.at = "try", !.file = f,
                    !.version = files[f].version, !.id = files[f].id, !.hash = files[f].hash,
                    !.todo = Candidates(f, list)])
    BY DEF Repair
  <1> DEFINE todo == Candidates(f, list)
             next == [Idle EXCEPT !.op = "repair", !.at = "try", !.file = f,
                        !.version = files[f].version, !.id = files[f].id, !.hash = files[f].hash,
                        !.todo = todo]
  <1>2. todo \in Seq(Conns)
    BY Parts, ListType, CandidatesType
  <1>3. /\ files[f] \in FileRow /\ files[f].version \in 1..Len(written[f])
        /\ files[f].hash = written[f][files[f].version]
    BY Parts DEF FilesPart, FilesOK, FileRow
  <1> HIDE DEF todo
  <1>4. /\ next \in Call /\ next.op = "repair" /\ next.at = "try" /\ next.file = f
        /\ next.version = files[f].version /\ next.hash = files[f].hash
    BY <1>2, <1>3, IdleIsRight, ZenonT(60) DEF Call, Ops, FileRow
  <1>5. \A call \in {next} : CallOK(call)
    BY <1>3, <1>4 DEF CallOK, HealthOK, PairingOK, RepairingOK, SettingOK
  <1>6. To(c, next)
    BY <1>1 DEF todo
  <1>7. left' \in Nat
    BY LeftType DEF Repair
  <1> HIDE DEF next
  <1> QED BY <1>4, <1>5, <1>6, <1>7, Remembers DEF Repair

LEMMA RepairTryStep ==
    ASSUME IInv, scene' = scene, NEW c \in Slots, RepairTry(c)
    PROVE  IInv'
  <1> DEFINE call == calls[c]
             k == Head(call.todo)
             with == [call EXCEPT !.at = "write", !.found = k, !.todo = <<>>]
             without == [call EXCEPT !.todo = Tail(@)]
  <1>1. call \in Call /\ RepairingOK(call) /\ call.op = "repair" /\ call.at = "try"
    BY CallType DEF RepairTry, Is
  <1>2. left' \in Nat
    BY LeftType DEF RepairTry
  <1>3. CASE call.todo = <<>>
    <2>1. To(c, Idle) /\ \A next \in {Idle} : CallOK(next)
      BY <1>3, IdleIsRight DEF RepairTry
    <2> QED BY <2>1, <1>2, IdleIsRight, Remembers DEF RepairTry
  <1>4. CASE call.todo # <<>> /\ Found(call, k)
    <2>1. k \in Conns
      BY <1>1, <1>4 DEF Call
    <2>2. conns[k] # NoConn
      BY <1>4 DEF Found, Resolves, Enabled, NoConn
    <2>3. conns[k].bot \in had[k] /\ Has(conns[k].bot, call.id) = call.hash
      BY <1>4, <2>1, <2>2, Parts DEF ConnsPart, ConnsOK, Exists, Found
    <2>4. /\ with \in Call /\ with.op = "repair" /\ with.at = "write" /\ with.file = call.file
          /\ with.version = call.version /\ with.hash = call.hash /\ with.id = call.id
          /\ with.found = k
      <3>1. <<>> \in Seq(Conns) /\ call \in Call
        BY <1>1
      <3> HIDE DEF call, k
      <3> QED BY <2>1, <3>1, <1>1 DEF Call
    <2>5. \A next \in {with} : CallOK(next)
      BY <1>1, <2>1, <2>3, <2>4, ZenonT(60) DEF CallOK, HealthOK, PairingOK, RepairingOK, SettingOK
    <2>6. To(c, with)
      BY <1>4 DEF RepairTry
    <2> HIDE DEF with
    <2> QED BY <1>2, <2>4, <2>5, <2>6, Remembers DEF RepairTry
  <1>5. CASE call.todo # <<>> /\ ~Found(call, k)
    <2>1. /\ without \in Call /\ without.op = "repair" /\ without.at = "try"
          /\ without.file = call.file /\ without.version = call.version
          /\ without.hash = call.hash
      <3>1. call \in Call /\ Tail(call.todo) \in Seq(Conns)
        BY <1>1, <1>5 DEF Call
      <3> HIDE DEF call
      <3> QED BY <3>1, <1>1 DEF Call
    <2>2. \A next \in {without} : CallOK(next)
      BY <1>1, <2>1 DEF CallOK, HealthOK, PairingOK, RepairingOK, SettingOK
    <2>3. To(c, without)
      BY <1>5 DEF RepairTry
    <2> HIDE DEF without
    <2> QED BY <1>2, <2>1, <2>2, <2>3, Remembers DEF RepairTry
  <1> QED BY <1>3, <1>4, <1>5

LEMMA RepairWriteStep ==
    ASSUME IInv, scene' = scene, NEW c \in Slots, RepairWrite(c)
    PROVE  IInv'
  <1> DEFINE call == calls[c]
             row == [RowOf(call.file, call.version, call.id, call.hash, call.found)
                        EXCEPT !.repaired = TRUE]
  <1>1. call \in Call /\ RepairingOK(call) /\ call.op = "repair" /\ call.at = "write"
    BY CallType DEF RepairWrite, Is
  <1>2. Grows /\ left' \in Nat
    BY Parts, SameGrows, LeftType DEF RepairWrite, database, telegram
  <1>3. RowsPart'
    <2>1. rows' = rows \/ rows' = rows \cup {row}
      BY DEF RepairWrite
    <2>2. call.hash \in Hashes /\ call.file \in Files
      BY <1>1, Parts DEF RepairingOK, FilesPart
    <2>3. /\ row \in VersionRow /\ row.file = call.file /\ row.version = call.version
          /\ row.hash = call.hash /\ row.conn = call.found /\ row.id = call.id
      BY <1>1, <2>2 DEF RowOf, VersionRow, RepairingOK, Call
    <2>4. /\ row.version \in 1..Len(written[row.file]) /\ row.hash = written[row.file][row.version]
          /\ \E b \in had[row.conn] : Has(b, row.id) = row.hash
      BY <1>1, <2>3 DEF RepairingOK
    <2> HIDE DEF row, call
    <2>5. RowsPart'
      <3>1. \A r \in rows' : r \in VersionRow /\ r.version \in 1..Len(written[r.file])
        BY <2>1, <2>3, <2>4, Parts DEF RowsPart
      <3>2. \A r \in rows' : r.repaired =>
                r.hash = written[r.file][r.version] /\ \E b \in had[r.conn] : Has(b, r.id) = r.hash
        BY <2>1, <2>4, Parts DEF RowsPart, RepairTellsTheTruth
      <3>3. UNCHANGED <<had, held, written>>
        BY DEF RepairWrite, telegram
      <3> QED BY <3>1, <3>2, <3>3 DEF RowsPart, RepairTellsTheTruth, VersionRow, Has
    <2> QED BY <2>5
  <1>4. CallsPart'
    BY <1>2, Parts, Forgets DEF RepairWrite
  <1> QED BY <1>2, <1>3, <1>4, Frame DEF RepairWrite, database, telegram

-----------------------------------------------------------------------------
(* The theorems                                                            *)

LEMMA StepIsRight ==
    ASSUME IInv, [Next /\ UNCHANGED scene]_<<scene, vars>>
    PROVE  IInv'
  <1>1. CASE UNCHANGED <<scene, vars>>
    <2>1. Grows /\ left' \in Nat
      BY <1>1, Parts, SameGrows DEF vars, database, telegram, versions, SettingPart
    <2> QED BY <1>1, <2>1, Frame DEF vars, database, telegram, versions
  <1>2. CASE World /\ UNCHANGED scene
    BY <1>2, ArchiveStep, SendCodeStep, PairExpiresStep, CommitStep DEF World
  <1>3. ASSUME NEW c \in Slots, Administer(c), UNCHANGED scene
        PROVE  IInv'
    BY <1>3, CreateStep, RotateStep, DisableStep, SetStorageStep, DisableWriteStep,
       SetStorageWriteStep, HealthStep, HealthCheckStep, HealthWriteStep DEF Administer
  <1>4. ASSUME NEW c \in Slots, Pairing(c), UNCHANGED scene
        PROVE  IInv'
    BY <1>4, PairStartStep, PairConfirmStep, PairReadStep, PairMatchStep, PairWriteStep DEF Pairing
  <1>5. ASSUME NEW c \in Slots, Repairing(c), UNCHANGED scene
        PROVE  IInv'
    BY <1>5, RepairStep, RepairTryStep, RepairWriteStep DEF Repairing
  <1> QED BY <1>1, <1>2, <1>3, <1>4, <1>5 DEF Next

\* Every stored row and every request under way is as the handlers take it to be.
THEOREM Inductive == Spec => []IInv
  BY InitIsRight, StepIsRight, PTL DEF Spec

\* Every variable holds a value of its type.
THEOREM TypeCorrect == Spec => []TypeOK
  <1>1. IInv => TypeOK
    BY DEF IInv
  <1> QED BY <1>1, Inductive, PTL

\* A connection shown as active has a chat, whatever a check of it, a rotation of its token
\* and a pairing have in flight.
THEOREM ActiveHasChat == Spec => []ActiveIsPaired
  <1>1. IInv => ActiveIsPaired
    BY DEF IInv
  <1> QED BY <1>1, Inductive, PTL

\* A repaired row has the content its version was written with, and names a bot that has it.
THEOREM RepairsAreTrue == Spec => []RepairTellsTheTruth
  <1>1. IInv => RepairTellsTheTruth
    BY DEF IInv
  <1> QED BY <1>1, Inductive, PTL

\* A chat only becomes that of a connection when the code sent from it was issued for it.
LEMMA ChatStep ==
    ASSUME IInv, [Next /\ UNCHANGED scene]_<<scene, vars>>, NEW k \in Conns,
           conns'[k].chat # conns[k].chat
    PROVE  \E b \in Bots : \E i \in DOMAIN sent[b] :
              /\ sent[b][i].chat = conns'[k].chat
              /\ Target(issued[sent[b][i].code]) = k
  <1>1. conns \in [Conns -> {NoConn} \cup ConnRow]
    BY Parts DEF ConnsPart
  <1>2. conns' # conns
    OBVIOUS
  <1>3. ASSUME NEW c \in Slots, NEW j \in Conns, NEW b \in Bots,
               Create(c, j, b) \/ RotateToken(c, j, b)
        PROVE  FALSE
    <2>1. CASE Create(c, j, b)
      BY <1>1, <2>1 DEF Create, NoConn, ConnRow
    <2>2. CASE RotateToken(c, j, b)
      <3>1. Rotated(j, b).chat = conns[j].chat
        BY <1>1, <2>2 DEF RotateToken, Rotated, ConnRow, NoConn
      <3>2. conns' = [conns EXCEPT ![j] = Rotated(j, b)]
        BY <2>2 DEF RotateToken
      <3> QED BY <1>1, <3>1, <3>2
    <2> QED BY <1>3, <2>1, <2>2
  <1>4. ASSUME NEW c \in Slots, DisableWrite(c) \/ HealthWrite(c)
        PROVE  FALSE
    <2>1. PICK j, s : conns' = [conns EXCEPT ![j].status = s]
      BY <1>4 DEF DisableWrite, HealthWrite
    <2>2. conns'[k].chat = conns[k].chat
      BY <1>1, <2>1 DEF NoConn, ConnRow
    <2> QED BY <2>2
  <1>5. ASSUME NEW c \in Slots, PairWrite(c)
        PROVE  \E b \in Bots : \E i \in DOMAIN sent[b] :
                  /\ sent[b][i].chat = conns'[k].chat
                  /\ Target(issued[sent[b][i].code]) = k
    <2>1. PairingOK(calls[c]) /\ calls[c].op = "pair" /\ calls[c].at = "write"
      BY <1>5, CallType DEF PairWrite, Is
    <2>2. k = Target(calls[c].key) /\ conns'[k].chat = calls[c].chat
      BY <1>1, <1>5 DEF PairWrite, NoConn, ConnRow
    <2>3. PICK b \in Bots : \E i \in DOMAIN sent[b] :
             sent[b][i] = [code |-> calls[c].code, chat |-> calls[c].chat]
      BY <2>1 DEF PairingOK, CameWith
    <2>4. issued[calls[c].code] = calls[c].key
      BY <2>1 DEF PairingOK, CameWith
    <2> QED BY <2>2, <2>3, <2>4
  <1>6. UNCHANGED conns \/ \E c \in Slots :
            \/ \E j \in Conns, b \in Bots : Create(c, j, b) \/ RotateToken(c, j, b)
            \/ DisableWrite(c) \/ HealthWrite(c) \/ PairWrite(c)
    BY DEF vars, Next, World, Administer, Pairing, Repairing, database,
           Disable, SetStorage, SetStorageWrite, Health, HealthCheck, PairStart, PairConfirm,
           PairRead, PairMatch, Repair, RepairTry, RepairWrite, Archive, SendCode, PairExpires,
           Commit
  <1> QED BY <1>2, <1>3, <1>4, <1>5, <1>6

THEOREM ChatsAreChosen == Spec => ChatIsPaired
  <1> DEFINE Chosen == \A k \in Conns : conns'[k].chat # conns[k].chat =>
                          \E b \in Bots : \E i \in DOMAIN sent[b] :
                             /\ sent[b][i].chat = conns'[k].chat
                             /\ Target(issued[sent[b][i].code]) = k
  <1>1. IInv /\ [Next /\ UNCHANGED scene]_<<scene, vars>> => [Chosen]_vars
    BY ChatStep
  <1>2. ChatIsPaired <=> [][Chosen]_vars
    BY DEF ChatIsPaired
  <1> QED BY <1>1, <1>2, Inductive, PTL DEF Spec

=============================================================================
