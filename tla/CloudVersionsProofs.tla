------------------------ MODULE CloudVersionsProofs ------------------------
(***************************************************************************)
(* Proofs about CloudVersions: IInv is an inductive invariant of Spec, and *)
(* what it implies holds for every number of files, keys, versions,        *)
(* objects and waiting handlers.                                           *)
(***************************************************************************)
EXTENDS CloudVersions, SequenceTheorems, TLAPS

-----------------------------------------------------------------------------
(* Telegram only grows.                                                    *)

\* Sending a message keeps every stored one and adds the message Sent.
LEMMA SendGrows ==
    ASSUME objects \in Seq(Object), ObjectsOK,
           NEW backend \in Backends, NEW hash \in Hashes,
           NEW origin \in Origins, backend = "group" <=> origin = "group",
           Send(backend, hash, origin)
    PROVE  /\ objects' \in Seq(Object)
           /\ ObjectsOK'
           /\ Sent \in ObjectId
           /\ Sent \in DOMAIN objects' /\ Sent \notin DOMAIN objects
           /\ objects'[Sent] = [backend |-> backend, hash |-> hash, origin |-> origin]
           /\ DOMAIN objects \subseteq DOMAIN objects'
           /\ \A o \in DOMAIN objects : objects'[o] = objects[o]
<1> DEFINE new == [backend |-> backend, hash |-> hash, origin |-> origin]
<1>1. new \in Object
  BY DEF Object
<1>2. objects' = Append(objects, new) /\ Len(objects) < MaxObjects
  BY DEF Send
<1>3. objects' \in Seq(Object) /\ Len(objects') = Len(objects) + 1
  BY <1>1, <1>2
<1>4. DOMAIN objects = 1..Len(objects) /\ Len(objects) \in Nat
  BY <1>1
<1>5. DOMAIN objects' = 1..(Len(objects) + 1)
  BY <1>3, <1>4
<1>6. objects'[Sent] = new /\ \A o \in DOMAIN objects : objects'[o] = objects[o]
  BY <1>1, <1>2, <1>4 DEF Sent
<1>7. ObjectsOK'
  <2>1. Len(objects') <= MaxObjects
    BY <1>2, <1>3, <1>4, BoundAssumption
  <2>2. ASSUME NEW o \in DOMAIN objects'
        PROVE  objects'[o].backend = "group" <=> objects'[o].origin = "group"
    <3>1. CASE o = Sent
      BY <1>6, <3>1
    <3>2. CASE o # Sent
      BY <1>4, <1>5, <1>6, <2>2, <3>2 DEF ObjectsOK, Sent
    <3> QED BY <3>1, <3>2
  <2> QED BY <2>1, <2>2 DEF ObjectsOK
<1>8. Sent \in ObjectId /\ Sent \in DOMAIN objects' /\ Sent \notin DOMAIN objects
  BY <1>2, <1>4, <1>5, BoundAssumption DEF Sent, ObjectId
<1> QED BY <1>3, <1>4, <1>5, <1>6, <1>7, <1>8

-----------------------------------------------------------------------------
(* Frames: what a step that leaves the tables or Telegram alone preserves. *)

\* The part of IInv that only relates the tables to each other and Telegram.
TablesOK ==
    /\ FilesOK /\ IntentsOK /\ SourcesOK /\ VersionChain /\ CurrentPointer /\ StoredBytes
    /\ RecentVersionsKept /\ RestoredCopiesSource /\ UniqueActivePath
    /\ OriginsApart /\ CommittedHasVersion

\* Only the handlers move.
LEMMA TablesFrame ==
    ASSUME TablesOK, ObjectsOK, UNCHANGED <<tables, objects>>
    PROVE  TablesOK' /\ ObjectsOK'
<1>1. ObjectsOK' BY DEF ObjectsOK
<1>2. FilesOK' BY DEF TablesOK, FilesOK, tables, Exists
<1>3. IntentsOK' BY DEF TablesOK, IntentsOK, IntentOK, tables, Exists, Stored
<1>4. VersionChain' BY DEF TablesOK, VersionChain, tables
<1>5. CurrentPointer' BY DEF TablesOK, CurrentPointer, tables
<1>6. StoredBytes' BY DEF TablesOK, StoredBytes, tables
<1>7. RecentVersionsKept' BY DEF TablesOK, RecentVersionsKept, tables
<1>8. RestoredCopiesSource' BY DEF TablesOK, RestoredCopiesSource, tables
<1>9. UniqueActivePath' BY DEF TablesOK, UniqueActivePath, tables
<1>10. OriginsApart' BY DEF TablesOK, OriginsApart, tables
<1>11. CommittedHasVersion' BY DEF TablesOK, CommittedHasVersion, tables
<1>12. SourcesOK' BY DEF TablesOK, SourcesOK, tables
<1> QED
  BY <1>1, <1>2, <1>3, <1>4, <1>5, <1>6, <1>7, <1>8, <1>9, <1>10, <1>11, <1>12 DEF TablesOK

\* handlePreflight, reading: what it remembers of the file is true of the tables.
LEMMA PreflightReadInv ==
    ASSUME IInv, NEW k \in Keys, NEW f \in Files, NEW p \in Paths, NEW h \in Hashes,
           NEW b \in 0..MaxVersion, NEW s \in 0..MaxVersion, NEW backend \in Backends,
           PreflightRead(k, f, p, h, b, s, backend)
    PROVE  IInv'
<1> USE DEF PreflightRead
<1>1. TablesOK' /\ ObjectsOK'
  BY TablesFrame DEF IInv, TablesOK
<1>2. TypeOK'
  <2>1. files[f] \in FileRow /\ intents[k] \in IntentRow
    BY DEF IInv, TypeOK
  <2>2. PreflightOf(k, f, p, h, b, s, backend) \in
          [key : Keys, file : Files, path : Paths, hash : Hashes, base : 0..MaxVersion,
           source : 0..MaxVersion, backend : Backends, version : 0..MaxVersion, current : Hashes \cup {Null},
           replay : IntentStatus]
    BY <2>1 DEF PreflightOf, FileRow, IntentRow
  <2> QED BY <2>2 DEF IInv, TypeOK, tables
<1>3. PreflightsOK'
  <2>1. files[f] \in FileRow
    BY DEF IInv, TypeOK
  <2>2. files[f].version <= files[f].version /\ Exists(f)
    BY <2>1 DEF FileRow, Exists
  <2>3. s # 0 => s <= b /\ b <= files[f].version /\ versions[f][s].hash = h
    OBVIOUS
  <2> QED
    BY <2>2, <2>3 DEF IInv, HandlersOK, PreflightsOK, PreflightOf, Exists, tables
<1>4. HandlersOK'
  BY <1>3 DEF IInv, HandlersOK, UploadsOK, CommitsOK, RestoresOK, ImportsOK, AgingsOK,
              tables, Exists, Stored
<1> QED BY <1>1, <1>2, <1>4 DEF IInv, TablesOK

\* Nothing a waiting handler remembers is taken back: files only advance,
\* contents, intents and messages stay.
Grows ==
    /\ \A f \in Files :
          /\ Exists(f) => Exists(f)'
          /\ files[f].version <= files'[f].version
          /\ \A v \in Versions :
                v <= files[f].version => versions'[f][v].hash = versions[f][v].hash
    /\ \A k \in Keys :
          /\ intents[k].status # "none" =>
                /\ intents'[k].status # "none"
                /\ intents'[k].hash = intents[k].hash
                /\ intents'[k].backend = intents[k].backend
          /\ intents[k].tgid # 0 => intents'[k].tgid # 0
    /\ \A o \in DOMAIN objects : o \in DOMAIN objects' /\ objects'[o] = objects[o]

\* What the waiting handlers of a state know still holds after such a step.
LEMMA HandlersFrame ==
    ASSUME TypeOK, TypeOK', HandlersOK, Grows
    PROVE  /\ preflights' \subseteq preflights => PreflightsOK'
           /\ uploads' \subseteq uploads => UploadsOK'
           /\ commits' \subseteq commits => CommitsOK'
           /\ restores' \subseteq restores => RestoresOK'
           /\ imports' \subseteq imports => ImportsOK'
           /\ agings' \subseteq agings => AgingsOK'
<1>1. \A f \in Files : files[f].version \in Nat /\ files'[f].version \in Nat
  BY BoundAssumption DEF TypeOK, FileRow
<1>2. ASSUME preflights' \subseteq preflights PROVE PreflightsOK'
  <2>1. SUFFICES ASSUME NEW x \in preflights'
                 PROVE  /\ Exists(x.file)' /\ x.version <= files'[x.file].version
                        /\ x.source # 0 => /\ x.source <= x.base /\ x.base <= x.version
                                           /\ versions'[x.file][x.source].hash = x.hash
    BY DEF PreflightsOK
  <2>2. /\ x \in preflights /\ x.file \in Files /\ x.version \in Nat /\ x.base \in Nat
        /\ x.source \in 0..MaxVersion
    BY <1>2, BoundAssumption DEF TypeOK
  <2>3. /\ Exists(x.file) /\ x.version <= files[x.file].version
        /\ x.source # 0 => /\ x.source <= x.base /\ x.base <= x.version
                           /\ versions[x.file][x.source].hash = x.hash
    BY <2>2 DEF HandlersOK, PreflightsOK
  <2>4. x.source # 0 => x.source \in Versions /\ x.source <= files[x.file].version
    BY <1>1, <2>2, <2>3, BoundAssumption DEF Versions
  <2> QED BY <1>1, <2>2, <2>3, <2>4 DEF Grows
<1>3. ASSUME uploads' \subseteq uploads PROVE UploadsOK'
  <2>1. \A u \in uploads : u.key \in Keys
    BY DEF TypeOK
  <2> QED BY <1>3, <2>1 DEF HandlersOK, UploadsOK, Grows, Stored
<1>4. ASSUME commits' \subseteq commits PROVE CommitsOK'
  <2>1. \A c \in commits : c.key \in Keys
    BY DEF TypeOK
  <2> QED BY <1>4, <2>1 DEF HandlersOK, CommitsOK, Grows
<1>5. ASSUME restores' \subseteq restores PROVE RestoresOK'
  <2>1. SUFFICES ASSUME NEW x \in restores'
                 PROVE  /\ Exists(x.file)' /\ x.base < MaxVersion
                        /\ x.source <= x.base /\ x.base <= files'[x.file].version
                        /\ x.hash = versions'[x.file][x.source].hash
                        /\ Stored(x.object, x.hash, "bot")'
                        /\ objects'[x.object].origin = "clone"
    BY DEF RestoresOK
  <2>2. x \in restores /\ x.file \in Files /\ x.base \in Nat /\ x.source \in Versions
    BY <1>5, BoundAssumption DEF TypeOK
  <2>3. /\ Exists(x.file) /\ x.base < MaxVersion
        /\ x.source <= x.base /\ x.base <= files[x.file].version
        /\ x.hash = versions[x.file][x.source].hash
        /\ Stored(x.object, x.hash, "bot") /\ objects[x.object].origin = "clone"
    BY <2>2 DEF HandlersOK, RestoresOK
  <2>4. x.source <= files[x.file].version
    BY <1>1, <2>2, <2>3, BoundAssumption DEF Versions
  <2> QED BY <1>1, <2>2, <2>3, <2>4 DEF Grows, Stored
<1>6. ASSUME imports' \subseteq imports PROVE ImportsOK'
  <2>1. SUFFICES ASSUME NEW x \in imports'
                 PROVE  /\ Stored(x.object, x.hash, "bot")'
                        /\ objects'[x.object].origin = "chat"
                        /\ x.fresh => x.base = 0
                        /\ ~x.fresh => /\ Exists(x.file)' /\ x.base < MaxVersion
                                       /\ x.base <= files'[x.file].version
    BY DEF ImportsOK
  <2>2. x \in imports /\ x.file \in Files /\ x.base \in Nat
    BY <1>6, BoundAssumption DEF TypeOK
  <2> QED BY <1>1, <2>2 DEF HandlersOK, ImportsOK, Grows, Stored
<1>7. ASSUME agings' \subseteq agings PROVE AgingsOK'
  <2>1. SUFFICES ASSUME NEW a \in agings' PROVE a.version <= files'[a.file].version
    BY DEF AgingsOK
  <2>2. a \in agings /\ a.file \in Files /\ a.version \in Nat
    BY <1>7, BoundAssumption DEF TypeOK, Versions
  <2> QED BY <1>1, <2>2 DEF HandlersOK, AgingsOK, Grows
<1> QED BY <1>2, <1>3, <1>4, <1>5, <1>6, <1>7

\* A message more in Telegram changes nothing the tables say.
LEMMA TablesFrameSend ==
    ASSUME TypeOK, TablesOK, UNCHANGED tables,
           DOMAIN objects \subseteq DOMAIN objects',
           \A o \in DOMAIN objects : objects'[o] = objects[o]
    PROVE  TablesOK' /\ Grows
<1>0. SourcesOK'
  BY DEF TablesOK, SourcesOK, tables
<1>1. FilesOK' /\ VersionChain' /\ CurrentPointer' /\ RecentVersionsKept'
      /\ RestoredCopiesSource' /\ UniqueActivePath' /\ CommittedHasVersion'
  BY DEF TablesOK, FilesOK, VersionChain, CurrentPointer, RecentVersionsKept,
         RestoredCopiesSource, UniqueActivePath, CommittedHasVersion, tables, Exists
<1>2. IntentsOK'
  BY DEF TablesOK, IntentsOK, IntentOK, tables, Exists, Stored
<1>3. StoredBytes'
  BY DEF TablesOK, StoredBytes, tables
<1>4. OriginsApart'
  BY SMTT(60) DEF TablesOK, OriginsApart, StoredBytes, tables
<1>5. \A f \in Files : files[f].version \in Nat
  BY BoundAssumption DEF TypeOK, FileRow
<1>6. Grows
  BY <1>5 DEF Grows, tables, Exists
<1> QED BY <1>0, <1>1, <1>2, <1>3, <1>4, <1>6 DEF TablesOK

\* What an intent restores stays where it was: contents of versions stay.
LEMMA SourcesFrame ==
    ASSUME TypeOK, IntentsOK, SourcesOK, Grows,
           \A k \in Keys : intents'[k].restored # 0 =>
               /\ intents'[k].restored = intents[k].restored
               /\ intents'[k].status # "none"
               /\ intents'[k].file = intents[k].file
               /\ intents'[k].base = intents[k].base
               /\ intents'[k].hash = intents[k].hash
    PROVE  SourcesOK'
<1>1. SUFFICES ASSUME NEW k \in Keys, intents'[k].restored # 0
               PROVE  /\ intents'[k].status # "none"
                      /\ intents'[k].restored <= intents'[k].base
                      /\ versions'[intents'[k].file][intents'[k].restored].hash
                           = intents'[k].hash
  BY DEF SourcesOK
<1> DEFINE i == intents[k]
<1>2. /\ i.restored # 0 /\ i.status # "none" /\ i.restored <= i.base
      /\ versions[i.file][i.restored].hash = i.hash
      /\ i.file \in Files /\ i.base <= files[i.file].version
  BY <1>1 DEF SourcesOK, IntentsOK, IntentOK
<1>3. i.restored \in Versions /\ i.restored <= files[i.file].version
  <2>1. i \in IntentRow /\ files[i.file] \in FileRow
    BY <1>2 DEF TypeOK
  <2>2. /\ i.restored \in 0..MaxVersion /\ i.base \in Nat
        /\ files[i.file].version \in Nat
    BY <2>1, BoundAssumption DEF IntentRow, FileRow
  <2> QED BY <1>2, <2>2, BoundAssumption DEF Versions
<1> QED BY <1>1, <1>2, <1>3 DEF Grows

-----------------------------------------------------------------------------
(* Uploads                                                                 *)

\* handleUpload, storing: the message sent for an intent waits to be recorded.
LEMMA UploadStoreInv ==
    ASSUME IInv, NEW k \in Keys, UploadStore(k)
    PROVE  IInv'
<1> PICK id : id = Sent
  OBVIOUS
<1> DEFINE u0 == [key |-> k, object |-> id]
<1>0. /\ intents[k].status # "none" /\ intents[k].backend = "bot"
      /\ Send("bot", intents[k].hash, k)
      /\ uploads' = uploads \cup {u0}
      /\ UNCHANGED <<tables, preflights, commits, restores, imports, agings>>
      /\ intents[k].hash \in Hashes
  BY DEF UploadStore, IInv, IntentsOK, IntentOK
<1>1. /\ objects' \in Seq(Object) /\ ObjectsOK'
      /\ id \in ObjectId /\ id \in DOMAIN objects'
      /\ objects'[id] = [backend |-> "bot", hash |-> intents[k].hash, origin |-> k]
      /\ DOMAIN objects \subseteq DOMAIN objects'
      /\ \A o \in DOMAIN objects : objects'[o] = objects[o]
  <2>1. k \in Origins /\ k # "group" /\ "bot" \in Backends
    BY KeysAssumption DEF Origins, Backends
  <2> QED BY <1>0, <2>1, SendGrows DEF IInv, TypeOK
<1>2. TablesOK' /\ Grows
  BY <1>0, <1>1, TablesFrameSend DEF IInv, TablesOK
<1>3. TypeOK'
  <2>1. u0 \in [key : Keys, object : ObjectId]
    BY <1>1
  <2> QED BY <1>0, <1>1, <2>1 DEF IInv, TypeOK, tables
<1>4. UploadsOK'
  <2>1. ASSUME NEW u \in uploads
        PROVE  /\ intents'[u.key].status # "none"
               /\ Stored(u.object, intents[u.key].hash, intents[u.key].backend)'
               /\ intents'[u.key].backend = "bot" => objects'[u.object].origin = u.key
    BY <1>0, <1>1, <2>1 DEF IInv, HandlersOK, UploadsOK, Stored, tables
  <2>2. /\ intents'[u0.key].status # "none"
        /\ Stored(u0.object, intents[u0.key].hash, intents[u0.key].backend)'
        /\ objects'[u0.object].origin = u0.key
    BY <1>0, <1>1 DEF Stored, tables
  <2> QED BY <1>0, <2>1, <2>2 DEF UploadsOK
<1>5. HandlersOK'
  BY <1>0, <1>2, <1>3, <1>4, HandlersFrame DEF IInv, HandlersOK
<1> QED BY <1>1, <1>2, <1>3, <1>5 DEF IInv, TablesOK

\* A receipt names a group message with the content of the intent.
LEMMA SendReceiptInv ==
    ASSUME IInv, NEW k \in Keys, NEW o \in DOMAIN objects, SendReceipt(k, o)
    PROVE  IInv'
<1> DEFINE u0 == [key |-> k, object |-> o]
<1>1. /\ uploads' = uploads \cup {u0}
      /\ UNCHANGED <<tables, objects, preflights, commits, restores, imports, agings>>
      /\ intents[k].status # "none" /\ intents[k].backend = "group"
      /\ Stored(o, intents[k].hash, "group")
  BY DEF SendReceipt, Stored
<1>2. TablesOK' /\ ObjectsOK'
  BY <1>1, TablesFrame DEF IInv, TablesOK
<1>3. TypeOK'
  <2>1. o \in ObjectId
    BY BoundAssumption DEF IInv, TypeOK, ObjectsOK, ObjectId
  <2> QED BY <1>1, <2>1 DEF IInv, TypeOK, tables
<1>4. UploadsOK'
  <2>1. ASSUME NEW u \in uploads \cup {u0}
        PROVE  /\ intents[u.key].status # "none"
               /\ Stored(u.object, intents[u.key].hash, intents[u.key].backend)
               /\ intents[u.key].backend = "bot" => objects[u.object].origin = u.key
    BY <1>1, <2>1 DEF IInv, HandlersOK, UploadsOK
  <2> QED BY <1>1, <2>1 DEF UploadsOK, Stored, tables
<1>5. HandlersOK'
  BY <1>1, <1>4 DEF IInv, HandlersOK, PreflightsOK, UploadsOK, CommitsOK, RestoresOK, ImportsOK,
                    AgingsOK, tables, Exists, Stored
<1> QED BY <1>2, <1>3, <1>5 DEF IInv, TablesOK

\* A document in the chat or the group adds a message and nothing else.
LEMMA DocumentInv ==
    ASSUME IInv, NEW h \in Hashes, ChatDocument(h) \/ GroupDocument(h)
    PROVE  IInv'
<1>0. UNCHANGED <<tables, handlers>>
  BY DEF ChatDocument, GroupDocument
<1>1. /\ objects' \in Seq(Object) /\ ObjectsOK'
      /\ DOMAIN objects \subseteq DOMAIN objects'
      /\ \A o \in DOMAIN objects : objects'[o] = objects[o]
  BY SendGrows DEF IInv, TypeOK, ChatDocument, GroupDocument, Backends, Origins
<1>2. TablesOK' /\ Grows
  BY <1>0, <1>1, TablesFrameSend DEF IInv, TablesOK
<1>3. TypeOK'
  BY <1>0, <1>1 DEF IInv, TypeOK, tables, handlers
<1>4. HandlersOK'
  BY <1>0, <1>2, <1>3, HandlersFrame DEF IInv, HandlersOK, handlers
<1> QED BY <1>1, <1>2, <1>3, <1>4 DEF IInv, TablesOK

\* Only intents move, and only forward: what they say of their file stays.
LEMMA TablesFrameIntents ==
    ASSUME TypeOK, TablesOK, IntentsOK', SourcesOK', CommittedHasVersion',
           UNCHANGED <<files, versions, objects>>,
           \A k \in Keys : intents[k].status # "none" =>
               /\ intents'[k].status # "none"
               /\ intents'[k].file = intents[k].file
               /\ intents'[k].base = intents[k].base
               /\ intents'[k].hash = intents[k].hash
               /\ intents'[k].backend = intents[k].backend
               /\ intents[k].tgid # 0 => intents'[k].tgid # 0
    PROVE  TablesOK' /\ Grows
<1>1. FilesOK' /\ VersionChain' /\ CurrentPointer' /\ StoredBytes' /\ RecentVersionsKept'
      /\ RestoredCopiesSource' /\ UniqueActivePath'
  BY DEF TablesOK, FilesOK, VersionChain, CurrentPointer, StoredBytes, RecentVersionsKept,
         RestoredCopiesSource, UniqueActivePath, Exists
<1>2. OriginsApart'
  BY SMTT(60) DEF TablesOK, OriginsApart
<1>3. \A f \in Files : files[f].version \in Nat
  BY BoundAssumption DEF TypeOK, FileRow
<1>4. \A k \in Keys : intents[k].tgid # 0 => intents[k].status # "none"
  BY DEF TablesOK, IntentsOK, IntentOK
<1>5. Grows
  BY <1>3, <1>4 DEF Grows, Exists
<1> QED BY <1>1, <1>2, <1>5 DEF TablesOK

\* The guarded UPDATE gives the intent the object that was sent for it.
LEMMA RecordUploadInv ==
    ASSUME IInv, NEW u \in uploads, RecordUpload(u)
    PROVE  IInv'
<1>0. /\ UNCHANGED <<files, versions, objects, preflights, commits, restores, imports, agings>>
      /\ uploads' \subseteq uploads
  BY DEF RecordUpload
<1>1. /\ u.key \in Keys /\ u.object \in ObjectId /\ u.object # 0
      /\ intents[u.key].status = "reserved"
      /\ Stored(u.object, intents[u.key].hash, intents[u.key].backend)
      /\ intents[u.key].backend = "bot" => objects[u.object].origin = u.key
      /\ intents[u.key] \in IntentRow
  BY DEF IInv, TypeOK, HandlersOK, UploadsOK, Stored, RecordUpload
<1>2. /\ intents' = [k \in Keys |-> intents'[k]]
      /\ \A k \in Keys \ {u.key} : intents'[k] = intents[k]
      /\ intents'[u.key] = [intents[u.key] EXCEPT !.status = "uploaded", !.tgid = u.object]
  BY <1>1 DEF IInv, TypeOK, RecordUpload
<1>3. /\ intents'[u.key].status = "uploaded" /\ intents'[u.key].tgid = u.object
      /\ intents'[u.key].file = intents[u.key].file
      /\ intents'[u.key].base = intents[u.key].base
      /\ intents'[u.key].name = intents[u.key].name
      /\ intents'[u.key].hash = intents[u.key].hash
      /\ intents'[u.key].backend = intents[u.key].backend
      /\ intents'[u.key].restored = intents[u.key].restored
      /\ intents'[u.key] \in IntentRow
  <2>1. "uploaded" \in IntentStatus
    BY DEF IntentStatus
  <2> QED BY <1>1, <1>2, <2>1 DEF IntentRow
<1>4. TypeOK'
  <2>1. intents' \in [Keys -> IntentRow]
    BY <1>1, <1>2, <1>3 DEF IInv, TypeOK
  <2> QED BY <1>0, <2>1 DEF IInv, TypeOK
<1>5. IntentsOK'
  <2>1. ASSUME NEW k \in Keys, k # u.key
        PROVE  /\ intents'[k] = intents[k] /\ files' = files /\ objects' = objects
    BY <1>0, <1>2, <2>1
  <2> QED BY <1>0, <1>1, <1>3, <2>1 DEF IInv, IntentsOK, IntentOK, Stored, Exists
<1>6. CommittedHasVersion'
  BY <1>0, <1>2, <1>3 DEF IInv, CommittedHasVersion
<1>7. SourcesOK'
  <2>1. ASSUME NEW k \in Keys
        PROVE  /\ intents'[k].restored = intents[k].restored
               /\ intents'[k].file = intents[k].file /\ intents'[k].base = intents[k].base
               /\ intents'[k].hash = intents[k].hash
               /\ intents[k].status # "none" => intents'[k].status # "none"
    BY <1>2, <1>3
  <2> QED BY <1>0, <2>1 DEF IInv, SourcesOK
<1>8. TablesOK' /\ Grows
  BY <1>0, <1>1, <1>2, <1>3, <1>5, <1>6, <1>7, TablesFrameIntents DEF IInv, TablesOK
<1>9. HandlersOK'
  BY <1>0, <1>4, <1>8, HandlersFrame DEF IInv, HandlersOK
<1> QED BY <1>0, <1>4, <1>8, <1>9 DEF IInv, TablesOK, ObjectsOK

-----------------------------------------------------------------------------
(* Preflight                                                               *)

\* The INSERT of an intent: its base version is one the file has reached.
LEMMA PreflightReserveInv ==
    ASSUME IInv, NEW x \in preflights, PreflightReserve(x)
    PROVE  IInv'
<1> USE DEF PreflightReserve
<1> DEFINE row == [status |-> "reserved", file |-> x.file, name |-> x.path, base |-> x.base,
                   hash |-> x.hash, backend |-> x.backend, tgid |-> 0,
                   restored |-> x.source]
<1>1. /\ x.key \in Keys /\ x.file \in Files /\ x.path \in Paths /\ x.hash \in Hashes
      /\ x.backend \in Backends /\ x.base \in 0..MaxVersion /\ x.base < MaxVersion
      /\ Exists(x.file) /\ x.base <= files[x.file].version /\ x.source \in 0..MaxVersion
      /\ x.source # 0 => x.source <= x.base /\ versions[x.file][x.source].hash = x.hash
  <2>1. x.version # x.base => Reply(x) # "upload_required"
    BY DEF Reply
  <2> QED BY <2>1 DEF IInv, TypeOK, HandlersOK, PreflightsOK
<1>2. /\ intents[x.key].status = "none"
      /\ \A k \in Keys \ {x.key} : intents'[k] = intents[k]
      /\ intents'[x.key] = row
  BY <1>1 DEF IInv, TypeOK
<1>3. TypeOK'
  <2>1. row \in IntentRow
    BY <1>1, BoundAssumption DEF IntentRow, IntentStatus, ObjectId
  <2>2. intents' \in [Keys -> IntentRow]
    BY <2>1 DEF IInv, TypeOK
  <2> QED BY <2>2 DEF IInv, TypeOK
<1>4. IntentsOK'
  BY <1>1, <1>2 DEF IInv, IntentsOK, IntentOK, Stored, Exists
<1>5. CommittedHasVersion'
  BY <1>2 DEF IInv, CommittedHasVersion
<1>6. SourcesOK'
  BY <1>1, <1>2 DEF IInv, SourcesOK
<1>7. TablesOK' /\ Grows
  BY <1>2, <1>4, <1>5, <1>6, TablesFrameIntents DEF IInv, TablesOK
<1>8. HandlersOK'
  BY <1>3, <1>7, HandlersFrame DEF IInv, HandlersOK
<1> QED BY <1>3, <1>7, <1>8 DEF IInv, TablesOK, ObjectsOK

-----------------------------------------------------------------------------
(* Commit, up to its batch                                                 *)

\* commitUploadedIntent, reading: it only goes on with an uploaded intent.
LEMMA CommitReadsInv ==
    ASSUME IInv,
           \/ \E k \in Keys : CommitLoad(k)
           \/ \E c \in commits : CommitCheck(c) \/ CommitMatch(c)
    PROVE  IInv'
<1>1. /\ UNCHANGED <<tables, objects, preflights, uploads, restores, imports, agings>>
      /\ \A c \in commits' : /\ c \in [key : Keys, stage : {"loaded", "checked", "matched"}]
                             /\ intents[c.key].tgid # 0
  <2>1. CASE \E k \in Keys : CommitLoad(k)
    <3>1. PICK k \in Keys : CommitLoad(k)
      BY <2>1
    <3>2. intents[k].tgid # 0
      BY <3>1 DEF CommitLoad, IInv, IntentsOK, IntentOK
    <3> QED BY <3>1, <3>2 DEF CommitLoad, IInv, TypeOK, HandlersOK, CommitsOK
  <2>2. CASE \E c \in commits : CommitCheck(c) \/ CommitMatch(c)
    <3>1. PICK c \in commits : CommitCheck(c) \/ CommitMatch(c)
      BY <2>2
    <3>2. c \in [key : Keys, stage : {"loaded", "checked", "matched"}] /\ intents[c.key].tgid # 0
      BY DEF IInv, TypeOK, HandlersOK, CommitsOK
    <3>3. /\ [c EXCEPT !.stage = "checked"] = [key |-> c.key, stage |-> "checked"]
          /\ [c EXCEPT !.stage = "matched"] = [key |-> c.key, stage |-> "matched"]
      BY <3>2
    <3> QED BY <3>1, <3>2, <3>3 DEF CommitCheck, CommitMatch, IInv, TypeOK, HandlersOK, CommitsOK
  <2> QED BY <2>1, <2>2
<1>2. TablesOK' /\ ObjectsOK'
  BY <1>1, TablesFrame DEF IInv, TablesOK
<1>3. TypeOK'
  BY <1>1 DEF IInv, TypeOK, tables
<1>4. HandlersOK'
  BY <1>1 DEF IInv, HandlersOK, PreflightsOK, UploadsOK, CommitsOK, RestoresOK, ImportsOK,
              AgingsOK, tables, Exists, Stored
<1> QED BY <1>2, <1>3, <1>4 DEF IInv, TablesOK

\* An abandoned intent keeps its object, and loses no version it had.
LEMMA CommitAbandonInv ==
    ASSUME IInv, NEW c \in commits, CommitAbandon(c)
    PROVE  IInv'
<1> DEFINE k0 == c.key
<1>0. /\ UNCHANGED <<files, versions, objects, preflights, uploads, restores, imports, agings>>
      /\ commits' \subseteq commits
  BY DEF CommitAbandon
<1>1. k0 \in Keys /\ intents[k0].tgid # 0 /\ intents[k0] \in IntentRow
  BY DEF IInv, TypeOK, HandlersOK, CommitsOK
<1>2. /\ intents' = [k \in Keys |-> intents'[k]]
      /\ \A k \in Keys \ {k0} : intents'[k] = intents[k]
      /\ intents'[k0] = [intents[k0] EXCEPT !.status = "abandoned"]
  BY <1>1 DEF IInv, TypeOK, CommitAbandon
<1>3. /\ intents'[k0].status = "abandoned" /\ intents'[k0].tgid = intents[k0].tgid
      /\ intents'[k0].file = intents[k0].file
      /\ intents'[k0].base = intents[k0].base
      /\ intents'[k0].name = intents[k0].name
      /\ intents'[k0].hash = intents[k0].hash
      /\ intents'[k0].backend = intents[k0].backend
      /\ intents'[k0].restored = intents[k0].restored
      /\ intents'[k0] \in IntentRow
  <2>1. "abandoned" \in IntentStatus
    BY DEF IntentStatus
  <2> QED BY <1>1, <1>2, <2>1 DEF IntentRow
<1>4. TypeOK'
  <2>1. intents' \in [Keys -> IntentRow]
    BY <1>1, <1>2, <1>3 DEF IInv, TypeOK
  <2> QED BY <1>0, <2>1 DEF IInv, TypeOK
<1>5. IntentsOK'
  <2>1. IntentOK(k0)'
    BY <1>0, <1>1, <1>3 DEF IInv, IntentsOK, IntentOK, Stored, Exists
  <2>2. ASSUME NEW k \in Keys, k # k0 PROVE IntentOK(k)'
    BY <1>0, <1>2, <2>2 DEF IInv, IntentsOK, IntentOK, Stored, Exists
  <2> QED BY <2>1, <2>2 DEF IntentsOK
<1>6. CommittedHasVersion'
  BY <1>0, <1>2, <1>3 DEF IInv, CommittedHasVersion
<1>7. SourcesOK'
  <2>1. ASSUME NEW k \in Keys
        PROVE  /\ intents'[k].restored = intents[k].restored
               /\ intents'[k].file = intents[k].file /\ intents'[k].base = intents[k].base
               /\ intents'[k].hash = intents[k].hash
               /\ intents[k].status # "none" => intents'[k].status # "none"
    BY <1>2, <1>3
  <2> QED BY <1>0, <2>1 DEF IInv, SourcesOK
<1>8. TablesOK' /\ Grows
  BY <1>0, <1>1, <1>2, <1>3, <1>5, <1>6, <1>7, TablesFrameIntents DEF IInv, TablesOK
<1>9. HandlersOK'
  BY <1>0, <1>4, <1>8, HandlersFrame DEF IInv, HandlersOK
<1> QED BY <1>0, <1>4, <1>8, <1>9 DEF IInv, TablesOK, ObjectsOK

-----------------------------------------------------------------------------
(* Metadata                                                                *)

\* The files keep their pointers; a file at a path stays at a path, and no
\* path is active twice.
LEMMA MetadataTables ==
    ASSUME IInv, UNCHANGED <<versions, intents, objects>>,
           files' \in [Files -> FileRow], UniqueActivePath',
           \A f \in Files :
               /\ files'[f].version = files[f].version
               /\ files[f].version > 0 =>
                     files'[f].hash = files[f].hash /\ files'[f].tgid = files[f].tgid
               /\ Exists(f) => Exists(f)'
               /\ Exists(f)' => files'[f].path \in Paths
    PROVE  TablesOK' /\ Grows
<1>1. FilesOK'
  BY DEF IInv, FilesOK, Exists
<1>2. IntentsOK'
  BY DEF IInv, IntentsOK, IntentOK, Exists, Stored
<1>3. VersionChain' /\ CurrentPointer' /\ StoredBytes' /\ RecentVersionsKept'
      /\ RestoredCopiesSource' /\ OriginsApart'
  BY SMTT(60) DEF IInv, VersionChain, CurrentPointer, StoredBytes, RecentVersionsKept,
         RestoredCopiesSource, OriginsApart
<1>0. SourcesOK'
  BY DEF IInv, SourcesOK
<1>4. CommittedHasVersion'
  BY DEF IInv, IntentsOK, IntentOK, CommittedHasVersion
<1>5. \A f \in Files : files[f].version \in Nat
  BY BoundAssumption DEF IInv, TypeOK, FileRow
<1>6. Grows
  BY <1>5 DEF Grows
<1> QED BY <1>0, <1>1, <1>2, <1>3, <1>4, <1>6 DEF TablesOK

\* A metadata handler that keeps pointers, existence and unique paths keeps IInv.
LEMMA MetadataInv ==
    ASSUME IInv, UNCHANGED <<versions, intents, objects, handlers>>,
           files' \in [Files -> FileRow], UniqueActivePath',
           \A f \in Files :
               /\ files'[f].version = files[f].version
               /\ files'[f].hash = files[f].hash /\ files'[f].tgid = files[f].tgid
               /\ Exists(f)' <=> Exists(f)
               /\ Exists(f) => files'[f].path \in Paths
    PROVE  IInv'
<1>1. TypeOK'
  BY DEF IInv, TypeOK, handlers
<1>2. TablesOK' /\ Grows
  BY MetadataTables
<1>3. HandlersOK'
  BY <1>1, <1>2, HandlersFrame DEF IInv, HandlersOK, handlers
<1> QED BY <1>1, <1>2, <1>3 DEF IInv, TablesOK, ObjectsOK

\* The row a preflight inserts for a file it does not know.
LEMMA PreflightCreateInv ==
    ASSUME IInv, NEW k \in Keys, NEW f \in Files, NEW p \in Paths, NEW h \in Hashes,
           NEW backend \in Backends, PreflightCreate(k, f, p, h, backend)
    PROVE  IInv'
<1> DEFINE new == NewFile(p)
           x0 == PreflightOf(k, f, p, h, 0, 0, backend)
<1>1. /\ files[f].status = "none" /\ PathFree(f, p)
      /\ files' = [files EXCEPT ![f] = new]
      /\ preflights' = preflights \cup {x0}
      /\ UNCHANGED <<versions, intents, objects, uploads, commits, restores, imports, agings>>
  BY DEF PreflightCreate
<1>2. new \in FileRow /\ new.status = "active" /\ new.version = 0 /\ new.path = p
  BY BoundAssumption DEF NewFile, FileRow, FileStatus, ObjectId
<1> HIDE DEF new
<1>3. files[f].version = 0 /\ files[f] \in FileRow /\ intents[k] \in IntentRow
  BY <1>1 DEF IInv, TypeOK, FilesOK, Exists
<1>4. /\ x0.file = f /\ x0.version = 0 /\ x0.source = 0
      /\ x0 \in [key : Keys, file : Files, path : Paths, hash : Hashes, base : 0..MaxVersion,
                 source : 0..MaxVersion, backend : Backends, version : 0..MaxVersion, current : Hashes \cup {Null},
                 replay : IntentStatus]
  BY <1>3, BoundAssumption DEF PreflightOf, FileRow, IntentRow
<1> HIDE DEF x0
<1>5. /\ files' \in [Files -> FileRow]
      /\ files'[f] = new /\ \A g \in Files \ {f} : files'[g] = files[g]
  BY <1>1, <1>2 DEF IInv, TypeOK
<1>6. TypeOK'
  BY <1>1, <1>4, <1>5 DEF IInv, TypeOK
<1>7. UniqueActivePath'
  <2>1. SUFFICES ASSUME NEW g \in Files, NEW j \in Files, g # j,
                        files'[g].status = "active", files'[j].status = "active"
                 PROVE  files'[g].path # files'[j].path
    BY DEF UniqueActivePath
  <2>2. CASE f \notin {g, j}
    BY <1>5, <2>1, <2>2 DEF IInv, UniqueActivePath
  <2>3. CASE f \in {g, j}
    BY <1>1, <1>2, <1>5, <2>1, <2>3 DEF PathFree
  <2> QED BY <2>2, <2>3
<1>8. TablesOK' /\ Grows
  <2>1. ASSUME NEW g \in Files
        PROVE  /\ files'[g].version = files[g].version
               /\ files[g].version > 0 =>
                     files'[g].hash = files[g].hash /\ files'[g].tgid = files[g].tgid
               /\ Exists(g) => Exists(g)'
               /\ Exists(g)' => files'[g].path \in Paths
    <3>1. CASE g = f
      BY <1>1, <1>2, <1>3, <1>5, <3>1 DEF Exists
    <3>2. CASE g # f
      BY <1>5, <3>2 DEF IInv, FilesOK, Exists
    <3> QED BY <3>1, <3>2
  <2> QED BY <1>1, <1>5, <1>7, <2>1, MetadataTables
<1>9. PreflightsOK'
  <2>1. ASSUME NEW x \in preflights
        PROVE  /\ files'[x.file].status # "none" /\ x.version <= files'[x.file].version
               /\ x.source # 0 => /\ x.source <= x.base /\ x.base <= x.version
                                  /\ versions[x.file][x.source].hash = x.hash
    <3>1. /\ x.file \in Files /\ files[x.file].status # "none"
          /\ x.version <= files[x.file].version
          /\ x.source # 0 => /\ x.source <= x.base /\ x.base <= x.version
                             /\ versions[x.file][x.source].hash = x.hash
      BY DEF IInv, TypeOK, HandlersOK, PreflightsOK, Exists
    <3> QED BY <1>1, <1>5, <3>1
  <2>2. files'[x0.file].status # "none" /\ x0.version <= files'[x0.file].version
    BY <1>2, <1>4, <1>5
  <2> QED BY <1>1, <1>4, <2>1, <2>2 DEF PreflightsOK, Exists
<1>10. HandlersOK'
  BY <1>1, <1>6, <1>8, <1>9, HandlersFrame DEF IInv, HandlersOK
<1> QED BY <1>1, <1>6, <1>8, <1>10 DEF IInv, TablesOK, ObjectsOK

\* handleRename moves one file to a path no other active file has.
LEMMA RenameInv ==
    ASSUME IInv, NEW f \in Files, NEW p \in Paths, Rename(f, p)
    PROVE  IInv'
<1>1. files[f] \in FileRow /\ Exists(f)
  BY DEF IInv, TypeOK, Rename
<1>2. /\ UNCHANGED <<versions, intents, objects, handlers>>
      /\ files' = [g \in Files |-> files'[g]]
      /\ \A g \in Files \ {f} : files'[g] = files[g]
      /\ files[f].status = "active" => PathFree(f, p)
  BY DEF IInv, TypeOK, Rename
<1>3. /\ files'[f] \in FileRow /\ files'[f].path = p
      /\ files'[f].status = files[f].status /\ files'[f].version = files[f].version
      /\ files'[f].hash = files[f].hash /\ files'[f].tgid = files[f].tgid
  <2>1. files'[f] = [files[f] EXCEPT !.path = p, !.name = p]
    BY DEF IInv, TypeOK, Rename
  <2> QED BY <1>1, <2>1 DEF FileRow
<1>4. files' \in [Files -> FileRow]
  BY <1>2, <1>3 DEF IInv, TypeOK
<1>5. UniqueActivePath'
  <2>1. SUFFICES ASSUME NEW g \in Files, NEW h \in Files, g # h,
                        files'[g].status = "active", files'[h].status = "active"
                 PROVE  files'[g].path # files'[h].path
    BY DEF UniqueActivePath
  <2>2. CASE f \notin {g, h}
    BY <1>2, <2>1, <2>2 DEF IInv, UniqueActivePath
  <2>3. CASE f = g
    BY <1>2, <1>3, <2>1, <2>3 DEF PathFree
  <2>4. CASE f = h
    BY <1>2, <1>3, <2>1, <2>4 DEF PathFree
  <2> QED BY <2>2, <2>3, <2>4
<1> QED BY <1>1, <1>2, <1>3, <1>4, <1>5, MetadataInv DEF IInv, FilesOK, Exists

\* The recycle bin handlers move one file through its statuses.
LEMMA RecycleInv ==
    ASSUME IInv, NEW f \in Files, Trash(f) \/ PermanentDelete(f) \/ RestoreFromTrash(f)
    PROVE  IInv'
<1>1. PICK s \in {"active", "trashed", "deleted"} :
          /\ files' = [files EXCEPT ![f].status = s]
          /\ s = "active" => PathFree(f, files[f].path)
  BY DEF Trash, PermanentDelete, RestoreFromTrash
<1>2. files[f] \in FileRow /\ Exists(f) /\ UNCHANGED <<versions, intents, objects, handlers>>
  BY DEF IInv, TypeOK, Trash, PermanentDelete, RestoreFromTrash, Exists
<1>3. /\ files' = [g \in Files |-> files'[g]]
      /\ \A g \in Files \ {f} : files'[g] = files[g]
      /\ files'[f] = [files[f] EXCEPT !.status = s]
  BY <1>1 DEF IInv, TypeOK
<1>4. /\ files'[f] \in FileRow /\ files'[f].path = files[f].path
      /\ files'[f].status = s /\ files'[f].version = files[f].version
      /\ files'[f].hash = files[f].hash /\ files'[f].tgid = files[f].tgid
  <2>1. s \in FileStatus
    BY DEF FileStatus
  <2> QED BY <1>2, <1>3, <2>1 DEF FileRow
<1>5. files' \in [Files -> FileRow]
  BY <1>3, <1>4 DEF IInv, TypeOK
<1>6. UniqueActivePath'
  BY <1>1, <1>3, <1>4 DEF IInv, UniqueActivePath, PathFree
<1> QED BY <1>2, <1>3, <1>4, <1>5, <1>6, MetadataInv DEF IInv, FilesOK, Exists

-----------------------------------------------------------------------------
(* Versions: what a batch that writes version n leaves of the others.      *)

\* new is row, archived or expired on behalf of version n, or untouched.
AgedTo(row, new, v, n) ==
    /\ new \in VersionRow
    /\ new.hash = row.hash /\ new.tgid = row.tgid
    /\ new.backend = row.backend /\ new.locator = row.locator
    /\ new.base = row.base /\ new.restored = row.restored
    /\ new.status = "none" <=> row.status = "none"
    /\ new.status = "expired" => row.status = "expired" \/ v <= n - 2

\* Ageing changes a status only, and expires none of the two newest versions.
LEMMA AgedIsAgedTo ==
    ASSUME NEW row \in VersionRow, NEW v \in Versions, NEW n \in Versions, NEW r \in Retentions
    PROVE  AgedTo(row, Aged(row, v, n, r), v, n)
<1>1. \A s \in VersionStatus :
          LET new == [row EXCEPT !.status = s] IN
          /\ new \in VersionRow /\ new.status = s
          /\ new.hash = row.hash /\ new.tgid = row.tgid
          /\ new.backend = row.backend /\ new.locator = row.locator
          /\ new.base = row.base /\ new.restored = row.restored
  BY DEF VersionRow
<1>2. v \in Int /\ n \in Int /\ r \in Int /\ r >= 2
  BY RetentionAssumption, BoundAssumption DEF Versions
<1>3. CASE row.status = "none"
  BY <1>3 DEF Aged, AgedTo
<1>4. CASE row.status # "none" /\ v <= n - r
  <2>1. Aged(row, v, n, r) = [row EXCEPT !.status = "expired"]
    BY <1>4 DEF Aged
  <2>2. v <= n - 2
    BY <1>2, <1>4
  <2> QED BY <1>1, <1>4, <2>1, <2>2 DEF AgedTo, VersionStatus
<1>5. CASE row.status # "none" /\ ~(v <= n - r) /\ v < n /\ row.status = "active"
  <2>1. Aged(row, v, n, r) = [row EXCEPT !.status = "archived"]
    BY <1>5 DEF Aged
  <2> QED BY <1>1, <1>5, <2>1 DEF AgedTo, VersionStatus
<1>6. CASE row.status # "none" /\ ~(v <= n - r) /\ ~(v < n /\ row.status = "active")
  BY <1>6 DEF Aged, AgedTo
<1> QED BY <1>3, <1>4, <1>5, <1>6

\* Version n of f is written on top of the history, and becomes current.
Published(f, n, row) ==
    /\ n \in Versions /\ files[f].version = n - 1
    /\ row \in VersionRow /\ row.hash \in Hashes /\ row.status = "active" /\ row.base = n - 1
    /\ versions' \in [Files -> [Versions -> VersionRow]]
    /\ versions'[f][n] = row
    /\ \A v \in Versions \ {n} : AgedTo(versions[f][v], versions'[f][v], v, n)
    /\ \A g \in Files \ {f} : versions'[g] = versions[g] /\ files'[g] = files[g]
    /\ files' \in [Files -> FileRow]
    /\ files'[f].status = "active" /\ files'[f].version = n
    /\ files'[f].hash = row.hash /\ files'[f].tgid = row.tgid
    /\ files'[f].path \in Paths /\ PathFree(f, files'[f].path)
    /\ row.backend = "group" => row.locator = row.tgid

\* What an action that writes a version does to the history of its file.
Publishes == \E f \in Files, n \in Versions, row \in VersionRow : Published(f, n, row)

\* The intents stay, but those committed by this version.
Completed(f, n, row) ==
    \A k \in Keys :
        /\ intents'[k].file = intents[k].file /\ intents'[k].name = intents[k].name
        /\ intents'[k].base = intents[k].base /\ intents'[k].hash = intents[k].hash
        /\ intents'[k].backend = intents[k].backend /\ intents'[k].tgid = intents[k].tgid
        /\ intents'[k].restored = intents[k].restored
        /\ \/ intents'[k].status = intents[k].status
           \/ /\ intents[k].status = "uploaded" /\ intents'[k].status = "committed"
              /\ intents[k].file = f /\ intents[k].base = n - 1 /\ intents[k].tgid = row.tgid

\* A version that is stored, copies its source and belongs to its intent keeps
\* everything the tables promise.
LEMMA PublishedTables ==
    ASSUME IInv, NEW f \in Files, NEW n \in Versions, NEW row \in VersionRow,
           Published(f, n, row), Completed(f, n, row), objects' = objects,
           Stored(row.tgid, row.hash, IF row.backend = Null THEN "bot" ELSE row.backend),
           row.restored # 0 =>
               row.restored < n /\ row.hash = versions[f][row.restored].hash,
           objects[row.tgid].origin \in Keys =>
               LET i == intents[objects[row.tgid].origin] IN
               i.status # "none" /\ i.file = f /\ n = i.base + 1
    PROVE  TablesOK' /\ Grows
<1>0. /\ \A g \in Files : files[g].version \in Nat /\ files'[g].version \in Nat
      /\ Versions \subseteq Nat \ {0}
  BY BoundAssumption DEF IInv, TypeOK, FileRow, Published, Versions
<1>1. FilesOK'
  BY DEF IInv, FilesOK, Exists, Published
<1>2. \A g \in Files : (Exists(g) => Exists(g)') /\ files[g].version <= files'[g].version
  <2>1. files[f].version <= files'[f].version
    BY <1>0 DEF Published
  <2> QED BY <1>0, <2>1 DEF Exists, Published
<1>3. VersionChain'
  <2>1. SUFFICES ASSUME NEW g \in Files, NEW v \in Versions
                 PROVE  /\ versions'[g][v].status # "none" <=> v <= files'[g].version
                        /\ versions'[g][v].status # "none" => versions'[g][v].base = v - 1
    BY DEF VersionChain
  <2>2. CASE g # f
    BY <2>2 DEF IInv, VersionChain, Published
  <2>3. CASE g = f /\ v = n
    BY <1>0, <2>3 DEF Published
  <2>4. CASE g = f /\ v # n
    <3>1. v <= n - 1 <=> v <= n
      BY <1>0, <2>4
    <3> QED BY <1>0, <2>4, <3>1 DEF IInv, VersionChain, Published, AgedTo
  <2> QED BY <2>2, <2>3, <2>4
<1>4. CurrentPointer'
  BY DEF IInv, CurrentPointer, Published
<1>5. StoredBytes'
  <2>1. SUFFICES ASSUME NEW g \in Files, NEW v \in Versions, versions'[g][v].status # "none"
                 PROVE  LET new == versions'[g][v] IN
                        /\ new.tgid \in DOMAIN objects
                        /\ objects[new.tgid].hash = new.hash
                        /\ objects[new.tgid].backend =
                             (IF new.backend = Null THEN "bot" ELSE new.backend)
                        /\ new.backend = "group" => new.locator = new.tgid
    BY DEF StoredBytes
  <2>2. CASE g # f
    BY <2>1, <2>2 DEF IInv, StoredBytes, Published
  <2>3. CASE g = f /\ v = n
    BY <2>3 DEF Published, Stored
  <2>4. CASE g = f /\ v # n
    BY <2>1, <2>4 DEF IInv, StoredBytes, Published, AgedTo
  <2> QED BY <2>2, <2>3, <2>4
<1>6. RecentVersionsKept'
  <2>1. SUFFICES ASSUME NEW g \in Files, NEW v \in Versions, versions'[g][v].status = "expired"
                 PROVE  v < files'[g].version - 1
    BY DEF RecentVersionsKept
  <2>2. CASE g # f
    BY <2>1, <2>2 DEF IInv, RecentVersionsKept, Published
  <2>3. CASE g = f
    <3>1. v # n
      BY <2>1, <2>3 DEF Published
    <3>2. versions[f][v].status = "expired" \/ v <= n - 2
      BY <2>1, <2>3, <3>1 DEF Published, AgedTo
    <3>3. v < n - 1
      BY <1>0, <3>2 DEF IInv, RecentVersionsKept, Published
    <3> QED BY <2>3, <3>3 DEF Published
  <2> QED BY <2>2, <2>3
<1>7. RestoredCopiesSource'
  <2>1. SUFFICES ASSUME NEW g \in Files, NEW v \in Versions,
                        versions'[g][v].status # "none", versions'[g][v].restored # 0
                 PROVE  LET new == versions'[g][v] IN
                        new.restored < v /\ new.hash = versions'[g][new.restored].hash
    BY DEF RestoredCopiesSource
  <2>2. CASE g # f
    BY <2>1, <2>2 DEF IInv, RestoredCopiesSource, Published
  <2>3. CASE g = f
    <3> DEFINE s == versions'[f][v].restored
    <3>1. s < v /\ versions'[f][v].hash = versions[f][s].hash /\ s \in Versions
      <4>1. versions'[f][v] \in VersionRow /\ s \in 0..MaxVersion
        BY DEF Published, VersionRow
      <4>2. s < v /\ versions'[f][v].hash = versions[f][s].hash
        BY <2>1, <2>3 DEF IInv, RestoredCopiesSource, Published, AgedTo
      <4> QED BY <2>1, <2>3, <4>1, <4>2, BoundAssumption DEF Versions
    <3>2. CASE s # n
      BY <2>3, <3>1, <3>2 DEF Published, AgedTo
    <3>3. CASE s = n
      \* A source is older than its copy, and v would be newer than n.
      BY <1>0, <1>3, <2>1, <2>3, <3>1, <3>3 DEF VersionChain, Published
    <3> QED BY <3>2, <3>3
  <2> QED BY <2>2, <2>3
<1>8. UniqueActivePath'
  <2>1. SUFFICES ASSUME NEW g \in Files, NEW h \in Files, g # h,
                        files'[g].status = "active", files'[h].status = "active"
                 PROVE  files'[g].path # files'[h].path
    BY DEF UniqueActivePath
  <2>2. CASE f \notin {g, h}
    BY <2>1, <2>2 DEF IInv, UniqueActivePath, Published
  <2>3. CASE f \in {g, h}
    BY <2>1, <2>3 DEF Published, PathFree
  <2> QED BY <2>2, <2>3
<1>9. OriginsApart'
  <2>1. \A k \in Keys : intents[k].status # "none" => intents'[k].status # "none"
    BY DEF Completed
  <2>2. SUFFICES ASSUME NEW g \in Files, NEW v \in Versions, versions'[g][v].status # "none",
                        objects[versions'[g][v].tgid].origin \in Keys
                 PROVE  LET i == intents'[objects[versions'[g][v].tgid].origin] IN
                        i.status # "none" /\ i.file = g /\ v = i.base + 1
    BY SMTT(60) DEF OriginsApart
  <2>3. CASE g # f
    BY <2>1, <2>2, <2>3, SMTT(60) DEF IInv, OriginsApart, Published, Completed
  <2>4. CASE g = f /\ v = n
    BY <2>1, <2>2, <2>4 DEF Published, Completed
  <2>5. CASE g = f /\ v # n
    BY <2>1, <2>2, <2>5, SMTT(60) DEF IInv, OriginsApart, Published, Completed, AgedTo
  <2> QED BY <2>3, <2>4, <2>5
<1>10. IntentsOK'
  <2>1. SUFFICES ASSUME NEW k \in Keys PROVE IntentOK(k)'
    BY DEF IntentsOK
  <2>2. IntentOK(k)
    BY DEF IInv, IntentsOK
  <2>3. intents[k].status # "none" =>
          /\ files'[intents[k].file].status # "none"
          /\ intents[k].base <= files'[intents[k].file].version
    <3>1. intents[k] \in IntentRow
      BY DEF IInv, TypeOK
    <3>2. intents[k].base \in Nat
      BY <3>1, BoundAssumption DEF IntentRow
    <3>3. ASSUME intents[k].status # "none"
          PROVE  /\ intents[k].file \in Files /\ Exists(intents[k].file)
                 /\ intents[k].base <= files[intents[k].file].version
      BY <2>2, <3>3 DEF IntentOK
    <3>4. \A g \in Files : intents[k].base <= files[g].version =>
                              intents[k].base <= files'[g].version
      BY <1>0, <1>2, <3>2
    <3> QED BY <1>2, <3>3, <3>4 DEF Exists
  <2>4. intents[k].status = intents'[k].status
          \/ (intents[k].status = "uploaded" /\ intents'[k].status = "committed")
    BY DEF Completed
  <2> QED BY <2>2, <2>3, <2>4 DEF IntentOK, Stored, Exists, Completed
<1>11. CommittedHasVersion'
  <2>1. SUFFICES ASSUME NEW k \in Keys, intents'[k].status = "committed"
                 PROVE  /\ files'[intents[k].file].version > intents[k].base
                        /\ versions'[intents[k].file][intents[k].base + 1].tgid = intents[k].tgid
    BY DEF CommittedHasVersion, Completed
  <2>2. intents[k].base \in Nat /\ n - 1 \in Nat /\ n \in Nat
    <3>1. intents[k] \in IntentRow
      BY DEF IInv, TypeOK
    <3> QED BY <1>0, <3>1, BoundAssumption DEF IntentRow
  <2>3. CASE intents[k].status = "committed"
    <3>1. /\ files[intents[k].file].version > intents[k].base
          /\ versions[intents[k].file][intents[k].base + 1].tgid = intents[k].tgid
          /\ intents[k].file \in Files /\ intents[k].base < MaxVersion
      BY <2>3 DEF IInv, CommittedHasVersion, IntentsOK, IntentOK
    <3>2. CASE intents[k].file # f
      BY <3>1, <3>2 DEF Published
    <3>3. CASE intents[k].file = f
      <4>1. intents[k].base + 1 \in Versions \ {n}
        BY <2>2, <3>1, <3>3, BoundAssumption DEF Published, Versions
      <4>2. files'[f].version > intents[k].base
        BY <2>2, <3>1, <3>3 DEF Published
      <4> QED BY <3>1, <3>3, <4>1, <4>2 DEF Published, AgedTo
    <3> QED BY <3>2, <3>3
  <2>4. CASE intents[k].status # "committed"
    BY <2>1, <2>2, <2>4 DEF Published, Completed
  <2> QED BY <2>3, <2>4
<1>12. Grows
  <2>1. ASSUME NEW g \in Files, NEW v \in Versions, v <= files[g].version
        PROVE  versions'[g][v].hash = versions[g][v].hash
    <3>1. CASE g # f
      BY <3>1 DEF Published
    <3>2. CASE g = f
      BY <1>0, <2>1, <3>2 DEF Published, AgedTo
    <3> QED BY <3>1, <3>2
  <2>2. ASSUME NEW k \in Keys
        PROVE  /\ intents[k].status # "none" =>
                     /\ intents'[k].status # "none"
                     /\ intents'[k].hash = intents[k].hash
                     /\ intents'[k].backend = intents[k].backend
               /\ intents[k].tgid # 0 => intents'[k].tgid # 0
    BY DEF Completed
  <2> QED BY <1>2, <2>1, <2>2 DEF Grows
<1>13. SourcesOK'
  <2>1. \A k \in Keys : intents'[k].restored # 0 => intents'[k].status # "none"
    BY DEF IInv, SourcesOK, Completed
  <2> QED BY <1>12, <2>1, SourcesFrame DEF IInv, Completed
<1>14. TablesOK'
  BY <1>1, <1>3, <1>4, <1>5, <1>6, <1>7, <1>8, <1>9, <1>10, <1>11, <1>13 DEF TablesOK
<1> QED BY <1>12, <1>14

\* The batch of a commit or a restore, which ages the older rows at once.
LEMMA AgedBatch ==
    ASSUME IInv, NEW f \in Files, NEW n \in Versions, NEW row \in VersionRow,
           NEW r \in Retentions, InsertAndAge(f, n, row, r)
    PROVE  /\ versions' \in [Files -> [Versions -> VersionRow]]
           /\ versions'[f][n] = row
           /\ \A v \in Versions \ {n} : AgedTo(versions[f][v], versions'[f][v], v, n)
           /\ \A g \in Files \ {f} : versions'[g] = versions[g]
<1>1. versions \in [Files -> [Versions -> VersionRow]]
  BY DEF IInv, TypeOK
<1>2. /\ versions' = [g \in Files |-> versions'[g]]
      /\ \A g \in Files \ {f} : versions'[g] = versions[g]
      /\ versions'[f] =
           [v \in Versions |-> IF v = n THEN row ELSE Aged(versions[f][v], v, n, r)]
  BY <1>1 DEF InsertAndAge
<1>3. \A v \in Versions \ {n} : AgedTo(versions[f][v], versions'[f][v], v, n)
  BY <1>1, <1>2, AgedIsAgedTo
<1>4. versions'[f] \in [Versions -> VersionRow]
  BY <1>2, <1>3 DEF AgedTo
<1> QED BY <1>1, <1>2, <1>3, <1>4

\* The batch of a commit publishes the version after the base of its intent.
LEMMA CommitApplyInv ==
    ASSUME IInv, NEW c \in commits, CommitApply(c)
    PROVE  IInv' /\ Publishes
<1> DEFINE k0 == c.key
           i == intents[k0]
           f == i.file
           n == i.base + 1
           row == [status |-> "active", hash |-> i.hash, tgid |-> i.tgid,
                   backend |-> i.backend, locator |-> i.tgid, base |-> i.base,
                   restored |-> i.restored]
<1>1. /\ k0 \in Keys /\ i \in IntentRow /\ i.tgid # 0 /\ i.status # "none"
      /\ f \in Files /\ Exists(f) /\ i.base < MaxVersion /\ i.name \in Paths
      /\ i.hash \in Hashes /\ i.backend \in Backends
      /\ Stored(i.tgid, i.hash, i.backend)
      /\ i.backend = "bot" => objects[i.tgid].origin = k0
      /\ i.restored # 0 => i.restored <= i.base /\ versions[f][i.restored].hash = i.hash
  <2>1. k0 \in Keys /\ i \in IntentRow /\ i.tgid # 0
    BY DEF IInv, TypeOK, HandlersOK, CommitsOK
  <2> QED BY <2>1 DEF IInv, IntentsOK, IntentOK, SourcesOK
<1>2. /\ i.base \in 0..MaxVersion /\ i.base \in Nat /\ i.tgid \in ObjectId /\ n \in Versions
      /\ i.restored \in 0..MaxVersion
  BY <1>1, BoundAssumption DEF IntentRow, Versions
<1>3. /\ UNCHANGED <<objects, preflights, uploads, restores, imports, agings>>
      /\ commits' \subseteq commits /\ files[f].version = n - 1 /\ PathFree(f, files[f].path)
  BY <1>2 DEF CommitApply
<1>4. row \in VersionRow
  BY <1>1, <1>2, BoundAssumption DEF VersionRow, VersionStatus
<1>5. PICK r \in Retentions : InsertAndAge(f, n, row, r)
  BY DEF CommitApply
<1>6. /\ files' \in [Files -> FileRow]
      /\ \A g \in Files \ {f} : files'[g] = files[g]
      /\ files'[f].status = "active" /\ files'[f].version = n
      /\ files'[f].hash = i.hash /\ files'[f].tgid = i.tgid
      /\ files'[f].path = files[f].path /\ files[f].path \in Paths
  <2> DEFINE new == [status |-> "active", version |-> n, hash |-> i.hash, tgid |-> i.tgid,
                     backend |-> i.backend, locator |-> i.tgid, path |-> files[f].path,
                     name |-> i.name]
  <2>1. files[f].path \in Paths
    BY <1>1 DEF IInv, FilesOK
  <2>2. n \in 0..MaxVersion
    BY <1>2, BoundAssumption DEF Versions
  <2>3. new \in FileRow
    BY <1>1, <1>2, <2>1, <2>2 DEF FileRow, FileStatus
  <2>4. files' = [files EXCEPT ![f] = new] /\ files \in [Files -> FileRow]
    BY DEF CommitApply, IInv, TypeOK
  <2> QED BY <1>1, <2>1, <2>3, <2>4
<1>7. Published(f, n, row)
  <2>1. /\ row.status = "active" /\ row.hash = i.hash /\ row.tgid = i.tgid
        /\ row.base = n - 1 /\ row.locator = row.tgid
    BY <1>2
  <2> HIDE DEF row
  <2> QED BY <1>1, <1>2, <1>3, <1>4, <1>5, <1>6, <2>1, AgedBatch DEF Published, PathFree
<1>8. /\ intents' = [k \in Keys |-> intents'[k]]
      /\ \A k \in Keys \ {k0} : intents'[k] = intents[k]
      /\ intents'[k0].file = i.file /\ intents'[k0].name = i.name
      /\ intents'[k0].base = i.base /\ intents'[k0].hash = i.hash
      /\ intents'[k0].backend = i.backend /\ intents'[k0].tgid = i.tgid
      /\ intents'[k0].restored = i.restored
      /\ intents'[k0].status = (IF i.status = "uploaded" THEN "committed" ELSE i.status)
      /\ intents'[k0] \in IntentRow
  <2> DEFINE s == IF i.status = "uploaded" THEN "committed" ELSE i.status
  <2>1. intents' = [intents EXCEPT ![k0].status = s]
    BY DEF CommitApply
  <2>2. s \in IntentStatus
    BY <1>1 DEF IntentRow, IntentStatus
  <2> HIDE DEF s
  <2>3. intents \in [Keys -> IntentRow]
    BY DEF IInv, TypeOK
  <2>4. /\ intents' = [k \in Keys |-> intents'[k]]
        /\ \A k \in Keys \ {k0} : intents'[k] = intents[k]
        /\ intents'[k0] = [intents[k0] EXCEPT !.status = s]
    BY <1>1, <2>1, <2>3
  <2>5. /\ intents'[k0].file = i.file /\ intents'[k0].name = i.name
        /\ intents'[k0].base = i.base /\ intents'[k0].hash = i.hash
        /\ intents'[k0].backend = i.backend /\ intents'[k0].tgid = i.tgid
        /\ intents'[k0].restored = i.restored /\ intents'[k0].status = s
        /\ intents'[k0] \in IntentRow
    BY <1>1, <2>2, <2>4 DEF IntentRow
  <2> QED BY <2>4, <2>5 DEF s
<1>9. Completed(f, n, row)
  BY <1>1, <1>2, <1>8 DEF Completed
<1>10. TypeOK'
  <2>1. intents' \in [Keys -> IntentRow]
    BY <1>1, <1>8 DEF IInv, TypeOK
  <2> QED BY <1>3, <1>6, <1>7, <2>1 DEF IInv, TypeOK, Published
<1>11. TablesOK' /\ Grows
  <2>1. Stored(row.tgid, row.hash, IF row.backend = Null THEN "bot" ELSE row.backend)
    BY <1>1, NullAssumption DEF Backends
  <2>2. objects[row.tgid].origin \in Keys => objects[row.tgid].origin = k0
    BY <1>1, KeysAssumption DEF Stored, Backends, IInv, ObjectsOK
  <2>3. row.restored # 0 => row.restored < n /\ row.hash = versions[f][row.restored].hash
    BY <1>1, <1>2
  <2> HIDE DEF row
  <2> QED BY <1>1, <1>2, <1>3, <1>4, <1>7, <1>9, <2>1, <2>2, <2>3, PublishedTables
<1>12. HandlersOK'
  BY <1>3, <1>10, <1>11, HandlersFrame DEF IInv, HandlersOK
<1>13. Publishes
  BY <1>1, <1>2, <1>4, <1>7 DEF Publishes
<1> QED BY <1>3, <1>10, <1>11, <1>12, <1>13 DEF IInv, TablesOK, ObjectsOK

\* The batch of a restore publishes a copy of its source.
LEMMA RestoreApplyInv ==
    ASSUME IInv, NEW x \in restores, RestoreApply(x)
    PROVE  IInv' /\ Publishes
<1> DEFINE f == x.file
           n == x.base + 1
           row == [status |-> "active", hash |-> x.hash, tgid |-> x.object, backend |-> Null,
                   locator |-> 0, base |-> x.base, restored |-> x.source]
<1>1. /\ f \in Files /\ x.base \in 0..MaxVersion /\ x.source \in Versions
      /\ x.hash \in Hashes /\ x.object \in ObjectId
      /\ Exists(f) /\ x.base < MaxVersion /\ x.source <= x.base
      /\ x.hash = versions[f][x.source].hash
      /\ Stored(x.object, x.hash, "bot") /\ objects[x.object].origin = "clone"
  BY DEF IInv, TypeOK, HandlersOK, RestoresOK
<1>2. /\ x.base \in Nat /\ x.source \in Nat /\ n \in Versions /\ x.source < n
      /\ n \in 0..MaxVersion /\ x.source \in 0..MaxVersion
  BY <1>1, BoundAssumption DEF Versions
<1>3. /\ UNCHANGED <<intents, objects, preflights, uploads, commits, imports, agings>>
      /\ restores' \subseteq restores /\ files[f].version = n - 1
      /\ PathFree(f, files[f].path)
  BY <1>2 DEF RestoreApply, RestoredRow
<1>4. row \in VersionRow
  BY <1>1, <1>2, BoundAssumption DEF VersionRow, VersionStatus, ObjectId
<1>5. PICK r \in Retentions : InsertAndAge(f, n, row, r)
  BY DEF RestoreApply, RestoredRow
<1>6. /\ files' \in [Files -> FileRow]
      /\ \A g \in Files \ {f} : files'[g] = files[g]
      /\ files'[f].status = "active" /\ files'[f].version = n
      /\ files'[f].hash = x.hash /\ files'[f].tgid = x.object
      /\ files'[f].path = files[f].path /\ files[f].path \in Paths
  <2>1. files' = [files EXCEPT ![f].status = "active", ![f].version = n,
                               ![f].hash = x.hash, ![f].tgid = x.object]
    BY DEF RestoreApply, RestoredRow
  <2>2. files \in [Files -> FileRow] /\ files[f].path \in Paths
    BY <1>1 DEF IInv, TypeOK, FilesOK
  <2>3. "active" \in FileStatus
    BY DEF FileStatus
  <2>4. /\ files' = [g \in Files |-> files'[g]]
        /\ \A g \in Files \ {f} : files'[g] = files[g]
        /\ files'[f] = [files[f] EXCEPT !.status = "active", !.version = n,
                                        !.hash = x.hash, !.tgid = x.object]
    BY <1>1, <2>1, <2>2
  <2>5. /\ files'[f] \in FileRow /\ files'[f].status = "active" /\ files'[f].version = n
        /\ files'[f].hash = x.hash /\ files'[f].tgid = x.object
        /\ files'[f].path = files[f].path
    <3> DEFINE old == files[f]
               new == [status |-> "active", version |-> n, hash |-> x.hash, tgid |-> x.object,
                       backend |-> old.backend, locator |-> old.locator,
                       path |-> old.path, name |-> old.name]
    <3>1. old \in FileRow
      BY <1>1, <2>2
    <3>2. files'[f] = new
      BY <2>4, <3>1 DEF FileRow
    <3>3. new \in FileRow
      BY <1>1, <1>2, <2>3, <3>1 DEF FileRow
    <3> QED BY <3>2, <3>3
  <2> QED BY <2>2, <2>4, <2>5
<1>7. Published(f, n, row)
  BY <1>1, <1>2, <1>3, <1>4, <1>5, <1>6, AgedBatch, NullAssumption DEF Published, PathFree
<1>8. Completed(f, n, row)
  BY <1>3 DEF Completed
<1>9. TypeOK'
  BY <1>3, <1>6, <1>7 DEF IInv, TypeOK, Published
<1>10. TablesOK' /\ Grows
  <2>1. /\ Stored(row.tgid, row.hash, IF row.backend = Null THEN "bot" ELSE row.backend)
        /\ objects[row.tgid].origin \notin Keys
    BY <1>1, KeysAssumption
  <2>2. row.restored < n /\ row.hash = versions[f][row.restored].hash
    BY <1>1, <1>2
  <2> HIDE DEF row
  <2> QED BY <1>1, <1>2, <1>3, <1>4, <1>7, <1>8, <2>1, <2>2, PublishedTables
<1>11. HandlersOK'
  BY <1>3, <1>9, <1>10, HandlersFrame DEF IInv, HandlersOK
<1>12. Publishes
  BY <1>1, <1>2, <1>4, <1>7 DEF Publishes
<1> QED BY <1>3, <1>9, <1>10, <1>11, <1>12 DEF IInv, TablesOK, ObjectsOK

\* The clone of a version holds the bytes of that version.
LEMMA RestoreCloneInv ==
    ASSUME IInv, NEW f \in Files, NEW s \in Versions, RestoreClone(f, s)
    PROVE  IInv'
<1> PICK id : id = Sent
  OBVIOUS
<1> DEFINE src == versions[f][s]
           x0 == [file |-> f, base |-> files[f].version, source |-> s, hash |-> src.hash,
                  object |-> id]
<1>1. /\ Exists(f) /\ files[f].version < MaxVersion /\ src.status # "none"
      /\ Send("bot", objects[src.tgid].hash, "clone")
      /\ restores' = restores \cup {x0}
      /\ UNCHANGED <<tables, preflights, uploads, commits, imports, agings>>
  BY DEF RestoreClone, Clone
<1>2. /\ src.tgid \in DOMAIN objects /\ objects[src.tgid].hash = src.hash
      /\ src.hash \in Hashes /\ s <= files[f].version
      /\ files[f].version \in 0..MaxVersion
  <2>1. /\ src.tgid \in DOMAIN objects /\ objects[src.tgid].hash = src.hash
        /\ s <= files[f].version
    BY <1>1 DEF IInv, StoredBytes, VersionChain
  <2>2. objects[src.tgid] \in Object /\ files[f] \in FileRow
    BY <2>1 DEF IInv, TypeOK
  <2> QED BY <2>1, <2>2 DEF Object, FileRow
<1>3. /\ objects' \in Seq(Object) /\ ObjectsOK'
      /\ id \in ObjectId /\ id \in DOMAIN objects'
      /\ objects'[id] = [backend |-> "bot", hash |-> src.hash, origin |-> "clone"]
      /\ DOMAIN objects \subseteq DOMAIN objects'
      /\ \A o \in DOMAIN objects : objects'[o] = objects[o]
  BY <1>1, <1>2, SendGrows DEF IInv, TypeOK, Backends, Origins
<1>4. TablesOK' /\ Grows
  BY <1>1, <1>3, TablesFrameSend DEF IInv, TablesOK
<1>5. TypeOK'
  <2>1. x0 \in [file : Files, base : 0..MaxVersion, source : Versions, hash : Hashes,
                object : ObjectId]
    BY <1>2, <1>3
  <2> QED BY <1>1, <1>3, <2>1 DEF IInv, TypeOK, tables
<1>6. RestoresOK'
  <2>1. ASSUME NEW x \in restores
        PROVE  /\ files'[x.file].status # "none" /\ x.base < MaxVersion
               /\ x.source <= x.base /\ x.base <= files'[x.file].version
               /\ x.hash = versions'[x.file][x.source].hash
               /\ x.object \in DOMAIN objects' /\ objects'[x.object].hash = x.hash
               /\ objects'[x.object].backend = "bot" /\ objects'[x.object].origin = "clone"
    BY <1>1, <1>3 DEF IInv, HandlersOK, RestoresOK, Stored, Exists, tables
  <2>2. /\ files'[x0.file].status # "none" /\ x0.base < MaxVersion
        /\ x0.source <= x0.base /\ x0.base <= files'[x0.file].version
        /\ x0.hash = versions'[x0.file][x0.source].hash
        /\ x0.object \in DOMAIN objects' /\ objects'[x0.object].hash = x0.hash
        /\ objects'[x0.object].backend = "bot" /\ objects'[x0.object].origin = "clone"
    BY <1>1, <1>2, <1>3 DEF Exists, tables
  <2> QED BY <1>1, <2>1, <2>2 DEF RestoresOK, Stored, Exists
<1>7. HandlersOK'
  BY <1>1, <1>4, <1>5, <1>6, HandlersFrame DEF IInv, HandlersOK
<1> QED BY <1>3, <1>4, <1>5, <1>7 DEF IInv, TablesOK

-----------------------------------------------------------------------------
(* Imports                                                                 *)

\* importTelegramDocument, reading: the document is a stored message of the bot.
LEMMA ImportReadInv ==
    ASSUME IInv, NEW o \in DOMAIN objects, NEW f \in Files, NEW p \in Paths, ImportRead(o, f, p)
    PROVE  IInv'
<1> DEFINE x0 == [file |-> f, path |-> p, base |-> files[f].version, hash |-> objects[o].hash,
                  object |-> o, fresh |-> files[f].status = "none"]
<1>1. /\ objects[o].origin = "chat" /\ imports' = imports \cup {x0}
      /\ UNCHANGED <<tables, objects, preflights, uploads, commits, restores, agings>>
      /\ files[f].status # "none" => files[f].version < MaxVersion
  BY DEF ImportRead
<1>2. /\ objects[o] \in Object /\ objects[o].hash \in Hashes /\ objects[o].backend = "bot"
      /\ o \in ObjectId
      /\ files[f].version \in 0..MaxVersion /\ files[f].version \in Nat
      /\ files[f].status = "none" => files[f].version = 0
  <2>1. objects[o] \in Object /\ files[f] \in FileRow
    BY DEF IInv, TypeOK
  <2>2. objects[o].backend = "bot"
    <3>1. objects[o].backend # "group"
      BY <1>1 DEF IInv, ObjectsOK
    <3> QED BY <2>1, <3>1 DEF Object, Backends
  <2>3. o \in 1..Len(objects) /\ Len(objects) \in Nat /\ Len(objects) <= MaxObjects
    BY DEF IInv, TypeOK, ObjectsOK
  <2>4. o \in ObjectId
    BY <2>3, BoundAssumption DEF ObjectId
  <2> QED
    BY <2>1, <2>2, <2>4, BoundAssumption DEF Object, FileRow, IInv, ObjectsOK, FilesOK, Exists
<1>3. TablesOK' /\ ObjectsOK'
  BY <1>1, TablesFrame DEF IInv, TablesOK
<1>4. TypeOK'
  <2>1. x0 \in [file : Files, path : Paths, base : 0..MaxVersion, hash : Hashes,
                object : ObjectId, fresh : BOOLEAN]
    BY <1>2
  <2> HIDE DEF x0
  <2> QED BY <1>1, <2>1 DEF IInv, TypeOK, tables
<1>5. ImportsOK'
  <2>1. /\ Stored(x0.object, x0.hash, "bot") /\ objects[x0.object].origin = "chat"
        /\ x0.fresh => x0.base = 0
        /\ ~x0.fresh => /\ Exists(x0.file) /\ x0.base < MaxVersion
                        /\ x0.base <= files[x0.file].version
    <3>1. Stored(x0.object, x0.hash, "bot") /\ objects[x0.object].origin = "chat"
      BY <1>1, <1>2 DEF Stored
    <3>2. x0.fresh = (files[f].status = "none")
      BY Zenon
    <3>3. x0.base = files[f].version /\ x0.file = f
      OBVIOUS
    <3> HIDE DEF x0
    <3>4. CASE files[f].status = "none"
      <4>1. x0.fresh = TRUE
        BY <3>2, <3>4, Zenon
      <4> QED BY <1>2, <3>1, <3>3, <3>4, <4>1
    <3>5. CASE files[f].status # "none"
      <4>1. x0.fresh = FALSE
        BY <3>2, <3>5, Zenon
      <4>2. Exists(x0.file) /\ x0.base < MaxVersion /\ x0.base <= files[x0.file].version
        BY <1>1, <1>2, <3>3, <3>5 DEF Exists
      <4> QED BY <3>1, <4>1, <4>2
    <3> QED BY <3>4, <3>5
  <2> HIDE DEF x0
  <2> QED BY <1>1, <2>1 DEF IInv, HandlersOK, ImportsOK, Stored, Exists, tables
<1>6. HandlersOK'
  BY <1>1, <1>5 DEF IInv, HandlersOK, PreflightsOK, UploadsOK, CommitsOK, RestoresOK, AgingsOK,
                    tables, Exists, Stored
<1> QED BY <1>3, <1>4, <1>6 DEF IInv, TablesOK

\* The late ageing of an import expires none of the two newest versions.
LEMMA ImportAgeInv ==
    ASSUME IInv, NEW a \in agings, ImportAge(a)
    PROVE  IInv'
<1> DEFINE f == a.file
           n == a.version
<1>1. f \in Files /\ n \in Versions /\ n <= files[f].version
  BY DEF IInv, TypeOK, HandlersOK, AgingsOK
<1>2. \A g \in Files : files[g].version \in Nat
  BY BoundAssumption DEF IInv, TypeOK, FileRow
<1>3. /\ UNCHANGED <<files, intents, objects, preflights, uploads, commits, restores, imports>>
      /\ agings' \subseteq agings
  BY DEF ImportAge
<1>4. /\ versions' \in [Files -> [Versions -> VersionRow]]
      /\ \A v \in Versions : AgedTo(versions[f][v], versions'[f][v], v, n)
      /\ \A g \in Files \ {f} : versions'[g] = versions[g]
  <2>1. PICK r \in Retentions :
            versions' = [versions EXCEPT ![f] =
                [v \in Versions |-> Aged(versions[f][v], v, n, r)]]
    BY DEF ImportAge
  <2>2. versions \in [Files -> [Versions -> VersionRow]]
    BY DEF IInv, TypeOK
  <2>3. \A v \in Versions : AgedTo(versions[f][v], versions'[f][v], v, n)
    BY <1>1, <2>1, <2>2, AgedIsAgedTo
  <2> QED BY <1>1, <2>1, <2>2, <2>3 DEF AgedTo
<1>5. TypeOK'
  BY <1>3, <1>4 DEF IInv, TypeOK
\* But for the status, every row is what it was.
<1>6. \A g \in Files, v \in Versions :
          LET old == versions[g][v]
              new == versions'[g][v] IN
          /\ new.hash = old.hash /\ new.tgid = old.tgid
          /\ new.backend = old.backend /\ new.locator = old.locator
          /\ new.base = old.base /\ new.restored = old.restored
          /\ new.status = "none" <=> old.status = "none"
          /\ new.status = "expired" => old.status = "expired" \/ (g = f /\ v <= n - 2)
  BY <1>1, <1>4 DEF AgedTo
<1>7. FilesOK' /\ IntentsOK' /\ UniqueActivePath'
  BY <1>3 DEF IInv, FilesOK, IntentsOK, IntentOK, UniqueActivePath, Exists, Stored
<1>8. VersionChain' /\ StoredBytes' /\ OriginsApart'
  BY <1>3, <1>6, SMTT(60) DEF IInv, VersionChain, StoredBytes, OriginsApart
<1>9. CurrentPointer'
  <2>1. \A g \in Files : files[g].version > 0 => files[g].version \in Versions
    BY BoundAssumption DEF IInv, TypeOK, FileRow, Versions
  <2> QED BY <1>3, <1>6, <2>1 DEF IInv, CurrentPointer
<1>10. RecentVersionsKept'
  <2>1. \A v \in Versions : v <= n - 2 => v < files[f].version - 1
    BY <1>1, <1>2, BoundAssumption DEF Versions
  <2> QED BY <1>3, <1>6, <2>1 DEF IInv, RecentVersionsKept
<1>11. RestoredCopiesSource'
  <2>1. SUFFICES ASSUME NEW g \in Files, NEW v \in Versions,
                        versions'[g][v].status # "none", versions'[g][v].restored # 0
                 PROVE  LET new == versions'[g][v] IN
                        new.restored < v /\ new.hash = versions'[g][new.restored].hash
    BY DEF RestoredCopiesSource
  <2> DEFINE s == versions[g][v].restored
  <2>2. s < v /\ versions[g][v].hash = versions[g][s].hash /\ s # 0
    BY <1>6, <2>1 DEF IInv, RestoredCopiesSource
  <2>3. s \in Versions
    <3>1. versions[g][v] \in VersionRow
      BY DEF IInv, TypeOK
    <3>2. s \in 0..MaxVersion
      BY <3>1 DEF VersionRow
    <3> QED BY <2>2, <3>2, BoundAssumption DEF Versions
  <2> QED BY <1>6, <2>2, <2>3
<1>12. CommittedHasVersion'
  <2>1. \A k \in Keys : intents[k].status = "committed" =>
            intents[k].file \in Files /\ intents[k].base + 1 \in Versions
    <3>1. \A k \in Keys : intents[k].base \in Nat
      BY BoundAssumption DEF IInv, TypeOK, IntentRow
    <3> QED BY <3>1, BoundAssumption DEF IInv, IntentsOK, IntentOK, Versions
  <2> QED BY <1>3, <1>6, <2>1 DEF IInv, CommittedHasVersion
<1>13. Grows
  BY <1>2, <1>3, <1>6 DEF IInv, IntentsOK, IntentOK, Grows, Exists
<1>14. SourcesOK'
  BY <1>3, <1>13, SourcesFrame DEF IInv, SourcesOK
<1>15. HandlersOK'
  BY <1>3, <1>5, <1>13, HandlersFrame DEF IInv, HandlersOK
<1> QED
  BY <1>3, <1>5, <1>7, <1>8, <1>9, <1>10, <1>11, <1>12, <1>14, <1>15 DEF IInv, ObjectsOK

\* A batch that writes a row and ages none.
LEMMA InsertBatch ==
    ASSUME IInv, NEW f \in Files, NEW n \in Versions, NEW row \in VersionRow,
           InsertVersion(f, n, row)
    PROVE  /\ versions' \in [Files -> [Versions -> VersionRow]]
           /\ versions'[f][n] = row
           /\ \A v \in Versions \ {n} : AgedTo(versions[f][v], versions'[f][v], v, n)
           /\ \A g \in Files \ {f} : versions'[g] = versions[g]
BY DEF IInv, TypeOK, InsertVersion, AgedTo

\* An import publishes the document, with the ageing of older rows to come.
LEMMA ImportedInv ==
    ASSUME IInv, NEW x \in imports, NEW f \in Files, NEW n \in Versions,
           f = x.file, n = x.base + 1, files[f].version = n - 1,
           InsertVersion(f, n, ImportedRow(x)),
           files' \in [Files -> FileRow],
           \A g \in Files \ {f} : files'[g] = files[g],
           files'[f].status = "active", files'[f].version = n,
           files'[f].hash = x.hash, files'[f].tgid = x.object,
           files'[f].path = x.path, PathFree(f, x.path),
           imports' \subseteq imports,
           agings' = agings \cup {[file |-> f, version |-> n]},
           UNCHANGED <<intents, objects, preflights, uploads, commits, restores>>
    PROVE  IInv' /\ Publishes
<1> DEFINE row == ImportedRow(x)
<1>1. /\ x.base \in 0..MaxVersion /\ x.hash \in Hashes /\ x.path \in Paths
      /\ x.object \in ObjectId
      /\ Stored(x.object, x.hash, "bot") /\ objects[x.object].origin = "chat"
  BY DEF IInv, TypeOK, HandlersOK, ImportsOK
<1>2. x.base \in Nat /\ n \in Nat /\ x.base = n - 1
  BY <1>1, BoundAssumption DEF Versions
<1>3. row \in VersionRow
  BY <1>1, BoundAssumption DEF ImportedRow, VersionRow, VersionStatus, ObjectId
<1>4. /\ row.status = "active" /\ row.hash = x.hash /\ row.tgid = x.object
      /\ row.backend = Null /\ row.backend # "group" /\ row.base = n - 1 /\ row.restored = 0
  BY <1>2, NullAssumption DEF ImportedRow
<1> HIDE DEF row
<1>5. Published(f, n, row)
  BY <1>1, <1>2, <1>3, <1>4, InsertBatch DEF Published, PathFree, row
<1>6. Completed(f, n, row)
  BY DEF Completed
<1>7. TypeOK'
  <2>1. [file |-> f, version |-> n] \in [file : Files, version : Versions]
    OBVIOUS
  <2> QED BY <1>5, <2>1 DEF IInv, TypeOK, Published
<1>8. TablesOK' /\ Grows
  <2>1. /\ Stored(row.tgid, row.hash, IF row.backend = Null THEN "bot" ELSE row.backend)
        /\ objects[row.tgid].origin \notin Keys
    BY <1>1, <1>4, KeysAssumption
  <2> QED BY <1>3, <1>4, <1>5, <1>6, <2>1, PublishedTables
<1>9. AgingsOK'
  <2>1. \A g \in Files : /\ files[g].version <= files'[g].version
                         /\ files[g].version \in Nat /\ files'[g].version \in Nat
    BY <1>8, BoundAssumption DEF Grows, IInv, TypeOK, FileRow
  <2>2. ASSUME NEW a \in agings PROVE a.version <= files'[a.file].version
    <3>1. a.file \in Files /\ a.version \in Nat /\ a.version <= files[a.file].version
      BY BoundAssumption DEF IInv, TypeOK, HandlersOK, AgingsOK, Versions
    <3> QED BY <2>1, <3>1
  <2> QED BY <1>2, <2>2 DEF AgingsOK
<1>10. HandlersOK'
  BY <1>7, <1>8, <1>9, HandlersFrame DEF IInv, HandlersOK
<1>11. Publishes
  BY <1>3, <1>5 DEF Publishes
<1> QED BY <1>7, <1>8, <1>10, <1>11 DEF IInv, TablesOK, ObjectsOK

\* An import to a free path creates a file at version 1.
LEMMA ImportCreateInv ==
    ASSUME IInv, NEW x \in imports, ImportCreate(x)
    PROVE  IInv' /\ Publishes
<1> DEFINE f == x.file
           new == ImportedFile(x, NoFile)
<1>1. /\ f \in Files /\ x.base = 0 /\ x.hash \in Hashes /\ x.path \in Paths
      /\ x.object \in ObjectId /\ MaxVersion >= 1
      /\ files[f].status = "none" /\ files[f].version = 0
  BY DEF IInv, TypeOK, HandlersOK, ImportsOK, FilesOK, Exists, ImportCreate
<1>2. 1 \in Versions /\ 1 = x.base + 1 /\ files[f].version = 1 - 1
  BY <1>1, BoundAssumption DEF Versions
<1>3. /\ new \in FileRow
      /\ new.status = "active" /\ new.version = 1
      /\ new.hash = x.hash /\ new.tgid = x.object /\ new.path = x.path
  BY <1>1, BoundAssumption DEF ImportedFile, NoFile, FileRow, FileStatus, ObjectId
<1>4. files' = [files EXCEPT ![f] = new]
  BY DEF ImportCreate
<1> HIDE DEF new
<1>5. /\ files' \in [Files -> FileRow]
      /\ \A g \in Files \ {f} : files'[g] = files[g]
      /\ files'[f].status = "active" /\ files'[f].version = 1
      /\ files'[f].hash = x.hash /\ files'[f].tgid = x.object /\ files'[f].path = x.path
  BY <1>1, <1>3, <1>4 DEF IInv, TypeOK
<1>6. /\ InsertVersion(f, 1, ImportedRow(x)) /\ PathFree(f, x.path)
      /\ imports' \subseteq imports
      /\ agings' = agings \cup {[file |-> f, version |-> 1]}
      /\ UNCHANGED <<intents, objects, preflights, uploads, commits, restores>>
  BY DEF ImportCreate
<1> QED BY <1>1, <1>2, <1>5, <1>6, ImportedInv

\* An import to a known file publishes only where its base is still current.
LEMMA ImportUpdateInv ==
    ASSUME IInv, NEW x \in imports, ImportUpdate(x)
    PROVE  IInv' /\ Publishes
<1> DEFINE f == x.file
           n == x.base + 1
<1>1. /\ f \in Files /\ x.base \in 0..MaxVersion /\ x.hash \in Hashes /\ x.path \in Paths
      /\ x.object \in ObjectId /\ x.base < MaxVersion /\ x.base <= files[f].version
      /\ files[f] \in FileRow
  BY DEF IInv, TypeOK, HandlersOK, ImportsOK, ImportUpdate
<1>2. n \in Versions /\ n \in 0..MaxVersion /\ x.base = n - 1 /\ files[f].version \in Nat
  BY <1>1, BoundAssumption DEF Versions, FileRow
\* The INSERT succeeds only where no later version exists.
<1>3. files[f].version = x.base
  <2>1. ~(n <= files[f].version)
    BY <1>1, <1>2 DEF ImportUpdate, RowFree, IInv, VersionChain
  <2> QED BY <1>1, <1>2, <2>1, BoundAssumption
<1>4. /\ files' = [files EXCEPT ![f] = ImportedFile(x, files[f])]
      /\ agings' = agings \cup {[file |-> f, version |-> n]}
      /\ PathFree(f, x.path) /\ InsertVersion(f, n, ImportedRow(x))
      /\ imports' \subseteq imports
      /\ UNCHANGED <<intents, objects, preflights, uploads, commits, restores>>
  BY <1>3 DEF ImportUpdate
<1>5. /\ files' \in [Files -> FileRow]
      /\ \A g \in Files \ {f} : files'[g] = files[g]
      /\ files'[f].status = "active" /\ files'[f].version = n
      /\ files'[f].hash = x.hash /\ files'[f].tgid = x.object /\ files'[f].path = x.path
  <2> DEFINE new == ImportedFile(x, files[f])
  <2>1. /\ new \in FileRow
        /\ new.status = "active" /\ new.version = n
        /\ new.hash = x.hash /\ new.tgid = x.object /\ new.path = x.path
    BY <1>1, <1>2 DEF ImportedFile, FileRow, FileStatus
  <2> HIDE DEF new
  <2> QED BY <1>1, <1>4, <2>1 DEF IInv, TypeOK, new
<1> QED BY <1>1, <1>2, <1>3, <1>4, <1>5, ImportedInv

-----------------------------------------------------------------------------
(* The inductive invariant                                                 *)

\* A handler that stops takes nothing with it.
LEMMA AbortInv ==
    ASSUME IInv, Abort
    PROVE  IInv'
<1>1. /\ UNCHANGED <<tables, objects>>
      /\ preflights' \subseteq preflights /\ uploads' \subseteq uploads
      /\ commits' \subseteq commits /\ restores' \subseteq restores
      /\ imports' \subseteq imports /\ agings' \subseteq agings
  BY DEF Abort
<1>2. TablesOK' /\ ObjectsOK'
  BY <1>1, TablesFrame DEF IInv, TablesOK
<1>3. TypeOK'
  BY <1>1 DEF IInv, TypeOK, tables
<1>4. HandlersOK'
  BY <1>1 DEF IInv, HandlersOK, PreflightsOK, UploadsOK, CommitsOK, RestoresOK, ImportsOK,
              AgingsOK, tables, Exists, Stored
<1> QED BY <1>2, <1>3, <1>4 DEF IInv, TablesOK

\* The empty store satisfies the invariant.
LEMMA InitIInv == Init => IInv
<1> SUFFICES ASSUME Init PROVE IInv
  OBVIOUS
<1>1. TypeOK
  <2>1. NoFile \in FileRow /\ NoVersion \in VersionRow /\ NoIntent \in IntentRow
    BY BoundAssumption DEF NoFile, NoVersion, NoIntent, FileRow, VersionRow, IntentRow,
       FileStatus, VersionStatus, IntentStatus, ObjectId
  <2>2. objects \in Seq(Object)
    BY DEF Init
  <2> QED BY <2>1, <2>2 DEF Init, TypeOK
<1>2. ObjectsOK
  BY BoundAssumption DEF Init, ObjectsOK
<1>3. HandlersOK
  BY DEF Init, HandlersOK, PreflightsOK, UploadsOK, CommitsOK, RestoresOK, ImportsOK, AgingsOK
<1>4. FilesOK /\ IntentsOK /\ SourcesOK
  BY DEF Init, FilesOK, IntentsOK, IntentOK, SourcesOK, Exists, NoFile, NoIntent
<1>5. VersionChain /\ CurrentPointer /\ RecentVersionsKept
  BY BoundAssumption
     DEF Init, VersionChain, CurrentPointer, RecentVersionsKept, NoFile, NoVersion, Versions
<1>6. StoredBytes /\ RestoredCopiesSource /\ UniqueActivePath
  BY DEF Init, StoredBytes, RestoredCopiesSource, UniqueActivePath, NoFile, NoVersion
<1>7. OriginsApart /\ CommittedHasVersion
  BY DEF Init, OriginsApart, CommittedHasVersion, NoVersion, NoIntent
<1> QED BY <1>1, <1>2, <1>3, <1>4, <1>5, <1>6, <1>7 DEF IInv

\* A step that changes nothing keeps the invariant.
LEMMA StutterIInv ==
    ASSUME IInv, UNCHANGED vars
    PROVE  IInv'
<1>1. UNCHANGED <<tables, objects, preflights, uploads, commits, restores, imports, agings>>
  BY DEF vars, handlers, tables
<1>2. TablesOK' /\ ObjectsOK'
  BY <1>1, TablesFrame DEF IInv, TablesOK
<1>3. TypeOK'
  BY <1>1 DEF IInv, TypeOK, tables
<1>4. HandlersOK'
  BY <1>1 DEF IInv, HandlersOK, PreflightsOK, UploadsOK, CommitsOK, RestoresOK, ImportsOK,
              AgingsOK, tables, Exists, Stored
<1> QED BY <1>2, <1>3, <1>4 DEF IInv, TablesOK

\* Every step of the Worker keeps the invariant.
LEMMA NextIInv == IInv /\ [Next]_vars => IInv'
<1> SUFFICES ASSUME IInv, [Next]_vars PROVE IInv'
  OBVIOUS
<1>1. CASE PreflightNext
  BY <1>1, PreflightReadInv, PreflightCreateInv, PreflightReserveInv DEF PreflightNext
<1>2. CASE UploadNext
  BY <1>2, UploadStoreInv, DocumentInv, SendReceiptInv, RecordUploadInv DEF UploadNext
<1>3. CASE CommitNext
  BY <1>3, CommitReadsInv, CommitAbandonInv, CommitApplyInv DEF CommitNext
<1>4. CASE RestoreNext
  BY <1>4, RestoreCloneInv, RestoreApplyInv DEF RestoreNext
<1>5. CASE ImportNext
  BY <1>5, DocumentInv, ImportReadInv, ImportCreateInv, ImportUpdateInv, ImportAgeInv
     DEF ImportNext
<1>6. CASE RenameNext
  BY <1>6, RenameInv DEF RenameNext
<1>7. CASE RecycleNext
  BY <1>7, RecycleInv DEF RecycleNext
<1>8. CASE Abort
  BY <1>8, AbortInv
<1>9. CASE UNCHANGED vars
  BY <1>9, StutterIInv
<1> QED BY <1>1, <1>2, <1>3, <1>4, <1>5, <1>6, <1>7, <1>8, <1>9 DEF Next

\* The inductive invariant of the version store holds in every reachable state.
THEOREM Inductive == Spec => []IInv
BY InitIInv, NextIInv, PTL DEF Spec

-----------------------------------------------------------------------------
(* What the store promises, for every instance                             *)

\* Every row, object and waiting handler keeps its type.
THEOREM TypeCorrect == Spec => []TypeOK
BY Inductive, PTL DEF IInv

\* The versions of every file form a chain without gaps.
THEOREM ChainUnbroken == Spec => []VersionChain
BY Inductive, PTL DEF IInv

\* The current pointer agrees with the newest version.
THEOREM PointerIsNewest == Spec => []CurrentPointer
BY Inductive, PTL DEF IInv

\* No version is recorded before its bytes are in Telegram.
THEOREM BytesBeforePointer == Spec => []StoredBytes
BY Inductive, PTL DEF IInv

\* The two newest versions are never expired.
THEOREM RecentKept == Spec => []RecentVersionsKept
BY Inductive, PTL DEF IInv

\* What handleVersions offers, and the two newest versions, handleVersionDownload sends with the
\* content that is shown; handleVersionIntegrityAudit has nothing to say.
THEOREM HistoryServed == Spec => []HistoryIsServed
<1>1. IInv => HistoryIsServed
  <2> SUFFICES ASSUME IInv, NEW f \in Files
               PROVE  LET n == files[f].version IN
                      /\ AuditHealthy(f)
                      /\ \A v \in 1..n : v >= n - 1 => v \in Available(f)
                      /\ \A v \in Available(f) :
                             /\ ServedVersion(f, v) \in DOMAIN objects
                             /\ objects[ServedVersion(f, v)].hash = HistoryOf(f)[v]
                             /\ objects[ServedVersion(f, v)].backend = "group"
                                  <=> versions[f][v].backend = "group"
    BY DEF HistoryIsServed
  <2> DEFINE n == files[f].version
  <2>1. n \in 0..MaxVersion /\ 1..n \subseteq Versions /\ DOMAIN objects \subseteq Nat \ {0}
    BY BoundAssumption DEF IInv, TypeOK, FileRow, Versions
  <2>2. \A v \in 1..n : LET row == versions[f][v] IN
            /\ row \in VersionRow /\ row.status # "none"
            /\ row.tgid \in DOMAIN objects /\ row.tgid # 0
            /\ objects[row.tgid].hash = row.hash
            /\ objects[row.tgid].backend = (IF row.backend = Null THEN "bot" ELSE row.backend)
            /\ row.backend = "group" => row.locator = row.tgid
    BY <2>1 DEF IInv, TypeOK, StoredBytes, VersionChain
  <2>3. \A v \in 1..n : v >= n - 1 => versions[f][v].status # "expired"
    BY <2>1, BoundAssumption DEF IInv, RecentVersionsKept, Versions
  <2>4. \A v \in Available(f) : v \in 1..n /\ versions[f][v].status \notin {"none", "expired"}
    BY DEF Available
  <2>5. AuditHealthy(f)
    BY <2>2 DEF AuditHealthy
  <2>6. \A v \in 1..n : v >= n - 1 => v \in Available(f)
    BY <2>2, <2>3 DEF Available
  <2>7. ASSUME NEW v \in Available(f)
        PROVE  /\ ServedVersion(f, v) \in DOMAIN objects
               /\ objects[ServedVersion(f, v)].hash = HistoryOf(f)[v]
               /\ objects[ServedVersion(f, v)].backend = "group" <=> versions[f][v].backend = "group"
    <3>1. ServedVersion(f, v) = versions[f][v].tgid /\ HistoryOf(f)[v] = versions[f][v].hash
      BY <2>2, <2>4 DEF ServedVersion, HistoryOf
    <3>2. Null # "group"
      BY NullAssumption
    <3>3. objects[versions[f][v].tgid].backend = "group" <=> versions[f][v].backend = "group"
      BY <2>2, <2>4, <3>2
    <3> QED BY <2>2, <2>4, <3>1, <3>3
  <2> QED BY <2>5, <2>6, <2>7
<1> QED BY <1>1, Inductive, PTL

\* Two active files never share a path.
THEOREM ActivePathsUnique == Spec => []UniqueActivePath
BY Inductive, PTL DEF IInv

\* A restored version has the content of the one it names.
THEOREM RestoreIsCopy == Spec => []RestoredCopiesSource
BY Inductive, PTL DEF IInv

\* Retries and racing commits of an intent write at most one version.
THEOREM CommitIsIdempotent == Spec => []IntentYieldsOneVersion
<1>1. IInv => IntentYieldsOneVersion
  <2> SUFFICES ASSUME IInv, NEW k \in Keys, intents[k].tgid # 0
               PROVE  LET i == intents[k] IN
                      /\ i.backend = "bot" =>
                            \A f \in Files, v \in Versions :
                               (versions[f][v].status # "none" /\ versions[f][v].tgid = i.tgid) =>
                                   f = i.file /\ v = i.base + 1
                      /\ i.status = "committed" =>
                            /\ files[i.file].version > i.base
                            /\ versions[i.file][i.base + 1].tgid = i.tgid
    BY DEF IntentYieldsOneVersion
  <2>1. intents[k].backend = "bot" => objects[intents[k].tgid].origin = k
    BY DEF IInv, IntentsOK, IntentOK
  <2>2. ASSUME intents[k].backend = "bot", NEW f \in Files, NEW v \in Versions,
               versions[f][v].status # "none", versions[f][v].tgid = intents[k].tgid
        PROVE  f = intents[k].file /\ v = intents[k].base + 1
    BY <2>1, <2>2 DEF IInv, OriginsApart
  <2> QED BY <2>2 DEF IInv, CommittedHasVersion
<1> QED BY <1>1, Inductive, PTL

-----------------------------------------------------------------------------
(* Refinement of VersionHistory                                            *)

HistoryFn == [f \in Files |-> HistoryOf(f)]
LifeFn == [f \in Files |-> files[f].status]

\* A step that keeps the versions and their contents keeps the history.
LEMMA HistoryKept ==
    ASSUME \A f \in Files :
               /\ files'[f].version = files[f].version
               /\ \A v \in 1..files[f].version : versions'[f][v].hash = versions[f][v].hash
    PROVE  HistoryFn' = HistoryFn
<1>1. ASSUME NEW f \in Files
      PROVE  [v \in 1..files'[f].version |-> versions'[f][v].hash] =
             [v \in 1..files[f].version |-> versions[f][v].hash]
  OBVIOUS
<1> QED BY <1>1 DEF HistoryFn, HistoryOf

\* A published version extends the history of its file, and of no other.
LEMMA HistoryPublished ==
    ASSUME IInv, Publishes
    PROVE  \E f \in Files, h \in Hashes : History!Publish(f, h)
<1>1. PICK f \in Files, n \in Versions, row \in VersionRow : Published(f, n, row)
  BY DEF Publishes
<1>2. /\ n \in Nat \ {0} /\ n - 1 \in Nat /\ 1..(n-1) \subseteq Versions
      /\ files[f].version = n - 1 /\ files'[f].version = n
  BY <1>1, BoundAssumption DEF Published, Versions
<1> DEFINE s == [v \in 1..(n - 1) |-> versions[f][v].hash]
           t == [v \in 1..n |-> versions'[f][v].hash]
<1>3. t = Append(s, row.hash)
  <2>1. \A v \in 1..(n - 1) : versions[f][v].hash \in Hashes \cup {Null}
    BY <1>2 DEF IInv, TypeOK, VersionRow
  <2>2. s \in Seq(Hashes \cup {Null}) /\ Len(s) = n - 1
    BY <1>2, <2>1, IsASeq
  <2>3. \A v \in 1..n : versions'[f][v].hash = IF v = n THEN row.hash ELSE s[v]
    <3>1. \A v \in 1..(n - 1) : versions'[f][v].hash = versions[f][v].hash
      BY <1>1, <1>2 DEF Published, AgedTo
    <3>2. versions'[f][n].hash = row.hash
      BY <1>1 DEF Published
    <3> QED BY <1>2, <3>1, <3>2
  <2>4. row.hash \in Hashes \cup {Null}
    BY <1>1 DEF Published
  <2>5. t \in Seq(Hashes \cup {Null}) /\ Len(t) = n
    <3>1. \A v \in 1..n : versions'[f][v].hash \in Hashes \cup {Null}
      <4> HIDE DEF s
      <4>1. \A v \in 1..(n - 1) : s[v] \in Hashes \cup {Null}
        BY <2>1 DEF s
      <4> QED BY <1>2, <2>3, <2>4, <4>1
    <3> QED BY <1>2, <3>1, IsASeq
  <2>6. \A v \in 1..n : t[v] = Append(s, row.hash)[v]
    <3> HIDE DEF s, t
    <3>1. \A v \in 1..n : t[v] = IF v = n THEN row.hash ELSE s[v]
      BY <2>3 DEF t
    <3> QED BY <1>2, <2>2, <2>4, <3>1, AppendProperties
  <2>7. Append(s, row.hash) \in Seq(Hashes \cup {Null}) /\ Len(Append(s, row.hash)) = n
    <3> HIDE DEF s
    <3> QED BY <1>2, <2>2, <2>4, AppendProperties
  <2> HIDE DEF s, t
  <2> QED BY <2>5, <2>6, <2>7, SeqEqual
<1>4. HistoryFn' = [HistoryFn EXCEPT ![f] = Append(@, row.hash)]
  <2>1. \A g \in Files \ {f} :
            [v \in 1..files'[g].version |-> versions'[g][v].hash] =
            [v \in 1..files[g].version |-> versions[g][v].hash]
    BY <1>1 DEF Published
  <2> QED BY <1>2, <1>3, <2>1 DEF HistoryFn, HistoryOf
<1>5. LifeFn' = [LifeFn EXCEPT ![f] = "active"]
  BY <1>1 DEF LifeFn, Published
<1>6. row.hash \in Hashes
  BY <1>1 DEF Published
<1> QED BY <1>4, <1>5, <1>6 DEF History!Publish, HistoryFn, LifeFn

\* The tables that matter to the history do not change.
LEMMA HistoryStutter ==
    ASSUME UNCHANGED <<files, versions>>
    PROVE  UNCHANGED History!hvars
BY DEF History!hvars, HistoryOf

\* Only the status of one file changes.
LEMMA LifeStep ==
    ASSUME IInv, NEW f \in Files, NEW s \in FileStatus,
           \A g \in Files : /\ files'[g].version = files[g].version
                            /\ files'[g].status = IF g = f THEN s ELSE files[g].status,
           UNCHANGED versions
    PROVE  /\ HistoryFn' = HistoryFn
           /\ LifeFn' = [LifeFn EXCEPT ![f] = s]
<1>1. HistoryFn' = HistoryFn
  BY HistoryKept
<1>2. LifeFn' = [LifeFn EXCEPT ![f] = s]
  BY DEF LifeFn
<1> QED BY <1>1, <1>2

\* Every step of the Worker is one step of the history, or none.
LEMMA HistoryNext ==
    ASSUME IInv, [Next]_vars
    PROVE  [History!Next]_History!hvars
<1>1. ASSUME NEW k \in Keys, NEW f \in Files, NEW p \in Paths, NEW h \in Hashes,
             NEW backend \in Backends, PreflightCreate(k, f, p, h, backend)
      PROVE  History!Create(f)
  <2>1. /\ files[f].status = "none" /\ files[f].version = 0 /\ UNCHANGED versions
        /\ files' = [files EXCEPT ![f] = NewFile(p)]
    BY <1>1 DEF PreflightCreate, IInv, FilesOK, Exists
  <2>2. \A g \in Files : /\ files'[g].version = files[g].version
                         /\ files'[g].status = IF g = f THEN "active" ELSE files[g].status
    BY <2>1 DEF NewFile, IInv, TypeOK
  <2>3. HistoryFn' = HistoryFn /\ LifeFn' = [LifeFn EXCEPT ![f] = "active"]
    BY <2>1, <2>2, LifeStep DEF FileStatus
  <2> QED BY <2>1, <2>3 DEF History!Create, HistoryFn, LifeFn
<1>2. ASSUME NEW f \in Files, NEW s \in FileStatus, NEW t \in FileStatus,
             files[f].status = t, files' = [files EXCEPT ![f].status = s],
             UNCHANGED versions
      PROVE  HistoryFn' = HistoryFn /\ LifeFn' = [LifeFn EXCEPT ![f] = s] /\ LifeFn[f] = t
  <2>1. files \in [Files -> FileRow]
    BY DEF IInv, TypeOK
  <2>2. \A g \in Files : /\ files'[g].version = files[g].version
                         /\ files'[g].status = IF g = f THEN s ELSE files[g].status
    <3>1. /\ files'[f] = [files[f] EXCEPT !.status = s]
          /\ \A g \in Files \ {f} : files'[g] = files[g]
      BY <1>2, <2>1
    <3>2. files'[f].status = s /\ files'[f].version = files[f].version
      BY <2>1, <3>1 DEF FileRow
    <3> QED BY <3>1, <3>2
  <2> QED BY <1>2, <2>2, LifeStep DEF LifeFn
<1>3. CASE PreflightNext
  <2>1. CASE \E k \in Keys, f \in Files, p \in Paths, h \in Hashes, backend \in Backends :
                PreflightCreate(k, f, p, h, backend)
    BY <1>1, <2>1 DEF History!Next
  <2>2. CASE UNCHANGED <<files, versions>>
    BY <2>2, HistoryStutter
  <2>3. ASSUME NEW k \in Keys, NEW f \in Files, NEW p \in Paths, NEW h \in Hashes,
               NEW backend \in Backends, NEW b \in 0..MaxVersion, NEW s \in 0..MaxVersion,
               PreflightRead(k, f, p, h, b, s, backend)
        PROVE  UNCHANGED <<files, versions>>
    BY <2>3 DEF PreflightRead, tables
  <2>4. ASSUME NEW x \in preflights, PreflightReserve(x)
        PROVE  UNCHANGED <<files, versions>>
    BY <2>4 DEF PreflightReserve
  <2> QED BY <1>3, <2>1, <2>2, <2>3, <2>4 DEF PreflightNext
<1>4. CASE UploadNext
  BY <1>4, HistoryStutter DEF UploadNext, UploadStore, GroupDocument, SendReceipt, RecordUpload, tables
<1>5. CASE CommitNext
  <2>1. CASE \E c \in commits : CommitApply(c)
    <3>1. Publishes
      BY <2>1, CommitApplyInv
    <3> QED BY <3>1, HistoryPublished DEF History!Next
  <2>2. CASE UNCHANGED <<files, versions>>
    BY <2>2, HistoryStutter
  <2> QED BY <1>5, <2>1, <2>2 DEF CommitNext, CommitLoad, CommitCheck, CommitMatch, CommitAbandon, tables
<1>6. CASE RestoreNext
  <2>1. CASE \E x \in restores : RestoreApply(x)
    <3>1. Publishes
      BY <2>1, RestoreApplyInv
    <3> QED BY <3>1, HistoryPublished DEF History!Next
  <2>2. CASE UNCHANGED <<files, versions>>
    BY <2>2, HistoryStutter
  <2> QED BY <1>6, <2>1, <2>2 DEF RestoreNext, RestoreClone, Clone, tables
<1>7. CASE ImportNext
  <2>1. CASE \E x \in imports : ImportCreate(x) \/ ImportUpdate(x)
    <3>1. Publishes
      BY <2>1, ImportCreateInv, ImportUpdateInv
    <3> QED BY <3>1, HistoryPublished DEF History!Next
  <2>2. CASE \E a \in agings : ImportAge(a)
    <3>1. PICK a \in agings : ImportAge(a)
      BY <2>2
    <3>2. UNCHANGED files
      BY <3>1 DEF ImportAge
    <3>3. \A g \in Files, v \in Versions : versions'[g][v].hash = versions[g][v].hash
      <4>1. PICK r \in Retentions :
                versions' = [versions EXCEPT ![a.file] =
                    [v \in Versions |-> Aged(versions[a.file][v], v, a.version, r)]]
        BY <3>1 DEF ImportAge
      <4>2. /\ versions \in [Files -> [Versions -> VersionRow]]
            /\ a.file \in Files /\ a.version \in Versions
        BY DEF IInv, TypeOK
      <4> QED BY <4>1, <4>2, AgedIsAgedTo DEF AgedTo
    <3>4. \A g \in Files : 1..files[g].version \subseteq Versions
      BY BoundAssumption DEF IInv, TypeOK, FileRow, Versions
    <3>5. HistoryFn' = HistoryFn
      BY <3>2, <3>3, <3>4, HistoryKept
    <3> QED BY <3>2, <3>5 DEF History!hvars, HistoryFn
  <2>3. CASE UNCHANGED <<files, versions>>
    BY <2>3, HistoryStutter
  <2> QED BY <1>7, <2>1, <2>2, <2>3 DEF ImportNext, ChatDocument, ImportRead, tables
<1>8. CASE RenameNext
  <2>1. PICK f \in Files, p \in Paths : Rename(f, p)
    BY <1>8 DEF RenameNext
  <2>2. /\ UNCHANGED versions /\ files \in [Files -> FileRow]
        /\ \A g \in Files \ {f} : files'[g] = files[g]
        /\ files'[f] = [files[f] EXCEPT !.path = p, !.name = p]
    BY <2>1 DEF Rename, IInv, TypeOK
  <2>3. files'[f].status = files[f].status /\ files'[f].version = files[f].version
    BY <2>2 DEF FileRow
  <2>4. HistoryFn' = HistoryFn
    BY <2>2, <2>3, HistoryKept
  <2>5. LifeFn' = LifeFn
    BY <2>2, <2>3 DEF LifeFn
  <2> QED BY <2>4, <2>5 DEF History!hvars, HistoryFn, LifeFn
<1>9. CASE RecycleNext
  <2>1. PICK f \in Files : Trash(f) \/ PermanentDelete(f) \/ RestoreFromTrash(f)
    BY <1>9 DEF RecycleNext
  <2>2. CASE Trash(f)
    <3>1. History!Trash(f)
      BY <1>2, <2>2 DEF Trash, FileStatus, History!Trash, HistoryFn, LifeFn
    <3> QED BY <3>1 DEF History!Next
  <2>3. CASE PermanentDelete(f)
    <3>1. History!Purge(f)
      BY <1>2, <2>3 DEF PermanentDelete, FileStatus, History!Purge, HistoryFn, LifeFn
    <3> QED BY <3>1 DEF History!Next
  <2>4. CASE RestoreFromTrash(f)
    <3>1. History!Recover(f)
      BY <1>2, <2>4 DEF RestoreFromTrash, FileStatus, History!Recover, HistoryFn, LifeFn
    <3> QED BY <3>1 DEF History!Next
  <2> QED BY <2>1, <2>2, <2>3, <2>4
<1>10. CASE Abort
  BY <1>10, HistoryStutter DEF Abort, tables
<1>11. CASE UNCHANGED vars
  BY <1>11, HistoryStutter DEF vars
<1> QED BY <1>3, <1>4, <1>5, <1>6, <1>7, <1>8, <1>9, <1>10, <1>11 DEF Next

\* The empty store is the empty history.
LEMMA HistoryInit == Init => History!Init
BY DEF Init, History!Init, HistoryOf, NoFile

\* The worker's tables implement the history every file is promised.
THEOREM Refinement == Spec => ImplementsHistory
BY Inductive, HistoryInit, HistoryNext, PTL DEF Spec, ImplementsHistory, History!Spec

=============================================================================
