-------------------------- MODULE MCCloudVersions --------------------------
(* CloudVersions for TLC. In each scene clients call a part of the handlers, *)
(* within bounds of its own, so that the handlers it keeps can meet in every *)
(* order within reach of an exhaustive search.                               *)
EXTENDS CloudVersions, TLC

VARIABLE scene

\* The handlers called and the bounds of: files, paths, keys, contents,
\* versions, objects, handlers that wait, imports whose ageing comes late.
Restores == [does |-> "restore", files |-> 1, paths |-> 1, keys |-> 2, hashes |-> 2,
             versions |-> 4, objects |-> 3, waiting |-> 2, late |-> 0]
Imports == [does |-> "import", files |-> 1, paths |-> 1, keys |-> 1, hashes |-> 2,
            versions |-> 3, objects |-> 2, waiting |-> 2, late |-> 1]
Recycles == [does |-> "recycle", files |-> 2, paths |-> 2, keys |-> 2, hashes |-> 1,
             versions |-> 1, objects |-> 1, waiting |-> 2, late |-> 0]

Waiting == Cardinality(preflights) + Cardinality(uploads) + Cardinality(commits)
             + Cardinality(restores) + Cardinality(imports)

Within ==
    LET reserved == {k \in Keys : intents[k].status # "none"}
        names == {intents[k].name : k \in reserved}
        sent == {objects[o].hash : o \in DOMAIN objects}
        asked == {intents[k].hash : k \in reserved}
    IN  /\ Cardinality({f \in Files : Exists(f)}) <= scene.files
        /\ Cardinality({files[f].path : f \in {g \in Files : Exists(g)}} \cup names
                         \cup {x.path : x \in preflights \cup imports}) <= scene.paths
        /\ Cardinality(reserved \cup {x.key : x \in preflights}) <= scene.keys
        /\ Cardinality(sent \cup asked \cup {x.hash : x \in preflights}) <= scene.hashes
        /\ \A f \in Files : files[f].version <= scene.versions
        /\ \A k \in reserved : intents[k].base < scene.versions
        /\ \A x \in preflights \cup restores \cup imports : x.base < scene.versions
        /\ Len(objects) <= scene.objects
        /\ Waiting <= scene.waiting /\ Cardinality(agings) <= scene.late

\* PreflightNext, with what its actions ask first taken before the choices.
ScenePreflight ==
    \/ Waiting < scene.waiting /\ \E f \in Files :
           /\ files[f].status = "active"
           /\ \E p \in Paths : PathFree(f, p) /\ \E k \in Keys, h \in Hashes, backend \in Backends :
                 \E b \in 0 .. files[f].version : \E s \in 0 .. b : PreflightRead(k, f, p, h, b, s, backend)
    \/ Waiting < scene.waiting /\ \E f \in Files, p \in Paths, k \in Keys :
           /\ files[f].status = "none" /\ intents[k].status = "none"
           /\ \E h \in Hashes, backend \in Backends : PreflightCreate(k, f, p, h, backend)
    \/ \E x \in preflights : PreflightReserve(x)

SceneNext ==
    \/ ScenePreflight \/ UploadNext \/ CommitNext \/ Abort
    \/ scene.does = "restore" /\ RestoreNext
    \/ scene.does = "import" /\ ImportNext
    \/ scene.does = "recycle" /\ (RenameNext \/ RecycleNext)

ScenesInit ==
    /\ Init
    /\ scene \in {Restores, Imports, Recycles}

ScenesSpec ==
    /\ ScenesInit
    /\ [][SceneNext /\ UNCHANGED scene /\ Within']_<<vars, scene>>

Symmetry == Permutations(Hashes) \cup Permutations(Keys) \cup Permutations(Files)
              \cup Permutations(Paths)
=============================================================================
