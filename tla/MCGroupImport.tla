---------------------------- MODULE MCGroupImport ----------------------------
(* Instances of GroupImport: two passes that overlap over documents, a gap   *)
(* between what the bridge reads and what it heard, and the own uploads.     *)
EXTENDS GroupImport
CONSTANTS p1, p2

MCScenarios ==
    { [kinds |-> {"document"}, passes |-> {p1, p2}, messages |-> 2],
      [kinds |-> {"document", "text"}, passes |-> {p1}, messages |-> 3],
      [kinds |-> {"own", "unmanaged"}, passes |-> {p1, p2}, messages |-> 2] }
=============================================================================
