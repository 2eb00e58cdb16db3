------------------------------ MODULE MCRewind ------------------------------
EXTENDS Rewind

CONSTANTS f1, f2, f3, p1, p2, e1, e2

\* Paths and old files are interchangeable, so that one path may be fixed; the
\* new file is there, and one of the old files has no new version.
MCInit ==
    /\ RewindInit
    /\ snap[f1] # Nothing /\ snap[f1].path = p1
    /\ files[f1].status # "deleted" /\ files[f2].version = 1
    /\ files[f3] # Nothing /\ files[f3].status = "active" /\ files[f3].path = p2

MCSpec == MCInit /\ [][RewindNext]_rewindVars /\ RewindFairness
=============================================================================
