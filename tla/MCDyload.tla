------------------------------ MODULE MCDyload ------------------------------
EXTENDS Dyload, TLC

CONSTANTS l1, l2

\* Callers that pass NUL-terminated names, as wiltoncall_dyload.cpp does.
Terminated == [lib \in Libraries |-> lib]

\* A caller for whom the bytes after the name l1 make it read as l2.
Embedded == [lib \in Libraries |-> l2]
=============================================================================
