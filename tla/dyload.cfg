SPECIFICATION FairSpec
CONSTANTS
    Threads = {t1, t2, t3}
    NoThread = NoThread
    l1 = l1
    l2 = l2
    Libraries = {l1, l2}
    NoLibrary = NoLibrary
    CString <- Terminated
    Nesting = {l2}
    MaxLoads = 2
CHECK_DEADLOCK FALSE
INVARIANTS
    TypeOK
    RememberedWhenLoaded
PROPERTIES
    LoadsOnce
    BlockedOnlyByNesting
