SPECIFICATION Spec
CONSTANTS
    Threads = {t1}
    NoThread = NoThread
    l1 = l1
    l2 = l2
    Libraries = {l1, l2}
    NoLibrary = NoLibrary
    CString <- Embedded
    Nesting = {}
    MaxLoads = 2
INVARIANT InitializedOnce
