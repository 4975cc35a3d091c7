SPECIFICATION Spec
CONSTANTS
    Threads = {t1}
    Names = {n1}
    Funs = {f1}
    NoFun = NoFun
    MaxEntries = 1
    MaxDepth = 1
INVARIANT CapsAreThreadLocal
