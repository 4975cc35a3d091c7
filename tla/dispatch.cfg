SPECIFICATION Spec
CONSTANTS
    Threads = {t1, t2}
    Names = {n1, n2}
    Funs = {f1, f2}
    NoFun = NoFun
    MaxEntries = 1
    MaxDepth = 2
SYMMETRY Symmetry
INVARIANTS
    TypeOK
    Confined
PROPERTY SafeToFree
