SPECIFICATION Spec
CONSTANTS
    Threads = {t1, t2}
    Names = {n1, n2, n3}
    Funs = {f1, f2}
    NoFun = NoFun
    NoThread = NoThread
    MaxEntries = 2
SYMMETRY Symmetry
INVARIANTS
    TypeOK
    ChecksStayTrue
    CapacityBound
PROPERTIES
    AtomicSpec
    CapsGrantedOnce
    HandedOutCurrent
