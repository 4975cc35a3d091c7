SPECIFICATION Spec
CONSTANTS
    Threads = {t1, t2, t3}
    Addresses = {a1, a2, a3}
    Null = Null
SYMMETRY Symmetry
INVARIANTS
    TypeOK
    OwnsAlone
PROPERTY ImplementsOwnership
