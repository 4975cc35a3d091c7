SPECIFICATION Spec
CONSTANTS
    Threads = {t1, t2, t3}
    InitializerAsks = {"cleaners", "engines", "registry"}
    CleanerAsks = {"engines", "registry"}
    EngineAsks = {"dyload", "cleaners", "engines", "registry"}
CHECK_DEADLOCK FALSE
SYMMETRY Symmetry
INVARIANTS
    TypeOK
    CircularOnlyThroughEngines
