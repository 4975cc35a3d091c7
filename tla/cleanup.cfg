SPECIFICATION FairCleanupSpec
CONSTANTS
    Threads = {t1, t2}
    NoThread = NoThread
    Engines = {e1, e2}
    NoEngine = NoEngine
    MaxDepth = 2
    Cleaners = {c1, c2}
    NoCleaner = NoCleaner
    Reentrant = {c2}
    EngineCleaner = c1
    MaxCleaners = 2
CHECK_DEADLOCK FALSE
INVARIANTS
    CleanupTypeOK
    EngineOfItsThread
    CleanersRun
    UseIsSafeInOrder
PROPERTIES
    DestroyedOnlyByCleaning
    CleanersStayValid
    CleaningEnds
