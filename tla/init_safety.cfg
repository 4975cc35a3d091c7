SPECIFICATION Spec
CONSTANTS
    Threads = {t1, t2}
    n1 = n1
    n2 = n2
    n3 = n3
    Names = {n1, n2, n3}
    Funs = {builtin, foreign}
    NoFun = NoFun
    MaxEntries = 2
    Builtins <- TwoBuiltins
    BuiltinFun = builtin
    Configs = {c1, c2}
    WithEngine = {c1}
    NoConfig = NoConfig
    Malformed = Malformed
    EmptyText = Malformed
INVARIANTS
    TypeOK
    ConfigIsFromInit
    SuccessIsComplete
    FailedForGood
    DefaultEngineIsCurrent
PROPERTY NoEscapeOnceConfigured
