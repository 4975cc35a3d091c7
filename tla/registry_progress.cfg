SPECIFICATION FairSpec
CONSTANTS
    Threads = {t1, t2}
    Names = {n1, n2}
    Funs = {f1}
    NoFun = NoFun
    NoThread = NoThread
    MaxEntries = 2
PROPERTY OnlyStarvedByOthers
