SPECIFICATION FairTlSpec
CONSTANTS
    ThreadIds = {t1, t2, t3}
    NoThread = NoThread
    Values = {v1, v2, v3}
    NoValue = NoValue
INVARIANTS
    TlTypeOK
    ValueIsOwn
PROPERTIES
    ReferenceStaysGood
    MethodsEnd
