SPECIFICATION Spec
CONSTANTS
    Buffers = {b1, b2, b3, b4}
    Null = Null
    MaxDepth = 8
SYMMETRY Symmetry
INVARIANTS
    TypeOK
    ReceivedExists
    NothingLost
    OneAnswer
