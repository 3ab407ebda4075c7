CONSTANTS
    None = None
    Other = Other
    Windows = {0, 3}
    W = 3
    MaxAhead = 1
    MaxSeqno = 3
SPECIFICATION Spec
INVARIANTS
    SignsOncePerSlot
    WindowIsChain
    FullWithinFinal
    CutShort
CHECK_DEADLOCK FALSE
