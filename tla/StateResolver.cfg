CONSTANTS
    a = a
    e = e
    b = b
    x = x
    None = None
    Genesis = Genesis
    Candidates = {a, e, b, x}
    parent <- MCparent
    block <- MCblock
    slot <- MCslot
    order <- MCorder
    Final = {a, e, b}
    Requested = {b, x}
    MaxCrashes = 1
SPECIFICATION FairSpec
INVARIANTS
    ManagerHasBlock
    MasterchainOnFinal
    WaitersHaveTask
    NoLostWakeup
PROPERTIES
    ImplementsAcceptedChain
    FinalIsAccepted
CHECK_DEADLOCK FALSE
