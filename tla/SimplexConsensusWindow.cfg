CONSTANTS
    me = me
    peer = peer
    byz = byz
    a0 = a0
    b0 = b0
    c1 = c1
    Genesis = Genesis
    None = None
    Validators = {me, peer, byz}
    Byzantine = {byz}
    WeightOf <- MCWeightOf
    Slots = {0, 1}
    Candidates = {a0, c1}
    SlotOf <- MCSlotOf
    ParentOf <- MCParentOf
    self = me
    SelfIdx = 1
    GroupSize = 3
    W = 2
    MaxDesync = 0
    MaxRestarts = 1
SPECIFICATION FairSpec
INVARIANTS
    MemoryCoversVotes
PROPERTIES
    ImplementsProtocol
    AnnouncedWindowClosed
CHECK_DEADLOCK FALSE
