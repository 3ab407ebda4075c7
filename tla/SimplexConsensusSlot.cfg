CONSTANTS
    me = me
    peer = peer
    byz = byz
    a0 = a0
    b0 = b0
    c1 = c1
    Genesis = Genesis
    None = None
    Validators = {me, peer, byz}
    Byzantine = {byz}
    WeightOf <- MCWeightOf
    Slots = {0}
    Candidates = {a0, b0}
    SlotOf <- MCSlotOf
    ParentOf <- MCParentOf
    self = me
    SelfIdx = 0
    GroupSize = 3
    W = 1
    MaxDesync = 0
    MaxRestarts = 2
SPECIFICATION Spec
INVARIANTS
    NotarizedIsStored
    MemoryCoversVotes
PROPERTIES
    ImplementsProtocol
CHECK_DEADLOCK FALSE
