CONSTANTS
    me = me
    peer = peer
    byz = byz
    a0 = a0
    b0 = b0
    c1 = c1
    Genesis = Genesis
    None = None
    Validators = {me, peer, byz}
    Byzantine = {byz}
    WeightOf <- MCWeightOf
    Slots = {0, 1, 2, 3}
    Candidates = {c1}
    SlotOf <- MCSlotOf
    ParentOf <- MCParentOf
    self = me
    SelfIdx = 0
    GroupSize = 3
    W = 1
    MaxDesync = 0
    MaxRestarts = 1
SPECIFICATION Spec
INVARIANTS
    LeadsInOrder
    TimeoutArithmeticSafe
CHECK_DEADLOCK FALSE
