SPECIFICATION Spec
CONSTANTS
    h1 = h1
    h2 = h2
    h3 = h3
    b = b
    a0 = a0
    b0 = b0
    a1 = a1
    b2 = b2
    Genesis = Genesis
    Validators <- MCValidators
    Byzantine <- MCByzantine
    WeightOf <- MCWeightOf
    Slots <- MCSlots
    Candidates <- MCCandidates
    SlotOf <- MCSlotOf
    ParentOf <- MCParentOf
SYMMETRY MCSymmetry
INVARIANTS
    TypeOK
    FinalExcludesSkip
    Agreement
    NotarizedChainComplete
CHECK_DEADLOCK FALSE
