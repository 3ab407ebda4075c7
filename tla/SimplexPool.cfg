CONSTANTS
    a0 = a0
    a1 = a1
    c2 = c2
    d2 = d2
    Genesis = Genesis
    None = None
    N = 3
    Candidates = {a0, a1, c2, d2}
    Received = {c2, d2}
    SlotOf <- MCSlotOf
    ParentOf <- MCParentOf
    W = 1
    MaxRestarts = 1
SPECIFICATION Spec
INVARIANTS
    ParentAnswerExact
    MisbehaviorJustified
    SkipIntervalsExact
    BaseIsBest
    AnnouncedBaseValid
    AnnouncementsIncrease
CHECK_DEADLOCK FALSE
