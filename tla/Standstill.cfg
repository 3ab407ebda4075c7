CONSTANTS
    None = None
    a = a
    b = b
    Nodes = {a, b}
    Systems <- MCSystems
    MaxSlot = 1
    Agenda <- MCAgenda
    W = 1
    Desync = 0
SPECIFICATION FairSpec
INVARIANTS
    TaskNeverAborts
PROPERTIES
    CertificatesSpread
    QuorumSettles
CHECK_DEADLOCK FALSE
