CONSTANTS
    h1 = h1
    h2 = h2
    h3 = h3
    byz = byz
    a = a
    b = b
    None = None
    Validators = {h1, h2, h3, byz}
    Byzantine = {byz}
    WeightOf <- MCWeightOf
    Blocks = {a, b}
SPECIFICATION Spec
SYMMETRY MCSymmetry
INVARIANTS
    CertificatesVerify
    QuorumIsCertified
    CertifiedVoteHasCertificate
    HonestNotReported
CHECK_DEADLOCK FALSE
