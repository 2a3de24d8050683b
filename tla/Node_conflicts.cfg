SPECIFICATION Spec
CONSTANTS
    t1 = t1
    t2 = t2
    t3 = t3
    t4 = t4
    v1 = v1
    v2 = v2
    o1 = o1
    o2 = o2
    o3 = o3
    alice = alice
    bob = bob
    p1 = p1
    p2 = p2
    p3 = p3
    NoOwner = NoOwner
    Local = Local
    TxIDs = {t1, t2, t3}
    ValueIDs = {v1, v2, o1, o2, o3}
    PeerIDs = {p1, p2}
    Keys = {alice}
    MsgIDs = {m1}
    Distances = {1}
    TxInputs <- ConflictInputs
    TxOutputs <- ConflictOutputs
    ValueOwner <- OneOwner
    ValueAmount <- ConflictAmount
    ValueExpiry <- NeverExpires
    HashOrder <- MCHashOrder
    LogCount <- MCLogCount
    PeerOrder <- PeerSeq
    StabilityTau = 2
    AmountModulus = 1048576
    ReplayTTL = 1
    Seedable = {v1, v2}
    LocalTxs = {t1, t2}
    MaxTime = 2
SYMMETRY Symmetry
INVARIANTS
    TypeOK
    ConflictSetsExact
    SelectionReproducible
    FinalityMatchesSelection
    NoDoubleSelection
    RecomputeMatchesLoop
    LocalSingleUse
    ReportsAgree
PROPERTIES
    ImplementsLedger
