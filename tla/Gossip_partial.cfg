SPECIFICATION Spec
CONSTANTS
    t1 = t1
    t2 = t2
    t3 = t3
    v1 = v1
    o1 = o1
    o2 = o2
    o3 = o3
    alice = alice
    bob = bob
    n1 = n1
    n2 = n2
    n3 = n3
    NoOwner = NoOwner
    Local = Local
    TxIDs = {t1}
    ValueIDs = {v1, o1, o2, o3}
    PeerIDs = {n1, n2, n3}
    Keys = {alice, bob}
    MsgIDs = {}
    Distances = {1}
    TxInputs <- MCInputs
    TxOutputs <- MCOutputs
    ValueOwner <- MCOwner
    ValueAmount <- MCAmount
    ValueExpiry <- NeverExpires
    HashOrder <- MCHashOrder
    LogCount <- MCLogCount
    PeerOrder <- MCPeerOrder
    StabilityTau = 2
    AmountModulus = 1048576
    ReplayTTL = 4
    Peers <- Triangle
    Genesis <- CommonGenesis
    Submissions <- OneTransfer
    Questions <- AskNobody
    MaxCrashes = 1
    MaxDrops = 0
    MaxTime = 0
PROPERTIES
    SurvivorsLearn
CHECK_DEADLOCK FALSE
