SPECIFICATION Spec
CONSTANTS
    t1 = t1
    t2 = t2
    t3 = t3
    t4 = t4
    v1 = v1
    v2 = v2
    v3 = v3
    v4 = v4
    o1 = o1
    o2 = o2
    o3 = o3
    o4 = o4
    n1 = n1
    n2 = n2
    NoOwner = NoOwner
    Local = Local
    Nobody = Nobody
    TxIDs = {t1, t2, t3, t4}
    ValueIDs = {v1, v2, v3, v4, o1, o2, o3, o4}
    PeerIDs = {n1, n2}
    Keys = {alice}
    MsgIDs = {}
    Distances = {1}
    TxInputs <- MCInputs
    TxOutputs <- MCOutputs
    ValueOwner <- MCOwner
    ValueAmount <- Zero
    ValueExpiry <- Zero
    HashOrder <- MCHashOrder
    LogCount <- MCLogCount
    PeerOrder <- MCPeerOrder
    StabilityTau = 2
    AmountModulus = 1048576
    ReplayTTL = 4
    Peers <- Everybody
    Genesis <- CommonGenesis
    Submissions <- MCSubmissions
    Capacity = 1
    TxUnits = 1
    MaxFrozen = 1
INVARIANTS
    CircleNeedsTraffic
PROPERTIES
    MutexReleased
    BlockingSpreads
CHECK_DEADLOCK FALSE
