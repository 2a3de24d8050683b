SPECIFICATION ControlSpec
CONSTANTS
    d1 = d1
    d2 = d2
    pay = pay
    ask = ask
    v1 = v1
    v2 = v2
    o1 = o1
    n1 = n1
    alice = alice
    bob = bob
    shared = shared
    NoOwner = NoOwner
    Local = Local
    NoPath = NoPath
    Daemons = {d1, d2}
    Paths = {shared}
    Flag <- MCFlag
    Env = NoPath
    DerivedPath <- MCDerived
    DefaultPath = shared
    MaxCrashes = 1
    Commands = {pay, ask}
    Request <- MCRequest
    SeededValue <- MCSeeded
    MaxTime = 1
    TxIDs <- MCTxIDs
    ValueIDs = {v1, v2, o1}
    PeerIDs = {n1}
    Keys = {alice, bob}
    MsgIDs = {}
    Distances = {1}
    TxInputs <- MCInputs
    TxOutputs <- MCOutputs
    ValueOwner <- MCOwner
    ValueAmount <- MCAmount
    ValueExpiry <- MCExpiry
    ValueUnit <- MCUnit
    HashOrder <- MCHashOrder
    LogCount <- MCLogCount
    PeerOrder <- MCPeerOrder
    StabilityTau = 2
    AmountModulus = 1048576
    ReplayTTL = 4
INVARIANTS
    LoneStartSucceeds
    LoneNodeReachable
    RetryMakesNoRival
    OkMeansAnnounced
PROPERTIES
    ForeignFileKept
    CommandReturns
CHECK_DEADLOCK FALSE
