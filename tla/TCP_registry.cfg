SPECIFICATION Spec
CONSTANTS
    Addrs = {a, b}
    Senders = {s1}
    MaxConns = 2
INVARIANTS
    TypeOK
    RegisteredIsOwned
    OpenIsOwned
    WaiterIsServed
PROPERTIES
    CloseWaitsForAll
    EndedIsForgotten
CHECK_DEADLOCK FALSE
