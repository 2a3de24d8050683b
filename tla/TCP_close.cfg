SPECIFICATION Spec
CONSTANTS
    Addrs = {a}
    Senders = {s1}
    MaxConns = 1
PROPERTIES
    CloseTerminates
CHECK_DEADLOCK FALSE
