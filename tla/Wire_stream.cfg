SPECIFICATION Spec
CONSTANTS
    W16 = 1
    W32 = 2
    W64 = 1
    HashLen = 1
    IDLen = 1
    MaxFrame = 26
    MaxAddr = 4
    Senders = {s1, s2}
    Opener = opener
    Nobody = Nobody
    Addr <- MCAddr
    Samples <- MCSamples
    Noise <- MCNoise
    MaxSends = 2
INVARIANTS
    DeliveredAsSent
    OneEncoding
    RefusesOnlyStrangers
PROPERTIES
    EverythingArrives
CHECK_DEADLOCK FALSE
