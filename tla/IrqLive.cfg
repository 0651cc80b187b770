SPECIFICATION SpecLive
CONSTANTS
    NCPU = 2
    Lines = {2, 3}
    EIRQ = 0
    Devices = {2}
    Words <- LiveWords
    MaxOps = 4
INVARIANT NoRequestLost
PROPERTIES ImplementsDelivery AllServed
CHECK_DEADLOCK FALSE
