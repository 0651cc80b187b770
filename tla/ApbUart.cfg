SPECIFICATION FairSpec
CONSTANTS
    FifoSize = 4
    Chars = {"a"}
    Received = 6
    ToSend = 4
    Controls <- MCControls
    Noise = "noise"
INVARIANTS
    TypeOK
    Announced
    LineExplained
PROPERTIES
    Progress
