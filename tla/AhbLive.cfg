SPECIFICATION FairSpec
CONSTANTS
    CPUs = {0, 1}
    In = 2
    Lines <- TwoLines
    Pnp = "pnp"
    Unmapped = "unmapped"
    Cached <- OneLine
    Used = {"x", "pnp", "unmapped"}
    Values = {v1}
    v1 = v1
    LineWords = 2
    WaitStates = 1
    RoundRobin = TRUE
    FrameLines <- TwoWordFrame
    NoTrans = NoTrans
    NoVal = NoVal
    NoRmw = NoRmw
    None = None
PROPERTIES
    Served
    ImplementsOrder
