SPECIFICATION Spec
CONSTANTS
    CPUs = {0, 1}
    In = 2
    Lines <- OneLine
    Pnp = "pnp"
    Unmapped = "unmapped"
    Cached <- OneLine
    Used = {"x"}
    Values = {v1, v2}
    v1 = v1
    v2 = v2
    LineWords = 2
    WaitStates = 0
    RoundRobin = TRUE
    FrameLines <- OneWordFrame
    NoTrans = NoTrans
    NoVal = NoVal
    NoRmw = NoRmw
    None = None
INVARIANTS
    TypeOK
    Coherent
    FrameVisible
PROPERTIES
    ImplementsOrder
SYMMETRY Interchange
