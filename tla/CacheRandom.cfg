CONSTANTS
    Tags <- MCFourTags
    Cacheable <- MCTags
    NIdx = 1
    NWays = 2
    NWords = 1
    Values = {0, 1}
    Repl = 3
    SetLock = TRUE
    LineFetch = TRUE
    Burst = FALSE
SPECIFICATION Spec
INVARIANTS InSync OneCopy
PROPERTY LockedStays
