CONSTANTS
    NoTrans = NoTrans
    NoRmw = NoRmw
    NoLoad = NoLoad
    NoVal = NoVal
    c1 = c1
    c2 = c2
    t1 = t1
    v1 = v1
    v2 = v2
    CPUs = {c1, c2}
    Tags = {t1}
    BusId <- MCOwnId
    HIndex <- MCOwnId
    Cacheable = {t1}
    NIdx = 1
    NWays = 1
    NWords = 1
    Values = {v1, v2}
    Repl = 0
    SetLock = FALSE
    LineFetch = TRUE
    Burst = FALSE
    Fetched <- MCFetched
    MaxPosted = 2
    Mmu = FALSE
    Atomics <- MCLdstuba
SPECIFICATION Spec
PROPERTY Atomic
SYMMETRY Interchangeable
