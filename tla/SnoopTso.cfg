CONSTANTS
    NoTrans = NoTrans
    NoRmw = NoRmw
    NoLoad = NoLoad
    NoVal = NoVal
    c1 = c1
    c2 = c2
    t1 = t1
    t2 = t2
    v1 = v1
    v2 = v2
    CPUs = {c1, c2}
    Tags = {t1, t2}
    BusId <- MCOwnId
    HIndex <- MCOwnId
    Cacheable = {t1, t2}
    NIdx = 1
    NWays = 1
    NWords = 1
    Values = {v1, v2}
    Repl = 0
    SetLock = FALSE
    LineFetch = TRUE
    Burst = FALSE
    Fetched <- MCNone
    MaxPosted = 1
    Mmu = FALSE
    Atomics <- MCNone
SPECIFICATION Spec
INVARIANTS TypeOK Coherent
PROPERTY TotalStoreOrder
SYMMETRY Interchangeable
