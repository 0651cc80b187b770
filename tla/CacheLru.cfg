CONSTANTS
    v2 = v2
    v1 = v1
    t3 = t3
    t2 = t2
    t1 = t1
    Tags = {t1, t2, t3}
    Cacheable = {t1, t2, t3}
    NIdx = 1
    NWays = 2
    NWords = 2
    Values = {v1, v2}
    Repl = 1
    SetLock = FALSE
    LineFetch = FALSE
    Burst = TRUE
SPECIFICATION SpecInstr
INVARIANTS TypeOK InSync
PROPERTY LruVictim
SYMMETRY Interchangeable
