SPECIFICATION Spec
CONSTANTS
    Pages = {0, 1, 2}
    Contexts = {0, 1}
    Tables <- MCTables
    Initial <- Tree
    Writable <- Changes
    Values = {v1, v2}
    v1 = v1
    v2 = v2
    Cacheable = {0}
    TlbSize = 2
    Split = FALSE
    DataAsis = {1, 10}
    MaxOps = 2
    MaxEvents = 3
    NoVal = NoVal
INVARIANTS
    TypeOK
    Honest
    
PROPERTIES
    StoresAllowed
SYMMETRY Interchange
