CONSTANTS
    NCPU = 2
    Lines <- MCLines
    EIRQ = 1
    Devices <- MCDevices
    Words <- MCWords
    MaxOps = 3
SPECIFICATION Spec
INVARIANTS TypeOK ShadowAgrees RequestJustified
PROPERTY ForcedUntilServed
