\* Four overlapping checks of one key; the run ends when all are decided.
SPECIFICATION Spec
CONSTANTS
    r1 = r1
    r2 = r2
    r3 = r3
    r4 = r4
    Requests <- MCRequests
    MaxRequests = 2
    Window = 2
    MaxTime = 3
SYMMETRY Symmetry
INVARIANTS
    TypeOK
    OnlyRacesExceed
PROPERTIES
    KeepsQuota
CHECK_DEADLOCK FALSE
