\* Two threads save instances while two others update the row under its lock.
\* The run ends after MaxCalls saves.
SPECIFICATION Spec
CONSTANTS
    p1 = p1
    p2 = p2
    l1 = l1
    l2 = l2
    NoThread = NoThread
    Plain <- MCPlain
    Locking <- MCLocking
    MaxAttempts = 2
    MaxCalls = 4
SYMMETRY Symmetry
INVARIANTS
    TypeOK
    EditsSurvive
PROPERTIES
    BeforeStateTrue
    SharesRow
CHECK_DEADLOCK FALSE
