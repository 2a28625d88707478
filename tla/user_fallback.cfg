\* The use case runs its body again after a business error.
\* Each request is made once, so the model stops when all are answered.
SPECIFICATION Spec
CONSTANTS
    r1 = r1
    r2 = r2
    none = none
    Requests <- MCRequests
    NoOne = none
    MaxAttempts = 3
    Threshold = 3
    RecoveryTimeout = 1
    FailureCap = 5
PROPERTIES
    FallbackOnlyOnConflict
CHECK_DEADLOCK FALSE
