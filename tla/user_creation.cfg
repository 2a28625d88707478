\* Two requests for one address, a database that fails, a worker that dies.
\* Each request is made once, so the model stops when all are answered.
SPECIFICATION FairSpec
CONSTANTS
    r1 = r1
    r2 = r2
    none = none
    Requests <- MCRequests
    NoOne = none
    MaxAttempts = 3
    Threshold = 3
    RecoveryTimeout = 1
    FailureCap = 5
INVARIANTS
    TypeOK
    ReportsBounded
PROPERTIES
    KeepsPromise
    BreakerProtocol
    RequestsEnd
CHECK_DEADLOCK FALSE
