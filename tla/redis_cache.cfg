\* Two tasks over one connection, Redis going down and coming back.
SPECIFICATION FairSpec
CONSTANTS
    t1 = t1
    t2 = t2
    Tasks <- MCTasks
    Threshold = 2
    RecoveryTimeout = 2
    FailureCap = 3
INVARIANTS
    TypeOK
    OnlyOverlapLosesClient
    BreakerConsistent
    BreakerTrips
PROPERTIES
    BreakerProtocol
    CallsReturn
    BreakerQuiet
    BreakerRecovers
    OnlyCloseUnwedges
