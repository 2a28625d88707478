\* Two processes share the entry; calls overlap in the first. The run ends
\* when MaxKeys keys are generated.
SPECIFICATION Spec
CONSTANTS
    m1 = m1
    m2 = m2
    t1 = t1
    t2 = t2
    t3 = t3
    Managers <- MCManagers
    Tasks <- MCTasks
    Owner <- MCOwner
    MaxKeys = 4
INVARIANTS
    TypeOK
    ReadyCanSign
    PredecessorKept
    RestartKeepsKeys
    NewestIsCurrent
CHECK_DEADLOCK FALSE
