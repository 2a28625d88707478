\* The lost-client race: two overlapping reconnections.
SPECIFICATION BusySpec
CONSTANTS
    t1 = t1
    t2 = t2
    Tasks <- MCTasks
    Threshold = 2
    RecoveryTimeout = 1
    FailureCap = 2
PROPERTIES
    ClientIsRestored
