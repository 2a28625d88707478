\* Two contexts under one lock, a clock that may be set back.
SPECIFICATION FairSpec
CONSTANTS
    c1 = c1
    c2 = c2
    g1 = g1
    g2 = g2
    Contexts <- MCContexts
    Generators <- MCGenerators
    GeneratorOf <- OneGenerator
    MaxSequence = 3
    MaxWaits = 2
    MaxClock = 3
INVARIANTS
    TypeOK
PROPERTIES
    IdsIncrease
    WaitEnds
