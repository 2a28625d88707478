\* Two worker processes with the same machine id.
SPECIFICATION Spec
CONSTANTS
    c1 = c1
    c2 = c2
    g1 = g1
    g2 = g2
    Contexts <- MCContexts
    Generators <- MCGenerators
    GeneratorOf <- TwoGenerators
    MaxSequence = 3
    MaxWaits = 1
    MaxClock = 2
INVARIANTS
    UniqueAcrossInstances
