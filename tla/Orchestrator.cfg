SPECIFICATION Spec
CONSTANTS
    Workers = {w1, w2}
    Resting = Resting
    Counts <- MCCounts
    MaxAttempts = 2
    MaxRuns = 2
INVARIANTS
    TypeOK
    SeedExact
    AtScale
    OwnServer
    CleansUp
PROPERTIES
    RunEnds
