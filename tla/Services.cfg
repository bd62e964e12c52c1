SPECIFICATION Spec
CONSTANTS
    Digests = {d1, d2}
    BufferSize = 1
    Limit = 2
    MaxWrites = 3
    MaxCrashes = 1
    None = None
    Objects <- Corpus
    ChunkSize = 2
    IdleThreshold = 2
    LowWater = 1
    HighWater = 3
    MaxDepth = 3
    Callers = {c1, c2}
    MaxOperations = 2
    MaxOpFaults = 1
    Clients = {u1, u2, u3}
    MaxInstances = 2
    Processes = {b1, b2, b3}
    MaxTrips = 1
    NoBackend = NoBackend
INVARIANTS
    SharedExecution
    SlotsConserved
PROPERTIES
    WritesAreProjected
    EveryObjectVisited
    CallersAnswered
    RunsReturn
CHECK_DEADLOCK FALSE
