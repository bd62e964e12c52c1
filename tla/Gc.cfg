SPECIFICATION GcSpec
CONSTANTS
    c1 = c1  c2 = c2
    f1 = f1  p1 = p1
    w1 = w1  w2 = w2
    None = None
    Torn = Torn
    Chunks = {c1, c2}
    Files = {f1}
    Compounds = {}
    Payloads = {p1}
    Writers = {w1}
    Content <- OwnContent
    PackTarget = 2
    MaxPack = 0
    Grace = 2
    MaxPut = 1
    MaxTime = 3
    Passes = {"gc"}
    k1 = k1  m1 = m1  m2 = m2
    a1 = a1  a2 = a2  b1 = b1
    x1 = x1  x2 = x2
    idA = idA  idB = idB  srcA = srcA  srcB = srcB
    Singles = {k1}
    Wholes = {m1, m2}
    Refs = {a1, a2, b1}
    SourceOf <- RefSources
    IdOf <- RefIds
    Analyzers = {x1, x2}
    Clients = {r1, r2}
    InitialRows <- Opened
    Lag = 1
    MaxRequests = 2
    MaxCuts = 1
    Deleted = Deleted
    Nobody = Nobody
INVARIANTS
    OwnChunksSurvive
    GcKeepsRecipes
    MutationsKept
    RecordsAgree
    ChangesFound
SYMMETRY ClientSymmetry
CHECK_DEADLOCK FALSE
