SPECIFICATION RepackSpec
CONSTANTS
    c1 = c1  c2 = c2
    f1 = f1  p1 = p1
    w1 = w1  w2 = w2
    None = None
    Torn = Torn
    Chunks = {c1, c2}
    Files = {f1}
    Compounds = {}
    Payloads = {p1}
    Writers = {w1}
    Content <- MixedContent
    PackTarget = 2
    MaxPack = 1
    Grace = 2
    MaxPut = 1
    MaxTime = 0
    Passes = {"repack"}
    Readers = {r1, r2}
    PackChunks = {k1}
    CacheMax = 1
    LastPack = 3
INVARIANTS
    RepackKeepsRows
    HandlesCounted
    ReadsSurviveRepack
CHECK_DEADLOCK FALSE
