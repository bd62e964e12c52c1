SPECIFICATION MaintSpec
CONSTANTS
    c1 = c1  c2 = c2
    f1 = f1  p1 = p1
    w1 = w1  w2 = w2
    None = None
    Torn = Torn
    Chunks = {c1}
    Files = {f1}
    Compounds = {}
    Payloads = {}
    Writers = {w1, w2}
    Content <- SharedContent
    PackTarget = 2
    MaxPack = 0
    Grace = 2
    MaxPut = 1
    MaxTime = 3
    Passes = {"gc"}
INVARIANTS
    RecipesResolve
SYMMETRY Symmetry
CHECK_DEADLOCK FALSE
