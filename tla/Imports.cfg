SPECIFICATION ImportsSpec
CONSTANTS
    m1 = m1
    m2 = m2
    m3 = m3
    g1 = g1
    Archive = {m1, m2, m3}
    GmailMail = {g1}
    Content <- MCContent
    Size <- MCSize
    Workers = {w1, w2}
    Procs = {p1, p2}
    None = None
    Identity = Identity
    MaxDeliveries = 4
    MaxFaults = 1
    email = email
    name = name
    file1 = file1
    file2 = file2
    Values = {email, name}
    Identifiers = {email}
    Files = {file1, file2}
    Cards <- ContactCards
    Importers = {i1, i2}
    TopN = 1
    MinSample = 2
    MaxEntities = 3
    MaxImports = 2
    MaxCuts = 1
    MaxStops = 2
SYMMETRY Interchangeable
CONSTRAINT NoOverlapYet
INVARIANTS
    LockSerialises
    CanonicalCoherent
    ImportsLand
    RecordsTruthful
    LedgerAgrees
    ScoredClaimsFresh
    LinkageSound
    ImportAccounted
PROPERTY
    SpansKept
CHECK_DEADLOCK FALSE
