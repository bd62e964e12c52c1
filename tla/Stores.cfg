SPECIFICATION StoresSpec
CONSTANTS
    c1 = c1  c2 = c2
    f1 = f1  k1 = k1  p1 = p1
    w1 = w1  w2 = w2
    None = None
    Torn = Torn
    Chunks = {c1, c2}
    Files = {f1}
    Compounds = {k1}
    Payloads = {p1}
    Writers = {w1, w2}
    Content <- SharedContent
    PackTarget = 2
    MaxPack = 1
    MaxTime = 1
    MaxPut = 0
    e1 = e1
    h1 = h1
    h2 = h2
    inbox = inbox
    seenKw = seenKw
    na = na
    nb = nb
    Top = Top
    NoEntry = NoEntry
    Emails = {e1}
    Handlers = {h1, h2}
    Custom = {1, 2}
    System = {inbox}
    Names = {na, nb}
    Parents = {Top, 1, 2}
    Keywords = {seenKw}
    Defaults = {inbox, seenKw}
    Patches <- ClientPatches
    MaxEdits = 2
    MaxEvents = 4
    Initial <- OneMailbox
INVARIANTS
    IndexDurable
    RecipesResolve
    AckedMailboxesKept
    EmailsConverge
    AckedFlagsKept
    MailStaysVisible
PROPERTY
    ImplementsObjectStore
CONSTRAINT Bounds
SYMMETRY Interchangeable
CHECK_DEADLOCK FALSE
