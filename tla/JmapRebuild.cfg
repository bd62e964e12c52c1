SPECIFICATION JmapSpec
CONSTANTS
    e1 = e1
    h1 = h1
    h2 = h2
    inbox = inbox
    seenKw = seenKw
    na = na
    nb = nb
    Top = Top
    NoEntry = NoEntry
    Emails = {e1}
    Handlers = {h1}
    Custom = {1}
    System = {inbox}
    Names = {na}
    Parents = {Top}
    Keywords = {seenKw}
    Defaults = {inbox, seenKw}
    Patches <- MovesOnly
    MaxEdits = 2
    MaxEvents = 3
    Initial <- OneMailbox
INVARIANTS
    RebuildRecovers
CHECK_DEADLOCK FALSE
