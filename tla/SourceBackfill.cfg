SPECIFICATION Spec
CONSTANTS
    m1 = m1
    m2 = m2
    backfill = backfill
    inbox = inbox
    Messages = {m1, m2}
    Runners = {backfill, inbox}
    Resumed = {backfill}
    Pages <- MailboxPages
    MaxPages <- PageLimits
    MaxCrashes = 1
    MaxFaults = 1
    MaxExpiries = 1
INVARIANTS
    CursorCovers
    ClaimsSerialise
PROPERTIES
    IngestedOnce
    BackfillEnds
