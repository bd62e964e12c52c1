SPECIFICATION Spec
CONSTANTS
    None = None
    Objects = {o1, o2}
    Workers = {w1, w2}
    Operators = {q1}
    Threshold = 2
    RetryLimit = 1
    MaxCrashes = 1
    MaxFailures = 2
    MaxOutages = 1
    MaxDeletes = 1
    MaxRuns = 1
    MaxFaults = 3
    Reingest = TRUE
INVARIANTS
    JobsNeverLost
    RetriesEarned
PROPERTIES
    JobsFinishKept
CHECK_DEADLOCK FALSE
