SPECIFICATION Spec
CONSTANTS
    None = None
    Objects = {o1, o2}
    Workers = {w1, w2}
    Operators = {q1}
    Threshold = 2
    RetryLimit = 1
    MaxCrashes = 0
    MaxFailures = 0
    MaxOutages = 1
    MaxDeletes = 1
    MaxRuns = 0
    MaxFaults = 2
    Reingest = FALSE
PROPERTIES
    JobsFinish
CHECK_DEADLOCK FALSE
