\* The last unit of the allowance pays for a report and locks it.
SPECIFICATION Spec
CONSTANTS
    k0 = k0
    k1 = k1
    k2 = k2
    w1 = w1
    w2 = w2
    Keys = {k1}
    CPlusKeys = {k1}
    Workers = {w1}
    NoKey = none
    QueryLimit = 1
    ReportLimit = 1
    MaxAttempts = 3
INVARIANT MeteredStaysUnlocked
CHECK_DEADLOCK FALSE
