\* One query with two workers, or two that race for the last unit.
SPECIFICATION MCSpec
CONSTANTS
    k0 = k0
    k1 = k1
    k2 = k2
    w1 = w1
    w2 = w2
    Keys = {k0, k1, k2}
    CPlusKeys = {k0, k1, k2}
    Workers = {w1, w2}
    NoKey = none
    QueryLimit = 3
    ReportLimit = 2
    MaxAttempts = 2
INVARIANT WorkIsAccounted
PROPERTIES FencedFinish ImplementsContract OpenRowsResolve
CHECK_DEADLOCK FALSE
