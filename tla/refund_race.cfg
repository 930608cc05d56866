\* Two refunds of a charge that succeed at the same time.
SPECIFICATION MCSpec
CONSTANTS
    Subs = {s1, s2}
    MaxChanges = 0
    LastPeriod = 1
    Refunds = {r1, r2}
    Handlers = {h1, h2}
    Amount = 2
    MaxPending = 2
    Plans = {}
    Clicks = {}
    MaxTurns = 0
SYMMETRY Symmetry
INVARIANT RefundRevokes
CHECK_DEADLOCK FALSE
