\* Two subscriptions, three changes or refunds and two periods; two refunds of a
\* charge of two units with two deliveries at a time; two plans, two cancel
\* requests and one turn in the portal.
SPECIFICATION MCSpec
CONSTANTS
    Subs = {s1, s2}
    MaxChanges = 3
    LastPeriod = 2
    Refunds = {r1, r2}
    Handlers = {h1, h2}
    Amount = 2
    MaxPending = 2
    Plans = {p1, p2}
    Clicks = {c1, c2}
    MaxTurns = 1
SYMMETRY Symmetry
INVARIANTS NeverAhead TierFollowsMirror RefundsAreTrue CancellationsAreReal PagesAgree
CHECK_DEADLOCK FALSE
