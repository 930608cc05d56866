\* Two transactions, a month change, plan limits 0 and 1.
SPECIFICATION FairSpec
CONSTANTS
    Txns = {t1, t2}
    Requests <- MCRequests
    LastPeriod = 2
    Limits = {0, 1}
    NoRequest = none
INVARIANT ChargesAreTrue
PROPERTIES ChargesWithinLimit ImplementsMeter RequestsEnd
