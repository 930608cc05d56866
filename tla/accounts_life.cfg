\* Two of each kind of request, one invite code, two seats to give, one user who leaves.
SPECIFICATION MCSpec
CONSTANTS
    Users = {"founder", "ann", "bob"}
    Founder = "founder"
    Leavers = {"ann"}
    Registrations = {r1, r2}
    Codes = {"code"}
    NoCode = "no code"
    MaxUses = 1
    HourlyLimit = 1
    LastHour = 2
    Txns = {x1, x2}
    LastInvitation = 3
    Staff = "staff"
    SeatLimits = {2, 3}
    SeatCap = 3
    Roles = {"owner", "member"}
    Submissions = {s1, s2}
    Batch = 1
SYMMETRY RequestSymmetry
CONSTRAINT Bounds
INVARIANTS RegistrationsCount ErasedWhenCompleted
PROPERTY SeatRules
CHECK_DEADLOCK FALSE
