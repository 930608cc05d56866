\* Two workers, one source; the bounds on rows and time stop the system.
SPECIFICATION FairSpec
CONSTANTS
    Workers = {w1, w2}
    Families = {"jphouse_23ku", "jphouse_osaka_wards"}
    Sources <- MCSources
    Inputs <- MCInputs
    Cadence = 1
    LastTick = 1
    MaxRuns = 2
    MaxInterruptions = 1
INVARIANTS RunsAreAccounted SnapshotsAccounted FeedSpacing
PROPERTIES RunsSettle
CHECK_DEADLOCK FALSE
