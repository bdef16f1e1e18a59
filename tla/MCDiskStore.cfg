SPECIFICATION MCSpec
CONSTANTS
    Keys = {k1}
    Values = {v1}
    Absent = Absent
    Journaled = TRUE
    Durabilities = {"per_commit", "write_behind"}
    GarbledCuts = TRUE
    MaxRevision = 4
    MaxTime = 4
INVARIANTS
    ServesAcknowledged
    CrashKeepsAcknowledged
    CutKeepsSafe
    ReplayNeverRefuses
PROPERTIES
    ImplementsDurableStore
    CommitsAreFlushed
    CatchesUp
