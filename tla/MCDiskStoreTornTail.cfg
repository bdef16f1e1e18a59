SPECIFICATION DiskSpec
CONSTANTS
    Keys = {k1}
    Values = {v1}
    Absent = Absent
    Journaled = TRUE
    Durabilities = {"per_commit", "write_behind"}
    GarbledCuts = TRUE
    MaxRevision = 2
    MaxTime = 2
INVARIANTS
    TornTailEndsReplay
