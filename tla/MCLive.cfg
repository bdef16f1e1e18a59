SPECIFICATION MCSpec
CONSTANTS
    Topics = {t}
    Subs = {s}
    Snapshots = {}
    NoKey = NoKey
    OrderingKeys = {NoKey}
    NoPolicy = NoPolicy
    Settings <- MCSettings
    Configs <- MCConfigs
    Retaining = {t}
    MaxMessages = 2
    MaxAcks = 1
    MaxGeneration = 2
    MaxJobs = 2
    Free = Free
    Never = Never
    NoLimit = NoLimit
    Idle = Idle
INVARIANTS
    PushesKept
PROPERTIES
    EveryTaskEnds
    PushesSettle
CHECK_DEADLOCK FALSE
