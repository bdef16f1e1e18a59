SPECIFICATION MCSpec
CONSTANTS
    Topics = {t}
    Subs = {s}
    Snapshots = {snapshot}
    NoKey = NoKey
    OrderingKeys = {NoKey, k1}
    NoPolicy = NoPolicy
    Settings <- MCSettings
    Configs <- MCConfigs
    Retaining = {}
    MaxMessages = 3
    MaxAcks = 2
    MaxGeneration = 1
    MaxJobs = 1
PROPERTIES
    PullsExact
CHECK_DEADLOCK FALSE
