SPECIFICATION MCSpec
CONSTANTS
    Keys = {k1, k2}
    Stored = {1, 2, 3}
    Absent = 0
    Tokens = {t1}
    NoToken = NoToken
    Workers = {w1, w2}
    MaxRevision = 3
    Readers = {r1, r2}
SYMMETRY Symmetric
INVARIANTS
    ReadsHoldAtCommit
    JudgedIsReplaced
    ResponseIsOwnCommit
    CommitsOnce
    DirectoriesKept
    RulesDiagnosed
CHECK_DEADLOCK FALSE
