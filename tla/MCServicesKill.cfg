SPECIFICATION StorageSpec
CONSTANTS
    Names = {"a", "b"}
    Topics = {"t"}
    Definitions = {1, 2}
    Payloads = {1, 2}
    Admits <- MCAdmits
    MaxRevisions = 3
    Emails = {e1, e2}
    Phones = {p1}
    Passwords = {w}
    RawIds = {r}
    Passkeys = {pk}
    None = None
    Threads = {t1, t2}
    Keys = {k1}
    Bytes = {b1, b2}
    Auths = {"user"}
    MaxStorageRequests = 1
    MaxCrashes = 0
    Modes = {"WriteBehind"}
INVARIANTS
    ChangesSurvive
CHECK_DEADLOCK FALSE
