SPECIFICATION ReadTimeSpec
CONSTANTS
    k1 = k1
    k2 = k2
    small = small
    large = large
    Keys = {k1, k2}
    Values = {small, large}
    Absent = Absent
    CollectionOf <- MCCollectionOf
    Size <- MCSize
    MaxEntries = 2
    MaxBytes = 4
    MaxWrites = 2
    MaxRevision = 3
    MaxTime = 4
INVARIANTS
    ReadTimesHold
