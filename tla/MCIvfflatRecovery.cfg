SPECIFICATION SpecWithLog
CONSTANTS
    r1 = r1
    r2 = r2
    r3 = r3
    t1 = t1
    t2 = t2
    t3 = t3
    NoRow = NoRow
    NoTid = NoTid
    NumLists = 1
    Rows <- Rows3
    Tids = {t1, t2, t3}
    ListOf <- OneList
    Built = {}
    Capacity = 1
    FirstEntry = 2
    MaxBlocks = 6
    WalBuffers = 2
SYMMETRY RowTidSymmetry
INVARIANTS
    LogComplete
    EveryPrefixConsistent
    LostPagesAreEmpty
    RecoveredIsIndex
