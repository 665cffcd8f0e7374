SPECIFICATION OwnTidsSpec
CONSTANTS
    r1 = r1
    r2 = r2
    r3 = r3
    r4 = r4
    r5 = r5
    t1 = t1
    t2 = t2
    t3 = t3
    t4 = t4
    NoRow = NoRow
    NoTid = NoTid
    NumLists = 2
    Rows <- Rows4
    Tids = {t1, t2, t3, t4}
    ListOf <- EachList
    Built = {r1, r2}
    Capacity = 1
    FirstEntry = 2
    MaxBlocks = 6
PROPERTIES
    InsertTerminates
    VacuumTerminates
