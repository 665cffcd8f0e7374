SPECIFICATION Spec
CONSTANTS
    r1 = r1
    r2 = r2
    r3 = r3
    r4 = r4
    r5 = r5
    t1 = t1
    t2 = t2
    t3 = t3
    t4 = t4
    t5 = t5
    NoRow = NoRow
    NoTid = NoTid
    DefaultLists = 3
    ListsOption = 2
    Built = {r1, r2, r3, r4, r5}
    Tids = {t1, t2, t3, t4, t5}
    TidOf <- OwnTid
    ListOf <- ThreeLists
    Capacity = 2
    ListsPerPage = 2
    MaxBlocks = 7
INVARIANTS
    ListsAsRequested
