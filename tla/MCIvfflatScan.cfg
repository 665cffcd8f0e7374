SPECIFICATION SpecWithScan
CONSTANTS
    r1 = r1
    r2 = r2
    r3 = r3
    t1 = t1
    t2 = t2
    q1 = q1
    q2 = q2
    NoRow = NoRow
    NoTid = NoTid
    NumLists = 2
    Rows = {r1, r2, r3}
    Tids = {t1, t2}
    ListOf <- TwoLists
    Built = {r1}
    Capacity = 1
    FirstEntry = 2
    MaxBlocks = 5
    Queries = {q1, q2}
    CenterDistance <- Centers
    Distance <- Vectors
    Probes = {1, 3}
INVARIANTS
    ResultSound
    ResultComplete
    ResultSorted
    ScanInv
