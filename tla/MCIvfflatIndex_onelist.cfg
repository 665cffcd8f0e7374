SPECIFICATION Spec
CONSTANTS
    r1 = r1
    r2 = r2
    r3 = r3
    r4 = r4
    r5 = r5
    t1 = t1
    t2 = t2
    t3 = t3
    t4 = t4
    NoRow = NoRow
    NoTid = NoTid
    NumLists = 1
    Rows <- Rows4
    Tids = {t1, t2, t3}
    ListOf <- OneList
    Built = {}
    Capacity = 1
    FirstEntry = 2
    MaxBlocks = 5
SYMMETRY RowTidSymmetry
INVARIANTS
    ChainsWellFormed
    NoEntryOfFreedTid
    IndexInv
