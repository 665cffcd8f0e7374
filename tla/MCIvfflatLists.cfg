SPECIFICATION Spec
CONSTANTS
    \* Distances below, at and beyond the ends of the range
    MaxCenters = 4
    MaxDistance = 2
    Elements <- SmallIntegers
    Dim = 2
    ListCount = 2
    MaxRows = 2
    \* Enough distances for the lists to be in any order, with and without ties;
    \* fewer probes than lists, as many, and more
    NumLists = 4
    ListDistances = {0, 1, 2, 3}
    ProbeCounts = {1, 2, 3, 4, 5}
    MaxBlocks = 3
    MaxBlockRows = 3
    Heaps <- SmallHeaps
    MaxSamples = 2
    MaxSkip = 2
    \* Valid values, and the first ones beyond them on both sides
    MaxListCount = 4
    Values = {0, 1, 2, 4, 5}
    Unset = Unset
    PageCounts = {0, 1, 5}
    PageCosts = {1, 4}
    CpuCosts = {0, 3}
    LoopCounts = {1, 2}
    Idle = Idle
INVARIANTS
    SameListAsBuild
    ScanOrderIsOperators
    ListsAreClusters
    ProbesNearest
    SampleIsReservoir
    ScanHasLists
    CostsInOrder
