SPECIFICATION FairSpec
CONSTANTS
    NumSamples = 3
    NumCenters = 3
    Points <- Line
    MaxIterations = 3
    FltMax = 100
INVARIANTS
    BoundsSound
    AssignedToNearest
    KmeansInv
PROPERTIES
    ImplementsLloyd
    KmeansEnds
