SPECIFICATION Spec
CONSTANTS
    MaxDim = 3
    MaxFloat = 12
    Magnitudes = {0, 1, 2, 3, 4, 6, 8, 12}
    Unit = 2
    MaxInt = 5
    BitsPerByte = 2
    Given <- SmallVectors
    Messages <- SmallMessages
    Arrays <- SmallArrays
    Texts <- SmallTexts
    Base = 3
    Digits = 1
    Tables <- SmallTables
    MaxTokens = 5
    MaxRows = 4
    Workers = {w1, w2, w3}
    NULL = NULL
    Idle = Idle
SYMMETRY WorkerSymmetry
INVARIANTS
    TypeOK
    SubvectorIsSlice
    OrderOfVectors
    QuantizedBits
    AcceptsGrammar
    DumpRestores
    AvgIsMean
    SumIsRounded
CHECK_DEADLOCK FALSE
