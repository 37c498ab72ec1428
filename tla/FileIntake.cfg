\* The file is read and the task ends.
CHECK_DEADLOCK FALSE
SPECIFICATION FairSpec
CONSTANTS
    MinSize = 3
    AvgSize = 4
    MaxSize = 9
    Window = 2
    Modulus = 16
    ReadSize = 6
    MaxBytes = 9
    Inputs <- MCInputs
INVARIANTS
    ExcludedAsMeant
    Lossless
    StreamAgrees
PROPERTY EveryFileEnds
