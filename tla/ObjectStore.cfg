SPECIFICATION Spec
CONSTANTS
    Objects = {o1, o2, o3}
    MaxPacks = 2
    Threshold = 2
    Limit <- TwoCrashes
INVARIANTS
    TypeOK
    NeverForeign
    WrittenReadable
PROPERTY ReadableStays
SYMMETRY Symmetry
