SPECIFICATION Spec
CONSTANTS
    Backups = {b1, b2}
    Pruners = {p1, p2}
    Chunks = {c1}
    Keep <- KeepAny
    MaxSnapshots = 3
    MaxCalls = 2
    MaxCrashes = 1
INVARIANTS
    
    KeepsNewest
    ReleasedOnce
    
PROPERTY PinnedKept
SYMMETRY Symmetry
