SPECIFICATION Spec
CONSTANTS
    Backups = {b1, b2}
    Files = {f1, f2}
    MaxNow = 3
    Limit <- FewEvents
SYMMETRY Symmetry
INVARIANTS
    TypeOK
    Captured
    NeverOlder
CHECK_DEADLOCK FALSE
