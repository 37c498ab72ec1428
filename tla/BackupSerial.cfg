SPECIFICATION Spec
CONSTANTS
    Backups = {b1, b2}
    Files = {f1, f2}
    Chunks = {c1, c2}
    c1 = c1
    c2 = c2
    Contents <- TwoContents
    Main = Main
    None = None
    Concurrency = 2
    MaxCalls = 1
    ErasureCoding = FALSE
    Limit <- OfEach
    MaxEvents = 4
INVARIANTS
    TypeOK
    
    
    NeverUndercounted
    EarlyCancelNeverCommits
    AcknowledgedSurvives
PROPERTY ImplementsSnapshotLog
SYMMETRY Symmetry
