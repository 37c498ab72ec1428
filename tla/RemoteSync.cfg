SPECIFICATION FairSpec
CONSTANTS
    Sessions = {p1, p2}
    Files = {f1, f2}
    Window = 2
    MaxEvents = 2
    Limit <- OneOfEach
INVARIANTS
    TypeOK
    
    QuietReadable
PROPERTY EverySessionEnds
