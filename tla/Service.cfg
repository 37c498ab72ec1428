\* The clients are gone and the work is done.
CHECK_DEADLOCK FALSE
SPECIFICATION FairService
CONSTANTS
    r1 = r1
    r2 = r2
    r3 = r3
    Restores = {r1, r2, r3}
    Live = Live
    Scripts <- MCScripts
    MaxCrashes = 1
INVARIANTS
    TypeOK
    WorldOnDisk
    LiveKept
    WorldInPlace
    AnswersTrue
PROPERTIES
    OldRemoved
    ConnectionsSettle
