SPECIFICATION FairSpec
CONSTANTS
    Backups = {b1, b2}
    Files = {f1, f2}
    Chunks = {c1, c2}
    c1 = c1
    c2 = c2
    Contents <- OneContent
    Main = Main
    None = None
    Concurrency = 1
    MaxCalls = 2
    ErasureCoding = TRUE
    Limit <- OfEach
    MaxEvents = 1
INVARIANTS
    IdleWhenQuiet
    CycleTakesTwoCalls
    OnlyCancelledAbort
PROPERTY EveryCallReturns
\* The lock cycle really stops the program.
CHECK_DEADLOCK FALSE
