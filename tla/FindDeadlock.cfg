SPECIFICATION Spec
CONSTANTS
    Backups = {b1, b2}
    Files = {f1, f2}
    Chunks = {c1, c2}
    c1 = c1
    c2 = c2
    Contents <- OneContent
    Main = Main
    None = None
    Concurrency = 2
    MaxCalls = 2
    ErasureCoding = FALSE
    Limit <- OneCancel
    MaxEvents = 1
INVARIANT NoLockCycle
