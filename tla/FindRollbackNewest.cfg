SPECIFICATION Spec
CONSTANTS
    Backups = {b1}
    Files = {f1}
    MaxNow = 3
    Limit <- FewEvents
INVARIANT RollbackRestores
CHECK_DEADLOCK FALSE
