SPECIFICATION Spec
CONSTANTS
    DataShards = 8
    ParityShards = 2
    Limit <- Events
INVARIANTS
    IndexedHasData
    ToleratesRot
