SPECIFICATION Spec
CONSTANTS
    Objects = {o1, o2}
    MaxPacks = 2
    Threshold = 2
    Limit <- OneCrash
INVARIANT AcknowledgedReadable
