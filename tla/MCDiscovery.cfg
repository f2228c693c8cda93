SPECIFICATION FairSpec
CONSTANTS
    Collections <- MCCollections
    Capacity = 2
    FaultKinds = {"start", "list", "busy", "gap", "crash", "secret"}
    MaxFaults = 1
    MaxChanges = 3
    MaxTurns = 2
    MaxSpent = 3
INVARIANTS Faithful
PROPERTIES NeverBack CatchesUp
CHECK_DEADLOCK FALSE
