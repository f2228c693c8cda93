SPECIFICATION FairSpec
CONSTANTS
    Ids = {1, 2, 3, 4}
    Setups <- MCSetups
    FaultKinds = {"error", "conflict", "crash", "cancel", "list", "user"}
    MaxFaults = 1
    MaxRuns = 3
INVARIANTS Quiet  ConversionSafe
PROPERTIES Ends
CHECK_DEADLOCK FALSE
