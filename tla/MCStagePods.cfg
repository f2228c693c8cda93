SPECIFICATION FairSpec
CONSTANTS
    Ids = {1, 2, 3, 4, 5, 6}
    Setups <- MCSetups
    PerPass = 3
    FaultKinds = {"error", "conflict", "crash", "cancel", "list", "restart", "pod", "velero"}
    MaxFaults = 1
    MaxRuns = 2
INVARIANTS BackupComplete StagePodsFit NothingLeft
PROPERTIES Ends
CHECK_DEADLOCK FALSE
