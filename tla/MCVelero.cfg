SPECIFICATION FairSpec
CONSTANTS
    Setups <- MCSetups
    FaultKinds = {"error", "lost", "cancel", "partial", "fail", "hook", "pull", "app"}
    MaxRuns = 2
INVARIANTS VeleroServes JobsInOrder
PROPERTIES RunningKept Ends
CHECK_DEADLOCK FALSE
