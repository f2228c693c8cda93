CONSTANTS
    PVCs = {v1, v2}
    Plans <- PlansOf
    Limit = 2
    FaultKinds = {"error", "conflict", "lost", "pod", "pods", "label", "timeouts", "evict", "blocked", "vm", "list", "stop", "start", "delete"}
SPECIFICATION FairSpec
INVARIANTS OneWriter GoneIsClean
PROPERTIES SuccessHolds Ends
CHECK_DEADLOCK FALSE
