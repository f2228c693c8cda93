SPECIFICATION Spec
CONSTANTS
    Migrations = {"f1", "r", "s"}
    MaxCreated = 2
    Plans <- MCAll
    SpecOf <- MCSpecOf
    Cancelable = {"f1"}
    LateStages = FALSE
    SameSecond = FALSE
    FaultKinds = {"late", "planNotReady", "registry", "error", "conflict", "fail", "warn", "save", "lost"}
    MaxFaults = 2
CHECK_DEADLOCK FALSE
INVARIANTS
    HonestVerdict
PROPERTIES
    ClustersSafe
    CancelCleansUp
