SPECIFICATION Spec
CONSTANTS
    Migrations = {"f1"}
    Plans <- MCBare
    SpecOf <- MCSpecOf
    Cancelable = {}
    MaxCreated = 1
    LateStages = FALSE
    SameSecond = FALSE
    FaultKinds = {"error", "early"}
    MaxFaults = 2
CHECK_DEADLOCK FALSE
INVARIANTS
    ErrorsNeverSucceed
