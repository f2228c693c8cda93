SPECIFICATION FairSpec
CONSTANTS
    Migrations = {"f1", "f2", "r"}
    MaxCreated = 3
    Plans <- MCBare
    SpecOf <- MCSpecOf
    Cancelable = {}
    LateStages = FALSE
    SameSecond = FALSE
    FaultKinds = {"early", "error"}
    MaxFaults = 1
CHECK_DEADLOCK FALSE
INVARIANTS
    NoSecondFinal
PROPERTIES
    SerialQueue
    Progress
