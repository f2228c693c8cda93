SPECIFICATION Spec
CONSTANTS
    Plans <- MCPlans
    Specs <- MCSpecs
CHECK_DEADLOCK FALSE
INVARIANTS
    WaitsHaveStarters
    NothingLeftBehind
    DataBeforeFinalRestore
