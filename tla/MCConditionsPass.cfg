SPECIFICATION Spec
CONSTANTS
    Catalog <- MCCatalog
    ClosedDrops <- MCClosedDrops
    MaxFaults = 2
INVARIANTS
    TypeOK
    ReadyExcludesBlockers
PROPERTIES
    DurableKeptByStagedPass
    UnstagedDisappears
