SPECIFICATION FairSpec
CONSTANTS
    Volumes = {1, 2, 3, 4}
    Setups <- MCSetups
    Randoms = {1, 2}
    MaxEdits = 1
    MaxChanges = 2
    MaxFaults = 1
    MaxMigs = 1
    MaxSpent = 2
INVARIANTS ReadyIsJustified VolumesListed ClosedIsClean
PROPERTIES WorkKept Settles
CHECK_DEADLOCK FALSE
