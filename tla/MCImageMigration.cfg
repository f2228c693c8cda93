SPECIFICATION FairSpec
CONSTANTS
    Streams = {1, 2}
    Setups <- MCSetups
    MaxChanges = 2
    MaxFaults = 1
    MaxSpent = 2
INVARIANTS AllAccounted Done
PROPERTIES Ends
CHECK_DEADLOCK FALSE
