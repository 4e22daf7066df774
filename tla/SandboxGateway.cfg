SPECIFICATION FairSpec
CONSTANTS
    Actions = {a1, a2}
    MaxConnections = 2
    MaxFaults = 2
INVARIANTS
    VersionCountsChanges
    
    ExecutedOnce
PROPERTY CallsEnd
CHECK_DEADLOCK FALSE
