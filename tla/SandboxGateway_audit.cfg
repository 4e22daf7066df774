SPECIFICATION Spec
CONSTANTS
    Actions = {a1, a2}
    MaxConnections = 1
    MaxFaults = 0
INVARIANT ExecutedIsAudited
CHECK_DEADLOCK FALSE
