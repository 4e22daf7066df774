CONSTANTS
    Messages = {1, 2}
    Detections = {d1, d2, d3}
    Keys = {k1}
    Malformed = {d3}
    Workers = {w1, w2}
    BatchSize = 2
    max_deliver = 2
    MaxFaults = 1
SPECIFICATION FairSpec
INVARIANT EffectOnce
PROPERTIES SettledOrUsedUp ImplementsCorrelation
CHECK_DEADLOCK FALSE
