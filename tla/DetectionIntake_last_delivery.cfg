CONSTANTS
    Messages = {1}
    Detections = {d1}
    Keys = {k1}
    Malformed = {d1}
    Workers = {w1}
    BatchSize = 1
    max_deliver = 2
    MaxFaults = 1
SPECIFICATION FairSpec
PROPERTIES Settled
CHECK_DEADLOCK FALSE
