\* Routine telemetry only: everything goes through the queue.
SPECIFICATION RoutineSpec
CONSTANTS
    UrgentKinds = {}
    MaxEvents = 3
    MaxFaults = 2
    MaxCorruptions = 0
    QueueCapacity = 2
    BatchSize = 2
PROPERTIES QueueDrains
CHECK_DEADLOCK FALSE
