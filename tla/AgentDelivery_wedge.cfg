SPECIFICATION FairSpec
CONSTANTS
    UrgentKinds = {"spider.tamper"}
    MaxEvents = 2
    MaxFaults = 0
    MaxCorruptions = 0
    QueueCapacity = 2
    BatchSize = 2
PROPERTY QueueDrains
CHECK_DEADLOCK FALSE
