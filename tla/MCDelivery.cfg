\* Three events through a queue of two, one fault of any kind; two messages
\* and two workers; three command frames.
SPECIFICATION DeliverySpec
CONSTANTS
    UrgentKinds = {"spider.fingerprint_snapshot"}
    MaxEvents = 3
    MaxFaults = 1
    MaxCorruptions = 1
    QueueCapacity = 2
    BatchSize = 2
    Messages = {m1, m2}
    Unconfirmed = {m1}
    Workers = {w1, w2}
    MaxCalls = 2
    MaxMessageFaults = 1
    MaxActions = 3
    MaxFrames = 3
    MaxDeaths = 1
SYMMETRY WorkerSymmetry
INVARIANTS
    NothingLost
    DeliveredOnce
    
PROPERTIES
    AcceptedOnlyIfAuthorised
    NoEffectAfterReceipt
    ImplementsLog
    
CHECK_DEADLOCK FALSE
