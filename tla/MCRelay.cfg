SPECIFICATION OutgoingSpec
CONSTANTS
    Events = {1, 2, 3}
    Poison = {1}
    Relays = {r1, r2}
    BatchSize = 2
    ALERT_AFTER_ATTEMPTS = 2
    MaxFaults = 2
    MaxExpiries = 1
    AiCallers = {a1, a2}
    BudgetLimit = 2
    BreakerFailures = 2
    Slots = 1
    MaxAiRetries = 1
    MaxRequests = 6
    Sizes = {1, 3}
    ListCap <- MCListCap
    Protected = 2
    MaxSnapshot = 6
INVARIANTS
    DuplicatesNeedExpiry
    StaleChecksAreBounded
    TrimsLeastInOrder
PROPERTIES
    ImplementsOutbox
    Delivered
    EveryCallReturns
CHECK_DEADLOCK FALSE
