SPECIFICATION EnrolmentSpec
CONSTANTS
    Agents = {a1}
    SomeCallers = {c1, c2}
    OtherCallers = {c3, c4}
    Callers <- MCCallers
    MaxTokens = 2
    Tokens = {t1, t2}
    OneTime = {t1}
    Ids = {1, 2}
    Numbers = {1, 2}
    EvidenceBytes = {x}
    Calls = {p1, p2}
    MaxRows = 2
    MaxLedgerFaults = 1
    Requests = {q1, q2}
    Ttl = 1
    MaxDelay = 1
    MaxTicks = 4
    CaseEvents <- MCCaseEvents
    Transactions = {x1, x2}
    MaxTransactions = 3
    MaxStreamBatch = 2
    CloudResources <- MCCloudResources
    MaxAttempts = 3
    MaxStepFaults = 2
    MaxOperations = 3
    MaxInstallFaults = 1
SYMMETRY CallerSymmetry
INVARIANTS
    TokenEnrolsOnce
    OrphansNeedFault
    CallbackHasOwnEvidence
    AnswerIsRecent
    StreamMissesNothing
    HolesAreFlagged
    EvidenceBeforeDestruction
    
PROPERTY NeverReadmitted
CHECK_DEADLOCK FALSE
