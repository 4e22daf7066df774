SPECIFICATION LifecycleSpec
CONSTANTS
    Callers = {c1, c2}
    Must = {m1}
    Should = {s1, s2, s3, s4}
    MaxEvaluations = 2
    MaxReports = 2
    MaxRetries = 2
    Directives = {d1, d2}
    StrategyWorkers = {c1, c2}
    Keys = {s1, s2, s3, s4}
    DeployCallers = {c1, c2}
    Scanners = {c1, c2}
    MaxDeployFaults = 1
    EvidenceRows = {1, 2}
    Verifiers = {c1, c2}
    MaxMishaps = 2
SYMMETRY Symmetry
INVARIANTS
    EngagedWasGated
    
    OverlapIsContained
    DamageBlocksExport
PROPERTIES
    StrategyOncePerDirective
    ImplementsGatedCase
CHECK_DEADLOCK FALSE
