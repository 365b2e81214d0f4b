\* Two replicas of the worker, crashes and Redis errors.
CONSTANTS
    w1 = w1
    i1 = i1
    i2 = i2
    i3 = i3
    w2 = w2
    o1 = o1
    Workers <- TwoWorkers
    Operators <- Nobody
    Incidents <- TwoIncidents
    NoIncident = NoIncident
    FailureThreshold = 2
    RecoveryThreshold = 2
    ServiceCalls <- NoCalls
    RetryCount = 0
    Counted <- NoAlertTypes
    Faults <- CrashAndRedis
SPECIFICATION Spec
SYMMETRY FleetSymmetry
INVARIANT LockedSectionExclusive
