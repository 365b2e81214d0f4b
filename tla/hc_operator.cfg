\* A worker against an operator who acknowledges and resolves incidents.
CONSTANTS
    w1 = w1
    i1 = i1
    i2 = i2
    i3 = i3
    w2 = w2
    o1 = o1
    Workers <- OneWorker
    Operators <- OneOperator
    Incidents <- ThreeIncidents
    NoIncident = NoIncident
    FailureThreshold = 2
    RecoveryThreshold = 2
    ServiceCalls <- RemoveOnly
    RetryCount = 0
    Counted <- ClosingAlerts
    Faults <- CrashOnly
SPECIFICATION Spec
SYMMETRY FleetSymmetry
INVARIANT RowConsistent
INVARIANT ResolvedBeforeAnnounced
