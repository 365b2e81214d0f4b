\* One worker, every fault but the lost lock, the whole API except operators.
CONSTANTS
    w1 = w1
    i1 = i1
    i2 = i2
    i3 = i3
    w2 = w2
    o1 = o1
    Workers <- OneWorker
    Operators <- Nobody
    Incidents <- TwoIncidents
    NoIncident = NoIncident
    FailureThreshold = 3
    RecoveryThreshold = 2
    ServiceCalls <- AllCalls
    RetryCount = 1
    Counted <- AllAlerts
    Faults <- OutageFaults
SPECIFICATION Spec
SYMMETRY IncidentSymmetry
INVARIANT TypeOK
INVARIANT DownHasIncident
INVARIANT AtMostOneActiveIncident
INVARIANT AlertsOnce
PROPERTY ImplementsMonitor
