\* A worker that may die between creating an incident and storing DOWN.
CONSTANTS
    w1 = w1
    i1 = i1
    i2 = i2
    i3 = i3
    w2 = w2
    o1 = o1
    Workers <- OneWorker
    Operators <- Nobody
    Incidents <- TwoIncidents
    NoIncident = NoIncident
    FailureThreshold = 3
    RecoveryThreshold = 2
    ServiceCalls <- NoCalls
    RetryCount = 1
    Counted <- NoAlertTypes
    Faults <- CrashOnly
SPECIFICATION Spec
SYMMETRY IncidentSymmetry
INVARIANT HealthyHasNoIncident
