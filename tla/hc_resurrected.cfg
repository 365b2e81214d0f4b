\* A worker resolves what an operator is about to acknowledge.
CONSTANTS
    w1 = w1
    i1 = i1
    i2 = i2
    i3 = i3
    w2 = w2
    o1 = o1
    Workers <- OneWorker
    Operators <- OneOperator
    Incidents <- TwoIncidents
    NoIncident = NoIncident
    FailureThreshold = 3
    RecoveryThreshold = 2
    ServiceCalls <- NoCalls
    RetryCount = 1
    Counted <- NoAlertTypes
    Faults <- NoFaults
SPECIFICATION Spec
SYMMETRY IncidentSymmetry
PROPERTY ResolvedIsFinal
