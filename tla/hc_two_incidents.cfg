\* Two replicas, no faults: the short-circuited checks take no lock.
CONSTANTS
    w1 = w1
    i1 = i1
    i2 = i2
    i3 = i3
    w2 = w2
    o1 = o1
    Workers <- TwoWorkers
    Operators <- Nobody
    Incidents <- TwoIncidents
    NoIncident = NoIncident
    FailureThreshold = 1
    RecoveryThreshold = 1
    ServiceCalls <- NoCalls
    RetryCount = 0
    Counted <- NoAlertTypes
    Faults <- NoFaults
SPECIFICATION Spec
SYMMETRY FleetSymmetry
INVARIANT AtMostOneActiveIncident
