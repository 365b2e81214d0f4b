\* The lock may expire under a check, nothing else goes wrong: what holds only while
\* every handler runs to its end.
CONSTANTS
    w1 = w1
    i1 = i1
    i2 = i2
    i3 = i3
    w2 = w2
    o1 = o1
    Workers <- OneWorker
    Operators <- Nobody
    Incidents <- TwoIncidents
    NoIncident = NoIncident
    FailureThreshold = 3
    RecoveryThreshold = 2
    ServiceCalls <- AllCalls
    RetryCount = 1
    Counted <- AllAlerts
    Faults <- ExpiryOnly
SPECIFICATION Spec
SYMMETRY IncidentSymmetry
INVARIANT DownWasAnnounced
INVARIANT OpenOnlyWhenDown
INVARIANT HealthyHasNoIncident
