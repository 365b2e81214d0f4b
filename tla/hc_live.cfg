\* Convergence after every kind of fault. A disabled service may stop: no deadlock check.
CONSTANTS
    w1 = w1
    i1 = i1
    i2 = i2
    i3 = i3
    w2 = w2
    o1 = o1
    Workers <- OneWorker
    Operators <- Nobody
    Incidents <- TwoIncidents
    NoIncident = NoIncident
    FailureThreshold = 2
    RecoveryThreshold = 2
    ServiceCalls <- ToggleOnly
    RetryCount = 1
    Counted <- NoAlertTypes
    Faults <- AllFaults
SPECIFICATION LiveSpec
CHECK_DEADLOCK FALSE
PROPERTY Recovers
PROPERTY Detects
PROPERTY ProbesAgain
PROPERTY SettlesDegraded
