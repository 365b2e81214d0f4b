\* Two replicas and one fault for the circuit, three workers, a lock that lives for
\* four ticks and one retry for the check lock, two ticks of timeout and three chunks
\* for a probe, two services (one perhaps listed without an id), two intervals, three
\* edits and one fault for the reconciliation, two tabs and three moves of their user
\* for the session, thresholds of one and two for the edits.  A probe that is over, or waits for
\* ever, and a tab that is left alone do nothing more.
CONSTANTS
    w1 = w1
    w2 = w2
    w3 = w3
    s1 = s1
    s2 = s2
    b1 = b1
    b2 = b2
    short = short
    long = long
    Replicas <- TwoReplicas
    Cooldown = 1
    Glitches = 1
    MaxPending = 1
    Workers <- ThreeWorkers
    Timeout = 2
    Second = 1
    RetryCount = 1
    Punctual = FALSE
    IdleLimit = 2
    MaxChunks = 3
    Services <- TwoServices
    Intervals <- TwoIntervals
    Syncers <- TwoReplicas
    MaxEdits = 3
    MaxFailures = 1
    Tabs <- TwoTabs
    MaxMoves = 3
    Limits <- TwoLimits
    MaxCount = 3
SPECIFICATION Spec
CHECK_DEADLOCK FALSE
INVARIANT TypeOK
INVARIANT AlertsTellState
INVARIANT OverlapOutlivesLock
INVARIANT DurationBounded
INVARIANT QuietRoundIsExact
PROPERTY CooldownKept
PROPERTY ProbeComesBack
PROPERTY LockExpires
PROPERTY SchedulersConverge
PROPERTY SessionEnds
PROPERTY EndsAsFound
