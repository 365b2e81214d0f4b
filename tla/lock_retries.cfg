\* Two workers, one retry, and everything as quick as it should be.
CONSTANTS
    Workers = {w1, w2}
    Timeout = 5
    Second = 2
    RetryCount = 1
    Punctual = TRUE
SPECIFICATION LockSpec
INVARIANT NoOverlap
