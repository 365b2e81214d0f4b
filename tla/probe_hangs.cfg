\* Two ticks of timeout, one chunk.  A probe that is over does nothing more.
CONSTANTS
    IdleLimit = 2
    MaxChunks = 1
SPECIFICATION ProberSpec
CHECK_DEADLOCK FALSE
PROPERTY ProbeSettles
