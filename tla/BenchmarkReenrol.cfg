\* One device enrolled again in the same users file after a restart.
CONSTANTS
    Count = 1
    MaxPairs = 2
    MaxFiles = 1
    MaxRestarts = 1
    MaxBreaks = 0
    Concurrency = 1
    MaxRequests = 1
SPECIFICATION Spec
PROPERTY
    ReenrolledIsAccepted
\* The bounds leave nothing to do when no pair is left.
CHECK_DEADLOCK FALSE
