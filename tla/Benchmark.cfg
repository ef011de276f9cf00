\* Two devices, four pairs, a second users file, one restart and one broken
\* run; two workers with three requests between them.
CONSTANTS
    Count = 2
    MaxPairs = 4
    MaxFiles = 2
    MaxRestarts = 1
    MaxBreaks = 1
    Concurrency = 2
    MaxRequests = 3
SPECIFICATION FairSpec
INVARIANTS
    TypeOK
    CredentialsKept
    UnreadableOnlyIfCut
    LateAtMostOnePerWorker
    PercentilesSound
PROPERTIES
    CleanFileIsAccepted
    LoadTestEnds
\* The bounds leave nothing to do when a line is bad and no pair or file is left.
CHECK_DEADLOCK FALSE
