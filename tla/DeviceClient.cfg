\* One command at a time on one device: three pairs, two restarts, two kills.
CONSTANTS
    Procs = {p1}
    Devices <- OneDevice
    SafeChars <- LettersAndDigits
    MaxPairs = 3
    MaxEpoch = 2
    MaxKills = 2
SPECIFICATION FairSpec
INVARIANTS
    TypeOK
    RecordMatchesServer
    SecretsOnDiskFirst
PROPERTIES
    EnrollRepairs
    RefusedOnlyAfterRestart
\* The bounds leave nothing to do when the file is torn and no pair is left.
CHECK_DEADLOCK FALSE
