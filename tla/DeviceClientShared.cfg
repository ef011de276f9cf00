\* Two commands at a time, two device ids that share one file.
CONSTANTS
    Procs = {p1, p2}
    Devices <- TwoDevices
    SafeChars <- LettersAndDigits
    MaxPairs = 2
    MaxEpoch = 1
    MaxKills = 0
SPECIFICATION Spec
SYMMETRY Symmetry
INVARIANTS
    RecordMatchesServer
    UnreadableOnlyIfHurt
\* The bounds leave nothing to do when the file is torn and no pair is left.
CHECK_DEADLOCK FALSE
