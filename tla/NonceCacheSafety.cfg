\* Two callers, three nonces against a cap of two, one restart.
CONSTANTS
    Devices = {d1}
    Nonces = {x1, x2, x3}
    Callers = {c1, c2}
    TTL = 2
    Cap = 2
    MaxTime = 4
    MaxRestarts = 1
SPECIFICATION Spec
SYMMETRY Symmetry
INVARIANTS
    TypeOK
    CapBound
    CacheMatchesHistory
PROPERTIES
    ReuseOnlyAfterLapse
    NoFalseReplay
