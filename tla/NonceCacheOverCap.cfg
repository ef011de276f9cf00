\* One nonce more than the cap, no restart, one caller at a time.
CONSTANTS
    Devices = {d1}
    Nonces = {x1, x2, x3}
    Callers = {c1}
    TTL = 2
    Cap = 2
    MaxTime = 3
    MaxRestarts = 0
SPECIFICATION Spec
PROPERTY
    RejectsReuseWithinTtl
