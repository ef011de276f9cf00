\* Two devices whose nonces fit under the cap, no restart: the ideal window.
CONSTANTS
    Devices = {d1, d2}
    Nonces = {x1, x2}
    Callers = {c1, c2}
    TTL = 1
    Cap = 2
    MaxTime = 2
    MaxRestarts = 0
SPECIFICATION FairSpec
PROPERTIES
    ImplementsReplayWindow
    ExpiredEntriesSwept
