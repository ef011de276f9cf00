\* One device that re-enrols with other keys while two requests are in flight;
\* malformed, oversized and unsigned requests beside good ones; two nonces
\* against a cap of one; the clock, the sweeper and a restart.
CONSTANTS
    d1 = d1
    k1 = k1
    k2 = k2
    x1 = x1
    x2 = x2
    Devices = {d1}
    Nonces = {x1, x2}
    Pairs = {k1, k2}
    BadKey = BadKey
    Nobody = Nobody
    Tasks = {t1, t2}
    TTL = 1
    Cap = 1
    MaxTime = 1
    MaxRestarts = 1
    Requests <- MixedRequests
    Enrolments <- MixedEnrolments
SPECIFICATION Spec
SYMMETRY Symmetry
INVARIANTS
    TypeOK
    ServedWithCurrentKeys
    SpentOnlyBySigner
PROPERTY
    ImplementsNonceCache
