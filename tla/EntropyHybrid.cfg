\* Three requests of up to two bytes against a threshold of three.
CONSTANTS
    Tasks = {t1, t2, t3}
    MaxN = 2
    Threshold = 3
SPECIFICATION FairSpec
INVARIANTS
    TypeOK
    StretchBounded
PROPERTIES
    FreshAfterExhaustion
    EveryRequestEnds
    ExhaustedIsReseeded
