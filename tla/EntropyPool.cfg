\* Two requests over two shards, one disconnection.
CONSTANTS
    Tasks = {t1, t2}
    PoolSize = 2
    MaxN = 1
    Threshold = 1
    MaxDrops = 1
SPECIFICATION FairSpec
INVARIANTS
    TypeOK
    OneReseeder
    FlagHasOwner
    ShardStretchBounded
PROPERTIES
    PoolServesEveryRequest
    ReseededUnlessDropped
