\* Two requests on one shard, one disconnection.
CONSTANTS
    Tasks = {t1, t2}
    PoolSize = 1
    MaxN = 1
    Threshold = 1
    MaxDrops = 1
SPECIFICATION FairSpec
PROPERTY
    ShardIsReseeded
