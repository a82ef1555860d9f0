\* Every table of 1 to 3 index shards over two index nodes with picker counters
\* 0 to 3; every shard of 1 to 3 of three storage nodes with at least one
\* reachable, read with counter values starting at 0 to 3.
CONSTANTS
    IndexNodes = {i1, i2}
    MaxIndexShards = 3
    StorageNodes = {st1, st2, st3}
    MaxCounter = 3
INIT Init
NEXT Next
INVARIANTS
    IndexNodesOnePerShard
    ReadReachesReachableReplica
