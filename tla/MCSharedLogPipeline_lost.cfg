\* A REPLICATE message whose send fails is never resent: the append is
\* never sequenced, nor is any later append of its shard.
CONSTANTS
    s1 = s1  s2 = s2  st1 = st1  st2 = st2  b1 = b1  b2 = b2  b3 = b3
    Shards <- MCOneShard
    Storages <- MCStorages
    ShardStorages <- MCOneShardStorages
    Backups <- MCOneBackup
    InitialUnblocked <- MCOneShard
    MaxAppends <- MCOneShardAppends
    MaxLiveEntries = 1
    ReadRequests <- MCNoReads
    LoseReplicate = TRUE
    ScaleIn = FALSE
    Finalize = FALSE
    OK = OK  LookupDB = LookupDB  Failed = Failed
SPECIFICATION Spec
PROPERTIES
    AppendsEventuallyAcked
\* The engines issue MaxAppends appends each; afterwards the timers of the
\* nodes keep firing without changing anything, so the model may stop.
CHECK_DEADLOCK FALSE
