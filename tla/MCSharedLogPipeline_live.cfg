\* Every append is eventually answered when no message is lost and no shard
\* is blocked, under the weak fairness of timers and message delivery, and
\* answered exactly once when the view is finalized at any point.
CONSTANTS
    s1 = s1  s2 = s2  st1 = st1  st2 = st2  b1 = b1  b2 = b2  b3 = b3
    Shards <- MCOneShard
    Storages <- MCStorages
    ShardStorages <- MCOneShardStorages
    Backups <- MCOneBackup
    InitialUnblocked <- MCOneShard
    MaxAppends <- MCOneShardAppends
    MaxLiveEntries = 1
    ReadRequests <- MCNoReads
    LoseReplicate = FALSE
    ScaleIn = FALSE
    Finalize = TRUE
    OK = OK  LookupDB = LookupDB  Failed = Failed
SPECIFICATION Spec
INVARIANT
    FinalizedAppendsAnsweredOnce
PROPERTIES
    AppendsEventuallyAcked
\* The engines issue MaxAppends appends each; afterwards the timers of the
\* nodes keep firing without changing anything, so the model may stop.
CHECK_DEADLOCK FALSE
