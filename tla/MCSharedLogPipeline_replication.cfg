\* Metalog replication to three backup sequencers whose META_PROG reports
\* arrive late and out of order, with the shard blocked and unblocked.
CONSTANTS
    s1 = s1  s2 = s2  st1 = st1  st2 = st2  b1 = b1  b2 = b2  b3 = b3
    Shards <- MCOneShard
    Storages <- MCStorages
    ShardStorages <- MCOneShardStorages
    Backups <- MCThreeBackups
    InitialUnblocked <- MCOneShard
    MaxAppends <- MCOneShardAppends
    MaxLiveEntries = 1
    ReadRequests <- MCNoReads
    LoseReplicate = FALSE
    ScaleIn = TRUE
    Finalize = FALSE
    OK = OK  LookupDB = LookupDB  Failed = Failed
SPECIFICATION Spec
INVARIANTS
    ReplicatedByMajority
    WorkerProgressReplicated
PROPERTY
    BlockedShardsNeverCut
\* The engines issue MaxAppends appends each; afterwards the timers of the
\* nodes keep firing without changing anything, so the model may stop.
CHECK_DEADLOCK FALSE
SYMMETRY MCBackupSymmetry
