\* Order of the append path (it refines TotalOrderLog) and of the index data,
\* with REPLICATE messages lost and all messages reordered.
CONSTANTS
    s1 = s1  s2 = s2  st1 = st1  st2 = st2  b1 = b1  b2 = b2  b3 = b3
    Shards <- MCShards
    Storages <- MCStorages
    ShardStorages <- MCShardStorages
    Backups <- MCOneBackup
    InitialUnblocked <- MCShards
    MaxAppends <- MCMaxAppends
    MaxLiveEntries = 1
    ReadRequests <- MCNoReads
    LoseReplicate = TRUE
    ScaleIn = FALSE
    Finalize = FALSE
    OK = OK  LookupDB = LookupDB  Failed = Failed
SPECIFICATION Spec
INVARIANTS
    TypeOK
    NoFatalOnNewLogs
    IndexDataExactlyOnce
PROPERTIES
    TotalOrderRefinement
\* The engines issue MaxAppends appends each; afterwards the timers of the
\* nodes keep firing without changing anything, so the model may stop.
CHECK_DEADLOCK FALSE
