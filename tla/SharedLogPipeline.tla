-------------------------- MODULE SharedLogPipeline --------------------------
(***************************************************************************)
(* The append path of one phylog, composed from its components:           *)
(*   engines (LogProducer) append and replicate each entry to the storage  *)
(*   nodes of their shard (EngineBase::ReplicateLogEntry);                 *)
(*   storage nodes (LogStorage) store it, advance their shard progress and *)
(*   report it to the primary sequencer;                                   *)
(*   the primary (MetaLogPrimary) cuts NEW_LOGS entries, backups replicate *)
(*   them and report META_PROG, and the median gives the replicated        *)
(*   position;                                                             *)
(*   producers and storages apply the replicated entries in order.         *)
(* Messages between nodes are sets: they may be reordered.  A REPLICATE    *)
(* message may be lost when LoseReplicate holds (the send's result is      *)
(* ignored).  Block/Unblock of shards (scale-in) happen when ScaleIn holds.*)
(* When Finalize holds the view may be finalized: the primary and the     *)
(* engines stop, the final metalog position is the replicated one, and    *)
(* every node applies the metalog up to it and then runs OnFinalized.     *)
(***************************************************************************)
EXTENDS SharedLogCommon, SequencesExt

CONSTANTS
    Shards, Storages, Backups, ShardStorages, InitialUnblocked,
    MaxAppends,        \* shard -> appends its engine issues
    MaxLiveEntries,
    ReadRequests,      \* <<storage, seqnum>> of the READ_AT requests engines send
    LoseReplicate,     \* a REPLICATE send may fail
    ScaleIn,           \* shards may be blocked and unblocked
    Finalize,          \* the view may be finalized
    OK, LookupDB, Failed

VARIABLES
    \* MetaLogPrimary
    shard_progrsses, last_cut, dirty_shards, unblocked_shards, blocking_change,
    metalog, seqnum_position, metalog_progresses, replicated_metalog_position,
    \* LogProducer, per engine shard
    next_localid, pending_appends,
    prod_metalog_position, prod_seqnum_position,
    \* LogStorage, per storage node
    pending_log_entries, shard_progresses, shard_progress_dirty, live_seqnums,
    live_log_entries, persisted_seqnum_position, pending_read_requests,
    index_data, st_metalog_position, st_seqnum_position,
    \* messages in flight, backups, and what left the nodes
    replicate_msgs,    \* <<storage, localid>>
    progress_msgs,     \* <<storage, shard progress vector>>
    backup_position,   \* backup -> metalog entries it holds
    persisting,        \* storage -> position of a persistence in flight, 0 if none
    acked,             \* shard -> append results sent to function workers
    read_out,          \* storage -> read results sent back
    index_out,         \* storage -> index data packages sent, in order
                       \* (the three are the result buffers of the components,
                       \* which their handlers drain in the same step)
    \* view finalization
    finalized, final_position, prod_finalized, st_finalized

Q == INSTANCE MetaLogPrimary
P == INSTANCE LogProducer WITH metalog_position <- prod_metalog_position,
                               seqnum_position <- prod_seqnum_position,
                               pending_append_results <- acked
S == INSTANCE LogStorage WITH metalog_position <- st_metalog_position,
                              seqnum_position <- st_seqnum_position,
                              pending_read_results <- read_out,
                              index_data_packages <- index_out

primary_vars  == <<shard_progrsses, last_cut, dirty_shards, unblocked_shards,
                   blocking_change, metalog, seqnum_position,
                   metalog_progresses, replicated_metalog_position>>
producer_vars == <<next_localid, pending_appends,
                   prod_metalog_position, prod_seqnum_position>>
storage_vars  == <<pending_log_entries, shard_progresses, shard_progress_dirty,
                   live_seqnums, live_log_entries, persisted_seqnum_position,
                   pending_read_requests, index_data,
                   st_metalog_position, st_seqnum_position>>
env_vars == <<replicate_msgs, progress_msgs, backup_position, persisting>>
out_vars == <<acked, read_out, index_out>>
view_vars == <<finalized, final_position, prod_finalized, st_finalized>>
vars == <<primary_vars, producer_vars, storage_vars, env_vars, out_vars, view_vars>>

Init ==
    /\ Q!PrimaryInit
    /\ P!ProducerInit
    /\ S!StorageInit
    /\ replicate_msgs = {}
    /\ progress_msgs = {}
    /\ backup_position = [b \in Backups |-> 0]
    /\ persisting = [st \in Storages |-> 0]
    /\ acked = [s \in Shards |-> {}]
    /\ read_out = [st \in Storages |-> {}]
    /\ index_out = [st \in Storages |-> <<>>]
    /\ finalized = FALSE
    /\ final_position = 0
    /\ prod_finalized = {}
    /\ st_finalized = {}

(* HandleLocalAppend: LocalAppend takes the next local id and the entry   *)
(* is replicated to every storage node of the engine's shard.             *)
HandleLocalAppend(s) ==
    /\ ~finalized
    /\ next_localid[s] < MaxAppends[s]
    /\ P!LocalAppend(s)
    /\ replicate_msgs' = replicate_msgs \cup
          {<<st, LocalId(s, next_localid[s])>> : st \in ShardStorages[s]}
    /\ UNCHANGED <<primary_vars, storage_vars, progress_msgs, backup_position,
                   persisting, acked, read_out, index_out, view_vars>>

ReceiveReplicate(m) ==
    /\ S!Store(m[1], m[2])
    /\ replicate_msgs' = replicate_msgs \ {m}
    /\ UNCHANGED <<primary_vars, producer_vars, progress_msgs, backup_position,
                   persisting, acked, read_out, index_out, view_vars>>

(* SendSharedLogMessage fails and ReplicateLogEntry ignores it.           *)
LoseReplicateMsg(m) ==
    /\ LoseReplicate
    /\ replicate_msgs' = replicate_msgs \ {m}
    /\ UNCHANGED <<primary_vars, producer_vars, storage_vars, progress_msgs,
                   backup_position, persisting, acked, read_out, index_out, view_vars>>

(* The storage's periodic report of its shard progress.                   *)
SendShardProgress(st) ==
    /\ S!GrabShardProgressForSending(st)
    /\ progress_msgs' = progress_msgs \cup {<<st, shard_progresses[st]>>}
    /\ UNCHANGED <<primary_vars, producer_vars, replicate_msgs, backup_position,
                   persisting, acked, read_out, index_out, view_vars>>

ReceiveShardProgress(m) ==
    /\ Q!UpdateStorageProgress(m[1], m[2])
    /\ progress_msgs' = progress_msgs \ {m}
    /\ UNCHANGED <<producer_vars, storage_vars, replicate_msgs, backup_position,
                   persisting, acked, read_out, index_out, view_vars>>

(* The periodic local cut timer of the primary.                           *)
MarkNextCut ==
    /\ ~finalized
    /\ Q!MarkNextCut
    /\ UNCHANGED <<producer_vars, storage_vars, env_vars, out_vars, view_vars>>

Block(s) ==
    /\ ScaleIn
    /\ Q!BlockShard(s)
    /\ UNCHANGED <<producer_vars, storage_vars, env_vars, out_vars, view_vars>>

Unblock(s) ==
    /\ ScaleIn
    /\ Q!UnblockShard(s)
    /\ UNCHANGED <<producer_vars, storage_vars, env_vars, out_vars, view_vars>>

(* A backup sequencer receives the next metalog entry (MetaLogBackup).    *)
BackupReceive(b) ==
    /\ backup_position[b] < Len(metalog)
    /\ backup_position' = [backup_position EXCEPT ![b] = @ + 1]
    /\ UNCHANGED <<primary_vars, producer_vars, storage_vars, replicate_msgs,
                   progress_msgs, persisting, acked, read_out, index_out, view_vars>>

(* A META_PROG report of backup b arrives; reports may arrive late and    *)
(* out of order, so any position the backup has held may be reported.     *)
ReplicaProgress(b, pos) ==
    /\ Q!UpdateReplicaProgress(b, pos)
    /\ UNCHANGED <<producer_vars, storage_vars, env_vars, out_vars, view_vars>>

(* Nodes apply the replicated metalog, and after finalization only up to  *)
(* the final position.                                                    *)
AppliedBound == IF finalized THEN final_position ELSE replicated_metalog_position

(* Mutant: the engine applies entries of the primary's own metalog, not  *)
(* only the replicated ones.                                              *)
ProducerApplyUnreplicated(s) ==
    /\ prod_metalog_position[s] < IF finalized THEN final_position ELSE Len(metalog)
    /\ P!ApplyMetaLog(s, metalog[prod_metalog_position[s] + 1])
    /\ UNCHANGED <<primary_vars, storage_vars, env_vars, read_out, index_out, view_vars>>

(* An engine applies the next replicated metalog entry and sends the      *)
(* append results it produced (ProvideMetaLog, then PollAppendResults in  *)
(* the same handler: the results buffer is the set of results sent).      *)
ProducerApply(s) ==
    /\ prod_metalog_position[s] < AppliedBound
    /\ P!ApplyMetaLog(s, metalog[prod_metalog_position[s] + 1])
    /\ UNCHANGED <<primary_vars, storage_vars, env_vars, read_out, index_out, view_vars>>

(* A storage applies the next replicated metalog entry and sends the read *)
(* results and index data packages it produced.                          *)
StorageApply(st) ==
    /\ st_metalog_position[st] < AppliedBound
    /\ S!ApplyMetaLog(st, metalog[st_metalog_position[st] + 1])
    /\ UNCHANGED <<primary_vars, producer_vars, env_vars, acked, view_vars>>

(* A READ_AT request; an immediate result is sent at once.               *)
ReadAt(st, q) ==
    /\ S!ReadAt(st, q)
    /\ UNCHANGED <<primary_vars, producer_vars, env_vars, acked, view_vars>>

(* The background thread grabs the unpersisted live entries ...           *)
PersistGrab(st) ==
    /\ persisting[st] = 0
    /\ S!CanGrabForPersistence(st)
    /\ persisting' = [persisting EXCEPT ![st] = S!GrabbedPosition(st)]
    /\ UNCHANGED <<primary_vars, producer_vars, storage_vars, replicate_msgs,
                   progress_msgs, backup_position, acked, read_out, index_out, view_vars>>

(* ... and, once they are written to the database, reports the position. *)
PersistDone(st) ==
    /\ persisting[st] > 0
    /\ S!LogEntriesPersisted(st, persisting[st])
    /\ persisting' = [persisting EXCEPT ![st] = 0]
    /\ UNCHANGED <<primary_vars, producer_vars, replicate_msgs, progress_msgs,
                   backup_position, acked, read_out, index_out, view_vars>>
(* The view is finalized (the view watcher's finalized callback after    *)
(* the frozen one): the final metalog position is the replicated one.     *)
FinalizeView ==
    /\ Finalize
    /\ ~finalized
    /\ finalized' = TRUE
    /\ final_position' = replicated_metalog_position
    /\ UNCHANGED <<primary_vars, producer_vars, storage_vars, env_vars, out_vars,
                   prod_finalized, st_finalized>>

(* A mutant of ProducerFinalize: the engine does not wait for the final   *)
(* metalog position.                                                      *)
ProducerFinalizeEarly(s) ==
    /\ finalized /\ s \notin prod_finalized
    /\ P!OnFinalized(s)
    /\ prod_finalized' = prod_finalized \cup {s}
    /\ UNCHANGED <<primary_vars, storage_vars, env_vars, read_out, index_out,
                   finalized, final_position, st_finalized>>

(* An engine that has applied the metalog up to the final position runs   *)
(* LogProducer::OnFinalized and sends the failed results.                 *)
ProducerFinalize(s) ==
    /\ finalized /\ s \notin prod_finalized
    /\ prod_metalog_position[s] = final_position
    /\ P!OnFinalized(s)
    /\ prod_finalized' = prod_finalized \cup {s}
    /\ UNCHANGED <<primary_vars, storage_vars, env_vars, read_out, index_out,
                   finalized, final_position, st_finalized>>

(* A storage that has applied the metalog up to the final position runs   *)
(* LogStorage::OnFinalized.                                               *)
StorageFinalize(st) ==
    /\ finalized /\ st \notin st_finalized
    /\ st_metalog_position[st] = final_position
    /\ S!OnFinalized(st)
    /\ st_finalized' = st_finalized \cup {st}
    /\ UNCHANGED <<primary_vars, producer_vars, env_vars, out_vars,
                   finalized, final_position, prod_finalized>>

Next ==
    \/ \E s \in Shards : HandleLocalAppend(s) \/ Block(s) \/ Unblock(s)
                         \/ ProducerApply(s) \/ ProducerFinalize(s)
    \/ \E m \in replicate_msgs : ReceiveReplicate(m) \/ LoseReplicateMsg(m)
    \/ \E m \in progress_msgs : ReceiveShardProgress(m)
    \/ \E st \in Storages : SendShardProgress(st) \/ StorageApply(st)
                            \/ PersistGrab(st) \/ PersistDone(st) \/ StorageFinalize(st)
                            \/ \E q \in {r[2] : r \in {x \in ReadRequests : x[1] = st}} : ReadAt(st, q)
    \/ MarkNextCut
    \/ FinalizeView
    \/ \E b \in Backups : BackupReceive(b) \/ \E pos \in 1 .. backup_position[b] :
                                              ReplicaProgress(b, pos)

(* Timers fire and TCP delivers: the steps of the append path are weakly  *)
(* fair.  Of the META_PROG reports, the latest one is eventually applied. *)
(* A finalized view is delivered to every node, which finalizes its log   *)
(* once it has applied the final position.  Finalization itself is not  *)
(* fair: a view may live forever.                                         *)
Fairness ==
    /\ WF_vars(\E m \in replicate_msgs : ReceiveReplicate(m))
    /\ \A st \in Storages : WF_vars(SendShardProgress(st)) /\ WF_vars(StorageApply(st))
    /\ WF_vars(\E m \in progress_msgs : ReceiveShardProgress(m))
    /\ WF_vars(MarkNextCut)
    /\ \A b \in Backups : WF_vars(BackupReceive(b))
                          /\ WF_vars(ReplicaProgress(b, backup_position[b]))
    /\ \A s \in Shards : WF_vars(ProducerApply(s)) /\ WF_vars(ProducerFinalize(s))
    /\ \A st \in Storages : WF_vars(StorageFinalize(st))

Spec == Init /\ [][Next]_vars /\ Fairness

-----------------------------------------------------------------------------
(***************************************************************************)
(* Properties                                                              *)
(***************************************************************************)

MaxAppend == Max({MaxAppends[s] : s \in Shards})
LocalIds == {LocalId(s, n) : s \in Shards, n \in 0 .. MaxAppend - 1}
Seqnums  == 0 .. Cardinality(Shards) * MaxAppend

TypeOK ==
    /\ shard_progrsses \in [Q!ProgressKeys -> 0 .. MaxAppend]
    /\ last_cut \in [Shards -> 0 .. MaxAppend]
    /\ dirty_shards \subseteq unblocked_shards
    /\ unblocked_shards \subseteq Shards
    /\ blocking_change \in BOOLEAN
    /\ replicated_metalog_position \in 0 .. Len(metalog)
    /\ metalog_progresses \in [Backups -> 0 .. Len(metalog)]
    /\ next_localid \in [Shards -> 0 .. MaxAppend]
    /\ \A s \in Shards : pending_appends[s] \subseteq 0 .. MaxAppend - 1
    /\ \A st \in Storages :
          /\ pending_log_entries[st] \subseteq LocalIds
          /\ live_seqnums[st] \in Seq(Seqnums)
          /\ DOMAIN live_log_entries[st] = Range(live_seqnums[st])
          /\ pending_read_requests[st] \subseteq Seqnums
    /\ replicate_msgs \subseteq Storages \X LocalIds
    /\ backup_position \in [Backups -> 0 .. Len(metalog)]
    /\ persisting \in [Storages -> Seqnums]

(* The (seqnum, local id) pairs the metalog assigns.                       *)
LogAssignment == UNION {Assigned(metalog[i], Shards) : i \in 1 .. Len(metalog)}

(* The local ids of the cuts i.. of an entry, in seqnum order, and the     *)
(* local ids of the first k entries: the replicated log is CommittedLog.  *)
RECURSIVE CutsLocalIds(_, _)
CutsLocalIds(cuts, i) ==
    IF i > Len(cuts) THEN <<>>
    ELSE [k \in 1 .. cuts[i].delta |-> LocalId(cuts[i].shard, cuts[i].start + k - 1)]
           \o CutsLocalIds(cuts, i + 1)

RECURSIVE MetaLogLocalIds(_)
MetaLogLocalIds(k) ==
    IF k = 0 THEN <<>> ELSE MetaLogLocalIds(k - 1) \o CutsLocalIds(metalog[k].cuts, 1)

CommittedLog == MetaLogLocalIds(replicated_metalog_position)

(* OnNewLogs of a producer or a storage never hits its FATAL: every local *)
(* id a metalog entry not yet applied there assigns to the node's shards  *)
(* is pending at the node.  This is what the min over storage replicas in *)
(* GetShardReplicatedPosition and the contiguous scan of                  *)
(* AdvanceShardProgress must guarantee, with REPLICATE messages reordered.*)
NoFatalOnNewLogs ==
    /\ \A s \in Shards : \A i \in prod_metalog_position[s] + 1 .. Len(metalog) :
          P!Covered(s, metalog[i]) \subseteq pending_appends[s]
    /\ \A st \in Storages : \A i \in st_metalog_position[st] + 1 .. Len(metalog) :
          {p[2] : p \in Assigned(metalog[i], S!StorageShardIds(st))}
             \subseteq pending_log_entries[st]

(* A READ_AT a storage answers for a seqnum of a shard it holds returns   *)
(* the entry the metalog put there, or sends the reader to the database;  *)
(* it never fails, whether the read was parked or not and whatever was    *)
(* evicted (LogStorage::ReadAt, OnNewLogs, ShrinkLiveEntriesIfNeeded).    *)
ReadsOfHeldEntriesSucceed ==
    \A st \in Storages : \A r \in read_out[st] :
        /\ r.status = OK => <<r.seqnum, r.localid>> \in LogAssignment
        /\ (\E p \in LogAssignment : p[1] = r.seqnum /\ p[2][1] \in S!StorageShardIds(st))
              => r.status \in {OK, LookupDB}

(* A READ_AT the metalog has passed over is failed when the metalog      *)
(* advances past it (spec 4.2, LogStorage::ReadAt and OnNewLogs): no read *)
(* stays parked for a seqnum below the storage's seqnum_position.         *)
NoParkedPastRead ==
    \A st \in Storages : \A q \in pending_read_requests[st] : q >= st_seqnum_position[st]

(* The seqnums a storage has put into index data, in the packages sent   *)
(* and the open one, are exactly those of the                             *)
(* entries it holds in applied metalog entries, each once and ascending,  *)
(* and its packages carry increasing metalog positions                    *)
(* (OnNewLogs, OnMetaLogApplied).                                         *)
IndexDataExactlyOnce ==
    \A st \in Storages :
        LET pkgs == index_out[st]
            held == {p[1] : p \in UNION {Assigned(metalog[i], S!StorageShardIds(st)) :
                                           i \in 1 .. st_metalog_position[st]}}
        IN  /\ FlattenSeq([i \in 1 .. Len(pkgs) |-> pkgs[i].seqnums])
                 \o index_data[st].seqnums = SetToSortSeq(held, <)
            /\ \A i \in 1 .. Len(pkgs) - 1 :
                  pkgs[i].metalog_position < pkgs[i + 1].metalog_position

(* The append path implements TotalOrderLog: the replicated metalog is a  *)
(* log that only grows, holds every engine's appends once and in order,   *)
(* and every APPEND_OK names the seqnum of its entry in that log.         *)
TOL == INSTANCE TotalOrderLog WITH
           issued <- next_localid,
           log <- CommittedLog,
           acked <- {<<r.seqnum, r.localid>> : r \in {x \in UNION {acked[s] : s \in Shards} :
                                                       x.seqnum # P!InvalidLogSeqNum}}
TotalOrderRefinement == TOL!Spec

(* Every entry of the replicated metalog is held by a majority of the     *)
(* metalog copies, the primary and the backups (the median rule of        *)
(* UpdateMetaLogReplicatedPosition under reordered META_PROG reports).    *)
ReplicatedByMajority ==
    2 * (1 + Cardinality({b \in Backups : backup_position[b] >= replicated_metalog_position}))
        > 1 + Cardinality(Backups)

(* Spec 8, invariant 4: every metalog_progress an engine has returned to *)
(* a function worker is held by a majority of the metalog copies, so a    *)
(* worker never waits on (or reads at) a metalog position that a primary  *)
(* failure could lose.  It takes the backups' reordered META_PROG reports, *)
(* the median rule and the engine applying only replicated entries        *)
(* (ProvideMetaLog after UpdateMetaLogReplicatedPosition) to keep it.     *)
WorkerProgressReplicated ==
    \A s \in Shards : \A r \in acked[s] :
        r.seqnum # P!InvalidLogSeqNum =>
            2 * (1 + Cardinality({b \in Backups : backup_position[b] >= r.metalog_progress}))
                > 1 + Cardinality(Backups)

(* Spec 4.1 (graceful scale-in): a blocked shard never appears in a new   *)
(* metalog entry and its last cut stays where it was.  BlockShard drops   *)
(* the dirty flag the storages' earlier reports set, UpdateStorageProgress *)
(* ignores reports for it while it is blocked, and MarkNextCut cuts only  *)
(* dirty shards; a report, a block and the cut timer in any order.        *)
BlockedShardsNeverCut ==
    [][\A s \in Shards \ unblocked_shards :
          /\ last_cut'[s] = last_cut[s]
          /\ \A i \in Len(metalog) + 1 .. Len(metalog') :
                \A j \in DOMAIN metalog'[i].cuts : metalog'[i].cuts[j].shard # s]_vars

(* Spec 8 (finalization while N appends are pending gives exactly N       *)
(* failures, scenario 6): once an engine has finalized its log, each of   *)
(* its appends has been answered exactly once, with APPEND_OK if it is in *)
(* the final log and with kInvalidLogSeqNum if it is not.  It takes the   *)
(* engine to apply exactly the final position before LogProducer::        *)
(* OnFinalized, whatever was cut, replicated or in flight at the freeze.  *)
FinalizedAppendsAnsweredOnce ==
    \A s \in prod_finalized :
        LET issued  == {LocalId(s, n) : n \in 0 .. next_localid[s] - 1}
            final   == Range(MetaLogLocalIds(final_position))
            failed  == {r \in acked[s] : r.seqnum = P!InvalidLogSeqNum}
        IN  /\ {r.localid : r \in failed} = issued \ final
            /\ {r.localid : r \in acked[s] \ failed} = issued \cap final
            /\ Cardinality(acked[s]) = Cardinality(issued)

(* An append of a shard that stays unblocked is eventually answered, with *)
(* APPEND_OK once the storages report it, the primary cuts it, the backups *)
(* replicate the cut and the engine applies it, or with a failure when    *)
(* the view is finalized first.                                           *)
AppendsEventuallyAcked ==
    \A s \in Shards : \A n \in 0 .. MaxAppends[s] - 1 :
        (<>[](s \in unblocked_shards)) =>
            [](n < next_localid[s] => <>(\E r \in acked[s] : r.localid = LocalId(s, n)))
=============================================================================
