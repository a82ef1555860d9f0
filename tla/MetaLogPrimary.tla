--------------------------- MODULE MetaLogPrimary ---------------------------
(***************************************************************************)
(* The primary sequencer of one phylog: MetaLogPrimary in                  *)
(* src/src/log/log_space.cpp.  It collects the shard progress storage      *)
(* nodes report, cuts NEW_LOGS metalog entries over the dirty shards, and  *)
(* tracks how far backup sequencers have replicated the metalog.           *)
(*                                                                         *)
(* The metalog itself and seqnum_position belong to LogSpaceBase (not      *)
(* among the sources); ProvideMetaLog appends the entry and advances both. *)
(***************************************************************************)
EXTENDS SharedLogCommon, SequencesExt

CONSTANTS
    Shards,           \* local storage shard ids of this sequencer
    Storages,         \* storage node ids
    Backups,          \* replica (backup) sequencer node ids
    ShardStorages,    \* shard -> the storage nodes replicating it
    InitialUnblocked  \* shards unblocked before the first progress report

VARIABLES
    shard_progrsses,              \* <<shard, storage>> -> reported progress
    last_cut,                     \* shard -> progress covered by the metalog
    dirty_shards,                 \* shards whose replicated position > last_cut
    unblocked_shards,
    blocking_change,
    metalog,                      \* LogSpaceBase: the NEW_LOGS entries
    seqnum_position,              \* LogSpaceBase: next seqnum to assign
    metalog_progresses,           \* backup -> metalog position it reported
    replicated_metalog_position

primary_vars == <<shard_progrsses, last_cut, dirty_shards, unblocked_shards,
                  blocking_change, metalog, seqnum_position,
                  metalog_progresses, replicated_metalog_position>>

ProgressKeys == UNION { {<<s, st>> : st \in ShardStorages[s]} : s \in Shards }

metalog_position == Len(metalog)

(* A mutant of GetShardReplicatedPosition: the max instead of the min.   *)
GetShardReplicatedPositionMax(progress, s) ==
    Max({progress[<<s, st>>] : st \in ShardStorages[s]})

(* Min over the storage replicas of a shard of their reported progress.   *)
GetShardReplicatedPosition(progress, s) ==
    Min({progress[<<s, st>>] : st \in ShardStorages[s]})

PrimaryInit ==
    /\ shard_progrsses = [k \in ProgressKeys |-> 0]
    /\ last_cut = [s \in Shards |-> 0]
    /\ dirty_shards = {}
    /\ unblocked_shards = InitialUnblocked
    /\ blocking_change = (InitialUnblocked # {})
    /\ metalog = <<>>
    /\ seqnum_position = 0
    /\ metalog_progresses = [b \in Backups |-> 0]
    /\ replicated_metalog_position = 0

(* A mutant of BlockShard: the shard stays dirty.                         *)
BlockShardKeepDirty(s) ==
    /\ s \in unblocked_shards
    /\ unblocked_shards' = unblocked_shards \ {s}
    /\ blocking_change' = TRUE
    /\ UNCHANGED <<shard_progrsses, last_cut, dirty_shards, metalog, seqnum_position,
                   metalog_progresses, replicated_metalog_position>>

(* BlockShard on an unblocked shard; on a blocked one it only returns the *)
(* last cut, and on an unknown one it fails, leaving the state alone.     *)
BlockShard(s) ==
    /\ s \in unblocked_shards
    /\ dirty_shards' = dirty_shards \ {s}
    /\ unblocked_shards' = unblocked_shards \ {s}
    /\ blocking_change' = TRUE
    /\ UNCHANGED <<shard_progrsses, last_cut, metalog, seqnum_position,
                   metalog_progresses, replicated_metalog_position>>

(* UnblockShard on a blocked shard; otherwise it fails without a change.  *)
UnblockShard(s) ==
    /\ s \notin unblocked_shards
    /\ unblocked_shards' = unblocked_shards \cup {s}
    /\ blocking_change' = TRUE
    /\ UNCHANGED <<shard_progrsses, last_cut, dirty_shards, metalog,
                   seqnum_position, metalog_progresses,
                   replicated_metalog_position>>

(* A progress vector from storage node st (one value per shard it holds): *)
(* blocked shards are skipped, a larger value is stored, and the shard    *)
(* turns dirty when its replicated position passes its last cut.          *)
UpdateStorageProgress(st, progress) ==
    LET advanced == {s \in DOMAIN progress :
                        /\ s \in unblocked_shards
                        /\ progress[s] > shard_progrsses[<<s, st>>]}
        stored == [k \in ProgressKeys |->
                      IF k[2] = st /\ k[1] \in advanced
                      THEN progress[k[1]] ELSE shard_progrsses[k]]
    IN  /\ shard_progrsses' = stored
        /\ dirty_shards' = dirty_shards \cup
              {s \in advanced : GetShardReplicatedPosition(stored, s) > last_cut[s]}
        /\ UNCHANGED <<last_cut, unblocked_shards, blocking_change, metalog,
                       seqnum_position, metalog_progresses,
                       replicated_metalog_position>>

(* UpdateMetaLogReplicatedPosition, given the new backup progresses.      *)
ReplicatedPosition(progresses) ==
    IF replicated_metalog_position = metalog_position \/ Backups = {}
    THEN replicated_metalog_position
    ELSE MedianProgress(progresses)

(* A mutant of UpdateReplicaProgress: a stale report is not ignored.      *)
UpdateReplicaProgressUnguarded(b, pos) ==
    /\ pos <= metalog_position
    /\ LET progresses == [metalog_progresses EXCEPT ![b] = pos]
       IN  /\ metalog_progresses' = progresses
           /\ replicated_metalog_position' = ReplicatedPosition(progresses)
    /\ UNCHANGED <<shard_progrsses, last_cut, dirty_shards, unblocked_shards,
                   blocking_change, metalog, seqnum_position>>

(* A META_PROG report from backup b; a position not above the stored one  *)
(* leaves the state alone.  A position beyond metalog_position is fatal.  *)
UpdateReplicaProgress(b, pos) ==
    /\ pos <= metalog_position
    /\ pos > metalog_progresses[b]
    /\ LET progresses == [metalog_progresses EXCEPT ![b] = pos]
       IN  /\ metalog_progresses' = progresses
           /\ replicated_metalog_position' = ReplicatedPosition(progresses)
    /\ UNCHANGED <<shard_progrsses, last_cut, dirty_shards, unblocked_shards,
                   blocking_change, metalog, seqnum_position>>

(* The NEW_LOGS entry over the dirty shards taken in the order `order`    *)
(* (flat_hash_set iteration order, which the model leaves open).          *)
NewLogsEntry(order) ==
    [start_seqnum |-> seqnum_position,
     cuts |-> [i \in 1 .. Len(order) |->
                 Cut(order[i], last_cut[order[i]],
                     GetShardReplicatedPosition(shard_progrsses, order[i])
                       - last_cut[order[i]])]]

(* MarkNextCut, with ProvideMetaLog appending the entry to the metalog.   *)
MarkNextCut ==
    /\ dirty_shards # {}
    /\ \E order \in SetToSeqs(dirty_shards) :
          LET e == NewLogsEntry(order)
          IN  /\ metalog' = Append(metalog, e)
              /\ seqnum_position' = seqnum_position + TotalDelta(e)
    /\ last_cut' = [s \in Shards |->
                      IF s \in dirty_shards
                      THEN GetShardReplicatedPosition(shard_progrsses, s)
                      ELSE last_cut[s]]
    /\ blocking_change' = FALSE
    /\ dirty_shards' = {}
    /\ UNCHANGED <<shard_progrsses, unblocked_shards, metalog_progresses,
                   replicated_metalog_position>>
=============================================================================
