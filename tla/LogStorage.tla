------------------------------ MODULE LogStorage ------------------------------
(***************************************************************************)
(* The log storages of the storage nodes of one phylog: LogStorage in      *)
(* src/src/log/log_space.cpp, indexed by storage node.  A storage keeps    *)
(* replicated entries pending until a metalog entry gives them seqnums,    *)
(* then keeps them live (until persisted and evicted), answers ReadAt and  *)
(* accumulates index data per metalog entry.  Payloads and tags are        *)
(* abstracted to the local id of the entry.  The storage server polls read *)
(* results and index data in the handler that produced them, so the two    *)
(* buffers accumulate what the storage has sent.                           *)
(***************************************************************************)
EXTENDS SharedLogCommon, Functions, TLC

CONSTANTS
    Shards,
    Storages,
    ShardStorages,       \* shard -> storage nodes replicating it
    MaxLiveEntries,      \* FLAGS_slog_storage_max_live_entries
    OK, LookupDB, Failed \* ReadResult status values

VARIABLES
    pending_log_entries,        \* storage -> local ids stored, not yet sequenced
    shard_progresses,           \* storage -> shard -> contiguous progress
    shard_progress_dirty,
    live_seqnums,               \* storage -> seqnums of live entries, ascending
    live_log_entries,           \* storage -> seqnum -> local id
    persisted_seqnum_position,
    pending_read_requests,      \* storage -> seqnums of parked ReadAt requests
    pending_read_results,       \* storage -> read results produced (and sent)
    index_data,                 \* storage -> index data of the current entry
    index_data_packages,        \* storage -> finished packages, in order (sent)
    metalog_position,           \* LogSpaceBase: storage -> entries applied
    seqnum_position             \* LogSpaceBase: storage -> next seqnum

storage_vars == <<pending_log_entries, shard_progresses, shard_progress_dirty,
                  live_seqnums, live_log_entries, persisted_seqnum_position,
                  pending_read_requests, pending_read_results, index_data,
                  index_data_packages, metalog_position, seqnum_position>>

(* storage_node_->GetStorageShardIds(), as local shard ids.                *)
StorageShardIds(st) == {s \in Shards : st \in ShardStorages[s]}

ReadResult(seqnum, status, localid) ==
    [seqnum |-> seqnum, status |-> status, localid |-> localid]

NoIndexData == [seqnums |-> <<>>, localids |-> <<>>, productive |-> <<>>]

StorageInit ==
    /\ pending_log_entries = [st \in Storages |-> {}]
    /\ shard_progresses = [st \in Storages |-> [s \in StorageShardIds(st) |-> 0]]
    /\ shard_progress_dirty = [st \in Storages |-> FALSE]
    /\ live_seqnums = [st \in Storages |-> <<>>]
    /\ live_log_entries = [st \in Storages |-> <<>>]
    /\ persisted_seqnum_position = [st \in Storages |-> 0]
    /\ pending_read_requests = [st \in Storages |-> {}]
    /\ pending_read_results = [st \in Storages |-> {}]
    /\ index_data = [st \in Storages |-> NoIndexData]
    /\ index_data_packages = [st \in Storages |-> <<>>]
    /\ metalog_position = [st \in Storages |-> 0]
    /\ seqnum_position = [st \in Storages |-> 0]

(* A mutant of ContiguousEnd: the scan advances at most one counter.     *)
ContiguousEndOnce(P, s, n) == IF LocalId(s, n) \in P THEN n + 1 ELSE n

(* The first counter at or after n whose local id is not in P: the scan of *)
(* AdvanceShardProgress.                                                   *)
RECURSIVE ContiguousEnd(_, _, _)
ContiguousEnd(P, s, n) ==
    IF LocalId(s, n) \in P THEN ContiguousEnd(P, s, n + 1) ELSE n

(* AdvanceShardProgress over the pending entries P: the shard's progress *)
(* moves to the end of the contiguous run and marks the vector dirty.     *)
AdvanceShardProgress(st, s, P) ==
    LET current == ContiguousEnd(P, s, shard_progresses[st][s])
    IN  IF current > shard_progresses[st][s]
        THEN /\ shard_progress_dirty' = [shard_progress_dirty EXCEPT ![st] = TRUE]
             /\ shard_progresses' = [shard_progresses EXCEPT ![st][s] = current]
        ELSE UNCHANGED <<shard_progress_dirty, shard_progresses>>

(* Store, with the AdvanceShardProgress call it ends with.                 *)
Store(st, l) ==
    LET pending == pending_log_entries[st] \cup {l}
    IN  /\ pending_log_entries' = [pending_log_entries EXCEPT ![st] = pending]
        /\ AdvanceShardProgress(st, l[1], pending)
        /\ UNCHANGED <<live_seqnums, live_log_entries, persisted_seqnum_position,
                       pending_read_requests, pending_read_results, index_data,
                       index_data_packages, metalog_position, seqnum_position>>

(* GrabShardProgressForSending when the progress is dirty; the vector it  *)
(* returns is shard_progresses[st] after the step.                        *)
GrabShardProgressForSending(st) ==
    /\ shard_progress_dirty[st]
    /\ shard_progress_dirty' = [shard_progress_dirty EXCEPT ![st] = FALSE]
    /\ UNCHANGED <<pending_log_entries, shard_progresses, live_seqnums,
                   live_log_entries, persisted_seqnum_position,
                   pending_read_requests, pending_read_results, index_data,
                   index_data_packages, metalog_position, seqnum_position>>

(* A mutant of IsFutureSeqnum: only seqnums past seqnum_position park.    *)
IsFutureSeqnumStrict(st, seqnum) == seqnum > seqnum_position[st]

(* A seqnum the metalog applied here has not reached yet.                  *)
IsFutureSeqnum(st, seqnum) == seqnum >= seqnum_position[st]

(* ReadAt: a future seqnum is parked; otherwise the live entry, a lookup  *)
(* in the database below the persisted position, or a failure.           *)
ReadAt(st, seqnum) ==
    /\ IF IsFutureSeqnum(st, seqnum)
       THEN /\ pending_read_requests' = [pending_read_requests EXCEPT ![st] = @ \cup {seqnum}]
            /\ UNCHANGED pending_read_results
       ELSE /\ pending_read_results' = [pending_read_results EXCEPT ![st] = @ \cup
                 {IF seqnum \in DOMAIN live_log_entries[st]
                  THEN ReadResult(seqnum, OK, live_log_entries[st][seqnum])
                  ELSE IF seqnum < persisted_seqnum_position[st]
                       THEN ReadResult(seqnum, LookupDB, <<>>)
                       ELSE ReadResult(seqnum, Failed, <<>>)}]
            /\ UNCHANGED pending_read_requests
    /\ UNCHANGED <<pending_log_entries, shard_progresses, shard_progress_dirty,
                   live_seqnums, live_log_entries, persisted_seqnum_position,
                   index_data, index_data_packages, metalog_position,
                   seqnum_position>>

(* A mutant of ShrinkLive: the front seqnum is dropped, its entry kept.   *)
RECURSIVE ShrinkLiveKeepEntry(_, _)
ShrinkLiveKeepEntry(r, persisted) ==
    IF Len(r.seqnums) > MaxLiveEntries /\ Head(r.seqnums) < persisted
    THEN ShrinkLiveKeepEntry([r EXCEPT !.seqnums = Tail(r.seqnums)], persisted)
    ELSE r

(* ShrinkLiveEntriesIfNeeded on r = [seqnums, entries]: drop the front    *)
(* while there are too many live entries and the front is persisted.      *)
RECURSIVE ShrinkLive(_, _)
ShrinkLive(r, persisted) ==
    IF Len(r.seqnums) > MaxLiveEntries /\ Head(r.seqnums) < persisted
    THEN ShrinkLive([r EXCEPT !.seqnums = Tail(r.seqnums),
                              !.entries = Restrict(r.entries,
                                             DOMAIN r.entries \ {Head(r.seqnums)})],
                    persisted)
    ELSE r

(* The state OnNewLogs works on.                                           *)
StorageView(st) ==
    [pending |-> pending_log_entries[st], seqnums |-> live_seqnums[st],
     entries |-> live_log_entries[st], reads |-> pending_read_requests[st],
     results |-> pending_read_results[st], data |-> index_data[st]]

(* OnNewLogs for one shard: parked reads below start_seqnum fail; the     *)
(* delta entries move from pending to live with consecutive seqnums, are  *)
(* added to the index data, and serve the reads parked on them; the shard *)
(* is recorded as productive.  Live entries shrink after each insertion.  *)
OnNewLogs(r, start_seqnum, start_localid, delta, s, persisted) ==
    LET new    == [k \in start_seqnum .. start_seqnum + delta - 1 |->
                     LocalId(s, start_localid + k - start_seqnum)]
        past   == {q \in r.reads : q < start_seqnum}
        served == {q \in r.reads : q \in DOMAIN new}
        live   == ShrinkLive([seqnums |-> r.seqnums \o
                                [i \in 1 .. delta |-> start_seqnum + i - 1],
                              entries |-> r.entries @@ new], persisted)
    IN  [pending |-> r.pending \ Range(new),
         seqnums |-> live.seqnums,
         entries |-> live.entries,
         reads   |-> r.reads \ (past \cup served),
         results |-> r.results
                       \cup {ReadResult(q, Failed, <<>>) : q \in past}
                       \cup {ReadResult(q, OK, new[q]) : q \in served},
         data    |-> [seqnums    |-> r.data.seqnums \o
                                       [i \in 1 .. delta |-> start_seqnum + i - 1],
                      localids   |-> r.data.localids \o
                                       [i \in 1 .. delta |-> new[start_seqnum + i - 1]],
                      productive |-> Append(r.data.productive, s)]]

(* LogSpaceBase calls OnNewLogs for the triples of the shards the storage *)
(* holds, in the order of the entry.                                      *)
RECURSIVE ApplyCuts(_, _, _, _, _)
ApplyCuts(r, e, i, mine, persisted) ==
    IF i > Len(e.cuts) THEN r
    ELSE ApplyCuts(IF e.cuts[i].shard \in mine
                   THEN OnNewLogs(r, ShardStartSeqnum(e, i), e.cuts[i].start,
                                  e.cuts[i].delta, e.cuts[i].shard, persisted)
                   ELSE r,
                   e, i + 1, mine, persisted)

(* A mutant of OnMetaLogApplied: the package is added but the index data *)
(* is not cleared.                                                        *)
OnMetaLogAppliedNoClear(st, e, data) ==
    IF data.seqnums # <<>>
    THEN /\ index_data_packages' = [index_data_packages EXCEPT ![st] = Append(@,
              [metalog_position |-> metalog_position[st] + 1,
               end_seqnum_position |-> seqnum_position[st] + TotalDelta(e),
               num_productive_storage_shards |-> Len(e.cuts)] @@ data)]
         /\ index_data' = [index_data EXCEPT ![st] = data]
    ELSE /\ index_data' = [index_data EXCEPT ![st] = data]
         /\ UNCHANGED index_data_packages

(* OnMetaLogApplied, after the LogSpaceBase positions advanced, with the  *)
(* index data OnNewLogs accumulated: a non-empty one is stamped with the  *)
(* new positions and the entry's shard count, becomes a package, and the  *)
(* index data is cleared.                                                 *)
OnMetaLogApplied(st, e, data) ==
    IF data.seqnums # <<>>
    THEN /\ index_data_packages' = [index_data_packages EXCEPT ![st] = Append(@,
              [metalog_position |-> metalog_position[st] + 1,
               end_seqnum_position |-> seqnum_position[st] + TotalDelta(e),
               num_productive_storage_shards |-> Len(e.cuts)] @@ data)]
         /\ index_data' = [index_data EXCEPT ![st] = NoIndexData]
    ELSE /\ index_data' = [index_data EXCEPT ![st] = data]
         /\ UNCHANGED index_data_packages

(* Applying metalog entry e: OnNewLogs per held shard (fatal when a       *)
(* covered entry is not pending, so only taken when all are), the         *)
(* LogSpaceBase positions advance, then OnMetaLogApplied.                 *)
ApplyMetaLog(st, e) ==
    LET r == ApplyCuts(StorageView(st), e, 1, StorageShardIds(st),
                       persisted_seqnum_position[st])
    IN  /\ {p[2] : p \in Assigned(e, StorageShardIds(st))} \subseteq pending_log_entries[st]
        /\ pending_log_entries' = [pending_log_entries EXCEPT ![st] = r.pending]
        /\ live_seqnums' = [live_seqnums EXCEPT ![st] = r.seqnums]
        /\ live_log_entries' = [live_log_entries EXCEPT ![st] = r.entries]
        /\ pending_read_requests' = [pending_read_requests EXCEPT ![st] = r.reads]
        /\ pending_read_results' = [pending_read_results EXCEPT ![st] = r.results]
        /\ metalog_position' = [metalog_position EXCEPT ![st] = @ + 1]
        /\ seqnum_position' = [seqnum_position EXCEPT ![st] = @ + TotalDelta(e)]
        /\ OnMetaLogApplied(st, e, r.data)
        /\ UNCHANGED <<shard_progresses, shard_progress_dirty, persisted_seqnum_position>>

(* GrabLogEntriesForPersistence succeeds when a live entry is at or past  *)
(* the persisted position; it changes nothing and returns the position    *)
(* after the last live entry.                                             *)
CanGrabForPersistence(st) ==
    live_seqnums[st] # <<>> /\ live_seqnums[st][Len(live_seqnums[st])] >= persisted_seqnum_position[st]

GrabbedPosition(st) == live_seqnums[st][Len(live_seqnums[st])] + 1

(* LogEntriesPersisted: the persisted position is set, then live entries  *)
(* are shrunk.                                                            *)
LogEntriesPersisted(st, new_position) ==
    LET live == ShrinkLive([seqnums |-> live_seqnums[st], entries |-> live_log_entries[st]],
                           new_position)
    IN  /\ persisted_seqnum_position' = [persisted_seqnum_position EXCEPT ![st] = new_position]
        /\ live_seqnums' = [live_seqnums EXCEPT ![st] = live.seqnums]
        /\ live_log_entries' = [live_log_entries EXCEPT ![st] = live.entries]
        /\ UNCHANGED <<pending_log_entries, shard_progresses, shard_progress_dirty,
                       pending_read_requests, pending_read_results, index_data,
                       index_data_packages, metalog_position, seqnum_position>>
(* OnFinalized: the pending entries are discarded; it is FATAL when reads *)
(* are still parked, so the step is only taken when none is.              *)
OnFinalized(st) ==
    /\ pending_read_requests[st] = {}
    /\ pending_log_entries' = [pending_log_entries EXCEPT ![st] = {}]
    /\ UNCHANGED <<shard_progresses, shard_progress_dirty, live_seqnums,
                   live_log_entries, persisted_seqnum_position, pending_read_requests,
                   pending_read_results, index_data, index_data_packages,
                   metalog_position, seqnum_position>>

=============================================================================
