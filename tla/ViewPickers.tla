----------------------------- MODULE ViewPickers -----------------------------
(***************************************************************************)
(* The node pickers of a View::StorageShard (src/src/log/view.h) and the   *)
(* retry loop of EngineBase::SendStorageReadRequest that uses one, as      *)
(* pure operators.  A picker's relaxed __atomic_fetch_add hands each call *)
(* the counter's current value and increments it; an operator takes the   *)
(* value (or the values) the calls obtained.  Node lists are sequences,    *)
(* index shards are numbered from 0 as in index_shard_nodes_.              *)
(***************************************************************************)
EXTENDS Integers, Sequences, FiniteSets, Functions

(* kMaxRetries of the engine's read-request senders.                      *)
kMaxRetries == 3

(* StorageShard::PickStorageNode with the counter value idx.              *)
PickStorageNode(storage_nodes, idx) ==
    storage_nodes[(idx % Len(storage_nodes)) + 1]

(* StorageShard::PickIndexShard with the counter value sx.                *)
PickIndexShard(num_index_shards, sx) == sx % num_index_shards

(* StorageShard::PickIndexNode(shard) with shard's replica counter idx.  *)
PickIndexNode(index_shard_nodes, shard, idx) ==
    LET index_nodes == index_shard_nodes[shard]
    IN  index_nodes[(idx % Len(index_nodes)) + 1]

(* Mutant: the loop stops one shard early.                               *)
PickIndexNodePerShardShort(index_shard_nodes, sx, next_replica) ==
    LET num == Cardinality(DOMAIN index_shard_nodes)
        first_shard == PickIndexShard(num, sx)
    IN  [k \in 1 .. num - 1 |->
            LET shard == (first_shard + k - 1) % num
            IN  PickIndexNode(index_shard_nodes, shard, next_replica[shard])]

(* StorageShard::PickIndexNodePerShard: from the shard PickIndexShard     *)
(* names, for i in first_shard .. num + first_shard - 1, the index node    *)
(* PickIndexNode picks for shard i % num, appended in that order.  Each    *)
(* shard is visited once, so its replica counter yields next_replica.      *)
PickIndexNodePerShard(index_shard_nodes, sx, next_replica) ==
    LET num == Cardinality(DOMAIN index_shard_nodes)
        first_shard == PickIndexShard(num, sx)
    IN  [k \in 1 .. num |->
            LET shard == (first_shard + k - 1) % num
            IN  PickIndexNode(index_shard_nodes, shard, next_replica[shard])]

(* Mutant: the storage node is picked once, before the loop.             *)
RECURSIVE ReadAttemptsPickOnce(_, _, _, _)
ReadAttemptsPickOnce(storage_nodes, idxs, unreachable, i) ==
    IF i >= kMaxRetries THEN <<>>
    ELSE LET storage_id == PickStorageNode(storage_nodes, idxs[1])
         IN  <<storage_id>> \o
             IF storage_id \notin unreachable THEN <<>>
             ELSE ReadAttemptsPickOnce(storage_nodes, idxs, unreachable, i + 1)

(* The loop of SendStorageReadRequest from iteration i: each iteration    *)
(* picks a storage node with the next counter value the caller obtains    *)
(* (idxs[i + 1]) and sends; a send fails exactly when the node is          *)
(* unreachable, and the loop returns on the first success.  The result is *)
(* the sequence of nodes tried.                                            *)
RECURSIVE ReadAttempts(_, _, _, _)
ReadAttempts(storage_nodes, idxs, unreachable, i) ==
    IF i >= kMaxRetries THEN <<>>
    ELSE LET storage_id == PickStorageNode(storage_nodes, idxs[i + 1])
         IN  <<storage_id>> \o
             IF storage_id \notin unreachable THEN <<>>
             ELSE ReadAttempts(storage_nodes, idxs, unreachable, i + 1)

(* SendStorageReadRequest returns true when its last attempt succeeded.   *)
SendStorageReadRequest(storage_nodes, idxs, unreachable) ==
    LET tried == ReadAttempts(storage_nodes, idxs, unreachable, 0)
    IN  tried[Len(tried)] \notin unreachable
=============================================================================
