---------------------------- MODULE PureAlgorithms ----------------------------
(***************************************************************************)
(* The pure algorithms of the shared log against reference definitions,   *)
(* over every input within the bounds.  A state is one input: an          *)
(* index-shard table with picker counters for                              *)
(* StorageShard::PickIndexNodePerShard, or a storage shard with            *)
(* unreachable replicas for SendStorageReadRequest.  The median rule of    *)
(* UpdateMetaLogReplicatedPosition is checked in the pipeline, against     *)
(* the metalog copies the backups hold (ReplicatedByMajority).             *)
(***************************************************************************)
EXTENDS ViewPickers, FiniteSets, TLC

CONSTANTS
    IndexNodes,       \* index node ids
    MaxIndexShards,   \* num_index_shards_
    StorageNodes,     \* storage node ids
    MaxCounter        \* largest picker counter value

VARIABLE input

(* Node lists of a shard: distinct nodes, at most two.                    *)
NodeLists(S) == UNION {{l \in [1 .. k -> S] : IsInjective(l)} : k \in 1 .. 2}

Blank == [check |-> "none", table |-> <<>>, sx |-> 0,
          next_replica |-> <<>>, storage_nodes |-> <<>>, idxs |-> <<>>,
          unreachable |-> {}]

IndexInputs ==
    UNION {{[Blank EXCEPT !.check = "index", !.table = t, !.sx = sx, !.next_replica = r] :
              t \in [0 .. n - 1 -> NodeLists(IndexNodes)], sx \in 0 .. MaxCounter,
              r \in [0 .. n - 1 -> 0 .. MaxCounter]} : n \in 1 .. MaxIndexShards}

(* A read sent by a caller alone: its fetch_adds return consecutive       *)
(* values.  At least one replica of the shard is reachable.               *)
ReadInputs ==
    UNION {{[Blank EXCEPT !.check = "read", !.storage_nodes = l,
                          !.idxs = [i \in 1 .. kMaxRetries |-> c + i - 1],
                          !.unreachable = u] :
              c \in 0 .. MaxCounter, u \in SUBSET Range(l) \ {Range(l)}} :
           l \in UNION {{l \in [1 .. k -> StorageNodes] : IsInjective(l)} : k \in 1 .. 3}}

Init == input \in IndexInputs \cup ReadInputs

Next == UNCHANGED input

-----------------------------------------------------------------------------
(* PickIndexNodePerShard, whatever its counters, names one index node of   *)
(* each index shard: there is a one-to-one assignment of the picked nodes  *)
(* to the shards 0 .. num_index_shards - 1 in which each picked node       *)
(* serves its shard, so a query fanned out to them reaches every shard.    *)
IndexNodesOnePerShard ==
    input.check = "index" =>
        LET n == Cardinality(DOMAIN input.table)
            picked == PickIndexNodePerShard(input.table, input.sx, input.next_replica)
        IN  /\ Len(picked) = n
            /\ \E g \in Bijection(1 .. n, 0 .. n - 1) :
                  \A k \in 1 .. n : picked[k] \in Range(input.table[g[k]])

(* Spec 4.4 and 5: sends are retried up to three times, each retry on the  *)
(* next replica of the shard.  A read sent alone to a shard of at most     *)
(* kMaxRetries replicas is delivered if any replica is reachable.          *)
ReadReachesReachableReplica ==
    input.check = "read" =>
        SendStorageReadRequest(input.storage_nodes, input.idxs, input.unreachable)
=============================================================================
