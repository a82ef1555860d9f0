------------------------ MODULE MCSharedLogPipeline ------------------------
(***************************************************************************)
(* SharedLogPipeline instantiated for TLC: storage shards of one          *)
(* sequencer on two storage nodes, one to three backup sequencers, and    *)
(* the bounds each run uses.                                               *)
(***************************************************************************)
EXTENDS SharedLogPipeline, TLC

CONSTANTS s1, s2, st1, st2, b1, b2, b3

MCShards == {s1, s2}
MCStorages == {st1, st2}
(* s1 is replicated on both storages, s2 on st2 only: st2 holds entries  *)
(* of two shards and s1's replicated position is a min over two reports. *)
MCShardStorages == (s1 :> MCStorages) @@ (s2 :> {st2})
MCNoReads == {}

(* A read of seqnum 1 at st1, which holds only s1: it may be parked,     *)
(* served live, sent to the database after eviction, or fail when the    *)
(* seqnum went to s2.                                                    *)
MCReads == {<<st1, 1>>}

(* Two appends of s1, so that they can reach a storage out of order; one *)
(* of s2.                                                               *)
MCMaxAppends == (s1 :> 2) @@ (s2 :> 1)

(* A single shard replicated on both storages, for the liveness runs.    *)
MCOneShard == {s1}
MCOneShardStorages == s1 :> MCStorages
MCOneShardAppends == s1 :> 2
MCOneBackup == {b1}
MCThreeBackups == {b1, b2, b3}

(* Backups are interchangeable: the primary treats their reports alike.  *)
MCBackupSymmetry == Permutations(MCThreeBackups)
=============================================================================
