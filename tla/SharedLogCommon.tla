--------------------------- MODULE SharedLogCommon ---------------------------
(***************************************************************************)
(* Definitions shared by the components of one physical log (phylog):     *)
(* local ids and NEW_LOGS metalog entries, and how a subscriber derives    *)
(* the seqnum range of each shard from an entry.  The derivation lives in  *)
(* LogSpaceBase (log_space_base.cc), which is not among the sources, so it *)
(* is modelled from the spec (section 4.1 and 4.2).                        *)
(***************************************************************************)
EXTENDS Integers, Sequences, FiniteSets, FiniteSetsExt, Functions

(* A local id is storage_shard_id (high half) joined with a per-shard     *)
(* counter (low half); the model keeps the two halves as a pair.          *)
LocalId(shard, n) == <<shard, n>>

(* One (shard_id, shard_start, shard_delta) triple of a NEW_LOGS entry.    *)
Cut(shard, start, delta) == [shard |-> shard, start |-> start, delta |-> delta]

(* Sum of the deltas of the first k triples of a NEW_LOGS entry.           *)
RECURSIVE DeltaPrefix(_, _)
DeltaPrefix(cuts, k) ==
    IF k = 0 THEN 0 ELSE DeltaPrefix(cuts, k - 1) + cuts[k].delta

TotalDelta(e) == DeltaPrefix(e.cuts, Len(e.cuts))

(* The first seqnum of the i-th triple: the shards of an entry take        *)
(* consecutive seqnum ranges from start_seqnum on, in the entry's order.   *)
ShardStartSeqnum(e, i) == e.start_seqnum + DeltaPrefix(e.cuts, i - 1)

(* The (seqnum, localid) pairs an entry assigns to the shards in S.        *)
Assigned(e, S) ==
    UNION { { <<ShardStartSeqnum(e, i) + k, LocalId(e.cuts[i].shard, e.cuts[i].start + k)>> :
                k \in 0 .. e.cuts[i].delta - 1 } :
            i \in {j \in 1 .. Len(e.cuts) : e.cuts[j].shard \in S} }

(* The replicated metalog position MetaLogPrimary derives from the backup *)
(* progresses (UpdateMetaLogReplicatedPosition), as an operator on a      *)
(* backup -> progress function so that it can be checked on its own.     *)
(* A mutant of MedianProgress: tmp.at(tmp.size() / 2 + 1).                *)
MedianProgressAbove(f) ==
    LET n == Cardinality(DOMAIN f)
    IN  Min({v \in Range(f) : Cardinality({b \in DOMAIN f : f[b] <= v}) > n \div 2 + 1})

(* tmp.at(tmp.size() / 2) of the sorted progresses: the smallest         *)
(* value v such that more than size/2 progresses are at most v.           *)
MedianProgress(f) ==
    LET n == Cardinality(DOMAIN f)
    IN  Min({v \in Range(f) : Cardinality({b \in DOMAIN f : f[b] <= v}) > n \div 2})
=============================================================================
