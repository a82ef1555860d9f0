----------------------------- MODULE LogProducer -----------------------------
(***************************************************************************)
(* The log producers of the engines of one phylog: LogProducer in          *)
(* src/src/log/log_space.cpp.  Every engine appends through the storage    *)
(* shard it owns, so producers are indexed by that shard.  A producer      *)
(* hands out local ids, keeps the pending appends, and turns them into     *)
(* append results when a metalog entry covering them is applied.           *)
(* caller_data is identified with the local id of its append.  The engine  *)
(* polls the results in the handler that produced them, so                 *)
(* pending_append_results accumulates the results the engine has sent.     *)
(***************************************************************************)
EXTENDS SharedLogCommon

CONSTANTS
    Shards

VARIABLES
    next_localid,             \* shard -> low half of the next local id
    pending_appends,          \* shard -> low halves of the pending local ids
    pending_append_results,   \* shard -> results produced (and sent)
    metalog_position,         \* LogSpaceBase: shard -> entries applied
    seqnum_position           \* LogSpaceBase: shard -> next seqnum

producer_vars == <<next_localid, pending_appends, pending_append_results,
                   metalog_position, seqnum_position>>

AppendResult(seqnum, localid, progress) ==
    [seqnum |-> seqnum, localid |-> localid, metalog_progress |-> progress]

ProducerInit ==
    /\ next_localid = [s \in Shards |-> 0]
    /\ pending_appends = [s \in Shards |-> {}]
    /\ pending_append_results = [s \in Shards |-> {}]
    /\ metalog_position = [s \in Shards |-> 0]
    /\ seqnum_position = [s \in Shards |-> 0]

(* LocalAppend: the next local id becomes pending.                         *)
LocalAppend(s) ==
    /\ pending_appends' = [pending_appends EXCEPT ![s] = @ \cup {next_localid[s]}]
    /\ next_localid' = [next_localid EXCEPT ![s] = @ + 1]
    /\ UNCHANGED <<pending_append_results, metalog_position, seqnum_position>>

(* The local ids a NEW_LOGS entry assigns to the producer's shard.         *)
Covered(s, e) == {p[2][2] : p \in Assigned(e, {s})}

(* Applying metalog entry e: OnNewLogs for the producer's shard, then the  *)
(* LogSpaceBase positions advance.  OnNewLogs is fatal when a covered     *)
(* local id is not pending, so the step is only taken when all are.       *)
(* metalog_progress is metalog_seqnum + 1, the entry's 1-based position.  *)
ApplyMetaLog(s, e) ==
    /\ Covered(s, e) \subseteq pending_appends[s]
    /\ pending_append_results' = [pending_append_results EXCEPT ![s] = @ \cup
          {AppendResult(p[1], p[2], metalog_position[s] + 1) : p \in Assigned(e, {s})}]
    /\ pending_appends' = [pending_appends EXCEPT ![s] = @ \ Covered(s, e)]
    /\ metalog_position' = [metalog_position EXCEPT ![s] = @ + 1]
    /\ seqnum_position' = [seqnum_position EXCEPT ![s] = @ + TotalDelta(e)]
    /\ UNCHANGED next_localid

(* kInvalidLogSeqNum: not a seqnum of any log.                             *)
InvalidLogSeqNum == -1

(* OnFinalized: every append still pending fails with kInvalidLogSeqNum.  *)
OnFinalized(s) ==
    /\ pending_append_results' = [pending_append_results EXCEPT ![s] = @ \cup
          {AppendResult(InvalidLogSeqNum, LocalId(s, n), 0) : n \in pending_appends[s]}]
    /\ pending_appends' = [pending_appends EXCEPT ![s] = {}]
    /\ UNCHANGED <<next_localid, metalog_position, seqnum_position>>

=============================================================================
