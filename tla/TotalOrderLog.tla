---------------------------- MODULE TotalOrderLog ----------------------------
(***************************************************************************)
(* What the append path of a phylog promises (spec sections 1, 5 and 8):   *)
(* engines issue appends; the log is a single sequence that only grows,    *)
(* holds each issued append at most once and each engine's appends in the *)
(* order they were issued; an append is answered with seqnum n only if it  *)
(* is the entry at position n of the log.  The spec is used as a property *)
(* of SharedLogPipeline through a refinement mapping.                      *)
(***************************************************************************)
EXTENDS Integers, Sequences, FiniteSets, SequencesExt

CONSTANTS Shards

VARIABLES
    issued,   \* shard -> number of appends issued by its engine
    log,      \* the sequence of local ids, position n + 1 holds seqnum n
    acked     \* <<seqnum, local id>> answered to function workers

(* The i-th entry of a shard in the log is that shard's i-th append.       *)
ShardOrdered(l) ==
    \A i \in 1 .. Len(l) :
        l[i][2] = Cardinality({j \in 1 .. i - 1 : l[j][1] = l[i][1]})

IssuedOnly(l) ==
    \A i \in 1 .. Len(l) : l[i][1] \in Shards /\ l[i][2] < issued[l[i][1]]

Init ==
    /\ issued = [s \in Shards |-> 0]
    /\ log = <<>>
    /\ acked = {}

Issue(s) ==
    /\ issued' = [issued EXCEPT ![s] = @ + 1]
    /\ UNCHANGED <<log, acked>>

(* Some issued appends are ordered after the current log.                  *)
Order ==
    /\ IsStrictPrefix(log, log')
    /\ ShardOrdered(log')
    /\ IssuedOnly(log')
    /\ UNCHANGED <<issued, acked>>

(* Some appends of the log are answered with their position.               *)
Respond ==
    /\ acked \subseteq acked' /\ acked' # acked
    /\ \A a \in acked' : a[1] \in 0 .. Len(log) - 1 /\ log[a[1] + 1] = a[2]
    /\ UNCHANGED <<issued, log>>

Next == (\E s \in Shards : Issue(s)) \/ Order \/ Respond

Spec == Init /\ [][Next]_<<issued, log, acked>>
=============================================================================
