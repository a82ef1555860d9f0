----------------------------- MODULE NodeManager -----------------------------
(***************************************************************************)
(* The gateway's NodeManager (src/src/gateway/node_manager.cpp): the       *)
(* engine nodes new function calls are routed to, with per-node in-flight  *)
(* counters and the set of running calls.  Every method holds mu_, so each *)
(* is one atomic step.  Node objects are heap allocations owned by         *)
(* connected_nodes_ (unique_ptr); connected_node_list_ holds raw pointers  *)
(* to them.  An allocation is an index into `objs`, the sequence of the    *)
(* node ids of the Node objects made so far; `freed` holds the destroyed.  *)
(*                                                                         *)
(* The membership oracle (node and scale watchers, not among the sources)  *)
(* delivers, per engine node, online, then possibly a scale-in, then       *)
(* offline, and the node may come online again.                            *)
(***************************************************************************)
EXTENDS Integers, Sequences, FiniteSets, Functions, TLC

CONSTANTS
    NodeIds,               \* engine node ids
    CallIds,               \* full_call_id of the function calls
    MaxRunningPerNode,     \* FLAGS_max_running_requests (0: no limit)
    LbPolicy,              \* RoundRobin, LeastLoad or RandomPick
    RoundRobin, LeastLoad, RandomPick,
    MaxNodeObjects,        \* Node objects made over a behaviour
    ScaleIn,               \* the scale watcher may report kScaleIn
    NoNode                 \* no node picked yet

VARIABLES
    objs,                   \* object -> node_id it was made for
    freed,                  \* objects destroyed
    inflight,               \* object -> inflight_requests
    connected_nodes,        \* node_id -> object (owning)
    connected_node_list,    \* sequence of objects (raw pointers)
    running_requests,       \* full_call_ids
    max_running_requests,
    next_dispatch_node_idx, \* the per-function round-robin counter
    membership,             \* node_id -> what the watchers reported last
    dispatched              \* call -> node_id it was sent to, once picked

nm_vars == <<objs, freed, inflight, connected_nodes, connected_node_list,
             running_requests, max_running_requests, next_dispatch_node_idx,
             membership, dispatched>>



Init ==
    /\ objs = <<>>
    /\ freed = {}
    /\ inflight = <<>>
    /\ connected_nodes = [n \in {} |-> 0]
    /\ connected_node_list = <<>>
    /\ running_requests = {}
    /\ max_running_requests = 0
    /\ next_dispatch_node_idx = 0
    /\ membership = [n \in NodeIds |-> "offline"]
    /\ dispatched = [c \in CallIds |-> NoNode]

(* The index the load-balancing policy picks in a list of length > 0.      *)
PickIndices ==
    CASE LbPolicy = RoundRobin ->
            {(next_dispatch_node_idx % Len(connected_node_list)) + 1}
      [] LbPolicy = LeastLoad ->
            \* c_min_element: the first index with the least inflight_requests
            {CHOOSE i \in DOMAIN connected_node_list :
                \A j \in DOMAIN connected_node_list :
                    /\ inflight[connected_node_list[i]] <= inflight[connected_node_list[j]]
                    /\ (j < i => inflight[connected_node_list[i]] < inflight[connected_node_list[j]])}
      [] LbPolicy = RandomPick -> DOMAIN connected_node_list

(* PickNodeForNewFuncCall for a new call; it fails without a change when  *)
(* no node is listed or the running calls exceed the limit.  The chosen   *)
(* object is read whether or not it was freed (the read is the one        *)
(* outcome of the use-after-free the model follows).                      *)
PickNodeForNewFuncCall(c) ==
    /\ dispatched[c] = NoNode
    /\ connected_node_list # <<>>
    /\ ~(max_running_requests > 0 /\ Cardinality(running_requests) > max_running_requests)
    /\ \E i \in PickIndices :
          LET o == connected_node_list[i]
          IN  /\ inflight' = [inflight EXCEPT ![o] = @ + 1]
              /\ running_requests' = running_requests \cup {c}
              /\ dispatched' = [dispatched EXCEPT ![c] = objs[o]]
    /\ next_dispatch_node_idx' =
          IF LbPolicy = RoundRobin THEN next_dispatch_node_idx + 1 ELSE next_dispatch_node_idx
    /\ UNCHANGED <<objs, freed, connected_nodes, connected_node_list,
                   max_running_requests, membership>>

(* FuncCallFinished for a call sent to node_id: the call stops running    *)
(* and the Node now registered under node_id is decremented, if any.      *)
FuncCallFinished(c) ==
    LET n == dispatched[c]
    IN  /\ c \in running_requests
        /\ running_requests' = running_requests \ {c}
        /\ inflight' = IF n \in DOMAIN connected_nodes
                       THEN [inflight EXCEPT ![connected_nodes[n]] = @ - 1]
                       ELSE inflight
        /\ UNCHANGED <<objs, freed, connected_nodes, connected_node_list,
                       max_running_requests, next_dispatch_node_idx,
                       membership, dispatched>>

(* Mutant: the new Node is listed as the previously made one.             *)
OnNodeOnlineStale(n) ==
    /\ membership[n] = "offline"
    /\ Len(objs) < MaxNodeObjects
    /\ membership' = [membership EXCEPT ![n] = "online"]
    /\ objs' = Append(objs, n)
    /\ inflight' = Append(inflight, 0)
    /\ connected_node_list' = Append(connected_node_list, Len(objs))
    /\ connected_nodes' = connected_nodes @@ (n :> Len(objs) + 1)
    /\ max_running_requests' = MaxRunningPerNode * Cardinality(DOMAIN connected_nodes')
    /\ UNCHANGED <<freed, running_requests, next_dispatch_node_idx, dispatched>>

(* OnNodeOnline for an engine node: a new Node object is listed and owned  *)
(* under node_id, and the limit follows the number of owned nodes.         *)
OnNodeOnline(n) ==
    LET o == Len(objs) + 1
        owned == connected_nodes @@ (n :> o)
    IN  /\ membership[n] = "offline"
        /\ Len(objs) < MaxNodeObjects
        /\ membership' = [membership EXCEPT ![n] = "online"]
        /\ objs' = Append(objs, n)
        /\ inflight' = Append(inflight, 0)
        /\ connected_node_list' = Append(connected_node_list, o)
        /\ connected_nodes' = owned
        /\ max_running_requests' = MaxRunningPerNode * Cardinality(DOMAIN owned)
        /\ UNCHANGED <<freed, running_requests, next_dispatch_node_idx, dispatched>>

(* Mutant: the node is erased from the map but the list is not rebuilt.   *)
OnNodeOfflineNoRebuild(n) ==
    /\ membership[n] \in {"online", "scaled_in"}
    /\ membership' = [membership EXCEPT ![n] = "offline"]
    /\ freed' = freed \cup {connected_nodes[m] : m \in DOMAIN connected_nodes \cap {n}}
    /\ connected_nodes' = Restrict(connected_nodes, DOMAIN connected_nodes \ {n})
    /\ max_running_requests' = MaxRunningPerNode * Cardinality(DOMAIN connected_nodes')
    /\ UNCHANGED <<objs, inflight, connected_node_list, running_requests,
                   next_dispatch_node_idx, dispatched>>

(* OnNodeOffline: the Node under node_id is destroyed and the list is     *)
(* rebuilt from the owned nodes.                                          *)
OnNodeOffline(n) ==
    LET owned == Restrict(connected_nodes, DOMAIN connected_nodes \ {n})
    IN  /\ membership[n] \in {"online", "scaled_in"}
        /\ membership' = [membership EXCEPT ![n] = "offline"]
        /\ freed' = freed \cup (Range(connected_nodes) \ Range(owned))
        /\ connected_nodes' = owned
        /\ connected_node_list' \in {s \in [1 .. Cardinality(Range(owned)) -> Range(owned)] :
                                        Range(s) = Range(owned)}
        /\ max_running_requests' = MaxRunningPerNode * Cardinality(DOMAIN owned)
        /\ UNCHANGED <<objs, inflight, running_requests, next_dispatch_node_idx, dispatched>>

(* OnNodeScaled(kScaleIn): the Node under node_id is destroyed; the list  *)
(* and the limit are left as they are.  kScaleOut does nothing.           *)
OnNodeScaledIn(n) ==
    /\ ScaleIn
    /\ membership[n] = "online"
    /\ membership' = [membership EXCEPT ![n] = "scaled_in"]
    /\ freed' = freed \cup {connected_nodes[n]}
    /\ connected_nodes' = Restrict(connected_nodes, DOMAIN connected_nodes \ {n})
    /\ UNCHANGED <<objs, inflight, connected_node_list, running_requests,
                   max_running_requests, next_dispatch_node_idx, dispatched>>

Next ==
    \/ \E c \in CallIds : PickNodeForNewFuncCall(c) \/ FuncCallFinished(c)
    \/ \E n \in NodeIds : OnNodeOnline(n) \/ OnNodeOffline(n) \/ OnNodeScaledIn(n)

Spec == Init /\ [][Next]_nm_vars

-----------------------------------------------------------------------------
Objects == 1 .. MaxNodeObjects

TypeOK ==
    /\ objs \in Seq(NodeIds) /\ Len(objs) <= MaxNodeObjects
    /\ freed \subseteq DOMAIN objs
    /\ inflight \in [DOMAIN objs -> Int]
    /\ DOMAIN connected_nodes \subseteq NodeIds
    /\ \A n \in DOMAIN connected_nodes : objs[connected_nodes[n]] = n
    /\ \A i \in DOMAIN connected_node_list : connected_node_list[i] \in DOMAIN objs
    /\ running_requests \subseteq CallIds
    /\ dispatched \in [CallIds -> NodeIds \cup {NoNode}]

(* After the watchers report an engine node offline, no new function call *)
(* is routed to it: PickNodeForNewFuncCall only draws from                 *)
(* connected_node_list_, which OnNodeOffline rebuilds from the owned       *)
(* nodes; a stale entry there would route calls to a node that is gone.    *)
RoutingOnlyToOnlineNodes ==
    \A i \in DOMAIN connected_node_list :
        membership[objs[connected_node_list[i]]] # "offline"

(* Spec: scale-in removes a node from routing.  Every Node that            *)
(* PickNodeForNewFuncCall may dereference (the one it picks, and for       *)
(* least-load dispatch every listed one) is still owned by                 *)
(* connected_nodes_, i.e. not freed.                                        *)
NoDanglingRoutingEntry ==
    \A i \in DOMAIN connected_node_list : connected_node_list[i] \notin freed
=============================================================================
