\* Spec: scale-in removes a node from routing; the code frees the Node but
\* leaves its pointer in connected_node_list_.
CONSTANTS
    n1 = n1  n2 = n2  c1 = c1  c2 = c2  c3 = c3
    RoundRobin = RoundRobin  LeastLoad = LeastLoad  RandomPick = RandomPick  NoNode = NoNode
    NodeIds <- MCNodeIds
    CallIds <- MCCallIds
    MaxRunningPerNode = 1
    LbPolicy = RandomPick
    MaxNodeObjects = 3
    ScaleIn = TRUE
SPECIFICATION Spec
INVARIANTS
    NoDanglingRoutingEntry
\* Once the node objects are used up and every call has finished, nothing
\* is left to do.
CHECK_DEADLOCK FALSE
