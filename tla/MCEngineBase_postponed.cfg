\* An engine postponing registration and caching (node 2, flags "2" and
\* "1"): two calls, one possibly internal to the other, with operations
\* finishing out of order, and the activation znodes at any point.
CONSTANTS
    c1 = c1  c2 = c2  TheView = TheView  NoCall = NoCall  NoView = NoView
    CallIds <- MCCallIds
    NodeId = 2
    RegistrationArgs = {2}
    CachingArgs = {1}
    MaxProgress = 2
    MaxLocalOps = 3
SPECIFICATION Spec
INVARIANTS
    TypeOK
    
PROPERTY
    EventuallyRegistered
\* Once both calls are done and the bound on operations is reached the
\* engine waits for new function calls.
CHECK_DEADLOCK FALSE
