\* An engine configured not to postpone anything (no flag value divides its
\* node id) receives worker operations before its view is registered.
CONSTANTS
    c1 = c1  c2 = c2  TheView = TheView  NoCall = NoCall  NoView = NoView
    CallIds <- MCCallIds
    NodeId = 2
    RegistrationArgs = {}
    CachingArgs = {}
    MaxProgress = 2
    MaxLocalOps = 3
SPECIFICATION Spec
INVARIANT FakeAckOnlyWhenPostponed
CHECK_DEADLOCK FALSE
