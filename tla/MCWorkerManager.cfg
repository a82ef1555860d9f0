CONSTANTS
    i1 = i1
    i2 = i2
    i3 = i3
    Invokes <- MCInvokes
    InputOf <- MCInputOf
    IsGrpcService = TRUE
    ClientId = 7
    MsgUnits = 2
    HsUnits = 1
    MaxOutgoing = 2
    MaxRedeliveries = 1
SPECIFICATION Spec
INVARIANTS
    TypeOK
    OutgoingCallsCarryClientId
    OpenRegionsOwned
PROPERTIES
    AllInvokesAnswered
    InvocationRefinement
CHECK_DEADLOCK FALSE
