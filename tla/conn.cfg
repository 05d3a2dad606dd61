SPECIFICATION FairSpec
CONSTANTS
    i1 = i1
    i2 = i2
    i3 = i3
    i4 = i4
    NoId = NoId
    Ids <- TwoIds
    Kinds <- AllKinds
    MaxOther = 2
    InCap = 1
    OutCap = 1
    ReqCap = 1
    RespCap = 2
    Timers = {TRUE, FALSE}
INVARIANTS
    DispatchedOnlyWhenActive
    AnsweredAtMostOnce
    NoCallbackAfterDisconnect
PROPERTIES
    RequestsAnswered
    RecvUnblocks
    StopTerminates
    DisconnectReturns
