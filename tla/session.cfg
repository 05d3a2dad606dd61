SPECIFICATION FairSpec
CONSTANTS
    Nonces = {n1, n2}
    ServerNonces = {s1}
    Plain = {"garbage", "Ping", "SetReconnectionData"}
    Unsigned = {"short"}
    NoNonce = NoNonce
    NoConnId = NoConnId
    ChosenId = ChosenId
    NoId = 0
    MaxConns = 2
    MaxMessages = 3
    Durations = {1}
    EventCap = 1
    IOCap = 1
    ReqCap = 1
    RespCap = 2
    Results = {"response"}
INVARIANTS
    
    RepliesAreExpected
    ResponsesCorrelate
    HelloReportsLastDuration
PROPERTIES
    ShutdownReturns
