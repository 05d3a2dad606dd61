SPECIFICATION FairSpec
CONSTANTS
    MaxConns = 3
INVARIANTS
    OneActorAtATime
    LoopOutlivesConnections
    StopsOnlyItsConnection
PROPERTIES
    ConnectedGetsActor
    FreeReturns
