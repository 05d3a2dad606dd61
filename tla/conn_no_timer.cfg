SPECIFICATION Spec
CONSTANTS
    i1 = i1
    i2 = i2
    i3 = i3
    i4 = i4
    NoId = NoId
    Ids <- TwoIds
    Kinds <- Benign
    MaxOther = 2
    InCap = 2
    OutCap = 1
    ReqCap = 1
    RespCap = 2
    Timers = {FALSE}
SYMMETRY Symmetry
INVARIANT
    ActorNeverPanics
