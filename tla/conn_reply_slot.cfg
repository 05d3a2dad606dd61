SPECIFICATION Spec
CONSTANTS
    i1 = i1
    i2 = i2
    i3 = i3
    i4 = i4
    NoId = NoId
    Ids <- FourIds
    Kinds <- OnlyAck
    MaxOther = 1
    InCap = 1
    OutCap = 1
    ReqCap = 1
    RespCap = 2
    Timers = {FALSE}
SYMMETRY Symmetry
INVARIANT
    ReplySlotAvailable
