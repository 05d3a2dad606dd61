SPECIFICATION FairSpec
CONSTANTS
    Jobs = {j1, j2}
    Workers = {w1, w2}
    QueueCap = 1
    Hanging = {j1}
    None = None
INVARIANTS
    IInv
    DrainedOnReturn
PROPERTIES
    ImplementsContract
    
    
