SPECIFICATION Spec
CONSTANTS
    Jobs = {j1, j2}
    Workers = {w1, w2}
    QueueCap = 2
    Hanging = {}
    None = None
SYMMETRY Symmetry
INVARIANT
    WgNeverNegative
