SPECIFICATION Spec
CONSTANTS
    Callers = {p1, p2}
    InCap = 1
    OutCap = 1
    MaxOwed = 2
    Initial = 2
    MaxBackoff = 6
INVARIANT
    CleanupAnswersAreQueued
