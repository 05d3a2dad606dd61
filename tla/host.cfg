SPECIFICATION FairSpec
CONSTANTS
    Threads = {t1, t2}
    Conns = {c1, c2}
    Nobody = Nobody
    MaxJobs = 1
INVARIANTS
    NoUseAfterFree
    CallbacksFindTheirState
    AnswersReachTheLibrary
PROPERTIES
    ContextCloseReturns
