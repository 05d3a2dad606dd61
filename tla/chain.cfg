SPECIFICATION Spec
CONSTANTS
    Inputs <- MCInputs
    Roots <- MCRoots
    Ids <- MCIds
    Pairs <- MCPairs
    MaxIntermediates = 6
    MaxSubCaCount = 6
    Now = 56
    NoCert = NoCert
    NoId = NoId
INVARIANTS
    OutcomeIsExpected
    AcceptedIsAuthentic
    RejectedHasNoPath
    DepthLimitNotReached
PROPERTIES
    ImplementsStore
