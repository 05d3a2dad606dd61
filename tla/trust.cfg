SPECIFICATION FairSpec
CONSTANTS
    Ids <- MCIds
    Roots <- MCRoots
    Certs <- MCCerts
    MaxIntermediates = 2
    Validators = {v1, v2}
    NoCert = NoCert
    NoId = NoId
INVARIANTS
    ChainIsLinked
    VerdictIsRight
    IInv
PROPERTY
    BuildingEnds
