SPECIFICATION FairSpec
CONSTANTS
    Router = {r1, r2}
    RetransMax = 3
    MaxSeq = 4
    Late = FALSE
    MaxBuilt = 3
    MaxLosses = 2
    MaxFailures = 0
    MaxOutput = 2
PROPERTIES
    BecomesFull
CHECK_DEADLOCK FALSE
