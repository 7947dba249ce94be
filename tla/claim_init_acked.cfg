SPECIFICATION FairSpec
CONSTANTS
    Router = {r1, r2}
    RetransMax = 3
    MaxSeq = 4
    Late = FALSE
    MaxBuilt = 0
    MaxLosses = 0
    MaxFailures = 1
    MaxOutput = 2
PROPERTIES
    InitAckedInEot
CHECK_DEADLOCK FALSE
