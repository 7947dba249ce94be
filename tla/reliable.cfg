SPECIFICATION Spec
CONSTANTS
    Router = {r1, r2}
    RetransMax = 2
    MaxSeq = 2
    Late = TRUE
    MaxBuilt = 3
    MaxLosses = 1
    MaxFailures = 1
    MaxOutput = 1
SYMMETRY Alike
INVARIANTS
    TypeOK
    HeadTimed
    StopAndWait
    PendingHoldsInit
PROPERTIES
    ImplementsChannel
    OldInitIgnored
CHECK_DEADLOCK FALSE
