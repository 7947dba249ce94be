SPECIFICATION Spec
CONSTANTS
    n1 = n1
    n2 = n2
    Nbr = {n1, n2}
    NoNbr = none
    MaxMetric = 31
    Heard <- EdgeHeard
    StackBw = {0}
    LinkBw <- MCLinkBw
    LinkDelay <- EqualDelay
    FilteredIn = {n1}
    Variance = 2
    MaxPaths = 2
    WorkBound = 1
    ChangesBound = 1
INVARIANTS
    BestRouteFirst
    PassiveStandsForBest
    SuccessorsFeasible
    HopsAccounted
PROPERTIES
    ActiveFrozen
    EndsOnLastReply
CHECK_DEADLOCK FALSE
